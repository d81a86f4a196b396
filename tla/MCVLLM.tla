------------------------------- MODULE MCVLLM -------------------------------
(* Workloads for model checking VLLMServing on three requests.              *)
EXTENDS VLLMServing

CONSTANTS r1, r2, r3

MCReq == {r1, r2, r3}
MCToken == 1..20

\* The third prompt continues the first one with the tokens it generates.
MCPrompt == (r1 :> <<1, 2, 3>>) @@ (r2 :> <<1, 2>>) @@ (r3 :> <<1, 2, 3, 11, 12, 13, 5>>)
MCOutput == (r1 :> <<11, 12, 13, 14>>) @@ (r2 :> <<>>) @@ (r3 :> <<16>>)
=============================================================================
