------------------------------ MODULE MCSystem ------------------------------
(* Workloads for model checking ServingSystem on three requests.            *)
EXTENDS ServingSystem

CONSTANTS r1, r2, r3

MCReq == {r1, r2, r3}
MCToken == 1..20
MCLoaded == <<r3, r1, r2>>

\* r3 continues the prompt of r1 and arrives while the others may still decode.
MCArrival == (r1 :> 0) @@ (r2 :> 0) @@ (r3 :> 4)
MCPrompt == (r1 :> <<1, 2>>) @@ (r2 :> <<5, 6>>) @@ (r3 :> <<1, 2, 7, 8>>)
MCOutput == (r1 :> <<11, 12, 13>>) @@ (r2 :> <<14, 15, 16>>) @@ (r3 :> <<17, 18>>)
MCLatencies == {1, 2}
=============================================================================
