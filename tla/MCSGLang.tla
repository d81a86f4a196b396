------------------------------ MODULE MCSGLang ------------------------------
(* Workloads for model checking SGLangServing on three requests.            *)
EXTENDS SGLangServing

CONSTANTS r1, r2, r3

MCReq == {r1, r2, r3}
MCToken == 1..20

\* A common first page, as the shared prefix of synthetic.py gives, one prompt a
\* page-aligned prefix of another, a request without ground truth, and one long
\* enough to have drafts rejected after its window has moved.
SharingPrompt == (r1 :> <<1, 2>>) @@ (r2 :> <<1, 2, 5>>) @@ (r3 :> <<7, 8>>)
SharingOutput == (r1 :> <<11>>) @@ (r2 :> <<>>) @@ (r3 :> <<12, 13, 14, 15, 16, 17>>)

\* One request continues what an earlier one left in the cache, while a third
\* one is being served.
StalePrompt == (r1 :> <<1, 2, 3, 4>>) @@ (r2 :> <<5, 6>>)
               @@ (r3 :> <<1, 2, 3, 4, 7, 8, 9, 10>>)
StaleOutput == (r1 :> <<11>>) @@ (r2 :> <<12, 13>>) @@ (r3 :> <<14>>)

\* A request generates what is already in the prompt of another.
RepeatPrompt == (r1 :> <<1>>) @@ (r2 :> <<1, 2>>) @@ (r3 :> <<5>>)
RepeatOutput == (r1 :> <<2, 3>>) @@ (r2 :> <<4>>) @@ (r3 :> <<6>>)
=============================================================================
