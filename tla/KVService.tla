----------------------------- MODULE KVService -----------------------------
(***************************************************************************)
(* What a KV-cache backend promises the scheduler, the contract of          *)
(* KVBackend (src/simulator/kv_cache/base.py) "in num_computed_tokens       *)
(* semantics": how many tokens it holds for each request, seen from outside *)
(* of the handlers.  Matching, eviction, drafts, rejected slots and refused *)
(* allocations are internal: from here they are stuttering steps.           *)
(* SGLangServing and VLLMServing implement it.                              *)
(***************************************************************************)
EXTENDS Integers

CONSTANTS
    Req,         \* request handles
    PromptLen,   \* PromptLen[r]: tokens of the prompt
    OutputLen,   \* OutputLen[r]: tokens of the ground truth
    NumSpec      \* drafts of a decode step

VARIABLES
    status,      \* status[r]: "prefill", "decoding", "finished", "freed"
    held,        \* held[r]: tokens the backend holds for r
    produced     \* produced[r]: output tokens synced for r

serviceVars == <<status, held, produced>>

\* create_request: nothing is held yet
Init ==
    /\ status = [r \in Req |-> "prefill"]
    /\ held = [r \in Req |-> 0]
    /\ produced = [r \in Req |-> 0]

\* get_computed_blocks and allocate_slots together cover the whole prompt,
\* cached or not, or nothing changes
Prefill(r) ==
    /\ status[r] = "prefill"
    /\ held' = [held EXCEPT ![r] = PromptLen[r]]
    /\ status' = [status EXCEPT ![r] = "decoding"]
    /\ UNCHANGED produced

\* allocate_slots, free_rejected_slots and sync_state of one decode step: what
\* is held grows by the n accepted tokens, the bonus among them
Decode(r, n) ==
    /\ status[r] = "decoding" /\ n <= OutputLen[r] - produced[r]
    /\ held' = [held EXCEPT ![r] = @ + n]
    /\ produced' = [produced EXCEPT ![r] = @ + n]
    /\ status' = [status EXCEPT ![r] =
                     IF produced[r] + n = OutputLen[r] THEN "finished" ELSE @]

\* The one decode step of an empty ground truth has no token to sync; whether
\* the slot allocated for it counts is left to the backend
DecodeNothing(r) ==
    /\ status[r] = "decoding" /\ OutputLen[r] = 0
    /\ \E slot \in 0..1 : held' = [held EXCEPT ![r] = @ + slot]
    /\ status' = [status EXCEPT ![r] = "finished"]
    /\ UNCHANGED produced

\* free gives everything back
Release(r) ==
    /\ status[r] = "finished"
    /\ held' = [held EXCEPT ![r] = 0]
    /\ status' = [status EXCEPT ![r] = "freed"]
    /\ UNCHANGED produced

Next ==
    \E r \in Req :
        \/ Prefill(r) \/ DecodeNothing(r) \/ Release(r)
        \/ \E n \in 1..(1 + NumSpec) : Decode(r, n)

Spec == Init /\ [][Next]_serviceVars
=============================================================================
