# A TLA+ model of the KV-cache simulator

This directory models the simulator in `src/simulator`: a discrete-step
simulation of an LLM serving engine that runs requests through a prefill and
many decode steps, with speculative decoding, over the KV-cache manager of
SGLang or vLLM.  The models are checked with TLC on small instances.  What the
two backends promise, what the event loop and its report promise over any backend,
that the loop with the SGLang backend implements that loop, what the synthetic
prompts have in common and are independent of, and that the parts of an engine's
setup agree are also proved with TLAPS for every instance.

## 1. The system

| Part | Source | State it keeps | Operations |
|---|---|---|---|
| Scheduler loop | `core/scheduler.py`, `core/engine.py` | `_waiting`, `_running`, `_sim_time`, `_step`, `_stall_count` | `load`, `step` (admit, handle every running request, latency, stall detection, record, cleanup, fast-forward), `run` |
| Request handlers | `core/scheduler.py`, `core/request_state.py`, `speculative/engine.py` | `SimRequestState`: status, output, computed tokens, counters | `_handle_prefill`, `_handle_decode`, `generate_draft_tokens` |
| SGLang backend | `kv_cache/sglang_backend.py` | flat index dispenser, `[swa, full]` pool counters and peaks, one row of indices per request, reclaim cursor, the external RadixCache | `get_computed_blocks`, `allocate_slots`, `free_rejected_slots`, `sync_state` (with `_reclaim_swa_out_of_window`), `free` |
| vLLM backend | `kv_cache/vllm_backend.py` | a lazily created vLLM request per handle | the same interface, delegated to vLLM |
| Acceptance model | `speculative/acceptance.py` | counters per draft position, one random generator per request | `evaluate`, `forget_request`, conversion of marginal rates |
| Metrics | `metrics/recorder.py`, `metrics/stats.py` | step records, request records | `record_step`, `record_request_done`, `compute` |
| GPU model | `metrics/gpu_perf_model.py` | fitted coefficients, clamp counters | `_fit`, `predict` |
| Workload | `data/synthetic.py`, `data/dataset_loader.py` | generators, shared prefix, last arrival | `generate`, `load` |
| Configuration, CLI | `config/*.py`, `run.py` | dataclasses | merge of file and flags, model architecture, cache groups, block sizes, pools (planned by SGLang and vLLM) |

How they interact: `run()` loads the requests and calls `step()` until it
returns False.  A step admits the requests that have arrived, and calls one
handler for each running request in turn.  A handler is a fixed sequence of
backend calls: a prefill matches the prompt, allocates the rest, and syncs; a
decode allocates one slot for the bonus token and one for each draft, asks the
acceptance model, gives back the slots of the drafts not accepted, and syncs.
The backend's RadixCache frees slots through the dispenser's `on_free` callback,
which lowers the full pool.  At the end of a step the finished requests are
freed and recorded.  Everything runs in one thread: the interleaving that makes
it hard is that of *requests*, whose handlers alternate over shared pools, a
shared prefix tree and one free list, each at its own stage.

What is hard, and what would make each part correct:

* **Three accounts of one slot.** A slot is counted by the flat dispenser, by the
  full pool and (within the window) by the SWA pool.  They are charged together
  and returned at different places (`on_free`, rollback, reclaim, finish), with
  clamps that would hide a mistake.  Correct: within capacity, exact for SWA,
  covering for the full pool, empty when all are done.
* **Row, text and tree.** The row of a request has to stay aligned with its text
  through hits, rollbacks, refused allocations and end-of-text effects; pages of
  it are shared through the tree.  Correct: one slot per computed token, a slot
  has one owner, shared only by a common prefix, never lost, never evicted while
  in use.
* **The window cursor.** Reclaiming with a page margin and a page floor must not
  touch the window, even after drafts are rolled back.
* **The loop.** Arrivals in the future, refused allocations, fully cached
  prefills, empty outputs.  Correct: arrival order, termination, no stall
  counted but while decodes wait.
* **The metrics.** Counted at several places, with a warmup that cuts steps and requests
  at different points.  Correct: they
  add up to what the requests produced, and the report's rates are about what
  their names say.
* **The error that ends a run.** Only `stall_limit` separates a busy system from a
  stuck one.  Correct: when the stall is raised, no request can go on, even by
  evicting every cached page; a request that fits is not what a run fails on.
* **One fact, several places.** The cache groups of a model are written down three
  times, a block size is rounded twice, speculation has a switch and a number.
  Correct: they agree for every launch.
* **Fitted numbers.** Latency coefficients from few or dependent points,
  conditional rates from marginal ones.  Correct: the fit is a least-squares
  solution also when it is not determined, the rates multiply back.
* **A second copy of the text.** With vLLM the text lives twice, in the simulator's
  request and in the vLLM request that feeds the prefix cache.  Correct: in step
  between handlers, nothing cached that was not accepted, rejected blocks reused.
* **The workload.** Controlled overlap of prompts, independent of the arrivals.

## 2. The modules

| Module | Models |
|---|---|
| `KVService` | What a backend promises the scheduler: the tokens it holds for each request, seen from outside of the handlers.  Abstract specification. |
| `SGLangBackend` | The SGLang backend: one operator for each backend call, guards and results as in the code.  RadixCache and page alignment, which are SGLang's, are modelled from how the file calls them and marked external. |
| `SGLangServing` | Extends it with the handlers: one action for each backend call of `_handle_prefill`, `_handle_decode`, `_cleanup`.  Any order of requests between handlers.  The properties, the inductive invariant, the refinement of `KVService`. |
| `SGLangProofs` | The theorems about it: the inductive invariant, what follows from it, and the refinement. |
| `SGLangSlots` | Who holds its slots: the locks, the sum that the SWA pool is, one owner for a slot, what an eviction takes, no slot lost, what the full pool is used for. |
| `VLLMServing` | The vLLM backend under the same handlers: the vLLM request of each handle, over an external block pool.  Implements `KVService` too. |
| `VLLMProofs` | The theorems about it: the vLLM request follows the simulator's, the refinement, and the block pool. |
| `SimScheduler` | The event loop over any backend: admission, one action for each handler, accounting, finishing; acceptance counters, recorder. |
| `SimReport` | Extends it with the report as a function of its state: percentiles, time per output token, hit rate, throughput. |
| `FoldTheorems` | Lemmas about the operators that the models are written with: sums over a finite set and their linear combinations, folds over a sequence, concatenations, products, extreme values, and the induction they need. |
| `SchedulerProofs` | The theorems about `SimScheduler` and `SimReport`. |
| `ServingSystem` | The composition: the event loop calling the SGLang backend, call by call.  Extends `SGLangServing`, implements `SimScheduler`. |
| `SystemProofs` | The theorems about it: every step is one of the loop's or hidden from it, what follows of the loop and of the backend under `run()`, the stall error, and a request alone. |
| `SyntheticWorkload` | The generator of synthetic requests, one request in each step. |
| `WorkloadProofs` | The theorems that two prompts overlap in the share of the first prompt that has one and nowhere else, and that the tokens do not depend on the arrivals. |
| `Calibration` | Pure algorithms: marginal to conditional acceptance rates, the least-squares fit by elimination, the prediction and its limits. |
| `EngineSetup` | Extends it with the way from the command line to a running engine: merge, model architecture, cache groups, block sizes, the pools and byte ledger of both backends, then predictions. |
| `SetupProofs` | The theorems about `EngineSetup` and `Calibration`: the types of what each phase of the setup leaves, speculation, rates, block sizes, layouts, the byte ledger, the latency of a step, and the least-squares fit. |
| `MCSGLang`, `MCVLLM`, `MCScheduler`, `MCSystem`, `MCWorkload`, `MCSetup` | Instances for TLC: requests, prompts, outputs, arrival times, launches. |

How they build on one another:

```
KVService  <-implements-  SGLangServing (over SGLangBackend)  <-extends-  ServingSystem
           <-implements-  VLLMServing                                        | implements
SimReport  -extends->     SimScheduler (the loop over any backend)  <--------+
EngineSetup -extends->    Calibration          SyntheticWorkload (on its own)

SGLangProofs      -extends->  SGLangServing, FoldTheorems
SGLangSlots       -extends->  SGLangProofs
VLLMProofs        -extends->  VLLMServing, FoldTheorems
SchedulerProofs   -extends->  SimReport, FoldTheorems
SystemProofs      -extends->  ServingSystem, SGLangSlots
                  -INSTANCE-> SchedulerProofs, with the state as the loop sees it
WorkloadProofs    -extends->  SyntheticWorkload, FoldTheorems
SetupProofs       -extends->  EngineSetup, FoldTheorems
```

### KVService

The state is what the scheduler may rely on without knowing the backend: the
status of each request, the tokens held for it and the output tokens synced.
A prefill gives all of the prompt, a decode step the accepted tokens and the
bonus, a free takes everything back; anything else that a backend does is
invisible.  `SGLangServing` maps `held` to the length of the row without the
tokens a handler is still working on (`HeldOutside`), `VLLMServing` to the
computed tokens of the vLLM request.  The two differ in one place, which the
abstract action `DecodeNothing` leaves open: the slot of the one decode step of an
empty ground truth.

### SGLangBackend and SGLangServing

The state is the code's, under shorter names: `nextIdx`, `freeList` are the
dispenser's `_next_idx`, `_free_list`; `swaUsed`, `fullUsed`, `swaPeak`,
`fullPeak` are `_pool_used`, `_pool_peak`; `row[r]`, `lastNode[r]`, `charged[r]`,
`evicted[r]` are `_allocated_indices` (flattened), `_last_node`,
`swa_charged_tokens`, `swa_evicted_charged` of the handle of `r`.  Three
abstractions of data:

* *Pools are counted in tokens.*  The code multiplies each use and each capacity
  by the slots a token takes in that pool, a positive constant of the model
  architecture (with the DeepSeek-V4 layout that SGLang's configurator needs,
  both are positive).
* *A cached page is named by the token sequence that ends with it* (`tree` maps it
  to its slots), so the ancestors of a page are its page-aligned prefixes, and a
  lock on `lastNode[r]` protects them all.  How pages are grouped into radix
  nodes is left out; `evict` therefore takes any leaf-first order of unlocked
  pages, and may take more than it was asked for, as it frees whole nodes.
* *Acceptance is a free choice* of how many drafts of the step are accepted.

A handler is several actions, so that a property can look between its calls, but
while one runs no other starts (`at`, `cur`), as in the single-threaded code.
Which request comes next is free, an over-approximation of every arrival
pattern.  An error of the code ends the run in a state `raised_...`.

### SimScheduler

Here the backend is abstract: a prefix hit is one of the numbers in `Hits[r]`
(a hit needs some request to have been prefilled before), and
`allocate_slots` may refuse at any time, which covers both backends and every
pool size.  `held[r]` is what the backend holds for `r` by the calls made.  Time
is in whole milliseconds, and the latency of a step that computes is any member
of `Latencies` (the regression and the interaction term it is fed are left out).
`recorded` keeps the sums that the report takes over the step records.
`_running` is a sequence with at most one request for each id, in the order in
which a Python dict lists them, so a repeated id takes the earlier one's place.
The list that `load` sorts is `ByArrival`: the place of a request is one more than the
number of those that a stable sort by arrival puts before it (`Precedes`).
`step` is saturated just past the warmup, since only `_step > _warmup` is read.

### SimReport

`StatisticsComputer.compute` reads the recorder and the acceptance model, so the
report is a set of definitions over the state of `SimScheduler`.  A rate is its
numerator and denominator; a percentile is kept in hundredths, which makes the
interpolation exact; times per output token are scaled by a common multiple of
their divisors (`TpotUnit`).

### VLLMServing

`engineReq[r]` is `_vllm_request`: its tokens and `num_computed_tokens`.  `table`
and `hash` are the state of vLLM's manager: the blocks a request holds, and the
text whose last block a block caches (a block hash covers all the text before
it).  The blocks that `ManagerAllocates` adds to a table (`Extended`) are
any free ones in any order, which covers every order of vLLM's free queue.  `free_rejected_slots` is the no-op of the base class, so
`DecodeSync` takes the rejected drafts back from the counts only.  One attention
group is modelled; vLLM splits the pool among several groups with blocks of
different sizes and drops blocks outside a sliding window.

### ServingSystem

The handlers of `SGLangServing` are taken as they are, and each action is joined
with what the scheduler does around that call: whose turn it is, the counters of
the step, the acceptance counters.  The rest of a step is `SimScheduler`'s own
actions, through `Loop == INSTANCE SimScheduler WITH ...`, where the state the
two share is seen as the loop sees it between two handlers (`LoopStatus`,
`LoopHeld`, `LoopComputed`, `LoopHits`): a prefill shows what it matched, and a
decode its tokens, only once it is complete.  A request is its own `request_id`
here.  Pools decide here which allocations are refused and the tree which
prefixes hit, so progress can be stated: `Starved` says that the pools cannot
give a request its next tokens even with every unlocked page evicted.

### Calibration and EngineSetup

Rates are multiples of `1/Scale`, latencies integers, and a quotient a numerator
and denominator, so nothing is rounded.  The elimination keeps every row
multiplied by the last pivot, which makes the code's divisions exact; the pivot
search, the skipped columns and the clamp of the two costs per token are the
code's.  A JSON file, a flag list and a HuggingFace config are functions on the
keys that are present.  `pools` of the SGLang backend is what SGLang's planner
may return: it cuts to whole pages, and for the SWA share both roundings are
allowed, as nothing in `src/` depends on the direction.  The layers of a vLLM
group are sets of (layer, module), so that a module named twice can be seen; its spec
keeps the heads, head size, element size, compression and window that
`_build_vllm_specs` sets, and `SpecBytes` is the size of a page by them, before vLLM's
alignment.

### SyntheticWorkload

Tokens are named by their place in the stream of the token generator, so that
equal tokens are copied tokens: the code draws from 128256 values, and chance
repetitions are left out.  The lengths are any that the distribution can give.

## 3. What is checked

All runs have `CHECK_DEADLOCK FALSE`, because a run ends when every request is
served or an error is raised.

| Run | Bounds | Shows |
|---|---|---|
| `sglang_sharing` | 3 requests, two of them with a common page, one empty output, one output of 6 tokens, page 2, window 1, swa 10 / full 11 tokens, K = 2 | `FlatPoolNeverBinds`, `FullUseCoversSlots`, `ContractsKept`, `WindowNotReclaimed`, `SwaUseExact`, `LockedPagesCached`, `SlotsOwnedOnce`, `SharedOnlyByPrefix`, `NoSlotLost`, `EvictionSparesServed`, and the refinement `ImplementsService`, when pages are shared and evicted, each pool refuses, and drafts are rolled back before and after the reclaim cursor has moved |
| `vllm_blocks` | 3 requests, one prompt continuing the text that another generates, one empty output, blocks of 2, 7 blocks with the null block, K = 2 | `EngineMirrorsRequest`, `RejectedBlocksReused`, `CacheHoldsAcceptedText`, `RefusedOnlyForOthers`, `ImplementsService`, under refusals, evictions and prefix hits on generated text |
| `system_sglang` | 3 requests, one arriving late and continuing the prompt of another, page 2, window 1, swa 8 / full 10, K = 1, stall limit 2 | `StallIsDeadlock`, `LoneRequestServed`, the refinement `ImplementsScheduler`, and `RunEnds` under weak fairness of the loop |
| `sched_loop` | 3 requests loaded out of order (one late, one with an empty output), K = 2, full hits, stall limit 2, warmup 2 | `ServedInArrivalOrder`, `HeldMatchesText`, `ThroughputAccounted`, `AcceptanceAccounted`, `FirstTokenPaid`, `StallsAwaitDecodes`, of the report `PercentilesFaithful`, `DecodePace`, `ThroughputWithinRequests`, and `Termination` under weak fairness of the step |
| `workload_uniform` | 4 requests, prompts of 1, 3 or 5 tokens, gaps of 0, 1 or 3 ms | `OverlapIsSharedPrefix`, `TokensIndependentOfArrivals` |
| `engine_setup` | launches that vary the model keys, the backend, speculation (0 to 3 drafts, rates in quarters, malformed ones among them) and one to three latency points; one step | `LayoutsReconciled`, `BlockSizesFit`, `LedgerCoversPools`, `SpeculationAgrees`, `MarginalsReproduced`, `FitIsLeastSquares`, `StepLatency` |

The bounds.  Three requests are the smallest number with one that holds a page,
one that matches it and one that forces its eviction.  Pages of two tokens make
aligned and unaligned lengths alternate; a window of one token makes the reclaim
threshold (window + page + 1) pass within an output of six tokens, early enough
that drafts are rejected after it; with 10 and 11 tokens each pool refuses
some allocation, and a prefix just matched lives through an eviction.  A stall
limit of 2 lets a stall be built up, broken and completed, and one of its two
steps be a prefill that is cached completely.  After two warmup steps requests
go on that were prefilled in them, and all three can be in the report.  Six usable blocks of two
tokens hold any one request of `vllm_blocks` but not all of them together, so
that prefills and decodes are refused and cached blocks are evicted.  A prompt of
one token shares nothing at a ratio of one half, so `workload_uniform` has
requests before there is a shared prefix, and prompts shorter and longer than it.
In `system_sglang` two requests together need more than the SWA pool, so runs end
in a stall, in an out-of-memory prefill and with all served.  `engine_setup` has
few points on purpose: one, two or three points never determine four
coefficients, and repeated and collinear ones leave several columns without a
pivot; the models are small (5 layers) but for DeepSeek-V4 Flash, which is taken
whole.

Fairness.  `LiveSpec` and `SystemSpec` ask weak fairness of the whole next-state
relation and nothing else: `run()` is `while step(): pass`, and every action is a
part of a step that runs without waiting.  No fairness of allocations is assumed:
a refusal may repeat for ever, and it is the stall limit that ends the run.

### Findings

Six runs show a behaviour that a comment or docstring of the code rules out.

1. `sglang_stale_match` (`EvictionSparesServed`): `get_computed_blocks` takes no
   lock on the prefix it returns.  If the allocation that follows is over budget,
   its eviction may free that prefix, and the dispenser hands the same slots out
   for the rest of the prompt: one slot stands for two positions of a row.  The
   comment at `sglang_backend.py:475` describes the lock as protecting the prefix
   while the request is active; until `sync_state` there is none.
2. `sglang_duplicate_page` (`NoSlotLost`): two requests compute the same page (the
   output of one is in the prompt or the output of another).  `insert` keeps the
   first one's slots, and `free` assumes that `evict` will free the second one's
   page-aligned slots too, but they are not in the tree.  They stay charged to
   the full pool.
3. `sched_duplicate_id` (`DoneMeansAllFinished`): a dataset that repeats a
   `request_id` makes one request replace another in `_running`; `step()` then
   returns False with the first one unfinished.
4. `report_warmup_hits` (`HitRateOverRecordedSteps`): the hit rate is taken over
   the requests that finish after the warmup, and those may have been prefilled
   in a warmup step; `src/README.md:109` says that `cache_hit_rate` is based on
   the steps after the warmup.

5. `workload_ratio` (`OverlapIsRatioOfPrompt`): the shared prefix is a fraction of the
   *first* prompt, and a later prompt takes as much of it as fits
   (`synthetic.py:78`).  The docstring (`synthetic.py:31`) has subsequent requests
   reuse `shared_prefix_ratio * prompt_len` tokens, `simulator_config.py:34` calls
   the ratio the fraction of each request's prompt, and `src/README.md:50` says the
   same.  After a prompt of three tokens, at one half, a prompt of one token
   consists of the prefix only.  What the code does hold to, `OverlapIsSharedPrefix`,
   is checked in `workload_uniform` with the same lengths.
6. `sched_cached_prefill` (`StallMeansNothingRan`): a completely cached prefill
   computes nothing, so a step that completed it counts towards the stall limit,
   although the comment at `scheduler.py:133` takes a completed prefill for computed
   tokens.  With the default limit of 1000 it ends a run only after 999 stalled
   steps, and in a stall of two steps or more it can only be the first
   (`StallsAwaitDecodes`, which `sched_loop` checks with such prompts).

Where a passing run would meet one of the first four, its instance avoids it: no
match is evicted and no page computed twice in `sglang_sharing`, ids are distinct in
`sched_loop`.

## 4. What is proved

Each theorem holds for every value of the constants that the named assumptions
allow: of the SGLang backend for every set of requests, workload, page size,
window, pool size and number of drafts (`WorkloadAssumption`, `SizeAssumption`,
`HandlerAssumption`); of the vLLM backend for every workload, block size, number
of blocks and drafts (its own `WorkloadAssumption` and `SizeAssumption`); of the
loop for every list of requests, warmup, stall limit and set of latencies
(`RequestsAssumption`, `ConfigAssumption`; the requests are the finite list given
to `load`); of the composition for all of these together (`LoopAssumption`); of the
workload for every number of requests, set of lengths, sharing setting and
arrival pattern (`GeneratorAssumption`); of the setup for every set of command lines,
files and model configurations, calibration points and batches whose values have the
types that the parsers give them (`LaunchAssumption`), and every calibration
resolution (`CalibrationAssumption`).  Four hypotheses are named where a
theorem needs them:

* `DistinctIds`: the request ids are distinct, without which finding 3 is a
  counterexample.
* `StallLimit >= 2`: a fully cached prefill counts as a stalled step, and with a
  limit of 1 it would raise the error on its own.
* `MatchSurvives`: no allocation evicts the prefix just matched for it, the step that
  finding 1 begins with.
* `NoPageRecomputed`: a page that `sync_state` inserts and finds cached is one that the
  request had from the cache, by its match or its lock, which fails in the step that
  finding 2 begins with.

The last two are about runs, not constants, and rule out the step that goes wrong,
not what follows from it.  TLC finds both true throughout `sglang_sharing`; the
instance of finding 1 violates the first only, that of finding 2 the second only; and
the second holds throughout `system_sglang`.

| Theorem | Statement |
|---|---|
| *`SGLangProofs`* | |
| `Inductive` | `Spec => []IndInv` |
| `TypeCorrect` | `Spec => []TypeOK` |
| `CapsRespected` | `Spec => []PoolsWithinCaps` |
| `FlatPoolSuffices` | `Spec => []FlatPoolNeverBinds` |
| `FullPoolCoversSlots` | `Spec => []FullUseCoversSlots` |
| `ContractsNeverBreak` | `Spec => []ContractsKept` |
| `RowsAgree` | `Spec => []RowMatchesComputed` |
| `WindowKept` | `Spec => []WindowNotReclaimed` |
| `BackendRefinesService` | `Spec => ImplementsService` |
| *`SGLangSlots`* | |
| `LocksKeepPages` | `Spec => []LockedPagesCached` |
| `SwaPoolExact` | `Spec => []SwaUseExact` |
| `SlotsHaveOneOwner` | `MatchSurvives`: `Spec => []SlotsOwnedOnce` |
| `SharedSlotsArePrefixes` | `MatchSurvives`: `Spec => []SharedOnlyByPrefix` |
| `EvictionsSpareRequests` | `MatchSurvives`: `Spec => EvictionSparesServed` |
| `SlotsNeverLost` | `[]NoPageRecomputed`: `Spec => []NoSlotLost` |
| `FullPoolExplained` | `[]NoPageRecomputed`: `Spec => []FullUseInv` |
| *`VLLMProofs`* | |
| `Inductive` | `Spec => []IndInv` |
| `EngineFollows` | `Spec => []EngineMirrorsRequest` |
| `BackendRefinesService` | `Spec => ImplementsService` |
| `RejectedBlocksBounded` | `Spec => []RejectedBlocksReused` |
| `CacheIsAcceptedText` | `Spec => []CacheHoldsAcceptedText` |
| `RefusalNeedsOthers` | `Spec => []RefusedOnlyForOthers` |
| *`SchedulerProofs`* | |
| `SchedulerTypes` | `Spec => []TypeOK` |
| `AcceptanceIsCounted` | `Spec => []AcceptanceAccounted` |
| `ThroughputAddsUp` | `Spec => ThroughputAccounted` |
| `StallsAreDecodes` | `Spec => []StallsAwaitDecodes` |
| `ServiceInOrder` | `DistinctIds`: `Spec => []ServedInArrivalOrder` |
| `HoldingsAreText` | `DistinctIds`: `Spec => []HeldMatchesText` |
| `DoneAfterAll` | `DistinctIds`: `Spec => []DoneMeansAllFinished` |
| `FirstTokensPaid` | `Spec => []FirstTokenPaid` |
| `PaceIsKept` | `Spec => []DecodePace` |
| `ThroughputIsOfRequests` | `DistinctIds`: `Spec => []ThroughputWithinRequests` |
| `PercentilesMeanIt` | `Spec => []PercentilesFaithful` |
| `LoopWindsDown` | `Spec => [](Measure \in [1..5 -> Nat]) /\ [][Below(Measure', Measure)]_vars` |
| `TurnsAreTaken` | `Spec`: whoever has its turn in a step has one, is in the batch and is to be prefilled or decoded |
| *`SystemProofs`* | |
| `SystemInductive` | `SystemSpec => []SystemInv` |
| `HandlersRun` | `SystemSpec => Spec` |
| `SystemImplementsScheduler` | `SystemSpec => ImplementsScheduler` |
| `LoopGuarantees` | the loop's theorems, of `SystemSpec` |
| `BackendGuarantees` | the backend's theorems, of `SystemSpec` |
| `StallsAreDeadlocks` | `StallLimit >= 2`: `SystemSpec => []StallIsDeadlock` |
| `LoneRequestsServed` | `StallLimit >= 2`, `[]NoPageRecomputed`: `SystemSpec => []LoneRequestServed` |
| `SystemWindsDown` | `SystemSpec`: the same for `SystemMeasure \in [1..7 -> Nat]`, in every step of the system |
| *`WorkloadProofs`* | |
| `Inductive` | `Spec => []IndInv` |
| `OverlapControlled` | `Spec => []OverlapIsSharedPrefix` |
| `TokensApartFromArrivals` | `Spec => []TokensIndependentOfArrivals` |
| *`SetupProofs`* | |
| `SetupTypes` | `Spec => []SetupInv` |
| `OneSpeculation` | `Spec => []SpeculationAgrees` |
| `MarginalsGivenBack` | `Spec => []MarginalsReproduced` |
| `PoolsPlanned` | `Spec => []PoolsInv` |
| `BlocksFit` | `Spec => []BlockSizesFit` |
| `LayoutsHold` | `Spec => []LayoutsReconciled` |
| `LedgerSuffices` | `Spec => []LedgerCoversPools` |
| `Predictions` | `Spec => []PredictInv` |
| `LatencyOfSteps` | `Spec => []StepLatency` |
| `FitSolves` | `Spec => []FitIsLeastSquares` |

SGLang, the invariant.  `IndInv` has four parts besides the types.  `PoolInv` says that
the use of the full pool covers the slots handed out and not returned; with the
capacity it bounds the dispenser, which has room for both pools, so its own check
never refuses.  `ControlInv` ties the point a handler has reached to the status
of its request.  `RowInv` gives the length of every row at every point of a
handler: `RowMatchesComputed` alone is not inductive, because in the middle of a
decode the row is ahead of the text by the bonus and the drafts (`Ahead`), and it
is these that the rollback takes back; that the row is at least as long as the
text and the tokens ahead is what rules out the two errors of the backend.
`CursorInv` leaves room for the drafts that may still be rolled back
(`Revocable`): without it a rollback could move the charge below the window of
the cursor.  Each action has a lemma that it preserves `IndInv`, each backend
operation a lemma on types and pool accounting, each external operation one on
the type of its result.

SGLang, the refinement.  Under the mapping of `SGLangServing` (`HeldOutside`), each of the
three calls that end a handler is one step of the contract (`PrefillSyncRefines`,
`DecodeSyncRefines`, `CleanupRefines`), and every other call is hidden
(`HiddenStep`).  The step of a decode is where the work is: the row has grown by
`1 + drafts`, the rollback has taken `drafts - accepted` back, and the lengths of
`RowInv` make the difference exactly the tokens that entered the text; a decoding
request has output left (`OutputLeft`), which is an invariant of its own.

SGLang, the locks.  `LockedPagesCached` is preserved because an eviction only takes pages
that are a prefix page of no locked text (`EvictionKeepsLocked`), and because
`sync_state` inserts the text before it moves the lock to it
(`SyncKeepsLocked`).

SGLang, the SWA pool.  `SwaUseExact` is a sum over the requests between two handlers.
`ChargeInv` says at every point of a handler what each request is charged, and the
pool's counter is the sum of it; so an amount given back is always part of the
counter, and the clamp at zero, which would hide an error, never cuts anything
off.  The sum lemmas are in `FoldTheorems`.

SGLang, the owners of slots.  `SlotsOwnedOnce` counts who has a slot and is not
inductive: it says nothing of which position a shared slot stands for.  `OwnerInv`
does.  What is free, cached or in a row has been handed out (`FreshInv`); a slot of
the tree is in a row only where the row's text begins with the page it is cached for,
at its place in that page (`RowsCached`, and `MatchCached` for the prefix just
matched); any other slot is in one row, once (`RowsApart`); and a page that a row uses
lies below the node that the request has locked (`LockInv`, which needs no
hypothesis), so no eviction takes it.  The one window is between match and allocation,
before the lock: there, and only there, `MatchSurvives` is used.
`EvictionSparesServed` is then its own clause on the matched prefix joined with what
the invariant shows of every row.

SGLang, no slot lost.  A slot leaves the row of a request into the free list or stays in
the tree; `free` keeps it out of the free list because it takes the whole pages
of the row for cached.  `LockedCachedInv` says that they are: the tree has these
very slots for every page below the request's node.  An insertion keeps the slots
that a page already has, so this is where `NoPageRecomputed` is used.  Nothing of
`OwnerInv` is, so no slot is lost even when a match is reclaimed: of the match it is
enough that what is still cached of it is cached in the slots of the row
(`RowMatched`).

SGLang, the full pool.  Its counter is not exact (pages stay charged while they are
cached, and what `on_free` deducts is clamped at zero), but what it is used for can be
said: `FullUseInv` bounds it by the tokens of the cached pages, which are whole
(`WholePages`), and of what each request holds beside them (`Own`: what a prefill
has been charged for, and later what of the row is not locked).  `HoldingInv` says how
much that is at every point of a handler.  An eviction gives back what its pages took
(`EvictionFull`), a rollback and `free` what leaves the end of the row (`ReturnFull`);
`sync_state` turns the request's own tokens into pages, and it adds as many of
them as it takes tokens (`PagesBeyond`) just when no page beyond the known ones is
cached already: this is the second use of `NoPageRecomputed`.

vLLM.  `EngineMirrorsRequest` speaks of the state between handlers only, so it
is not inductive.  `EngineInv` keeps the vLLM request equal to the text at every
point of a handler, because only a sync writes it; `CountInv` lets the
scheduler's count run ahead by the bonus and the drafts of the decode step in
progress.  `DecodeSyncEffect` is the step that matters: the drafts not accepted
leave the count, and what `sync_to_vllm` appends is exactly the accepted piece of
the output (`SyncAppends`).  Nothing is needed of the block pool, so the
refinement of `KVService` holds whatever it matches, evicts or refuses, and
although `free_rejected_slots` does nothing.

vLLM, the blocks.  `BlockInv` has one part for the tables (no block twice in one, the
null block in none: `TableInv`), one for the blocks that a prefill has matched and
not yet taken (`MatchInv`), one for the length of a table at every point of a
handler (`LengthInv`) and one for what a block caches (`CacheInv`: a block of a table
nothing or that request's text up to the end of the block, any other block the text
of some request; and a block in two tables is not empty).  The lengths bound the blocks kept for rejected
drafts; `CacheInv` and `EngineInv` together make everything cached accepted text; and
as the tables of the others are the only blocks that are neither free nor the
request's own, a refusal of a request that fits needs another request
(`RefusedOnlyForOthers`).

The loop.  Each property is carried by an invariant of its own, because it speaks
of the state between steps or of recorded values only.  `ThroughputAccounted` is about
steps: what the running step has still to record (`Pending`) is part of it, and
`CountInv` adds that the accepted tokens of a step are among those it generated.  `BatchInv` describes the queue and the batch: the queue is ordered and
lists a request once, the batch lists it once and is apart from the queue, and what
`step` has still to visit is the end of the batch.  On it rest `OrderInv` (of the order of
service), `TextInv` (what the backend holds, at every point of a step) and
`ReportInv` (the throughput is of the requests recorded, those in the batch, and
those about to be recorded).  `FirstInv` follows a first token from the handler that gives it
to the step that stamps it, and `PaceInv` bounds the time since then by the decode steps
taken.  Folds over sequences, of which admission, removal and all sums consist, are
reasoned about in `FoldTheorems`: a fold is a function of the position (`FoldTrace`),
and a statement about every position follows from the first and the step because the
positions for which it holds are a set that contains 0 and every successor
(`SetInduction`).

The loop, stalled steps.  `StallInv` (of `SchedulerProofs`) adds to `StallsAwaitDecodes`
what holds inside a step: a request to prefill has still its turn to come, so none is left
when a step ends, and a prefill that loads without computing has not happened in a step
of a stall.  With `BatchInv` this shows that the counter is not zero only while those who
have arrived are decoding: nobody else arrives, as the clock stands in a stalled step.

The report.  `SortedUp` says what sorting a list does without an order of its records:
the value at place `k` is the one that at least `k` values do not exceed and fewer than
`k` are below (`SortedPlace`), and no other value is (`SortedUnique`), so the sorted
negated values are the sorted values read backwards (`SortedMirror`).  A percentile lies
between the two places that its rank falls between (`Between`), percentiles rise with
the rank (`RanksGoUp`) and the mirrored rank gives the mirrored one (`RanksMirror`);
that leaves counting what lies at or below the middle place.

The composition.  `SystemInv` joins the invariant of the backend (`IndInv`), the types and
`BatchInv` of the loop, and what ties the two: whose turn it is (`TurnInv`) and what a
prefill has matched (`HitInv`).  Every step of `SystemSpec` is then a step of the handlers
with the loop unchanged, and hidden from it, or one of the loop's, in which the
backend's action has just the effect that the loop allows any backend to have; this is the
refinement, and by it every theorem about the loop holds of the system.

The stall error.  `StallInv` strengthens `StallIsDeadlock`: the clock stands in a stalled
step, so after the first of them nobody is admitted and nobody is left to prefill whose
allocation has not been refused; and in a step that has computed nothing so far, every
request that has had its turn is `Stuck`.  That a request stays stuck when others have their
turn is because a refusal has evicted every page that is not locked before it gave up
(`RefusalStarves`), and because nothing is freed in such a step.

A request alone.  Either error means that a request is starved of what it still needs:
the stall by `StallIsDeadlock`, the out-of-memory error by `OomInv`, because a refused
prefill has evicted all it can as well.  When everybody else waits or has been freed,
the others hold no row, charge or lock (`OthersHoldNothing`); so the window is used for
no more than the request's own row (`SwaUseExact`, `AloneInWindow`), and the full pool,
apart from pages that can be evicted, for no more than that either, as the
pages that cannot are below the request's own lock (`FullUseInv`, `PagesOfPrefix`,
`AloneInFullPool`).  Row and need together are the request's `Demand`.

Workload.  `OverlapIsSharedPrefix` speaks of lengths of common prefixes; the
invariant says the same token by token: `ReuseInv` of a prompt and the shared
prefix, `PairInv` of two prompts.  New tokens are greater than every token drawn
before (`DrawnInv`), so a token agrees with an earlier one only when it was
copied.  `PrefixInv` says when there is a shared prefix: from the first request
that shares anything, whose own prompt agrees with it (`ReuseInv`), while those
before it agree with nothing.  `LengthInv` says how long it is, the share of that first
request's own length.  `CommonLength` goes back from tokens to lengths.

Workload, the arrivals.  `StreamInv` says that what the requests drew, one after the
other, is the stream of the token generator up to the draws made (`StreamsJoin`): the
shared prefix is drawn once, by the request that first shares anything, and an arrival
draws from a generator of its own.  So the tokens of all prompts are a function of the
lengths alone, and the concatenation lemmas of `FoldTheorems` carry it from one
request to the next.

Setup, the types.  `SetupInv` says what each phase leaves when it does not raise: a
merged configuration, a model architecture, a plan, rates, a built backend.  Every
later theorem starts from it, because the models of the conversions are only meaningful
on values of these types.

Setup, speculation and rates.  The switch and the number of drafts are read in three
places; `OneSpeculation` shows that they agree in every launch that is not refused.
The product of the first `i` conditional rates telescopes to the `i`-th marginal
(`MarginalsGivenBack`); a zero marginal makes all later ones zero, by the order that
the conversion has checked.

Setup, blocks and layouts.  The block sizes of a hybrid model are members of a chain of
divisors (4, 8, 64, 256), so a fold of greatest common divisors or least common
multiples over any of them is one of them.  The two lists of groups, built by
different code, have the same of four shapes (`HybridShape`), depending on which kinds
of layer the model has; from this the names, layers, blocks and bytes follow group by
group.  The specs for vLLM have head sizes of their own, so their bytes are compared
group by group too (`SpecFits`): the indexer has 132 bytes per token there whatever the
model says, as many as in fp8 and more than the 68 of fp4, which `model_config.py:378`
and `vllm_config.py:116` say; the packed layout is that of one model's latent; and the
shared description of a uniform model assumes two bytes per element.  Apart from these
the bytes agree.  `LedgerSuffices` is the same for bytes: a pool of `t` tokens has a page more
than `t` fill, so the pages of every group hold the tokens that the pool admits.

Setup, the latency.  Elimination keeps a row of integers and a positive scale
through every column, so the four coefficients are integers over one positive
denominator; a prediction is linear in three sums over the requests of a batch, and
what a batch costs is what its requests cost alone, with the base counted once.

Setup, the fit.  `FitIsLeastSquares` speaks of the end of the elimination only.  The
invariant `At`, column by column, has three parts.  First, every row is made of minors of
the normal equations, with as many rows as there have been pivots (`Form`); the
identities between minors make each division of a step exact (`FormStep`).  Second, what
solves the reduced rows solves the normal equations, and the rows are combinations of
theirs.  Third, a column that has been skipped has no entry in any row without a pivot
that was left at the time.  The third part is not enough: a later column may have its
pivot in one of those rows, and the exchange of rows could bring an entry into a skipped
column's own row, which the code then reads as a coefficient.  With other features than the
code's it goes wrong: three points with the features `2, -2, 3, 0`, `0, 0, 0, 2` and
`0, 2, -3, -3` are an example.  What the proof needs of the normal equations is in
`NullCancels`: a skipped column gives factors that cancel them, the sum of squares
of the values of these factors at the points is then zero, and so is every value.  Hence
a row without a pivot whose coefficients are zero has zero on its right-hand side too.
What remains is that the coefficients are (`Pairs`), which depends on the rows that are
exchanged, and there the partial pivoting counts: the first pivot is never in the last row, because the loads are natural numbers
and a square of one is no less than the number (`ExcessSum`); and the second is not there
either when the first was in the third (`NoLateSwap`), by an inequality between weighted
sums of squares (`Concentrated`).

The end of a run.  `Measure` has the work that the requests still need, which a step that
computes takes from; the stalled steps that are still allowed; whether the clock has yet
to reach an arrival; the stage of the step; and the requests that have their turn to come.
Each action lowers one of these and leaves those before it alone.  `SystemMeasure` adds
what is left to be freed and the calls that a handler has yet to make, which fall in the
steps hidden from the loop.  That the order has no endless descent is `NoEndlessDescent`.
`TurnInv` ties the turns of a step to the batch: a handler changes the status of
its own request only, and that one's turn is over.

Only model-checked:

* Liveness (`Termination`, `RunEnds`), which is out of the prover's reach, as is
  ENABLED: that a step can be taken as long as the run is not over, and is taken, under
  weak fairness.  That the steps cannot go on for ever is proved (`LoopWindsDown`,
  `SystemWindsDown`).

Every invariant and action property of a passing run, and each refinement, is the
statement of a theorem, some of them under the hypotheses named above.

`IndInv` (of each proof module), `LockInv`, `OwnerInv`, `LockedCachedInv`, `HoldingInv`,
`RowMatched`, `WholePages`, `FullUseInv`, `SystemInv`, `SetupInv`, `PoolsInv`, `PredictInv`,
`TypeOK`, `PoolsWithinCaps` and `RowMatchesComputed` are proved and not part of a run.

## 5. Not modelled

* vLLM's block pool beyond one attention group, and the byte layout that vLLM
  packs its groups into: vLLM is not in the repository.  `VLLMServing` and
  `EngineSetup` model what the backend hands to it.
* SGLang's planner and RadixCache beyond what the backend uses of them, and its
  environment flags for compressing online.
* Floating point: rounding, and the tolerances that stand for zero in the fit and
  in the check of the rates.  The models are exact.
* Of the report: the averages over steps, the acceptance rates per position, the
  queue length, the usage ratios of the pools.  They divide what the recorder and
  the acceptance model hold, and no control flow reads them.
* Warnings, verbose output, the wording of messages, the output file.
* The JSONL loader, which only parses, and the settings that are only copied.

## 6. Plan

1. *Done*: both backends with their handlers, and the proof that each implements
   `KVService`; the safety proofs of the SGLang backend; the loop and its report;
   the composition of loop and SGLang backend; the synthetic workload and the proof
   of its overlaps; the setup of an engine and its calibration.
2. *Done*: the proofs about the block pool of `VLLMServing` and the SWA pool, about the
   loop and its report, and the refinement and the stall error of `ServingSystem`.
3. *Done*: the proofs about `EngineSetup`, and `TokensIndependentOfArrivals`.
4. *Done*: the ownership of slots, the use of the full pool and `LoneRequestServed`,
   under hypotheses that name what findings 1 and 2 need.
5. `ServingSystem` over the vLLM backend, for which `StallIsDeadlock` has to count
   blocks kept for rejected drafts.
