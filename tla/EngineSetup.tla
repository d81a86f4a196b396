---------------------------- MODULE EngineSetup ----------------------------
(* From the command line to the first steps of a run: main() merges the     *)
(* JSON file and the flags into a SimulatorConfig; SimulationEngine derives *)
(* the model architecture, the cache groups, the block sizes and the pools  *)
(* of the backend from it, then the acceptance and the latency model. The   *)
(* same facts are derived at several places, and have to agree.             *)
(*                                                                          *)
(* A JSON file, a flag list and a HuggingFace config are functions on the   *)
(* keys that are present (nested keys flattened). The vLLM and SGLang       *)
(* planners that the code calls are external.                               *)
EXTENDS Calibration, FiniteSets

CONSTANTS
    Launches,       \* the command lines: [file, flags], file = None without --config
    DefaultBlocks,  \* default of num_kv_cache_blocks
    Batches,        \* the batches of the steps, as in Calibration
    MaxSteps        \* bound: the steps looked at

\* A key that is given has a value of its type
Given(f, key, type) == key \in DOMAIN f => f[key] \in type

\* The keys that are read from a HuggingFace config
IsModel(hf) ==
    /\ \A key \in {"num_hidden_layers", "num_key_value_heads", "head_dim",
                   "qk_nope_head_dim", "qk_rope_head_dim", "sliding_window",
                   "index_head_dim", "num_nextn_predict_layers"} : Given(hf, key, Nat)
    /\ Given(hf, "compress_ratios", Seq(Nat)) /\ Given(hf, "torch_dtype", Nat)
    /\ Given(hf, "enable_deepseek_v4_fp4_indexer", BOOLEAN)

\* The keys that are read from a JSON file or a list of flags
IsSettings(f) ==
    /\ Given(f, "backend", {"vllm", "sglang"}) /\ Given(f, "use_fp4_indexer", BOOLEAN)
    /\ "model_config_path" \in DOMAIN f =>
         f["model_config_path"] = None \/ IsModel(f["model_config_path"])
    /\ Given(f, "swa_full_tokens_ratio", Nat)
    /\ Given(f, "kv_cache_block_size", Nat \ {0}) /\ Given(f, "num_kv_cache_blocks", Nat)
    /\ Given(f, "enabled", BOOLEAN) /\ Given(f, "num_spec_tokens", Nat)
    /\ Given(f, "acceptance_rates", Seq(Int))
    /\ Given(f, "data_points", Seq([loaded : Nat, computed : Nat, latency : Nat]))
    /\ Given(f, "gpu_data_points", Seq([loaded : Nat, computed : Nat, latency : Nat]))
    /\ Given(f, "coefficients", [1..4 -> Int \cup {None}])

ASSUME LaunchAssumption ==
    /\ \A l \in Launches : (l.file # None => IsSettings(l.file)) /\ IsSettings(l.flags)
    /\ DefaultBlocks \in Nat
    /\ Batches \subseteq Seq([loaded : Nat, computed : Nat])

VARIABLES
    launch, phase,  \* the command line, and what main() has completed
    config,         \* SimulatorConfig: [scalars, speculative, gpu_perf]
    arch,           \* ModelArchitecture
    plan,           \* KVBackendConfig
    pools,          \* what the backend allocates
    rates,          \* AcceptanceModel._cond_rates
    perf,           \* GPUPerfModel: coefficients, cap_stats
    last            \* the last prediction

vars == <<launch, phase, config, arch, plan, pools, rates, perf, last>>

Init ==
    /\ launch \in Launches
    /\ phase = "main" /\ config = None /\ arch = None /\ plan = None
    /\ pools = None /\ rates = None /\ perf = None /\ last = None

Get(f, key, default) == IF key \in DOMAIN f THEN f[key] ELSE default

-----------------------------------------------------------------------------
(* main(): the JSON file and the flags.                                     *)

\* Fields that can be set in the file and overridden by a flag, with the
\* defaults of SimulatorConfig (swa_full_tokens_ratio in tenths)
FieldDefaults ==
    [backend |-> "vllm", model_config_path |-> None, use_fp4_indexer |-> FALSE,
     swa_full_tokens_ratio |-> 1, kv_cache_block_size |-> 16,
     num_kv_cache_blocks |-> DefaultBlocks]

\* The defaults of the flags, which _override compares with
ParserDefaults ==
    [backend |-> "vllm", model_config_path |-> None, use_fp4_indexer |-> FALSE,
     swa_full_tokens_ratio |-> 1, kv_cache_block_size |-> 16,
     num_kv_cache_blocks |-> DefaultBlocks]

FileDraftsMutant(file) == Get(file, "num_spec_tokens", 2)   \* whatever enabled says
\* A disabled speculation has no drafts, whatever num_spec_tokens says
FileDrafts(file) ==
    IF Get(file, "enabled", TRUE) THEN Get(file, "num_spec_tokens", 2) ELSE 0

\* SimulatorConfig.from_json
FromJson(file) ==
    [scalars |-> [f \in DOMAIN FieldDefaults |-> Get(file, f, FieldDefaults[f])],
     speculative |-> [enabled |-> Get(file, "enabled", TRUE),
                      num_spec_tokens |-> FileDrafts(file),
                      accept_mode |-> Get(file, "accept_mode", "per_position"),
                      acceptance_rates |-> Get(file, "acceptance_rates", None)],
     gpu_perf |-> [data_points |-> Get(file, "data_points", None),
                   coefficients |-> Get(file, "coefficients", <<None, None, None, None>>)]]

\* Without a file, the speculation comes from the flags and the rest from the
\* defaults
FromFlags(flags) ==
    LET drafts == Get(flags, "num_spec_tokens", 2)
    IN [FromJson(<<>>) EXCEPT
          !.speculative = [enabled |-> drafts > 0, num_spec_tokens |-> drafts,
                           accept_mode |-> Get(flags, "accept_mode", "per_position"),
                           acceptance_rates |-> Get(flags, "acceptance_rates", None)]]

\* A flag that differs from its default replaces the value of the file
Override(scalars, flags) ==
    [f \in DOMAIN scalars |->
        LET value == Get(flags, f, ParserDefaults[f])
        IN IF value # ParserDefaults[f] THEN value ELSE scalars[f]]

\* --gpu-data-points replaces the points only
OverridePoints(gpu_perf, flags) ==
    [gpu_perf EXCEPT !.data_points = Get(flags, "gpu_data_points", @)]

Configure ==
    /\ phase = "main"
    /\ LET base == IF launch.file # None THEN FromJson(launch.file)
                   ELSE FromFlags(launch.flags)
       IN config' = [base EXCEPT !.scalars = Override(@, launch.flags),
                                 !.gpu_perf = OverridePoints(@, launch.flags)]
    /\ phase' = "configured"
    /\ UNCHANGED <<launch, arch, plan, pools, rates, perf, last>>

-----------------------------------------------------------------------------
(* The model architecture and its cache groups.                             *)

NonZeroOr(a, b) == IF a = 0 THEN b ELSE a

\* ModelArchitecture.from_json: the head size has three sources, and a model is
\* MLA when a LoRA rank and a RoPE dimension are given
ArchFromJson(hf) ==
    LET rope == Get(hf, "qk_rope_head_dim", 0)
        list == Get(hf, "compress_ratios", <<>>)
    IN [num_layers |-> Get(hf, "num_hidden_layers", 32),
        num_kv_heads |-> Get(hf, "num_key_value_heads", 32),
        head_size |-> NonZeroOr(Get(hf, "head_dim", 0),
                          NonZeroOr(Get(hf, "qk_nope_head_dim", 0) + rope, 128)),
        dtype |-> Get(hf, "torch_dtype", 2),   \* bytes of an element
        qk_rope |-> Get(hf, "qk_rope_head_dim", 64),
        sliding_window |-> Get(hf, "sliding_window", 0),
        indexer_head_dim |-> Get(hf, "index_head_dim", 128),
        compress_ratios |-> IF list = <<>> THEN None ELSE list,
        num_mtp_layers |-> Get(hf, "num_nextn_predict_layers", 0),
        use_fp4_indexer |-> Get(hf, "enable_deepseek_v4_fp4_indexer", FALSE),
        is_mla |-> /\ {"kv_lora_rank", "q_lora_rank"} \cap DOMAIN hf # {}
                   /\ "qk_rope_head_dim" \in DOMAIN hf]

\* DeepSeek V4 Flash: two layers without compression, then 4 and 128 in turn
DeepseekV4Flash ==
    [num_layers |-> 43, num_kv_heads |-> 1, head_size |-> 512, dtype |-> 2, qk_rope |-> 64,
     sliding_window |-> 128, indexer_head_dim |-> 128,
     compress_ratios |-> <<0, 0>> \o [i \in 1..41 |-> IF i % 2 = 1 THEN 4 ELSE 128],
     num_mtp_layers |-> 1, use_fp4_indexer |-> FALSE, is_mla |-> TRUE]

\* The layers with a compress ratio, from 0
LayersOf(a, ratio) ==
    IF a.compress_ratios = None THEN {}
    ELSE {i - 1 : i \in {j \in DOMAIN a.compress_ratios : a.compress_ratios[j] = ratio}}

Count(a, ratio) == Cardinality(LayersOf(a, ratio))

\* Compress ratios without MLA are not used, nor MLA without compress ratios
IsHybrid(a) == a.is_mla /\ a.compress_ratios # None

\* kv_bytes_per_token
KVBytes(a) == a.head_size + a.qk_rope + 8

IndexerBytes(a) == IF a.use_fp4_indexer THEN 68 ELSE 132

\* A group is appended when some layer has it
Optional(group) == IF group.layers > 0 THEN <<group>> ELSE <<>>

\* ModelArchitecture.layer_groups
LayerGroups(a) ==
    LET group(name, block, ratio, layers) ==
            [name |-> name, block |-> block, ratio |-> ratio, layers |-> layers]
        c4 == Count(a, 4)
        c128 == Count(a, 128)
    IN IF ~IsHybrid(a) THEN <<group("full", 0, 1, a.num_layers)>>
       ELSE <<group("swa", 64, 1, a.num_layers)>>
            \o Optional(group("c4_compressor", 4, 0, c4))
            \o Optional(group("c128_compressor", 8, 0, c128))
            \o Optional(group("c4_mla", 256, 4, c4))
            \o Optional(group("c128_mla", 256, 128, c128))
            \o Optional(group("c4_indexer", 256, 4, c4))

StoredTokensMutant(ratio) == 64   \* those of C4 for C128
\* Tokens that a page of 256 stores after compression
StoredTokens(ratio) == IF ratio = 4 THEN 64 ELSE 2

\* _build_kv_cache_groups: the groups again, with the bytes of a page
KVCacheGroups(a, blockSize) ==
    LET group(name, block, bytes, layers) ==
            [name |-> name, block |-> block, bytes |-> bytes, layers |-> layers]
    IN IF ~IsHybrid(a)
       THEN <<group("full", blockSize, 4 * blockSize * a.num_kv_heads * a.head_size,
                    a.num_layers)>>
       ELSE <<group("swa", 64, 64 * KVBytes(a), a.num_layers)>>
            \o Optional(group("c4_compressor", 4, 4 * 2048 * 4, Count(a, 4)))
            \o Optional(group("c128_compressor", 8, 8 * 1024 * 4, Count(a, 128)))
            \o Optional(group("c4_mla", 256, StoredTokens(4) * KVBytes(a), Count(a, 4)))
            \o Optional(group("c128_mla", 256, StoredTokens(128) * KVBytes(a), Count(a, 128)))
            \o Optional(group("c4_indexer", 256, StoredTokens(4) * IndexerBytes(a), Count(a, 4)))

-----------------------------------------------------------------------------
(* SimulationEngine.__init__: the block sizes.                              *)

Gcd(a, b) == Max({d \in 1..a : a % d = 0 /\ b % d = 0})
Lcm(a, b) == (a * b) \div Gcd(a, b)

BlockSizes(a, configured) ==
    LET sizes == [i \in DOMAIN LayerGroups(a) |-> LayerGroups(a)[i].block]
    IN IF IsHybrid(a)
       THEN [block_size |-> Max(Range(sizes)),
             scheduler_block_size |-> FoldLeft(Lcm, sizes[1], Tail(sizes)),
             hash_block_size |-> FoldLeft(Gcd, sizes[1], Tail(sizes))]
       ELSE [block_size |-> configured, scheduler_block_size |-> configured,
             hash_block_size |-> configured]

BuildPlan ==
    /\ phase = "configured"
    /\ LET s == config.scalars
           a == IF s.model_config_path = None THEN DeepseekV4Flash
                ELSE ArchFromJson(s.model_config_path)
           sizes == BlockSizes(a, s.kv_cache_block_size)
       IN /\ arch' = [a EXCEPT !.use_fp4_indexer = @ \/ s.use_fp4_indexer]
          /\ plan' = [block_size |-> sizes.block_size,
                      scheduler_block_size |-> sizes.scheduler_block_size,
                      hash_block_size |-> sizes.hash_block_size,
                      num_kv_cache_blocks |-> s.num_kv_cache_blocks,
                      num_spec_tokens |-> config.speculative.num_spec_tokens,
                      swa_full_tokens_ratio |-> s.swa_full_tokens_ratio]
    /\ phase' = "planned"
    /\ UNCHANGED <<launch, config, pools, rates, perf, last>>

-----------------------------------------------------------------------------
(* VLLMConfig and vLLMBackend: one block pool, its layers named per group.  *)

\* The draft layers only have an SWA cache, and only while drafting
DraftLayers(a, p) == IF p.num_spec_tokens > 0 THEN a.num_mtp_layers ELSE 0

\* The cached modules of a group, by layer index
Modules(a, p, name) ==
    CASE name = "swa" -> (0..a.num_layers + DraftLayers(a, p) - 1) \X {"swa_cache"}
      [] name = "c4_compressor" -> LayersOf(a, 4) \X {"compressor"}
      [] name = "c128_compressor" -> LayersOf(a, 128) \X {"compressor"}
      [] name = "c4_mla" -> LayersOf(a, 4) \X {"attn"}
      [] name = "c128_mla" -> LayersOf(a, 128) \X {"attn"}
      [] name = "c4_indexer" -> LayersOf(a, 4) \X {"indexer"}
      [] name = "full" -> (0..a.num_layers - 1) \X {"self_attn"}

IndexerHeadMutant(a) == IndexerBytes(a)   \* half of it with fp4
\* The head size of the indexer's cache, with fp4 too
IndexerHead(a) == 132

\* What is kept for a token of a group: heads of head_size elements of dtype
\* bytes, one for ratio tokens of the text, of the last window tokens (0: of
\* all).  packed: cache_dtype_str is fp8_ds_mla
KVSpec(a, name) ==
    LET spec(heads, size, dtype, ratio, window, packed) ==
            [num_kv_heads |-> heads, head_size |-> size, dtype |-> dtype,
             compress_ratio |-> ratio, sliding_window |-> window, packed |-> packed]
        latent(ratio, window) == spec(a.num_kv_heads, a.head_size,
                                      IF a.is_mla THEN 1 ELSE a.dtype, ratio, window, a.is_mla)
    IN CASE name = "swa" -> latent(1, NonZeroOr(a.sliding_window, 128))
         [] name = "c4_compressor" -> spec(1, 2048, 4, 1, 8, FALSE)
         [] name = "c128_compressor" -> spec(1, 1024, 4, 1, 128, FALSE)
         [] name = "c4_mla" -> latent(4, 0)
         [] name = "c128_mla" -> latent(128, 0)
         [] name = "c4_indexer" -> spec(1, IndexerHead(a), 1, 4, 0, FALSE)
         [] name = "full" -> [latent(1, a.sliding_window) EXCEPT !.packed = FALSE]

\* _build_vllm_specs: the groups of the plan, with what vLLM keeps for them and
\* their modules
VLLMSpecs(a, p) ==
    LET groups == KVCacheGroups(a, p.block_size)
    IN [i \in DOMAIN groups |-> [name |-> groups[i].name, block |-> groups[i].block,
                                 kv |-> KVSpec(a, groups[i].name),
                                 modules |-> Modules(a, p, groups[i].name)]]

\* A token of the layout fp8_ds_mla
PackedToken == 584

\* real_page_size_bytes of a spec, external: attention without MLA keeps keys and
\* values, the packed layout is as large as it is for DeepSeek V4 for any head size
SpecBytes(s) ==
    LET stored == s.block \div s.kv.compress_ratio
        kinds == IF s.name = "full" THEN 2 ELSE 1
    IN IF s.kv.packed THEN stored * PackedToken
       ELSE kinds * stored * s.kv.num_kv_heads * s.kv.head_size * s.kv.dtype

\* The packed layout of vLLM, given the memory of that many blocks, has as many
PackedBlocks(p) == p.num_kv_cache_blocks

BuildVLLM ==
    /\ phase = "planned" /\ config.scalars.backend = "vllm"
    /\ pools' = [specs |-> VLLMSpecs(arch, plan), num_blocks |-> PackedBlocks(plan)]
    /\ phase' = "backend"
    /\ UNCHANGED <<launch, config, arch, plan, rates, perf, last>>

-----------------------------------------------------------------------------
(* SGLangConfig and SGLangBackend: two pools of tokens.                     *)

FloorTo(n, page) == (n \div page) * page
CeilTo(n, page) == FloorTo(n + page - 1, page)

\* the share is not cut to whole pages
FullTokensMutant(a, p) ==
    LET all == p.num_kv_cache_blocks * p.scheduler_block_size
    IN IF p.num_spec_tokens > 0
       THEN (all * a.num_layers) \div (a.num_layers + 1) ELSE all
\* The share of the target model, L layers of L + 1, while drafting
FullTokens(a, p) ==
    LET all == p.num_kv_cache_blocks * p.scheduler_block_size
    IN IF p.num_spec_tokens > 0
       THEN FloorTo((all * a.num_layers) \div (a.num_layers + 1), p.block_size)
       ELSE all

\* DSV4PoolConfigurator: the SWA pool is a share of the full pool in whole
\* pages; nothing here depends on the direction of the rounding
PoolSizes(full, p) ==
    LET share == (full * p.swa_full_tokens_ratio) \div 10
    IN {[full |-> FloorTo(full, p.block_size), swa |-> swa] :
            swa \in {FloorTo(share, p.block_size), CeilTo(share, p.block_size)}}

\* Slots that a token takes in each pool: one per layer, and one more per C4
\* layer for the indexer
PerToken(a) == [swa |-> a.num_layers, full |-> 2 * Count(a, 4) + Count(a, 128)]

Window(a) == NonZeroOr(a.sliding_window, 128)

\* Ring of the compressor states of a sequence
RingSize(ratio, p) ==
    (IF ratio = 4 THEN 8 ELSE 128) * (IF p.num_spec_tokens > 0 THEN 2 ELSE 1)

\* Pages for a number of tokens, with a guard page
PageCount(size, page) == (size + page + 1) \div page

\* Bytes of a stored token of a group without a state of its own
PerTokenBytes(a, g) == IF a.is_mla THEN KVBytes(a) ELSE g.bytes \div g.block

StoredMutant(full, g, perToken) == full \div g.block   \* one token per page
\* Tokens of a group that stand for full tokens of text
Stored(full, g, perToken) == full \div (g.block \div (g.bytes \div perToken))

\* total_bytes, by group. Compressor states are rings per window of the SWA pool.
GroupBytes(a, p, size, g) ==
    LET states(ratio) ==
            CeilTo((size.swa \div Window(a) + 1) * RingSize(ratio, p) + 1, ratio)
        indexPages == PageCount(size.full \div 4, g.block \div 4)
        perToken == PerTokenBytes(a, g)
        mainPages == PageCount(Stored(size.full, g, perToken), g.bytes \div perToken)
    IN g.layers *
       CASE g.name = "swa" ->
              PageCount(size.swa, Window(a)) * CeilTo(Window(a) * KVBytes(a), 576)
         [] g.name = "c4_compressor" -> states(4) * 16 * a.head_size
         [] g.name = "c128_compressor" -> states(128) * 8 * a.head_size
         [] g.name = "c4_indexer" ->
              indexPages * g.bytes + states(4) * 16 * a.indexer_head_dim
         [] OTHER -> mainPages * CeilTo(g.bytes, 576)

BuildSGLang ==
    /\ phase = "planned" /\ config.scalars.backend = "sglang"
    /\ \E size \in PoolSizes(FullTokens(arch, plan), plan) :
         pools' = [full |-> size.full, swa |-> size.swa,
                   cap_swa |-> size.swa * PerToken(arch).swa,
                   cap_full |-> size.full * PerToken(arch).full]
    /\ phase' = "backend"
    /\ UNCHANGED <<launch, config, arch, plan, rates, perf, last>>

-----------------------------------------------------------------------------
(* The models of acceptance and latency, and the steps that use them.       *)

BuildAcceptance ==
    /\ phase = "backend"
    /\ LET s == config.speculative
       IN rates' = ConditionalRates(s.accept_mode, s.acceptance_rates, s.num_spec_tokens)
    /\ phase' = IF rates' = None THEN "raised" ELSE "accepting"
    /\ UNCHANGED <<launch, config, arch, plan, pools, perf, last>>

FitPerfModel ==
    /\ phase = "accepting"
    /\ perf' = [coef |-> Coefficients(config.gpu_perf), steps |-> 0,
                cap_count |-> 0, cap_max |-> 0]
    /\ phase' = "ready"
    /\ UNCHANGED <<launch, config, arch, plan, pools, rates, last>>

\* predict() for the batch of a step, with the statistics of the cap
Predict ==
    /\ phase = "ready" /\ perf.steps < MaxSteps
    /\ \E batch \in Batches :
         LET raw == Raw(perf.coef, batch)
             capped == raw > MaxLatency * perf.coef.den
         IN /\ last' = [batch |-> batch, raw |-> raw,
                        latency |-> Limited(raw, perf.coef.den)]
            /\ perf' = [perf EXCEPT
                 !.steps = @ + 1,
                 !.cap_count = IF capped THEN @ + 1 ELSE @,
                 !.cap_max = IF capped /\ raw > @ THEN raw ELSE @]
    /\ UNCHANGED <<launch, phase, config, arch, plan, pools, rates>>

Next ==
    \/ Configure \/ BuildPlan
    \/ BuildVLLM \/ BuildSGLang
    \/ BuildAcceptance \/ FitPerfModel \/ Predict

Spec == Init /\ [][Next]_vars

-----------------------------------------------------------------------------
Planned == phase \notin {"main", "configured"}
Built == phase \in {"backend", "accepting", "ready"}

\* The cache groups are written down three times, and agree but for the pages
\* named here: the same groups in the same order, with the same blocks and numbers
\* of layers; every module is named once, by a layer that has it, and only the SWA
\* group grows by draft layers; both backends slide the same window.  The bytes of
\* a page are those of the tokens it stores after compression, and vLLM's spec
\* takes as many, with three exceptions: the indexer in fp4, for which vLLM takes
\* the larger page of fp8 (and only then); the packed layout of a model that is
\* not the size of DeepSeek V4; and the uniform model, whose shared description
\* assumes two bytes per element whatever its dtype.
LayoutsReconciled == Planned =>
    LET outline == LayerGroups(arch)
        groups == KVCacheGroups(arch, plan.block_size)
        specs == VLLMSpecs(arch, plan)
        isState(i) == outline[i].ratio = 0
        isIndexer(i) == outline[i].name = "c4_indexer"
        tokenBytes(i) == IF isIndexer(i) THEN IndexerBytes(arch)
                         ELSE PerTokenBytes(arch, groups[i])
    IN /\ DOMAIN groups = DOMAIN outline
       /\ \A i \in DOMAIN outline :
            /\ groups[i].name = outline[i].name /\ groups[i].layers = outline[i].layers
            /\ IsHybrid(arch) => groups[i].block = outline[i].block
            /\ IsHybrid(arch) /\ ~isState(i) =>
                 groups[i].bytes = (groups[i].block \div outline[i].ratio) * tokenBytes(i)
            /\ isIndexer(i) =>
                 IF arch.use_fp4_indexer THEN SpecBytes(specs[i]) > groups[i].bytes
                                         ELSE SpecBytes(specs[i]) = groups[i].bytes
            /\ IsHybrid(arch) /\ ~isIndexer(i)
                 /\ (specs[i].kv.packed => KVBytes(arch) = PackedToken) =>
                    SpecBytes(specs[i]) = groups[i].bytes
            /\ ~IsHybrid(arch) =>
                 2 * SpecBytes(specs[i]) = specs[i].kv.dtype * groups[i].bytes
            /\ specs[i].name = "swa" => specs[i].kv.sliding_window = Window(arch)
            /\ Cardinality(specs[i].modules) = outline[i].layers +
                 IF specs[i].name = "swa" THEN DraftLayers(arch, plan) ELSE 0
            /\ \A j \in DOMAIN outline :
                 i # j => specs[i].modules \cap specs[j].modules = {}

\* Blocks fit together: the block of every group is a whole number of hash blocks
\* and goes a whole number of times into the block of the scheduler (an assertion
\* of vLLM); SGLang's pools have whole pages, also with a share for drafting.
BlockSizesFit == Planned =>
    /\ \A i \in DOMAIN LayerGroups(arch) :
         LET block == KVCacheGroups(arch, plan.block_size)[i].block
         IN block % plan.hash_block_size = 0 /\ plan.scheduler_block_size % block = 0
    /\ Built /\ config.scalars.backend = "sglang" =>
         pools.full % plan.block_size = 0 /\ pools.swa % plan.block_size = 0
         /\ pools.full = FullTokens(arch, plan)

\* What total_bytes reports is enough for every token that the two pools admit,
\* in every layer that keeps it; and a token is charged for just those layers.
LedgerCoversPools ==
    Built /\ config.scalars.backend = "sglang" /\ IsHybrid(arch) =>
        LET groups == KVCacheGroups(arch, plan.block_size)
            outline == LayerGroups(arch)
            kept == {i \in DOMAIN outline : outline[i].ratio # 0}
            tokens(i) == IF outline[i].name = "swa" THEN pools.swa
                         ELSE pools.full \div outline[i].ratio
            tokenBytes(i) == IF outline[i].name = "c4_indexer" THEN IndexerBytes(arch)
                             ELSE KVBytes(arch)
        IN /\ \A i \in kept :
                tokens(i) * tokenBytes(i) * outline[i].layers
                    <= GroupBytes(arch, plan, pools, groups[i])
           /\ PerToken(arch).swa + PerToken(arch).full
                = SumFunctionOnSet([i \in kept |-> outline[i].layers], kept)

\* Memory is set aside for drafts exactly when the speculative engine generates
\* some, and every draft has an acceptance rate: the switch and the number of
\* drafts are two settings, read at different places.
SpeculationAgrees ==
    LET s == config.speculative
    IN /\ Planned => (plan.num_spec_tokens > 0 <=> s.enabled /\ s.num_spec_tokens > 0)
       /\ phase \in {"accepting", "ready"} /\ s.accept_mode = "per_position" =>
            Len(rates) = s.num_spec_tokens

ProductOf(seq, part) == FoldLeft(LAMBDA all, q : all * q[part], 1, seq)

\* The chance that the verifier gets to position i and accepts there, the product
\* of the conditional rates up to i, is the marginal rate that was measured.
MarginalsReproduced ==
    phase \in {"accepting", "ready"} /\ rates # <<>>
        /\ config.speculative.acceptance_rates \notin {None, <<>>} =>
        \A i \in DOMAIN rates :
            LET first == SubSeq(rates, 1, i)
            IN ProductOf(first, "num") * Scale
                 = config.speculative.acceptance_rates[i] * ProductOf(first, "den")

\* The fit is a least-squares solution, whatever the points: also when they do not
\* determine it, as with a single point, one batch size, or prefills only.
FitIsLeastSquares ==
    phase = "ready" /\ perf.steps = 0 /\ ~IsExplicit(config.gpu_perf) =>
        LET points == PointsOf(config.gpu_perf)
            s == Solution(points)
            normal == NormalEquations(points)
        IN \A i \in 1..4 :
             normal[i][1] * s.num[1] + normal[i][2] * s.num[2] + normal[i][3] * s.num[3]
                 + normal[i][4] * s.num[4] = normal[i][5] * s.den

\* The predicted latency of a step is a time within the cap, so the clock never
\* turns back, and a batch costs what its requests cost alone, but for the base:
\* no request pays for the tokens that another one loads.
StepLatency == last # None =>
    LET alone(q) == Raw(perf.coef, <<q>>)
        base == perf.coef.num[4]
        cap == MaxLatency * perf.coef.den
    IN /\ last.latency \in 0..cap
       /\ last.raw \in 0..cap => last.latency = last.raw
       /\ last.raw + (Len(last.batch) - 1) * base = TotalOf(last.batch, alone)
=============================================================================
