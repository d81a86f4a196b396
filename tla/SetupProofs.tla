---------------------------- MODULE SetupProofs ----------------------------
(***************************************************************************)
(* Theorems about EngineSetup, for every command line and every model.     *)
(***************************************************************************)
EXTENDS EngineSetup, FoldTheorems

-----------------------------------------------------------------------------
(* The types of what main() and the engine derive                          *)

Points == Seq([loaded : Nat, computed : Nat, latency : Nat])

\* A SimulatorConfig; memory and switch of the speculation go together.
ScalarsType(s) ==
    /\ s.backend \in {"vllm", "sglang"} /\ s.use_fp4_indexer \in BOOLEAN
    /\ s.model_config_path = None \/ IsModel(s.model_config_path)
    /\ s.swa_full_tokens_ratio \in Nat
    /\ s.kv_cache_block_size \in Nat \ {0} /\ s.num_kv_cache_blocks \in Nat

SpeculativeType(s) ==
    /\ s.num_spec_tokens \in Nat /\ (s.num_spec_tokens > 0 => s.enabled)
    /\ s.acceptance_rates = None \/ s.acceptance_rates \in Seq(Int)

PerfType(g) ==
    /\ g.data_points = None \/ g.data_points \in Points
    /\ g.coefficients \in [1..4 -> Int \cup {None}]

ConfigType ==
    ScalarsType(config.scalars) /\ SpeculativeType(config.speculative)
        /\ PerfType(config.gpu_perf)

\* What a JSON file gives is of those types.
LEMMA FileTypes ==
    ASSUME NEW file, IsSettings(file)
    PROVE  LET c == FromJson(file)
           IN /\ DOMAIN c.scalars = DOMAIN FieldDefaults
              /\ ScalarsType(c.scalars) /\ SpeculativeType(c.speculative)
              /\ PerfType(c.gpu_perf)
  <1> DEFINE scalars == FromJson(file).scalars
             spec == FromJson(file).speculative
  <1>1. \A f \in DOMAIN FieldDefaults : scalars[f] = Get(file, f, FieldDefaults[f])
    BY DEF FromJson
  <1>2. ScalarsType(scalars)
    <2>1. /\ scalars.backend = Get(file, "backend", "vllm")
          /\ scalars.model_config_path = Get(file, "model_config_path", None)
          /\ scalars.use_fp4_indexer = Get(file, "use_fp4_indexer", FALSE)
          /\ scalars.swa_full_tokens_ratio = Get(file, "swa_full_tokens_ratio", 1)
          /\ scalars.kv_cache_block_size = Get(file, "kv_cache_block_size", 16)
          /\ scalars.num_kv_cache_blocks = Get(file, "num_kv_cache_blocks", DefaultBlocks)
      BY DEF FromJson, FieldDefaults
    <2> HIDE DEF scalars
    <2>2. scalars.backend \in {"vllm", "sglang"} /\ scalars.use_fp4_indexer \in BOOLEAN
      BY <2>1 DEF Get, IsSettings, Given
    <2>3. scalars.model_config_path = None \/ IsModel(scalars.model_config_path)
      BY <2>1 DEF Get, IsSettings
    <2>4. /\ scalars.swa_full_tokens_ratio \in Nat
          /\ scalars.kv_cache_block_size \in Nat \ {0}
          /\ scalars.num_kv_cache_blocks \in Nat
      BY <2>1, LaunchAssumption DEF Get, IsSettings, Given, LaunchAssumption
    <2> QED
      BY <2>2, <2>3, <2>4 DEF ScalarsType
  <1>3. SpeculativeType(spec)
    <2>1. /\ spec.enabled = Get(file, "enabled", TRUE)
          /\ spec.num_spec_tokens = FileDrafts(file)
          /\ spec.acceptance_rates = Get(file, "acceptance_rates", None)
      BY DEF FromJson
    <2>2. FileDrafts(file) \in Nat
      BY DEF FileDrafts, Get, IsSettings, Given
    <2>3. CASE spec.enabled
      BY <2>1, <2>2, <2>3 DEF SpeculativeType, Get, IsSettings, Given
    <2>4. CASE ~spec.enabled
      <3>1. FileDrafts(file) = 0
        BY <2>1, <2>4 DEF FileDrafts
      <3> QED
        BY <2>1, <2>2, <3>1 DEF SpeculativeType, Get, IsSettings, Given
    <2> QED
      BY <2>3, <2>4
  <1>4. PerfType(FromJson(file).gpu_perf)
    BY DEF PerfType, Points, FromJson, Get, IsSettings, Given
  <1> QED
    BY <1>2, <1>3, <1>4 DEF FromJson

\* The flags keep the types, whatever they replace.
LEMMA ConfigureTypes ==
    ASSUME launch \in Launches, Configure
    PROVE  ConfigType'
  <1> DEFINE flags == launch.flags
             base == IF launch.file # None THEN FromJson(launch.file) ELSE FromFlags(flags)
  <1>0. IsSettings(flags) /\ (launch.file # None => IsSettings(launch.file))
    BY LaunchAssumption DEF LaunchAssumption
  <1>1. IsSettings(<<>>)
    BY DEF IsSettings, Given
  <1>2. FromFlags(flags).scalars = FromJson(<<>>).scalars
        /\ FromFlags(flags).gpu_perf = FromJson(<<>>).gpu_perf
    BY DEF FromFlags, FromJson
  <1>3. SpeculativeType(FromFlags(flags).speculative)
    <2> DEFINE spec == FromFlags(flags).speculative
    <2>1. /\ spec.enabled = (spec.num_spec_tokens > 0)
          /\ spec.num_spec_tokens = Get(flags, "num_spec_tokens", 2)
          /\ spec.acceptance_rates = Get(flags, "acceptance_rates", None)
      BY DEF FromFlags, FromJson
    <2> HIDE DEF spec
    <2>2. spec.num_spec_tokens \in Nat
      BY <1>0, <2>1 DEF Get, IsSettings, Given
    <2>3. spec.acceptance_rates = None \/ spec.acceptance_rates \in Seq(Int)
      BY <1>0, <2>1 DEF Get, IsSettings, Given
    <2>4. spec.num_spec_tokens > 0 => spec.enabled
      BY <2>1
    <2> QED
      BY <2>2, <2>3, <2>4 DEF SpeculativeType, spec
  <1>4. /\ DOMAIN base.scalars = DOMAIN FieldDefaults
        /\ ScalarsType(base.scalars) /\ SpeculativeType(base.speculative)
        /\ PerfType(base.gpu_perf)
    <2>1. CASE launch.file # None
      BY <1>0, <2>1, FileTypes
    <2>2. CASE launch.file = None
      BY <1>1, <1>2, <1>3, <2>2, FileTypes
    <2> QED
      BY <2>1, <2>2
  <1>5. base = [scalars |-> base.scalars, speculative |-> base.speculative,
                gpu_perf |-> base.gpu_perf]
    BY DEF FromFlags, FromJson
  <1>6. config' = [base EXCEPT !.scalars = Override(@, flags),
                               !.gpu_perf = OverridePoints(@, flags)]
    BY DEF Configure
  <1> HIDE DEF base
  <1>7. /\ config'.scalars = Override(base.scalars, flags)
        /\ config'.speculative = base.speculative
        /\ config'.gpu_perf = OverridePoints(base.gpu_perf, flags)
    BY <1>5, <1>6
  <1>8. ScalarsType(config'.scalars)
    <2> DEFINE s == config'.scalars
               b == base.scalars
    <2>1. ASSUME NEW f \in DOMAIN FieldDefaults
          PROVE  s[f] = IF Get(flags, f, ParserDefaults[f]) # ParserDefaults[f]
                        THEN flags[f] ELSE b[f]
      BY <1>4, <1>7 DEF Override, Get
    <2>2. /\ s.backend = IF Get(flags, "backend", "vllm") # "vllm"
                         THEN flags["backend"] ELSE b.backend
          /\ s.use_fp4_indexer = IF Get(flags, "use_fp4_indexer", FALSE) # FALSE
                                 THEN flags["use_fp4_indexer"] ELSE b.use_fp4_indexer
          /\ s.model_config_path =
                 IF Get(flags, "model_config_path", None) # None
                 THEN flags["model_config_path"] ELSE b.model_config_path
      BY <2>1 DEF FieldDefaults, ParserDefaults
    <2>3. /\ s.swa_full_tokens_ratio = IF Get(flags, "swa_full_tokens_ratio", 1) # 1
                 THEN flags["swa_full_tokens_ratio"] ELSE b.swa_full_tokens_ratio
          /\ s.kv_cache_block_size = IF Get(flags, "kv_cache_block_size", 16) # 16
                 THEN flags["kv_cache_block_size"] ELSE b.kv_cache_block_size
          /\ s.num_kv_cache_blocks =
                 IF Get(flags, "num_kv_cache_blocks", DefaultBlocks) # DefaultBlocks
                 THEN flags["num_kv_cache_blocks"] ELSE b.num_kv_cache_blocks
      BY <2>1 DEF FieldDefaults, ParserDefaults
    <2>4. ScalarsType(b)
      BY <1>4
    <2> HIDE DEF s, b
    <2>5. s.backend \in {"vllm", "sglang"} /\ s.use_fp4_indexer \in BOOLEAN
      BY <1>0, <2>2, <2>4 DEF ScalarsType, Get, IsSettings, Given
    <2>6. s.model_config_path = None \/ IsModel(s.model_config_path)
      BY <1>0, <2>2, <2>4 DEF ScalarsType, Get, IsSettings
    <2>7. /\ s.swa_full_tokens_ratio \in Nat /\ s.kv_cache_block_size \in Nat \ {0}
          /\ s.num_kv_cache_blocks \in Nat
      BY <1>0, <2>3, <2>4 DEF ScalarsType, Get, IsSettings, Given
    <2> QED
      BY <2>5, <2>6, <2>7 DEF ScalarsType, s
  <1>9. PerfType(config'.gpu_perf)
    <2> DEFINE g == base.gpu_perf
    <2>1. g = [data_points |-> g.data_points, coefficients |-> g.coefficients]
      BY DEF base, FromFlags, FromJson
    <2>2. PerfType(g)
      BY <1>4
    <2> HIDE DEF g
    <2>3. /\ OverridePoints(g, flags).coefficients = g.coefficients
          /\ OverridePoints(g, flags).data_points
                 = Get(flags, "gpu_data_points", g.data_points)
      BY <2>1 DEF OverridePoints
    <2>4. "gpu_data_points" \in DOMAIN flags => flags["gpu_data_points"] \in Points
      BY <1>0 DEF IsSettings, Given, Points
    <2> QED
      BY <1>7, <2>2, <2>3, <2>4 DEF PerfType, Get, g
  <1> QED
    BY <1>4, <1>7, <1>8, <1>9 DEF ConfigType

\* A ModelArchitecture; a model with compress ratios names its layers.
ArchType ==
    /\ arch.num_layers \in Nat /\ arch.num_kv_heads \in Nat /\ arch.head_size \in Nat
    /\ arch.dtype \in Nat
    /\ arch.qk_rope \in Nat /\ arch.sliding_window \in Nat
    /\ arch.indexer_head_dim \in Nat /\ arch.num_mtp_layers \in Nat
    /\ arch.compress_ratios = None \/ arch.compress_ratios \in Seq(Nat)
    /\ arch.use_fp4_indexer \in BOOLEAN /\ arch.is_mla \in BOOLEAN

\* The plan is derived from the architecture and the configuration.
PlanOf(configured) ==
    LET sizes == BlockSizes(arch, configured)
    IN /\ plan.block_size = sizes.block_size
       /\ plan.scheduler_block_size = sizes.scheduler_block_size
       /\ plan.hash_block_size = sizes.hash_block_size
       /\ plan.num_kv_cache_blocks \in Nat /\ plan.swa_full_tokens_ratio \in Nat
       /\ plan.num_spec_tokens = config.speculative.num_spec_tokens

PlanType == ArchType /\ PlanOf(config.scalars.kv_cache_block_size)

\* What HuggingFace configs become is of that type.
LEMMA ModelTypes ==
    ASSUME NEW hf, IsModel(hf)
    PROVE  LET a == ArchFromJson(hf)
           IN /\ a.num_layers \in Nat /\ a.num_kv_heads \in Nat /\ a.head_size \in Nat
              /\ a.dtype \in Nat
              /\ a.qk_rope \in Nat /\ a.sliding_window \in Nat
              /\ a.indexer_head_dim \in Nat /\ a.num_mtp_layers \in Nat
              /\ a.compress_ratios = None \/ a.compress_ratios \in Seq(Nat)
              /\ a.use_fp4_indexer \in BOOLEAN /\ a.is_mla \in BOOLEAN
  <1> DEFINE a == ArchFromJson(hf)
  <1>1. /\ a.num_layers \in Nat /\ a.num_kv_heads \in Nat /\ a.dtype \in Nat
        /\ a.qk_rope \in Nat /\ a.sliding_window \in Nat
        /\ a.indexer_head_dim \in Nat /\ a.num_mtp_layers \in Nat
    BY DEF ArchFromJson, Get, IsModel, Given
  <1>2. a.head_size \in Nat
    BY DEF ArchFromJson, Get, IsModel, Given, NonZeroOr
  <1>3. a.compress_ratios = None \/ a.compress_ratios \in Seq(Nat)
    BY DEF ArchFromJson, Get, IsModel, Given
  <1>4. a.use_fp4_indexer \in BOOLEAN /\ a.is_mla \in BOOLEAN
    BY DEF ArchFromJson, Get, IsModel, Given
  <1> QED
    BY <1>1, <1>2, <1>3, <1>4

\* The indexer's format changes none of the groups and sizes.
LEMMA SameSizes ==
    ASSUME NEW a, NEW b, a.is_mla = b.is_mla, a.num_layers = b.num_layers,
           a.compress_ratios = b.compress_ratios, NEW c
    PROVE  BlockSizes(a, c) = BlockSizes(b, c)
  <1>1. \A ratio : LayersOf(a, ratio) = LayersOf(b, ratio)
    BY DEF LayersOf
  <1>2. Count(a, 4) = Count(b, 4) /\ Count(a, 128) = Count(b, 128)
    BY <1>1 DEF Count
  <1>3. IsHybrid(a) = IsHybrid(b)
    BY DEF IsHybrid
  <1>4. LayerGroups(a) = LayerGroups(b)
    BY <1>2, <1>3 DEF LayerGroups
  <1> QED
    BY <1>3, <1>4 DEF BlockSizes

\* DeepSeek V4 Flash is a model of that type.
LEMMA FlashTypes ==
    DeepseekV4Flash.compress_ratios \in Seq(Nat)
  <1> DEFINE tail == [i \in 1..41 |-> IF i % 2 = 1 THEN 4 ELSE 128]
  <1>1. tail \in Seq(Nat) /\ <<0, 0>> \in Seq(Nat)
    BY 41 \in Nat, 4 \in Nat, 128 \in Nat
  <1>2. DeepseekV4Flash.compress_ratios = <<0, 0>> \o tail
    BY DEF DeepseekV4Flash
  <1> HIDE DEF tail
  <1> QED
    BY <1>1, <1>2

\* The architecture and the plan that are derived from the settings have their types.
LEMMA BuildPlanTypes ==
    ASSUME ConfigType, BuildPlan
    PROVE  PlanType'
  <1> DEFINE s == config.scalars
             a == IF s.model_config_path = None THEN DeepseekV4Flash
                  ELSE ArchFromJson(s.model_config_path)
             sizes == BlockSizes(a, s.kv_cache_block_size)
  <1>0. ScalarsType(s)
    BY DEF ConfigType
  <1>1. /\ arch' = [a EXCEPT !.use_fp4_indexer = @ \/ s.use_fp4_indexer]
        /\ plan' = [block_size |-> sizes.block_size,
                    scheduler_block_size |-> sizes.scheduler_block_size,
                    hash_block_size |-> sizes.hash_block_size,
                    num_kv_cache_blocks |-> s.num_kv_cache_blocks,
                    num_spec_tokens |-> config.speculative.num_spec_tokens,
                    swa_full_tokens_ratio |-> s.swa_full_tokens_ratio]
        /\ config' = config
    BY DEF BuildPlan
  <1>2. /\ a.num_layers \in Nat /\ a.num_kv_heads \in Nat /\ a.head_size \in Nat
        /\ a.dtype \in Nat
        /\ a.qk_rope \in Nat /\ a.sliding_window \in Nat
        /\ a.indexer_head_dim \in Nat /\ a.num_mtp_layers \in Nat
        /\ a.compress_ratios = None \/ a.compress_ratios \in Seq(Nat)
        /\ a.use_fp4_indexer \in BOOLEAN /\ a.is_mla \in BOOLEAN
    <2>1. CASE s.model_config_path = None
      <3>1. a.compress_ratios \in Seq(Nat)
        BY <2>1, FlashTypes
      <3> QED
        BY <2>1, <3>1 DEF DeepseekV4Flash
    <2>2. CASE s.model_config_path # None
      BY <1>0, <2>2, ModelTypes DEF ScalarsType
    <2> QED
      BY <2>1, <2>2
  <1>3. DOMAIN a = {"num_layers", "num_kv_heads", "head_size", "dtype", "qk_rope",
                    "sliding_window", "indexer_head_dim", "compress_ratios",
                    "num_mtp_layers", "use_fp4_indexer", "is_mla"}
    BY DEF DeepseekV4Flash, ArchFromJson
  <1> HIDE DEF a, sizes, s
  <1>4. /\ arch'.num_layers = a.num_layers /\ arch'.num_kv_heads = a.num_kv_heads
        /\ arch'.head_size = a.head_size /\ arch'.dtype = a.dtype
        /\ arch'.qk_rope = a.qk_rope
        /\ arch'.sliding_window = a.sliding_window
        /\ arch'.indexer_head_dim = a.indexer_head_dim
        /\ arch'.num_mtp_layers = a.num_mtp_layers
        /\ arch'.compress_ratios = a.compress_ratios /\ arch'.is_mla = a.is_mla
        /\ arch'.use_fp4_indexer = (a.use_fp4_indexer \/ s.use_fp4_indexer)
    BY <1>1, <1>3
  <1>5. ArchType'
    <2>1. arch'.use_fp4_indexer \in BOOLEAN
      BY <1>4
    <2> QED
      BY <1>2, <1>4, <2>1 DEF ArchType
  <1>6. BlockSizes(arch', s.kv_cache_block_size) = sizes
    BY <1>4, SameSizes DEF sizes
  <1>7. PlanOf(s.kv_cache_block_size)'
    <2>1. s' = s
      BY <1>1 DEF s
    <2> QED
      BY <1>0, <1>1, <1>6, <2>1 DEF PlanOf, ScalarsType
  <1> QED
    BY <1>5, <1>7 DEF PlanType, s

-----------------------------------------------------------------------------
(* The invariant of the start-up, and the two settings of the speculation  *)

Accepting == phase \in {"accepting", "ready"}

\* Each phase leaves behind what it derives, for the later ones.
SetupInv ==
    /\ launch \in Launches
    /\ phase # "main" => ConfigType
    /\ Planned => PlanType
    /\ Accepting =>
         LET s == config.speculative
         IN /\ rates = ConditionalRates(s.accept_mode, s.acceptance_rates, s.num_spec_tokens)
            /\ rates # None

\* Before main() nothing is derived.
LEMMA InitSetup == Init => SetupInv
  BY DEF Init, SetupInv, Planned, Accepting

\* Every phase keeps what the earlier ones derived, and adds its own.
LEMMA SetupStep ==
    ASSUME SetupInv, [Next]_vars
    PROVE  SetupInv'
  <1>1. CASE Configure
    <2>1. ConfigType'
      BY <1>1, ConfigureTypes DEF SetupInv
    <2> QED
      BY <1>1, <2>1 DEF SetupInv, Configure, Planned, Accepting
  <1>2. CASE BuildPlan
    <2>1. ConfigType /\ PlanType'
      BY <1>2, BuildPlanTypes DEF SetupInv, BuildPlan
    <2> QED
      BY <1>2, <2>1 DEF SetupInv, BuildPlan, Accepting, ConfigType
  <1>3. ASSUME UNCHANGED <<launch, config, arch, plan>>, phase # "main", Planned,
               Accepting' => Accepting /\ UNCHANGED rates
        PROVE  SetupInv'
    <2>1. ConfigType' /\ PlanType'
      BY <1>3 DEF SetupInv, ConfigType, PlanType, ArchType, PlanOf
    <2> QED
      BY <1>3, <2>1 DEF SetupInv
  <1>4. CASE BuildVLLM \/ BuildSGLang
    BY <1>3, <1>4 DEF BuildVLLM, BuildSGLang, Planned, Accepting
  <1>5. CASE BuildAcceptance
    <2>1. ConfigType' /\ PlanType'
      BY <1>5 DEF SetupInv, BuildAcceptance, ConfigType, PlanType, ArchType, PlanOf, Planned
    <2> QED
      BY <1>5, <2>1 DEF SetupInv, BuildAcceptance, Accepting
  <1>6. CASE FitPerfModel
    BY <1>3, <1>6 DEF FitPerfModel, Planned, Accepting
  <1>7. CASE Predict
    BY <1>3, <1>7 DEF Predict, Planned, Accepting
  <1>8. CASE UNCHANGED vars
    BY <1>8 DEF SetupInv, vars, Planned, Accepting, ConfigType, PlanType, ArchType, PlanOf
  <1> QED
    BY <1>1, <1>2, <1>4, <1>5, <1>6, <1>7, <1>8 DEF Next

\* Every phase of the start-up leaves values of the right types: the configuration,
\* the architecture, the plan derived from it and the conditional rates.
THEOREM SetupTypes == Spec => []SetupInv
  BY InitSetup, SetupStep, PTL DEF Spec

\* A list of rates that is given has as many as there are drafts.
LEMMA RateCount ==
    ASSUME NEW given, given = None \/ given \in Seq(Int), NEW K \in Nat,
           ConditionalRates("per_position", given, K) # None
    PROVE  LET all == ConditionalRates("per_position", given, K)
           IN /\ DOMAIN all = 1..K /\ Len(all) = K
              /\ given \notin {None, <<>>} =>
                   /\ K <= Len(given) /\ IsMarginal(SubSeq(given, 1, K))
                   /\ all = MarginalToConditional(SubSeq(given, 1, K))
  <1>1. CASE given \in {None, <<>>}
    <2>1. ConditionalRates("per_position", given, K) = [i \in 1..K |-> Quotient(1, 2)]
      BY <1>1 DEF ConditionalRates
    <2> QED
      BY <1>1, <2>1
  <1>2. CASE given \notin {None, <<>>}
    <2> DEFINE first == SubSeq(given, 1, K)
    <2>1. /\ given \in Seq(Int) /\ Len(given) \in Nat /\ K <= Len(given)
          /\ IsMarginal(first)
          /\ ConditionalRates("per_position", given, K) = MarginalToConditional(first)
      BY <1>2 DEF ConditionalRates
    <2>2. DOMAIN first = 1..K
      BY <2>1
    <2> HIDE DEF first
    <2>3. DOMAIN MarginalToConditional(first) = 1..K
      BY <2>2 DEF MarginalToConditional
    <2>4. MarginalToConditional(first) = [i \in 1..K |-> MarginalToConditional(first)[i]]
      BY <2>2 DEF MarginalToConditional
    <2>5. Len(MarginalToConditional(first)) = K
      BY <2>4
    <2> QED
      BY <2>1, <2>3, <2>5 DEF first
  <1> QED
    BY <1>1, <1>2

\* The plan sets memory aside for drafts exactly when the speculation is on and
\* has drafts, and per-position rates are as many as the drafts, whichever of the
\* file and the flags the two settings come from.
THEOREM OneSpeculation == Spec => []SpeculationAgrees
  <1>1. ASSUME SetupInv PROVE SpeculationAgrees
    <2> DEFINE s == config.speculative
    <2>1. ASSUME Planned
          PROVE  plan.num_spec_tokens > 0 <=> s.enabled /\ s.num_spec_tokens > 0
      <3>1. phase # "main"
        BY <2>1 DEF Planned
      <3>2. SpeculativeType(s) /\ plan.num_spec_tokens = s.num_spec_tokens
        BY <1>1, <2>1, <3>1 DEF SetupInv, ConfigType, PlanType, PlanOf
      <3> QED
        BY <3>2 DEF SpeculativeType
    <2>2. ASSUME Accepting, s.accept_mode = "per_position"
          PROVE  Len(rates) = s.num_spec_tokens
      <3>1. /\ SpeculativeType(s) /\ rates # None
            /\ rates = ConditionalRates("per_position", s.acceptance_rates,
                                        s.num_spec_tokens)
        BY <1>1, <2>2 DEF SetupInv, ConfigType, Accepting
      <3> QED
        BY <3>1, RateCount DEF SpeculativeType
    <2> QED
      BY <2>1, <2>2 DEF SpeculationAgrees, Accepting
  <1> QED
    BY <1>1, SetupTypes, PTL

-----------------------------------------------------------------------------
(* The conditional rates                                                   *)

\* h[i] is the product of one part of the first i members of a sequence.
PartialProducts(h, seq, part, n) ==
    /\ h \in [0..n -> Int] /\ h[0] = 1
    /\ \A i \in 1..n : h[i] = h[i - 1] * seq[i][part]

\* A fold with * multiplies them one after the other.
LEMMA ProductFolds ==
    ASSUME NEW n \in Nat, NEW seq, DOMAIN seq = 1..n, NEW part,
           \A i \in 1..n : seq[i][part] \in Int
    PROVE  \E h : /\ PartialProducts(h, seq, part, n)
                  /\ ProductOf(seq, part) = h[n]
  <1> DEFINE Step(g) == [s \in SUBSET (1..n) |->
                 IF s = {} THEN 1 ELSE g[s \ {Max(s)}] * seq[Max(s)][part]]
             c == CHOOSE g : g = Step(g)
             op == [x \in Int \X (1..n) |-> x[1] * seq[x[2]][part]]
  <1>1. ProductOf(seq, part) = c[1..n]
    BY DEF ProductOf, FoldLeft, MapThenFoldSet
  <1>2. op \in FoldSteps(Int, n)
    BY DEF FoldSteps
  <1>3. \A x \in Int, i \in 1..n : op[<<x, i>>] = x * seq[i][part]
    OBVIOUS
  <1> HIDE DEF op
  <1>4. PICK g : Folds(g, Int, n, 1, op)
    BY <1>2, FoldExists, 1 \in Int
  <1>5. ASSUME NEW s \in SUBSET (1..n), s # {}
        PROVE  g[s] = g[s \ {Max(s)}] * seq[Max(s)][part]
    <2>1. s \in SUBSET Nat /\ \A x \in s : x <= n
      OBVIOUS
    <2>2. Max(s) \in 1..n
      BY <1>5, <2>1, LargestIn
    <2>3. g[s \ {Max(s)}] \in Int
      BY <1>4 DEF Folds
    <2> QED
      BY <1>3, <1>4, <1>5, <2>2, <2>3 DEF Folds
  <1>6. g = Step(g)
    BY <1>4, <1>5 DEF Folds
  <1>7. c = Step(c)
    BY <1>6
  <1> HIDE DEF c
  <1>8. c[{}] = 1
    BY <1>7
  <1>9. ASSUME NEW i \in 1..n, c[1..(i - 1)] \in Int
        PROVE  c[1..i] = op[<<c[1..(i - 1)], i>>]
    <2>1. i \in Nat \ {0} /\ 1..i \in SUBSET (1..n)
      OBVIOUS
    <2>2. Max(1..i) = i /\ (1..i) \ {i} = 1..(i - 1) /\ 1..i # {}
      BY <2>1, LastOfInterval
    <2>3. c[1..i] = c[1..(i - 1)] * seq[i][part]
      BY <1>7, <2>1, <2>2
    <2> QED
      BY <1>3, <1>9, <2>3
  <1>10. PICK h : Traces(h, Int, n, 1, op) /\ h[n] = c[1..n]
    <2> DEFINE V == Int
    <2>1. /\ 1 \in V /\ op \in FoldSteps(V, n)
          /\ \A i \in 1..n : c[1..(i - 1)] \in V => c[1..i] = op[<<c[1..(i - 1)], i>>]
      BY <1>2, <1>9
    <2> HIDE DEF V
    <2>2. \E h : Traces(h, V, n, 1, op) /\ h[n] = c[1..n]
      BY <1>8, <2>1, FoldTrace
    <2> QED
      BY <2>2 DEF V
  <1>11. \A i \in 1..n : h[i] = h[i - 1] * seq[i][part]
    <2> SUFFICES ASSUME NEW i \in 1..n PROVE h[i] = h[i - 1] * seq[i][part]
      OBVIOUS
    <2>1. h[i - 1] \in Int
      BY <1>10 DEF Traces
    <2> QED
      BY <1>3, <1>10, <2>1 DEF Traces
  <1> QED
    BY <1>1, <1>10, <1>11 DEF PartialProducts, Traces

\* What the conversion divides.
LEMMA ConditionalRate ==
    ASSUME NEW m \in Seq(Int), IsMarginal(m), NEW i \in DOMAIN m
    PROVE  LET q == MarginalToConditional(m)[i]
               before == Before(m, i)
           IN /\ q["num"] \in Nat /\ q["den"] \in Nat \ {0}
              /\ before \in Nat /\ m[i] \in Nat
              /\ before # 0 => q["num"] = m[i] /\ q["den"] = before
              /\ before = 0 => q["num"] = 0 /\ m[i] = 0
  <1>1. i \in 1..Len(m) /\ Scale \in Nat \ {0}
    BY CalibrationAssumption DEF CalibrationAssumption
  <1>2. \A j \in 1..Len(m) : m[j] \in Nat
    BY <1>1 DEF IsMarginal
  <1>3. Before(m, i) \in Nat /\ (Before(m, i) = 0 => m[i] = 0)
    <2>1. CASE i = 1
      BY <1>1, <2>1 DEF Before
    <2>2. CASE i # 1
      <3>1. i \in 2..Len(m) /\ i - 1 \in 1..Len(m)
        BY <1>1, <2>2
      <3>2. m[i] <= m[i - 1]
        BY <3>1 DEF IsMarginal
      <3> QED
        BY <1>1, <1>2, <2>2, <3>1, <3>2 DEF Before
    <2> QED
      BY <2>1, <2>2
  <1>4. MarginalToConditional(m)[i] =
            [num |-> IF Before(m, i) = 0 THEN 0 ELSE m[i],
             den |-> IF Before(m, i) = 0 THEN 1 ELSE Before(m, i)]
    BY <1>3 DEF MarginalToConditional, Quotient
  <1> QED
    BY <1>1, <1>2, <1>3, <1>4

\* The products of the conditional rates telescope: up to i they leave the i-th
\* marginal rate, with whatever rate of 0 before it.
LEMMA Telescopes ==
    ASSUME NEW m \in Seq(Int), IsMarginal(m), NEW i \in DOMAIN m,
           NEW seq, DOMAIN seq = 1..i,
           \A j \in 1..i : seq[j] = MarginalToConditional(m)[j],
           NEW num, PartialProducts(num, seq, "num", i),
           NEW den, PartialProducts(den, seq, "den", i)
    PROVE  num[i] * Scale = m[i] * den[i]
  <1>0. /\ i \in 1..Len(m) /\ Len(m) \in Nat
        /\ Scale \in Nat \ {0} /\ \A j \in 1..Len(m) : m[j] \in Int
    BY CalibrationAssumption DEF CalibrationAssumption
  <1> DEFINE T == {j \in Nat : j + 1 <= i => num[j + 1] * Scale = m[j + 1] * den[j + 1]}
  <1>1. ASSUME NEW j \in 1..i,
               num[j - 1] * Scale = Before(m, j) * den[j - 1]
        PROVE  num[j] * Scale = m[j] * den[j]
    <2> DEFINE q == MarginalToConditional(m)[j]
               b == Before(m, j)
    <2>1. j \in DOMAIN m /\ j - 1 \in 0..i
      BY <1>0
    <2>2. /\ q["num"] \in Nat /\ q["den"] \in Nat \ {0} /\ b \in Nat /\ m[j] \in Nat
          /\ b # 0 => q["num"] = m[j] /\ q["den"] = b
          /\ b = 0 => q["num"] = 0 /\ m[j] = 0
      BY <2>1, ConditionalRate
    <2>3. /\ num[j - 1] \in Int /\ den[j - 1] \in Int
          /\ num[j] = num[j - 1] * q["num"] /\ den[j] = den[j - 1] * q["den"]
      BY <2>1 DEF PartialProducts
    <2>4. num[j - 1] * Scale = b * den[j - 1]
      BY <1>1
    <2> HIDE DEF q, b
    <2>5. CASE b = 0
      BY <1>0, <2>2, <2>3, <2>5
    <2>6. CASE b # 0
      <3>1. num[j] = num[j - 1] * m[j] /\ den[j] = den[j - 1] * b
        BY <2>2, <2>3, <2>6
      <3>2. \A x, y, z, v, w \in Int : x * v = w * y => (x * z) * v = z * (y * w)
        <4> SUFFICES ASSUME NEW x \in Int, NEW y \in Int, NEW z \in Int, NEW v \in Int,
                            NEW w \in Int, x * v = w * y
                     PROVE  (x * z) * v = z * (y * w)
          OBVIOUS
        <4>1. (x * z) * v = z * (x * v)
          OBVIOUS
        <4>2. z * (w * y) = z * (y * w)
          OBVIOUS
        <4> QED
          BY <4>1, <4>2
      <3>3. num[j - 1] \in Int /\ den[j - 1] \in Int /\ m[j] \in Int /\ Scale \in Int /\ b \in Int
        BY <1>0, <2>2, <2>3
      <3>4. (num[j - 1] * m[j]) * Scale = m[j] * (den[j - 1] * b)
        BY <2>4, <3>2, <3>3
      <3> QED
        BY <3>1, <3>4
    <2> QED
      BY <2>5, <2>6
  <1>2. 0 \in T
    <2>1. num[0] = 1 /\ den[0] = 1 /\ Before(m, 1) = Scale /\ 1 \in 1..i
      BY <1>0 DEF PartialProducts, Before
    <2>2. num[1 - 1] * Scale = Before(m, 1) * den[1 - 1]
      BY <1>0, <2>1
    <2> QED
      BY <1>1, <2>1, <2>2
  <1>3. ASSUME NEW j \in Nat, j \in T PROVE j + 1 \in T
    <2> SUFFICES ASSUME (j + 1) + 1 <= i
                 PROVE  num[(j + 1) + 1] * Scale = m[(j + 1) + 1] * den[(j + 1) + 1]
      OBVIOUS
    <2>1. /\ (j + 1) + 1 \in 1..i /\ ((j + 1) + 1) - 1 = j + 1 /\ j + 1 <= i
          /\ Before(m, (j + 1) + 1) = m[j + 1]
      BY <1>0 DEF Before
    <2>2. num[j + 1] * Scale = m[j + 1] * den[j + 1]
      BY <1>3, <2>1
    <2> QED
      BY <1>1, <2>1, <2>2
  <1> HIDE DEF T
  <1>4. i - 1 \in Nat /\ i - 1 \in T
    <2>1. \A j \in Nat : j \in T
      BY <1>2, <1>3, SetInduction
    <2> QED
      BY <1>0, <2>1
  <1> QED
    BY <1>0, <1>4 DEF T

\* The conditional rates that are derived from measured marginal rates give these
\* rates back: their product up to a position is the rate of the position, also
\* beyond a rate of 0, where the quotient is undefined.
THEOREM MarginalsGivenBack == Spec => []MarginalsReproduced
  <1>1. ASSUME SetupInv PROVE MarginalsReproduced
    <2> DEFINE s == config.speculative
               given == s.acceptance_rates
               K == s.num_spec_tokens
               m == SubSeq(given, 1, K)
    <2> SUFFICES ASSUME Accepting, rates # <<>>, given \notin {None, <<>>},
                        NEW i \in DOMAIN rates
                 PROVE  LET first == SubSeq(rates, 1, i)
                        IN ProductOf(first, "num") * Scale
                             = given[i] * ProductOf(first, "den")
      BY DEF MarginalsReproduced, Accepting
    <2>1. /\ SpeculativeType(s) /\ rates # None
          /\ rates = ConditionalRates(s.accept_mode, given, K)
      BY <1>1 DEF SetupInv, ConfigType, Accepting
    <2>2. given \in Seq(Int) /\ K \in Nat
      BY <2>1 DEF SpeculativeType
    <2>3. s.accept_mode = "per_position"
      BY <2>1 DEF ConditionalRates
    <2> HIDE DEF given, K, s
    <2>4. /\ rates = MarginalToConditional(m) /\ DOMAIN rates = 1..K /\ Len(rates) = K
          /\ IsMarginal(m) /\ K <= Len(given)
      BY <2>1, <2>2, <2>3, RateCount
    <2>5. m \in Seq(Int) /\ DOMAIN m = 1..K /\ \A j \in 1..K : m[j] = given[j]
      BY <2>2, <2>4
    <2> DEFINE seq == SubSeq(rates, 1, i)
    <2>6. rates = [j \in 1..K |-> MarginalToConditional(m)[j]]
      BY <2>4, <2>5 DEF MarginalToConditional
    <2>7. i \in 1..K /\ DOMAIN seq = 1..i /\ \A j \in 1..i : seq[j] = MarginalToConditional(m)[j]
      <3>1. i \in 1..K
        BY <2>4
      <3>2. seq = [j \in 1..i |-> rates[j]]
        BY <2>2, <2>4, <2>6, <3>1
      <3> QED
        BY <2>2, <2>4, <3>1, <3>2
    <2> HIDE DEF m, seq
    <2>8. ASSUME NEW part \in {"num", "den"}
          PROVE  \A j \in 1..i : seq[j][part] \in Int
      <3> SUFFICES ASSUME NEW j \in 1..i PROVE seq[j][part] \in Int
        OBVIOUS
      <3>1. j \in DOMAIN m
        BY <2>2, <2>5, <2>7
      <3>2. MarginalToConditional(m)[j]["num"] \in Nat /\ MarginalToConditional(m)[j]["den"] \in Nat
        BY <2>4, <2>5, <3>1, ConditionalRate
      <3> QED
        BY <2>7, <3>2
    <2>9. i \in Nat /\ DOMAIN seq = 1..i
      BY <2>2, <2>7
    <2>10. ASSUME NEW part \in {"num", "den"}
          PROVE  \E h : PartialProducts(h, seq, part, i) /\ ProductOf(seq, part) = h[i]
      BY <2>9, <2>8, ProductFolds
    <2>11. PICK num : PartialProducts(num, seq, "num", i) /\ ProductOf(seq, "num") = num[i]
      BY <2>10
    <2>12. PICK den : PartialProducts(den, seq, "den", i) /\ ProductOf(seq, "den") = den[i]
      BY <2>10
    <2>13. num[i] * Scale = m[i] * den[i] /\ m[i] = given[i]
      BY <2>4, <2>5, <2>7, <2>11, <2>12, Telescopes
    <2> QED
      BY <2>11, <2>12, <2>13 DEF seq
  <1> QED
    BY <1>1, SetupTypes, PTL

-----------------------------------------------------------------------------
(* The cache groups of a compressed model: which there are depends on the  *)
(* layers with a C4 and those with a C128 compressor                       *)

Group(name, block, ratio, layers) ==
    [name |-> name, block |-> block, ratio |-> ratio, layers |-> layers]

Page(name, block, bytes, layers) ==
    [name |-> name, block |-> block, bytes |-> bytes, layers |-> layers]

\* The groups that a model may have, and those that it has: with C4 layers, with
\* C128 layers, with both or with neither.
Shape(a, outline, groups) ==
    LET c4 == Count(a, 4)
        c128 == Count(a, 128)
        kv == KVBytes(a)
        g1 == Group("swa", 64, 1, a.num_layers)
        g2 == Group("c4_compressor", 4, 0, c4)
        g3 == Group("c128_compressor", 8, 0, c128)
        g4 == Group("c4_mla", 256, 4, c4)
        g5 == Group("c128_mla", 256, 128, c128)
        g6 == Group("c4_indexer", 256, 4, c4)
        p1 == Page("swa", 64, 64 * kv, a.num_layers)
        p2 == Page("c4_compressor", 4, 4 * 2048 * 4, c4)
        p3 == Page("c128_compressor", 8, 8 * 1024 * 4, c128)
        p4 == Page("c4_mla", 256, StoredTokens(4) * kv, c4)
        p5 == Page("c128_mla", 256, StoredTokens(128) * kv, c128)
        p6 == Page("c4_indexer", 256, StoredTokens(4) * IndexerBytes(a), c4)
    IN /\ ~(c4 > 0) /\ ~(c128 > 0) => outline = <<g1>> /\ groups = <<p1>>
       /\ c4 > 0 /\ ~(c128 > 0) =>
            outline = <<g1, g2, g4, g6>> /\ groups = <<p1, p2, p4, p6>>
       /\ ~(c4 > 0) /\ c128 > 0 => outline = <<g1, g3, g5>> /\ groups = <<p1, p3, p5>>
       /\ c4 > 0 /\ c128 > 0 => /\ outline = <<g1, g2, g3, g4, g5, g6>>
                                /\ groups = <<p1, p2, p3, p4, p5, p6>>

\* A sequence and one more member.
LEMMA OneMore ==
    ASSUME NEW S, NEW s \in Seq(S), NEW x \in S, NEW t \in Seq(S),
           Len(t) = Len(s) + 1, t[Len(s) + 1] = x, \A i \in 1..Len(s) : t[i] = s[i]
    PROVE  s \o <<x>> = t
  OBVIOUS

\* Sequences that grow by a member.
LEMMA Two ==
    ASSUME NEW u, NEW v
    PROVE  <<u>> \o <<v>> = <<u, v>>
  <1> DEFINE S == {u, v}
             s == <<u>>
             t == <<u, v>>
  <1>1. s \in Seq(S) /\ Len(s) = 1 /\ v \in S
    OBVIOUS
  <1>2. t \in Seq(S) /\ Len(t) = 2 /\ t[2] = v
    OBVIOUS
  <1>3. \A i \in 1..1 : t[i] = s[i]
    OBVIOUS
  <1> HIDE DEF s, t, S
  <1>4. Len(t) = Len(s) + 1 /\ t[Len(s) + 1] = v /\ \A i \in 1..Len(s) : t[i] = s[i]
    BY <1>1, <1>2, <1>3
  <1>5. s \o <<v>> = t
    BY <1>1, <1>2, <1>4, OneMore
  <1> QED
    BY <1>5 DEF s, t

\* Three groups.
LEMMA Three ==
    ASSUME NEW u, NEW v, NEW w
    PROVE  <<u, v>> \o <<w>> = <<u, v, w>>
  <1> DEFINE S == {u, v, w}
             s == <<u, v>>
             t == <<u, v, w>>
  <1>1. s \in Seq(S) /\ Len(s) = 2 /\ w \in S
    OBVIOUS
  <1>2. t \in Seq(S) /\ Len(t) = 3 /\ t[3] = w
    OBVIOUS
  <1>3. \A i \in 1..2 : t[i] = s[i]
    OBVIOUS
  <1> HIDE DEF s, t, S
  <1>4. Len(t) = Len(s) + 1 /\ t[Len(s) + 1] = w /\ \A i \in 1..Len(s) : t[i] = s[i]
    BY <1>1, <1>2, <1>3
  <1>5. s \o <<w>> = t
    BY <1>1, <1>2, <1>4, OneMore
  <1> QED
    BY <1>5 DEF s, t

\* Four groups.
LEMMA Four ==
    ASSUME NEW u, NEW v, NEW w, NEW x
    PROVE  <<u, v, w>> \o <<x>> = <<u, v, w, x>>
  <1> DEFINE S == {u, v, w, x}
             s == <<u, v, w>>
             t == <<u, v, w, x>>
  <1>1. s \in Seq(S) /\ Len(s) = 3 /\ x \in S
    OBVIOUS
  <1>2. t \in Seq(S) /\ Len(t) = 4 /\ t[4] = x
    OBVIOUS
  <1>3. \A i \in 1..3 : t[i] = s[i]
    OBVIOUS
  <1> HIDE DEF s, t, S
  <1>4. Len(t) = Len(s) + 1 /\ t[Len(s) + 1] = x /\ \A i \in 1..Len(s) : t[i] = s[i]
    BY <1>1, <1>2, <1>3
  <1>5. s \o <<x>> = t
    BY <1>1, <1>2, <1>4, OneMore
  <1> QED
    BY <1>5 DEF s, t

\* Five groups.
LEMMA Five ==
    ASSUME NEW u, NEW v, NEW w, NEW x, NEW y
    PROVE  <<u, v, w, x>> \o <<y>> = <<u, v, w, x, y>>
  <1> DEFINE S == {u, v, w, x, y}
             s == <<u, v, w, x>>
             t == <<u, v, w, x, y>>
  <1>1. s \in Seq(S) /\ Len(s) = 4 /\ y \in S
    OBVIOUS
  <1>2. t \in Seq(S) /\ Len(t) = 5 /\ t[5] = y
    OBVIOUS
  <1>3. \A i \in 1..4 : t[i] = s[i]
    OBVIOUS
  <1> HIDE DEF s, t, S
  <1>4. Len(t) = Len(s) + 1 /\ t[Len(s) + 1] = y /\ \A i \in 1..Len(s) : t[i] = s[i]
    BY <1>1, <1>2, <1>3
  <1>5. s \o <<y>> = t
    BY <1>1, <1>2, <1>4, OneMore
  <1> QED
    BY <1>5 DEF s, t

\* Six groups.
LEMMA Six ==
    ASSUME NEW u, NEW v, NEW w, NEW x, NEW y, NEW z
    PROVE  <<u, v, w, x, y>> \o <<z>> = <<u, v, w, x, y, z>>
  <1> DEFINE S == {u, v, w, x, y, z}
             s == <<u, v, w, x, y>>
             t == <<u, v, w, x, y, z>>
  <1>1. s \in Seq(S) /\ Len(s) = 5 /\ z \in S
    OBVIOUS
  <1>2. t \in Seq(S) /\ Len(t) = 6 /\ t[6] = z
    OBVIOUS
  <1>3. \A i \in 1..5 : t[i] = s[i]
    OBVIOUS
  <1> HIDE DEF s, t, S
  <1>4. Len(t) = Len(s) + 1 /\ t[Len(s) + 1] = z /\ \A i \in 1..Len(s) : t[i] = s[i]
    BY <1>1, <1>2, <1>3
  <1>5. s \o <<z>> = t
    BY <1>1, <1>2, <1>4, OneMore
  <1> QED
    BY <1>5 DEF s, t

\* The groups one after the other, with those left out that the model lacks.
LEMMA JoinedOne ==
    ASSUME NEW u
    PROVE  <<u>> \o <<>> \o <<>> \o <<>> \o <<>> \o <<>> = <<u>>
  <1>1. <<u>> \o <<>> = <<u>>
    OBVIOUS
  <1> QED
    BY <1>1, Zenon

\* A model with C128 layers and none of C4.
LEMMA JoinedThree ==
    ASSUME NEW u, NEW v, NEW w
    PROVE  <<u>> \o <<>> \o <<v>> \o <<>> \o <<w>> \o <<>> = <<u, v, w>>
  <1>1. <<u>> \o <<>> = <<u>> /\ <<u, v>> \o <<>> = <<u, v>>
        /\ <<u, v, w>> \o <<>> = <<u, v, w>>
    OBVIOUS
  <1>2. <<u>> \o <<v>> = <<u, v>> /\ <<u, v>> \o <<w>> = <<u, v, w>>
    BY Two, Three, Zenon
  <1> QED
    BY <1>1, <1>2, Zenon

\* Both lists of groups have the same of the four shapes.
LEMMA HybridShape ==
    ASSUME NEW a, IsHybrid(a), NEW b
    PROVE  Shape(a, LayerGroups(a), KVCacheGroups(a, b))
  <1> DEFINE c4 == Count(a, 4)
             c128 == Count(a, 128)
             kv == KVBytes(a)
             g1 == Group("swa", 64, 1, a.num_layers)
             g2 == Group("c4_compressor", 4, 0, c4)
             g3 == Group("c128_compressor", 8, 0, c128)
             g4 == Group("c4_mla", 256, 4, c4)
             g5 == Group("c128_mla", 256, 128, c128)
             g6 == Group("c4_indexer", 256, 4, c4)
             p1 == Page("swa", 64, 64 * kv, a.num_layers)
             p2 == Page("c4_compressor", 4, 4 * 2048 * 4, c4)
             p3 == Page("c128_compressor", 8, 8 * 1024 * 4, c128)
             p4 == Page("c4_mla", 256, StoredTokens(4) * kv, c4)
             p5 == Page("c128_mla", 256, StoredTokens(128) * kv, c128)
             p6 == Page("c4_indexer", 256, StoredTokens(4) * IndexerBytes(a), c4)
  <1>1. LayerGroups(a) = <<g1>> \o Optional(g2) \o Optional(g3) \o Optional(g4)
                             \o Optional(g5) \o Optional(g6)
    BY DEF LayerGroups, Group
  <1>2. KVCacheGroups(a, b) = <<p1>> \o Optional(p2) \o Optional(p3) \o Optional(p4)
                                  \o Optional(p5) \o Optional(p6)
    BY DEF KVCacheGroups, Page
  <1>3. /\ c4 > 0 => /\ Optional(g2) = <<g2>> /\ Optional(g4) = <<g4>> /\ Optional(g6) = <<g6>>
                     /\ Optional(p2) = <<p2>> /\ Optional(p4) = <<p4>> /\ Optional(p6) = <<p6>>
        /\ ~(c4 > 0) => /\ Optional(g2) = <<>> /\ Optional(g4) = <<>> /\ Optional(g6) = <<>>
                        /\ Optional(p2) = <<>> /\ Optional(p4) = <<>> /\ Optional(p6) = <<>>
        /\ c128 > 0 => /\ Optional(g3) = <<g3>> /\ Optional(g5) = <<g5>>
                       /\ Optional(p3) = <<p3>> /\ Optional(p5) = <<p5>>
        /\ ~(c128 > 0) => /\ Optional(g3) = <<>> /\ Optional(g5) = <<>>
                          /\ Optional(p3) = <<>> /\ Optional(p5) = <<>>
    BY DEF Optional, Group, Page
  <1>4. /\ ~(c4 > 0) /\ ~(c128 > 0) =>
             LayerGroups(a) = <<g1>> /\ KVCacheGroups(a, b) = <<p1>>
        /\ c4 > 0 /\ ~(c128 > 0) =>
             LayerGroups(a) = <<g1, g2, g4, g6>> /\ KVCacheGroups(a, b) = <<p1, p2, p4, p6>>
        /\ ~(c4 > 0) /\ c128 > 0 =>
             LayerGroups(a) = <<g1, g3, g5>> /\ KVCacheGroups(a, b) = <<p1, p3, p5>>
        /\ c4 > 0 /\ c128 > 0 =>
             /\ LayerGroups(a) = <<g1, g2, g3, g4, g5, g6>>
             /\ KVCacheGroups(a, b) = <<p1, p2, p3, p4, p5, p6>>
    <2> HIDE DEF c4, c128, g1, g2, g3, g4, g5, g6, p1, p2, p3, p4, p5, p6
    <2>1. CASE ~(c4 > 0) /\ ~(c128 > 0)
      <3>1. /\ LayerGroups(a) = <<g1>> \o <<>> \o <<>> \o <<>> \o <<>> \o <<>>
            /\ KVCacheGroups(a, b) = <<p1>> \o <<>> \o <<>> \o <<>> \o <<>> \o <<>>
        BY <1>1, <1>2, <1>3, <2>1
      <3>2. LayerGroups(a) = <<g1>>
        BY <3>1, JoinedOne, Zenon
      <3>3. KVCacheGroups(a, b) = <<p1>>
        BY <3>1, JoinedOne, Zenon
      <3> QED
        BY <2>1, <3>2, <3>3, Zenon
    <2>2. CASE c4 > 0 /\ ~(c128 > 0)
      <3>1. /\ LayerGroups(a) = <<g1>> \o <<g2>> \o <<>> \o <<g4>> \o <<>> \o <<g6>>
            /\ KVCacheGroups(a, b) = <<p1>> \o <<p2>> \o <<>> \o <<p4>> \o <<>> \o <<p6>>
        BY <1>1, <1>2, <1>3, <2>2
      <3>2. LayerGroups(a) = <<g1, g2, g4, g6>>
        <4>1. <<g1>> \o <<g2>> = <<g1, g2>> /\ <<g1, g2>> \o <<g4>> = <<g1, g2, g4>>
          BY Two, Three, Zenon
        <4>2. <<g1, g2>> \o <<>> = <<g1, g2>>
          OBVIOUS
        <4>3. <<g1, g2, g4>> \o <<>> = <<g1, g2, g4>>
          OBVIOUS
        <4>4. <<g1, g2, g4>> \o <<g6>> = <<g1, g2, g4, g6>>
          BY Four, Zenon
        <4> QED
          BY <3>1, <4>1, <4>2, <4>3, <4>4, Zenon
      <3>3. KVCacheGroups(a, b) = <<p1, p2, p4, p6>>
        <4>1. <<p1>> \o <<p2>> = <<p1, p2>> /\ <<p1, p2>> \o <<p4>> = <<p1, p2, p4>>
          BY Two, Three, Zenon
        <4>2. <<p1, p2>> \o <<>> = <<p1, p2>>
          OBVIOUS
        <4>3. <<p1, p2, p4>> \o <<>> = <<p1, p2, p4>>
          OBVIOUS
        <4>4. <<p1, p2, p4>> \o <<p6>> = <<p1, p2, p4, p6>>
          BY Four, Zenon
        <4> QED
          BY <3>1, <4>1, <4>2, <4>3, <4>4, Zenon
      <3> QED
        BY <2>2, <3>2, <3>3, Zenon
    <2>3. CASE ~(c4 > 0) /\ c128 > 0
      <3>1. /\ LayerGroups(a) = <<g1>> \o <<>> \o <<g3>> \o <<>> \o <<g5>> \o <<>>
            /\ KVCacheGroups(a, b) = <<p1>> \o <<>> \o <<p3>> \o <<>> \o <<p5>> \o <<>>
        BY <1>1, <1>2, <1>3, <2>3
      <3>2. LayerGroups(a) = <<g1, g3, g5>>
        BY <3>1, JoinedThree, Zenon
      <3>3. KVCacheGroups(a, b) = <<p1, p3, p5>>
        BY <3>1, JoinedThree, Zenon
      <3> QED
        BY <2>3, <3>2, <3>3, Zenon
    <2>4. CASE c4 > 0 /\ c128 > 0
      <3>1. /\ LayerGroups(a) = <<g1>> \o <<g2>> \o <<g3>> \o <<g4>> \o <<g5>> \o <<g6>>
            /\ KVCacheGroups(a, b) = <<p1>> \o <<p2>> \o <<p3>> \o <<p4>> \o <<p5>> \o <<p6>>
        BY <1>1, <1>2, <1>3, <2>4
      <3>2. LayerGroups(a) = <<g1, g2, g3, g4, g5, g6>>
        <4>1. <<g1>> \o <<g2>> = <<g1, g2>> /\ <<g1, g2>> \o <<g3>> = <<g1, g2, g3>>
          BY Two, Three, Zenon
        <4>2. <<g1, g2, g3>> \o <<g4>> = <<g1, g2, g3, g4>>
          BY Four, Zenon
        <4>3. <<g1, g2, g3, g4>> \o <<g5>> = <<g1, g2, g3, g4, g5>>
          BY Five, Zenon
        <4>4. <<g1, g2, g3, g4, g5>> \o <<g6>> = <<g1, g2, g3, g4, g5, g6>>
          BY Six, Zenon
        <4> QED
          BY <3>1, <4>1, <4>2, <4>3, <4>4, Zenon
      <3>3. KVCacheGroups(a, b) = <<p1, p2, p3, p4, p5, p6>>
        <4>1. <<p1>> \o <<p2>> = <<p1, p2>> /\ <<p1, p2>> \o <<p3>> = <<p1, p2, p3>>
          BY Two, Three, Zenon
        <4>2. <<p1, p2, p3>> \o <<p4>> = <<p1, p2, p3, p4>>
          BY Four, Zenon
        <4>3. <<p1, p2, p3, p4>> \o <<p5>> = <<p1, p2, p3, p4, p5>>
          BY Five, Zenon
        <4>4. <<p1, p2, p3, p4, p5>> \o <<p6>> = <<p1, p2, p3, p4, p5, p6>>
          BY Six, Zenon
        <4> QED
          BY <3>1, <4>1, <4>2, <4>3, <4>4, Zenon
      <3> QED
        BY <2>4, <3>2, <3>3, Zenon
    <2> QED
      BY <2>1, <2>2, <2>3, <2>4
  <1> QED
    BY <1>4, Zenon DEF Shape

-----------------------------------------------------------------------------
(* Block sizes                                                             *)

\* The blocks of the groups of a compressed model, a chain of divisors.
Blocks == {4, 8, 64, 256}

\* A multiple is divided without a remainder.
LEMMA DivProduct ==
    ASSUME NEW k \in Nat, NEW p \in Nat \ {0}
    PROVE  (k * p) \div p = k /\ (k * p) % p = 0
  OBVIOUS

\* If one number divides the other, it is the greatest common divisor.
LEMMA GcdOfMultiple ==
    ASSUME NEW a \in Nat \ {0}, NEW b \in Nat \ {0}, NEW c \in {a, b},
           c <= a, a % c = 0, b % c = 0
    PROVE  Gcd(a, b) = c
  <1> DEFINE D == {d \in 1..a : a % d = 0 /\ b % d = 0}
  <1>1. D \in SUBSET Nat /\ c \in D /\ \A d \in D : d <= a
    OBVIOUS
  <1>2. ASSUME NEW d \in D PROVE d <= c
    <2>1. d \in Nat \ {0} /\ d <= a /\ b % d = 0
      OBVIOUS
    <2>2. b < d => b % d = b
      BY <2>1
    <2> QED
      BY <2>1, <2>2
  <1>3. Max(D) \in D /\ \A d \in D : d <= Max(D)
    BY <1>1, LargestIn
  <1>4. Max(D) = c
    BY <1>1, <1>2, <1>3
  <1> QED
    BY <1>4 DEF Gcd

\* The greatest divisor of two of the blocks is the smaller one, their least
\* multiple the larger one.
LEMMA ChainOfBlocks ==
    ASSUME NEW a \in Blocks, NEW b \in Blocks
    PROVE  /\ Gcd(a, b) = IF a <= b THEN a ELSE b
           /\ Lcm(a, b) = IF a <= b THEN b ELSE a
           /\ Gcd(a, b) \in Blocks /\ Lcm(a, b) \in Blocks
  <1>1. /\ a \in Nat \ {0} /\ b \in Nat \ {0} /\ a % a = 0 /\ b % b = 0
        /\ a <= b => b % a = 0
        /\ ~(a <= b) => a % b = 0
    BY DEF Blocks
  <1>2. Gcd(a, b) = IF a <= b THEN a ELSE b
    BY <1>1, GcdOfMultiple
  <1>3. Lcm(a, b) = IF a <= b THEN b ELSE a
    BY <1>1, <1>2, DivProduct DEF Lcm
  <1> QED
    BY <1>2, <1>3

\* The folds of BlockSizes.
LcmOf(first, others) == FoldLeft(Lcm, first, others)
GcdOf(first, others) == FoldLeft(Gcd, first, others)

\* h[i] is the value of such a fold after its first i steps.
Lcms(h, n, first, others) ==
    /\ h \in [0..n -> Blocks] /\ h[0] = first
    /\ \A i \in 1..n : h[i] = Lcm(h[i - 1], others[i])

Gcds(h, n, first, others) ==
    /\ h \in [0..n -> Blocks] /\ h[0] = first
    /\ \A i \in 1..n : h[i] = Gcd(h[i - 1], others[i])

\* One block size after the other enters the least multiple.
LEMMA LcmFolds ==
    ASSUME NEW n \in Nat, NEW seq, DOMAIN seq = 1..n,
           \A i \in 1..n : seq[i] \in Blocks, NEW base \in Blocks
    PROVE  \E h : Lcms(h, n, base, seq) /\ LcmOf(base, seq) = h[n]
  <1> DEFINE V == Blocks
             Step(g) == [s \in SUBSET (1..n) |->
                 IF s = {} THEN base ELSE Lcm(g[s \ {Max(s)}], seq[Max(s)])]
             c == CHOOSE g : g = Step(g)
             op == [x \in V \X (1..n) |-> Lcm(x[1], seq[x[2]])]
  <1>1. LcmOf(base, seq) = c[1..n]
    BY DEF LcmOf, FoldLeft, MapThenFoldSet
  <1>2. op \in FoldSteps(V, n)
    BY ChainOfBlocks DEF FoldSteps
  <1>3. \A x \in V, i \in 1..n : op[<<x, i>>] = Lcm(x, seq[i])
    OBVIOUS
  <1>4. base \in V
    OBVIOUS
  <1> HIDE DEF op, V
  <1>5. PICK g : Folds(g, V, n, base, op)
    BY <1>2, <1>4, FoldExists
  <1>6. ASSUME NEW s \in SUBSET (1..n), s # {}
        PROVE  g[s] = Lcm(g[s \ {Max(s)}], seq[Max(s)])
    <2>1. s \in SUBSET Nat /\ \A x \in s : x <= n
      OBVIOUS
    <2>2. Max(s) \in 1..n
      BY <1>6, <2>1, LargestIn
    <2>3. g[s \ {Max(s)}] \in V
      BY <1>5 DEF Folds
    <2> QED
      BY <1>3, <1>5, <1>6, <2>2, <2>3 DEF Folds
  <1>7. g = Step(g)
    BY <1>5, <1>6 DEF Folds
  <1>8. c = Step(c)
    BY <1>7
  <1> HIDE DEF c
  <1>9. c[{}] = base
    BY <1>8
  <1>10. ASSUME NEW i \in 1..n, c[1..(i - 1)] \in V
         PROVE  c[1..i] = op[<<c[1..(i - 1)], i>>]
    <2>1. i \in Nat \ {0} /\ 1..i \in SUBSET (1..n)
      OBVIOUS
    <2>2. Max(1..i) = i /\ (1..i) \ {i} = 1..(i - 1) /\ 1..i # {}
      BY <2>1, LastOfInterval
    <2>3. c[1..i] = Lcm(c[1..(i - 1)], seq[i])
      BY <1>8, <2>1, <2>2
    <2> QED
      BY <1>3, <1>10, <2>3
  <1>11. PICK h : Traces(h, V, n, base, op) /\ h[n] = c[1..n]
    BY <1>2, <1>4, <1>9, <1>10, FoldTrace
  <1>12. \A i \in 1..n : h[i] = Lcm(h[i - 1], seq[i])
    <2> SUFFICES ASSUME NEW i \in 1..n PROVE h[i] = Lcm(h[i - 1], seq[i])
      OBVIOUS
    <2>1. h[i - 1] \in V
      BY <1>11 DEF Traces
    <2> QED
      BY <1>3, <1>11, <2>1 DEF Traces
  <1> QED
    BY <1>1, <1>11, <1>12 DEF Lcms, Traces, V

\* One block size after the other enters the greatest divisor.
LEMMA GcdFolds ==
    ASSUME NEW n \in Nat, NEW seq, DOMAIN seq = 1..n,
           \A i \in 1..n : seq[i] \in Blocks, NEW base \in Blocks
    PROVE  \E h : Gcds(h, n, base, seq) /\ GcdOf(base, seq) = h[n]
  <1> DEFINE V == Blocks
             Step(g) == [s \in SUBSET (1..n) |->
                 IF s = {} THEN base ELSE Gcd(g[s \ {Max(s)}], seq[Max(s)])]
             c == CHOOSE g : g = Step(g)
             op == [x \in V \X (1..n) |-> Gcd(x[1], seq[x[2]])]
  <1>1. GcdOf(base, seq) = c[1..n]
    BY DEF GcdOf, FoldLeft, MapThenFoldSet
  <1>2. op \in FoldSteps(V, n)
    BY ChainOfBlocks DEF FoldSteps
  <1>3. \A x \in V, i \in 1..n : op[<<x, i>>] = Gcd(x, seq[i])
    OBVIOUS
  <1>4. base \in V
    OBVIOUS
  <1> HIDE DEF op, V
  <1>5. PICK g : Folds(g, V, n, base, op)
    BY <1>2, <1>4, FoldExists
  <1>6. ASSUME NEW s \in SUBSET (1..n), s # {}
        PROVE  g[s] = Gcd(g[s \ {Max(s)}], seq[Max(s)])
    <2>1. s \in SUBSET Nat /\ \A x \in s : x <= n
      OBVIOUS
    <2>2. Max(s) \in 1..n
      BY <1>6, <2>1, LargestIn
    <2>3. g[s \ {Max(s)}] \in V
      BY <1>5 DEF Folds
    <2> QED
      BY <1>3, <1>5, <1>6, <2>2, <2>3 DEF Folds
  <1>7. g = Step(g)
    BY <1>5, <1>6 DEF Folds
  <1>8. c = Step(c)
    BY <1>7
  <1> HIDE DEF c
  <1>9. c[{}] = base
    BY <1>8
  <1>10. ASSUME NEW i \in 1..n, c[1..(i - 1)] \in V
         PROVE  c[1..i] = op[<<c[1..(i - 1)], i>>]
    <2>1. i \in Nat \ {0} /\ 1..i \in SUBSET (1..n)
      OBVIOUS
    <2>2. Max(1..i) = i /\ (1..i) \ {i} = 1..(i - 1) /\ 1..i # {}
      BY <2>1, LastOfInterval
    <2>3. c[1..i] = Gcd(c[1..(i - 1)], seq[i])
      BY <1>8, <2>1, <2>2
    <2> QED
      BY <1>3, <1>10, <2>3
  <1>11. PICK h : Traces(h, V, n, base, op) /\ h[n] = c[1..n]
    BY <1>2, <1>4, <1>9, <1>10, FoldTrace
  <1>12. \A i \in 1..n : h[i] = Gcd(h[i - 1], seq[i])
    <2> SUFFICES ASSUME NEW i \in 1..n PROVE h[i] = Gcd(h[i - 1], seq[i])
      OBVIOUS
    <2>1. h[i - 1] \in V
      BY <1>11 DEF Traces
    <2> QED
      BY <1>3, <1>11, <2>1 DEF Traces
  <1> QED
    BY <1>1, <1>11, <1>12 DEF Gcds, Traces, V

\* Of two blocks the larger one is a multiple of the smaller one.
LEMMA BlockMultiple ==
    ASSUME NEW a \in Blocks, NEW b \in Blocks, a <= b
    PROVE  b % a = 0 /\ a \in Nat \ {0} /\ b \in Nat \ {0}
  BY DEF Blocks

\* What the engine derives from the blocks of the groups fits each of them.
LEMMA SizesFit ==
    ASSUME NEW n \in Nat \ {0}, NEW sizes \in [1..n -> Blocks]
    PROVE  LET least == FoldLeft(Lcm, sizes[1], Tail(sizes))
               hash == FoldLeft(Gcd, sizes[1], Tail(sizes))
               largest == Max(Range(sizes))
           IN /\ \A i \in 1..n : sizes[i] % hash = 0 /\ least % sizes[i] = 0
              /\ least \in Nat \ {0} /\ largest \in Nat \ {0} /\ least % largest = 0
  <1> DEFINE tail == Tail(sizes)
             least == LcmOf(sizes[1], tail)
             hash == GcdOf(sizes[1], tail)
             largest == Max(Range(sizes))
  <1>1. n - 1 \in Nat /\ sizes[1] \in Blocks /\ \A i \in 1..n : sizes[i] \in Blocks
    OBVIOUS
  <1>2. DOMAIN tail = 1..(n - 1) /\ \A i \in 1..(n - 1) : tail[i] = sizes[i + 1]
    <2>1. sizes \in Seq(Blocks) /\ Len(sizes) = n
      OBVIOUS
    <2> QED
      BY <2>1
  <1>3. \A i \in 1..(n - 1) : tail[i] \in Blocks
    BY <1>2
  <1> DEFINE m == n - 1
             first == sizes[1]
  <1> HIDE DEF tail
  <1>14. /\ m \in Nat /\ DOMAIN tail = 1..m /\ \A i \in 1..m : tail[i] \in Blocks
        /\ first \in Blocks
    BY <1>1, <1>2, <1>3
  <1> HIDE DEF m, first
  <1>4. PICK h : Lcms(h, m, first, tail) /\ LcmOf(first, tail) = h[m]
    BY <1>14, LcmFolds
  <1>5. PICK g : Gcds(g, m, first, tail) /\ GcdOf(first, tail) = g[m]
    BY <1>14, GcdFolds
  <1> USE DEF m, first, Lcms, Gcds
  <1> DEFINE T == {i \in Nat : i <= n - 1 =>
                       \A j \in 1..(i + 1) : sizes[j] <= h[i] /\ g[i] <= sizes[j]}
  <1>6. 0 \in T
    <2>1. sizes[1] \in Nat
      BY <1>1 DEF Blocks
    <2> QED
      BY <1>4, <1>5, <2>1
  <1>7. ASSUME NEW i \in Nat, i \in T PROVE i + 1 \in T
    <2> SUFFICES ASSUME i + 1 <= n - 1, NEW j \in 1..((i + 1) + 1)
                 PROVE  sizes[j] <= h[i + 1] /\ g[i + 1] <= sizes[j]
      OBVIOUS
    <2>1. /\ i + 1 \in 1..(n - 1) /\ (i + 1) - 1 = i /\ i \in 0..(n - 1)
          /\ i <= n - 1 /\ tail[i + 1] = sizes[(i + 1) + 1] /\ j \in 1..n
      BY <1>1, <1>2
    <2>2. /\ h[i] \in Blocks /\ g[i] \in Blocks /\ tail[i + 1] \in Blocks
          /\ sizes[j] \in Blocks
      BY <1>1, <1>3, <1>4, <1>5, <2>1
    <2>3. h[i + 1] = Lcm(h[i], tail[i + 1]) /\ g[i + 1] = Gcd(g[i], tail[i + 1])
      BY <1>4, <1>5, <2>1
    <2>4. /\ h[i + 1] = IF h[i] <= tail[i + 1] THEN tail[i + 1] ELSE h[i]
          /\ g[i + 1] = IF g[i] <= tail[i + 1] THEN g[i] ELSE tail[i + 1]
      BY <2>2, <2>3, ChainOfBlocks
    <2>5. h[i] \in Nat /\ g[i] \in Nat /\ tail[i + 1] \in Nat /\ sizes[j] \in Nat
      BY <2>2 DEF Blocks
    <2>6. CASE j \in 1..(i + 1)
      <3>1. sizes[j] <= h[i] /\ g[i] <= sizes[j]
        BY <1>7, <2>1, <2>6
      <3> QED
        BY <2>4, <2>5, <3>1
    <2>7. CASE j = (i + 1) + 1
      BY <2>1, <2>4, <2>5, <2>7
    <2> QED
      BY <2>6, <2>7
  <1> HIDE DEF T
  <1>8. \A i \in Nat : i \in T
    BY <1>6, <1>7, SetInduction
  <1>9. \A j \in 1..n : sizes[j] <= least /\ hash <= sizes[j]
    <2>1. n - 1 \in T /\ (n - 1) + 1 = n
      BY <1>1, <1>8
    <2> QED
      BY <1>1, <1>4, <1>5, <2>1 DEF T
  <1>10. least \in Blocks /\ hash \in Blocks
    BY <1>1, <1>4, <1>5
  <1>11. PICK k \in 1..n : largest = sizes[k]
    <2>1. Range(sizes) \in SUBSET Nat /\ Range(sizes) # {} /\ \A x \in Range(sizes) : x <= 256
      BY <1>1 DEF Range, Blocks
    <2>2. largest \in Range(sizes)
      BY <2>1, LargestIn, 256 \in Nat
    <2> QED
      BY <2>2 DEF Range
  <1> HIDE DEF least, hash, largest
  <1>12. \A i \in 1..n : sizes[i] % hash = 0 /\ least % sizes[i] = 0
    BY <1>1, <1>9, <1>10, BlockMultiple
  <1>13. least \in Nat \ {0} /\ largest \in Nat \ {0} /\ least % largest = 0
    BY <1>1, <1>10, <1>11, <1>12, BlockMultiple DEF Blocks
  <1> QED
    BY <1>12, <1>13 DEF least, hash, largest, tail, LcmOf, GcdOf

\* The groups of a compressed model are a sequence with the same names, layers
\* and blocks in both lists.
LEMMA HybridOutline ==
    ASSUME NEW a, IsHybrid(a), NEW b
    PROVE  LET outline == LayerGroups(a)
               groups == KVCacheGroups(a, b)
           IN /\ \E n \in Nat \ {0} : DOMAIN outline = 1..n /\ DOMAIN groups = 1..n
              /\ \A i \in DOMAIN outline : /\ outline[i].block \in Blocks
                                           /\ groups[i].block = outline[i].block
                                           /\ groups[i].name = outline[i].name
                                           /\ groups[i].layers = outline[i].layers
  <1> DEFINE c4 == Count(a, 4)
             c128 == Count(a, 128)
             Good(outline, groups) ==
                 /\ \E n \in Nat \ {0} : DOMAIN outline = 1..n /\ DOMAIN groups = 1..n
                 /\ \A i \in DOMAIN outline : /\ outline[i].block \in Blocks
                                              /\ groups[i].block = outline[i].block
                                              /\ groups[i].name = outline[i].name
                                              /\ groups[i].layers = outline[i].layers
  <1>1. Shape(a, LayerGroups(a), KVCacheGroups(a, b))
    BY HybridShape
  <1> HIDE DEF c4, c128
  <1>2. CASE ~(c4 > 0) /\ ~(c128 > 0)
    BY <1>1, <1>2 DEF Shape, Group, Page, Blocks, c4, c128
  <1>3. CASE c4 > 0 /\ ~(c128 > 0)
    BY <1>1, <1>3 DEF Shape, Group, Page, Blocks, c4, c128
  <1>4. CASE ~(c4 > 0) /\ c128 > 0
    BY <1>1, <1>4 DEF Shape, Group, Page, Blocks, c4, c128
  <1>5. CASE c4 > 0 /\ c128 > 0
    BY <1>1, <1>5, SMTT(60) DEF Shape, Group, Page, Blocks, c4, c128
  <1> QED
    BY <1>2, <1>3, <1>4, <1>5

\* The parts of a number cut to whole pages.
LEMMA FloorToFacts ==
    ASSUME NEW n \in Nat, NEW p \in Nat \ {0}
    PROVE  /\ FloorTo(n, p) \in Nat /\ FloorTo(n, p) <= n /\ n < FloorTo(n, p) + p
           /\ FloorTo(n, p) % p = 0
           /\ n % p = 0 => FloorTo(n, p) = n
  <1> DEFINE k == n \div p
  <1>1. k \in Nat /\ k * p <= n /\ n < k * p + p /\ (n % p = 0 => k * p = n)
    BY Z3
  <1> HIDE DEF k
  <1>2. (k * p) % p = 0 /\ k * p \in Nat
    BY <1>1, DivProduct
  <1> QED
    BY <1>1, <1>2 DEF FloorTo, k

\* The parts of a number filled up to whole pages.
LEMMA CeilToFacts ==
    ASSUME NEW n \in Nat, NEW p \in Nat \ {0}
    PROVE  CeilTo(n, p) \in Nat /\ n <= CeilTo(n, p) /\ CeilTo(n, p) % p = 0
  <1>1. n + p - 1 \in Nat
    OBVIOUS
  <1>2. /\ FloorTo(n + p - 1, p) \in Nat /\ n + p - 1 < FloorTo(n + p - 1, p) + p
        /\ FloorTo(n + p - 1, p) % p = 0
    BY <1>1, FloorToFacts
  <1> QED
    BY <1>2 DEF CeilTo

\* A product of natural numbers, divided.
LEMMA Quotients ==
    ASSUME NEW n \in Nat, NEW p \in Nat \ {0}
    PROVE  n \div p \in Nat
  BY Z3

\* The sizes of the plan.
LEMMA PlanSizes ==
    ASSUME PlanType, ScalarsType(config.scalars)
    PROVE  /\ plan.block_size \in Nat \ {0} /\ plan.scheduler_block_size \in Nat \ {0}
           /\ plan.scheduler_block_size % plan.block_size = 0
           /\ \A i \in DOMAIN LayerGroups(arch) :
                LET block == KVCacheGroups(arch, plan.block_size)[i].block
                IN block % plan.hash_block_size = 0
                   /\ plan.scheduler_block_size % block = 0
  <1> DEFINE configured == config.scalars.kv_cache_block_size
             sizes == [i \in DOMAIN LayerGroups(arch) |-> LayerGroups(arch)[i].block]
             groups == KVCacheGroups(arch, plan.block_size)
  <1>1. /\ plan.block_size = BlockSizes(arch, configured).block_size
        /\ plan.scheduler_block_size = BlockSizes(arch, configured).scheduler_block_size
        /\ plan.hash_block_size = BlockSizes(arch, configured).hash_block_size
        /\ configured \in Nat \ {0}
    BY DEF PlanType, PlanOf, ScalarsType
  <1>2. CASE IsHybrid(arch)
    <2>1. PICK n \in Nat \ {0} : DOMAIN LayerGroups(arch) = 1..n
      BY <1>2, HybridOutline
    <2>2. \A i \in DOMAIN LayerGroups(arch) : /\ LayerGroups(arch)[i].block \in Blocks
                                              /\ groups[i].block = LayerGroups(arch)[i].block
      BY <1>2, HybridOutline
    <2>3. sizes \in [1..n -> Blocks]
      BY <2>1, <2>2
    <2>4. /\ plan.block_size = Max(Range(sizes))
          /\ plan.scheduler_block_size = FoldLeft(Lcm, sizes[1], Tail(sizes))
          /\ plan.hash_block_size = FoldLeft(Gcd, sizes[1], Tail(sizes))
      BY <1>1, <1>2 DEF BlockSizes
    <2>5. \A i \in 1..n : groups[i].block = sizes[i]
      BY <2>1, <2>2
    <2> HIDE DEF sizes, groups
    <2>6. /\ \A i \in 1..n : /\ sizes[i] % plan.hash_block_size = 0
                             /\ plan.scheduler_block_size % sizes[i] = 0
          /\ plan.block_size \in Nat \ {0} /\ plan.scheduler_block_size \in Nat \ {0}
          /\ plan.scheduler_block_size % plan.block_size = 0
      BY <2>3, <2>4, SizesFit
    <2> QED
      BY <2>1, <2>5, <2>6 DEF groups
  <1>3. CASE ~IsHybrid(arch)
    <2>1. /\ plan.block_size = configured /\ plan.scheduler_block_size = configured
          /\ plan.hash_block_size = configured
      BY <1>1, <1>3 DEF BlockSizes
    <2>2. DOMAIN LayerGroups(arch) = 1..1 /\ groups[1].block = plan.block_size
      BY <1>3 DEF LayerGroups, KVCacheGroups
    <2>3. configured % configured = 0
      BY <1>1
    <2> QED
      BY <1>1, <2>1, <2>2, <2>3
  <1> QED
    BY <1>2, <1>3

\* The pools that SGLang's planner makes of the plan have whole pages, and the
\* full pool is what the plan gives it.
LEMMA WholePages ==
    ASSUME PlanType, ConfigType, NEW size \in PoolSizes(FullTokens(arch, plan), plan)
    PROVE  /\ FullTokens(arch, plan) \in Nat /\ size.full = FullTokens(arch, plan)
           /\ size.swa \in Nat
           /\ size.full % plan.block_size = 0 /\ size.swa % plan.block_size = 0
  <1> DEFINE all == plan.num_kv_cache_blocks * plan.scheduler_block_size
             cut == (all * arch.num_layers) \div (arch.num_layers + 1)
             full == FullTokens(arch, plan)
             share == (full * plan.swa_full_tokens_ratio) \div 10
             p == plan.block_size
  <1>1. /\ p \in Nat \ {0} /\ plan.scheduler_block_size \in Nat \ {0}
        /\ plan.scheduler_block_size % p = 0
        /\ arch.num_layers \in Nat
        /\ plan.num_kv_cache_blocks \in Nat /\ plan.swa_full_tokens_ratio \in Nat
    BY PlanSizes DEF ConfigType, PlanType, ArchType, PlanOf
  <1>2. all \in Nat /\ all % p = 0
    <2> DEFINE k == plan.scheduler_block_size \div p
    <2>1. k \in Nat /\ plan.scheduler_block_size = k * p
      BY <1>1, Z3
    <2> HIDE DEF k
    <2>2. all = (plan.num_kv_cache_blocks * k) * p /\ plan.num_kv_cache_blocks * k \in Nat
      BY <1>1, <2>1
    <2> HIDE DEF all
    <2> QED
      BY <1>1, <2>2, DivProduct
  <1> HIDE DEF all
  <1>3. full \in Nat /\ full % p = 0
    <2>1. all * arch.num_layers \in Nat /\ arch.num_layers + 1 \in Nat \ {0}
      BY <1>1, <1>2
    <2>2. cut \in Nat
      BY <2>1, Quotients
    <2> HIDE DEF cut
    <2>3. FloorTo(cut, p) \in Nat /\ FloorTo(cut, p) % p = 0
      BY <1>1, <2>2, FloorToFacts
    <2>4. full = IF plan.num_spec_tokens > 0 THEN FloorTo(cut, p) ELSE all
      BY DEF FullTokens, all, cut
    <2> QED
      BY <1>2, <2>3, <2>4
  <1> HIDE DEF full
  <1>4. share \in Nat
    <2>1. full * plan.swa_full_tokens_ratio \in Nat /\ 10 \in Nat \ {0}
      BY <1>1, <1>3
    <2> QED
      BY <2>1, Quotients
  <1> HIDE DEF share
  <1>5. /\ FloorTo(share, p) \in Nat /\ FloorTo(share, p) % p = 0
        /\ CeilTo(share, p) \in Nat /\ CeilTo(share, p) % p = 0
        /\ FloorTo(full, p) = full
    BY <1>1, <1>3, <1>4, FloorToFacts, CeilToFacts
  <1>6. /\ size.full = FloorTo(full, p)
        /\ size.swa \in {FloorTo(share, p), CeilTo(share, p)}
    BY DEF PoolSizes, full, share
  <1> QED
    BY <1>3, <1>5, <1>6 DEF full

\* What the SGLang backend allocates.
PoolsInv ==
    Built /\ config.scalars.backend = "sglang" =>
        \E size \in PoolSizes(FullTokens(arch, plan), plan) :
            pools.full = size.full /\ pools.swa = size.swa

\* The pools are allocated once, and stay as they are.
LEMMA PoolsStep ==
    ASSUME PoolsInv, [Next]_vars
    PROVE  PoolsInv'
  <1>1. CASE Configure
    BY <1>1 DEF Configure, PoolsInv, Built
  <1>2. CASE BuildPlan
    BY <1>2 DEF BuildPlan, PoolsInv, Built
  <1>3. CASE BuildVLLM
    BY <1>3 DEF BuildVLLM, PoolsInv
  <1>4. CASE BuildSGLang
    BY <1>4 DEF BuildSGLang, PoolsInv
  <1>5. ASSUME UNCHANGED <<config, arch, plan, pools>>, Built' => Built
        PROVE  PoolsInv'
    BY <1>5 DEF PoolsInv
  <1>6. CASE BuildAcceptance
    BY <1>5, <1>6 DEF BuildAcceptance, Built
  <1>7. CASE FitPerfModel \/ Predict
    BY <1>5, <1>7 DEF FitPerfModel, Predict, Built
  <1>8. CASE UNCHANGED vars
    BY <1>5, <1>8 DEF vars, Built
  <1> QED
    BY <1>1, <1>2, <1>3, <1>4, <1>6, <1>7, <1>8 DEF Next

\* The pools of SGLang are always those that its planner made of the plan, and
\* later phases do not change them.
THEOREM PoolsPlanned == Spec => []PoolsInv
  <1>1. Init => PoolsInv
    BY DEF Init, PoolsInv, Built
  <1> QED
    BY <1>1, PoolsStep, PTL DEF Spec

\* Whatever model and configuration: the block of each group is a whole number of
\* hash blocks and a divisor of the scheduler's block, and the pools of SGLang have
\* whole pages of it, with or without a share for drafting.
THEOREM BlocksFit == Spec => []BlockSizesFit
  <1>1. ASSUME SetupInv, PoolsInv PROVE BlockSizesFit
    <2> SUFFICES ASSUME Planned
                 PROVE  /\ \A i \in DOMAIN LayerGroups(arch) :
                             LET block == KVCacheGroups(arch, plan.block_size)[i].block
                             IN /\ block % plan.hash_block_size = 0
                                /\ plan.scheduler_block_size % block = 0
                        /\ Built /\ config.scalars.backend = "sglang" =>
                             /\ pools.full % plan.block_size = 0
                             /\ pools.swa % plan.block_size = 0
                             /\ pools.full = FullTokens(arch, plan)
      BY DEF BlockSizesFit
    <2>1. PlanType /\ ConfigType
      BY <1>1 DEF SetupInv, Planned
    <2>2. ASSUME Built, config.scalars.backend = "sglang"
          PROVE  /\ pools.full % plan.block_size = 0 /\ pools.swa % plan.block_size = 0
                 /\ pools.full = FullTokens(arch, plan)
      <3>1. PICK size \in PoolSizes(FullTokens(arch, plan), plan) :
                pools.full = size.full /\ pools.swa = size.swa
        BY <1>1, <2>2 DEF PoolsInv
      <3> QED
        BY <2>1, <3>1, WholePages
    <2> QED
      BY <2>1, <2>2, PlanSizes DEF ConfigType
  <1> QED
    BY <1>1, SetupTypes, PoolsPlanned, PTL

-----------------------------------------------------------------------------
(* The layouts                                                             *)

\* The entries that a compressed model can have in the two lists of groups.
Entry(a, g, p) ==
    \/ /\ g = Group("swa", 64, 1, a.num_layers)
       /\ p = Page("swa", 64, 64 * KVBytes(a), a.num_layers)
    \/ /\ g = Group("c4_compressor", 4, 0, Count(a, 4))
       /\ p = Page("c4_compressor", 4, 4 * 2048 * 4, Count(a, 4))
    \/ /\ g = Group("c128_compressor", 8, 0, Count(a, 128))
       /\ p = Page("c128_compressor", 8, 8 * 1024 * 4, Count(a, 128))
    \/ /\ g = Group("c4_mla", 256, 4, Count(a, 4))
       /\ p = Page("c4_mla", 256, StoredTokens(4) * KVBytes(a), Count(a, 4))
    \/ /\ g = Group("c128_mla", 256, 128, Count(a, 128))
       /\ p = Page("c128_mla", 256, StoredTokens(128) * KVBytes(a), Count(a, 128))
    \/ /\ g = Group("c4_indexer", 256, 4, Count(a, 4))
       /\ p = Page("c4_indexer", 256, StoredTokens(4) * IndexerBytes(a), Count(a, 4))

\* Every group of a compressed model is one of these, and none comes twice.
LEMMA HybridEntries ==
    ASSUME NEW a, IsHybrid(a), NEW b
    PROVE  LET outline == LayerGroups(a)
               groups == KVCacheGroups(a, b)
           IN /\ \A i \in DOMAIN outline : Entry(a, outline[i], groups[i])
              /\ \A i, j \in DOMAIN outline : i # j => outline[i].name # outline[j].name
  <1> DEFINE c4 == Count(a, 4)
             c128 == Count(a, 128)
             kv == KVBytes(a)
             g1 == Group("swa", 64, 1, a.num_layers)
             g2 == Group("c4_compressor", 4, 0, c4)
             g3 == Group("c128_compressor", 8, 0, c128)
             g4 == Group("c4_mla", 256, 4, c4)
             g5 == Group("c128_mla", 256, 128, c128)
             g6 == Group("c4_indexer", 256, 4, c4)
             p1 == Page("swa", 64, 64 * kv, a.num_layers)
             p2 == Page("c4_compressor", 4, 4 * 2048 * 4, c4)
             p3 == Page("c128_compressor", 8, 8 * 1024 * 4, c128)
             p4 == Page("c4_mla", 256, StoredTokens(4) * kv, c4)
             p5 == Page("c128_mla", 256, StoredTokens(128) * kv, c128)
             p6 == Page("c4_indexer", 256, StoredTokens(4) * IndexerBytes(a), c4)
             L == LayerGroups(a)
             G == KVCacheGroups(a, b)
  <1>1. /\ ~(c4 > 0) /\ ~(c128 > 0) => L = <<g1>> /\ G = <<p1>>
        /\ c4 > 0 /\ ~(c128 > 0) => L = <<g1, g2, g4, g6>> /\ G = <<p1, p2, p4, p6>>
        /\ ~(c4 > 0) /\ c128 > 0 => L = <<g1, g3, g5>> /\ G = <<p1, p3, p5>>
        /\ c4 > 0 /\ c128 > 0 => /\ L = <<g1, g2, g3, g4, g5, g6>>
                                 /\ G = <<p1, p2, p3, p4, p5, p6>>
    <2>1. Shape(a, L, G)
      BY HybridShape
    <2> HIDE DEF L, G
    <2> QED
      BY <2>1, Zenon DEF Shape
  <1>2. /\ Entry(a, g1, p1) /\ Entry(a, g2, p2) /\ Entry(a, g3, p3)
        /\ Entry(a, g4, p4) /\ Entry(a, g5, p5) /\ Entry(a, g6, p6)
    BY DEF Entry
  <1>3. /\ g1.name = "swa" /\ g2.name = "c4_compressor" /\ g3.name = "c128_compressor"
        /\ g4.name = "c4_mla" /\ g5.name = "c128_mla" /\ g6.name = "c4_indexer"
    BY DEF Group
  <1> HIDE DEF c4, c128, kv, g1, g2, g3, g4, g5, g6, p1, p2, p3, p4, p5, p6, L, G
  <1>4. \A i \in DOMAIN L : Entry(a, L[i], G[i])
    <2>1. CASE ~(c4 > 0) /\ ~(c128 > 0)
      BY <1>1, <1>2, <2>1
    <2>2. CASE c4 > 0 /\ ~(c128 > 0)
      BY <1>1, <1>2, <2>2
    <2>3. CASE ~(c4 > 0) /\ c128 > 0
      BY <1>1, <1>2, <2>3
    <2>4. CASE c4 > 0 /\ c128 > 0
      BY <1>1, <1>2, <2>4
    <2> QED
      BY <2>1, <2>2, <2>3, <2>4
  <1>5. \A i, j \in DOMAIN L : i # j => L[i].name # L[j].name
    <2>1. CASE ~(c4 > 0) /\ ~(c128 > 0)
      BY <1>1, <1>3, <2>1
    <2>2. CASE c4 > 0 /\ ~(c128 > 0)
      BY <1>1, <1>3, <2>2
    <2>3. CASE ~(c4 > 0) /\ c128 > 0
      BY <1>1, <1>3, <2>3
    <2>4. CASE c4 > 0 /\ c128 > 0
      BY <1>1, <1>3, <2>4
    <2> QED
      BY <2>1, <2>2, <2>3, <2>4
  <1> QED
    BY <1>4, <1>5 DEF L, G

\* A model's layers, as a set of their indices.
LEMMA LayerSets ==
    ASSUME NEW a, a.compress_ratios = None \/ a.compress_ratios \in Seq(Nat), NEW r
    PROVE  IsFiniteSet(LayersOf(a, r)) /\ Count(a, r) \in Nat
  <1>1. IsFiniteSet(LayersOf(a, r))
    <2>1. CASE a.compress_ratios = None
      BY <2>1, FS_EmptySet DEF LayersOf
    <2>2. CASE a.compress_ratios # None
      <3> DEFINE n == Len(a.compress_ratios)
      <3>1. n \in Nat /\ DOMAIN a.compress_ratios = 1..n
        BY <2>2
      <3>2. LayersOf(a, r) \in SUBSET (0..(n - 1))
        <4>1. ASSUME NEW x \in LayersOf(a, r) PROVE x \in 0..(n - 1)
          <5>1. PICK j \in DOMAIN a.compress_ratios : x = j - 1
            BY <2>2 DEF LayersOf
          <5> QED
            BY <3>1, <5>1
        <4> QED
          BY <4>1
      <3>3. IsFiniteSet(0..(n - 1))
        BY <3>1, FS_Interval
      <3> QED
        BY <3>2, <3>3, FS_Subset
    <2> QED
      BY <2>1, <2>2
  <1> QED
    BY <1>1, FS_CardinalityType DEF Count

\* No layer has two compress ratios.
LEMMA LayersApart ==
    ASSUME NEW a, a.compress_ratios = None \/ a.compress_ratios \in Seq(Nat)
    PROVE  LayersOf(a, 4) \cap LayersOf(a, 128) = {}
  <1> SUFFICES ASSUME NEW x \in LayersOf(a, 4), x \in LayersOf(a, 128)
               PROVE  FALSE
    OBVIOUS
  <1>1. a.compress_ratios # None
    BY DEF LayersOf
  <1>2. a.compress_ratios \in Seq(Nat)
    BY <1>1
  <1>3. PICK j \in DOMAIN a.compress_ratios : a.compress_ratios[j] = 4 /\ x = j - 1
    BY <1>1 DEF LayersOf
  <1>4. PICK k \in DOMAIN a.compress_ratios : a.compress_ratios[k] = 128 /\ x = k - 1
    BY <1>1 DEF LayersOf
  <1>5. j \in Nat /\ k \in Nat
    BY <1>2, <1>3, <1>4
  <1> QED
    BY <1>3, <1>4, <1>5

\* The modules of one label are as many as the layers.
LEMMA Labelled ==
    ASSUME NEW S, IsFiniteSet(S), NEW label
    PROVE  Cardinality(S \X {label}) = Cardinality(S)
  <1>1. IsFiniteSet({label}) /\ Cardinality({label}) = 1
    BY FS_Singleton
  <1>2. Cardinality(S \X {label}) = Cardinality(S) * Cardinality({label})
    BY <1>1, FS_Product
  <1>3. Cardinality(S) \in Nat
    BY FS_CardinalityType
  <1> QED
    BY <1>1, <1>2, <1>3

\* The names of the groups of a compressed model.
Names == {"swa", "c4_compressor", "c128_compressor", "c4_mla", "c128_mla", "c4_indexer"}

\* The modules of two groups are different.
LEMMA ModulesApart ==
    ASSUME NEW a, a.compress_ratios = None \/ a.compress_ratios \in Seq(Nat),
           NEW p, NEW x \in Names, NEW y \in Names, x # y
    PROVE  Modules(a, p, x) \cap Modules(a, p, y) = {}
  <1>1. LayersOf(a, 4) \cap LayersOf(a, 128) = {}
    BY LayersApart
  <1>2. ASSUME NEW S, NEW T, NEW k, NEW l, S \cap T = {} \/ k # l
        PROVE  (S \X {k}) \cap (T \X {l}) = {}
    BY <1>2
  <1> DEFINE swa == 0..a.num_layers + DraftLayers(a, p) - 1
  <1>3. /\ Modules(a, p, "swa") = swa \X {"swa_cache"}
        /\ Modules(a, p, "c4_compressor") = LayersOf(a, 4) \X {"compressor"}
        /\ Modules(a, p, "c128_compressor") = LayersOf(a, 128) \X {"compressor"}
        /\ Modules(a, p, "c4_mla") = LayersOf(a, 4) \X {"attn"}
        /\ Modules(a, p, "c128_mla") = LayersOf(a, 128) \X {"attn"}
        /\ Modules(a, p, "c4_indexer") = LayersOf(a, 4) \X {"indexer"}
    BY DEF Modules
  <1> HIDE DEF swa
  <1> QED
    BY <1>1, <1>2, <1>3 DEF Names

\* What each entry has: the bytes of the tokens that its page stores, and as many
\* modules as layers.
LEMMA EntryFits ==
    ASSUME ArchType, arch.is_mla, plan.num_spec_tokens \in Nat,
           NEW g, NEW q, Entry(arch, g, q)
    PROVE  /\ g.name \in Names /\ q.name = g.name
           /\ g.ratio # 0 =>
                q.bytes = (q.block \div g.ratio) *
                    IF g.name = "c4_indexer" THEN IndexerBytes(arch)
                    ELSE PerTokenBytes(arch, q)
           /\ Cardinality(Modules(arch, plan, q.name)) = g.layers +
                IF q.name = "swa" THEN DraftLayers(arch, plan) ELSE 0
  <1> DEFINE c4 == Count(arch, 4)
             c128 == Count(arch, 128)
             kv == KVBytes(arch)
             index == IndexerBytes(arch)
             drafts == DraftLayers(arch, plan)
             n == arch.num_layers
             Fits == /\ g.name \in Names /\ q.name = g.name
                     /\ g.ratio # 0 =>
                          q.bytes = (q.block \div g.ratio) *
                              IF g.name = "c4_indexer" THEN index ELSE PerTokenBytes(arch, q)
                     /\ Cardinality(Modules(arch, plan, q.name)) = g.layers +
                          IF q.name = "swa" THEN drafts ELSE 0
  <1>1. /\ c4 \in Nat /\ IsFiniteSet(LayersOf(arch, 4))
        /\ c128 \in Nat /\ IsFiniteSet(LayersOf(arch, 128))
    BY LayerSets DEF ArchType
  <1>2. kv \in Nat /\ index \in Nat /\ drafts \in Nat /\ n \in Nat
    BY DEF ArchType, KVBytes, IndexerBytes, DraftLayers
  <1>3. PerTokenBytes(arch, q) = kv
    BY DEF PerTokenBytes
  <1>4. /\ StoredTokens(4) = 64 /\ StoredTokens(128) = 2
        /\ 64 \div 1 = 64 /\ 256 \div 4 = 64 /\ 256 \div 128 = 2
    BY DEF StoredTokens
  <1>5. /\ Cardinality(Modules(arch, plan, "c4_compressor")) = c4
        /\ Cardinality(Modules(arch, plan, "c128_compressor")) = c128
        /\ Cardinality(Modules(arch, plan, "c4_mla")) = c4
        /\ Cardinality(Modules(arch, plan, "c128_mla")) = c128
        /\ Cardinality(Modules(arch, plan, "c4_indexer")) = c4
    BY <1>1, Labelled DEF Modules, Count
  <1>6. Cardinality(Modules(arch, plan, "swa")) = n + drafts
    <2> DEFINE last_ == n + drafts - 1
    <2>1. IsFiniteSet(0..last_) /\ Cardinality(0..last_) = n + drafts
      <3>1. last_ \in Int /\ (0 > last_ <=> n + drafts = 0)
        BY <1>2
      <3>2. /\ IsFiniteSet(0..last_)
            /\ Cardinality(0..last_) = IF 0 > last_ THEN 0 ELSE last_ - 0 + 1
        BY <3>1, FS_Interval, 0 \in Int
      <3> QED
        BY <1>2, <3>1, <3>2
    <2>2. Modules(arch, plan, "swa") = (0..last_) \X {"swa_cache"}
      BY DEF Modules
    <2> QED
      BY <2>1, <2>2, Labelled
  <1> SUFFICES Fits
    OBVIOUS
  <1> HIDE DEF c4, c128, kv, index, drafts, n
  <1>7. CASE g = Group("swa", 64, 1, n) /\ q = Page("swa", 64, 64 * kv, n)
    BY <1>2, <1>3, <1>4, <1>6, <1>7 DEF Group, Page, Names
  <1>8. CASE /\ g = Group("c4_compressor", 4, 0, c4)
             /\ q = Page("c4_compressor", 4, 4 * 2048 * 4, c4)
    BY <1>1, <1>5, <1>8 DEF Group, Page, Names
  <1>9. CASE /\ g = Group("c128_compressor", 8, 0, c128)
             /\ q = Page("c128_compressor", 8, 8 * 1024 * 4, c128)
    BY <1>1, <1>5, <1>9 DEF Group, Page, Names
  <1>10. CASE /\ g = Group("c4_mla", 256, 4, c4)
              /\ q = Page("c4_mla", 256, StoredTokens(4) * kv, c4)
    BY <1>1, <1>2, <1>3, <1>4, <1>5, <1>10 DEF Group, Page, Names
  <1>11. CASE /\ g = Group("c128_mla", 256, 128, c128)
              /\ q = Page("c128_mla", 256, StoredTokens(128) * kv, c128)
    BY <1>1, <1>2, <1>3, <1>4, <1>5, <1>11 DEF Group, Page, Names
  <1>12. CASE /\ g = Group("c4_indexer", 256, 4, c4)
              /\ q = Page("c4_indexer", 256, StoredTokens(4) * index, c4)
    BY <1>1, <1>2, <1>4, <1>5, <1>12 DEF Group, Page, Names
  <1> HIDE DEF Fits
  <1> QED
    BY <1>7, <1>8, <1>9, <1>10, <1>11, <1>12 DEF Entry, c4, c128, kv, index, n

\* What vLLM takes for a page of a compressed model, against the shared description.
LEMMA SpecFits ==
    ASSUME ArchType, arch.is_mla, NEW g, NEW q, Entry(arch, g, q),
           NEW s, s.name = q.name, s.block = q.block, s.kv = KVSpec(arch, q.name)
    PROVE  /\ g.name = "c4_indexer" =>
                IF arch.use_fp4_indexer THEN SpecBytes(s) > q.bytes
                                        ELSE SpecBytes(s) = q.bytes
           /\ g.name # "c4_indexer" /\ (s.kv.packed => KVBytes(arch) = PackedToken) =>
                SpecBytes(s) = q.bytes
           /\ s.name = "swa" => s.kv.sliding_window = Window(arch)
  <1> DEFINE kv == KVBytes(arch)
             c4 == Count(arch, 4)
             c128 == Count(arch, 128)
             n == arch.num_layers
  <1>1. /\ StoredTokens(4) = 64 /\ StoredTokens(128) = 2
        /\ 64 \div 1 = 64 /\ 256 \div 4 = 64 /\ 256 \div 128 = 2
        /\ 4 \div 1 = 4 /\ 8 \div 1 = 8
    BY DEF StoredTokens
  <1>2. CASE g = Group("swa", 64, 1, n) /\ q = Page("swa", 64, 64 * kv, n)
    <2>1. s.kv.packed /\ s.kv.compress_ratio = 1 /\ s.kv.sliding_window = Window(arch)
      BY <1>2 DEF Page, KVSpec, Window
    <2>2. SpecBytes(s) = 64 * PackedToken /\ q.bytes = 64 * kv /\ g.name # "c4_indexer"
      BY <1>1, <1>2, <2>1 DEF Group, Page, SpecBytes
    <2> QED
      BY <2>1, <2>2
  <1>3. CASE /\ g = Group("c4_compressor", 4, 0, c4)
             /\ q = Page("c4_compressor", 4, 4 * 2048 * 4, c4)
    <2>1. /\ ~s.kv.packed /\ s.kv.compress_ratio = 1 /\ s.kv.num_kv_heads = 1
          /\ s.kv.head_size = 2048 /\ s.kv.dtype = 4
      BY <1>3 DEF Page, KVSpec
    <2>2. s.name # "full" /\ s.name # "swa" /\ s.block = 4 /\ q.bytes = 4 * 2048 * 4
          /\ g.name # "c4_indexer"
      BY <1>3 DEF Page, Group
    <2>3. SpecBytes(s) = 1 * 4 * 1 * 2048 * 4
      BY <1>1, <2>1, <2>2 DEF SpecBytes
    <2> QED
      BY <2>2, <2>3
  <1>4. CASE /\ g = Group("c128_compressor", 8, 0, c128)
             /\ q = Page("c128_compressor", 8, 8 * 1024 * 4, c128)
    <2>1. /\ ~s.kv.packed /\ s.kv.compress_ratio = 1 /\ s.kv.num_kv_heads = 1
          /\ s.kv.head_size = 1024 /\ s.kv.dtype = 4
      BY <1>4 DEF Page, KVSpec
    <2>2. s.name # "full" /\ s.name # "swa" /\ s.block = 8 /\ q.bytes = 8 * 1024 * 4
          /\ g.name # "c4_indexer"
      BY <1>4 DEF Page, Group
    <2>3. SpecBytes(s) = 1 * 8 * 1 * 1024 * 4
      BY <1>1, <2>1, <2>2 DEF SpecBytes
    <2> QED
      BY <2>2, <2>3
  <1>5. CASE /\ g = Group("c4_mla", 256, 4, c4)
             /\ q = Page("c4_mla", 256, StoredTokens(4) * kv, c4)
    <2>1. s.kv.packed /\ s.kv.compress_ratio = 4 /\ s.name # "swa"
      BY <1>5 DEF Page, KVSpec
    <2>2. SpecBytes(s) = 64 * PackedToken /\ q.bytes = 64 * kv /\ g.name # "c4_indexer"
      BY <1>1, <1>5, <2>1 DEF Group, Page, SpecBytes
    <2> QED
      BY <2>1, <2>2
  <1>6. CASE /\ g = Group("c128_mla", 256, 128, c128)
             /\ q = Page("c128_mla", 256, StoredTokens(128) * kv, c128)
    <2>1. s.kv.packed /\ s.kv.compress_ratio = 128 /\ s.name # "swa"
      BY <1>6 DEF Page, KVSpec
    <2>2. SpecBytes(s) = 2 * PackedToken /\ q.bytes = 2 * kv /\ g.name # "c4_indexer"
      BY <1>1, <1>6, <2>1 DEF Group, Page, SpecBytes
    <2> QED
      BY <2>1, <2>2
  <1>7. CASE /\ g = Group("c4_indexer", 256, 4, c4)
             /\ q = Page("c4_indexer", 256, StoredTokens(4) * IndexerBytes(arch), c4)
    <2>1. /\ ~s.kv.packed /\ s.kv.compress_ratio = 4 /\ s.kv.num_kv_heads = 1
          /\ s.kv.head_size = 132 /\ s.kv.dtype = 1
      BY <1>7 DEF Page, KVSpec, IndexerHead
    <2>2. s.name # "full" /\ s.name # "swa" /\ s.block = 256 /\ g.name = "c4_indexer"
          /\ q.bytes = 64 * IndexerBytes(arch)
      BY <1>1, <1>7 DEF Page, Group
    <2>3. SpecBytes(s) = 1 * 64 * 1 * 132 * 1
      BY <1>1, <2>1, <2>2 DEF SpecBytes
    <2> QED
      BY <2>2, <2>3 DEF IndexerBytes
  <1> QED
    BY <1>2, <1>3, <1>4, <1>5, <1>6, <1>7 DEF Entry

\* The three places that write the cache groups down agree for every model and
\* plan: groups, blocks and layers, the bytes of a page, and the modules, each in
\* one group only; vLLM's pages are as large but in the cases that the property names.
THEOREM LayoutsHold == Spec => []LayoutsReconciled
  <1>1. ASSUME SetupInv PROVE LayoutsReconciled
    <2> DEFINE outline == LayerGroups(arch)
               groups == KVCacheGroups(arch, plan.block_size)
               specs == VLLMSpecs(arch, plan)
               tokenBytes(i) == IF outline[i].name = "c4_indexer" THEN IndexerBytes(arch)
                                ELSE PerTokenBytes(arch, groups[i])
    <2> SUFFICES ASSUME Planned
                 PROVE  /\ DOMAIN groups = DOMAIN outline
                        /\ \A i \in DOMAIN outline :
                             /\ groups[i].name = outline[i].name
                             /\ groups[i].layers = outline[i].layers
                             /\ IsHybrid(arch) => groups[i].block = outline[i].block
                             /\ IsHybrid(arch) /\ ~(outline[i].ratio = 0) =>
                                  groups[i].bytes = (groups[i].block \div outline[i].ratio)
                                                        * tokenBytes(i)
                             /\ outline[i].name = "c4_indexer" =>
                                  IF arch.use_fp4_indexer
                                  THEN SpecBytes(specs[i]) > groups[i].bytes
                                  ELSE SpecBytes(specs[i]) = groups[i].bytes
                             /\ IsHybrid(arch) /\ ~(outline[i].name = "c4_indexer")
                                  /\ (specs[i].kv.packed => KVBytes(arch) = PackedToken) =>
                                     SpecBytes(specs[i]) = groups[i].bytes
                             /\ ~IsHybrid(arch) =>
                                  2 * SpecBytes(specs[i]) = specs[i].kv.dtype * groups[i].bytes
                             /\ specs[i].name = "swa" =>
                                  specs[i].kv.sliding_window = Window(arch)
                             /\ Cardinality(specs[i].modules) = outline[i].layers +
                                  IF specs[i].name = "swa" THEN DraftLayers(arch, plan) ELSE 0
                             /\ \A j \in DOMAIN outline :
                                  i # j => specs[i].modules \cap specs[j].modules = {}
      BY DEF LayoutsReconciled
    <2>1. ArchType /\ plan.num_spec_tokens \in Nat
      BY <1>1 DEF SetupInv, Planned, PlanType, PlanOf, ConfigType, SpeculativeType
    <2>5. plan.block_size \in Nat
      BY <1>1, PlanSizes DEF SetupInv, Planned, ConfigType
    <2>2. ASSUME NEW i \in DOMAIN groups
          PROVE  /\ specs[i].name = groups[i].name /\ specs[i].block = groups[i].block
                 /\ specs[i].kv = KVSpec(arch, groups[i].name)
                 /\ specs[i].modules = Modules(arch, plan, groups[i].name)
      BY DEF VLLMSpecs
    <2> HIDE DEF specs, groups, outline
    <2>3. CASE IsHybrid(arch)
      <3>1. /\ DOMAIN groups = DOMAIN outline
            /\ \A i \in DOMAIN outline : /\ groups[i].block = outline[i].block
                                         /\ groups[i].name = outline[i].name
                                         /\ groups[i].layers = outline[i].layers
        BY <2>3, HybridOutline DEF groups, outline
      <3>2. /\ \A i \in DOMAIN outline : Entry(arch, outline[i], groups[i])
            /\ \A i, j \in DOMAIN outline : i # j => outline[i].name # outline[j].name
        BY <2>3, HybridEntries DEF groups, outline
      <3>3. arch.is_mla
        BY <2>3 DEF IsHybrid
      <3>4. ASSUME NEW i \in DOMAIN outline
            PROVE  /\ groups[i].name \in Names
                   /\ outline[i].ratio # 0 =>
                        groups[i].bytes = (groups[i].block \div outline[i].ratio) * tokenBytes(i)
                   /\ Cardinality(Modules(arch, plan, groups[i].name)) = outline[i].layers +
                        IF groups[i].name = "swa" THEN DraftLayers(arch, plan) ELSE 0
        <4>1. Entry(arch, outline[i], groups[i])
          BY <3>2
        <4> QED
          BY <2>1, <3>3, <4>1, EntryFits
      <3>5. ASSUME NEW i \in DOMAIN outline, NEW j \in DOMAIN outline, i # j
            PROVE  specs[i].modules \cap specs[j].modules = {}
        <4>1. groups[i].name # groups[j].name
          BY <3>1, <3>2, <3>5
        <4>2. groups[i].name \in Names /\ groups[j].name \in Names
          BY <3>4
        <4>3. Modules(arch, plan, groups[i].name) \cap Modules(arch, plan, groups[j].name) = {}
          BY <2>1, <4>1, <4>2, ModulesApart DEF ArchType
        <4> QED
          BY <2>2, <3>1, <4>3
      <3>6. ASSUME NEW i \in DOMAIN outline
            PROVE  /\ outline[i].name = "c4_indexer" =>
                        IF arch.use_fp4_indexer THEN SpecBytes(specs[i]) > groups[i].bytes
                                                ELSE SpecBytes(specs[i]) = groups[i].bytes
                   /\ outline[i].name # "c4_indexer"
                        /\ (specs[i].kv.packed => KVBytes(arch) = PackedToken) =>
                           SpecBytes(specs[i]) = groups[i].bytes
                   /\ specs[i].name = "swa" => specs[i].kv.sliding_window = Window(arch)
        <4>1. Entry(arch, outline[i], groups[i])
          BY <3>2
        <4>2. /\ specs[i].name = groups[i].name /\ specs[i].block = groups[i].block
              /\ specs[i].kv = KVSpec(arch, groups[i].name)
          BY <2>2, <3>1
        <4> QED
          BY <2>1, <3>3, <4>1, <4>2, SpecFits
      <3> HIDE DEF tokenBytes
      <3> QED
        BY <2>2, <2>3, <3>1, <3>4, <3>5, <3>6
    <2>4. CASE ~IsHybrid(arch)
      <3>1. /\ DOMAIN outline = {1} /\ DOMAIN groups = {1}
            /\ outline[1].name = "full" /\ outline[1].layers = arch.num_layers
            /\ groups[1].name = "full" /\ groups[1].layers = arch.num_layers
        BY <2>4 DEF outline, groups, LayerGroups, KVCacheGroups
      <3>2. Cardinality(Modules(arch, plan, "full")) = arch.num_layers
        <4> DEFINE n == arch.num_layers
        <4>1. n \in Nat /\ n - 1 \in Int /\ 0 \in Int
          BY <2>1 DEF ArchType
        <4>2. /\ IsFiniteSet(0..(n - 1))
              /\ Cardinality(0..(n - 1)) = IF 0 > n - 1 THEN 0 ELSE (n - 1) - 0 + 1
          BY <4>1, FS_Interval
        <4>3. IsFiniteSet(0..(n - 1)) /\ Cardinality(0..(n - 1)) = n
          BY <4>1, <4>2
        <4>4. Modules(arch, plan, "full") = (0..(n - 1)) \X {"self_attn"}
          BY DEF Modules
        <4> QED
          BY <4>3, <4>4, Labelled
      <3>3. arch.num_layers \in Nat
        BY <2>1 DEF ArchType
      <3>4. /\ specs[1].name = "full"
            /\ Cardinality(specs[1].modules) = arch.num_layers + 0
        BY <2>2, <3>1, <3>2, <3>3
      <3>5. 2 * SpecBytes(specs[1]) = specs[1].kv.dtype * groups[1].bytes
        <4> DEFINE d == IF arch.is_mla THEN 1 ELSE arch.dtype
                   b == groups[1].block
                   h == arch.num_kv_heads
                   z == arch.head_size
        <4>1. /\ specs[1].block = b /\ specs[1].kv = KVSpec(arch, "full")
              /\ specs[1].kv.compress_ratio = 1 /\ ~specs[1].kv.packed
              /\ specs[1].kv.num_kv_heads = h /\ specs[1].kv.head_size = z
              /\ specs[1].kv.dtype = d
          BY <2>2, <3>1 DEF KVSpec
        <4>2. b = plan.block_size /\ groups[1].bytes = 4 * plan.block_size * h * z
          BY <2>4 DEF groups, KVCacheGroups
        <4>3. b \in Nat /\ h \in Nat /\ z \in Nat /\ d \in Nat
          BY <2>1, <2>5, <4>2 DEF ArchType
        <4>4. SpecBytes(specs[1]) = 2 * (b \div 1) * h * z * d
          BY <3>4, <4>1 DEF SpecBytes
        <4> HIDE DEF d, b, h, z
        <4>5. b \div 1 = b
          BY <4>3
        <4>6. 2 * (2 * b * h * z * d) = d * (4 * b * h * z)
          BY <4>3
        <4> QED
          BY <4>1, <4>2, <4>4, <4>5, <4>6
      <3> QED
        BY <2>4, <3>1, <3>4, <3>5
    <2> QED
      BY <2>3, <2>4
  <1> QED
    BY <1>1, SetupTypes, PTL

-----------------------------------------------------------------------------
(* What SGLang's pools report                                              *)

\* Products grow with their factors.
LEMMA Grows ==
    ASSUME NEW x \in Nat, NEW y \in Nat, x <= y, NEW z \in Nat
    PROVE  x * z <= y * z /\ z * x <= z * y
  <1>1. PICK d \in Nat : y = x + d
    <2>1. y - x \in Nat /\ y = x + (y - x)
      OBVIOUS
    <2> QED
      BY <2>1
  <1>2. y * z = x * z + d * z /\ x * z \in Nat /\ d * z \in Nat
    BY <1>1
  <1>3. z * x = x * z /\ z * y = y * z
    OBVIOUS
  <1> QED
    BY <1>2, <1>3

\* The pages for n tokens, with their guard page, have room for the tokens.
LEMMA PagesHold ==
    ASSUME NEW n \in Nat, NEW page \in Nat \ {0}, NEW k \in Nat, NEW c \in Nat,
           page * k <= c
    PROVE  PageCount(n, page) \in Nat /\ n * k <= PageCount(n, page) * c
  <1> DEFINE m == PageCount(n, page)
  <1>1. m \in Nat /\ n <= m * page
    <2>1. n + page + 1 \in Nat
      OBVIOUS
    <2>2. FloorTo(n + page + 1, page) \in Nat
          /\ n + page + 1 < FloorTo(n + page + 1, page) + page
      BY <2>1, FloorToFacts
    <2>3. FloorTo(n + page + 1, page) = m * page
      BY DEF FloorTo, PageCount
    <2>4. m \in Nat
      BY <2>1, Quotients DEF PageCount
    <2> HIDE DEF m
    <2> QED
      BY <2>2, <2>3, <2>4
  <1> HIDE DEF m
  <1>2. n * k <= (m * page) * k
    BY <1>1, Grows
  <1>3. m * (page * k) <= m * c
    BY <1>1, Grows
  <1>4. (m * page) * k = m * (page * k)
    BY <1>1
  <1>5. n * k \in Nat /\ m * (page * k) \in Nat /\ m * c \in Nat
    BY <1>1
  <1> QED
    BY <1>1, <1>2, <1>3, <1>4, <1>5 DEF m

\* The rings of the compressor states take no negative number of bytes.
LEMMA RingsType ==
    ASSUME NEW x \in Nat, NEW w \in Nat \ {0}, NEW ring \in Nat
    PROVE  CeilTo((x \div w + 1) * ring + 1, 4) \in Nat
  <1>1. x \div w \in Nat
    BY Quotients
  <1>2. (x \div w + 1) * ring + 1 \in Nat
    BY <1>1
  <1> QED
    BY <1>2, CeilToFacts

\* The tokens of a group that the pools admit.
Kept(g, x) ==
    IF g.name = "swa" THEN x.swa ELSE x.full \div g.ratio

\* Every group that keeps tokens reports room for those that the pools admit.
LEMMA EntryCovered ==
    ASSUME ArchType, arch.is_mla, NEW x, x.swa \in Nat, x.full \in Nat,
           NEW g, NEW q, Entry(arch, g, q), g.ratio # 0
    PROVE  Kept(g, x) * (IF g.name = "c4_indexer" THEN IndexerBytes(arch)
                         ELSE KVBytes(arch)) * g.layers
               <= GroupBytes(arch, plan, x, q)
  <1> DEFINE c4 == Count(arch, 4)
             c128 == Count(arch, 128)
             kv == KVBytes(arch)
             index == IndexerBytes(arch)
             n == arch.num_layers
             w == Window(arch)
             states == CeilTo((x.swa \div w + 1) * RingSize(4, plan) + 1, 4)
             quarter == x.full \div 4
             rest == x.full \div 128
  <1>1. c4 \in Nat /\ c128 \in Nat /\ n \in Nat
    BY LayerSets DEF ArchType
  <1>2. kv \in Nat \ {0} /\ index \in Nat /\ w \in Nat \ {0}
    BY DEF ArchType, KVBytes, IndexerBytes, Window, NonZeroOr
  <1>3. quarter \in Nat /\ rest \in Nat
    BY Quotients, 4 \in Nat \ {0}, 128 \in Nat \ {0}
  <1>4. states * 16 * arch.indexer_head_dim \in Nat
    <2>1. RingSize(4, plan) \in Nat
      BY DEF RingSize
    <2>2. states \in Nat
      BY <1>2, <2>1, RingsType
    <2> HIDE DEF states
    <2> QED
      BY <2>2 DEF ArchType
  <1>5. PerTokenBytes(arch, q) = kv
    BY DEF PerTokenBytes
  <1>6. ASSUME NEW t \in Nat, NEW b \in Nat, NEW layers \in Nat, t <= b
        PROVE  t * layers <= layers * b
    <2>1. t * layers <= b * layers
      BY <1>6, Grows
    <2> QED
      BY <2>1
  <1>7. ASSUME NEW k \in Nat, NEW c \in Nat, 64 * k <= c
        PROVE  PageCount(quarter, 64) \in Nat /\ quarter * k <= PageCount(quarter, 64) * c
    <2> DEFINE page == 64
    <2>1. page \in Nat \ {0} /\ page * k <= c
      BY <1>7
    <2> HIDE DEF page
    <2>2. PageCount(quarter, page) \in Nat /\ quarter * k <= PageCount(quarter, page) * c
      BY <1>3, <2>1, PagesHold
    <2> QED
      BY <2>2 DEF page
  <1> HIDE DEF c4, c128, kv, index, n, w, states, quarter, rest
  <1>8. CASE g = Group("swa", 64, 1, n) /\ q = Page("swa", 64, 64 * kv, n)
    <2> DEFINE pages == PageCount(x.swa, w)
               c == CeilTo(w * kv, 576)
    <2>1. GroupBytes(arch, plan, x, q) = n * (pages * c)
      BY <1>8 DEF GroupBytes, Page, kv, w
    <2>2. c \in Nat /\ w * kv <= c
      BY <1>2, CeilToFacts, w * kv \in Nat, 576 \in Nat \ {0}
    <2>3. pages \in Nat /\ x.swa * kv <= pages * c
      BY <1>2, <2>2, PagesHold
    <2> HIDE DEF pages, c
    <2>4. x.swa * kv \in Nat /\ pages * c \in Nat
      BY <1>2, <2>2, <2>3
    <2>5. (x.swa * kv) * n <= n * (pages * c)
      BY <1>1, <1>6, <2>3, <2>4
    <2> QED
      BY <1>8, <2>1, <2>5 DEF Group, Kept, kv
  <1>9. CASE /\ g = Group("c4_mla", 256, 4, c4)
             /\ q = Page("c4_mla", 256, StoredTokens(4) * kv, c4)
    <2> DEFINE pages == PageCount(quarter, 64)
               c == CeilTo(64 * kv, 576)
    <2>1. /\ q.name = "c4_mla" /\ q.block = 256 /\ q.layers = c4 /\ q.bytes = 64 * kv
          /\ g.name = "c4_mla" /\ g.ratio = 4 /\ g.layers = c4
      BY <1>9 DEF Page, Group, StoredTokens
    <2>2. q.bytes \div kv = 64
      BY <1>2, <2>1, DivProduct
    <2>3. Stored(x.full, q, kv) = quarter
      BY <2>1, <2>2, 256 \div 64 = 4 DEF Stored, quarter
    <2>4. GroupBytes(arch, plan, x, q) = c4 * (pages * c)
      BY <1>5, <2>1, <2>2, <2>3 DEF GroupBytes
    <2>5. c \in Nat /\ 64 * kv <= c
      BY <1>2, CeilToFacts, 64 * kv \in Nat, 576 \in Nat \ {0}
    <2>6. pages \in Nat /\ quarter * kv <= pages * c
      BY <1>2, <1>7, <2>5
    <2> HIDE DEF pages, c
    <2>7. quarter * kv \in Nat /\ pages * c \in Nat
      BY <1>2, <1>3, <2>5, <2>6
    <2>8. (quarter * kv) * c4 <= c4 * (pages * c)
      BY <1>1, <1>6, <2>6, <2>7
    <2> QED
      BY <2>1, <2>4, <2>8 DEF Kept, kv, quarter
  <1>10. CASE /\ g = Group("c128_mla", 256, 128, c128)
             /\ q = Page("c128_mla", 256, StoredTokens(128) * kv, c128)
    <2> DEFINE pages == PageCount(rest, 2)
               c == CeilTo(2 * kv, 576)
    <2>1. /\ q.name = "c128_mla" /\ q.block = 256 /\ q.layers = c128 /\ q.bytes = 2 * kv
          /\ g.name = "c128_mla" /\ g.ratio = 128 /\ g.layers = c128
      BY <1>10 DEF Page, Group, StoredTokens
    <2>2. q.bytes \div kv = 2
      BY <1>2, <2>1, DivProduct
    <2>3. Stored(x.full, q, kv) = rest
      BY <2>1, <2>2, 256 \div 2 = 128 DEF Stored, rest
    <2>4. GroupBytes(arch, plan, x, q) = c128 * (pages * c)
      BY <1>5, <2>1, <2>2, <2>3 DEF GroupBytes
    <2>5. c \in Nat /\ 2 * kv <= c
      BY <1>2, CeilToFacts, 2 * kv \in Nat, 576 \in Nat \ {0}
    <2>6. pages \in Nat /\ rest * kv <= pages * c
      BY <1>2, <1>3, <2>5, PagesHold
    <2> HIDE DEF pages, c
    <2>7. rest * kv \in Nat /\ pages * c \in Nat
      BY <1>2, <1>3, <2>5, <2>6
    <2>8. (rest * kv) * c128 <= c128 * (pages * c)
      BY <1>1, <1>6, <2>6, <2>7
    <2> QED
      BY <2>1, <2>4, <2>8 DEF Kept, kv, rest
  <1>11. CASE /\ g = Group("c4_indexer", 256, 4, c4)
              /\ q = Page("c4_indexer", 256, StoredTokens(4) * index, c4)
    <2> DEFINE pages == PageCount(quarter, 64)
               c == 64 * index
               state == states * 16 * arch.indexer_head_dim
    <2>1. /\ q.name = "c4_indexer" /\ q.block = 256 /\ q.layers = c4 /\ q.bytes = c
          /\ g.name = "c4_indexer" /\ g.ratio = 4 /\ g.layers = c4
      BY <1>11 DEF Page, Group, StoredTokens
    <2>2. GroupBytes(arch, plan, x, q) = c4 * (pages * c + state)
      BY <2>1, 256 \div 4 = 64 DEF GroupBytes, states, quarter, w
    <2>3. pages \in Nat /\ quarter * index <= pages * c
      BY <1>2, <1>7, c \in Nat
    <2>4. c \in Nat /\ state \in Nat
      BY <1>2, <1>4
    <2> HIDE DEF pages, c, state
    <2>5. /\ quarter * index \in Nat /\ pages * c + state \in Nat
          /\ quarter * index <= pages * c + state
      BY <1>2, <1>3, <2>3, <2>4
    <2>6. (quarter * index) * c4 <= c4 * (pages * c + state)
      BY <1>1, <1>6, <2>5
    <2> QED
      BY <2>1, <2>2, <2>6 DEF Kept, index, quarter
  <1>12. g.name \in {"swa", "c4_mla", "c128_mla", "c4_indexer"}
    BY DEF Entry, Group
  <1> QED
    BY <1>8, <1>9, <1>10, <1>11, <1>12 DEF Entry, Group, c4, c128, kv, index, n

\* A set of numbers, with their sum.
Adds(f, S, total) ==
    /\ IsFiniteSet(S) /\ \A x \in S : f[x] \in Int
    /\ SumFunctionOnSet(f, S) = total /\ total \in Int

\* A sum with one more number.
LEMMA AddOne ==
    ASSUME NEW f, NEW S, NEW total, Adds(f, S, total), NEW y, y \notin S,
           f[y] \in Int, NEW T, T = S \cup {y}
    PROVE  Adds(f, T, total + f[y])
  <1>1. IsFiniteSet(T) /\ T \ {y} = S /\ y \in T
    BY FS_AddElement DEF Adds
  <1>2. \A x \in T : f[x] \in Int
    BY DEF Adds
  <1>3. /\ SumFunctionOnSet(f, T) = f[y] + SumFunctionOnSet(f, S)
        /\ SumFunctionOnSet(f, S) \in Int
    BY <1>1, <1>2, SumRemove
  <1> QED
    BY <1>1, <1>2, <1>3 DEF Adds

\* The layers of the groups that keep tokens, all together.
LEMMA KeptLayers ==
    ASSUME ArchType, IsHybrid(arch)
    PROVE  LET outline == LayerGroups(arch)
               kept == {i \in DOMAIN outline : outline[i].ratio # 0}
           IN SumFunctionOnSet([i \in kept |-> outline[i].layers], kept)
                  = arch.num_layers + (2 * Count(arch, 4) + Count(arch, 128))
  <1> DEFINE c4 == Count(arch, 4)
             c128 == Count(arch, 128)
             n == arch.num_layers
             g1 == Group("swa", 64, 1, n)
             g2 == Group("c4_compressor", 4, 0, c4)
             g3 == Group("c128_compressor", 8, 0, c128)
             g4 == Group("c4_mla", 256, 4, c4)
             g5 == Group("c128_mla", 256, 128, c128)
             g6 == Group("c4_indexer", 256, 4, c4)
             L == LayerGroups(arch)
             kept == {i \in DOMAIN L : L[i].ratio # 0}
             f == [i \in kept |-> L[i].layers]
             total == SumFunctionOnSet(f, kept)
  <1>1. c4 \in Nat /\ c128 \in Nat /\ n \in Nat
    BY LayerSets DEF ArchType
  <1>2. /\ ~(c4 > 0) /\ ~(c128 > 0) => L = <<g1>>
        /\ c4 > 0 /\ ~(c128 > 0) => L = <<g1, g2, g4, g6>>
        /\ ~(c4 > 0) /\ c128 > 0 => L = <<g1, g3, g5>>
        /\ c4 > 0 /\ c128 > 0 => L = <<g1, g2, g3, g4, g5, g6>>
    <2> DEFINE kv == KVBytes(arch)
               G == KVCacheGroups(arch, 0)
               p1 == Page("swa", 64, 64 * kv, n)
               p2 == Page("c4_compressor", 4, 4 * 2048 * 4, c4)
               p3 == Page("c128_compressor", 8, 8 * 1024 * 4, c128)
               p4 == Page("c4_mla", 256, StoredTokens(4) * kv, c4)
               p5 == Page("c128_mla", 256, StoredTokens(128) * kv, c128)
               p6 == Page("c4_indexer", 256, StoredTokens(4) * IndexerBytes(arch), c4)
    <2>1. Shape(arch, L, G)
      BY HybridShape
    <2> HIDE DEF L, G
    <2>2. /\ ~(c4 > 0) /\ ~(c128 > 0) => L = <<g1>> /\ G = <<p1>>
          /\ c4 > 0 /\ ~(c128 > 0) => L = <<g1, g2, g4, g6>> /\ G = <<p1, p2, p4, p6>>
          /\ ~(c4 > 0) /\ c128 > 0 => L = <<g1, g3, g5>> /\ G = <<p1, p3, p5>>
          /\ c4 > 0 /\ c128 > 0 => /\ L = <<g1, g2, g3, g4, g5, g6>>
                                   /\ G = <<p1, p2, p3, p4, p5, p6>>
      BY <2>1, Zenon DEF Shape
    <2> HIDE DEF c4, c128, g1, g2, g3, g4, g5, g6
    <2> QED
      BY <2>2
  <1>3. /\ g1.ratio # 0 /\ g1.layers = n
        /\ g2.ratio = 0 /\ g3.ratio = 0
        /\ g4.ratio # 0 /\ g4.layers = c4
        /\ g5.ratio # 0 /\ g5.layers = c128
        /\ g6.ratio # 0 /\ g6.layers = c4
    BY DEF Group
  <1> HIDE DEF c4, c128, n, g1, g2, g3, g4, g5, g6, L
  <1> SUFFICES total = n + (2 * c4 + c128)
    BY DEF L, c4, c128, n
  <1> HIDE DEF total
  <1> DEFINE K1 == {1}
  <1>4. Adds(f, {}, 0)
    BY FS_EmptySet, SumZero DEF Adds
  <1>5. f[1] = n => Adds(f, K1, n)
    <2>1. K1 = {} \cup {1}
      OBVIOUS
    <2> HIDE DEF f, K1
    <2>2. ASSUME f[1] = n PROVE Adds(f, K1, 0 + f[1])
      BY <1>1, <1>4, <2>1, <2>2, AddOne
    <2> QED
      BY <1>1, <2>2
  <1>6. CASE ~(c4 > 0) /\ ~(c128 > 0)
    <2>1. kept = {1}
      BY <1>2, <1>3, <1>6
    <2>2. f[1] = n
      BY <1>2, <1>3, <1>6, <2>1
    <2>3. kept = K1 /\ Adds(f, K1, n)
      BY <1>5, <2>1, <2>2
    <2> HIDE DEF f, kept, K1
    <2>4. c4 = 0 /\ c128 = 0
      BY <1>1, <1>6
    <2> QED
      BY <1>1, <2>3, <2>4 DEF Adds, total
  <1>7. CASE c4 > 0 /\ ~(c128 > 0)
    <2>1. kept = {1, 3, 4}
      BY <1>2, <1>3, <1>7
    <2>2. f[1] = n /\ f[3] = c4 /\ f[4] = c4
      BY <1>2, <1>3, <1>7, <2>1
    <2> DEFINE K2 == {1, 3}
    <2>3. /\ K2 = K1 \cup {3} /\ 3 \notin K1
          /\ kept = K2 \cup {4} /\ 4 \notin K2
      BY <2>1
    <2> HIDE DEF f, kept, K1, K2
    <2>4. Adds(f, K1, n) /\ f[3] \in Int /\ f[4] \in Int
      BY <1>1, <1>5, <2>2
    <2>5. Adds(f, K2, n + f[3])
      BY <2>3, <2>4, AddOne
    <2>6. Adds(f, kept, (n + f[3]) + f[4])
      BY <2>3, <2>4, <2>5, AddOne
    <2> QED
      BY <1>1, <1>7, <2>2, <2>6 DEF Adds, total
  <1>8. CASE ~(c4 > 0) /\ c128 > 0
    <2>1. kept = {1, 3}
      BY <1>2, <1>3, <1>8
    <2>2. f[1] = n /\ f[3] = c128
      BY <1>2, <1>3, <1>8, <2>1
    <2>3. kept = K1 \cup {3} /\ 3 \notin K1
      BY <2>1
    <2> HIDE DEF f, kept, K1
    <2>4. Adds(f, K1, n) /\ f[3] \in Int
      BY <1>1, <1>5, <2>2
    <2>5. Adds(f, kept, n + f[3])
      BY <2>3, <2>4, AddOne
    <2> QED
      BY <1>1, <1>8, <2>2, <2>5 DEF Adds, total
  <1>9. CASE c4 > 0 /\ c128 > 0
    <2>1. kept = {1, 4, 5, 6}
      BY <1>2, <1>3, <1>9
    <2>2. f[1] = n /\ f[4] = c4 /\ f[5] = c128 /\ f[6] = c4
      BY <1>2, <1>3, <1>9, <2>1
    <2> DEFINE K2 == {1, 4}
               K3 == {1, 4, 5}
    <2>3. /\ K2 = K1 \cup {4} /\ 4 \notin K1
          /\ K3 = K2 \cup {5} /\ 5 \notin K2
          /\ kept = K3 \cup {6} /\ 6 \notin K3
      BY <2>1
    <2> HIDE DEF f, kept, K1, K2, K3
    <2>4. Adds(f, K1, n) /\ f[4] \in Int /\ f[5] \in Int /\ f[6] \in Int
      BY <1>1, <1>5, <2>2
    <2>5. Adds(f, K2, n + f[4])
      BY <2>3, <2>4, AddOne
    <2>6. Adds(f, K3, (n + f[4]) + f[5])
      BY <2>3, <2>4, <2>5, AddOne
    <2>7. Adds(f, kept, ((n + f[4]) + f[5]) + f[6])
      BY <2>3, <2>4, <2>6, AddOne
    <2> QED
      BY <1>1, <1>9, <2>2, <2>7 DEF Adds, total
  <1> QED
    BY <1>6, <1>7, <1>8, <1>9

\* For every model and every size of the pools: the bytes that SGLang reports for
\* its pools are enough for every token they admit, in every layer that keeps it,
\* and a token is charged for as many layers as keep it.
THEOREM LedgerSuffices == Spec => []LedgerCoversPools
  <1>1. ASSUME SetupInv, PoolsInv PROVE LedgerCoversPools
    <2> DEFINE groups == KVCacheGroups(arch, plan.block_size)
               outline == LayerGroups(arch)
               kept == {i \in DOMAIN outline : outline[i].ratio # 0}
               tokens(i) == IF outline[i].name = "swa" THEN pools.swa
                            ELSE pools.full \div outline[i].ratio
               tokenBytes(i) == IF outline[i].name = "c4_indexer" THEN IndexerBytes(arch)
                                ELSE KVBytes(arch)
    <2> SUFFICES ASSUME Built, config.scalars.backend = "sglang", IsHybrid(arch)
                 PROVE  /\ \A i \in kept : tokens(i) * tokenBytes(i) * outline[i].layers
                                               <= GroupBytes(arch, plan, pools, groups[i])
                        /\ PerToken(arch).swa + PerToken(arch).full
                             = SumFunctionOnSet([i \in kept |-> outline[i].layers], kept)
      BY DEF LedgerCoversPools
    <2>1. ConfigType /\ PlanType /\ ArchType
      BY <1>1 DEF SetupInv, Planned, Built, PlanType
    <2>2. pools.full \in Nat /\ pools.swa \in Nat
      <3>1. PICK size \in PoolSizes(FullTokens(arch, plan), plan) :
                pools.full = size.full /\ pools.swa = size.swa
        BY <1>1 DEF PoolsInv
      <3> QED
        BY <2>1, <3>1, WholePages
    <2>3. ASSUME NEW i \in kept
          PROVE  tokens(i) * tokenBytes(i) * outline[i].layers
                     <= GroupBytes(arch, plan, pools, groups[i])
      <3>1. Entry(arch, outline[i], groups[i]) /\ arch.is_mla
        BY HybridEntries DEF IsHybrid
      <3>2. outline[i].ratio # 0
        OBVIOUS
      <3> HIDE DEF outline, groups
      <3>3. Kept(outline[i], pools) * tokenBytes(i) * outline[i].layers
                <= GroupBytes(arch, plan, pools, groups[i])
        BY <2>1, <2>2, <3>1, <3>2, EntryCovered
      <3> QED
        BY <3>3 DEF Kept
    <2>4. /\ PerToken(arch).swa = arch.num_layers
          /\ PerToken(arch).full = 2 * Count(arch, 4) + Count(arch, 128)
      BY DEF PerToken
    <2> QED
      BY <2>1, <2>3, <2>4, KeptLayers
  <1> QED
    BY <1>1, SetupTypes, PoolsPlanned, PTL

-----------------------------------------------------------------------------
(* The latency of a step                                                   *)

Batch == Seq([loaded : Nat, computed : Nat])

\* Positions of a batch and the parts of the cost of each request.
Places(batch) == 1..Len(batch)
Loads(batch) == [i \in Places(batch) |-> batch[i].loaded]
Computes(batch) == [i \in Places(batch) |-> batch[i].computed]
Products(batch) == [i \in Places(batch) |-> batch[i].loaded * batch[i].computed]

\* Four integers, with which a batch is priced.
IsCoef(coef) ==
    /\ \A i \in 1..4 : coef.num[i] \in Int
    /\ coef.den \in Nat \ {0}

\* The price of a batch is a combination of three sums over its requests.
LEMMA RawIsSums ==
    ASSUME NEW batch \in Batch, NEW coef
    PROVE  Raw(coef, batch) =
               coef.num[1] * SumFunctionOnSet(Loads(batch), Places(batch))
               + coef.num[2] * SumFunctionOnSet(Computes(batch), Places(batch))
               + coef.num[3] * SumFunctionOnSet(Products(batch), Places(batch))
               + coef.num[4]
  <1>1. DOMAIN batch = Places(batch)
    BY DEF Batch, Places
  <1>2. TotalOf(batch, LAMBDA q : q.loaded) = SumFunctionOnSet(Loads(batch), Places(batch))
    BY <1>1 DEF TotalOf, SumFunction, Loads
  <1>3. TotalOf(batch, LAMBDA q : q.computed)
            = SumFunctionOnSet(Computes(batch), Places(batch))
    BY <1>1 DEF TotalOf, SumFunction, Computes
  <1>4. Interaction(batch) = SumFunctionOnSet(Products(batch), Places(batch))
    BY <1>1 DEF Interaction, TotalOf, SumFunction, Products
  <1> QED
    BY <1>2, <1>3, <1>4 DEF Raw

\* A request of a batch.
LEMMA InBatch ==
    ASSUME NEW batch \in Batch, NEW i \in Places(batch)
    PROVE  batch[i] \in [loaded : Nat, computed : Nat]
  <1> DEFINE R == [loaded : Nat, computed : Nat]
  <1>1. batch \in Seq(R)
    BY DEF Batch
  <1> HIDE DEF R
  <1>2. batch[i] \in R
    BY <1>1 DEF Places
  <1> QED
    BY <1>2 DEF R

\* The parts of the cost are integers, one for each request.
LEMMA PartTypes ==
    ASSUME NEW batch \in Batch
    PROVE  /\ IsFiniteSet(Places(batch)) /\ Cardinality(Places(batch)) = Len(batch)
           /\ Len(batch) \in Nat
           /\ \A i \in Places(batch) :
                /\ Loads(batch)[i] = batch[i].loaded /\ Loads(batch)[i] \in Int
                /\ Computes(batch)[i] = batch[i].computed /\ Computes(batch)[i] \in Int
                /\ Products(batch)[i] = batch[i].loaded * batch[i].computed
                /\ Products(batch)[i] \in Int
  <1>1. Len(batch) \in Nat /\ DOMAIN batch = Places(batch)
    BY DEF Batch, Places
  <1>2. IsFiniteSet(Places(batch)) /\ Cardinality(Places(batch)) = Len(batch)
    <2> DEFINE n == Len(batch)
    <2>1. n \in Int /\ 1 \in Int
      BY <1>1
    <2>2. /\ IsFiniteSet(1..n)
          /\ Cardinality(1..n) = IF 1 > n THEN 0 ELSE n - 1 + 1
      BY <2>1, FS_Interval
    <2> QED
      BY <1>1, <2>2 DEF Places
  <1>3. \A i \in Places(batch) : batch[i].loaded \in Int /\ batch[i].computed \in Int
    <2>1. ASSUME NEW i \in Places(batch) PROVE batch[i] \in [loaded : Nat, computed : Nat]
      BY InBatch
    <2> QED
      BY <2>1
  <1> QED
    BY <1>1, <1>2, <1>3 DEF Loads, Computes, Products

\* What a request costs alone.
LEMMA RawAlone ==
    ASSUME NEW q \in [loaded : Nat, computed : Nat], NEW coef, IsCoef(coef)
    PROVE  Raw(coef, <<q>>) = coef.num[1] * q.loaded + coef.num[2] * q.computed
                              + coef.num[3] * (q.loaded * q.computed) + coef.num[4]
  <1> DEFINE batch == <<q>>
  <1>1. batch \in Batch /\ Places(batch) = {1} /\ batch[1] = q
    BY DEF Batch, Places
  <1> HIDE DEF batch
  <1>2. /\ Loads(batch)[1] = q.loaded /\ Loads(batch)[1] \in Int
        /\ Computes(batch)[1] = q.computed /\ Computes(batch)[1] \in Int
        /\ Products(batch)[1] = q.loaded * q.computed /\ Products(batch)[1] \in Int
    BY <1>1, PartTypes
  <1>3. ASSUME NEW f, f[1] \in Int PROVE SumFunctionOnSet(f, {1}) = f[1]
    <2>1. {1} = {} \cup {1} /\ 1 \notin {}
      OBVIOUS
    <2>2. Adds(f, {}, 0)
      BY FS_EmptySet, SumZero DEF Adds
    <2>3. Adds(f, {1}, 0 + f[1])
      BY <1>3, <2>1, <2>2, AddOne
    <2> QED
      BY <1>3, <2>3 DEF Adds
  <1>4. /\ SumFunctionOnSet(Loads(batch), {1}) = q.loaded
        /\ SumFunctionOnSet(Computes(batch), {1}) = q.computed
        /\ SumFunctionOnSet(Products(batch), {1}) = q.loaded * q.computed
    BY <1>2, <1>3
  <1> QED
    BY <1>1, <1>4, RawIsSums DEF batch

\* What the requests of a batch cost alone, together.
AloneTotal(coef, batch) == TotalOf(batch, LAMBDA q : Raw(coef, <<q>>))

\* A batch costs what its requests cost alone, but for the base.
LEMMA RawAdds ==
    ASSUME NEW batch \in Batch, NEW coef, IsCoef(coef)
    PROVE  /\ Raw(coef, batch) \in Int
           /\ Raw(coef, batch) + (Len(batch) - 1) * coef.num[4]
                = AloneTotal(coef, batch)
  <1> DEFINE S == Places(batch)
             f == Loads(batch)
             g == Computes(batch)
             e == Products(batch)
             a == coef.num[1]
             b == coef.num[2]
             c == coef.num[3]
             d == coef.num[4]
             ones == [i \in S |-> 1]
             u == [i \in S |-> a * f[i] + b * g[i]]
             v == [i \in S |-> c * e[i] + d * ones[i]]
             h == [i \in S |-> Raw(coef, <<batch[i]>>)]
             Sum(x) == SumFunctionOnSet(x, S)
  <1>1. a \in Int /\ b \in Int /\ c \in Int /\ d \in Int
    BY DEF IsCoef
  <1>2. /\ IsFiniteSet(S) /\ Cardinality(S) = Len(batch) /\ Len(batch) \in Nat
        /\ \A i \in S : f[i] \in Int /\ g[i] \in Int /\ e[i] \in Int /\ ones[i] = 1
    BY PartTypes
  <1>3. \A i \in S : h[i] = (a * f[i] + b * g[i]) + (c * e[i] + d * 1)
    <2> SUFFICES ASSUME NEW i \in S
                 PROVE  h[i] = (a * f[i] + b * g[i]) + (c * e[i] + d * 1)
      OBVIOUS
    <2>1. batch[i] \in [loaded : Nat, computed : Nat]
      BY InBatch
    <2>2. h[i] = a * batch[i].loaded + b * batch[i].computed
                 + c * (batch[i].loaded * batch[i].computed) + d
      BY <2>1, RawAlone
    <2>3. f[i] = batch[i].loaded /\ g[i] = batch[i].computed
          /\ e[i] = batch[i].loaded * batch[i].computed
      BY PartTypes
    <2>4. f[i] \in Int /\ g[i] \in Int /\ e[i] \in Int
      BY <1>2
    <2> HIDE DEF f, g, e, h, a, b, c, d
    <2>5. h[i] = a * f[i] + b * g[i] + c * e[i] + d
      BY <2>2, <2>3
    <2> QED
      BY <1>1, <2>4, <2>5
  <1>4. Raw(coef, batch) = a * Sum(f) + b * Sum(g) + c * Sum(e) + d
    BY RawIsSums
  <1>5. AloneTotal(coef, batch) = Sum(h)
    <2>1. DOMAIN batch = S
      BY DEF Batch, Places
    <2> QED
      BY <2>1 DEF AloneTotal, TotalOf, SumFunction
  <1>6. Sum(f) \in Int /\ Sum(g) \in Int /\ Sum(e) \in Int
    <2>1. (\A i \in S : f[i] \in Int) /\ (\A i \in S : g[i] \in Int)
          /\ (\A i \in S : e[i] \in Int)
      BY <1>2
    <2> HIDE DEF S, f, g, e
    <2> QED
      BY <1>2, <2>1, SumType
  <1>7. Sum(ones) = Len(batch)
    BY <1>2, SumOnes
  <1>8. /\ \A i \in S : u[i] = a * f[i] + b * g[i]
        /\ \A i \in S : v[i] = c * e[i] + d * ones[i]
    OBVIOUS
  <1> HIDE DEF S, f, g, e, a, b, c, d, ones, u, v, h
  <1>9. Sum(u) = a * Sum(f) + b * Sum(g)
    <2>1. \A i \in S : f[i] \in Int /\ g[i] \in Int /\ u[i] = a * f[i] + b * g[i]
      BY <1>2, <1>8
    <2>2. IsFiniteSet(S)
      BY <1>2
    <2> QED
      BY <1>1, <2>1, <2>2, SumLinear
  <1>10. Sum(v) = c * Sum(e) + d * Sum(ones)
    <2>1. \A i \in S : e[i] \in Int /\ ones[i] \in Int /\ v[i] = c * e[i] + d * ones[i]
      BY <1>2, <1>8
    <2>2. IsFiniteSet(S)
      BY <1>2
    <2> QED
      BY <1>1, <2>1, <2>2, SumLinear
  <1>11. Sum(h) = 1 * Sum(u) + 1 * Sum(v)
    <2>1. ASSUME NEW i \in S
          PROVE  u[i] \in Int /\ v[i] \in Int /\ h[i] = 1 * u[i] + 1 * v[i]
      <3>1. f[i] \in Int /\ g[i] \in Int /\ e[i] \in Int /\ ones[i] = 1
        BY <1>2
      <3>2. a * f[i] + b * g[i] \in Int /\ c * e[i] + d * 1 \in Int
        BY <1>1, <3>1
      <3> QED
        BY <1>3, <1>8, <3>1, <3>2
    <2> QED
      BY <1>2, <2>1, SumLinear, 1 \in Int
  <1>12. Sum(h) = (a * Sum(f) + b * Sum(g)) + (c * Sum(e) + d * Len(batch))
    <2>1. a * Sum(f) + b * Sum(g) \in Int /\ c * Sum(e) + d * Len(batch) \in Int
      BY <1>1, <1>2, <1>6
    <2> QED
      BY <1>7, <1>9, <1>10, <1>11, <2>1
  <1> HIDE DEF Sum
  <1>13. Raw(coef, batch) \in Int
    BY <1>1, <1>4, <1>6
  <1>14. Raw(coef, batch) + (Len(batch) - 1) * d = Sum(h)
    BY <1>1, <1>2, <1>4, <1>6, <1>12
  <1> QED
    BY <1>5, <1>13, <1>14 DEF d

-----------------------------------------------------------------------------
(* The fit of the latency                                                  *)

\* The rows of the regression, and the state of the elimination.
Rows == [1..4 -> [1..5 -> Int]]
Tableau == [rows : Rows, scale : Nat \ {0}]

\* The normal equations are integers.
LEMMA NormalTypes ==
    ASSUME NEW points \in Points
    PROVE  NormalEquations(points) \in Rows
  <1> DEFINE R == [loaded : Nat, computed : Nat, latency : Nat]
             entry(i, j) == TotalOf(points, LAMBDA p : Features(p)[i] * Features(p)[j])
  <1>1. ASSUME NEW p \in R, NEW i \in 1..5 PROVE Features(p)[i] \in Int
    <2>1. p.loaded \in Nat /\ p.computed \in Nat /\ p.latency \in Nat
      OBVIOUS
    <2>2. p.loaded * p.computed \in Nat
      BY <2>1
    <2> QED
      BY <2>1, <2>2 DEF Features
  <1>2. ASSUME NEW i \in 1..4, NEW j \in 1..5 PROVE entry(i, j) \in Int
    <2> DEFINE S == DOMAIN points
               f == [k \in S |-> Features(points[k])[i] * Features(points[k])[j]]
    <2>1. entry(i, j) = SumFunctionOnSet(f, S)
      BY DEF TotalOf, SumFunction
    <2>2. points \in Seq(R)
      BY DEF Points
    <2> HIDE DEF R
    <2>3. S = 1..Len(points) /\ Len(points) \in Nat /\ \A k \in S : points[k] \in R
      BY <2>2
    <2>4. IsFiniteSet(S)
      BY <2>3, FS_Interval, 1 \in Int
    <2>5. \A k \in S : f[k] \in Int
      <3>1. i \in 1..5
        OBVIOUS
      <3>2. ASSUME NEW k \in S
            PROVE  Features(points[k])[i] \in Int /\ Features(points[k])[j] \in Int
        BY <1>1, <2>3, <3>1
      <3> QED
        BY <3>2
    <2> HIDE DEF f, S
    <2> QED
      BY <2>1, <2>4, <2>5, SumType
  <1>3. NormalEquations(points) = [i \in 1..4 |-> [j \in 1..5 |-> entry(i, j)]]
    BY DEF NormalEquations
  <1> HIDE DEF entry
  <1> QED
    BY <1>2, <1>3 DEF Rows

\* The row of the pivot is one of those that are left, the first of those whose
\* entry is largest.
LEMMA PivotLeft ==
    ASSUME NEW rows \in Rows, NEW col \in 1..4
    PROVE  /\ PivotRow(rows, col) \in col..4
           /\ \A r \in col..4 :
                /\ Magnitude(rows[r][col]) <= Magnitude(rows[PivotRow(rows, col)][col])
                /\ r < PivotRow(rows, col) =>
                     Magnitude(rows[r][col]) < Magnitude(rows[PivotRow(rows, col)][col])
  <1> DEFINE left == col..4
             size == [r \in left |-> Magnitude(rows[r][col])]
             sizes == {size[r] : r \in left}
             largest == Max(sizes)
             best == {r \in left : size[r] = largest}
  <1>1. IsFiniteSet(left) /\ left \in SUBSET (1..4) /\ col \in left
    BY FS_Interval, col \in Int, 4 \in Int
  <1>2. ASSUME NEW r \in left PROVE size[r] \in Nat
    <2>1. r \in 1..4 /\ col \in 1..5
      BY <1>1
    <2>2. rows[r] \in [1..5 -> Int]
      BY <2>1 DEF Rows
    <2>3. rows[r][col] \in Int
      BY <2>1, <2>2
    <2> QED
      BY <2>3 DEF Magnitude
  <1>3. PivotRow(rows, col) = Min(best)
    <2>1. {Magnitude(rows[r][col]) : r \in left} = sizes
      OBVIOUS
    <2>2. {r \in left : Magnitude(rows[r][col]) = largest} = best
      OBVIOUS
    <2> QED
      BY <2>1, <2>2 DEF PivotRow
  <1> HIDE DEF left, size
  <1>4. largest \in sizes /\ \A x \in sizes : x <= largest
    <2> DEFINE bound == SumFunctionOnSet(size, left)
    <2>1. \A r \in left : size[r] <= bound /\ bound \in Nat
      BY <1>1, <1>2, SumBounds
    <2>2. sizes \in SUBSET Nat /\ sizes # {} /\ bound \in Nat /\ \A x \in sizes : x <= bound
      BY <1>1, <1>2, <2>1
    <2> HIDE DEF sizes, bound
    <2> QED
      BY <2>2, LargestIn
  <1> HIDE DEF largest
  <1>5. PICK r \in left : size[r] = largest
    BY <1>4
  <1>6. best \in SUBSET Nat /\ best # {} /\ best \in SUBSET left
    <2>1. best \in SUBSET left /\ r \in best
      BY <1>5
    <2>2. 1..4 \in SUBSET Nat
      OBVIOUS
    <2> HIDE DEF best
    <2> QED
      BY <1>1, <2>1, <2>2
  <1> HIDE DEF best
  <1>7. PICK least \in best : \A x \in best : least <= x
    BY <1>6, LeastNumber
  <1>8. Min(best) \in best /\ \A x \in best : Min(best) <= x
    BY <1>7 DEF Min
  <1> DEFINE q == PivotRow(rows, col)
  <1>9. q \in left /\ size[q] = largest
    BY <1>3, <1>6, <1>8 DEF best
  <1>10. ASSUME NEW r2 \in left
         PROVE  /\ size[r2] <= size[q]
                /\ r2 < q => size[r2] < size[q]
    <2>1. size[r2] \in Nat /\ size[q] \in Nat /\ r2 \in Nat /\ q \in Nat
      <3>1. r2 \in 1..4 /\ q \in 1..4
        BY <1>1, <1>9
      <3>2. size[r2] \in Nat /\ size[q] \in Nat
        BY <1>2, <1>9
      <3> HIDE DEF q
      <3> QED
        BY <3>1, <3>2
    <2>2. size[r2] <= largest
      BY <1>4
    <2>3. r2 < q => size[r2] # largest
      <3> SUFFICES ASSUME r2 < q, size[r2] = largest PROVE FALSE
        OBVIOUS
      <3>1. r2 \in best
        BY DEF best
      <3>2. q <= r2
        BY <1>3, <1>8, <3>1
      <3> QED
        BY <2>1, <3>2
    <2> HIDE DEF q, largest
    <2> QED
      BY <1>9, <2>1, <2>2, <2>3
  <1>11. \A r2 \in left : size[r2] = Magnitude(rows[r2][col])
    BY DEF size
  <1> QED
    BY <1>9, <1>10, <1>11 DEF left

\* A quotient of an integer.
LEMMA IntQuotient ==
    ASSUME NEW n \in Int, NEW p \in Nat \ {0}
    PROVE  n \div p \in Int
  OBVIOUS

\* A step of the elimination leaves rows of integers and a positive scale.
LEMMA EliminateTypes ==
    ASSUME NEW s \in Tableau, NEW col \in 1..4
    PROVE  Eliminate(s, col) \in Tableau
  <1> DEFINE best == PivotRow(s.rows, col)
             rows == Swapped(s.rows, col, best)
             pivot == Positive(rows[col], col)
             reduced(row) == [j \in 1..5 |->
                 (pivot[col] * row[j] - row[col] * pivot[j]) \div s.scale]
  <1>1. s.rows \in Rows /\ s.scale \in Nat \ {0}
    BY DEF Tableau
  <1>2. best \in 1..4
    BY <1>1, PivotLeft
  <1> HIDE DEF best
  <1>3. rows \in Rows
    BY <1>1, <1>2 DEF Swapped, Rows
  <1> HIDE DEF rows
  <1>4. pivot \in [1..5 -> Int] /\ pivot[col] \in Nat
    <2>1. rows[col] \in [1..5 -> Int] /\ col \in 1..5
      BY <1>3 DEF Rows
    <2>2. CASE rows[col][col] < 0
      BY <2>1, <2>2 DEF Positive
    <2>3. CASE ~(rows[col][col] < 0)
      BY <2>1, <2>3 DEF Positive
    <2> QED
      BY <2>2, <2>3
  <1> HIDE DEF pivot
  <1>5. ASSUME NEW r \in 1..4 PROVE reduced(rows[r]) \in [1..5 -> Int]
    <2>1. rows[r] \in [1..5 -> Int] /\ col \in 1..5
      BY <1>3 DEF Rows
    <2>2. ASSUME NEW j \in 1..5
          PROVE  (pivot[col] * rows[r][j] - rows[r][col] * pivot[j]) \div s.scale \in Int
      <3>1. /\ pivot[col] \in Int /\ rows[r][j] \in Int
            /\ rows[r][col] \in Int /\ pivot[j] \in Int
        BY <1>4, <2>1
      <3>2. pivot[col] * rows[r][j] - rows[r][col] * pivot[j] \in Int
        BY <3>1
      <3> QED
        BY <1>1, <3>2, IntQuotient
    <2> QED
      BY <2>2
  <1>6. Eliminate(s, col) =
            IF pivot[col] = 0 THEN s
            ELSE [rows |-> [r \in 1..4 |-> IF r = col THEN pivot ELSE reduced(rows[r])],
                  scale |-> pivot[col]]
    BY DEF Eliminate, pivot, rows, best
  <1> HIDE DEF reduced
  <1>7. [r \in 1..4 |-> IF r = col THEN pivot ELSE reduced(rows[r])] \in Rows
    BY <1>4, <1>5 DEF Rows
  <1> QED
    BY <1>4, <1>6, <1>7 DEF Tableau

\* The elimination, column by column.
Elimination(s) == FoldLeft(Eliminate, s, <<1, 2, 3, 4>>)

\* The four columns, one after the other; there still are rows of integers and a
\* positive scale.
LEMMA EliminationTypes ==
    ASSUME NEW base \in Tableau
    PROVE  /\ Elimination(base) \in Tableau
           /\ Elimination(base) = Eliminate(Eliminate(Eliminate(Eliminate(base, 1), 2), 3), 4)
  <1> DEFINE n == 4
             seq == <<1, 2, 3, 4>>
             V == Tableau
             Step(g) == [s \in SUBSET (1..n) |->
                 IF s = {} THEN base ELSE Eliminate(g[s \ {Max(s)}], seq[Max(s)])]
             c == CHOOSE g : g = Step(g)
             op == [x \in V \X (1..n) |-> Eliminate(x[1], seq[x[2]])]
  <1>1. Elimination(base) = c[1..n] /\ n \in Nat
    <2>1. DOMAIN seq = 1..n
      OBVIOUS
    <2> HIDE DEF seq
    <2> QED
      BY <2>1 DEF Elimination, FoldLeft, MapThenFoldSet, seq
  <1>2. \A i \in 1..n : seq[i] = i /\ i \in 1..4
    OBVIOUS
  <1>3. n = 4
    OBVIOUS
  <1> HIDE DEF n, seq
  <1>4. op \in FoldSteps(V, n)
    BY <1>2, EliminateTypes DEF FoldSteps
  <1>5. \A x \in V, i \in 1..n : op[<<x, i>>] = Eliminate(x, seq[i])
    OBVIOUS
  <1> HIDE DEF op, V
  <1>6. PICK g : Folds(g, V, n, base, op)
    BY <1>1, <1>4, FoldExists DEF V
  <1>7. ASSUME NEW s \in SUBSET (1..n), s # {}
        PROVE  g[s] = Eliminate(g[s \ {Max(s)}], seq[Max(s)])
    <2>1. s \in SUBSET Nat /\ \A x \in s : x <= n
      BY <1>1
    <2>2. Max(s) \in 1..n
      BY <1>1, <1>7, <2>1, LargestIn
    <2>3. g[s \ {Max(s)}] \in V
      BY <1>6 DEF Folds
    <2> QED
      BY <1>5, <1>6, <1>7, <2>2, <2>3 DEF Folds
  <1>8. g = Step(g)
    BY <1>6, <1>7 DEF Folds
  <1>9. c = Step(c)
    BY <1>8
  <1> HIDE DEF c
  <1>10. c[{}] = base
    BY <1>9
  <1>11. ASSUME NEW i \in 1..n, c[1..(i - 1)] \in V
         PROVE  c[1..i] = op[<<c[1..(i - 1)], i>>]
    <2>1. i \in Nat \ {0} /\ 1..i \in SUBSET (1..n)
      BY <1>1
    <2>2. Max(1..i) = i /\ (1..i) \ {i} = 1..(i - 1) /\ 1..i # {}
      BY <2>1, LastOfInterval
    <2>3. c[1..i] = Eliminate(c[1..(i - 1)], seq[i])
      BY <1>9, <2>1, <2>2
    <2> QED
      BY <1>5, <1>11, <2>3
  <1>12. base \in V
    BY DEF V
  <1>13. PICK h : Traces(h, V, n, base, op) /\ h[n] = c[1..n]
    BY <1>1, <1>4, <1>10, <1>11, <1>12, FoldTrace
  <1>14. ASSUME NEW i \in 1..n, h[i - 1] \in V
         PROVE  h[i] = Eliminate(h[i - 1], i) /\ h[i] \in V
    <2>1. h[i] = op[<<h[i - 1], i>>]
      BY <1>13 DEF Traces
    <2>2. Eliminate(h[i - 1], i) \in V
      BY <1>2, <1>14, EliminateTypes DEF V
    <2> QED
      BY <1>2, <1>5, <1>14, <2>1, <2>2
  <1>15. h[0] = base
    BY <1>13 DEF Traces
  <1>16. h[1] = Eliminate(base, 1) /\ h[1] \in V
    BY <1>3, <1>12, <1>14, <1>15
  <1>17. h[2] = Eliminate(h[1], 2) /\ h[2] \in V
    BY <1>3, <1>14, <1>16
  <1>18. h[3] = Eliminate(h[2], 3) /\ h[3] \in V
    BY <1>3, <1>14, <1>17
  <1>19. h[4] = Eliminate(h[3], 4) /\ h[4] \in V
    BY <1>3, <1>14, <1>18
  <1> QED
    BY <1>1, <1>3, <1>13, <1>16, <1>17, <1>18, <1>19 DEF V

\* Whatever the points, the fit has four integers over a positive denominator.
LEMMA FitTypes ==
    ASSUME NEW points \in Points
    PROVE  IsCoef(Fitted(points))
  <1> DEFINE start == [rows |-> NormalEquations(points), scale |-> 1]
             done == Elimination(start)
             s == Solution(points)
  <1>1. start \in Tableau
    BY NormalTypes, 1 \in Nat \ {0} DEF Tableau
  <1>2. done \in Tableau
    BY <1>1, EliminationTypes
  <1>3. s = [num |-> [i \in 1..4 |-> done.rows[i][5]], den |-> done.scale]
    BY DEF Solution, Elimination
  <1> HIDE DEF done, start
  <1>4. \A i \in 1..4 : done.rows[i][5] \in Int
    BY <1>2, 5 \in 1..5 DEF Tableau, Rows
  <1>5. s.num \in [1..4 -> Int] /\ s.den \in Nat \ {0} /\ s = [num |-> s.num, den |-> s.den]
    BY <1>2, <1>3, <1>4 DEF Tableau
  <1>6. Fitted(points) = [s EXCEPT !.num[1] = AtLeastZero(@), !.num[2] = AtLeastZero(@)]
    BY DEF Fitted
  <1> HIDE DEF s
  <1>7. /\ Fitted(points).den = s.den
        /\ Fitted(points).num = [s.num EXCEPT ![1] = AtLeastZero(@), ![2] = AtLeastZero(@)]
    BY <1>5, <1>6
  <1>8. \A i \in 1..4 : Fitted(points).num[i] \in Int
    BY <1>5, <1>7 DEF AtLeastZero
  <1> QED
    BY <1>5, <1>7, <1>8 DEF IsCoef

\* Coefficients that are given explicitly, or fitted to points or to the defaults.
LEMMA CoefficientTypes ==
    ASSUME NEW g, PerfType(g)
    PROVE  IsCoef(Coefficients(g))
  <1>1. CASE IsExplicit(g)
    <2>1. \A i \in 1..4 : g.coefficients[i] \in Int
      BY <1>1 DEF PerfType, IsExplicit
    <2>2. Coefficients(g) = [num |-> g.coefficients, den |-> 1]
      BY <1>1 DEF Coefficients
    <2> QED
      BY <2>1, <2>2 DEF IsCoef
  <1>2. CASE ~IsExplicit(g)
    <2>1. PointsOf(g) \in Points
      BY CalibrationAssumption DEF PointsOf, PerfType, Points, CalibrationAssumption
    <2> QED
      BY <1>2, <2>1, FitTypes DEF Coefficients
  <1> QED
    BY <1>1, <1>2

\* The prediction that was made last, with the coefficients it was made with.
PredictInv ==
    /\ phase = "ready" => IsCoef(perf.coef)
    /\ last # None =>
         /\ phase = "ready" /\ last.batch \in Batch
         /\ last.raw = Raw(perf.coef, last.batch)
         /\ last.latency = Limited(last.raw, perf.coef.den)

\* Every step keeps it: the coefficients are fitted once.
LEMMA PredictStep ==
    ASSUME SetupInv, PredictInv, [Next]_vars
    PROVE  PredictInv'
  <1>1. CASE Configure
    BY <1>1 DEF Configure, PredictInv
  <1>2. CASE BuildPlan
    BY <1>2 DEF BuildPlan, PredictInv
  <1>3. CASE BuildVLLM
    BY <1>3 DEF BuildVLLM, PredictInv
  <1>4. CASE BuildSGLang
    BY <1>4 DEF BuildSGLang, PredictInv
  <1>5. CASE BuildAcceptance
    BY <1>5 DEF BuildAcceptance, PredictInv
  <1>6. CASE FitPerfModel
    <2>1. PerfType(config.gpu_perf)
      BY <1>6 DEF FitPerfModel, SetupInv, ConfigType
    <2>2. perf'.coef = Coefficients(config.gpu_perf) /\ last' = last /\ last = None
      BY <1>6 DEF FitPerfModel, PredictInv
    <2> QED
      BY <2>1, <2>2, CoefficientTypes DEF PredictInv
  <1>7. CASE Predict
    <2>1. PICK batch \in Batches :
              LET raw == Raw(perf.coef, batch)
                  capped == raw > MaxLatency * perf.coef.den
              IN /\ last' = [batch |-> batch, raw |-> raw,
                             latency |-> Limited(raw, perf.coef.den)]
                 /\ perf' = [perf EXCEPT
                      !.steps = @ + 1,
                      !.cap_count = IF capped THEN @ + 1 ELSE @,
                      !.cap_max = IF capped /\ raw > @ THEN raw ELSE @]
      BY <1>7 DEF Predict
    <2>2. batch \in Batch
      BY LaunchAssumption DEF LaunchAssumption, Batch
    <2>3. perf'.coef = perf.coef /\ phase = "ready" /\ phase' = phase
      BY <1>7, <2>1 DEF Predict
    <2>4. /\ last'.batch = batch /\ last'.raw = Raw(perf.coef, batch)
          /\ last'.latency = Limited(last'.raw, perf.coef.den)
      BY <2>1
    <2> QED
      BY <2>2, <2>3, <2>4 DEF PredictInv
  <1>8. CASE UNCHANGED vars
    BY <1>8 DEF vars, PredictInv
  <1> QED
    BY <1>1, <1>2, <1>3, <1>4, <1>5, <1>6, <1>7, <1>8 DEF Next

\* The coefficients and the last prediction, in every state.
THEOREM Predictions == Spec => []PredictInv
  <1>1. Init => PredictInv
    BY DEF Init, PredictInv
  <1> QED
    BY <1>1, PredictStep, SetupTypes, PTL DEF Spec

\* For every set of points or coefficients and every batch: a step takes a time
\* between 0 and the cap, and a batch costs what its requests cost alone, but for
\* the base.
THEOREM LatencyOfSteps == Spec => []StepLatency
  <1>1. ASSUME PredictInv PROVE StepLatency
    <2> DEFINE cap == MaxLatency * perf.coef.den
               base == perf.coef.num[4]
    <2> SUFFICES ASSUME last # None
                 PROVE  /\ last.latency \in 0..cap
                        /\ last.raw \in 0..cap => last.latency = last.raw
                        /\ last.raw + (Len(last.batch) - 1) * base
                             = AloneTotal(perf.coef, last.batch)
      BY DEF StepLatency, AloneTotal
    <2>1. /\ IsCoef(perf.coef) /\ last.batch \in Batch
          /\ last.raw = Raw(perf.coef, last.batch)
          /\ last.latency = Limited(last.raw, perf.coef.den)
      BY <1>1 DEF PredictInv
    <2>2. /\ last.raw \in Int
          /\ last.raw + (Len(last.batch) - 1) * base = AloneTotal(perf.coef, last.batch)
      <3> DEFINE batch == last.batch
                 coef == perf.coef
      <3>1. batch \in Batch /\ IsCoef(coef)
        BY <2>1
      <3> HIDE DEF batch, coef
      <3>2. /\ Raw(coef, batch) \in Int
            /\ Raw(coef, batch) + (Len(batch) - 1) * coef.num[4] = AloneTotal(coef, batch)
        BY <3>1, RawAdds
      <3> QED
        BY <2>1, <3>2 DEF batch, coef
    <2>3. cap \in Nat
      BY <2>1, CalibrationAssumption DEF IsCoef, CalibrationAssumption
    <2>4. last.latency = AtLeastZero(IF last.raw > cap THEN cap ELSE last.raw)
      BY <2>1 DEF Limited
    <2> HIDE DEF cap
    <2>5. last.latency \in 0..cap /\ (last.raw \in 0..cap => last.latency = last.raw)
      BY <2>2, <2>3, <2>4 DEF AtLeastZero
    <2> QED
      BY <2>2, <2>5
  <1> QED
    BY <1>1, Predictions, PTL

-----------------------------------------------------------------------------
(* The fit is a least-squares solution                                     *)

Row == [1..5 -> Int]

\* Minors of two, three and four rows: the determinants of the columns named.
Minor2(u, v, p, q) == u[p] * v[q] - u[q] * v[p]
Minor3(u, v, w, p, q, t) ==
    u[p] * Minor2(v, w, q, t) - u[q] * Minor2(v, w, p, t) + u[t] * Minor2(v, w, p, q)
Minor4(u, v, w, x, p, q, t, j) ==
    u[p] * Minor3(v, w, x, q, t, j) - u[q] * Minor3(v, w, x, p, t, j)
    + u[t] * Minor3(v, w, x, p, q, j) - u[j] * Minor3(v, w, x, p, q, t)

\* Minors of integers are integers.
LEMMA MinorTypes ==
    ASSUME NEW u \in Row, NEW v \in Row, NEW w \in Row, NEW x \in Row,
           NEW p \in 1..5, NEW q \in 1..5, NEW t \in 1..5, NEW j \in 1..5
    PROVE  /\ Minor2(u, v, p, q) \in Int /\ Minor3(u, v, w, p, q, t) \in Int
           /\ Minor4(u, v, w, x, p, q, t, j) \in Int
  <1>1. ASSUME NEW a \in Row, NEW c \in 1..5 PROVE a[c] \in Int
    BY DEF Row
  <1>2. ASSUME NEW a \in Row, NEW b \in Row, NEW c \in 1..5, NEW d \in 1..5
        PROVE  Minor2(a, b, c, d) \in Int
    <2>1. a[c] \in Int /\ a[d] \in Int /\ b[c] \in Int /\ b[d] \in Int
      BY <1>1
    <2> QED
      BY <2>1 DEF Minor2
  <1>3. ASSUME NEW a \in Row, NEW b \in Row, NEW e \in Row,
               NEW c \in 1..5, NEW d \in 1..5, NEW f \in 1..5
        PROVE  Minor3(a, b, e, c, d, f) \in Int
    <2>1. a[c] \in Int /\ a[d] \in Int /\ a[f] \in Int
      BY <1>1
    <2>2. /\ Minor2(b, e, d, f) \in Int /\ Minor2(b, e, c, f) \in Int
          /\ Minor2(b, e, c, d) \in Int
      BY <1>2
    <2> QED
      BY <2>1, <2>2 DEF Minor3
  <1>4. Minor4(u, v, w, x, p, q, t, j) \in Int
    <2>1. u[p] \in Int /\ u[q] \in Int /\ u[t] \in Int /\ u[j] \in Int
      BY <1>1
    <2>2. /\ Minor3(v, w, x, q, t, j) \in Int /\ Minor3(v, w, x, p, t, j) \in Int
          /\ Minor3(v, w, x, p, q, j) \in Int /\ Minor3(v, w, x, p, q, t) \in Int
      BY <1>3
    <2> QED
      BY <2>1, <2>2 DEF Minor4
  <1> QED
    BY <1>2, <1>3, <1>4

\* What a step of the elimination computes after one pivot: a minor times the last
\* pivot, in the row of that pivot and in the others.
ExactOne(u, v, w, p, q, j) ==
    /\ Minor2(u, v, p, q) * u[j] - u[q] * Minor2(u, v, p, j)
       = u[p] * Minor2(u, v, j, q)
    /\ Minor2(u, v, p, q) * Minor2(u, w, p, j) - Minor2(u, w, p, q) * Minor2(u, v, p, j)
       = u[p] * Minor3(u, v, w, p, q, j)

\* It holds for all rows of integers.
LEMMA CrossOne ==
    ASSUME NEW u \in Row, NEW v \in Row, NEW w \in Row,
           NEW p \in 1..5, NEW q \in 1..5, NEW j \in 1..5
    PROVE  ExactOne(u, v, w, p, q, j)
  <1> DEFINE up == u[p] uq == u[q] uj == u[j]
             vp == v[p] vq == v[q] vj == v[j]
             wp == w[p] wq == w[q] wj == w[j]
             m2(a, b, c, d) == a * d - b * c
             m3(a, b, c, d, e, f, g, h, k) ==
                 a * m2(e, f, h, k) - b * m2(d, f, g, k) + c * m2(d, e, g, h)
  <1>1. /\ up \in Int /\ uq \in Int /\ uj \in Int
        /\ vp \in Int /\ vq \in Int /\ vj \in Int
        /\ wp \in Int /\ wq \in Int /\ wj \in Int
    BY DEF Row
  <1> HIDE DEF up, uq, uj, vp, vq, vj, wp, wq, wj
  <1>2. m2(up, uq, vp, vq) * uj - uq * m2(up, uj, vp, vj) = up * m2(uj, uq, vj, vq)
    BY <1>1
  <1>3. m2(up, uq, vp, vq) * m2(up, uj, wp, wj) - m2(up, uq, wp, wq) * m2(up, uj, vp, vj)
          = up * m3(up, uq, uj, vp, vq, vj, wp, wq, wj)
    BY <1>1
  <1> QED
    BY <1>2, <1>3 DEF ExactOne, Minor2, Minor3,
           up, uq, uj, vp, vq, vj, wp, wq, wj

\* The same after two pivots.
ExactTwo(u, v, w, x, p, q, t, j) ==
    /\ Minor3(u, v, w, p, q, t) * Minor2(u, v, j, q)
       - Minor2(u, v, t, q) * Minor3(u, v, w, p, q, j)
       = Minor2(u, v, p, q) * Minor3(u, v, w, j, q, t)
    /\ Minor3(u, v, w, p, q, t) * Minor2(u, v, p, j)
       - Minor2(u, v, p, t) * Minor3(u, v, w, p, q, j)
       = Minor2(u, v, p, q) * Minor3(u, v, w, p, j, t)
    /\ Minor3(u, v, w, p, q, t) * Minor3(u, v, x, p, q, j)
       - Minor3(u, v, x, p, q, t) * Minor3(u, v, w, p, q, j)
       = Minor2(u, v, p, q) * Minor4(u, v, w, x, p, q, t, j)

\* It holds for all rows of integers.
LEMMA CrossTwo ==
    ASSUME NEW u \in Row, NEW v \in Row, NEW w \in Row, NEW x \in Row,
           NEW p \in 1..5, NEW q \in 1..5, NEW t \in 1..5, NEW j \in 1..5
    PROVE  ExactTwo(u, v, w, x, p, q, t, j)
  <1> DEFINE up == u[p] uq == u[q] ut == u[t] uj == u[j]
             vp == v[p] vq == v[q] vt == v[t] vj == v[j]
             wp == w[p] wq == w[q] wt == w[t] wj == w[j]
             xp == x[p] xq == x[q] xt == x[t] xj == x[j]
             m2(a, b, c, d) == a * d - b * c
             m3(a, b, c, d, e, f, g, h, k) ==
                 a * m2(e, f, h, k) - b * m2(d, f, g, k) + c * m2(d, e, g, h)
             m4(a, b, c, d, e, f, g, h, k, l, m, n, a1, b1, c1, d1) ==
                 a * m3(f, g, h, l, m, n, b1, c1, d1) - b * m3(e, g, h, k, m, n, a1, c1, d1)
                 + c * m3(e, f, h, k, l, n, a1, b1, d1) - d * m3(e, f, g, k, l, m, a1, b1, c1)
  <1>1. /\ up \in Int /\ uq \in Int /\ ut \in Int /\ uj \in Int
        /\ vp \in Int /\ vq \in Int /\ vt \in Int /\ vj \in Int
        /\ wp \in Int /\ wq \in Int /\ wt \in Int /\ wj \in Int
        /\ xp \in Int /\ xq \in Int /\ xt \in Int /\ xj \in Int
    BY DEF Row
  <1> HIDE DEF up, uq, ut, uj, vp, vq, vt, vj, wp, wq, wt, wj, xp, xq, xt, xj
  <1>2. m3(up, uq, ut, vp, vq, vt, wp, wq, wt) * m2(uj, uq, vj, vq)
          - m2(ut, uq, vt, vq) * m3(up, uq, uj, vp, vq, vj, wp, wq, wj)
          = m2(up, uq, vp, vq) * m3(uj, uq, ut, vj, vq, vt, wj, wq, wt)
    BY <1>1
  <1>3. m3(up, uq, ut, vp, vq, vt, wp, wq, wt) * m2(up, uj, vp, vj)
          - m2(up, ut, vp, vt) * m3(up, uq, uj, vp, vq, vj, wp, wq, wj)
          = m2(up, uq, vp, vq) * m3(up, uj, ut, vp, vj, vt, wp, wj, wt)
    BY <1>1
  <1>4. m3(up, uq, ut, vp, vq, vt, wp, wq, wt) * m3(up, uq, uj, vp, vq, vj, xp, xq, xj)
          - m3(up, uq, ut, vp, vq, vt, xp, xq, xt) * m3(up, uq, uj, vp, vq, vj, wp, wq, wj)
          = m2(up, uq, vp, vq)
            * m4(up, uq, ut, uj, vp, vq, vt, vj, wp, wq, wt, wj, xp, xq, xt, xj)
    BY <1>1
  <1> QED
    BY <1>2, <1>3, <1>4 DEF ExactTwo, Minor2, Minor3, Minor4,
           up, uq, ut, uj, vp, vq, vt, vj, wp, wq, wt, wj, xp, xq, xt, xj

\* The same after three pivots, in the rows of these.
ExactThree(u, v, w, x, p, q, r, t, j) ==
    /\ Minor4(u, v, w, x, p, q, r, t) * Minor3(u, v, w, j, q, r)
       - Minor3(u, v, w, t, q, r) * Minor4(u, v, w, x, p, q, r, j)
       = Minor3(u, v, w, p, q, r) * Minor4(u, v, w, x, j, q, r, t)
    /\ Minor4(u, v, w, x, p, q, r, t) * Minor3(u, v, w, p, j, r)
       - Minor3(u, v, w, p, t, r) * Minor4(u, v, w, x, p, q, r, j)
       = Minor3(u, v, w, p, q, r) * Minor4(u, v, w, x, p, j, r, t)
    /\ Minor4(u, v, w, x, p, q, r, t) * Minor3(u, v, w, p, q, j)
       - Minor3(u, v, w, p, q, t) * Minor4(u, v, w, x, p, q, r, j)
       = Minor3(u, v, w, p, q, r) * Minor4(u, v, w, x, p, q, j, t)

\* It holds for all rows of integers.
LEMMA CrossThree ==
    ASSUME NEW u \in Row, NEW v \in Row, NEW w \in Row, NEW x \in Row,
           NEW p \in 1..5, NEW q \in 1..5, NEW r \in 1..5, NEW t \in 1..5, NEW j \in 1..5
    PROVE  ExactThree(u, v, w, x, p, q, r, t, j)
  <1> DEFINE up == u[p] uq == u[q] ur == u[r] ut == u[t] uj == u[j]
             vp == v[p] vq == v[q] vr == v[r] vt == v[t] vj == v[j]
             wp == w[p] wq == w[q] wr == w[r] wt == w[t] wj == w[j]
             xp == x[p] xq == x[q] xr == x[r] xt == x[t] xj == x[j]
             m2(a, b, c, d) == a * d - b * c
             m3(a, b, c, d, e, f, g, h, k) ==
                 a * m2(e, f, h, k) - b * m2(d, f, g, k) + c * m2(d, e, g, h)
             m4(a, b, c, d, e, f, g, h, k, l, m, n, a1, b1, c1, d1) ==
                 a * m3(f, g, h, l, m, n, b1, c1, d1) - b * m3(e, g, h, k, m, n, a1, c1, d1)
                 + c * m3(e, f, h, k, l, n, a1, b1, d1) - d * m3(e, f, g, k, l, m, a1, b1, c1)
  <1>1. /\ up \in Int /\ uq \in Int /\ ur \in Int /\ ut \in Int /\ uj \in Int
        /\ vp \in Int /\ vq \in Int /\ vr \in Int /\ vt \in Int /\ vj \in Int
        /\ wp \in Int /\ wq \in Int /\ wr \in Int /\ wt \in Int /\ wj \in Int
        /\ xp \in Int /\ xq \in Int /\ xr \in Int /\ xt \in Int /\ xj \in Int
    BY DEF Row
  <1> HIDE DEF up, uq, ur, ut, uj, vp, vq, vr, vt, vj, wp, wq, wr, wt, wj, xp, xq, xr, xt,
               xj
  <1>2. m4(up, uq, ur, ut, vp, vq, vr, vt, wp, wq, wr, wt, xp, xq, xr, xt)
            * m3(uj, uq, ur, vj, vq, vr, wj, wq, wr)
          - m3(ut, uq, ur, vt, vq, vr, wt, wq, wr)
            * m4(up, uq, ur, uj, vp, vq, vr, vj, wp, wq, wr, wj, xp, xq, xr, xj)
          = m3(up, uq, ur, vp, vq, vr, wp, wq, wr)
            * m4(uj, uq, ur, ut, vj, vq, vr, vt, wj, wq, wr, wt, xj, xq, xr, xt)
    BY <1>1
  <1>3. m4(up, uq, ur, ut, vp, vq, vr, vt, wp, wq, wr, wt, xp, xq, xr, xt)
            * m3(up, uj, ur, vp, vj, vr, wp, wj, wr)
          - m3(up, ut, ur, vp, vt, vr, wp, wt, wr)
            * m4(up, uq, ur, uj, vp, vq, vr, vj, wp, wq, wr, wj, xp, xq, xr, xj)
          = m3(up, uq, ur, vp, vq, vr, wp, wq, wr)
            * m4(up, uj, ur, ut, vp, vj, vr, vt, wp, wj, wr, wt, xp, xj, xr, xt)
    BY <1>1
  <1>4. m4(up, uq, ur, ut, vp, vq, vr, vt, wp, wq, wr, wt, xp, xq, xr, xt)
            * m3(up, uq, uj, vp, vq, vj, wp, wq, wj)
          - m3(up, uq, ut, vp, vq, vt, wp, wq, wt)
            * m4(up, uq, ur, uj, vp, vq, vr, vj, wp, wq, wr, wj, xp, xq, xr, xj)
          = m3(up, uq, ur, vp, vq, vr, wp, wq, wr)
            * m4(up, uq, uj, ut, vp, vq, vj, vt, wp, wq, wj, wt, xp, xq, xj, xt)
    BY <1>1
  <1> QED
    BY <1>2, <1>3, <1>4 DEF ExactThree, Minor2, Minor3, Minor4,
           up, uq, ur, ut, uj, vp, vq, vr, vt, vj, wp, wq, wr, wt, wj, xp, xq, xr, xt, xj

\* The row of the pivot, turned positive, changes places with row c.
Turn(rows, c, q, e) ==
    [r \in 1..4 |-> IF r = c THEN [j \in 1..5 |-> e * rows[q][j]]
                    ELSE IF r = q THEN rows[c] ELSE rows[r]]

Signs == {1, -1}

\* t has the rows after a turn.
IsTurn(t, rows, c, q, e) ==
    /\ t \in Rows
    /\ \A j \in 1..5 : t[c][j] = e * rows[q][j]
    /\ q # c => t[q] = rows[c]
    /\ \A r \in 1..4 : r \notin {c, q} => t[r] = rows[r]

\* A turn leaves rows of integers.
LEMMA TurnFacts ==
    ASSUME NEW rows \in Rows, NEW c \in 1..4, NEW q \in 1..4, NEW e \in Signs
    PROVE  IsTurn(Turn(rows, c, q, e), rows, c, q, e)
  <1> DEFINE first == [j \in 1..5 |-> e * rows[q][j]]
  <1>1. \A j \in 1..5 : rows[q][j] \in Int
    BY DEF Rows
  <1>2. first \in [1..5 -> Int] /\ \A j \in 1..5 : first[j] = e * rows[q][j]
    <2>1. \A j \in 1..5 : e * rows[q][j] \in Int
      BY <1>1 DEF Signs
    <2> QED
      BY <2>1
  <1>3. Turn(rows, c, q, e)
            = [r \in 1..4 |-> IF r = c THEN first ELSE IF r = q THEN rows[c] ELSE rows[r]]
    BY DEF Turn
  <1> HIDE DEF first
  <1> QED
    BY <1>2, <1>3 DEF IsTurn, Rows

\* s is t after the column c has been reduced with the pivot t[c][c], by quotients.
Divided(s, t, scale, c) ==
    /\ s.scale = t[c][c] /\ s.rows[c] = t[c]
    /\ \A r \in (1..4) \ {c}, j \in 1..5 :
         s.rows[r][j] = (t[c][c] * t[r][j] - t[r][c] * t[c][j]) \div scale

\* The same, when scale divides what it has to.
Reduced(s, t, scale, c) ==
    /\ s.scale = t[c][c] /\ s.rows[c] = t[c]
    /\ \A r \in (1..4) \ {c}, j \in 1..5 :
         scale * s.rows[r][j] = t[c][c] * t[r][j] - t[r][c] * t[c][j]

\* A step of the elimination turns the rows and, unless there is no pivot, reduces.
LEMMA EliminateTurns ==
    ASSUME NEW s \in Tableau, NEW c \in 1..4
    PROVE  \E e \in Signs :
               LET q == PivotRow(s.rows, c)
                   t == Turn(s.rows, c, q, e)
               IN /\ q \in c..4 /\ q \in 1..4 /\ t \in Rows /\ t[c][c] \in Nat
                  /\ t[c][c] = 0 => Eliminate(s, c) = s
                  /\ t[c][c] # 0 => Divided(Eliminate(s, c), t, s.scale, c)
  <1> DEFINE q == PivotRow(s.rows, c)
             rows == Swapped(s.rows, c, q)
             pivot == Positive(rows[c], c)
             reduced(row) == [j \in 1..5 |->
                 (pivot[c] * row[j] - row[c] * pivot[j]) \div s.scale]
             e == IF s.rows[q][c] < 0 THEN -1 ELSE 1
             t == Turn(s.rows, c, q, e)
  <1>1. s.rows \in Rows /\ s.scale \in Nat \ {0}
    BY DEF Tableau
  <1>2. q \in c..4 /\ q \in 1..4
    BY <1>1, PivotLeft
  <1>3. e \in Signs
    BY DEF Signs
  <1>4. Eliminate(s, c) =
            IF pivot[c] = 0 THEN s
            ELSE [rows |-> [r \in 1..4 |-> IF r = c THEN pivot ELSE reduced(rows[r])],
                  scale |-> pivot[c]]
    BY DEF Eliminate, pivot, rows, q
  <1> HIDE DEF q
  <1>5. /\ rows[c] = s.rows[q] /\ (q # c => rows[q] = s.rows[c])
        /\ \A r \in 1..4 : r \notin {c, q} => rows[r] = s.rows[r]
    BY <1>1, <1>2 DEF Swapped, Rows
  <1>6. s.rows[q] \in [1..5 -> Int] /\ c \in 1..5
    BY <1>1, <1>2 DEF Rows
  <1> HIDE DEF rows
  <1>7. pivot = [j \in 1..5 |-> e * s.rows[q][j]]
    <2>1. CASE s.rows[q][c] < 0
      <3>1. pivot = [j \in 1..5 |-> -s.rows[q][j]]
        BY <1>5, <2>1 DEF Positive
      <3>2. \A j \in 1..5 : -s.rows[q][j] = (-1) * s.rows[q][j]
        BY <1>6
      <3> QED
        BY <2>1, <3>1, <3>2
    <2>2. CASE ~(s.rows[q][c] < 0)
      <3>1. pivot = s.rows[q]
        BY <1>5, <2>2 DEF Positive
      <3>2. \A j \in 1..5 : s.rows[q][j] = 1 * s.rows[q][j]
        BY <1>6
      <3> QED
        BY <1>6, <2>2, <3>1, <3>2
    <2> QED
      BY <2>1, <2>2
  <1>8. pivot[c] \in Nat
    <2>1. s.rows[q][c] \in Int
      BY <1>6
    <2> QED
      BY <1>6, <1>7, <2>1
  <1>9. t[c] = pivot /\ \A r \in (1..4) \ {c} : t[r] = rows[r]
    BY <1>2, <1>5, <1>7 DEF Turn
  <1>10. t \in Rows
    BY <1>1, <1>2, <1>3, TurnFacts DEF IsTurn
  <1> HIDE DEF pivot, e, t
  <1>11. pivot[c] # 0 => Divided(Eliminate(s, c), t, s.scale, c)
    <2> SUFFICES ASSUME pivot[c] # 0 PROVE Divided(Eliminate(s, c), t, s.scale, c)
      OBVIOUS
    <2> DEFINE left == [r \in 1..4 |-> IF r = c THEN pivot ELSE reduced(rows[r])]
    <2>1. Eliminate(s, c).rows = left /\ Eliminate(s, c).scale = pivot[c]
      BY <1>4
    <2>2. left[c] = pivot
      OBVIOUS
    <2>3. ASSUME NEW r \in (1..4) \ {c}, NEW j \in 1..5
          PROVE  left[r][j] = (pivot[c] * t[r][j] - t[r][c] * pivot[j]) \div s.scale
      BY <1>9
    <2> HIDE DEF left
    <2> QED
      BY <1>9, <2>1, <2>2, <2>3 DEF Divided
  <1>12. /\ q \in c..4 /\ q \in 1..4 /\ t \in Rows /\ t[c][c] \in Nat
         /\ t[c][c] = 0 => Eliminate(s, c) = s
         /\ t[c][c] # 0 => Divided(Eliminate(s, c), t, s.scale, c)
    BY <1>2, <1>4, <1>8, <1>9, <1>10, <1>11
  <1> QED
    BY <1>3, <1>12 DEF q, t

\* A product is divided by its factor without a remainder.
LEMMA ExactQuotient ==
    ASSUME NEW d \in Nat \ {0}, NEW y \in Int
    PROVE  (d * y) \div d = y
  OBVIOUS

\* The rows as minors of the rows m they come from, after one, two and three pivots:
\* each row with a pivot has a minor in which the column of its pivot is replaced.
FormOne(rows, scale, m, a) ==
    /\ scale = m[a][a] /\ rows[a] = m[a]
    /\ \A r \in (1..4) \ {a}, j \in 1..5 : rows[r][j] = Minor2(m[a], m[r], a, j)

FormTwo(rows, scale, m, a, b) ==
    /\ scale = Minor2(m[a], m[b], a, b)
    /\ \A j \in 1..5 : /\ rows[a][j] = Minor2(m[a], m[b], j, b)
                       /\ rows[b][j] = Minor2(m[a], m[b], a, j)
    /\ \A r \in (1..4) \ {a, b}, j \in 1..5 :
         rows[r][j] = Minor3(m[a], m[b], m[r], a, b, j)

FormThree(rows, scale, m, a, b, c) ==
    /\ scale = Minor3(m[a], m[b], m[c], a, b, c)
    /\ \A j \in 1..5 : /\ rows[a][j] = Minor3(m[a], m[b], m[c], j, b, c)
                       /\ rows[b][j] = Minor3(m[a], m[b], m[c], a, j, c)
                       /\ rows[c][j] = Minor3(m[a], m[b], m[c], a, b, j)
    /\ \A r \in (1..4) \ {a, b, c}, j \in 1..5 :
         rows[r][j] = Minor4(m[a], m[b], m[c], m[r], a, b, c, j)

\* y has the quotients of what a step divides.
Multiples(y, t, scale, c) ==
    /\ y \in Rows
    /\ \A r \in (1..4) \ {c}, j \in 1..5 :
         t[c][c] * t[r][j] - t[r][c] * t[c][j] = scale * y[r][j]

\* The rows other than c.
SameBut(rows, y, c) == \A r \in (1..4) \ {c}, j \in 1..5 : rows[r][j] = y[r][j]

\* If what is divided is a multiple of the scale, the step is exact.
LEMMA DividedReduces ==
    ASSUME NEW s, NEW t \in Rows, NEW scale \in Nat \ {0}, NEW c \in 1..4, NEW y,
           Divided(s, t, scale, c), Multiples(y, t, scale, c)
    PROVE  Reduced(s, t, scale, c) /\ SameBut(s.rows, y, c)
  <1>1. ASSUME NEW r \in (1..4) \ {c}, NEW j \in 1..5
        PROVE  s.rows[r][j] = y[r][j]
    <2>1. s.rows[r][j] = (t[c][c] * t[r][j] - t[r][c] * t[c][j]) \div scale
      BY DEF Divided
    <2>2. t[c][c] * t[r][j] - t[r][c] * t[c][j] = scale * y[r][j]
      BY DEF Multiples
    <2>3. y[r][j] \in Int
      BY DEF Multiples, Rows
    <2>4. (scale * y[r][j]) \div scale = y[r][j]
      BY <2>3, ExactQuotient
    <2> QED
      BY <2>1, <2>2, <2>4
  <1>2. ASSUME NEW r \in (1..4) \ {c}, NEW j \in 1..5
        PROVE  scale * s.rows[r][j] = t[c][c] * t[r][j] - t[r][c] * t[c][j]
    BY <1>1 DEF Multiples
  <1> QED
    BY <1>1, <1>2 DEF Reduced, Divided, SameBut

\* The rows are rows.
LEMMA RowTypes ==
    ASSUME NEW m \in Rows
    PROVE  /\ \A r \in 1..4 : m[r] \in Row
           /\ \A r \in 1..4, j \in 1..5 : m[r][j] \in Int
  BY DEF Rows, Row

\* The first pivot divides by 1.
LEMMA AdvanceNone ==
    ASSUME NEW s, NEW t \in Rows, NEW c \in 1..4, Divided(s, t, 1, c)
    PROVE  Reduced(s, t, 1, c) /\ FormOne(s.rows, s.scale, t, c)
  <1> DEFINE y == [r \in 1..4 |-> [j \in 1..5 |-> Minor2(t[c], t[r], c, j)]]
  <1>1. \A r \in 1..4, j \in 1..5 : Minor2(t[c], t[r], c, j) \in Int
    BY RowTypes, MinorTypes, c \in 1..5
  <1>2. y \in Rows /\ \A r \in 1..4, j \in 1..5 : y[r][j] = Minor2(t[c], t[r], c, j)
    BY <1>1 DEF Rows
  <1> HIDE DEF y
  <1>3. ASSUME NEW r \in (1..4) \ {c}, NEW j \in 1..5
        PROVE  t[c][c] * t[r][j] - t[r][c] * t[c][j] = 1 * y[r][j]
    <2>1. /\ t[c][c] \in Int /\ t[r][j] \in Int /\ t[r][c] \in Int /\ t[c][j] \in Int
      BY RowTypes, c \in 1..5
    <2>2. y[r][j] = t[c][c] * t[r][j] - t[c][j] * t[r][c]
      BY <1>2 DEF Minor2
    <2> QED
      BY <2>1, <2>2
  <1>4. /\ Reduced(s, t, 1, c)
        /\ \A r \in (1..4) \ {c}, j \in 1..5 : s.rows[r][j] = y[r][j]
    <2>1. Multiples(y, t, 1, c)
      BY <1>2, <1>3 DEF Multiples
    <2>2. Reduced(s, t, 1, c) /\ SameBut(s.rows, y, c)
      BY <2>1, DividedReduces, 1 \in Nat \ {0}
    <2> QED
      BY <2>2 DEF SameBut
  <1> QED
    BY <1>2, <1>4 DEF FormOne, Reduced

\* The second pivot divides by the first.
LEMMA AdvanceOne ==
    ASSUME NEW s, NEW m \in Rows, NEW t \in Rows, NEW scale \in Nat \ {0},
           NEW a \in 1..4, NEW c \in 1..4, a # c,
           FormOne(t, scale, m, a), Divided(s, t, scale, c)
    PROVE  Reduced(s, t, scale, c) /\ FormTwo(s.rows, s.scale, m, a, c)
  <1> DEFINE u == m[a]
             v == m[c]
             y == [r \in 1..4 |-> [j \in 1..5 |->
                 IF r = a THEN Minor2(u, v, j, c) ELSE Minor3(u, v, m[r], a, c, j)]]
  <1>1. u \in Row /\ v \in Row /\ a \in 1..5 /\ c \in 1..5
    BY RowTypes
  <1>2. \A r \in 1..4 : m[r] \in Row
    BY RowTypes
  <1>3. /\ scale = u[a] /\ t[a] = u
        /\ \A r \in (1..4) \ {a}, j \in 1..5 : t[r][j] = Minor2(u, m[r], a, j)
    BY DEF FormOne
  <1> HIDE DEF u
  <1>4. y \in Rows
    <2>1. ASSUME NEW r \in 1..4, NEW j \in 1..5
          PROVE  Minor2(u, v, j, c) \in Int /\ Minor3(u, v, m[r], a, c, j) \in Int
      BY <1>1, <1>2, MinorTypes
    <2> QED
      BY <2>1 DEF Rows
  <1>5. \A j \in 1..5 : y[a][j] = Minor2(u, v, j, c)
    OBVIOUS
  <1>6. \A r \in (1..4) \ {a}, j \in 1..5 : y[r][j] = Minor3(u, v, m[r], a, c, j)
    OBVIOUS
  <1>7. \A j \in 1..5 : t[c][j] = Minor2(u, v, a, j)
    BY <1>3
  <1> HIDE DEF y, v
  <1>8. ASSUME NEW r \in (1..4) \ {c}, NEW j \in 1..5
        PROVE  t[c][c] * t[r][j] - t[r][c] * t[c][j] = scale * y[r][j]
    <2>1. CASE r = a
      <3>1. Minor2(u, v, a, c) * u[j] - u[c] * Minor2(u, v, a, j) = u[a] * Minor2(u, v, j, c)
        <4>1. ExactOne(u, v, v, a, c, j)
          BY <1>1, CrossOne
        <4> QED
          BY <4>1 DEF ExactOne
      <3> QED
        BY <1>1, <1>3, <1>5, <1>7, <2>1, <3>1
    <2>2. CASE r # a
      <3>1. t[r][j] = Minor2(u, m[r], a, j) /\ t[r][c] = Minor2(u, m[r], a, c)
        BY <1>1, <1>3, <2>2
      <3>2. Minor2(u, v, a, c) * Minor2(u, m[r], a, j)
                - Minor2(u, m[r], a, c) * Minor2(u, v, a, j)
                = u[a] * Minor3(u, v, m[r], a, c, j)
        <4>1. ExactOne(u, v, m[r], a, c, j)
          BY <1>1, <1>2, CrossOne
        <4> QED
          BY <4>1 DEF ExactOne
      <3> QED
        BY <1>1, <1>3, <1>6, <1>7, <2>2, <3>1, <3>2
    <2> QED
      BY <2>1, <2>2
  <1>9. /\ Reduced(s, t, scale, c)
        /\ \A r \in (1..4) \ {c}, j \in 1..5 : s.rows[r][j] = y[r][j]
    <2>1. Multiples(y, t, scale, c)
      BY <1>4, <1>8 DEF Multiples
    <2>2. Reduced(s, t, scale, c) /\ SameBut(s.rows, y, c)
      BY <2>1, DividedReduces
    <2> QED
      BY <2>2 DEF SameBut
  <1>10. s.scale = t[c][c] /\ s.rows[c] = t[c]
    BY <1>9 DEF Reduced
  <1> QED
    BY <1>1, <1>5, <1>6, <1>7, <1>9, <1>10 DEF FormTwo, u, v

\* The third pivot divides by the second.
LEMMA AdvanceTwo ==
    ASSUME NEW s, NEW m \in Rows, NEW t \in Rows, NEW scale \in Nat \ {0},
           NEW a \in 1..4, NEW b \in 1..4, NEW c \in 1..4, a # b, c \notin {a, b},
           FormTwo(t, scale, m, a, b), Divided(s, t, scale, c)
    PROVE  Reduced(s, t, scale, c) /\ FormThree(s.rows, s.scale, m, a, b, c)
  <1> DEFINE u == m[a]
             v == m[b]
             w == m[c]
             y == [r \in 1..4 |-> [j \in 1..5 |->
                 IF r = a THEN Minor3(u, v, w, j, b, c)
                 ELSE IF r = b THEN Minor3(u, v, w, a, j, c)
                 ELSE Minor4(u, v, w, m[r], a, b, c, j)]]
  <1>1. u \in Row /\ v \in Row /\ w \in Row /\ a \in 1..5 /\ b \in 1..5 /\ c \in 1..5
    BY RowTypes
  <1>2. \A r \in 1..4 : m[r] \in Row
    BY RowTypes
  <1>3. /\ scale = Minor2(u, v, a, b)
        /\ \A j \in 1..5 : /\ t[a][j] = Minor2(u, v, j, b)
                           /\ t[b][j] = Minor2(u, v, a, j)
        /\ \A r \in (1..4) \ {a, b}, j \in 1..5 : t[r][j] = Minor3(u, v, m[r], a, b, j)
    BY DEF FormTwo
  <1>4. y \in Rows
    <2>1. ASSUME NEW r \in 1..4, NEW j \in 1..5
          PROVE  /\ Minor3(u, v, w, j, b, c) \in Int /\ Minor3(u, v, w, a, j, c) \in Int
                 /\ Minor4(u, v, w, m[r], a, b, c, j) \in Int
      BY <1>1, <1>2, MinorTypes
    <2> QED
      BY <2>1 DEF Rows
  <1>5. \A j \in 1..5 : /\ y[a][j] = Minor3(u, v, w, j, b, c)
                        /\ y[b][j] = Minor3(u, v, w, a, j, c)
    OBVIOUS
  <1>6. \A r \in (1..4) \ {a, b}, j \in 1..5 :
            y[r][j] = Minor4(u, v, w, m[r], a, b, c, j)
    OBVIOUS
  <1>7. \A j \in 1..5 : t[c][j] = Minor3(u, v, w, a, b, j)
    BY <1>3
  <1> HIDE DEF y, u, v, w
  <1>8. ASSUME NEW r \in (1..4) \ {c}, NEW j \in 1..5
        PROVE  t[c][c] * t[r][j] - t[r][c] * t[c][j] = scale * y[r][j]
    <2>1. CASE r = a
      <3>1. Minor3(u, v, w, a, b, c) * Minor2(u, v, j, b)
                - Minor2(u, v, c, b) * Minor3(u, v, w, a, b, j)
                = Minor2(u, v, a, b) * Minor3(u, v, w, j, b, c)
        <4>1. ExactTwo(u, v, w, w, a, b, c, j)
          BY <1>1, CrossTwo
        <4> QED
          BY <4>1 DEF ExactTwo
      <3> QED
        BY <1>1, <1>3, <1>5, <1>7, <2>1, <3>1
    <2>2. CASE r = b
      <3>1. Minor3(u, v, w, a, b, c) * Minor2(u, v, a, j)
                - Minor2(u, v, a, c) * Minor3(u, v, w, a, b, j)
                = Minor2(u, v, a, b) * Minor3(u, v, w, a, j, c)
        <4>1. ExactTwo(u, v, w, w, a, b, c, j)
          BY <1>1, CrossTwo
        <4> QED
          BY <4>1 DEF ExactTwo
      <3> QED
        BY <1>1, <1>3, <1>5, <1>7, <2>2, <3>1
    <2>3. CASE r \notin {a, b}
      <3>1. t[r][j] = Minor3(u, v, m[r], a, b, j) /\ t[r][c] = Minor3(u, v, m[r], a, b, c)
        BY <1>1, <1>3, <2>3
      <3>2. Minor3(u, v, w, a, b, c) * Minor3(u, v, m[r], a, b, j)
                - Minor3(u, v, m[r], a, b, c) * Minor3(u, v, w, a, b, j)
                = Minor2(u, v, a, b) * Minor4(u, v, w, m[r], a, b, c, j)
        <4>1. ExactTwo(u, v, w, m[r], a, b, c, j)
          BY <1>1, <1>2, CrossTwo
        <4> QED
          BY <4>1 DEF ExactTwo
      <3> QED
        BY <1>1, <1>3, <1>6, <1>7, <2>3, <3>1, <3>2
    <2> QED
      BY <2>1, <2>2, <2>3
  <1>9. /\ Reduced(s, t, scale, c)
        /\ \A r \in (1..4) \ {c}, j \in 1..5 : s.rows[r][j] = y[r][j]
    <2>1. Multiples(y, t, scale, c)
      BY <1>4, <1>8 DEF Multiples
    <2>2. Reduced(s, t, scale, c) /\ SameBut(s.rows, y, c)
      BY <2>1, DividedReduces
    <2> QED
      BY <2>2 DEF SameBut
  <1>10. s.scale = t[c][c] /\ s.rows[c] = t[c]
    BY <1>9 DEF Reduced
  <1> QED
    BY <1>1, <1>5, <1>6, <1>7, <1>9, <1>10 DEF FormThree, u, v, w

\* The fourth pivot divides by the third.
LEMMA AdvanceThree ==
    ASSUME NEW s, NEW m \in Rows, NEW t \in Rows, NEW scale \in Nat \ {0},
           NEW a \in 1..4, NEW b \in 1..4, NEW c \in 1..4, NEW d \in 1..4,
           {a, b, c, d} = 1..4, d \notin {a, b, c},
           FormThree(t, scale, m, a, b, c), Divided(s, t, scale, d)
    PROVE  Reduced(s, t, scale, d)
  <1> DEFINE u == m[a]
             v == m[b]
             w == m[c]
             x == m[d]
             y == [r \in 1..4 |-> [j \in 1..5 |->
                 IF r = a THEN Minor4(u, v, w, x, j, b, c, d)
                 ELSE IF r = b THEN Minor4(u, v, w, x, a, j, c, d)
                 ELSE Minor4(u, v, w, x, a, b, j, d)]]
  <1>0. (1..4) \ {d} = {a, b, c} /\ a # b /\ a # c /\ b # c
    OBVIOUS
  <1>1. /\ u \in Row /\ v \in Row /\ w \in Row /\ x \in Row
        /\ a \in 1..5 /\ b \in 1..5 /\ c \in 1..5 /\ d \in 1..5
    BY RowTypes
  <1>3. /\ scale = Minor3(u, v, w, a, b, c)
        /\ \A j \in 1..5 : /\ t[a][j] = Minor3(u, v, w, j, b, c)
                           /\ t[b][j] = Minor3(u, v, w, a, j, c)
                           /\ t[c][j] = Minor3(u, v, w, a, b, j)
        /\ \A j \in 1..5 : t[d][j] = Minor4(u, v, w, x, a, b, c, j)
    BY DEF FormThree
  <1>4. y \in Rows
    <2>1. ASSUME NEW j \in 1..5
          PROVE  /\ Minor4(u, v, w, x, j, b, c, d) \in Int
                 /\ Minor4(u, v, w, x, a, j, c, d) \in Int
                 /\ Minor4(u, v, w, x, a, b, j, d) \in Int
      BY <1>1, MinorTypes
    <2> QED
      BY <2>1 DEF Rows
  <1>5. \A j \in 1..5 : /\ y[a][j] = Minor4(u, v, w, x, j, b, c, d)
                        /\ y[b][j] = Minor4(u, v, w, x, a, j, c, d)
                        /\ y[c][j] = Minor4(u, v, w, x, a, b, j, d)
    BY <1>0
  <1> HIDE DEF y, u, v, w, x
  <1>8. ASSUME NEW r \in (1..4) \ {d}, NEW j \in 1..5
        PROVE  t[d][d] * t[r][j] - t[r][d] * t[d][j] = scale * y[r][j]
    <2>1. CASE r = a
      <3>1. Minor4(u, v, w, x, a, b, c, d) * Minor3(u, v, w, j, b, c)
                - Minor3(u, v, w, d, b, c) * Minor4(u, v, w, x, a, b, c, j)
                = Minor3(u, v, w, a, b, c) * Minor4(u, v, w, x, j, b, c, d)
        <4>1. ExactThree(u, v, w, x, a, b, c, d, j)
          BY <1>1, CrossThree
        <4> QED
          BY <4>1 DEF ExactThree
      <3> QED
        BY <1>1, <1>3, <1>5, <2>1, <3>1
    <2>2. CASE r = b
      <3>1. Minor4(u, v, w, x, a, b, c, d) * Minor3(u, v, w, a, j, c)
                - Minor3(u, v, w, a, d, c) * Minor4(u, v, w, x, a, b, c, j)
                = Minor3(u, v, w, a, b, c) * Minor4(u, v, w, x, a, j, c, d)
        <4>1. ExactThree(u, v, w, x, a, b, c, d, j)
          BY <1>1, CrossThree
        <4> QED
          BY <4>1 DEF ExactThree
      <3> QED
        BY <1>1, <1>3, <1>5, <2>2, <3>1
    <2>3. CASE r = c
      <3>1. Minor4(u, v, w, x, a, b, c, d) * Minor3(u, v, w, a, b, j)
                - Minor3(u, v, w, a, b, d) * Minor4(u, v, w, x, a, b, c, j)
                = Minor3(u, v, w, a, b, c) * Minor4(u, v, w, x, a, b, j, d)
        <4>1. ExactThree(u, v, w, x, a, b, c, d, j)
          BY <1>1, CrossThree
        <4> QED
          BY <4>1 DEF ExactThree
      <3> QED
        BY <1>1, <1>3, <1>5, <2>3, <3>1
    <2> QED
      BY <1>0, <2>1, <2>2, <2>3
  <1>9. Multiples(y, t, scale, d)
    BY <1>4, <1>8 DEF Multiples
  <1> QED
    BY <1>9, DividedReduces

\* y is z times x.
Times(y, x, z) == \A k \in 1..5 : y[k] = z * x[k]

\* The same for two numbers.
IsTimes(k, n, z) == k = z * n

\* A factor of the last row is one of the minor: of two, three and four rows.
LEMMA TwoTimes ==
    ASSUME NEW u \in Row, NEW x \in Row, NEW y,
           NEW z \in Int, Times(y, x, z),
           NEW p \in 1..5, NEW q \in 1..5
    PROVE  IsTimes(Minor2(u, y, p, q), Minor2(u, x, p, q), z)
  <1> DEFINE up == u[p] uq == u[q]
             xp == x[p] xq == x[q]
             m2(a, b, c, d) == a * d - b * c
  <1>1. /\ up \in Int /\ uq \in Int
        /\ xp \in Int /\ xq \in Int
    BY DEF Row
  <1>2. y[p] = z * xp /\ y[q] = z * xq
    BY DEF Times
  <1> HIDE DEF up, uq, xp, xq
  <1>3. m2(up, uq, z * xp, z * xq)
          = z * m2(up, uq, xp, xq)
    BY <1>1
  <1> QED
    BY <1>2, <1>3 DEF IsTimes, Minor2,
           up, uq, xp, xq

\* Of three rows.
LEMMA ThreeTimes ==
    ASSUME NEW u \in Row, NEW v \in Row, NEW x \in Row, NEW y,
           NEW z \in Int, Times(y, x, z),
           NEW p \in 1..5, NEW q \in 1..5, NEW t \in 1..5
    PROVE  IsTimes(Minor3(u, v, y, p, q, t), Minor3(u, v, x, p, q, t), z)
  <1> DEFINE up == u[p] uq == u[q] ut == u[t]
             vp == v[p] vq == v[q] vt == v[t]
             xp == x[p] xq == x[q] xt == x[t]
             m2(a, b, c, d) == a * d - b * c
             m3(a, b, c, d, e, f, g, h, k) ==
                 a * m2(e, f, h, k) - b * m2(d, f, g, k) + c * m2(d, e, g, h)
  <1>1. /\ up \in Int /\ uq \in Int /\ ut \in Int
        /\ vp \in Int /\ vq \in Int /\ vt \in Int
        /\ xp \in Int /\ xq \in Int /\ xt \in Int
    BY DEF Row
  <1>2. y[p] = z * xp /\ y[q] = z * xq /\ y[t] = z * xt
    BY DEF Times
  <1> HIDE DEF up, uq, ut, vp, vq, vt, xp, xq, xt
  <1>3. m3(up, uq, ut, vp, vq, vt, z * xp, z * xq, z * xt)
          = z * m3(up, uq, ut, vp, vq, vt, xp, xq, xt)
    BY <1>1
  <1> QED
    BY <1>2, <1>3 DEF IsTimes, Minor2, Minor3,
           up, uq, ut, vp, vq, vt, xp, xq, xt

\* Of four rows.
LEMMA FourTimes ==
    ASSUME NEW u \in Row, NEW v \in Row, NEW w \in Row, NEW x \in Row, NEW y,
           NEW z \in Int, Times(y, x, z),
           NEW p \in 1..5, NEW q \in 1..5, NEW t \in 1..5, NEW j \in 1..5
    PROVE  IsTimes(Minor4(u, v, w, y, p, q, t, j), Minor4(u, v, w, x, p, q, t, j), z)
  <1> DEFINE up == u[p] uq == u[q] ut == u[t] uj == u[j]
             vp == v[p] vq == v[q] vt == v[t] vj == v[j]
             wp == w[p] wq == w[q] wt == w[t] wj == w[j]
             xp == x[p] xq == x[q] xt == x[t] xj == x[j]
             m2(a, b, c, d) == a * d - b * c
             m3(a, b, c, d, e, f, g, h, k) ==
                 a * m2(e, f, h, k) - b * m2(d, f, g, k) + c * m2(d, e, g, h)
             m4(a, b, c, d, e, f, g, h, k, l, m, n, a1, b1, c1, d1) ==
                 a * m3(f, g, h, l, m, n, b1, c1, d1) - b * m3(e, g, h, k, m, n, a1, c1, d1)
                 + c * m3(e, f, h, k, l, n, a1, b1, d1) - d * m3(e, f, g, k, l, m, a1, b1, c1)
  <1>1. /\ up \in Int /\ uq \in Int /\ ut \in Int /\ uj \in Int
        /\ vp \in Int /\ vq \in Int /\ vt \in Int /\ vj \in Int
        /\ wp \in Int /\ wq \in Int /\ wt \in Int /\ wj \in Int
        /\ xp \in Int /\ xq \in Int /\ xt \in Int /\ xj \in Int
    BY DEF Row
  <1>2. y[p] = z * xp /\ y[q] = z * xq /\ y[t] = z * xt /\ y[j] = z * xj
    BY DEF Times
  <1> HIDE DEF up, uq, ut, uj, vp, vq, vt, vj, wp, wq, wt, wj, xp, xq, xt, xj
  <1>3. m4(up, uq, ut, uj, vp, vq, vt, vj, wp, wq, wt, wj, z * xp, z * xq, z * xt, z *
           xj)
          = z * m4(up, uq, ut, uj, vp, vq, vt, vj, wp, wq, wt, wj, xp, xq, xt, xj)
    BY <1>1
  <1> QED
    BY <1>2, <1>3 DEF IsTimes, Minor2, Minor3, Minor4,
           up, uq, ut, uj, vp, vq, vt, vj, wp, wq, wt, wj, xp, xq, xt, xj

\* A turn of rows without a pivot, after one pivot, after two and after three.
LEMMA TurnOne ==
    ASSUME NEW rows \in Rows, NEW scale, NEW m \in Rows, NEW c \in 1..4, NEW q \in 1..4,
           NEW e \in Signs, NEW a \in 1..4,
           c \notin {a}, q \notin {a}, FormOne(rows, scale, m, a)
    PROVE  FormOne(Turn(rows, c, q, e), scale, Turn(m, c, q, e), a)
  <1> DEFINE t == Turn(rows, c, q, e)
             n == Turn(m, c, q, e)
  <1>1. /\ t \in Rows /\ n \in Rows
        /\ Times(t[c], rows[q], e) /\ Times(n[c], m[q], e)
        /\ q # c => t[q] = rows[c] /\ n[q] = m[c]
        /\ \A r \in 1..4 : r \notin {c, q} => t[r] = rows[r] /\ n[r] = m[r]
    <2>1. IsTurn(t, rows, c, q, e) /\ IsTurn(n, m, c, q, e)
      BY TurnFacts
    <2> HIDE DEF t, n
    <2> QED
      BY <2>1 DEF IsTurn, Times
  <1> HIDE DEF t, n
  <1>2. /\ t[a] = rows[a] /\ n[a] = m[a]
    BY <1>1
  <1>3. e \in Int
    BY DEF Signs
  <1>4. ASSUME NEW r \in (1..4) \ {a}, NEW j \in 1..5
        PROVE  t[r][j] = Minor2(n[a], n[r], a, j)
    <2>1. \A k \in (1..4) \ {a} : rows[k][j] = Minor2(m[a], m[k], a, j)
      BY DEF FormOne
    <2>2. /\ \A k \in 1..4 : m[k] \in Row /\ n[k] \in Row
          /\ a \in 1..5
      BY <1>1, RowTypes
    <2>3. CASE r = c
      <3> DEFINE u == m[a]
                 x == m[q]
                 y == n[c]
      <3>0. /\ u \in Row /\ x \in Row /\ y \in Row
            /\ Times(y, x, e) /\ e \in Int
        BY <1>1, <1>3, <2>2
      <3> HIDE DEF u, x, y
      <3>1. IsTimes(Minor2(u, y, a, j), Minor2(u, x, a, j), e)
        BY <2>2, <3>0, TwoTimes
      <3>2. t[c][j] = e * rows[q][j]
        BY <1>1 DEF Times
      <3> QED
        BY <1>2, <2>1, <2>3, <3>1, <3>2 DEF IsTimes, u, x, y
    <2>4. CASE r # c /\ r = q
      BY <1>1, <1>2, <2>1, <2>4
    <2>5. CASE r \notin {c, q}
      BY <1>1, <1>2, <2>1, <2>5
    <2> QED
      BY <2>3, <2>4, <2>5
  <1> QED
    BY <1>2, <1>4 DEF FormOne, t, n

\* After two pivots.
LEMMA TurnTwo ==
    ASSUME NEW rows \in Rows, NEW scale, NEW m \in Rows, NEW c \in 1..4, NEW q \in 1..4,
           NEW e \in Signs, NEW a \in 1..4, NEW b \in 1..4,
           c \notin {a, b}, q \notin {a, b}, FormTwo(rows, scale, m, a, b)
    PROVE  FormTwo(Turn(rows, c, q, e), scale, Turn(m, c, q, e), a, b)
  <1> DEFINE t == Turn(rows, c, q, e)
             n == Turn(m, c, q, e)
  <1>1. /\ t \in Rows /\ n \in Rows
        /\ Times(t[c], rows[q], e) /\ Times(n[c], m[q], e)
        /\ q # c => t[q] = rows[c] /\ n[q] = m[c]
        /\ \A r \in 1..4 : r \notin {c, q} => t[r] = rows[r] /\ n[r] = m[r]
    <2>1. IsTurn(t, rows, c, q, e) /\ IsTurn(n, m, c, q, e)
      BY TurnFacts
    <2> HIDE DEF t, n
    <2> QED
      BY <2>1 DEF IsTurn, Times
  <1> HIDE DEF t, n
  <1>2. /\ t[a] = rows[a] /\ n[a] = m[a]
        /\ t[b] = rows[b] /\ n[b] = m[b]
    BY <1>1
  <1>3. e \in Int
    BY DEF Signs
  <1>4. ASSUME NEW r \in (1..4) \ {a, b}, NEW j \in 1..5
        PROVE  t[r][j] = Minor3(n[a], n[b], n[r], a, b, j)
    <2>1. \A k \in (1..4) \ {a, b} : rows[k][j] = Minor3(m[a], m[b], m[k], a, b, j)
      BY DEF FormTwo
    <2>2. /\ \A k \in 1..4 : m[k] \in Row /\ n[k] \in Row
          /\ a \in 1..5 /\ b \in 1..5
      BY <1>1, RowTypes
    <2>3. CASE r = c
      <3> DEFINE u == m[a]
                 v == m[b]
                 x == m[q]
                 y == n[c]
      <3>0. /\ u \in Row /\ v \in Row /\ x \in Row /\ y \in Row
            /\ Times(y, x, e) /\ e \in Int
        BY <1>1, <1>3, <2>2
      <3> HIDE DEF u, v, x, y
      <3>1. IsTimes(Minor3(u, v, y, a, b, j), Minor3(u, v, x, a, b, j), e)
        BY <2>2, <3>0, ThreeTimes
      <3>2. t[c][j] = e * rows[q][j]
        BY <1>1 DEF Times
      <3> QED
        BY <1>2, <2>1, <2>3, <3>1, <3>2 DEF IsTimes, u, v, x, y
    <2>4. CASE r # c /\ r = q
      BY <1>1, <1>2, <2>1, <2>4
    <2>5. CASE r \notin {c, q}
      BY <1>1, <1>2, <2>1, <2>5
    <2> QED
      BY <2>3, <2>4, <2>5
  <1> QED
    BY <1>2, <1>4 DEF FormTwo, t, n

\* After three pivots.
LEMMA TurnThree ==
    ASSUME NEW rows \in Rows, NEW scale, NEW m \in Rows, NEW c \in 1..4, NEW q \in 1..4,
           NEW e \in Signs, NEW a \in 1..4, NEW b \in 1..4, NEW d \in 1..4,
           c \notin {a, b, d}, q \notin {a, b, d}, FormThree(rows, scale, m, a, b, d)
    PROVE  FormThree(Turn(rows, c, q, e), scale, Turn(m, c, q, e), a, b, d)
  <1> DEFINE t == Turn(rows, c, q, e)
             n == Turn(m, c, q, e)
  <1>1. /\ t \in Rows /\ n \in Rows
        /\ Times(t[c], rows[q], e) /\ Times(n[c], m[q], e)
        /\ q # c => t[q] = rows[c] /\ n[q] = m[c]
        /\ \A r \in 1..4 : r \notin {c, q} => t[r] = rows[r] /\ n[r] = m[r]
    <2>1. IsTurn(t, rows, c, q, e) /\ IsTurn(n, m, c, q, e)
      BY TurnFacts
    <2> HIDE DEF t, n
    <2> QED
      BY <2>1 DEF IsTurn, Times
  <1> HIDE DEF t, n
  <1>2. /\ t[a] = rows[a] /\ n[a] = m[a]
        /\ t[b] = rows[b] /\ n[b] = m[b]
        /\ t[d] = rows[d] /\ n[d] = m[d]
    BY <1>1
  <1>3. e \in Int
    BY DEF Signs
  <1>4. ASSUME NEW r \in (1..4) \ {a, b, d}, NEW j \in 1..5
        PROVE  t[r][j] = Minor4(n[a], n[b], n[d], n[r], a, b, d, j)
    <2>1. \A k \in (1..4) \ {a, b, d} : rows[k][j] = Minor4(m[a], m[b], m[d], m[k], a, b, d, j)
      BY DEF FormThree
    <2>2. /\ \A k \in 1..4 : m[k] \in Row /\ n[k] \in Row
          /\ a \in 1..5 /\ b \in 1..5 /\ d \in 1..5
      BY <1>1, RowTypes
    <2>3. CASE r = c
      <3> DEFINE u == m[a]
                 v == m[b]
                 w == m[d]
                 x == m[q]
                 y == n[c]
      <3>0. /\ u \in Row /\ v \in Row /\ w \in Row /\ x \in Row /\ y \in Row
            /\ Times(y, x, e) /\ e \in Int
        BY <1>1, <1>3, <2>2
      <3> HIDE DEF u, v, w, x, y
      <3>1. IsTimes(Minor4(u, v, w, y, a, b, d, j), Minor4(u, v, w, x, a, b, d, j), e)
        BY <2>2, <3>0, FourTimes
      <3>2. t[c][j] = e * rows[q][j]
        BY <1>1 DEF Times
      <3> QED
        BY <1>2, <2>1, <2>3, <3>1, <3>2 DEF IsTimes, u, v, w, x, y
    <2>4. CASE r # c /\ r = q
      BY <1>1, <1>2, <2>1, <2>4
    <2>5. CASE r \notin {c, q}
      BY <1>1, <1>2, <2>1, <2>5
    <2> QED
      BY <2>3, <2>4, <2>5
  <1> QED
    BY <1>2, <1>4 DEF FormThree, t, n

\* The rows after the pivots in the columns P.
Form(rows, scale, m, P) ==
    \/ P = {} /\ scale = 1 /\ rows = m
    \/ \E a \in 1..4 : P = {a} /\ FormOne(rows, scale, m, a)
    \/ \E a, b \in 1..4 : a # b /\ P = {a, b} /\ FormTwo(rows, scale, m, a, b)
    \/ \E a, b, d \in 1..4 :
         a # b /\ d \notin {a, b} /\ P = {a, b, d} /\ FormThree(rows, scale, m, a, b, d)
    \/ P = 1..4

\* A step with a pivot is exact, and leaves minors again.
LEMMA FormStep ==
    ASSUME NEW s \in Tableau, NEW m \in Rows, NEW P \in SUBSET (1..4),
           NEW c \in (1..4) \ P, NEW q \in (1..4) \ P, NEW e \in Signs, NEW s2,
           Form(s.rows, s.scale, m, P), Divided(s2, Turn(s.rows, c, q, e), s.scale, c)
    PROVE  /\ Reduced(s2, Turn(s.rows, c, q, e), s.scale, c)
           /\ Form(s2.rows, s2.scale, Turn(m, c, q, e), P \cup {c})
  <1> DEFINE rows == s.rows
             scale == s.scale
             t == Turn(rows, c, q, e)
             n == Turn(m, c, q, e)
  <1>1. rows \in Rows /\ scale \in Nat \ {0}
    BY DEF Tableau
  <1>2. Form(rows, scale, m, P) /\ Divided(s2, t, scale, c)
    OBVIOUS
  <1> HIDE DEF rows, scale
  <1>3. t \in Rows /\ n \in Rows
    BY <1>1, TurnFacts DEF IsTurn
  <1> SUFFICES Reduced(s2, t, scale, c) /\ Form(s2.rows, s2.scale, n, P \cup {c})
    BY DEF rows, scale
  <1>4. CASE P = {} /\ scale = 1 /\ rows = m
    <2>1. t = n
      BY <1>4
    <2> HIDE DEF t, n
    <2>2. Reduced(s2, t, 1, c) /\ FormOne(s2.rows, s2.scale, t, c)
      BY <1>2, <1>3, <1>4, AdvanceNone
    <2> QED
      BY <1>4, <2>1, <2>2 DEF Form
  <1>5. CASE \E a \in 1..4 : P = {a} /\ FormOne(rows, scale, m, a)
    <2>1. PICK a \in 1..4 : P = {a} /\ FormOne(rows, scale, m, a)
      BY <1>5
    <2>2. a # c /\ c \notin {a} /\ q \notin {a} /\ P \cup {c} = {a, c}
      BY <2>1
    <2>3. FormOne(t, scale, n, a)
      BY <1>1, <2>1, <2>2, TurnOne
    <2> HIDE DEF t, n
    <2>4. Reduced(s2, t, scale, c) /\ FormTwo(s2.rows, s2.scale, n, a, c)
      BY <1>1, <1>2, <1>3, <2>2, <2>3, AdvanceOne
    <2> QED
      BY <2>2, <2>4 DEF Form
  <1>6. CASE \E a, b \in 1..4 : a # b /\ P = {a, b} /\ FormTwo(rows, scale, m, a, b)
    <2>1. PICK a \in 1..4, b \in 1..4 : a # b /\ P = {a, b} /\ FormTwo(rows, scale, m, a, b)
      BY <1>6
    <2>2. a # b /\ c \notin {a, b} /\ q \notin {a, b} /\ P \cup {c} = {a, b, c}
      BY <2>1
    <2>3. FormTwo(t, scale, n, a, b)
      BY <1>1, <2>1, <2>2, TurnTwo
    <2> HIDE DEF t, n
    <2>4. Reduced(s2, t, scale, c) /\ FormThree(s2.rows, s2.scale, n, a, b, c)
      BY <1>1, <1>2, <1>3, <2>2, <2>3, AdvanceTwo
    <2> QED
      BY <2>2, <2>4 DEF Form
  <1>7. CASE \E a, b, d \in 1..4 :
              a # b /\ d \notin {a, b} /\ P = {a, b, d} /\ FormThree(rows, scale, m, a, b, d)
    <2>1. PICK a \in 1..4, b \in 1..4, d \in 1..4 :
              a # b /\ d \notin {a, b} /\ P = {a, b, d} /\ FormThree(rows, scale, m, a, b, d)
      BY <1>7
    <2>2. c \notin {a, b, d} /\ q \notin {a, b, d} /\ {a, b, d, c} = 1..4
      BY <2>1
    <2>3. FormThree(t, scale, n, a, b, d)
      BY <1>1, <2>1, <2>2, TurnThree
    <2> HIDE DEF t, n
    <2>4. Reduced(s2, t, scale, c)
      BY <1>1, <1>2, <1>3, <2>2, <2>3, AdvanceThree
    <2>5. P \cup {c} = 1..4
      BY <2>1, <2>2
    <2> QED
      BY <2>4, <2>5 DEF Form
  <1>8. P # 1..4
    OBVIOUS
  <1> QED
    BY <1>2, <1>4, <1>5, <1>6, <1>7, <1>8 DEF Form

\* A row applied to five numbers, and the numbers that solve all rows.
Dot(z, row) == z[1] * row[1] + z[2] * row[2] + z[3] * row[3] + z[4] * row[4] + z[5] * row[5]
Solves(z, rows) == \A r \in 1..4 : Dot(z, rows[r]) = 0

\* A row that is a combination of two others: so is what it gives.
LEMMA DotLinear ==
    ASSUME NEW z \in Row, NEW u \in Row, NEW v \in Row, NEW w \in Row,
           NEW k \in Int, NEW a \in Int, NEW b \in Int,
           \A j \in 1..5 : k * w[j] = a * u[j] - b * v[j]
    PROVE  k * Dot(z, w) = a * Dot(z, u) - b * Dot(z, v)
  <1> DEFINE z1 == z[1] z2 == z[2] z3 == z[3] z4 == z[4] z5 == z[5]
             u1 == u[1] u2 == u[2] u3 == u[3] u4 == u[4] u5 == u[5]
             v1 == v[1] v2 == v[2] v3 == v[3] v4 == v[4] v5 == v[5]
             w1 == w[1] w2 == w[2] w3 == w[3] w4 == w[4] w5 == w[5]
  <1>1. /\ z1 \in Int /\ z2 \in Int /\ z3 \in Int /\ z4 \in Int /\ z5 \in Int
        /\ u1 \in Int /\ u2 \in Int /\ u3 \in Int /\ u4 \in Int /\ u5 \in Int
        /\ v1 \in Int /\ v2 \in Int /\ v3 \in Int /\ v4 \in Int /\ v5 \in Int
        /\ w1 \in Int /\ w2 \in Int /\ w3 \in Int /\ w4 \in Int /\ w5 \in Int
    BY DEF Row
  <1>2. /\ k * w1 = a * u1 - b * v1 /\ k * w2 = a * u2 - b * v2 /\ k * w3 = a * u3 - b * v3
        /\ k * w4 = a * u4 - b * v4 /\ k * w5 = a * u5 - b * v5
    OBVIOUS
  <1> HIDE DEF z1, z2, z3, z4, z5, u1, u2, u3, u4, u5, v1, v2, v3, v4, v5,
           w1, w2, w3, w4, w5
  <1>3. k * (z1 * w1 + z2 * w2 + z3 * w3 + z4 * w4 + z5 * w5)
            = z1 * (k * w1) + z2 * (k * w2) + z3 * (k * w3) + z4 * (k * w4) + z5 * (k * w5)
    BY <1>1
  <1>4. z1 * (a * u1 - b * v1) + z2 * (a * u2 - b * v2) + z3 * (a * u3 - b * v3)
            + z4 * (a * u4 - b * v4) + z5 * (a * u5 - b * v5)
            = a * (z1 * u1 + z2 * u2 + z3 * u3 + z4 * u4 + z5 * u5)
              - b * (z1 * v1 + z2 * v2 + z3 * v3 + z4 * v4 + z5 * v5)
    BY <1>1
  <1>5. k * (z1 * w1 + z2 * w2 + z3 * w3 + z4 * w4 + z5 * w5)
            = a * (z1 * u1 + z2 * u2 + z3 * u3 + z4 * u4 + z5 * u5)
              - b * (z1 * v1 + z2 * v2 + z3 * v3 + z4 * v4 + z5 * v5)
    BY <1>2, <1>3, <1>4
  <1> QED
    BY <1>5 DEF Dot, z1, z2, z3, z4, z5, u1, u2, u3, u4, u5, v1, v2, v3, v4, v5,
           w1, w2, w3, w4, w5

\* What a row gives is an integer.
LEMMA DotType ==
    ASSUME NEW z \in Row, NEW u \in Row
    PROVE  Dot(z, u) \in Int
  <1>1. /\ z[1] \in Int /\ z[2] \in Int /\ z[3] \in Int /\ z[4] \in Int /\ z[5] \in Int
        /\ u[1] \in Int /\ u[2] \in Int /\ u[3] \in Int /\ u[4] \in Int /\ u[5] \in Int
    BY DEF Row
  <1> QED
    BY <1>1 DEF Dot

\* A product that is zero.
LEMMA ZeroFactor ==
    ASSUME NEW k \in Int, NEW n \in Int, k # 0, k * n = 0
    PROVE  n = 0
  OBVIOUS

\* What solves the rows after a turn solves them before.
LEMMA TurnBack ==
    ASSUME NEW rows \in Rows, NEW c \in 1..4, NEW q \in 1..4, NEW e \in Signs,
           NEW z \in Row, Solves(z, Turn(rows, c, q, e))
    PROVE  Solves(z, rows)
  <1> DEFINE t == Turn(rows, c, q, e)
  <1>1. IsTurn(t, rows, c, q, e) /\ Solves(z, t)
    BY TurnFacts
  <1> HIDE DEF t
  <1>2. \A r \in 1..4 : rows[r] \in Row /\ t[r] \in Row
    BY <1>1, RowTypes DEF IsTurn
  <1>3. Dot(z, rows[q]) = 0
    <2> DEFINE w == t[c]
               u == rows[q]
               one == 1
               zero == 0
    <2>1. \A j \in 1..5 : u[j] \in Int
      BY <1>2 DEF Row
    <2>2. \A j \in 1..5 : one * w[j] = e * u[j] - zero * u[j]
      BY <1>1, <2>1 DEF IsTurn, Signs
    <2>3. w \in Row /\ u \in Row /\ e \in Int /\ zero \in Int /\ one \in Int
      BY <1>2 DEF Signs
    <2>4. Dot(z, w) = 0
      BY <1>1 DEF Solves
    <2> HIDE DEF w, u, one, zero
    <2>5. one * Dot(z, w) = e * Dot(z, u) - zero * Dot(z, u)
      BY <2>2, <2>3, DotLinear
    <2>6. Dot(z, u) \in Int
      BY <2>3, DotType
    <2>7. e * Dot(z, u) = 0
      <3>1. e * Dot(z, u) \in Int
        BY <2>3, <2>6
      <3> QED
        BY <2>4, <2>5, <2>6, <3>1 DEF one, zero
    <2>8. Dot(z, u) = 0
      BY <2>3, <2>6, <2>7, ZeroFactor DEF Signs
    <2> QED
      BY <2>8 DEF u
  <1>4. ASSUME NEW r \in 1..4 PROVE Dot(z, rows[r]) = 0
    <2>1. CASE r = q
      BY <1>3, <2>1
    <2>2. CASE r # q /\ r = c
      BY <1>1, <2>2 DEF IsTurn, Solves
    <2>3. CASE r \notin {c, q}
      BY <1>1, <2>3 DEF IsTurn, Solves
    <2> QED
      BY <2>1, <2>2, <2>3
  <1> QED
    BY <1>4 DEF Solves

\* What solves the rows after a reduction solves them before.
LEMMA ReduceBack ==
    ASSUME NEW s \in Tableau, NEW t \in Rows, NEW scale \in Nat \ {0}, NEW c \in 1..4,
           NEW z \in Row, Reduced(s, t, scale, c), t[c][c] # 0, Solves(z, s.rows)
    PROVE  Solves(z, t)
  <1>1. s.rows \in Rows
    BY DEF Tableau
  <1>2. \A r \in 1..4 : s.rows[r] \in Row /\ t[r] \in Row
    BY <1>1, RowTypes
  <1>3. Dot(z, t[c]) = 0
    BY DEF Reduced, Solves
  <1>4. ASSUME NEW r \in (1..4) \ {c} PROVE Dot(z, t[r]) = 0
    <2> DEFINE w == s.rows[r]
               u == t[r]
               v == t[c]
               a == t[c][c]
               b == t[r][c]
    <2>1. w \in Row /\ u \in Row /\ v \in Row /\ a \in Int /\ b \in Int /\ scale \in Int
      BY <1>2 DEF Row
    <2>2. \A j \in 1..5 : scale * w[j] = a * u[j] - b * v[j]
      BY DEF Reduced
    <2>3. Dot(z, w) = 0 /\ Dot(z, v) = 0 /\ a # 0
      BY <1>3 DEF Solves
    <2> HIDE DEF w, u, v, a, b
    <2>4. scale * Dot(z, w) = a * Dot(z, u) - b * Dot(z, v)
      BY <2>1, <2>2, DotLinear
    <2>5. Dot(z, u) \in Int
      BY <2>1, DotType
    <2>6. a * Dot(z, u) = 0
      <3>1. a * Dot(z, u) \in Int
        BY <2>1, <2>5
      <3> QED
        BY <2>1, <2>3, <2>4, <3>1
    <2>7. Dot(z, u) = 0
      BY <2>1, <2>3, <2>5, <2>6, ZeroFactor
    <2> QED
      BY <2>7 DEF u
  <1> QED
    BY <1>3, <1>4 DEF Solves

\* A combination of the four rows, in column j.
Factors == [1..4 -> Int]
Comb(x, rows, j) ==
    x[1] * rows[1][j] + x[2] * rows[2][j] + x[3] * rows[3][j] + x[4] * rows[4][j]

\* The factors after a turn of the rows.
TurnFour(x, c, q, e) ==
    [r \in 1..4 |-> IF r = c THEN e * x[q] ELSE IF r = q THEN x[c] ELSE x[r]]

\* With them the rows have the same combination.
LEMMA CombTurns ==
    ASSUME NEW rows \in Rows, NEW c \in 1..4, NEW q \in 1..4, NEW e \in Signs, NEW x \in Factors
    PROVE  /\ TurnFour(x, c, q, e) \in Factors
           /\ \A j \in 1..5 :
                Comb(TurnFour(x, c, q, e), Turn(rows, c, q, e), j) = Comb(x, rows, j)
  <1> DEFINE y == TurnFour(x, c, q, e)
             t == Turn(rows, c, q, e)
  <1>1. \A r \in 1..4 : x[r] \in Int
    BY DEF Factors
  <1>2. e * x[q] \in Int
    BY <1>1 DEF Signs
  <1>3. y \in Factors
    BY <1>1, <1>2 DEF TurnFour, Factors
  <1>4. /\ y[c] = e * x[q] /\ (q # c => y[q] = x[c])
        /\ \A r \in 1..4 : r \notin {c, q} => y[r] = x[r]
    BY DEF TurnFour
  <1>5. IsTurn(t, rows, c, q, e)
    BY TurnFacts
  <1> HIDE DEF y, t
  <1>6. ASSUME NEW j \in 1..5 PROVE Comb(y, t, j) = Comb(x, rows, j)
    <2> DEFINE f == [r \in 1..4 |-> y[r] * t[r][j]]
               g == [r \in 1..4 |-> x[r] * rows[r][j]]
    <2>1. \A r \in 1..4 : rows[r][j] \in Int /\ g[r] \in Int
      BY <1>1, RowTypes
    <2>2. f[c] = g[q]
      <3>1. f[c] = (e * x[q]) * (e * rows[q][j])
        BY <1>4, <1>5 DEF IsTurn
      <3>2. (e * x[q]) * (e * rows[q][j]) = x[q] * rows[q][j]
        <4>1. x[q] \in Int /\ rows[q][j] \in Int
          BY <1>1, <2>1
        <4>2. CASE e = 1
          BY <4>1, <4>2
        <4>3. CASE e = -1
          BY <4>1, <4>3
        <4> QED
          BY <4>2, <4>3 DEF Signs
      <3> QED
        BY <3>1, <3>2
    <2>3. q # c => f[q] = g[c]
      BY <1>4, <1>5 DEF IsTurn
    <2>4. \A r \in 1..4 : r \notin {c, q} => f[r] = g[r]
      BY <1>4, <1>5 DEF IsTurn
    <2>5. Comb(y, t, j) = f[1] + f[2] + f[3] + f[4]
      BY DEF Comb
    <2>6. Comb(x, rows, j) = g[1] + g[2] + g[3] + g[4]
      BY DEF Comb
    <2> HIDE DEF f, g
    <2>7. g[1] \in Int /\ g[2] \in Int /\ g[3] \in Int /\ g[4] \in Int
      BY <2>1
    <2>8. c \in {1, 2, 3, 4} /\ q \in {1, 2, 3, 4}
      OBVIOUS
    <2>9. f[1] + f[2] + f[3] + f[4] = g[1] + g[2] + g[3] + g[4]
      <3>1. CASE c = 1
        BY <2>2, <2>3, <2>4, <2>7, <2>8, <3>1
      <3>2. CASE c = 2
        BY <2>2, <2>3, <2>4, <2>7, <2>8, <3>2
      <3>3. CASE c = 3
        BY <2>2, <2>3, <2>4, <2>7, <2>8, <3>3
      <3>4. CASE c = 4
        BY <2>2, <2>3, <2>4, <2>7, <2>8, <3>4
      <3> QED
        BY <2>8, <3>1, <3>2, <3>3, <3>4
    <2> QED
      BY <2>5, <2>6, <2>9
  <1> QED
    BY <1>3, <1>6 DEF y, t

\* Every combination of the rows m is one of the rows n.
Within(m, n) ==
    \A x \in Factors : \E y \in Factors : \A j \in 1..5 : Comb(x, m, j) = Comb(y, n, j)

\* It still is after a turn.
LEMMA TurnWithin ==
    ASSUME NEW m \in Rows, NEW n, NEW c \in 1..4, NEW q \in 1..4, NEW e \in Signs,
           Within(m, n)
    PROVE  Within(Turn(m, c, q, e), n)
  <1> SUFFICES ASSUME NEW x \in Factors
               PROVE  \E y \in Factors :
                         \A j \in 1..5 : Comb(x, Turn(m, c, q, e), j) = Comb(y, n, j)
    BY DEF Within
  <1> DEFINE w == [r \in 1..4 |-> IF r = q THEN e * x[c] ELSE IF r = c THEN x[q] ELSE x[r]]
             t == Turn(m, c, q, e)
  <1>1. \A r \in 1..4 : x[r] \in Int
    BY DEF Factors
  <1>2. e * x[c] \in Int
    BY <1>1 DEF Signs
  <1>3. w \in Factors
    BY <1>1, <1>2 DEF Factors
  <1>4. TurnFour(w, c, q, e) = x
    <2>1. e * (e * x[c]) = x[c]
      <3>1. x[c] \in Int
        BY <1>1
      <3>2. CASE e = 1
        BY <3>1, <3>2
      <3>3. CASE e = -1
        BY <3>1, <3>3
      <3> QED
        BY <3>2, <3>3 DEF Signs
    <2>2. \A r \in 1..4 : TurnFour(w, c, q, e)[r] = x[r]
      BY <2>1 DEF TurnFour
    <2>3. TurnFour(w, c, q, e) = [r \in 1..4 |-> TurnFour(w, c, q, e)[r]]
      BY DEF TurnFour
    <2>4. x = [r \in 1..4 |-> x[r]]
      BY DEF Factors
    <2> QED
      BY <2>2, <2>3, <2>4
  <1> HIDE DEF w, t
  <1>5. \A j \in 1..5 : Comb(x, t, j) = Comb(w, m, j)
    BY <1>3, <1>4, CombTurns DEF t
  <1>6. PICK y \in Factors : \A j \in 1..5 : Comb(w, m, j) = Comb(y, n, j)
    BY <1>3 DEF Within
  <1>7. \A j \in 1..5 : Comb(x, t, j) = Comb(y, n, j)
    BY <1>5, <1>6
  <1> QED
    BY <1>7 DEF t

\* The state s of the elimination of the rows n before column c, with pivots in the
\* columns P: it has minors of rows m that are rows of n, a column of P has a single
\* entry and a column that was skipped none below its place; what solves its rows
\* solves those of n.
At(s, m, n, P, c) ==
    /\ s \in Tableau /\ m \in Rows
    /\ P \in SUBSET (1..4) /\ \A p \in P : p < c
    /\ Form(s.rows, s.scale, m, P)
    /\ \A p \in P, r \in 1..4 : s.rows[r][p] = IF r = p THEN s.scale ELSE 0
    /\ \A z \in (1..4) \ P : z < c => \A r \in z..4 : s.rows[r][z] = 0
    /\ \A z \in Row : Solves(z, s.rows) => Solves(z, n)
    /\ Within(m, n)

\* How the elimination begins.
LEMMA AtStart ==
    ASSUME NEW n \in Rows
    PROVE  At([rows |-> n, scale |-> 1], n, n, {}, 1)
  <1> DEFINE s == [rows |-> n, scale |-> 1]
  <1>1. s \in Tableau /\ s.rows = n /\ s.scale = 1
    BY 1 \in Nat \ {0} DEF Tableau
  <1> HIDE DEF s
  <1>2. Form(s.rows, s.scale, n, {})
    BY <1>1 DEF Form
  <1>3. Within(n, n)
    BY DEF Within
  <1>4. \A z \in (1..4) \ {} : ~(z < 1)
    OBVIOUS
  <1> QED
    BY <1>1, <1>2, <1>3, <1>4 DEF At, s

\* A column whose pivot is zero is skipped: it has no entry below its place.
LEMMA SkipColumn ==
    ASSUME NEW s, NEW m, NEW n \in Rows, NEW P, NEW c \in 1..4, At(s, m, n, P, c),
           \A r \in c..4 : s.rows[r][c] = 0
    PROVE  At(s, m, n, P, c + 1)
  <1>1. \A z \in (1..4) \ P : z < c + 1 => \A r \in z..4 : s.rows[r][z] = 0
    <2> SUFFICES ASSUME NEW z \in (1..4) \ P, z < c + 1 PROVE \A r \in z..4 : s.rows[r][z] = 0
      OBVIOUS
    <2>1. z < c \/ z = c
      OBVIOUS
    <2> QED
      BY <2>1 DEF At
  <1>2. \A p \in P : p < c + 1
    BY DEF At
  <1> QED
    BY <1>1, <1>2 DEF At

\* A zero as a quotient.
LEMMA ZeroOf ==
    ASSUME NEW d \in Nat \ {0}, NEW n \in Int, d * n = 0
    PROVE  n = 0
  OBVIOUS

\* A column with a pivot is reduced.
LEMMA ReduceColumn ==
    ASSUME NEW s, NEW m, NEW n \in Rows, NEW P, NEW c \in 1..4, At(s, m, n, P, c),
           NEW q \in c..4, NEW e \in Signs, NEW s2 \in Tableau,
           Turn(s.rows, c, q, e)[c][c] # 0, Divided(s2, Turn(s.rows, c, q, e), s.scale, c)
    PROVE  /\ At(s2, Turn(m, c, q, e), n, P \cup {c}, c + 1)
           /\ Reduced(s2, Turn(s.rows, c, q, e), s.scale, c)
  <1> DEFINE t == Turn(s.rows, c, q, e)
             k == Turn(m, c, q, e)
  <1>1. /\ s \in Tableau /\ m \in Rows /\ s.rows \in Rows /\ s.scale \in Nat \ {0}
        /\ P \in SUBSET (1..4) /\ \A p \in P : p < c
    BY DEF At, Tableau
  <1>2. q \in 1..4 /\ c \notin P /\ q \notin P
    BY <1>1
  <1>3. IsTurn(t, s.rows, c, q, e) /\ k \in Rows
    <2>1. IsTurn(t, s.rows, c, q, e) /\ IsTurn(k, m, c, q, e)
      BY <1>1, <1>2, TurnFacts
    <2> HIDE DEF t, k
    <2> QED
      BY <2>1 DEF IsTurn
  <1>4. Reduced(s2, t, s.scale, c) /\ Form(s2.rows, s2.scale, k, P \cup {c})
    BY <1>1, <1>2, FormStep DEF At
  <1>5. \A z \in Row : Solves(z, s2.rows) => Solves(z, n)
    <2> SUFFICES ASSUME NEW z \in Row, Solves(z, s2.rows) PROVE Solves(z, n)
      OBVIOUS
    <2>1. Solves(z, t)
      BY <1>1, <1>3, <1>4, ReduceBack DEF IsTurn
    <2>2. Solves(z, s.rows)
      BY <1>1, <1>2, <2>1, TurnBack
    <2> QED
      BY <2>2 DEF At
  <1>6. Within(k, n)
    BY <1>1, <1>2, TurnWithin DEF At
  <1> HIDE DEF t, k
  <1>7. s2.rows \in Rows /\ t \in Rows /\ s2.scale = t[c][c] /\ t[c][c] # 0
    BY <1>3, <1>4 DEF IsTurn, Reduced, Tableau, t
  <1>8. \A r \in 1..4, j \in 1..5 : s2.rows[r][j] \in Int /\ t[r][j] \in Int
    BY <1>7, RowTypes
  <1>9. \A r \in (1..4) \ {c}, j \in 1..5 :
            s.scale * s2.rows[r][j] = t[c][c] * t[r][j] - t[r][c] * t[c][j]
    BY <1>4 DEF Reduced
  <1>10. \A j \in 1..5 : s2.rows[c][j] = t[c][j]
    BY <1>4 DEF Reduced
  <1>11. e \in Int /\ \A r \in 1..4, j \in 1..5 : s.rows[r][j] \in Int
    BY <1>1, RowTypes DEF Signs
  \* An entry that is zero in the rows it comes from.
  <1>12. ASSUME NEW r \in 1..4, NEW j \in 1..5, t[c][j] = 0, r # c => t[r][j] = 0
         PROVE  s2.rows[r][j] = 0
    <2>1. CASE r = c
      BY <1>10, <1>12, <2>1
    <2>2. CASE r # c
      <3>1. s.scale * s2.rows[r][j] = t[c][c] * 0 - t[r][c] * 0
        BY <1>9, <1>12, <2>2
      <3>2. t[c][c] \in Int /\ t[r][c] \in Int /\ s2.rows[r][j] \in Int
        BY <1>8
      <3>3. s.scale * s2.rows[r][j] = 0
        BY <3>1, <3>2
      <3> QED
        BY <1>1, <3>2, <3>3, ZeroOf
    <2> QED
      BY <2>1, <2>2
  <1>13. ASSUME NEW p \in P, NEW r \in 1..4
         PROVE  s2.rows[r][p] = IF r = p THEN s2.scale ELSE 0
    <2>1. p \in 1..4 /\ p \in 1..5 /\ p # c /\ p # q
      BY <1>1, <1>2
    <2>2. \A i \in 1..4 : s.rows[i][p] = IF i = p THEN s.scale ELSE 0
      BY DEF At
    <2>3. t[c][p] = 0
      <3>1. t[c][p] = e * s.rows[q][p]
        BY <1>3, <2>1 DEF IsTurn
      <3>2. s.rows[q][p] = 0
        BY <1>2, <2>1, <2>2
      <3> QED
        BY <1>11, <3>1, <3>2
    <2>4. CASE r # p
      <3>1. r # c => t[r][p] = 0
        BY <1>2, <1>3, <2>1, <2>2, <2>4 DEF IsTurn
      <3>2. s2.rows[r][p] = 0
        BY <1>12, <2>1, <2>3, <3>1
      <3> QED
        BY <2>4, <3>2
    <2>5. CASE r = p
      <3>1. t[p][p] = s.scale
        BY <1>3, <2>1, <2>2 DEF IsTurn
      <3> DEFINE x == s2.rows[p][p]
                 y == t[c][c]
                 v == t[p][c]
      <3>2. s.scale * x = y * s.scale - v * 0
        BY <1>9, <2>1, <2>3, <3>1
      <3>3. x \in Int /\ y \in Int /\ v \in Int
        BY <1>8, <2>1
      <3> HIDE DEF x, y, v
      <3>4. s.scale * (x - y) = 0
        BY <1>1, <3>2, <3>3
      <3>5. x - y = 0
        BY <1>1, <3>3, <3>4, ZeroOf
      <3>6. x = y
        BY <3>3, <3>5
      <3> QED
        BY <1>7, <2>5, <3>6 DEF x, y
    <2> QED
      BY <2>4, <2>5
  <1>14. ASSUME NEW r \in 1..4
         PROVE  s2.rows[r][c] = IF r = c THEN s2.scale ELSE 0
    <2>1. CASE r = c
      BY <1>7, <1>10, <2>1, c \in 1..5
    <2>2. CASE r # c
      <3> DEFINE x == t[c][c]
                 y == t[r][c]
      <3>1. s.scale * s2.rows[r][c] = x * y - y * x
        BY <1>9, <2>2, c \in 1..5
      <3>2. x \in Int /\ y \in Int /\ s2.rows[r][c] \in Int
        BY <1>8, c \in 1..5
      <3> HIDE DEF x, y
      <3>3. s.scale * s2.rows[r][c] = 0
        BY <3>1, <3>2
      <3>4. s2.rows[r][c] = 0
        BY <1>1, <3>2, <3>3, ZeroOf
      <3> QED
        BY <2>2, <3>4
    <2> QED
      BY <2>1, <2>2
  <1>15. ASSUME NEW z \in (1..4) \ (P \cup {c}), z < c + 1, NEW r \in z..4
         PROVE  s2.rows[r][z] = 0
    <2>1. z < c /\ z \in (1..4) \ P /\ z \in 1..5 /\ r \in 1..4
      BY <1>15
    <2>2. \A i \in z..4 : s.rows[i][z] = 0
      BY <2>1 DEF At
    <2>3. c \in z..4 /\ q \in z..4
      BY <2>1
    <2>4. t[c][z] = 0
      <3>1. t[c][z] = e * s.rows[q][z] /\ s.rows[q][z] = 0
        BY <1>3, <2>1, <2>2, <2>3 DEF IsTurn
      <3> QED
        BY <1>11, <3>1
    <2>5. r # c => t[r][z] = 0
      BY <1>2, <1>3, <2>1, <2>2, <2>3 DEF IsTurn
    <2> QED
      BY <1>12, <2>1, <2>4, <2>5
  <1>16. P \cup {c} \in SUBSET (1..4) /\ \A p \in P \cup {c} : p < c + 1
    BY <1>1
  <1>17. \A p \in P \cup {c}, r \in 1..4 : s2.rows[r][p] = IF r = p THEN s2.scale ELSE 0
    BY <1>13, <1>14
  <1>18. \A z \in (1..4) \ (P \cup {c}) : z < c + 1 => \A r \in z..4 : s2.rows[r][z] = 0
    BY <1>15
  <1>19. At(s2, k, n, P \cup {c}, c + 1)
    BY <1>3, <1>4, <1>5, <1>6, <1>16, <1>17, <1>18 DEF At
  <1> QED
    BY <1>4, <1>19 DEF t, k

\* What a step of the elimination does: it skips the column, or it turns the rows by
\* the sign e and reduces.
Skips(s, s2, c) == s2 = s /\ \A r \in c..4 : s.rows[r][c] = 0

Pivots(s, s2, c, e) ==
    LET t == Turn(s.rows, c, PivotRow(s.rows, c), e)
    IN t[c][c] \in Nat \ {0} /\ Reduced(s2, t, s.scale, c)

\* Every column is skipped or has its pivot, and both leave the rows minors of the
\* normal equations, so that the division with which Eliminate scales a row is exact.
LEMMA ColumnStep ==
    ASSUME NEW s, NEW m, NEW n \in Rows, NEW P, NEW c \in 1..4, At(s, m, n, P, c)
    PROVE  \/ /\ Skips(s, Eliminate(s, c), c)
              /\ At(Eliminate(s, c), m, n, P, c + 1)
           \/ \E e \in Signs :
                /\ Pivots(s, Eliminate(s, c), c, e)
                /\ At(Eliminate(s, c), Turn(m, c, PivotRow(s.rows, c), e), n, P \cup {c}, c + 1)
  <1> DEFINE q == PivotRow(s.rows, c)
             s2 == Eliminate(s, c)
  <1>1. s \in Tableau /\ s.rows \in Rows
    BY DEF At, Tableau
  <1>2. PICK e \in Signs :
            LET t == Turn(s.rows, c, q, e)
            IN /\ q \in c..4 /\ q \in 1..4 /\ t \in Rows /\ t[c][c] \in Nat
               /\ t[c][c] = 0 => s2 = s
               /\ t[c][c] # 0 => Divided(s2, t, s.scale, c)
    BY <1>1, EliminateTurns
  <1>3. s2 \in Tableau
    BY <1>1, EliminateTypes
  <1>4. \A r \in c..4 : Magnitude(s.rows[r][c]) <= Magnitude(s.rows[q][c])
    BY <1>1, PivotLeft
  <1> DEFINE t == Turn(s.rows, c, q, e)
  <1>5. /\ q \in c..4 /\ q \in 1..4 /\ t \in Rows /\ t[c][c] \in Nat
        /\ t[c][c] = 0 => s2 = s
        /\ t[c][c] # 0 => Divided(s2, t, s.scale, c)
    BY <1>2
  <1> HIDE DEF q, s2
  <1>6. CASE t[c][c] = 0
    <2>1. t[c][c] = e * s.rows[q][c]
      <3>1. IsTurn(t, s.rows, c, q, e)
        BY <1>1, <1>5, TurnFacts
      <3> HIDE DEF t
      <3> QED
        BY <3>1, c \in 1..5 DEF IsTurn
    <2>2. \A r \in c..4 : s.rows[r][c] \in Int
      BY <1>1, RowTypes, c \in 1..5
    <2>3. s.rows[q][c] = 0
      BY <1>5, <1>6, <2>1, <2>2 DEF Signs
    <2>4. \A r \in c..4 : s.rows[r][c] = 0
      BY <1>4, <2>2, <2>3 DEF Magnitude
    <2>5. At(s, m, n, P, c + 1)
      BY <2>4, SkipColumn
    <2> QED
      BY <1>5, <1>6, <2>4, <2>5 DEF Skips, s2
  <1>7. CASE t[c][c] # 0
    <2>1. At(s2, Turn(m, c, q, e), n, P \cup {c}, c + 1) /\ Reduced(s2, t, s.scale, c)
      BY <1>3, <1>5, <1>7, ReduceColumn
    <2>2. Pivots(s, s2, c, e)
      BY <1>5, <1>7, <2>1 DEF Pivots, q
    <2> QED
      BY <2>1, <2>2 DEF q, s2
  <1> QED
    BY <1>6, <1>7

\* h is the combination of the functions f with the factors x.
Combines(h, f, x, S) ==
    \A k \in S :
        /\ \A i \in 1..4 : f[i][k] \in Int
        /\ h[k] = x[1] * f[1][k] + x[2] * f[2][k] + x[3] * f[3][k] + x[4] * f[4][k]

\* The sum of a combination is that of the sums.
LEMMA FourSums ==
    ASSUME NEW S, IsFiniteSet(S), NEW f, NEW h, NEW x \in Factors, Combines(h, f, x, S)
    PROVE  /\ SumFunctionOnSet(h, S)
                = x[1] * SumFunctionOnSet(f[1], S) + x[2] * SumFunctionOnSet(f[2], S)
                  + x[3] * SumFunctionOnSet(f[3], S) + x[4] * SumFunctionOnSet(f[4], S)
           /\ \A i \in 1..4 : SumFunctionOnSet(f[i], S) \in Int
           /\ \A k \in S : h[k] \in Int
  <1> DEFINE x1 == x[1] x2 == x[2] x3 == x[3] x4 == x[4]
             f1 == f[1] f2 == f[2] f3 == f[3] f4 == f[4]
             one == 1
             u == [k \in S |-> x1 * f1[k] + x2 * f2[k]]
             v == [k \in S |-> x3 * f3[k] + x4 * f4[k]]
  <1>1. x1 \in Int /\ x2 \in Int /\ x3 \in Int /\ x4 \in Int /\ one \in Int
    BY DEF Factors
  <1>2. \A k \in S : /\ f1[k] \in Int /\ f2[k] \in Int /\ f3[k] \in Int /\ f4[k] \in Int
                     /\ h[k] = x1 * f1[k] + x2 * f2[k] + x3 * f3[k] + x4 * f4[k]
    BY DEF Combines
  <1>3. \A i \in 1..4 : SumFunctionOnSet(f[i], S) \in Int
    <2>1. ASSUME NEW i \in 1..4 PROVE SumFunctionOnSet(f[i], S) \in Int
      <3> DEFINE g == f[i]
      <3>1. \A k \in S : g[k] \in Int
        BY DEF Combines
      <3> HIDE DEF g
      <3>2. SumFunctionOnSet(g, S) \in Int
        BY <3>1, SumType
      <3> QED
        BY <3>2 DEF g
    <2> QED
      BY <2>1
  <1> HIDE DEF x1, x2, x3, x4, f1, f2, f3, f4, one
  <1>4. ASSUME NEW k \in S
        PROVE  /\ u[k] \in Int /\ v[k] \in Int /\ h[k] \in Int
               /\ u[k] = x1 * f1[k] + x2 * f2[k] /\ v[k] = x3 * f3[k] + x4 * f4[k]
               /\ h[k] = one * u[k] + one * v[k]
    <2> DEFINE a == x1 * f1[k] b == x2 * f2[k] c == x3 * f3[k] d == x4 * f4[k]
    <2>1. a \in Int /\ b \in Int /\ c \in Int /\ d \in Int
      BY <1>1, <1>2
    <2>2. u[k] = a + b /\ v[k] = c + d /\ h[k] = a + b + c + d
      BY <1>2
    <2> HIDE DEF a, b, c, d
    <2>3. /\ u[k] \in Int /\ v[k] \in Int /\ h[k] \in Int
          /\ h[k] = one * u[k] + one * v[k]
      BY <2>1, <2>2 DEF one
    <2> QED
      BY <2>2, <2>3 DEF a, b, c, d
  <1> HIDE DEF u, v
  <1>5. SumFunctionOnSet(u, S) = x1 * SumFunctionOnSet(f1, S) + x2 * SumFunctionOnSet(f2, S)
    BY <1>1, <1>2, <1>4, SumLinear
  <1>6. SumFunctionOnSet(v, S) = x3 * SumFunctionOnSet(f3, S) + x4 * SumFunctionOnSet(f4, S)
    BY <1>1, <1>2, <1>4, SumLinear
  <1>7. SumFunctionOnSet(h, S) = one * SumFunctionOnSet(u, S) + one * SumFunctionOnSet(v, S)
    <2>1. \A k \in S : u[k] \in Int /\ v[k] \in Int /\ h[k] = one * u[k] + one * v[k]
      BY <1>4
    <2> QED
      BY <1>1, <2>1, SumLinear
  <1> DEFINE s1 == SumFunctionOnSet(f1, S)
             s2 == SumFunctionOnSet(f2, S)
             s3 == SumFunctionOnSet(f3, S)
             s4 == SumFunctionOnSet(f4, S)
  <1>8. s1 \in Int /\ s2 \in Int /\ s3 \in Int /\ s4 \in Int
    BY <1>3 DEF f1, f2, f3, f4
  <1>9. SumFunctionOnSet(h, S) = one * (x1 * s1 + x2 * s2) + one * (x3 * s3 + x4 * s4)
    BY <1>5, <1>6, <1>7
  <1> HIDE DEF s1, s2, s3, s4
  <1>10. one * (x1 * s1 + x2 * s2) + one * (x3 * s3 + x4 * s4)
             = x1 * s1 + x2 * s2 + x3 * s3 + x4 * s4
    <2> DEFINE a == x1 * s1 b == x2 * s2 c == x3 * s3 d == x4 * s4
    <2>1. a \in Int /\ b \in Int /\ c \in Int /\ d \in Int
      BY <1>1, <1>8
    <2> HIDE DEF a, b, c, d
    <2>2. one * (a + b) + one * (c + d) = a + b + c + d
      BY <2>1 DEF one
    <2> QED
      BY <2>2 DEF a, b, c, d
  <1>11. SumFunctionOnSet(h, S) = x1 * s1 + x2 * s2 + x3 * s3 + x4 * s4
    BY <1>9, <1>10
  <1>12. \A k \in S : h[k] \in Int
    BY <1>4
  <1> QED
    BY <1>3, <1>11, <1>12 DEF x1, x2, x3, x4, s1, s2, s3, s4, f1, f2, f3, f4

\* A column of the regression, and what a combination of them gives at a point.
Feature(points, k, j) == Features(points[k])[j]

Value(points, x, k) ==
    x[1] * Feature(points, k, 1) + x[2] * Feature(points, k, 2)
    + x[3] * Feature(points, k, 3) + x[4] * Feature(points, k, 4)

\* The columns: tokens loaded, tokens computed, their product, one, the latency.
LEMMA FeatureTypes ==
    ASSUME NEW points \in Points
    PROVE  /\ IsFiniteSet(DOMAIN points)
           /\ \A k \in DOMAIN points :
                /\ \A j \in 1..5 : Feature(points, k, j) \in Nat
                /\ Feature(points, k, 3) = Feature(points, k, 1) * Feature(points, k, 2)
                /\ Feature(points, k, 4) = 1
  <1> DEFINE R == [loaded : Nat, computed : Nat, latency : Nat]
  <1>1. ASSUME NEW p \in R
        PROVE  /\ \A j \in 1..5 : Features(p)[j] \in Nat
               /\ Features(p)[3] = Features(p)[1] * Features(p)[2] /\ Features(p)[4] = 1
    <2>1. p.loaded \in Nat /\ p.computed \in Nat /\ p.latency \in Nat
      OBVIOUS
    <2>2. p.loaded * p.computed \in Nat
      BY <2>1
    <2> QED
      BY <2>1, <2>2 DEF Features
  <1>2. points \in Seq(R)
    BY DEF Points
  <1> HIDE DEF R
  <1>3. /\ DOMAIN points = 1..Len(points) /\ Len(points) \in Nat
        /\ \A k \in DOMAIN points : points[k] \in R
    BY <1>2
  <1>4. IsFiniteSet(DOMAIN points)
    BY <1>3, FS_Interval, 1 \in Int
  <1> QED
    BY <1>1, <1>3, <1>4 DEF Feature

\* The product of two columns, as a function of the point.
Square(points, i, j) ==
    [k \in DOMAIN points |-> Feature(points, k, i) * Feature(points, k, j)]

\* The normal equations are the sums of these, and symmetric.
LEMMA NormalSums ==
    ASSUME NEW points \in Points, NEW i \in 1..4, NEW j \in 1..5
    PROVE  /\ NormalEquations(points)[i][j]
                = SumFunctionOnSet(Square(points, i, j), DOMAIN points)
           /\ \A k \in DOMAIN points :
                /\ Square(points, i, j)[k] = Feature(points, k, i) * Feature(points, k, j)
                /\ Square(points, i, j)[k] \in Nat
           /\ j \in 1..4 => NormalEquations(points)[i][j] = NormalEquations(points)[j][i]
  <1>1. ASSUME NEW a \in 1..4, NEW b \in 1..5
        PROVE  NormalEquations(points)[a][b]
                   = SumFunctionOnSet(Square(points, a, b), DOMAIN points)
    <2>1. NormalEquations(points)[a][b]
              = TotalOf(points, LAMBDA p : Features(p)[a] * Features(p)[b])
      BY DEF NormalEquations
    <2>2. TotalOf(points, LAMBDA p : Features(p)[a] * Features(p)[b])
              = SumFunctionOnSet(Square(points, a, b), DOMAIN points)
      BY DEF TotalOf, SumFunction, Square, Feature
    <2> QED
      BY <2>1, <2>2
  <1>2. ASSUME NEW a \in 1..5, NEW b \in 1..5, NEW k \in DOMAIN points
        PROVE  /\ Square(points, a, b)[k] = Feature(points, k, a) * Feature(points, k, b)
               /\ Square(points, a, b)[k] \in Nat
               /\ Square(points, a, b)[k] = Square(points, b, a)[k]
    <2>1. /\ Square(points, a, b)[k] = Feature(points, k, a) * Feature(points, k, b)
          /\ Square(points, b, a)[k] = Feature(points, k, b) * Feature(points, k, a)
      BY DEF Square
    <2>2. Feature(points, k, a) \in Nat /\ Feature(points, k, b) \in Nat
      BY FeatureTypes
    <2> QED
      BY <2>1, <2>2
  <1>3. ASSUME j \in 1..4
        PROVE  NormalEquations(points)[i][j] = NormalEquations(points)[j][i]
    <2> DEFINE f == Square(points, i, j)
               g == Square(points, j, i)
    <2>1. \A k \in DOMAIN points : f[k] \in Int /\ f[k] = g[k]
      BY <1>2, i \in 1..5
    <2>2. IsFiniteSet(DOMAIN points)
      BY FeatureTypes
    <2> HIDE DEF f, g
    <2>3. SumFunctionOnSet(f, DOMAIN points) = SumFunctionOnSet(g, DOMAIN points)
      BY <2>1, <2>2, SumSame
    <2> QED
      BY <1>1, <1>3, <2>3, i \in 1..5 DEF f, g
  <1> QED
    BY <1>1, <1>2, <1>3, i \in 1..5

\* The value of a combination times a column, as a function of the point.
Weighted(points, x, j) ==
    [k \in DOMAIN points |-> Value(points, x, k) * Feature(points, k, j)]

\* A combination of the normal equations sums its value times a column.
LEMMA CombIsSum ==
    ASSUME NEW points \in Points, NEW x \in Factors, NEW j \in 1..5
    PROVE  /\ Comb(x, NormalEquations(points), j)
                = SumFunctionOnSet(Weighted(points, x, j), DOMAIN points)
           /\ \A k \in DOMAIN points : Value(points, x, k) \in Int
  <1> DEFINE S == DOMAIN points
             f == [i \in 1..4 |-> Square(points, i, j)]
             h == Weighted(points, x, j)
  <1>1. ASSUME NEW k \in S
        PROVE  /\ \A i \in 1..4 : f[i][k] \in Int
               /\ h[k] = x[1] * f[1][k] + x[2] * f[2][k] + x[3] * f[3][k] + x[4] * f[4][k]
               /\ Value(points, x, k) \in Int
    <2> DEFINE a == Feature(points, k, 1)
               b == Feature(points, k, 2)
               c == Feature(points, k, 3)
               d == Feature(points, k, 4)
               y == Feature(points, k, j)
               x1 == x[1] x2 == x[2] x3 == x[3] x4 == x[4]
    <2>1. a \in Int /\ b \in Int /\ c \in Int /\ d \in Int /\ y \in Int
      BY FeatureTypes
    <2>2. x1 \in Int /\ x2 \in Int /\ x3 \in Int /\ x4 \in Int
      BY DEF Factors
    <2>3. /\ \A i \in 1..4 : f[i][k] \in Int
          /\ f[1][k] = a * y /\ f[2][k] = b * y /\ f[3][k] = c * y /\ f[4][k] = d * y
      BY NormalSums
    <2>4. h[k] = (x1 * a + x2 * b + x3 * c + x4 * d) * y
      BY DEF Value, Weighted
    <2>5. Value(points, x, k) = x1 * a + x2 * b + x3 * c + x4 * d
      BY DEF Value
    <2> HIDE DEF a, b, c, d, y, x1, x2, x3, x4, f, h
    <2>6. (x1 * a + x2 * b + x3 * c + x4 * d) * y
              = x1 * (a * y) + x2 * (b * y) + x3 * (c * y) + x4 * (d * y)
      BY <2>1, <2>2
    <2>7. x1 * a + x2 * b + x3 * c + x4 * d \in Int
      BY <2>1, <2>2
    <2> QED
      BY <2>3, <2>4, <2>5, <2>6, <2>7 DEF x1, x2, x3, x4
  <1>2. \A i \in 1..4 : SumFunctionOnSet(f[i], S) = NormalEquations(points)[i][j]
    BY NormalSums
  <1>3. IsFiniteSet(S)
    BY FeatureTypes
  <1>4. \A k \in S : Value(points, x, k) \in Int
    BY <1>1
  <1>5. Combines(h, f, x, S)
    BY <1>1 DEF Combines
  <1> HIDE DEF f, h, S
  <1>6. SumFunctionOnSet(h, S)
            = x[1] * SumFunctionOnSet(f[1], S) + x[2] * SumFunctionOnSet(f[2], S)
              + x[3] * SumFunctionOnSet(f[3], S) + x[4] * SumFunctionOnSet(f[4], S)
    BY <1>3, <1>5, FourSums
  <1>7. SumFunctionOnSet(h, S) = Comb(x, NormalEquations(points), j)
    BY <1>2, <1>6 DEF Comb
  <1> QED
    BY <1>4, <1>7 DEF S, h

\* Factors with which the first four columns of the normal equations cancel have no
\* value at any point, as the squares of the values sum to zero; then the last column
\* cancels too.
LEMMA NoValue ==
    ASSUME NEW points \in Points, NEW x \in Factors,
           \A j \in 1..4 : Comb(x, NormalEquations(points), j) = 0
    PROVE  /\ \A k \in DOMAIN points : Value(points, x, k) = 0
           /\ \A j \in 1..5 : Comb(x, NormalEquations(points), j) = 0
  <1> DEFINE S == DOMAIN points
             f == [i \in 1..4 |-> Weighted(points, x, i)]
             h == [k \in S |-> Value(points, x, k) * Value(points, x, k)]
  <1>0. \A k \in S : Value(points, x, k) \in Int
    BY CombIsSum, 1 \in 1..5
  <1>1. ASSUME NEW k \in S
        PROVE  /\ \A i \in 1..4 : f[i][k] \in Int
               /\ h[k] = x[1] * f[1][k] + x[2] * f[2][k] + x[3] * f[3][k] + x[4] * f[4][k]
               /\ h[k] \in Nat /\ (h[k] = 0 => Value(points, x, k) = 0)
    <2> DEFINE a == Feature(points, k, 1)
               b == Feature(points, k, 2)
               c == Feature(points, k, 3)
               d == Feature(points, k, 4)
               y == Value(points, x, k)
               x1 == x[1] x2 == x[2] x3 == x[3] x4 == x[4]
    <2>1. /\ \A i \in 1..4 : Feature(points, k, i) \in Int
          /\ a \in Int /\ b \in Int /\ c \in Int /\ d \in Int /\ y \in Int
      BY <1>0, FeatureTypes
    <2>2. x1 \in Int /\ x2 \in Int /\ x3 \in Int /\ x4 \in Int
      BY DEF Factors
    <2>3. /\ \A i \in 1..4 : f[i][k] \in Int
          /\ f[1][k] = y * a /\ f[2][k] = y * b /\ f[3][k] = y * c /\ f[4][k] = y * d
      BY <2>1 DEF Weighted
    <2>4. y = x1 * a + x2 * b + x3 * c + x4 * d /\ h[k] = y * y
      BY DEF Value
    <2> HIDE DEF a, b, c, d, y, x1, x2, x3, x4, f, h
    <2>5. y * (x1 * a + x2 * b + x3 * c + x4 * d)
              = x1 * (y * a) + x2 * (y * b) + x3 * (y * c) + x4 * (y * d)
      BY <2>1, <2>2
    <2>6. y * y \in Nat /\ (y * y = 0 => y = 0)
      BY <2>1
    <2> QED
      BY <2>3, <2>4, <2>5, <2>6 DEF x1, x2, x3, x4, y
  <1>2. ASSUME NEW i \in 1..4 PROVE SumFunctionOnSet(f[i], S) = 0
    <2>1. f[i] = Weighted(points, x, i)
      OBVIOUS
    <2>2. i \in 1..5 /\ Comb(x, NormalEquations(points), i) = 0
      OBVIOUS
    <2> HIDE DEF f
    <2> QED
      BY <2>1, <2>2, CombIsSum
  <1>3. IsFiniteSet(S)
    BY FeatureTypes
  <1>4. Combines(h, f, x, S)
    BY <1>1 DEF Combines
  <1> HIDE DEF f, h
  <1>5. SumFunctionOnSet(h, S) = 0
    <2>1. SumFunctionOnSet(h, S)
              = x[1] * SumFunctionOnSet(f[1], S) + x[2] * SumFunctionOnSet(f[2], S)
                + x[3] * SumFunctionOnSet(f[3], S) + x[4] * SumFunctionOnSet(f[4], S)
      BY <1>3, <1>4, FourSums
    <2>2. x[1] \in Int /\ x[2] \in Int /\ x[3] \in Int /\ x[4] \in Int
      BY DEF Factors
    <2> QED
      BY <1>2, <2>1, <2>2
  <1>6. ASSUME NEW k \in S PROVE Value(points, x, k) = 0
    <2>1. \A i \in S : h[i] \in Nat
      BY <1>1
    <2>2. h[k] <= SumFunctionOnSet(h, S)
      BY <1>3, <2>1, SumBounds
    <2>3. h[k] = 0
      BY <1>5, <2>1, <2>2
    <2> QED
      BY <1>1, <2>3
  <1>7. ASSUME NEW j \in 1..5 PROVE Comb(x, NormalEquations(points), j) = 0
    <2> DEFINE g == Weighted(points, x, j)
    <2>1. \A k \in S : g[k] = 0
      <3>1. \A k \in S : Feature(points, k, j) \in Int
        BY FeatureTypes
      <3> QED
        BY <1>6, <3>1 DEF Weighted
    <2>2. Comb(x, NormalEquations(points), j) = SumFunctionOnSet(g, S)
      BY CombIsSum
    <2> HIDE DEF g
    <2> QED
      BY <1>3, <2>1, <2>2, SumZero
  <1> QED
    BY <1>6, <1>7

\* Four numbers, added in any order.
SameSum(f, a, b, c, d) == f[1] + f[2] + f[3] + f[4] = f[a] + f[b] + f[c] + f[d]

\* A sum of four is the sum in every order.
LEMMA AnyOrder ==
    ASSUME NEW f, NEW a \in 1..4, NEW b \in 1..4, NEW c \in 1..4, NEW d \in 1..4,
           {a, b, c, d} = 1..4, \A i \in 1..4 : f[i] \in Int
    PROVE  SameSum(f, a, b, c, d) /\ a # b /\ a # c /\ a # d /\ b # c /\ b # d /\ c # d
  <1>1. /\ f[1] \in Int /\ f[2] \in Int /\ f[3] \in Int /\ f[4] \in Int
        /\ a \in {1, 2, 3, 4} /\ b \in {1, 2, 3, 4}
        /\ c \in {1, 2, 3, 4} /\ d \in {1, 2, 3, 4}
        /\ 1 \in {a, b, c, d} /\ 2 \in {a, b, c, d} /\ 3 \in {a, b, c, d} /\ 4 \in {a, b, c, d}
    OBVIOUS
  <1>2. a # b /\ a # c /\ a # d /\ b # c /\ b # d /\ c # d
    <2>1. 1 # 2 /\ 1 # 3 /\ 1 # 4 /\ 2 # 3 /\ 2 # 4 /\ 3 # 4
      OBVIOUS
    <2> QED
      BY <1>1, <2>1
  <1>3. f[1] + f[2] + f[3] + f[4] = f[a] + f[b] + f[c] + f[d]
    <2>1. CASE a = 1
      BY <1>1, <2>1
    <2>2. CASE a = 2
      BY <1>1, <2>2
    <2>3. CASE a = 3
      BY <1>1, <2>3
    <2>4. CASE a = 4
      BY <1>1, <2>4
    <2> QED
      BY <1>1, <2>1, <2>2, <2>3, <2>4
  <1> QED
    BY <1>2, <1>3 DEF SameSum

\* A combination of rows, in any order.
InOrder(x, m, a, b, c, d, j) ==
    /\ a # b /\ a # c /\ a # d /\ b # c /\ b # d /\ c # d
    /\ Comb(x, m, j) = x[a] * m[a][j] + x[b] * m[b][j] + x[c] * m[c][j] + x[d] * m[d][j]

\* A combination of the rows does not depend on the order in which they are added.
LEMMA CombOrder ==
    ASSUME NEW x \in Factors, NEW m \in Rows, NEW j \in 1..5,
           NEW a \in 1..4, NEW b \in 1..4, NEW c \in 1..4, NEW d \in 1..4, {a, b, c, d} = 1..4
    PROVE  InOrder(x, m, a, b, c, d, j)
  <1> DEFINE f == [i \in 1..4 |-> x[i] * m[i][j]]
  <1>1. \A i \in 1..4 : f[i] \in Int /\ f[i] = x[i] * m[i][j]
    <2>1. \A i \in 1..4 : x[i] \in Int /\ m[i][j] \in Int
      BY RowTypes DEF Factors
    <2> QED
      BY <2>1
  <1>2. Comb(x, m, j) = f[1] + f[2] + f[3] + f[4]
    BY DEF Comb
  <1> HIDE DEF f
  <1>3. SameSum(f, a, b, c, d) /\ a # b /\ a # c /\ a # d /\ b # c /\ b # d /\ c # d
    BY <1>1, AnyOrder
  <1> QED
    BY <1>1, <1>2, <1>3 DEF SameSum, InOrder

\* Minors of two and three rows are integers.
LEMMA SmallMinors ==
    /\ \A u, v \in Row, p, q \in 1..5 : Minor2(u, v, p, q) \in Int
    /\ \A u, v, w \in Row, p, q, t \in 1..5 : Minor3(u, v, w, p, q, t) \in Int
  <1>1. ASSUME NEW u \in Row, NEW v \in Row, NEW w \in Row,
               NEW p \in 1..5, NEW q \in 1..5, NEW t \in 1..5
        PROVE  /\ Minor2(u, v, p, q) \in Int /\ Minor3(u, v, w, p, q, t) \in Int
               /\ Minor4(u, v, w, w, p, q, t, t) \in Int
    BY MinorTypes
  <1> QED
    BY <1>1

\* The minors, by the entries of their last columns.
Expanded(u, v, w, x, p, q, t, j) ==
    /\ Minor2(u, x, p, j) = u[p] * x[j] + (-x[p]) * u[j]
    /\ Minor3(u, v, x, p, q, j)
         = Minor2(v, x, p, q) * u[j] + (-Minor2(u, x, p, q)) * v[j] + Minor2(u, v, p, q) * x[j]
    /\ Minor4(u, v, w, x, p, q, t, j)
         = (-Minor3(v, w, x, p, q, t)) * u[j] + Minor3(u, w, x, p, q, t) * v[j]
           + (-Minor3(u, v, x, p, q, t)) * w[j] + Minor3(u, v, w, p, q, t) * x[j]

\* The minors of two, three and four rows, expanded along the last column.
LEMMA Expansion ==
    ASSUME NEW u \in Row, NEW v \in Row, NEW w \in Row, NEW x \in Row,
           NEW p \in 1..5, NEW q \in 1..5, NEW t \in 1..5, NEW j \in 1..5
    PROVE  Expanded(u, v, w, x, p, q, t, j)
  <1> DEFINE up == u[p] uq == u[q] ut == u[t] uj == u[j]
             vp == v[p] vq == v[q] vt == v[t] vj == v[j]
             wp == w[p] wq == w[q] wt == w[t] wj == w[j]
             xp == x[p] xq == x[q] xt == x[t] xj == x[j]
             m2(a, b, c, d) == a * d - b * c
             m3(a, b, c, d, e, f, g, h, k) ==
                 a * m2(e, f, h, k) - b * m2(d, f, g, k) + c * m2(d, e, g, h)
             m4(a, b, c, d, e, f, g, h, k, l, m, n, a1, b1, c1, d1) ==
                 a * m3(f, g, h, l, m, n, b1, c1, d1) - b * m3(e, g, h, k, m, n, a1, c1, d1)
                 + c * m3(e, f, h, k, l, n, a1, b1, d1) - d * m3(e, f, g, k, l, m, a1, b1, c1)
  <1>1. /\ up \in Int /\ uq \in Int /\ ut \in Int /\ uj \in Int
        /\ vp \in Int /\ vq \in Int /\ vt \in Int /\ vj \in Int
        /\ wp \in Int /\ wq \in Int /\ wt \in Int /\ wj \in Int
        /\ xp \in Int /\ xq \in Int /\ xt \in Int /\ xj \in Int
    BY DEF Row
  <1> HIDE DEF up, uq, ut, uj, vp, vq, vt, vj, wp, wq, wt, wj, xp, xq, xt, xj
  <1>2. m2(up, uj, xp, xj) = up * xj + (-xp) * uj
    BY <1>1
  <1>3. m3(up, uq, uj, vp, vq, vj, xp, xq, xj)
          = m2(vp, vq, xp, xq) * uj + (-m2(up, uq, xp, xq)) * vj
            + m2(up, uq, vp, vq) * xj
    BY <1>1
  <1>4. m4(up, uq, ut, uj, vp, vq, vt, vj, wp, wq, wt, wj, xp, xq, xt, xj)
          = (-m3(vp, vq, vt, wp, wq, wt, xp, xq, xt)) * uj
            + m3(up, uq, ut, wp, wq, wt, xp, xq, xt) * vj
            + (-m3(up, uq, ut, vp, vq, vt, xp, xq, xt)) * wj
            + m3(up, uq, ut, vp, vq, vt, wp, wq, wt) * xj
    BY <1>1
  <1> QED
    BY <1>2, <1>3, <1>4 DEF Expanded, Minor2, Minor3, Minor4,
           up, uq, ut, uj, vp, vq, vt, vj, wp, wq, wt, wj, xp, xq, xt, xj

\* A row without a pivot is a combination of the rows m.
LEMMA RowIsComb ==
    ASSUME NEW rows, NEW scale, NEW m \in Rows, NEW P \in SUBSET (1..4),
           Form(rows, scale, m, P), NEW r \in (1..4) \ P
    PROVE  \E x \in Factors : \A j \in 1..5 : rows[r][j] = Comb(x, m, j)
  <1>0. \A i \in 1..4 : m[i] \in Row
    BY RowTypes
  <1>1. \A i \in 1..4, j \in 1..5 : m[i][j] \in Int
    BY RowTypes
  <1>3. CASE P = {} /\ scale = 1 /\ rows = m
    <2> DEFINE x == [i \in 1..4 |-> IF i = r THEN 1 ELSE 0]
    <2>1. x \in Factors /\ \A i \in 1..4 : x[i] = IF i = r THEN 1 ELSE 0
      BY DEF Factors
    <2> HIDE DEF x
    <2>2. \A j \in 1..5 : rows[r][j] = Comb(x, m, j)
      <3> SUFFICES ASSUME NEW j \in 1..5 PROVE rows[r][j] = Comb(x, m, j)
        OBVIOUS
      <3>1. m[1][j] \in Int /\ m[2][j] \in Int /\ m[3][j] \in Int /\ m[4][j] \in Int
        BY <1>1
      <3>2. r \in {1, 2, 3, 4}
        OBVIOUS
      <3> QED
        BY <1>3, <2>1, <3>1, <3>2 DEF Comb
    <2> QED
      BY <2>1, <2>2
  <1>4. CASE \E a \in 1..4 : P = {a} /\ FormOne(rows, scale, m, a)
    <2>1. PICK a \in 1..4 : P = {a} /\ FormOne(rows, scale, m, a)
      BY <1>4
    <2>2. PICK b \in 1..4, c \in 1..4 : {a, b, c, r} = 1..4
      <3>1. r \in {1, 2, 3, 4} /\ a \in {1, 2, 3, 4} /\ a # r /\ 1..4 = {1, 2, 3, 4}
        BY <2>1
      <3> QED
        BY <3>1
    <2> DEFINE ka == -m[r][a]
               kr == m[a][a]
               x == [i \in 1..4 |-> IF i = a THEN ka ELSE IF i = r THEN kr ELSE 0]
    <2>3. ka \in Int /\ kr \in Int
      BY <1>1, a \in 1..5
    <2>4. x \in Factors /\ \A i \in 1..4 : x[i] = IF i = a THEN ka ELSE IF i = r THEN kr ELSE 0
      BY <2>3 DEF Factors
    <2>5. \A j \in 1..5 : rows[r][j] = kr * m[r][j] + ka * m[a][j]
      <3> SUFFICES ASSUME NEW j \in 1..5 PROVE rows[r][j] = kr * m[r][j] + ka * m[a][j]
        OBVIOUS
      <3>1. rows[r][j] = Minor2(m[a], m[r], a, j)
        BY <2>1 DEF FormOne
      <3>2. Expanded(m[a], m[a], m[a], m[r], a, a, a, j)
        BY <1>0, Expansion, a \in 1..5
      <3> QED
        BY <3>1, <3>2 DEF Expanded
    <2> HIDE DEF ka, kr, x
    <2>6. \A j \in 1..5 : rows[r][j] = Comb(x, m, j)
      <3> SUFFICES ASSUME NEW j \in 1..5 PROVE rows[r][j] = Comb(x, m, j)
        OBVIOUS
      <3>1. InOrder(x, m, a, b, c, r, j)
        BY <2>2, <2>4, CombOrder
      <3>2. m[a][j] \in Int /\ m[b][j] \in Int /\ m[c][j] \in Int /\ m[r][j] \in Int
        BY <1>1
      <3>3. x[a] = ka /\ x[b] = 0 /\ x[c] = 0 /\ x[r] = kr
        BY <2>4, <3>1 DEF InOrder
      <3>4. Comb(x, m, j) = ka * m[a][j] + 0 * m[b][j] + 0 * m[c][j] + kr * m[r][j]
        BY <3>1, <3>3 DEF InOrder
      <3> QED
        BY <2>3, <2>5, <3>2, <3>4
    <2> QED
      BY <2>4, <2>6
  <1>5. CASE \E a, b \in 1..4 : a # b /\ P = {a, b} /\ FormTwo(rows, scale, m, a, b)
    <2>1. PICK a \in 1..4, b \in 1..4 : a # b /\ P = {a, b} /\ FormTwo(rows, scale, m, a, b)
      BY <1>5
    <2>2. PICK c \in 1..4 : {a, b, c, r} = 1..4
      <3>1. /\ r \in {1, 2, 3, 4} /\ a \in {1, 2, 3, 4} /\ b \in {1, 2, 3, 4}
            /\ a # r /\ b # r /\ a # b /\ 1..4 = {1, 2, 3, 4}
        BY <2>1
      <3> QED
        BY <3>1
    <2> DEFINE ka == Minor2(m[b], m[r], a, b)
               kb == -Minor2(m[a], m[r], a, b)
               kr == Minor2(m[a], m[b], a, b)
               x == [i \in 1..4 |-> IF i = a THEN ka ELSE IF i = b THEN kb
                                    ELSE IF i = r THEN kr ELSE 0]
    <2>3. ka \in Int /\ kb \in Int /\ kr \in Int
      <3>1. /\ Minor2(m[b], m[r], a, b) \in Int /\ Minor2(m[a], m[r], a, b) \in Int
            /\ Minor2(m[a], m[b], a, b) \in Int
        BY <1>0, SmallMinors, a \in 1..5, b \in 1..5
      <3> QED
        BY <3>1
    <2>4. /\ x \in Factors
          /\ \A i \in 1..4 : x[i] = IF i = a THEN ka ELSE IF i = b THEN kb
                                    ELSE IF i = r THEN kr ELSE 0
      BY <2>3 DEF Factors
    <2>5. \A j \in 1..5 : rows[r][j] = ka * m[a][j] + kb * m[b][j] + kr * m[r][j]
      <3> SUFFICES ASSUME NEW j \in 1..5
                   PROVE  rows[r][j] = ka * m[a][j] + kb * m[b][j] + kr * m[r][j]
        OBVIOUS
      <3>1. rows[r][j] = Minor3(m[a], m[b], m[r], a, b, j)
        BY <2>1 DEF FormTwo
      <3>2. Expanded(m[a], m[b], m[a], m[r], a, b, a, j)
        BY <1>0, Expansion, a \in 1..5, b \in 1..5
      <3> QED
        BY <3>1, <3>2 DEF Expanded
    <2> HIDE DEF ka, kb, kr, x
    <2>6. \A j \in 1..5 : rows[r][j] = Comb(x, m, j)
      <3> SUFFICES ASSUME NEW j \in 1..5 PROVE rows[r][j] = Comb(x, m, j)
        OBVIOUS
      <3>1. InOrder(x, m, a, b, c, r, j)
        BY <2>2, <2>4, CombOrder
      <3>2. m[a][j] \in Int /\ m[b][j] \in Int /\ m[c][j] \in Int /\ m[r][j] \in Int
        BY <1>1
      <3>3. x[a] = ka /\ x[b] = kb /\ x[c] = 0 /\ x[r] = kr
        BY <2>4, <3>1 DEF InOrder
      <3>4. Comb(x, m, j) = ka * m[a][j] + kb * m[b][j] + 0 * m[c][j] + kr * m[r][j]
        BY <3>1, <3>3 DEF InOrder
      <3> QED
        BY <2>3, <2>5, <3>2, <3>4
    <2> QED
      BY <2>4, <2>6
  <1>6. CASE \E a, b, d \in 1..4 :
              a # b /\ d \notin {a, b} /\ P = {a, b, d} /\ FormThree(rows, scale, m, a, b, d)
    <2>1. PICK a \in 1..4, b \in 1..4, c \in 1..4 :
              a # b /\ c \notin {a, b} /\ P = {a, b, c} /\ FormThree(rows, scale, m, a, b, c)
      BY <1>6
    <2>2. {a, b, c, r} = 1..4
      BY <2>1
    <2> DEFINE ka == -Minor3(m[b], m[c], m[r], a, b, c)
               kb == Minor3(m[a], m[c], m[r], a, b, c)
               kc == -Minor3(m[a], m[b], m[r], a, b, c)
               kr == Minor3(m[a], m[b], m[c], a, b, c)
               x == [i \in 1..4 |-> IF i = a THEN ka ELSE IF i = b THEN kb
                                    ELSE IF i = c THEN kc ELSE kr]
    <2>3. ka \in Int /\ kb \in Int /\ kc \in Int /\ kr \in Int
      <3>1. /\ Minor3(m[b], m[c], m[r], a, b, c) \in Int
            /\ Minor3(m[a], m[c], m[r], a, b, c) \in Int
            /\ Minor3(m[a], m[b], m[r], a, b, c) \in Int
            /\ Minor3(m[a], m[b], m[c], a, b, c) \in Int
        BY <1>0, SmallMinors, a \in 1..5, b \in 1..5, c \in 1..5
      <3> QED
        BY <3>1
    <2>4. /\ x \in Factors
          /\ \A i \in 1..4 : x[i] = IF i = a THEN ka ELSE IF i = b THEN kb
                                    ELSE IF i = c THEN kc ELSE kr
      BY <2>3 DEF Factors
    <2>5. \A j \in 1..5 : rows[r][j] = ka * m[a][j] + kb * m[b][j] + kc * m[c][j] + kr * m[r][j]
      <3> SUFFICES ASSUME NEW j \in 1..5
                   PROVE  rows[r][j] = ka * m[a][j] + kb * m[b][j] + kc * m[c][j] + kr * m[r][j]
        OBVIOUS
      <3>1. rows[r][j] = Minor4(m[a], m[b], m[c], m[r], a, b, c, j)
        BY <2>1 DEF FormThree
      <3>2. Expanded(m[a], m[b], m[c], m[r], a, b, c, j)
        BY <1>0, Expansion, a \in 1..5, b \in 1..5, c \in 1..5
      <3> QED
        BY <3>1, <3>2 DEF Expanded
    <2> HIDE DEF ka, kb, kc, kr, x
    <2>6. \A j \in 1..5 : rows[r][j] = Comb(x, m, j)
      <3> SUFFICES ASSUME NEW j \in 1..5 PROVE rows[r][j] = Comb(x, m, j)
        OBVIOUS
      <3>1. InOrder(x, m, a, b, c, r, j)
        BY <2>2, <2>4, CombOrder
      <3>3. x[a] = ka /\ x[b] = kb /\ x[c] = kc /\ x[r] = kr
        BY <2>4, <3>1 DEF InOrder
      <3>4. Comb(x, m, j) = ka * m[a][j] + kb * m[b][j] + kc * m[c][j] + kr * m[r][j]
        BY <3>1, <3>3 DEF InOrder
      <3> QED
        BY <2>5, <3>4
    <2> QED
      BY <2>4, <2>6
  <1>7. P # 1..4
    OBVIOUS
  <1> QED
    BY <1>3, <1>4, <1>5, <1>6, <1>7 DEF Form

\* Minors with a row of zeros.
LEMMA ZeroMinors ==
    ASSUME NEW x \in Row, \A j \in 1..5 : x[j] = 0
    PROVE  /\ \A u \in Row, p, q \in 1..5 : Minor2(u, x, p, q) = 0
           /\ \A u, v \in Row, p, q, t \in 1..5 : Minor3(u, v, x, p, q, t) = 0
           /\ \A u, v, w \in Row, p, q, t, j \in 1..5 : Minor4(u, v, w, x, p, q, t, j) = 0
  <1>0. \A u \in Row, p \in 1..5 : u[p] \in Int
    BY DEF Row
  <1>1. ASSUME NEW u \in Row, NEW p \in 1..5, NEW q \in 1..5 PROVE Minor2(u, x, p, q) = 0
    <2>1. u[p] \in Int /\ u[q] \in Int /\ x[p] = 0 /\ x[q] = 0
      BY <1>0
    <2> QED
      BY <2>1 DEF Minor2
  <1>2. ASSUME NEW u \in Row, NEW v \in Row, NEW p \in 1..5, NEW q \in 1..5, NEW t \in 1..5
        PROVE  Minor3(u, v, x, p, q, t) = 0
    <2>1. Minor2(v, x, q, t) = 0 /\ Minor2(v, x, p, t) = 0 /\ Minor2(v, x, p, q) = 0
      BY <1>1
    <2>2. u[p] \in Int /\ u[q] \in Int /\ u[t] \in Int
      BY <1>0
    <2> QED
      BY <2>1, <2>2 DEF Minor3
  <1>3. ASSUME NEW u \in Row, NEW v \in Row, NEW w \in Row,
               NEW p \in 1..5, NEW q \in 1..5, NEW t \in 1..5, NEW j \in 1..5
        PROVE  Minor4(u, v, w, x, p, q, t, j) = 0
    <2>1. /\ Minor3(v, w, x, q, t, j) = 0 /\ Minor3(v, w, x, p, t, j) = 0
          /\ Minor3(v, w, x, p, q, j) = 0 /\ Minor3(v, w, x, p, q, t) = 0
      BY <1>2
    <2>2. u[p] \in Int /\ u[q] \in Int /\ u[t] \in Int /\ u[j] \in Int
      BY <1>0
    <2> QED
      BY <2>1, <2>2 DEF Minor4
  <1> QED
    BY <1>1, <1>2, <1>3

\* A row of zeros stays one while it has no pivot.
LEMMA ZeroRow ==
    ASSUME NEW rows, NEW scale, NEW m \in Rows, NEW P \in SUBSET (1..4),
           Form(rows, scale, m, P), NEW r \in (1..4) \ P, \A j \in 1..5 : m[r][j] = 0
    PROVE  \A j \in 1..5 : rows[r][j] = 0
  <1> SUFFICES ASSUME NEW j \in 1..5 PROVE rows[r][j] = 0
    OBVIOUS
  <1>1. /\ \A i \in 1..4 : m[i] \in Row
        /\ \A u \in Row, p, q \in 1..5 : Minor2(u, m[r], p, q) = 0
        /\ \A u, v \in Row, p, q, t \in 1..5 : Minor3(u, v, m[r], p, q, t) = 0
        /\ \A u, v, w \in Row, p, q, t, k \in 1..5 : Minor4(u, v, w, m[r], p, q, t, k) = 0
    BY RowTypes, ZeroMinors
  <1>3. CASE P = {} /\ scale = 1 /\ rows = m
    BY <1>3
  <1>4. CASE \E a \in 1..4 : P = {a} /\ FormOne(rows, scale, m, a)
    <2>1. PICK a \in 1..4 : P = {a} /\ FormOne(rows, scale, m, a)
      BY <1>4
    <2>2. rows[r][j] = Minor2(m[a], m[r], a, j)
      BY <2>1 DEF FormOne
    <2>3. m[a] \in Row /\ a \in 1..5
      BY <1>1
    <2> QED
      BY <1>1, <2>2, <2>3
  <1>5. CASE \E a, b \in 1..4 : a # b /\ P = {a, b} /\ FormTwo(rows, scale, m, a, b)
    <2>1. PICK a \in 1..4, b \in 1..4 : P = {a, b} /\ FormTwo(rows, scale, m, a, b)
      BY <1>5
    <2>2. rows[r][j] = Minor3(m[a], m[b], m[r], a, b, j)
      BY <2>1 DEF FormTwo
    <2>3. m[a] \in Row /\ m[b] \in Row /\ a \in 1..5 /\ b \in 1..5
      BY <1>1
    <2> QED
      BY <1>1, <2>2, <2>3
  <1>6. CASE \E a, b, d \in 1..4 :
              a # b /\ d \notin {a, b} /\ P = {a, b, d} /\ FormThree(rows, scale, m, a, b, d)
    <2>1. PICK a \in 1..4, b \in 1..4, d \in 1..4 :
              P = {a, b, d} /\ FormThree(rows, scale, m, a, b, d)
      BY <1>6
    <2>2. rows[r][j] = Minor4(m[a], m[b], m[d], m[r], a, b, d, j)
      BY <2>1 DEF FormThree
    <2>3. /\ m[a] \in Row /\ m[b] \in Row /\ m[d] \in Row
          /\ a \in 1..5 /\ b \in 1..5 /\ d \in 1..5
      BY <1>1
    <2>4. \A p, q, t, k \in 1..5 : Minor4(m[a], m[b], m[d], m[r], p, q, t, k) = 0
      BY <1>1, <2>3
    <2> QED
      BY <2>2, <2>3, <2>4
  <1>7. P # 1..4
    OBVIOUS
  <1> QED
    BY <1>3, <1>4, <1>5, <1>6, <1>7 DEF Form

\* A row without a pivot is a combination of the first rows.
LEMMA RowWithin ==
    ASSUME NEW s, NEW m, NEW n, NEW P, NEW c, At(s, m, n, P, c), NEW r \in (1..4) \ P
    PROVE  \E x \in Factors : \A j \in 1..5 : s.rows[r][j] = Comb(x, n, j)
  <1>1. PICK y \in Factors : \A j \in 1..5 : s.rows[r][j] = Comb(y, m, j)
    BY RowIsComb DEF At
  <1>2. PICK x \in Factors : \A j \in 1..5 : Comb(y, m, j) = Comb(x, n, j)
    BY DEF At, Within
  <1>3. \A j \in 1..5 : s.rows[r][j] = Comb(x, n, j)
    BY <1>1, <1>2
  <1> QED
    BY <1>3

\* So it has no entry in a column that has none, and none for the latency if it has
\* no other.
LEMMA ZeroColumn ==
    ASSUME NEW s, NEW m, NEW n, NEW P, NEW c, At(s, m, n, P, c), NEW r \in (1..4) \ P,
           NEW j \in 1..5, \A i \in 1..4 : n[i][j] = 0
    PROVE  s.rows[r][j] = 0
  <1>1. PICK x \in Factors : \A i \in 1..5 : s.rows[r][i] = Comb(x, n, i)
    BY RowWithin
  <1>2. \A i \in 1..4 : x[i] \in Int
    BY DEF Factors
  <1> QED
    BY <1>1, <1>2 DEF Comb

\* A row without a pivot whose four entries are zero has nothing on the right either.
LEMMA LastColumn ==
    ASSUME NEW points \in Points, NEW s, NEW m, NEW P, NEW c,
           At(s, m, NormalEquations(points), P, c), NEW r \in (1..4) \ P,
           \A j \in 1..4 : s.rows[r][j] = 0
    PROVE  s.rows[r][5] = 0
  <1>1. PICK x \in Factors : \A j \in 1..5 : s.rows[r][j] = Comb(x, NormalEquations(points), j)
    BY RowWithin
  <1>2. \A j \in 1..4 : Comb(x, NormalEquations(points), j) = 0
    BY <1>1
  <1>3. Comb(x, NormalEquations(points), 5) = 0
    BY <1>2, NoValue, 5 \in 1..5
  <1> QED
    BY <1>1, <1>3, 5 \in 1..5

\* Factors that solve the rows, when column k has entries in the rows of pivots only.
Null(s, P, k) ==
    [i \in 1..4 |-> IF i \in P THEN s.rows[i][k] ELSE IF i = k THEN -s.scale ELSE 0]

\* The numbers with which a combination of columns is taken.
Padded(x) == [i \in 1..5 |-> IF i = 5 THEN 0 ELSE x[i]]

\* Those factors solve the normal equations, with nothing on the right.
LEMMA NullSolves ==
    ASSUME NEW s, NEW m, NEW n, NEW P, NEW c, At(s, m, n, P, c), NEW k \in (1..4) \ P,
           \A r \in (1..4) \ P : s.rows[r][k] = 0
    PROVE  /\ Null(s, P, k) \in Factors /\ Padded(Null(s, P, k)) \in Row
           /\ Solves(Padded(Null(s, P, k)), n)
  <1> DEFINE x == Null(s, P, k)
             z == Padded(x)
             d == s.scale
  <1>1. s.rows \in Rows /\ d \in Int /\ -d \in Int /\ P \in SUBSET (1..4)
    BY DEF At, Tableau
  <1>2. /\ \A i \in 1..4, j \in 1..5 : s.rows[i][j] \in Int
        /\ \A p \in P, r \in 1..4 : s.rows[r][p] = IF r = p THEN d ELSE 0
    BY <1>1, RowTypes DEF At
  <1>3. /\ x \in Factors
        /\ \A i \in P : x[i] = s.rows[i][k]
        /\ x[k] = -d /\ \A i \in (1..4) \ P : i # k => x[i] = 0
    BY <1>1, <1>2, k \in 1..5 DEF Null, Factors
  <1> HIDE DEF x
  <1>4. /\ z \in Row /\ z[1] = x[1] /\ z[2] = x[2] /\ z[3] = x[3] /\ z[4] = x[4] /\ z[5] = 0
        /\ \A i \in 1..4 : x[i] \in Int
    BY <1>3 DEF Padded, Row, Factors
  <1> HIDE DEF z, d
  <1>5. ASSUME NEW r \in 1..4 PROVE Dot(z, s.rows[r]) = 0
    <2> DEFINE f == [i \in 1..4 |-> x[i] * s.rows[r][i]]
    <2>1. \A i \in 1..4 : f[i] = x[i] * s.rows[r][i] /\ s.rows[r][i] \in Int
      BY <1>2
    <2>2. Dot(z, s.rows[r]) = f[1] + f[2] + f[3] + f[4] /\ \A i \in 1..4 : f[i] \in Int
      <3>1. f[1] \in Int /\ f[2] \in Int /\ f[3] \in Int /\ f[4] \in Int
        BY <1>4, <2>1
      <3>2. s.rows[r][5] \in Int
        BY <1>2
      <3>3. Dot(z, s.rows[r]) = f[1] + f[2] + f[3] + f[4] + 0 * s.rows[r][5]
        BY <1>4, <2>1 DEF Dot
      <3> HIDE DEF f
      <3> QED
        BY <3>1, <3>2, <3>3
    <2> HIDE DEF f
    <2>3. CASE r \notin P
      <3>1. ASSUME NEW i \in 1..4 PROVE f[i] = 0
        <4>1. x[i] \in Int /\ f[i] = x[i] * s.rows[r][i]
          BY <1>4, <2>1
        <4>2. CASE i \in P
          <5>1. s.rows[r][i] = 0
            BY <1>2, <2>3, <4>2
          <5> QED
            BY <4>1, <5>1
        <4>3. CASE i = k
          <5>1. s.rows[r][i] = 0
            BY <2>3, <4>3
          <5> QED
            BY <4>1, <5>1
        <4>4. CASE i \notin P /\ i # k
          <5>1. x[i] = 0 /\ s.rows[r][i] \in Int
            BY <1>3, <2>1, <4>4
          <5> QED
            BY <4>1, <5>1
        <4> QED
          BY <4>2, <4>3, <4>4
      <3> QED
        BY <2>2, <3>1
    <2>4. CASE r \in P
      <3>1. PICK a \in 1..4, b \in 1..4 : {r, k, a, b} = 1..4
        <4>1. r \in {1, 2, 3, 4} /\ k \in {1, 2, 3, 4} /\ r # k /\ 1..4 = {1, 2, 3, 4}
          BY <2>4
        <4> QED
          BY <4>1
      <3>2. SameSum(f, r, k, a, b) /\ a \notin {r, k} /\ b \notin {r, k}
        BY <2>2, <3>1, AnyOrder
      <3>3. \A i \in 1..4 : i \notin {r, k} => f[i] = 0
        <4> SUFFICES ASSUME NEW i \in 1..4, i \notin {r, k} PROVE f[i] = 0
          OBVIOUS
        <4>1. CASE i \in P
          BY <1>2, <1>4, <2>1, <4>1
        <4>2. CASE i \notin P
          BY <1>3, <2>1, <4>2
        <4> QED
          BY <4>1, <4>2
      <3>4. f[r] + f[k] = 0
        <4> DEFINE y == s.rows[r][k]
        <4>1. f[r] = y * d /\ f[k] = (-d) * y
          BY <1>2, <1>3, <2>1, <2>4
        <4>2. y \in Int
          BY <2>1
        <4> HIDE DEF y
        <4> QED
          BY <1>1, <4>1, <4>2
      <3>5. f[r] \in Int /\ f[k] \in Int
        BY <2>2, <2>4
      <3>6. f[1] + f[2] + f[3] + f[4] = f[r] + f[k] + 0 + 0
        BY <3>2, <3>3 DEF SameSum
      <3> QED
        BY <2>2, <3>4, <3>5, <3>6
    <2> QED
      BY <2>3, <2>4
  <1>6. Solves(z, s.rows)
    BY <1>5 DEF Solves
  <1>7. Solves(z, n)
    BY <1>4, <1>6 DEF At
  <1> QED
    BY <1>3, <1>4, <1>7 DEF x, z

\* With these the columns of the normal equations cancel, and at every point they
\* have no value.
Cancels(points, x) ==
    /\ x \in Factors
    /\ \A j \in 1..5 : Comb(x, NormalEquations(points), j) = 0
    /\ \A k \in DOMAIN points : Value(points, x, k) = 0

\* A column that was skipped gives factors that cancel the normal equations.
LEMMA NullCancels ==
    ASSUME NEW points \in Points, NEW s, NEW m, NEW P, NEW c,
           At(s, m, NormalEquations(points), P, c), NEW k \in (1..4) \ P,
           \A r \in (1..4) \ P : s.rows[r][k] = 0
    PROVE  Cancels(points, Null(s, P, k))
  <1> DEFINE n == NormalEquations(points)
             x == Null(s, P, k)
             z == Padded(x)
  <1>1. x \in Factors /\ z \in Row /\ Solves(z, n)
    BY NullSolves
  <1>2. /\ z[1] = x[1] /\ z[2] = x[2] /\ z[3] = x[3] /\ z[4] = x[4] /\ z[5] = 0
        /\ x[1] \in Int /\ x[2] \in Int /\ x[3] \in Int /\ x[4] \in Int
    BY <1>1 DEF Padded, Factors
  <1> HIDE DEF x, z
  <1>3. ASSUME NEW i \in 1..4 PROVE Comb(x, n, i) = 0
    <2>1. n[1][i] = n[i][1] /\ n[2][i] = n[i][2] /\ n[3][i] = n[i][3] /\ n[4][i] = n[i][4]
      BY NormalSums, 1 \in 1..4, 2 \in 1..4, 3 \in 1..4, 4 \in 1..4
    <2>2. \A j \in 1..5 : n[i][j] \in Int
      BY NormalTypes, RowTypes
    <2> HIDE DEF n
    <2>3. Dot(z, n[i]) = 0
      BY <1>1 DEF Solves
    <2> DEFINE a == x[1] * n[1][i] b == x[2] * n[2][i] e == x[3] * n[3][i] d == x[4] * n[4][i]
    <2>4. a \in Int /\ b \in Int /\ e \in Int /\ d \in Int /\ n[i][5] \in Int
      BY <1>2, <2>1, <2>2
    <2>5. Dot(z, n[i]) = a + b + e + d + 0 * n[i][5]
      BY <1>2, <2>1 DEF Dot
    <2>6. Comb(x, n, i) = a + b + e + d
      BY DEF Comb
    <2> HIDE DEF a, b, e, d
    <2> QED
      BY <2>3, <2>4, <2>5, <2>6
  <1>4. Cancels(points, x)
    BY <1>1, <1>3, NoValue DEF Cancels
  <1> QED
    BY <1>4 DEF x

\* A column of the regression that is zero at every point.
Silent(points, i) == \A k \in DOMAIN points : Feature(points, k, i) = 0

\* Its sum of squares is zero only for such a column.
LEMMA NoFeature ==
    ASSUME NEW points \in Points, NEW i \in 1..4, NormalEquations(points)[i][i] = 0
    PROVE  Silent(points, i)
  <1> DEFINE f == Square(points, i, i)
  <1>1. \A k \in DOMAIN points :
          f[k] \in Nat /\ f[k] = Feature(points, k, i) * Feature(points, k, i)
    BY NormalSums, i \in 1..5
  <1>2. SumFunctionOnSet(f, DOMAIN points) = 0
    BY NormalSums, i \in 1..5
  <1>3. IsFiniteSet(DOMAIN points) /\ \A k \in DOMAIN points : Feature(points, k, i) \in Nat
    BY FeatureTypes, i \in 1..5
  <1> HIDE DEF f
  <1>4. ASSUME NEW k \in DOMAIN points PROVE Feature(points, k, i) = 0
    <2>1. f[k] <= 0
      BY <1>1, <1>2, <1>3, SumBounds
    <2>2. f[k] = 0
      BY <1>1, <2>1
    <2> QED
      BY <1>1, <1>3, <2>2
  <1> QED
    BY <1>4 DEF Silent

\* It leaves its row and its column of the normal equations without entries.
LEMMA SilentEntries ==
    ASSUME NEW points \in Points, NEW i \in 1..4, Silent(points, i)
    PROVE  /\ \A j \in 1..5 : NormalEquations(points)[i][j] = 0
           /\ \A j \in 1..4 : NormalEquations(points)[j][i] = 0
  <1>1. ASSUME NEW j \in 1..5 PROVE NormalEquations(points)[i][j] = 0
    <2> DEFINE f == Square(points, i, j)
    <2>1. \A k \in DOMAIN points : f[k] = 0
      <3> SUFFICES ASSUME NEW k \in DOMAIN points PROVE f[k] = 0
        OBVIOUS
      <3>1. f[k] = Feature(points, k, i) * Feature(points, k, j)
        BY NormalSums
      <3>2. Feature(points, k, i) = 0 /\ Feature(points, k, j) \in Nat
        BY FeatureTypes DEF Silent
      <3> QED
        BY <3>1, <3>2
    <2>2. NormalEquations(points)[i][j] = SumFunctionOnSet(f, DOMAIN points)
      BY NormalSums
    <2>3. IsFiniteSet(DOMAIN points)
      BY FeatureTypes
    <2> HIDE DEF f
    <2> QED
      BY <2>1, <2>2, <2>3, SumZero
  <1>2. ASSUME NEW j \in 1..4 PROVE NormalEquations(points)[j][i] = 0
    <2>1. NormalEquations(points)[j][i] = NormalEquations(points)[i][j]
      BY NormalSums, i \in 1..5
    <2> QED
      BY <1>1, <2>1
  <1> QED
    BY <1>1, <1>2

\* The factors k cancel the rows u, v, w, x.
Cancelled(u, v, w, x, ka, kb, kc, kd) ==
    \A j \in 1..5 : ka * u[j] + kb * v[j] + kc * w[j] + kd * x[j] = 0

\* Then they cancel minors, too.
LEMMA CancelOne ==
    ASSUME NEW u \in Row, NEW v \in Row, NEW w \in Row, NEW x \in Row,
           NEW ka \in Int, NEW kb \in Int, NEW kc \in Int, NEW kd \in Int,
           Cancelled(u, v, w, x, ka, kb, kc, kd)
    PROVE  \A p, j \in 1..5 :
             kb * Minor2(u, v, p, j) + kc * Minor2(u, w, p, j) + kd * Minor2(u, x, p, j) = 0
  <1> SUFFICES ASSUME NEW p \in 1..5, NEW j \in 1..5
               PROVE  kb * Minor2(u, v, p, j) + kc * Minor2(u, w, p, j)
                          + kd * Minor2(u, x, p, j) = 0
    OBVIOUS
  <1> DEFINE up == u[p] uj == u[j] vp == v[p] vj == v[j]
             wp == w[p] wj == w[j] xp == x[p] xj == x[j]
             ep == ka * up + kb * vp + kc * wp + kd * xp
             ej == ka * uj + kb * vj + kc * wj + kd * xj
  <1>1. /\ up \in Int /\ uj \in Int /\ vp \in Int /\ vj \in Int
        /\ wp \in Int /\ wj \in Int /\ xp \in Int /\ xj \in Int
    BY DEF Row
  <1>2. ep = 0 /\ ej = 0
    BY DEF Cancelled
  <1> HIDE DEF up, uj, vp, vj, wp, wj, xp, xj
  <1>3. kb * (up * vj - uj * vp) + kc * (up * wj - uj * wp) + kd * (up * xj - uj * xp)
            = up * ej - uj * ep
    BY <1>1
  <1> HIDE DEF ep, ej
  <1>4. up * ej - uj * ep = 0
    BY <1>1, <1>2
  <1> QED
    BY <1>3, <1>4 DEF Minor2, up, uj, vp, vj, wp, wj, xp, xj

\* When factors cancel four rows, those of the last two cancel minors with the first two.
LEMMA CancelTwo ==
    ASSUME NEW u \in Row, NEW v \in Row, NEW w \in Row, NEW x \in Row,
           NEW ka \in Int, NEW kb \in Int, NEW kc \in Int, NEW kd \in Int,
           Cancelled(u, v, w, x, ka, kb, kc, kd)
    PROVE  \A p, q, j \in 1..5 :
             kc * Minor3(u, v, w, p, q, j) + kd * Minor3(u, v, x, p, q, j) = 0
  <1> SUFFICES ASSUME NEW p \in 1..5, NEW q \in 1..5, NEW j \in 1..5
               PROVE  kc * Minor3(u, v, w, p, q, j) + kd * Minor3(u, v, x, p, q, j) = 0
    OBVIOUS
  <1> DEFINE up == u[p] uq == u[q] uj == u[j] vp == v[p] vq == v[q] vj == v[j]
             wp == w[p] wq == w[q] wj == w[j] xp == x[p] xq == x[q] xj == x[j]
             ep == ka * up + kb * vp + kc * wp + kd * xp
             eq == ka * uq + kb * vq + kc * wq + kd * xq
             ej == ka * uj + kb * vj + kc * wj + kd * xj
  <1>1. /\ up \in Int /\ uq \in Int /\ uj \in Int /\ vp \in Int /\ vq \in Int /\ vj \in Int
        /\ wp \in Int /\ wq \in Int /\ wj \in Int /\ xp \in Int /\ xq \in Int /\ xj \in Int
    BY DEF Row
  <1>2. ep = 0 /\ eq = 0 /\ ej = 0
    BY DEF Cancelled
  <1> HIDE DEF up, uq, uj, vp, vq, vj, wp, wq, wj, xp, xq, xj
  <1>3. kc * (up * (vq * wj - vj * wq) - uq * (vp * wj - vj * wp) + uj * (vp * wq - vq * wp))
            + kd * (up * (vq * xj - vj * xq) - uq * (vp * xj - vj * xp)
                    + uj * (vp * xq - vq * xp))
            = (uq * vj - uj * vq) * ep - (up * vj - uj * vp) * eq + (up * vq - uq * vp) * ej
    BY <1>1
  <1> HIDE DEF ep, eq, ej
  <1>4. (uq * vj - uj * vq) * ep - (up * vj - uj * vp) * eq + (up * vq - uq * vp) * ej = 0
    BY <1>1, <1>2
  <1> QED
    BY <1>3, <1>4 DEF Minor2, Minor3, up, uq, uj, vp, vq, vj, wp, wq, wj, xp, xq, xj

\* Factors that cancel the rows m cancel the rows without a pivot.
CancelRows(y, m) == y \in Factors /\ \A j \in 1..5 : Comb(y, m, j) = 0

\* Factors that cancel the rows do so in every order of the rows.
LEMMA CancelOrder ==
    ASSUME NEW y, NEW m \in Rows, CancelRows(y, m),
           NEW a \in 1..4, NEW b \in 1..4, NEW c \in 1..4, NEW d \in 1..4, {a, b, c, d} = 1..4
    PROVE  /\ Cancelled(m[a], m[b], m[c], m[d], y[a], y[b], y[c], y[d])
           /\ y[a] \in Int /\ y[b] \in Int /\ y[c] \in Int /\ y[d] \in Int
           /\ m[a] \in Row /\ m[b] \in Row /\ m[c] \in Row /\ m[d] \in Row
           /\ a # b /\ a # c /\ a # d /\ b # c /\ b # d /\ c # d
  <1>1. y \in Factors /\ \A j \in 1..5 : Comb(y, m, j) = 0
    BY DEF CancelRows
  <1>2. \A j \in 1..5 : InOrder(y, m, a, b, c, d, j)
    BY <1>1, CombOrder
  <1>3. Cancelled(m[a], m[b], m[c], m[d], y[a], y[b], y[c], y[d])
    BY <1>1, <1>2 DEF InOrder, Cancelled
  <1>4. InOrder(y, m, a, b, c, d, 1)
    BY <1>2, 1 \in 1..5
  <1> QED
    BY <1>1, <1>3, <1>4, RowTypes DEF InOrder, Factors

\* After the first pivot, the factors of the other rows cancel what is left of them.
LEMMA RelatedOne ==
    ASSUME NEW rows, NEW scale, NEW m \in Rows, Form(rows, scale, m, {1}),
           NEW y, CancelRows(y, m)
    PROVE  \A j \in 1..5 : y[2] * rows[2][j] + y[3] * rows[3][j] + y[4] * rows[4][j] = 0
  <1>1. FormOne(rows, scale, m, 1)
    <2>1. \A a, b \in 1..4 : a # b => {1} # {a, b}
      OBVIOUS
    <2>2. {1} # {} /\ {1} # 1..4 /\ \A a \in 1..4 : {1} = {a} => a = 1
      OBVIOUS
    <2>3. \A a, b, d \in 1..4 : a # b => {1} # {a, b, d}
      OBVIOUS
    <2> QED
      BY <2>1, <2>2, <2>3 DEF Form
  <1>2. {1, 2, 3, 4} = 1..4
    OBVIOUS
  <1>3. /\ Cancelled(m[1], m[2], m[3], m[4], y[1], y[2], y[3], y[4])
        /\ y[1] \in Int /\ y[2] \in Int /\ y[3] \in Int /\ y[4] \in Int
        /\ m[1] \in Row /\ m[2] \in Row /\ m[3] \in Row /\ m[4] \in Row
    BY <1>2, CancelOrder
  <1>4. \A p, j \in 1..5 : y[2] * Minor2(m[1], m[2], p, j) + y[3] * Minor2(m[1], m[3], p, j)
                               + y[4] * Minor2(m[1], m[4], p, j) = 0
    BY <1>3, CancelOne
  <1>5. \A r \in {2, 3, 4}, j \in 1..5 : rows[r][j] = Minor2(m[1], m[r], 1, j)
    BY <1>1 DEF FormOne
  <1> QED
    BY <1>4, <1>5, 1 \in 1..5

\* After two pivots, the factors of the two rows left cancel what is left of them.
LEMMA RelatedTwo ==
    ASSUME NEW rows, NEW scale, NEW m \in Rows, NEW P, Form(rows, scale, m, P),
           NEW r \in 1..4, NEW k \in 1..4, r # k, P = (1..4) \ {r, k},
           NEW y, CancelRows(y, m)
    PROVE  \A j \in 1..5 : y[r] * rows[r][j] + y[k] * rows[k][j] = 0
  <1>0. r \in {1, 2, 3, 4} /\ k \in {1, 2, 3, 4} /\ 1..4 = {1, 2, 3, 4}
    OBVIOUS
  <1>1. PICK a \in 1..4, b \in 1..4 : {a, b, r, k} = 1..4 /\ FormTwo(rows, scale, m, a, b)
    <2>1. PICK i \in 1..4, l \in 1..4 : i # l /\ {i, l} = P
      BY <1>0
    <2>2. P # {} /\ P # 1..4 /\ \A a \in 1..4 : P # {a}
      BY <2>1
    <2>3. \A a, b, d \in 1..4 : a # b /\ d \notin {a, b} => P # {a, b, d}
      BY <2>1
    <2>4. PICK a \in 1..4, b \in 1..4 : a # b /\ P = {a, b} /\ FormTwo(rows, scale, m, a, b)
      BY <2>2, <2>3 DEF Form
    <2>5. {a, b, r, k} = 1..4
      BY <2>4
    <2> QED
      BY <2>4, <2>5
  <1>2. /\ Cancelled(m[a], m[b], m[r], m[k], y[a], y[b], y[r], y[k])
        /\ y[a] \in Int /\ y[b] \in Int /\ y[r] \in Int /\ y[k] \in Int
        /\ m[a] \in Row /\ m[b] \in Row /\ m[r] \in Row /\ m[k] \in Row
        /\ a # b /\ a # r /\ a # k /\ b # r /\ b # k /\ r # k
    BY <1>1, CancelOrder
  <1>3. \A p, q, j \in 1..5 :
            y[r] * Minor3(m[a], m[b], m[r], p, q, j)
              + y[k] * Minor3(m[a], m[b], m[k], p, q, j) = 0
    <2> DEFINE u == m[a] v == m[b] w == m[r] x == m[k]
               ka == y[a] kb == y[b] kc == y[r] kd == y[k]
    <2>1. /\ Cancelled(u, v, w, x, ka, kb, kc, kd)
          /\ ka \in Int /\ kb \in Int /\ kc \in Int /\ kd \in Int
          /\ u \in Row /\ v \in Row /\ w \in Row /\ x \in Row
      BY <1>2
    <2> HIDE DEF u, v, w, x, ka, kb, kc, kd
    <2>2. \A p, q, j \in 1..5 :
              kc * Minor3(u, v, w, p, q, j) + kd * Minor3(u, v, x, p, q, j) = 0
      BY <2>1, CancelTwo
    <2> QED
      BY <2>2 DEF u, v, w, x, kc, kd
  <1>4. \A i \in {r, k}, j \in 1..5 : rows[i][j] = Minor3(m[a], m[b], m[i], a, b, j)
    <2>1. r \in (1..4) \ {a, b} /\ k \in (1..4) \ {a, b}
      BY <1>2
    <2> QED
      BY <1>1, <2>1 DEF FormTwo
  <1> QED
    BY <1>3, <1>4, a \in 1..5, b \in 1..5

\* Numbers w that have one value W wherever c is not zero: their sum is at least what
\* they have there, as that of w * (Q - T * c)^2 is not negative.
Spread(w, Q, T, c, S) == [k \in S |-> w[k] * ((Q - T * c[k]) * (Q - T * c[k]))]

\* The inequality, for numbers on any finite set.
LEMMA Concentrated ==
    ASSUME NEW S, IsFiniteSet(S), NEW w, NEW c, NEW d, NEW W \in Int,
           \A k \in S : /\ w[k] \in Nat /\ c[k] \in Int
                        /\ d[k] = c[k] * c[k] /\ w[k] * c[k] = W * c[k],
           SumFunctionOnSet(d, S) # 0
    PROVE  SumFunctionOnSet(d, S) * SumFunctionOnSet(w, S)
               >= W * (SumFunctionOnSet(c, S) * SumFunctionOnSet(c, S))
  <1> DEFINE Q == SumFunctionOnSet(d, S)
             T == SumFunctionOnSet(c, S)
             A == SumFunctionOnSet(w, S)
             h == Spread(w, Q, T, c, S)
             f == <<w, c, d, d>>
             x1 == Q * Q
             x2 == (-2) * (Q * (T * W))
             x3 == T * (T * W)
             x == [i \in 1..4 |-> IF i = 1 THEN x1 ELSE IF i = 2 THEN x2
                                  ELSE IF i = 3 THEN x3 ELSE 0]
  <1>1. \A k \in S : w[k] \in Nat /\ w[k] \in Int /\ c[k] \in Int /\ d[k] \in Nat /\ d[k] \in Int
    <2> SUFFICES ASSUME NEW k \in S PROVE w[k] \in Nat /\ c[k] \in Int /\ d[k] \in Nat
      OBVIOUS
    <2>1. w[k] \in Nat /\ c[k] \in Int /\ d[k] = c[k] * c[k]
      OBVIOUS
    <2>2. c[k] * c[k] \in Nat
      BY <2>1
    <2> QED
      BY <2>1, <2>2
  <1>2. Q \in Nat /\ T \in Int /\ A \in Int
    <2>1. SumFunctionOnSet(d, S) \in Nat
      BY <1>1, SumType
    <2>2. SumFunctionOnSet(c, S) \in Int /\ SumFunctionOnSet(w, S) \in Int
      BY <1>1, SumType
    <2> QED
      BY <2>1, <2>2
  <1>3. x1 \in Int /\ x2 \in Int /\ x3 \in Int
    <2>1. Q \in Int /\ T * W \in Int
      BY <1>2
    <2>2. Q * (T * W) \in Int
      BY <2>1
    <2> QED
      BY <1>2, <2>1, <2>2
  <1>4. x \in Factors /\ x[1] = x1 /\ x[2] = x2 /\ x[3] = x3 /\ x[4] = 0
    BY <1>3 DEF Factors
  <1>5. f[1] = w /\ f[2] = c /\ f[3] = d /\ f[4] = d
    OBVIOUS
  <1>6. Q > 0
    BY <1>2
  <1> HIDE DEF Q, T, A, f, x
  <1>7. ASSUME NEW k \in S
        PROVE  /\ \A i \in 1..4 : f[i][k] \in Int
               /\ h[k] = x[1] * f[1][k] + x[2] * f[2][k] + x[3] * f[3][k] + x[4] * f[4][k]
               /\ h[k] \in Nat
    <2> DEFINE v == w[k]
               e == c[k]
    <2>1. v \in Nat /\ e \in Int /\ d[k] = e * e /\ v * e = W * e
      OBVIOUS
    <2>2. h[k] = v * ((Q - T * e) * (Q - T * e))
      BY DEF Spread
    <2>3. \A i \in 1..4 : f[i][k] \in Int
      <3>1. 1..4 = {1, 2, 3, 4}
        OBVIOUS
      <3> QED
        BY <1>1, <1>5, <3>1
    <2> HIDE DEF v, e, h, x1, x2, x3
    <2>4. v * ((Q - T * e) * (Q - T * e))
              = (Q * Q) * v + (-2) * (Q * T) * (v * e) + (T * T) * ((v * e) * e)
      BY <1>2, <2>1
    <2>5. (-2) * (Q * T) * (W * e) = x2 * e /\ (T * T) * ((W * e) * e) = x3 * (e * e)
      BY <1>2, <2>1 DEF x2, x3
    <2>6. h[k] = x1 * v + x2 * e + x3 * (e * e)
      BY <2>1, <2>2, <2>4, <2>5 DEF x1
    <2>7. h[k] = x1 * v + x2 * e + x3 * d[k] + 0 * d[k]
      <3>1. d[k] \in Int /\ d[k] = e * e
        BY <1>1, <2>1
      <3>2. x1 * v \in Int /\ x2 * e \in Int /\ x3 * d[k] \in Int
        BY <1>3, <2>1, <3>1
      <3> QED
        BY <2>6, <3>1, <3>2
    <2>8. h[k] \in Nat
      <3> DEFINE g == Q - T * e
      <3>1. g \in Int
        BY <1>2, <2>1
      <3>2. h[k] = v * (g * g)
        BY <2>2
      <3> HIDE DEF g
      <3>3. g * g \in Nat
        BY <3>1
      <3> QED
        BY <2>1, <3>2, <3>3
    <2> QED
      BY <1>4, <1>5, <2>3, <2>7, <2>8 DEF v, e
  <1>8. Combines(h, f, x, S)
    BY <1>7 DEF Combines
  <1>9. \A k \in S : h[k] \in Nat /\ h[k] \in Int
    BY <1>7
  <1> HIDE DEF h, x1, x2, x3
  <1>10. SumFunctionOnSet(h, S) = x1 * A + x2 * T + x3 * Q + 0 * Q
    <2>1. SumFunctionOnSet(h, S)
              = x[1] * SumFunctionOnSet(f[1], S) + x[2] * SumFunctionOnSet(f[2], S)
                + x[3] * SumFunctionOnSet(f[3], S) + x[4] * SumFunctionOnSet(f[4], S)
      BY <1>4, <1>8, FourSums
    <2> QED
      BY <1>4, <1>5, <2>1 DEF Q, T, A
  <1>11. SumFunctionOnSet(h, S) \in Nat
    BY <1>9, SumType
  <1>12. x1 * A + x2 * T + x3 * Q + 0 * Q = Q * (Q * A - W * (T * T))
    BY <1>2 DEF x1, x2, x3
  <1> DEFINE g == Q * A - W * (T * T)
  <1>13. g \in Int
    <2>1. Q * A \in Int /\ T * T \in Int
      BY <1>2
    <2>2. W * (T * T) \in Int
      BY <2>1
    <2> QED
      BY <2>1, <2>2
  <1>14. Q * g \in Nat
    BY <1>10, <1>11, <1>12
  <1>15. g >= 0
    <2> HIDE DEF g
    <2>1. SUFFICES ASSUME g < 0 PROVE FALSE
      BY <1>13
    <2>2. Q * g < 0
      BY <1>2, <1>6, <1>13, <2>1
    <2> QED
      BY <1>14, <2>2
  <1>16. Q * A >= W * (T * T)
    <2>1. Q * A \in Int /\ T * T \in Int
      BY <1>2
    <2>2. W * (T * T) \in Int
      BY <2>1
    <2> QED
      BY <1>15, <2>1, <2>2
  <1> QED
    BY <1>16 DEF Q, T, A

\* What a column's square exceeds the column by: the tokens loaded are natural numbers.
Excess(points) ==
    [k \in DOMAIN points |->
        Feature(points, k, 1) * Feature(points, k, 1) - Feature(points, k, 1)]

\* The excess is nowhere negative, and its sum is what the first entry of the normal
\* equations has over the last of that row.
LEMMA ExcessSum ==
    ASSUME NEW points \in Points
    PROVE  /\ \A k \in DOMAIN points : Excess(points)[k] \in Nat
           /\ SumFunctionOnSet(Excess(points), DOMAIN points) \in Nat
           /\ SumFunctionOnSet(Excess(points), DOMAIN points)
                = NormalEquations(points)[1][1] - NormalEquations(points)[1][4]
  <1> DEFINE S == DOMAIN points
             h == Excess(points)
             f == Square(points, 1, 1)
             d == Square(points, 1, 4)
             one == 1
             less == -1
  <1>1. IsFiniteSet(S)
    BY FeatureTypes
  <1>2. ASSUME NEW k \in S
        PROVE  /\ f[k] \in Int /\ d[k] \in Int /\ h[k] \in Nat
               /\ h[k] = one * f[k] + less * d[k]
    <2> DEFINE a == Feature(points, k, 1)
    <2>1. a \in Nat /\ Feature(points, k, 4) = 1
      BY FeatureTypes, 1 \in 1..5
    <2>2. f[k] = a * a /\ d[k] = a * 1 /\ h[k] = a * a - a
      <3>1. f[k] = a * a /\ d[k] = a * Feature(points, k, 4)
        BY NormalSums, 1 \in 1..4, 1 \in 1..5, 4 \in 1..5
      <3>2. h[k] = a * a - a
        BY DEF Excess
      <3> QED
        BY <2>1, <3>1, <3>2
    <2> HIDE DEF a, f, d, h
    <2>3. a * a - a \in Nat
      <3>1. a * a - a = a * (a - 1)
        BY <2>1
      <3>2. CASE a = 0
        BY <3>2
      <3>3. CASE a > 0
        <4>1. a - 1 \in Nat
          BY <2>1, <3>3
        <4> QED
          BY <2>1, <3>1, <4>1
      <3> QED
        BY <2>1, <3>2, <3>3
    <2> QED
      BY <2>1, <2>2, <2>3
  <1>3. /\ SumFunctionOnSet(f, S) = NormalEquations(points)[1][1]
        /\ SumFunctionOnSet(d, S) = NormalEquations(points)[1][4]
    BY NormalSums, 1 \in 1..4, 1 \in 1..5, 4 \in 1..5
  <1> HIDE DEF h, f, d
  <1>4. SumFunctionOnSet(h, S) = one * SumFunctionOnSet(f, S) + less * SumFunctionOnSet(d, S)
    <2>1. \A k \in S : f[k] \in Int /\ d[k] \in Int /\ h[k] = one * f[k] + less * d[k]
      BY <1>2
    <2>2. one \in Int /\ less \in Int
      OBVIOUS
    <2> HIDE DEF one, less, S
    <2> QED
      BY <1>1, <2>1, <2>2, SumLinear
  <1>5. SumFunctionOnSet(f, S) \in Int /\ SumFunctionOnSet(d, S) \in Int
    BY <1>1, <1>2, SumType
  <1>6. SumFunctionOnSet(h, S) \in Nat
    BY <1>1, <1>2, SumType
  <1> QED
    BY <1>2, <1>3, <1>4, <1>5, <1>6 DEF h

\* So the first pivot is not in the last row.
LEMMA FirstPivot ==
    ASSUME NEW points \in Points
    PROVE  PivotRow(NormalEquations(points), 1) \in 1..3
  <1> DEFINE n == NormalEquations(points)
             q == PivotRow(n, 1)
  <1>1. n \in Rows
    BY NormalTypes
  <1>2. q \in 1..4 /\ (1 < q => Magnitude(n[1][1]) < Magnitude(n[q][1]))
    BY <1>1, PivotLeft, 1 \in 1..4
  <1>3. n[1][1] \in Nat /\ n[1][4] \in Nat /\ n[4][1] = n[1][4]
    <2>1. ASSUME NEW i \in 1..4 PROVE n[1][i] \in Nat /\ n[1][i] = n[i][1]
      <3> DEFINE f == Square(points, 1, i)
      <3>1. \A k \in DOMAIN points : f[k] \in Nat /\ f[k] \in Int
        BY NormalSums, 1 \in 1..4
      <3>2. n[1][i] = SumFunctionOnSet(f, DOMAIN points) /\ n[1][i] = n[i][1]
        BY NormalSums, 1 \in 1..4
      <3>3. IsFiniteSet(DOMAIN points)
        BY FeatureTypes
      <3> HIDE DEF f, n
      <3> QED
        BY <3>1, <3>2, <3>3, SumType
    <2> QED
      BY <2>1
  <1>4. n[1][1] - n[1][4] \in Nat
    BY ExcessSum
  <1> HIDE DEF n, q
  <1>5. q # 4
    BY <1>2, <1>3, <1>4 DEF Magnitude
  <1>6. q \in 1..3
    BY <1>2, <1>5
  <1> QED
    BY <1>6 DEF q, n

\* The columns that were skipped have no entry in the rows that have no pivot.
Pairs(s, P) == \A r, k \in (1..4) \ P : r < k => s.rows[r][k] = 0

\* The numbers the elimination ends with.
Answer(s) == [i \in 1..5 |-> IF i = 5 THEN -s.scale ELSE s.rows[i][5]]

\* They solve the normal equations when that is so: then the rows without a pivot are
\* zero, and the others name one unknown each.
LEMMA PairsSolve ==
    ASSUME NEW points \in Points, NEW s, NEW m, NEW P,
           At(s, m, NormalEquations(points), P, 5), Pairs(s, P)
    PROVE  Answer(s) \in Row /\ Solves(Answer(s), NormalEquations(points))
  <1> DEFINE n == NormalEquations(points)
             z == Answer(s)
             d == s.scale
  <1>1. s.rows \in Rows /\ d \in Int /\ -d \in Int /\ P \in SUBSET (1..4)
    BY DEF At, Tableau
  <1>2. /\ \A i \in 1..4, j \in 1..5 : s.rows[i][j] \in Int
        /\ \A p \in P, r \in 1..4 : s.rows[r][p] = IF r = p THEN d ELSE 0
    BY <1>1, RowTypes DEF At
  <1>3. /\ z \in Row /\ z[5] = -d /\ \A i \in 1..4 : z[i] = s.rows[i][5] /\ z[i] \in Int
    BY <1>1, <1>2 DEF Answer, Row
  <1> HIDE DEF z, d
  <1>4. ASSUME NEW r \in (1..4) \ P, NEW j \in 1..4 PROVE s.rows[r][j] = 0
    <2>1. CASE j \in P
      BY <1>2, <2>1
    <2>2. CASE j \notin P /\ r < j
      BY <2>2 DEF Pairs
    <2>3. CASE j \notin P /\ ~(r < j)
      <3>1. r \in j..4 /\ j < 5 /\ j \in (1..4) \ P
        BY <2>3
      <3> QED
        BY <3>1 DEF At
    <2> QED
      BY <2>1, <2>2, <2>3
  <1>5. ASSUME NEW r \in (1..4) \ P PROVE s.rows[r][5] = 0
    BY <1>4, LastColumn
  <1>6. ASSUME NEW r \in 1..4 PROVE Dot(z, s.rows[r]) = 0
    <2> DEFINE f == [i \in 1..4 |-> z[i] * s.rows[r][i]]
               y == s.rows[r][5]
    <2>1. \A i \in 1..4 : f[i] = z[i] * s.rows[r][i] /\ s.rows[r][i] \in Int
      BY <1>2
    <2>2. /\ Dot(z, s.rows[r]) = f[1] + f[2] + f[3] + f[4] + (-d) * y
          /\ f[1] \in Int /\ f[2] \in Int /\ f[3] \in Int /\ f[4] \in Int /\ y \in Int
      <3>1. f[1] \in Int /\ f[2] \in Int /\ f[3] \in Int /\ f[4] \in Int
        BY <1>3, <2>1
      <3>2. y \in Int
        BY <1>2
      <3> QED
        BY <1>3, <2>1, <3>1, <3>2 DEF Dot
    <2> HIDE DEF f
    <2>3. CASE r \notin P
      <3>1. \A i \in 1..4 : f[i] = 0
        BY <1>3, <1>4, <2>1, <2>3
      <3>2. y = 0
        BY <1>5, <2>3
      <3> QED
        BY <1>1, <2>2, <3>1, <3>2
    <2>4. CASE r \in P
      <3>1. ASSUME NEW i \in 1..4, i # r PROVE f[i] = 0
        <4>1. CASE i \in P
          BY <1>2, <1>3, <2>1, <3>1, <4>1
        <4>2. CASE i \notin P
          BY <1>3, <1>5, <2>1, <4>2
        <4> QED
          BY <4>1, <4>2
      <3>2. f[r] = y * d
        BY <1>2, <1>3, <2>1, <2>4
      <3> HIDE DEF y
      <3>3. f[1] + f[2] + f[3] + f[4] = y * d
        <4>1. r \in {1, 2, 3, 4} /\ y * d \in Int
          BY <1>1, <2>2
        <4> QED
          BY <3>1, <3>2, <4>1
      <3> QED
        BY <1>1, <2>2, <3>3
    <2> QED
      BY <2>3, <2>4
  <1>7. Solves(z, n)
    BY <1>3, <1>6 DEF Solves, At
  <1> QED
    BY <1>3, <1>7 DEF z

\* A turn takes the factors along.
LEMMA TurnCancels ==
    ASSUME NEW m \in Rows, NEW c \in 1..4, NEW q \in 1..4, NEW e \in Signs,
           NEW x, CancelRows(x, m)
    PROVE  CancelRows(TurnFour(x, c, q, e), Turn(m, c, q, e))
  <1>1. x \in Factors /\ \A j \in 1..5 : Comb(x, m, j) = 0
    BY DEF CancelRows
  <1>2. /\ TurnFour(x, c, q, e) \in Factors
        /\ \A j \in 1..5 : Comb(TurnFour(x, c, q, e), Turn(m, c, q, e), j) = Comb(x, m, j)
    BY <1>1, CombTurns
  <1> QED
    BY <1>1, <1>2 DEF CancelRows

\* With one column skipped there are no pairs; with two there is one, and its entry is
\* zero if a factor is not.
LEMMA OneLeft ==
    ASSUME NEW s, NEW P, NEW r, (1..4) \ P \subseteq {r}
    PROVE  Pairs(s, P)
  <1>1. \A i, k \in (1..4) \ P : i = k
    OBVIOUS
  <1>2. \A i \in (1..4) \ P : ~(i < i)
    OBVIOUS
  <1> QED
    BY <1>1, <1>2 DEF Pairs

\* Two rows are left, and the factor of the first is not zero: its entry is zero.
LEMMA TwoLeft ==
    ASSUME NEW s, NEW m, NEW n, NEW P, At(s, m, n, P, 5),
           NEW r \in 1..4, NEW k \in 1..4, r < k, P = (1..4) \ {r, k},
           NEW y, CancelRows(y, m), y[r] # 0
    PROVE  Pairs(s, P)
  <1>1. s.rows \in Rows /\ m \in Rows /\ Form(s.rows, s.scale, m, P)
    BY DEF At, Tableau
  <1>2. r # k /\ k \in 1..5
    OBVIOUS
  <1>3. y[r] * s.rows[r][k] + y[k] * s.rows[k][k] = 0
    <2>1. \A j \in 1..5 : y[r] * s.rows[r][j] + y[k] * s.rows[k][j] = 0
      BY <1>1, <1>2, RelatedTwo
    <2> QED
      BY <1>2, <2>1
  <1>4. s.rows[k][k] = 0
    <2>1. k \in (1..4) \ P /\ k < 5 /\ k \in k..4
      OBVIOUS
    <2> QED
      BY <2>1 DEF At
  <1>5. y[r] \in Int /\ y[k] \in Int /\ s.rows[r][k] \in Int
    BY <1>1, <1>2, RowTypes DEF CancelRows, Factors
  <1>6. y[r] * s.rows[r][k] = 0
    <2> DEFINE g == y[r] * s.rows[r][k]
    <2>1. g \in Int
      BY <1>5
    <2>2. g + y[k] * 0 = 0
      BY <1>3, <1>4
    <2> HIDE DEF g
    <2>3. g = 0
      BY <1>5, <2>1, <2>2
    <2> QED
      BY <2>3 DEF g
  <1>7. s.rows[r][k] = 0
    BY <1>5, <1>6, ZeroFactor
  <1>8. \A i, j \in (1..4) \ P : i < j => i = r /\ j = k
    BY <1>2
  <1> QED
    BY <1>7, <1>8 DEF Pairs

\* The rows after the first pivot.
LEMMA FormOfOne ==
    ASSUME NEW rows, NEW scale, NEW m, Form(rows, scale, m, {1})
    PROVE  FormOne(rows, scale, m, 1)
  <1>1. \A a, b \in 1..4 : a # b => {1} # {a, b}
    OBVIOUS
  <1>2. {1} # {} /\ {1} # 1..4 /\ \A a \in 1..4 : {1} = {a} => a = 1
    OBVIOUS
  <1>3. \A a, b, d \in 1..4 : a # b => {1} # {a, b, d}
    OBVIOUS
  <1> QED
    BY <1>1, <1>2, <1>3 DEF Form

\* If the first pivot was in row a, the first row has an entry in column a: the sum of
\* the squares of a column that is not zero.
LEMMA SwapEntry ==
    ASSUME NEW points \in Points, NEW s, NEW a \in 2..4, NEW e \in Signs, NEW c,
           At(s, Turn(NormalEquations(points), 1, a, e), NormalEquations(points), {1}, c)
    PROVE  s.rows[1][a] # 0
  <1> DEFINE n == NormalEquations(points)
             m == Turn(n, 1, a, e)
  <1>1. /\ a \in 1..4 /\ a \in 1..5 /\ n \in Rows
        /\ s.scale \in Nat \ {0} /\ Form(s.rows, s.scale, m, {1})
    BY NormalTypes DEF At, Tableau
  <1>2. IsTurn(m, n, 1, a, e)
    BY <1>1, TurnFacts, 1 \in 1..4
  <1> HIDE DEF m
  <1>3. FormOne(s.rows, s.scale, m, 1)
    BY <1>1, FormOfOne
  <1>4. s.scale = e * n[a][1] /\ s.rows[1][a] = e * n[a][a]
    BY <1>1, <1>2, <1>3, 1 \in 1..5 DEF FormOne, IsTurn
  <1>5. n[a][1] \in Int /\ n[a][a] \in Int
    BY <1>1, RowTypes, 1 \in 1..5
  <1>6. n[a][a] # 0
    <2>1. SUFFICES ASSUME n[a][a] = 0 PROVE FALSE
      OBVIOUS
    <2>2. Silent(points, a)
      BY <1>1, <2>1, NoFeature
    <2>3. n[a][1] = 0
      BY <1>1, <2>2, SilentEntries, 1 \in 1..5
    <2>4. s.scale = e * 0
      BY <1>4, <2>3
    <2> QED
      BY <1>1, <2>4 DEF Signs
  <1> HIDE DEF n
  <1>7. s.rows[1][a] = n[a][a] \/ s.rows[1][a] = -n[a][a]
    BY <1>4, <1>5 DEF Signs
  <1> QED
    BY <1>5, <1>6, <1>7

\* The factors of a skipped column, in the order of the rows after the first turn.
LEMMA FirstCancels ==
    ASSUME NEW points \in Points, NEW s, NEW m, NEW P, NEW c,
           At(s, m, NormalEquations(points), P, c), NEW k \in (1..4) \ P,
           \A r \in (1..4) \ P : s.rows[r][k] = 0,
           NEW a \in 1..4, NEW e \in Signs
    PROVE  CancelRows(TurnFour(Null(s, P, k), 1, a, e), Turn(NormalEquations(points), 1, a, e))
  <1>1. Cancels(points, Null(s, P, k))
    BY NullCancels
  <1>2. CancelRows(Null(s, P, k), NormalEquations(points))
    BY <1>1 DEF Cancels, CancelRows
  <1>3. NormalEquations(points) \in Rows
    BY NormalTypes
  <1> QED
    BY <1>2, <1>3, TurnCancels, 1 \in 1..4

\* After one pivot the second column is skipped.
LEMMA SecondColumn ==
    ASSUME NEW s, NEW m, NEW n, NEW c \in 3..5, At(s, m, n, {1}, c)
    PROVE  /\ \A r \in (1..4) \ {1} : s.rows[r][2] = 0
           /\ 2 \in (1..4) \ {1} /\ s.scale \in Nat \ {0} /\ s.rows \in Rows
           /\ Null(s, {1}, 2) = [i \in 1..4 |-> IF i = 1 THEN s.rows[1][2]
                                                ELSE IF i = 2 THEN -s.scale ELSE 0]
  <1>1. 2 \in (1..4) \ {1} /\ 2 < c
    OBVIOUS
  <1>2. \A r \in 2..4 : s.rows[r][2] = 0
    BY <1>1 DEF At
  <1>3. s.scale \in Nat \ {0} /\ s.rows \in Rows
    BY DEF At, Tableau
  <1> QED
    BY <1>1, <1>2, <1>3 DEF Null

\* When the second column is skipped, its factors, turned as the rows were, cancel them.
LEMMA SecondFactor ==
    ASSUME NEW points \in Points, NEW s, NEW a \in 1..3, NEW e \in Signs, NEW c \in 3..5,
           At(s, Turn(NormalEquations(points), 1, a, e), NormalEquations(points), {1}, c)
    PROVE  \E y : /\ CancelRows(y, Turn(NormalEquations(points), 1, a, e))
                  /\ y = TurnFour(Null(s, {1}, 2), 1, a, e) /\ y[2] # 0
  <1> DEFINE x == Null(s, {1}, 2)
             y == TurnFour(x, 1, a, e)
  <1>1. /\ \A r \in (1..4) \ {1} : s.rows[r][2] = 0
        /\ 2 \in (1..4) \ {1} /\ s.scale \in Nat \ {0}
        /\ x = [i \in 1..4 |-> IF i = 1 THEN s.rows[1][2] ELSE IF i = 2 THEN -s.scale ELSE 0]
    BY SecondColumn
  <1>2. CancelRows(y, Turn(NormalEquations(points), 1, a, e))
    BY <1>1, FirstCancels
  <1>3. y[2] # 0
    <2>1. x[1] = s.rows[1][2] /\ x[2] = -s.scale
      BY <1>1
    <2>2. y[2] = IF a = 2 THEN x[1] ELSE x[2]
      BY DEF TurnFour
    <2>3. a = 2 => s.rows[1][2] # 0
      BY SwapEntry
    <2> HIDE DEF x, y
    <2> QED
      BY <1>1, <2>1, <2>2, <2>3
  <1> QED
    BY <1>2, <1>3

\* A sum with a single product that may not be zero.
LEMMA SingleTerm ==
    ASSUME NEW k \in Int, NEW g \in Int, NEW h \in Int, NEW l \in Int
    PROVE  k * g + h * 0 + l * 0 = k * g /\ k * g + 0 * h = k * g /\ 0 * h + k * g = k * g
  <1> DEFINE p == k * g
  <1>1. p \in Int
    OBVIOUS
  <1> HIDE DEF p
  <1>2. p + h * 0 + l * 0 = p /\ p + 0 * h = p /\ 0 * h + p = p
    BY <1>1
  <1> QED
    BY <1>2 DEF p

\* When all columns but the first are skipped.
LEMMA ThreeLeft ==
    ASSUME NEW points \in Points, NEW s, NEW a \in 1..3, NEW e \in Signs,
           At(s, Turn(NormalEquations(points), 1, a, e), NormalEquations(points), {1}, 5)
    PROVE  Pairs(s, {1})
  <1> DEFINE n == NormalEquations(points)
             m == Turn(n, 1, a, e)
             x == Null(s, {1}, 2)
             y == TurnFour(x, 1, a, e)
             v == Null(s, {1}, 3)
             w == TurnFour(v, 1, a, e)
             d == s.scale
             R == s.rows
  <1>1. /\ R \in Rows /\ d \in Nat \ {0} /\ Form(R, d, m, {1}) /\ m \in Rows
        /\ \A i \in 1..4, j \in 1..5 : R[i][j] \in Int
    BY RowTypes DEF At, Tableau
  <1>2. /\ R[2][2] = 0 /\ R[3][2] = 0 /\ R[4][2] = 0
        /\ R[3][3] = 0 /\ R[4][3] = 0 /\ R[4][4] = 0
    <2>1. \A z \in (1..4) \ {1} : \A r \in z..4 : R[r][z] = 0
      <3>1. \A z \in (1..4) \ {1} : z < 5
        OBVIOUS
      <3> QED
        BY <3>1 DEF At
    <2>2. /\ 2 \in (1..4) \ {1} /\ 3 \in (1..4) \ {1} /\ 4 \in (1..4) \ {1}
          /\ 2 \in 2..4 /\ 3 \in 2..4 /\ 4 \in 2..4 /\ 3 \in 3..4 /\ 4 \in 3..4 /\ 4 \in 4..4
      OBVIOUS
    <2> HIDE DEF R
    <2> QED
      BY <2>1, <2>2
  <1>3. /\ CancelRows(y, m) /\ y[2] # 0
        /\ x = [i \in 1..4 |-> IF i = 1 THEN R[1][2] ELSE IF i = 2 THEN -d ELSE 0]
    <2>1. 5 \in 3..5
      OBVIOUS
    <2> QED
      BY <2>1, SecondFactor, SecondColumn
  <1>4. y[2] \in Int /\ y[3] \in Int /\ y[4] \in Int
    BY <1>3 DEF CancelRows, Factors
  <1>5. \A j \in 1..5 : y[2] * R[2][j] + y[3] * R[3][j] + y[4] * R[4][j] = 0
    BY <1>1, <1>3, RelatedOne
  <1>6. R[2][3] = 0
    <2> DEFINE g == y[2]
               k == R[2][3]
    <2>1. g * k + y[3] * 0 + y[4] * 0 = 0
      BY <1>2, <1>5, 3 \in 1..5
    <2>2. g \in Int /\ k \in Int /\ g # 0
      BY <1>1, <1>3, <1>4, 3 \in 1..5
    <2> DEFINE h == y[3]
               l == y[4]
    <2>3. g * k + h * 0 + l * 0 = 0 /\ h \in Int /\ l \in Int
      BY <1>4, <2>1
    <2> HIDE DEF g, k, h, l
    <2>4. g * k + h * 0 + l * 0 = g * k
      BY <2>2, <2>3, SingleTerm
    <2>5. g * k = 0
      BY <2>3, <2>4
    <2>6. k = 0
      BY <2>2, <2>5, ZeroFactor
    <2> QED
      BY <2>6 DEF k
  <1>7. \A r \in (1..4) \ {1} : R[r][3] = 0
    BY <1>2, <1>6
  <1>8. CancelRows(w, m)
    <2>1. 3 \in (1..4) \ {1}
      OBVIOUS
    <2> QED
      BY <1>7, <2>1, FirstCancels
  <1>9. v = [i \in 1..4 |-> IF i = 1 THEN R[1][3] ELSE IF i = 3 THEN -d ELSE 0]
    BY DEF Null
  <1>10. \A j \in 1..5 : w[2] * R[2][j] + w[3] * R[3][j] + w[4] * R[4][j] = 0
    BY <1>1, <1>8, RelatedOne
  <1>11. (a = 2 => R[1][2] # 0) /\ (a = 3 => R[1][3] # 0)
    BY SwapEntry
  <1>12. /\ y[2] = (IF a = 2 THEN x[1] ELSE x[2]) /\ y[3] = (IF a = 3 THEN x[1] ELSE x[3])
         /\ w[2] = (IF a = 2 THEN v[1] ELSE v[2]) /\ w[3] = (IF a = 3 THEN v[1] ELSE v[3])
    BY DEF TurnFour
  <1>13. /\ x[1] = R[1][2] /\ x[2] = -d /\ x[3] = 0 /\ v[1] = R[1][3] /\ v[2] = 0 /\ v[3] = -d
    BY <1>3, <1>9
  <1>14. w[4] \in Int
    BY <1>8 DEF CancelRows, Factors
  <1> DEFINE g == R[2][4]
             h == R[3][4]
             p == R[1][2]
             q == R[1][3]
  <1>15. g \in Int /\ h \in Int /\ p \in Int /\ q \in Int /\ -d \in Int /\ -d # 0
    BY <1>1
  <1>16. y[2] * g + y[3] * h + y[4] * 0 = 0 /\ w[2] * g + w[3] * h + w[4] * 0 = 0
    BY <1>2, <1>5, <1>10, 4 \in 1..5
  <1> DEFINE f == -d
  <1>17. /\ y[2] = (IF a = 2 THEN p ELSE f) /\ y[3] = (IF a = 3 THEN p ELSE 0)
         /\ w[2] = (IF a = 2 THEN q ELSE 0) /\ w[3] = (IF a = 3 THEN q ELSE f)
    BY <1>12, <1>13
  <1>18. (a = 2 => p # 0) /\ (a = 3 => q # 0) /\ f \in Int /\ f # 0
    BY <1>11, <1>15
  <1> DEFINE i == y[2] j == y[3] l == w[2] o == w[3]
  <1> HIDE DEF g, h, p, q, f, x, y, v, w, d
  <1>19. i * g + j * h = 0 /\ l * g + o * h = 0
    <2> DEFINE r == i * g + j * h
               u == l * g + o * h
    <2>1. w[2] \in Int /\ w[3] \in Int
      BY <1>8 DEF CancelRows, Factors
    <2>2. i \in Int /\ j \in Int /\ l \in Int /\ o \in Int
      BY <1>4, <2>1
    <2>3. r + y[4] * 0 = 0 /\ u + w[4] * 0 = 0
      BY <1>16
    <2> HIDE DEF i, j, l, o
    <2>4. r \in Int /\ u \in Int
      BY <1>15, <2>2
    <2> HIDE DEF r, u
    <2>5. r = 0 /\ u = 0
      BY <1>4, <1>14, <2>3, <2>4
    <2> QED
      BY <2>5 DEF r, u
  <1> HIDE DEF i, j, l, o
  <1>20. /\ i = (IF a = 2 THEN p ELSE f) /\ j = (IF a = 3 THEN p ELSE 0)
         /\ l = (IF a = 2 THEN q ELSE 0) /\ o = (IF a = 3 THEN q ELSE f)
    BY <1>17 DEF i, j, l, o
  <1>21. g = 0 /\ h = 0
    <2>1. CASE a = 1
      <3>1. f * g + 0 * h = 0 /\ 0 * g + f * h = 0
        BY <1>19, <1>20, <2>1
      <3>2. f * g = 0 /\ f * h = 0
        BY <1>15, <1>18, <3>1, SingleTerm
      <3> QED
        BY <1>15, <1>18, <3>2, ZeroFactor
    <2>2. CASE a = 2
      <3>1. p * g + 0 * h = 0 /\ q * g + f * h = 0
        BY <1>19, <1>20, <2>2
      <3>2. p * g = 0
        BY <1>15, <3>1, SingleTerm
      <3>3. g = 0
        BY <1>15, <1>18, <2>2, <3>2, ZeroFactor
      <3>4. f * h = 0
        BY <1>15, <1>18, <3>1, <3>3
      <3> QED
        BY <1>15, <1>18, <3>3, <3>4, ZeroFactor
    <2>3. CASE a = 3
      <3>1. f * g + p * h = 0 /\ 0 * g + q * h = 0
        BY <1>19, <1>20, <2>3
      <3>2. q * h = 0
        BY <1>15, <3>1, SingleTerm
      <3>3. h = 0
        BY <1>15, <1>18, <2>3, <3>2, ZeroFactor
      <3>4. f * g = 0
        BY <1>15, <1>18, <3>1, <3>3
      <3> QED
        BY <1>15, <1>18, <3>3, <3>4, ZeroFactor
    <2> QED
      BY <2>1, <2>2, <2>3
  <1>22. R[2][3] = 0 /\ R[2][4] = 0 /\ R[3][4] = 0
    BY <1>6, <1>21 DEF g, h
  <1> HIDE DEF R
  <1>23. \A r, k \in (1..4) \ {1} : r < k => R[r][k] = 0
    BY <1>22
  <1> QED
    BY <1>23 DEF Pairs, R

\* A sum of multiples.
LEMMA SumScaled ==
    ASSUME NEW S, IsFiniteSet(S), NEW f, NEW d, NEW W \in Int,
           \A k \in S : d[k] \in Int /\ f[k] = W * d[k]
    PROVE  SumFunctionOnSet(f, S) = W * SumFunctionOnSet(d, S)
  <1> DEFINE zero == 0
  <1>1. ASSUME NEW k \in S PROVE d[k] \in Int /\ f[k] = W * d[k] + zero * d[k]
    <2>1. d[k] \in Int /\ f[k] = W * d[k]
      OBVIOUS
    <2>2. W * d[k] \in Int
      BY <2>1
    <2> QED
      BY <2>1, <2>2
  <1>2. zero \in Int
    OBVIOUS
  <1> HIDE DEF zero
  <1>3. SumFunctionOnSet(f, S) = W * SumFunctionOnSet(d, S) + zero * SumFunctionOnSet(d, S)
    <2>1. \A k \in S : d[k] \in Int /\ d[k] \in Int /\ f[k] = W * d[k] + zero * d[k]
      BY <1>1
    <2> QED
      BY <1>2, <2>1, SumLinear
  <1>4. SumFunctionOnSet(d, S) \in Int
    <2>1. \A k \in S : d[k] \in Int
      OBVIOUS
    <2> QED
      BY <2>1, SumType
  <1> DEFINE D == SumFunctionOnSet(d, S)
             E == W * D
  <1>5. E \in Int /\ D \in Int /\ SumFunctionOnSet(f, S) = E + zero * D
    BY <1>3, <1>4
  <1> HIDE DEF D, E
  <1>6. SumFunctionOnSet(f, S) = E
    BY <1>5 DEF zero
  <1> QED
    BY <1>6 DEF D, E

\* Every request that computes tokens loads the same number L of them.
OneLoad(points, L) ==
    \A k \in DOMAIN points : Feature(points, k, 3) = L * Feature(points, k, 2)

\* The normal equations are then those of L, and of the sums of tokens computed and of
\* their squares.
LEMMA OneLoadSums ==
    ASSUME NEW points \in Points, NEW L \in Nat, OneLoad(points, L)
    PROVE  LET n == NormalEquations(points)
           IN /\ n[1][2] = L * n[4][2] /\ n[3][2] = L * n[2][2]
              /\ n[3][1] = L * (L * n[4][2])
  <1> DEFINE S == DOMAIN points
             n == NormalEquations(points)
             c == Square(points, 4, 2)
             d == Square(points, 2, 2)
             f == Square(points, 1, 2)
             g == Square(points, 3, 2)
             h == Square(points, 3, 1)
  <1>1. IsFiniteSet(S)
    BY FeatureTypes
  <1>2. ASSUME NEW k \in S
        PROVE  /\ c[k] \in Int /\ d[k] \in Int /\ f[k] \in Int
               /\ f[k] = L * c[k] /\ g[k] = L * d[k] /\ h[k] = L * f[k]
    <2> DEFINE l == Feature(points, k, 1)
               u == Feature(points, k, 2)
               v == Feature(points, k, 3)
               o == Feature(points, k, 4)
    <2>1. l \in Nat /\ u \in Nat /\ v = l * u /\ o = 1 /\ v = L * u
      BY FeatureTypes, 1 \in 1..5, 2 \in 1..5 DEF OneLoad
    <2>2. c[k] = o * u /\ d[k] = u * u /\ f[k] = l * u /\ g[k] = v * u /\ h[k] = v * l
      BY NormalSums, 1 \in 1..4, 2 \in 1..4, 3 \in 1..4, 4 \in 1..4, 1 \in 1..5, 2 \in 1..5
    <2> HIDE DEF l, u, v, o, c, d, f, g, h
    <2>3. /\ o * u = u /\ u * u \in Int /\ l * u \in Int
          /\ (L * u) * u = L * (u * u) /\ (L * u) * l = L * (l * u)
      BY <2>1
    <2> QED
      BY <2>1, <2>2, <2>3
  <1>3. /\ SumFunctionOnSet(c, S) = n[4][2] /\ SumFunctionOnSet(d, S) = n[2][2]
        /\ SumFunctionOnSet(f, S) = n[1][2] /\ SumFunctionOnSet(g, S) = n[3][2]
        /\ SumFunctionOnSet(h, S) = n[3][1]
    BY NormalSums, 1 \in 1..4, 2 \in 1..4, 3 \in 1..4, 4 \in 1..4, 1 \in 1..5, 2 \in 1..5
  <1> HIDE DEF c, d, f, g, h, n
  <1>4. SumFunctionOnSet(f, S) = L * SumFunctionOnSet(c, S)
    <2>1. \A k \in S : c[k] \in Int /\ f[k] = L * c[k]
      BY <1>2
    <2> QED
      BY <1>1, <2>1, SumScaled
  <1>5. SumFunctionOnSet(g, S) = L * SumFunctionOnSet(d, S)
    <2>1. \A k \in S : d[k] \in Int /\ g[k] = L * d[k]
      BY <1>2
    <2> QED
      BY <1>1, <2>1, SumScaled
  <1>6. SumFunctionOnSet(h, S) = L * SumFunctionOnSet(f, S)
    <2>1. \A k \in S : f[k] \in Int /\ h[k] = L * f[k]
      BY <1>2
    <2> QED
      BY <1>1, <2>1, SumScaled
  <1>7. n[1][2] = L * n[4][2] /\ n[3][2] = L * n[2][2] /\ n[3][1] = L * (L * n[4][2])
    BY <1>3, <1>4, <1>5, <1>6
  <1> QED
    BY <1>7 DEF n

\* The sums of tokens loaded, and of their squares, are no less than these require; the
\* difference of the two leaves the more, as a square exceeds its number the more the
\* larger it is.
LEMMA OneLoadBounds ==
    ASSUME NEW points \in Points, NEW L \in Nat, OneLoad(points, L),
           NormalEquations(points)[2][2] # 0
    PROVE  LET n == NormalEquations(points)
           IN /\ n[2][2] * n[1][4] >= L * (n[4][2] * n[4][2])
              /\ n[2][2] * (n[1][1] - n[1][4]) >= (L * L - L) * (n[4][2] * n[4][2])
  <1> DEFINE S == DOMAIN points
             n == NormalEquations(points)
             c == Square(points, 4, 2)
             d == Square(points, 2, 2)
             w == Square(points, 1, 4)
             x == Excess(points)
             M == L * L - L
  <1>1. IsFiniteSet(S)
    BY FeatureTypes
  <1>2. ASSUME NEW k \in S
        PROVE  /\ c[k] \in Int /\ d[k] = c[k] * c[k]
               /\ w[k] \in Nat /\ w[k] * c[k] = L * c[k]
               /\ x[k] \in Nat /\ x[k] * c[k] = M * c[k]
    <2> DEFINE l == Feature(points, k, 1)
               u == Feature(points, k, 2)
               v == Feature(points, k, 3)
               o == Feature(points, k, 4)
    <2>1. l \in Nat /\ u \in Nat /\ v = l * u /\ o = 1 /\ v = L * u
      BY FeatureTypes, 1 \in 1..5, 2 \in 1..5 DEF OneLoad
    <2>2. c[k] = o * u /\ d[k] = u * u /\ w[k] = l * o
      BY NormalSums, 1 \in 1..4, 2 \in 1..4, 4 \in 1..4, 2 \in 1..5, 4 \in 1..5
    <2>3. x[k] = l * l - l
      BY DEF Excess
    <2>4. x[k] \in Nat
      BY ExcessSum
    <2> HIDE DEF l, u, v, o, c, d, w, x
    <2>5. c[k] = u /\ w[k] = l /\ l * u = L * u
      BY <2>1, <2>2
    <2>6. (l * l - l) * u = M * u
      <3>1. (l * l - l) * u = l * (l * u) - l * u
        BY <2>1
      <3>2. l * (L * u) - L * u = L * (l * u) - L * u
        BY <2>1
      <3>3. L * (L * u) - L * u = (L * L - L) * u
        BY <2>1
      <3> QED
        BY <2>5, <3>1, <3>2, <3>3
    <2> QED
      BY <2>1, <2>2, <2>3, <2>4, <2>5, <2>6
  <1>3. /\ SumFunctionOnSet(c, S) = n[4][2] /\ SumFunctionOnSet(d, S) = n[2][2]
        /\ SumFunctionOnSet(w, S) = n[1][4] /\ SumFunctionOnSet(x, S) = n[1][1] - n[1][4]
    <2>1. SumFunctionOnSet(x, S) = n[1][1] - n[1][4]
      BY ExcessSum
    <2> QED
      BY <2>1, NormalSums, 1 \in 1..4, 2 \in 1..4, 4 \in 1..4, 2 \in 1..5, 4 \in 1..5
  <1>4. M \in Int /\ L \in Int
    <2>1. L * L \in Int
      OBVIOUS
    <2> QED
      BY <2>1
  <1>5. n[2][2] # 0
    OBVIOUS
  <1> HIDE DEF c, d, w, x, n, M
  <1>6. SumFunctionOnSet(d, S) # 0
    BY <1>3, <1>5
  <1>7. SumFunctionOnSet(d, S) * SumFunctionOnSet(w, S)
            >= L * (SumFunctionOnSet(c, S) * SumFunctionOnSet(c, S))
    <2>1. \A k \in S : /\ w[k] \in Nat /\ c[k] \in Int
                       /\ d[k] = c[k] * c[k] /\ w[k] * c[k] = L * c[k]
      BY <1>2
    <2> QED
      BY <1>1, <1>4, <1>6, <2>1, Concentrated
  <1>8. SumFunctionOnSet(d, S) * SumFunctionOnSet(x, S)
            >= M * (SumFunctionOnSet(c, S) * SumFunctionOnSet(c, S))
    <2>1. \A k \in S : /\ x[k] \in Nat /\ c[k] \in Int
                       /\ d[k] = c[k] * c[k] /\ x[k] * c[k] = M * c[k]
      BY <1>2
    <2> QED
      BY <1>1, <1>4, <1>6, <2>1, Concentrated
  <1> QED
    BY <1>3, <1>7, <1>8 DEF n, M

\* The second pivot is not in the last row either, if the first was in the third.
LEMMA NoLateSwap ==
    ASSUME NEW points \in Points, NEW L \in Nat, OneLoad(points, L),
           NormalEquations(points)[2][2] # 0, NEW s, NEW e \in Signs,
           At(s, Turn(NormalEquations(points), 1, 3, e), NormalEquations(points), {1}, 2)
    PROVE  PivotRow(s.rows, 2) # 4
  <1> DEFINE n == NormalEquations(points)
             m == Turn(n, 1, 3, e)
             Q == n[2][2]
             T == n[4][2]
             A == n[1][4]
             B == n[1][1]
  <1>1. n \in Rows /\ s.rows \in Rows /\ Form(s.rows, s.scale, m, {1})
    BY NormalTypes DEF At, Tableau
  <1>2. IsTurn(m, n, 1, 3, e)
    BY <1>1, TurnFacts, 1 \in 1..4, 3 \in 1..4
  <1>3. /\ n[1][2] = L * T /\ n[3][2] = L * Q /\ n[3][1] = L * (L * T)
        /\ Q * A >= L * (T * T) /\ Q * (B - A) >= (L * L - L) * (T * T)
    BY OneLoadSums, OneLoadBounds
  <1>4. n[4][1] = A
    BY NormalSums, 1 \in 1..4, 4 \in 1..5, 4 \in 1..4
  <1> HIDE DEF m
  <1>5. FormOne(s.rows, s.scale, m, 1)
    BY <1>1, FormOfOne
  <1>6. /\ m[1][1] = e * n[3][1] /\ m[1][2] = e * n[3][2] /\ m[3] = n[1] /\ m[4] = n[4]
    <2>1. 3 \notin {1} /\ 4 \notin {1, 3} /\ 3 # 1 /\ 4 \in 1..4
      OBVIOUS
    <2> QED
      BY <1>2, <2>1, 1 \in 1..5, 2 \in 1..5 DEF IsTurn
  <1>7. /\ s.rows[3][2] = m[1][1] * m[3][2] - m[1][2] * m[3][1]
        /\ s.rows[4][2] = m[1][1] * m[4][2] - m[1][2] * m[4][1]
    BY <1>5, 2 \in 1..5, 3 \in (1..4) \ {1}, 4 \in (1..4) \ {1} DEF FormOne, Minor2
  <1>8. Q \in Int /\ T \in Int /\ A \in Int /\ B \in Int
    BY <1>1, RowTypes, 1 \in 1..4, 2 \in 1..4, 4 \in 1..4, 1 \in 1..5, 2 \in 1..5, 4 \in 1..5
  <1> DEFINE U == Q * B - (L * T) * (L * T)
             V == Q * A - L * (T * T)
  <1>9. U \in Int /\ V \in Int /\ V >= 0 /\ U >= V
    <2> DEFINE a == Q * A b == Q * B t == T * T
    <2>1. a \in Int /\ b \in Int /\ t \in Int
      BY <1>8
    <2>2. Q * (B - A) = b - a /\ (L * T) * (L * T) = (L * L) * t
      BY <1>8
    <2>3. (L * L - L) * t = (L * L) * t - L * t
      BY <2>1
    <2> DEFINE c == (L * L) * t d == L * t
    <2>4. c \in Int /\ d \in Int
      BY <2>1
    <2>5. a >= d /\ b - a >= c - d /\ U = b - c /\ V = a - d
      BY <1>3, <2>2, <2>3
    <2> HIDE DEF U, V, a, b, c, d
    <2> QED
      BY <2>1, <2>4, <2>5
  <1>10. s.rows[3][2] = (-e) * (L * U) /\ s.rows[4][2] = (-e) * (L * V)
    <2>1. /\ s.rows[3][2] = (e * (L * (L * T))) * (L * T) - (e * (L * Q)) * B
          /\ s.rows[4][2] = (e * (L * (L * T))) * T - (e * (L * Q)) * A
      BY <1>3, <1>4, <1>6, <1>7
    <2>2. e \in Int
      BY DEF Signs
    <2> HIDE DEF Q, T, A, B
    <2>3. (e * (L * (L * T))) * (L * T) - (e * (L * Q)) * B = (-e) * (L * U)
      BY <1>8, <2>2
    <2>4. (e * (L * (L * T))) * T - (e * (L * Q)) * A = (-e) * (L * V)
      BY <1>8, <2>2
    <2> QED
      BY <2>1, <2>3, <2>4
  <1> HIDE DEF U, V, n
  <1> DEFINE y == L * U
             z == L * V
  <1>11. y \in Int /\ z \in Int /\ z >= 0 /\ y >= z
    <2>1. V \in Nat /\ U - V \in Nat
      BY <1>9
    <2>2. L * V \in Nat /\ L * (U - V) \in Nat
      BY <2>1
    <2>3. L * (U - V) = L * U - L * V
      BY <1>9
    <2>4. L * U \in Int
      BY <1>9
    <2> QED
      BY <2>2, <2>3, <2>4
  <1>12. s.rows[3][2] = (-e) * y /\ s.rows[4][2] = (-e) * z
    BY <1>10
  <1> HIDE DEF y, z
  <1>13. Magnitude(s.rows[3][2]) = y /\ Magnitude(s.rows[4][2]) = z
    BY <1>11, <1>12 DEF Magnitude, Signs
  <1>14. ASSUME PivotRow(s.rows, 2) = 4 PROVE FALSE
    <2>1. 3 \in 2..4 /\ 3 < 4
      OBVIOUS
    <2>2. Magnitude(s.rows[3][2]) < Magnitude(s.rows[4][2])
      BY <1>1, <1>14, <2>1, PivotLeft, 2 \in 1..4
    <2> QED
      BY <1>11, <1>13, <2>2
  <1> QED
    BY <1>14

\* The first two rows are independent after two pivots.
LEMMA TwoPivots ==
    ASSUME NEW rows, NEW scale \in Nat \ {0}, NEW m \in Rows, Form(rows, scale, m, {1, 2})
    PROVE  m[1][1] * m[2][2] - m[1][2] * m[2][1] # 0
  <1>1. \E a, b \in 1..4 : a # b /\ {1, 2} = {a, b} /\ FormTwo(rows, scale, m, a, b)
    <2>1. {1, 2} # {} /\ {1, 2} # 1..4 /\ \A a \in 1..4 : {1, 2} # {a}
      OBVIOUS
    <2>2. \A a, b, d \in 1..4 : a # b /\ d \notin {a, b} => {1, 2} # {a, b, d}
      OBVIOUS
    <2> QED
      BY <2>1, <2>2 DEF Form
  <1>2. PICK a \in 1..4, b \in 1..4 :
            a # b /\ {1, 2} = {a, b} /\ FormTwo(rows, scale, m, a, b)
    BY <1>1
  <1>3. scale = m[a][a] * m[b][b] - m[a][b] * m[b][a]
    BY <1>2 DEF FormTwo, Minor2
  <1>4. (a = 1 /\ b = 2) \/ (a = 2 /\ b = 1)
    BY <1>2
  <1>5. m[1][1] \in Int /\ m[2][2] \in Int /\ m[1][2] \in Int /\ m[2][1] \in Int
    BY RowTypes, 1 \in 1..4, 2 \in 1..4, 1 \in 1..5, 2 \in 1..5
  <1>6. CASE a = 1 /\ b = 2
    BY <1>3, <1>6
  <1>7. CASE a = 2 /\ b = 1
    <2>1. scale = m[2][2] * m[1][1] - m[2][1] * m[1][2]
      BY <1>3, <1>7
    <2> QED
      BY <1>5, <2>1
  <1> QED
    BY <1>4, <1>6, <1>7

\* Two rows of two numbers with a determinant have no combination but that of zeros.
LEMMA Independent ==
    ASSUME NEW u1 \in Int, NEW u2 \in Int, NEW v1 \in Int, NEW v2 \in Int,
           NEW p \in Int, NEW q \in Int, u1 * v2 - u2 * v1 # 0,
           p * u1 + q * v1 = 0, p * u2 + q * v2 = 0
    PROVE  p = 0 /\ q = 0
  <1> DEFINE d == u1 * v2 - u2 * v1
  <1>1. d * p = v2 * (p * u1 + q * v1) - v1 * (p * u2 + q * v2)
    OBVIOUS
  <1>2. d * q = u1 * (p * u2 + q * v2) - u2 * (p * u1 + q * v1)
    OBVIOUS
  <1>3. d \in Int /\ d # 0 /\ d * p = 0 /\ d * q = 0
    <2>1. v2 * 0 - v1 * 0 = 0 /\ u1 * 0 - u2 * 0 = 0
      OBVIOUS
    <2> QED
      BY <1>1, <1>2, <2>1
  <1> HIDE DEF d
  <1> QED
    BY <1>3, ZeroFactor

\* Factors that cancel rows of which the first two are independent are not zero in the
\* last two places only if they are zero everywhere.
LEMMA FactorsLeft ==
    ASSUME NEW rows, NEW scale \in Nat \ {0}, NEW m \in Rows, Form(rows, scale, m, {1, 2}),
           NEW y, CancelRows(y, m), y[3] = 0, y[4] = 0
    PROVE  y[1] = 0 /\ y[2] = 0
  <1> DEFINE p == y[1] q == y[2] u1 == m[1][1] u2 == m[1][2] v1 == m[2][1] v2 == m[2][2]
  <1>1. y \in Factors /\ Comb(y, m, 1) = 0 /\ Comb(y, m, 2) = 0
    BY 1 \in 1..5, 2 \in 1..5 DEF CancelRows
  <1>2. /\ p \in Int /\ q \in Int /\ u1 \in Int /\ u2 \in Int /\ v1 \in Int /\ v2 \in Int
        /\ m[3][1] \in Int /\ m[4][1] \in Int /\ m[3][2] \in Int /\ m[4][2] \in Int
    BY <1>1, RowTypes, 1 \in 1..4, 2 \in 1..4, 3 \in 1..4, 4 \in 1..4, 1 \in 1..5, 2 \in 1..5
       DEF Factors
  <1>3. u1 * v2 - u2 * v1 # 0
    BY TwoPivots
  <1>4. /\ p * u1 + q * v1 + 0 * m[3][1] + 0 * m[4][1] = 0
        /\ p * u2 + q * v2 + 0 * m[3][2] + 0 * m[4][2] = 0
    BY <1>1 DEF Comb
  <1> DEFINE g == p * u1 + q * v1
             h == p * u2 + q * v2
  <1>5. g \in Int /\ h \in Int
    BY <1>2
  <1>6. /\ g + 0 * m[3][1] + 0 * m[4][1] = 0 /\ h + 0 * m[3][2] + 0 * m[4][2] = 0
    BY <1>4
  <1> HIDE DEF g, h
  <1>7. g = 0 /\ h = 0
    BY <1>2, <1>5, <1>6
  <1>8. p * u1 + q * v1 = 0 /\ p * u2 + q * v2 = 0
    BY <1>7 DEF g, h
  <1> HIDE DEF p, q, u1, u2, v1, v2
  <1>9. p = 0 /\ q = 0
    BY <1>2, <1>3, <1>8, Independent
  <1> QED
    BY <1>9 DEF p, q

\* When the first pivot was in the third row and the second in the last, the third
\* column, as a combination of the first two, needs the first: otherwise every request
\* that computes tokens would load the same number of them, and the second pivot would
\* not be in the last row.
LEMMA LateSwapEntry ==
    ASSUME NEW points \in Points, NEW s1, NEW e \in Signs,
           At(s1, Turn(NormalEquations(points), 1, 3, e), NormalEquations(points), {1}, 2),
           PivotRow(s1.rows, 2) = 4,
           NEW x, Cancels(points, x), x[3] # 0, x[4] = 0
    PROVE  x[1] # 0
  <1> DEFINE n == NormalEquations(points)
             m == Turn(n, 1, 3, e)
             S == DOMAIN points
             LoadAt(k) == Feature(points, k, 1)
             TokensAt(k) == Feature(points, k, 2)
  <1> SUFFICES ASSUME x[1] = 0 PROVE FALSE
    OBVIOUS
  <1>1. x[2] \in Int /\ x[3] \in Int
    BY DEF Cancels, Factors
  <1>2. ASSUME NEW k \in S
        PROVE  /\ LoadAt(k) \in Nat /\ TokensAt(k) \in Nat
               /\ Feature(points, k, 3) = LoadAt(k) * TokensAt(k)
               /\ x[2] * TokensAt(k) + x[3] * (LoadAt(k) * TokensAt(k)) = 0
    <2>1. /\ LoadAt(k) \in Nat /\ TokensAt(k) \in Nat
          /\ Feature(points, k, 3) = LoadAt(k) * TokensAt(k) /\ Feature(points, k, 4) = 1
      BY FeatureTypes, 1 \in 1..5, 2 \in 1..5
    <2>2. Value(points, x, k) = 0
      BY DEF Cancels
    <2>3. 0 * LoadAt(k) + x[2] * TokensAt(k) + x[3] * (LoadAt(k) * TokensAt(k)) + 0 * 1 = 0
      BY <2>1, <2>2 DEF Value
    <2> DEFINE a == LoadAt(k) b == x[2] * TokensAt(k) c == x[3] * (LoadAt(k) * TokensAt(k))
    <2>4. a \in Int /\ b \in Int /\ c \in Int
      BY <1>1, <2>1
    <2>5. 0 * a + b + c + 0 * 1 = 0
      BY <2>3
    <2> HIDE DEF a, b, c
    <2>6. b + c = 0
      BY <2>4, <2>5
    <2> QED
      BY <2>1, <2>6 DEF b, c
  <1>3. n[3][1] # 0
    <2>1. /\ n \in Rows /\ s1.scale \in Nat \ {0} /\ Form(s1.rows, s1.scale, m, {1})
      BY NormalTypes DEF At, Tableau
    <2>2. IsTurn(m, n, 1, 3, e)
      BY <2>1, TurnFacts, 1 \in 1..4, 3 \in 1..4
    <2> HIDE DEF m
    <2>3. s1.scale = e * n[3][1]
      <3>1. FormOne(s1.rows, s1.scale, m, 1)
        BY <2>1, FormOfOne
      <3> QED
        BY <2>2, <3>1, 1 \in 1..5 DEF FormOne, IsTurn
    <2> QED
      BY <2>1, <2>3 DEF Signs
  <1>4. PICK k \in S : LoadAt(k) # 0 /\ TokensAt(k) # 0
    <2> DEFINE f == Square(points, 3, 1)
    <2>1. SumFunctionOnSet(f, S) # 0 /\ IsFiniteSet(S)
      BY <1>3, NormalSums, FeatureTypes, 3 \in 1..4, 1 \in 1..5
    <2>2. \A k \in S : f[k] = Feature(points, k, 3) * LoadAt(k)
      BY NormalSums, 3 \in 1..4, 1 \in 1..5
    <2> HIDE DEF f
    <2>3. PICK k \in S : f[k] # 0
      BY <2>1, SumZero
    <2> DEFINE a == LoadAt(k) b == TokensAt(k)
    <2>4. f[k] = (a * b) * a /\ a \in Nat /\ b \in Nat
      BY <1>2, <2>2
    <2> HIDE DEF a, b
    <2>5. a # 0 /\ b # 0
      BY <2>3, <2>4
    <2> QED
      BY <2>5 DEF a, b
  <1> DEFINE L == LoadAt(k)
  <1>5. L \in Nat /\ x[2] + x[3] * L = 0
    <2> DEFINE a == LoadAt(k) b == TokensAt(k) p == x[2] q == x[3]
    <2>1. a \in Nat /\ b \in Nat /\ b # 0 /\ p \in Int /\ q \in Int /\ p * b + q * (a * b) = 0
      BY <1>1, <1>2, <1>4
    <2> HIDE DEF a, b, p, q
    <2>2. b * (p + q * a) = p * b + q * (a * b)
      BY <2>1
    <2>3. p + q * a \in Int
      BY <2>1
    <2>4. p + q * a = 0
      <3> DEFINE g == p + q * a
      <3>1. g \in Int /\ b * g = 0
        BY <2>1, <2>2, <2>3
      <3> HIDE DEF g
      <3>2. g = 0
        BY <2>1, <3>1, ZeroFactor
      <3> QED
        BY <3>2 DEF g
    <2> QED
      BY <2>1, <2>4 DEF a, p, q
  <1> HIDE DEF L
  <1>6. OneLoad(points, L)
    <2> SUFFICES ASSUME NEW i \in S PROVE Feature(points, i, 3) = L * Feature(points, i, 2)
      BY DEF OneLoad
    <2> DEFINE a == LoadAt(i) b == TokensAt(i) p == x[2] q == x[3]
    <2>1. /\ a \in Nat /\ b \in Nat /\ Feature(points, i, 3) = a * b
          /\ p \in Int /\ q \in Int /\ q # 0
          /\ p * b + q * (a * b) = 0 /\ p + q * L = 0
      BY <1>1, <1>2, <1>5
    <2>2. Feature(points, i, 2) = b
      OBVIOUS
    <2> HIDE DEF a, b, p, q
    <2>3. q * (a * b - L * b) = p * b + q * (a * b) - (p + q * L) * b
      BY <1>5, <2>1
    <2>4. q * (a * b - L * b) = 0
      BY <1>5, <2>1, <2>3
    <2> DEFINE g == a * b
               h == L * b
    <2>5. g \in Int /\ h \in Int /\ q * (g - h) = 0
      BY <1>5, <2>1, <2>4
    <2> HIDE DEF g, h
    <2>6. g - h = 0
      <3> DEFINE d == g - h
      <3>1. d \in Int /\ q * d = 0
        BY <2>5
      <3> HIDE DEF d
      <3>2. d = 0
        BY <2>1, <3>1, ZeroFactor
      <3> QED
        BY <3>2 DEF d
    <2>7. g = h
      BY <2>5, <2>6
    <2> QED
      BY <2>1, <2>2, <2>7 DEF g, h
  <1>7. n[2][2] # 0
    <2>1. SUFFICES ASSUME n[2][2] = 0 PROVE FALSE
      OBVIOUS
    <2>2. Silent(points, 2)
      BY <2>1, NoFeature, 2 \in 1..4
    <2> QED
      BY <1>4, <2>2 DEF Silent
  <1>8. PivotRow(s1.rows, 2) # 4
    BY <1>5, <1>6, <1>7, NoLateSwap
  <1> QED
    BY <1>8

\* So when the first two columns have pivots and the others are skipped, the factors of
\* the third column keep one for the third row.
LEMMA ThirdFactor ==
    ASSUME NEW points \in Points, NEW s1, NEW s2, NEW a \in 1..3, NEW b \in 2..4,
           NEW e1 \in Signs, NEW e2 \in Signs, NEW m1, NEW m2,
           m1 = Turn(NormalEquations(points), 1, a, e1), m2 = Turn(m1, 2, b, e2),
           At(s1, m1, NormalEquations(points), {1}, 2), b = PivotRow(s1.rows, 2),
           At(s2, m2, NormalEquations(points), {1, 2}, 5)
    PROVE  \E y : CancelRows(y, m2) /\ y[3] # 0
  <1> DEFINE n == NormalEquations(points)
             x == Null(s2, {1, 2}, 3)
             y1 == TurnFour(x, 1, a, e1)
             y2 == TurnFour(y1, 2, b, e2)
             d == s2.scale
  <1>1. /\ d \in Nat \ {0} /\ s2.rows \in Rows /\ m1 \in Rows /\ m2 \in Rows
        /\ Form(s2.rows, d, m2, {1, 2})
    BY DEF At, Tableau
  <1>2. 3 \in (1..4) \ {1, 2} /\ \A r \in (1..4) \ {1, 2} : s2.rows[r][3] = 0
    <2>1. 3 \in (1..4) \ {1, 2} /\ 3 < 5
      OBVIOUS
    <2>2. \A r \in 3..4 : s2.rows[r][3] = 0
      BY <2>1 DEF At
    <2> QED
      BY <2>1, <2>2
  <1>3. Cancels(points, x)
    BY <1>2, NullCancels
  <1>4. CancelRows(y1, m1)
    BY <1>2, FirstCancels, a \in 1..4
  <1>5. CancelRows(y2, m2)
    <2> HIDE DEF y1
    <2> QED
      BY <1>1, <1>4, TurnCancels, 2 \in 1..4, b \in 1..4
  <1>6. x[3] = -d /\ x[4] = 0 /\ x[3] # 0 /\ x[3] \in Int
    <2>1. x[3] = -d /\ x[4] = 0
      BY DEF Null
    <2> QED
      BY <1>1, <2>1
  <1>7. /\ y1[1] = e1 * x[a] /\ y1[2] = (IF a = 2 THEN x[1] ELSE x[2])
        /\ y1[3] = (IF a = 3 THEN x[1] ELSE x[3]) /\ y1[4] = x[4]
    BY DEF TurnFour
  <1>8. /\ y2[1] = y1[1] /\ y2[2] = e2 * y1[b]
        /\ y2[3] = (IF b = 3 THEN y1[2] ELSE y1[3]) /\ y2[4] = (IF b = 4 THEN y1[2] ELSE y1[4])
    BY DEF TurnFour
  <1> HIDE DEF x, y1, y2, d
  <1>9. y2[3] # 0
    <2>1. CASE b = 4 /\ a # 3
      BY <1>6, <1>7, <1>8, <2>1
    <2>2. CASE b = 4 /\ a = 3
      <3>1. x[1] # 0
        BY <1>3, <1>6, <2>2, LateSwapEntry
      <3> QED
        BY <1>7, <1>8, <2>2, <3>1
    <2>3. CASE b # 4
      <3>1. SUFFICES ASSUME y2[3] = 0 PROVE FALSE
        OBVIOUS
      <3>2. y2[4] = 0
        BY <1>6, <1>7, <1>8, <2>3
      <3>3. y2[1] = 0 /\ y2[2] = 0
        BY <1>1, <1>5, <3>1, <3>2, FactorsLeft
      <3>4. y1[1] = 0 /\ y1[3] = 0
        <4>1. y1[3] \in Int /\ y1[2] \in Int
          BY <1>4 DEF CancelRows, Factors
        <4>2. b = 2 \/ b = 3
          BY <2>3
        <4>3. CASE b = 2
          BY <1>8, <3>1, <3>3, <4>3
        <4>4. CASE b = 3
          BY <1>8, <3>3, <4>1, <4>4 DEF Signs
        <4> QED
          BY <1>8, <3>3, <4>2, <4>3, <4>4
      <3>5. x[3] = 0
        BY <1>6, <1>7, <3>4 DEF Signs
      <3> QED
        BY <1>6, <3>5
    <2> QED
      BY <2>1, <2>2, <2>3
  <1> QED
    BY <1>5, <1>9

\* How the elimination ends: every column done, and no pair of a row and a column that
\* were both skipped has an entry.
Finished(points, s) ==
    \E m, P : At(s, m, NormalEquations(points), P, 5) /\ Pairs(s, P)

\* A column that is zero at every point is skipped.
LEMMA ThirdSilent ==
    ASSUME NEW points \in Points, Silent(points, 3), NEW s, NEW m, NEW P,
           At(s, m, NormalEquations(points), P, 3)
    PROVE  Eliminate(s, 3) = s /\ At(s, m, NormalEquations(points), P, 4)
  <1> DEFINE n == NormalEquations(points)
             s2 == Eliminate(s, 3)
             q == PivotRow(s.rows, 3)
  <1>1. s.rows \in Rows /\ q \in 3..4 /\ q \in 1..4 /\ q \notin P /\ n \in Rows
    <2>1. s.rows \in Rows /\ \A p \in P : p < 3
      BY DEF At, Tableau
    <2>2. q \in 3..4
      BY <2>1, PivotLeft, 3 \in 1..4
    <2> HIDE DEF q
    <2> QED
      BY <2>1, <2>2, NormalTypes
  <1>2. \/ Skips(s, s2, 3) /\ At(s2, m, n, P, 3 + 1)
        \/ \E e \in Signs : Pivots(s, s2, 3, e)
    BY <1>1, ColumnStep, 3 \in 1..4
  <1>3. ASSUME NEW e \in Signs, Pivots(s, s2, 3, e) PROVE FALSE
    <2> DEFINE t == Turn(s.rows, 3, q, e)
    <2>1. t[3][3] \in Nat \ {0}
      BY <1>3 DEF Pivots
    <2>2. IsTurn(t, s.rows, 3, q, e)
      BY <1>1, TurnFacts, 3 \in 1..4
    <2> HIDE DEF t, q
    <2>3. t[3][3] = e * s.rows[q][3]
      BY <2>2, 3 \in 1..5 DEF IsTurn
    <2>4. s.rows[q][3] = 0
      <3>1. \A i \in 1..4 : n[i][3] = 0
        BY SilentEntries, 3 \in 1..4
      <3> QED
        BY <1>1, <3>1, ZeroColumn, 3 \in 1..5
    <2> QED
      BY <2>1, <2>3, <2>4 DEF Signs
  <1> HIDE DEF s2, q, n
  <1>4. s2 = s /\ At(s, m, n, P, 4)
    <2>1. 3 + 1 = 4
      OBVIOUS
    <2> QED
      BY <1>2, <1>3, <2>1 DEF Skips
  <1> QED
    BY <1>4 DEF s2, n

\* When the first and the third column are skipped, and one of the others is not.
LEMMA SilentPairs ==
    ASSUME NEW points \in Points, Silent(points, 3), NEW s, NEW m, NEW P,
           At(s, m, NormalEquations(points), P, 5), P \in {{2}, {4}, {2, 4}},
           \A j \in 1..5 : m[1][j] = 0, P = {2} => \A j \in 1..5 : m[3][j] = 0
    PROVE  Pairs(s, P)
  <1>1. m \in Rows /\ Form(s.rows, s.scale, m, P) /\ P \in SUBSET (1..4)
    BY DEF At
  <1>2. \A j \in 1..5 : s.rows[1][j] = 0
    <2>1. 1 \in (1..4) \ P
      OBVIOUS
    <2> QED
      BY <1>1, <2>1, ZeroRow
  <1>3. \A r \in (1..4) \ P : s.rows[r][3] = 0
    <2>1. \A i \in 1..4 : NormalEquations(points)[i][3] = 0
      BY SilentEntries, 3 \in 1..4
    <2> QED
      BY <2>1, ZeroColumn, 3 \in 1..5
  <1>4. P = {2} => \A j \in 1..5 : s.rows[3][j] = 0
    <2>1. 3 \in (1..4) \ P
      OBVIOUS
    <2>2. ASSUME \A j \in 1..5 : m[3][j] = 0 PROVE \A j \in 1..5 : s.rows[3][j] = 0
      BY <1>1, <2>1, <2>2, ZeroRow
    <2> QED
      BY <2>2
  <1>5. \A r, k \in (1..4) \ P : r < k => r = 1 \/ k = 3 \/ (P = {2} /\ r = 3)
    OBVIOUS
  <1> QED
    BY <1>2, <1>3, <1>4, <1>5 DEF Pairs

\* A turn of later rows leaves the others.
LEMMA OtherRows ==
    ASSUME NEW m \in Rows, NEW c \in 1..4, NEW q \in 1..4, NEW e \in Signs,
           NEW r \in (1..4) \ {c, q}
    PROVE  Turn(m, c, q, e)[r] = m[r] /\ Turn(m, c, q, e) \in Rows
  <1>1. IsTurn(Turn(m, c, q, e), m, c, q, e)
    BY TurnFacts
  <1> HIDE DEF Turn
  <1> QED
    BY <1>1 DEF IsTurn

\* The last column, whatever came before.
LEMMA LastStep ==
    ASSUME NEW s, NEW m, NEW n \in Rows, NEW P, At(s, m, n, P, 4)
    PROVE  \/ Eliminate(s, 4) = s /\ At(s, m, n, P, 5)
           \/ \E e \in Signs : At(Eliminate(s, 4), Turn(m, 4, 4, e), n, P \cup {4}, 5)
  <1>1. PivotRow(s.rows, 4) = 4
    <2>1. s.rows \in Rows
      BY DEF At, Tableau
    <2>2. PivotRow(s.rows, 4) \in 4..4
      BY <2>1, PivotLeft, 4 \in 1..4
    <2> QED
      BY <2>2
  <1>2. \/ Skips(s, Eliminate(s, 4), 4) /\ At(Eliminate(s, 4), m, n, P, 4 + 1)
        \/ \E e \in Signs : At(Eliminate(s, 4), Turn(m, 4, 4, e), n, P \cup {4}, 4 + 1)
    <2> DEFINE s2 == Eliminate(s, 4)
               q == PivotRow(s.rows, 4)
    <2>1. \/ Skips(s, s2, 4) /\ At(s2, m, n, P, 4 + 1)
          \/ \E e \in Signs : /\ Pivots(s, s2, 4, e)
                              /\ At(s2, Turn(m, 4, q, e), n, P \cup {4}, 4 + 1)
      BY ColumnStep, 4 \in 1..4
    <2>2. q = 4
      BY <1>1
    <2> HIDE DEF s2, q
    <2> QED
      BY <2>1, <2>2 DEF s2
  <1>3. 4 + 1 = 5
    OBVIOUS
  <1> QED
    BY <1>2, <1>3 DEF Skips

\* When the first column is skipped, no request loads tokens, and the third is.
LEMMA FirstSkipped ==
    ASSUME NEW points \in Points, NEW s,
           At(s, NormalEquations(points), NormalEquations(points), {}, 2),
           s.rows = NormalEquations(points), NormalEquations(points)[1][1] = 0
    PROVE  Finished(points, Eliminate(Eliminate(Eliminate(s, 2), 3), 4))
  <1> DEFINE n == NormalEquations(points)
             s2 == Eliminate(s, 2)
             b == PivotRow(n, 2)
             s3 == Eliminate(s2, 3)
             s4 == Eliminate(s3, 4)
  <1>1. Silent(points, 1) /\ Silent(points, 3)
    <2>1. Silent(points, 1)
      BY NoFeature, 1 \in 1..4
    <2>2. ASSUME NEW k \in DOMAIN points PROVE Feature(points, k, 3) = 0
      <3>1. /\ Feature(points, k, 3) = Feature(points, k, 1) * Feature(points, k, 2)
            /\ Feature(points, k, 2) \in Nat /\ Feature(points, k, 1) = 0
        BY <2>1, FeatureTypes, 2 \in 1..5 DEF Silent
      <3> QED
        BY <3>1
    <2> QED
      BY <2>1, <2>2 DEF Silent
  <1>2. /\ \A j \in 1..5 : n[1][j] = 0 /\ n[3][j] = 0
        /\ \A j \in 1..4 : n[j][3] = 0
        /\ n \in Rows
    BY <1>1, SilentEntries, NormalTypes, 1 \in 1..4, 3 \in 1..4
  <1>3. b \in 2..4 /\ b \in 1..4
    BY <1>2, PivotLeft, 2 \in 1..4
  <1>4. \/ Skips(s, s2, 2) /\ At(s2, n, n, {}, 3)
        \/ \E e \in Signs : Pivots(s, s2, 2, e) /\ At(s2, Turn(n, 2, b, e), n, {2}, 3)
    <2>1. \/ Skips(s, s2, 2) /\ At(s2, n, n, {}, 2 + 1)
          \/ \E e \in Signs : /\ Pivots(s, s2, 2, e)
                              /\ At(s2, Turn(n, 2, b, e), n, {} \cup {2}, 2 + 1)
      BY <1>2, ColumnStep, 2 \in 1..4
    <2>2. 2 + 1 = 3 /\ {} \cup {2} = {2}
      OBVIOUS
    <2> HIDE DEF s2, n, b
    <2> QED
      BY <2>1, <2>2
  <1> HIDE DEF s2
  <1>5. ASSUME Skips(s, s2, 2), At(s2, n, n, {}, 3) PROVE Finished(points, s4)
    <2>1. s2 = s /\ s3 = s /\ At(s, n, n, {}, 4)
      BY <1>1, <1>5, ThirdSilent DEF Skips
    <2> HIDE DEF s3
    <2>2. CASE s4 = s /\ At(s, n, n, {}, 5)
      <3>1. n[2][4] = 0
        <4>1. n[2][2] = 0
          <5>1. \A r \in 2..4 : s.rows[r][2] = 0
            BY <1>5 DEF Skips
          <5> QED
            BY <5>1
        <4>2. Silent(points, 2)
          BY <4>1, NoFeature, 2 \in 1..4
        <4> QED
          BY <4>2, SilentEntries, 2 \in 1..4, 4 \in 1..5
      <3>2. \A r, k \in (1..4) \ {} : r < k => n[r][k] = 0
        BY <1>2, <3>1
      <3>3. Pairs(s, {})
        BY <3>2 DEF Pairs
      <3> QED
        BY <2>2, <3>3 DEF Finished
    <2>3. CASE \E e \in Signs : At(s4, Turn(n, 4, 4, e), n, {} \cup {4}, 5)
      <3>1. PICK e \in Signs : At(s4, Turn(n, 4, 4, e), n, {4}, 5)
        BY <2>3
      <3>2. \A j \in 1..5 : Turn(n, 4, 4, e)[1][j] = 0
        BY <1>2, OtherRows, 4 \in 1..4, 1 \in (1..4) \ {4, 4}
      <3>3. {4} \in {{2}, {4}, {2, 4}} /\ {4} # {2}
        OBVIOUS
      <3>4. Pairs(s4, {4})
        BY <1>1, <3>1, <3>2, <3>3, SilentPairs
      <3> QED
        BY <3>1, <3>4 DEF Finished
    <2>4. \/ s4 = s /\ At(s, n, n, {}, 5)
          \/ \E e \in Signs : At(s4, Turn(n, 4, 4, e), n, {} \cup {4}, 5)
      BY <1>2, <2>1, LastStep
    <2> QED
      BY <2>2, <2>3, <2>4
  <1>6. ASSUME NEW e \in Signs, Pivots(s, s2, 2, e), At(s2, Turn(n, 2, b, e), n, {2}, 3)
        PROVE  Finished(points, s4)
    <2> DEFINE m == Turn(n, 2, b, e)
    <2>1. b # 3
      <3>1. m[2][2] \in Nat \ {0}
        BY <1>6 DEF Pivots
      <3>2. IsTurn(m, n, 2, b, e)
        BY <1>2, <1>3, TurnFacts, 2 \in 1..4
      <3> HIDE DEF m
      <3>3. m[2][2] = e * n[b][2]
        BY <3>2, 2 \in 1..5 DEF IsTurn
      <3> QED
        BY <1>2, <3>1, <3>3, 2 \in 1..5 DEF Signs
    <2>2. m[1] = n[1] /\ m[3] = n[3] /\ m \in Rows
      <3>1. 1 \in (1..4) \ {2, b} /\ 3 \in (1..4) \ {2, b}
        BY <1>3, <2>1
      <3> QED
        BY <1>2, <1>3, <3>1, OtherRows, 2 \in 1..4
    <2>3. s3 = s2 /\ At(s2, m, n, {2}, 4)
      BY <1>1, <1>6, ThirdSilent
    <2> HIDE DEF s3, m
    <2>4. CASE s4 = s2 /\ At(s2, m, n, {2}, 5)
      <3>1. Pairs(s2, {2})
        BY <1>1, <1>2, <2>2, <2>4, SilentPairs
      <3> QED
        BY <2>4, <3>1 DEF Finished
    <2>5. CASE \E i \in Signs : At(s4, Turn(m, 4, 4, i), n, {2} \cup {4}, 5)
      <3>1. PICK i \in Signs : At(s4, Turn(m, 4, 4, i), n, {2, 4}, 5)
        <4>1. {2} \cup {4} = {2, 4}
          OBVIOUS
        <4> QED
          BY <2>5, <4>1
      <3>2. \A j \in 1..5 : Turn(m, 4, 4, i)[1][j] = 0
        <4>1. Turn(m, 4, 4, i)[1] = m[1]
          BY <2>2, OtherRows, 4 \in 1..4, 1 \in (1..4) \ {4, 4}
        <4> QED
          BY <1>2, <2>2, <4>1
      <3>3. {2, 4} \in {{2}, {4}, {2, 4}} /\ {2, 4} # {2}
        OBVIOUS
      <3>4. Pairs(s4, {2, 4})
        BY <1>1, <3>1, <3>2, <3>3, SilentPairs
      <3> QED
        BY <3>1, <3>4 DEF Finished
    <2>6. \/ s4 = s2 /\ At(s2, m, n, {2}, 5)
          \/ \E i \in Signs : At(s4, Turn(m, 4, 4, i), n, {2} \cup {4}, 5)
      BY <1>2, <2>3, LastStep
    <2> QED
      BY <2>4, <2>5, <2>6
  <1> HIDE DEF s3, s4, b, n
  <1>7. Finished(points, s4)
    BY <1>4, <1>5, <1>6
  <1> QED
    BY <1>7 DEF s4, s3, s2

\* When the first column has a pivot and the second is skipped.
LEMMA SecondSkipped ==
    ASSUME NEW points \in Points, NEW s, NEW a \in 1..3, NEW e \in Signs,
           At(s, Turn(NormalEquations(points), 1, a, e), NormalEquations(points), {1}, 3)
    PROVE  Finished(points, Eliminate(Eliminate(s, 3), 4))
  <1> DEFINE n == NormalEquations(points)
             m == Turn(n, 1, a, e)
             b == PivotRow(s.rows, 3)
             s3 == Eliminate(s, 3)
             s4 == Eliminate(s3, 4)
  <1>1. n \in Rows /\ m \in Rows /\ s.rows \in Rows
    BY NormalTypes DEF At, Tableau
  <1>2. PICK y : CancelRows(y, m) /\ y[2] # 0
    BY SecondFactor, 3 \in 3..5
  <1>3. b \in 3..4 /\ b \in 1..4
    BY <1>1, PivotLeft, 3 \in 1..4
  <1>4. \/ Skips(s, s3, 3) /\ At(s3, m, n, {1}, 4)
        \/ \E i \in Signs : At(s3, Turn(m, 3, b, i), n, {1, 3}, 4)
    <2>1. \/ Skips(s, s3, 3) /\ At(s3, m, n, {1}, 3 + 1)
          \/ \E i \in Signs : /\ Pivots(s, s3, 3, i)
                              /\ At(s3, Turn(m, 3, b, i), n, {1} \cup {3}, 3 + 1)
      BY <1>1, ColumnStep, 3 \in 1..4
    <2>2. 3 + 1 = 4 /\ {1} \cup {3} = {1, 3}
      OBVIOUS
    <2> HIDE DEF s3, m, n, b
    <2> QED
      BY <2>1, <2>2
  <1> HIDE DEF s3, b
  <1>5. ASSUME Skips(s, s3, 3), At(s3, m, n, {1}, 4) PROVE Finished(points, s4)
    <2>1. CASE s4 = s3 /\ At(s3, m, n, {1}, 5)
      <3>1. Pairs(s3, {1})
        BY <2>1, ThreeLeft
      <3> QED
        BY <2>1, <3>1 DEF Finished
    <2>2. CASE \E i \in Signs : At(s4, Turn(m, 4, 4, i), n, {1} \cup {4}, 5)
      <3>1. PICK i \in Signs : At(s4, Turn(m, 4, 4, i), n, {1} \cup {4}, 5)
        BY <2>2
      <3> DEFINE w == TurnFour(y, 4, 4, i)
                 k == Turn(m, 4, 4, i)
      <3>2. CancelRows(w, k)
        BY <1>1, <1>2, TurnCancels, 4 \in 1..4
      <3>3. w[2] # 0
        BY <1>2 DEF TurnFour
      <3>4. {1} \cup {4} = (1..4) \ {2, 3} /\ 2 \in 1..4 /\ 3 \in 1..4 /\ 2 < 3
        OBVIOUS
      <3> HIDE DEF w, k, s4, m, n
      <3>5. Pairs(s4, {1} \cup {4})
        <4> DEFINE P == {1} \cup {4}
        <4>1. At(s4, k, n, P, 5) /\ P = (1..4) \ {2, 3}
          BY <3>1, <3>4 DEF k
        <4> HIDE DEF P
        <4>2. Pairs(s4, P)
          BY <3>2, <3>3, <3>4, <4>1, TwoLeft
        <4> QED
          BY <4>2 DEF P
      <3> QED
        BY <3>1, <3>5 DEF Finished, n
    <2>3. \/ s4 = s3 /\ At(s3, m, n, {1}, 5)
          \/ \E i \in Signs : At(s4, Turn(m, 4, 4, i), n, {1} \cup {4}, 5)
      BY <1>1, <1>5, LastStep
    <2> QED
      BY <2>1, <2>2, <2>3
  <1>6. ASSUME NEW i \in Signs, At(s3, Turn(m, 3, b, i), n, {1, 3}, 4)
        PROVE  Finished(points, s4)
    <2> DEFINE k == Turn(m, 3, b, i)
               w == TurnFour(y, 3, b, i)
    <2>1. CancelRows(w, k)
      BY <1>1, <1>2, <1>3, TurnCancels, 3 \in 1..4
    <2>2. w[2] # 0
      BY <1>2, <1>3 DEF TurnFour
    <2>3. \/ s4 = s3 /\ At(s3, k, n, {1, 3}, 5)
          \/ \E o \in Signs : At(s4, Turn(k, 4, 4, o), n, {1, 3} \cup {4}, 5)
      BY <1>1, <1>6, LastStep
    <2> HIDE DEF s4, k, w, m
    <2>4. CASE s4 = s3 /\ At(s3, k, n, {1, 3}, 5)
      <3> DEFINE P == {1, 3}
      <3>1. At(s4, k, n, P, 5) /\ P = (1..4) \ {2, 4} /\ 2 \in 1..4 /\ 4 \in 1..4 /\ 2 < 4
        BY <2>4
      <3> HIDE DEF P, n
      <3>2. Pairs(s4, P)
        BY <2>1, <2>2, <3>1, TwoLeft
      <3> QED
        BY <3>1, <3>2 DEF Finished, n
    <2>5. CASE \E o \in Signs : At(s4, Turn(k, 4, 4, o), n, {1, 3} \cup {4}, 5)
      <3>1. PICK o \in Signs : At(s4, Turn(k, 4, 4, o), n, {1, 3} \cup {4}, 5)
        BY <2>5
      <3> DEFINE P == {1, 3} \cup {4}
      <3>2. (1..4) \ P \subseteq {2}
        OBVIOUS
      <3> HIDE DEF P
      <3>3. Pairs(s4, P)
        BY <3>2, OneLeft
      <3> QED
        BY <3>1, <3>3 DEF Finished, P
    <2> QED
      BY <2>3, <2>4, <2>5
  <1> HIDE DEF s4, m, n
  <1>7. Finished(points, s4)
    BY <1>4, <1>5, <1>6
  <1> QED
    BY <1>7 DEF s4, s3

\* When the first two columns have pivots.
LEMMA SecondPivots ==
    ASSUME NEW points \in Points, NEW s1, NEW s2, NEW a \in 1..3, NEW e1 \in Signs,
           NEW e2 \in Signs, NEW m1, NEW m2,
           m1 = Turn(NormalEquations(points), 1, a, e1),
           m2 = Turn(m1, 2, PivotRow(s1.rows, 2), e2),
           At(s1, m1, NormalEquations(points), {1}, 2),
           At(s2, m2, NormalEquations(points), {1, 2}, 3)
    PROVE  Finished(points, Eliminate(Eliminate(s2, 3), 4))
  <1> DEFINE n == NormalEquations(points)
             b == PivotRow(s1.rows, 2)
             c == PivotRow(s2.rows, 3)
             s3 == Eliminate(s2, 3)
             s4 == Eliminate(s3, 4)
  <1>1. n \in Rows /\ s1.rows \in Rows /\ s2.rows \in Rows
    BY NormalTypes DEF At, Tableau
  <1>2. b \in 2..4
    BY <1>1, PivotLeft, 2 \in 1..4
  <1>3. \/ Skips(s2, s3, 3) /\ At(s3, m2, n, {1, 2}, 4)
        \/ \E i \in Signs : At(s3, Turn(m2, 3, c, i), n, {1, 2, 3}, 4)
    <2>1. \/ Skips(s2, s3, 3) /\ At(s3, m2, n, {1, 2}, 3 + 1)
          \/ \E i \in Signs : /\ Pivots(s2, s3, 3, i)
                              /\ At(s3, Turn(m2, 3, c, i), n, {1, 2} \cup {3}, 3 + 1)
      BY <1>1, ColumnStep, 3 \in 1..4
    <2>2. 3 + 1 = 4 /\ {1, 2} \cup {3} = {1, 2, 3}
      OBVIOUS
    <2> HIDE DEF s3, n, c
    <2> QED
      BY <2>1, <2>2
  <1> HIDE DEF s3, c
  <1>4. ASSUME At(s3, m2, n, {1, 2}, 4) PROVE Finished(points, s4)
    <2>1. \/ s4 = s3 /\ At(s3, m2, n, {1, 2}, 5)
          \/ \E o \in Signs : At(s4, Turn(m2, 4, 4, o), n, {1, 2} \cup {4}, 5)
      BY <1>1, <1>4, LastStep
    <2> HIDE DEF s4
    <2>2. CASE s4 = s3 /\ At(s3, m2, n, {1, 2}, 5)
      <3>1. PICK y : CancelRows(y, m2) /\ y[3] # 0
        BY <1>2, <2>2, ThirdFactor
      <3> DEFINE P == {1, 2}
      <3>2. At(s4, m2, n, P, 5) /\ P = (1..4) \ {3, 4} /\ 3 \in 1..4 /\ 4 \in 1..4 /\ 3 < 4
        BY <2>2
      <3> HIDE DEF P, n
      <3>3. Pairs(s4, P)
        BY <3>1, <3>2, TwoLeft
      <3> QED
        BY <3>2, <3>3 DEF Finished, n
    <2>3. CASE \E o \in Signs : At(s4, Turn(m2, 4, 4, o), n, {1, 2} \cup {4}, 5)
      <3>1. PICK o \in Signs : At(s4, Turn(m2, 4, 4, o), n, {1, 2} \cup {4}, 5)
        BY <2>3
      <3> DEFINE P == {1, 2} \cup {4}
      <3>2. (1..4) \ P \subseteq {3}
        OBVIOUS
      <3> HIDE DEF P
      <3>3. Pairs(s4, P)
        BY <3>2, OneLeft
      <3> QED
        BY <3>1, <3>3 DEF Finished, P
    <2> QED
      BY <2>1, <2>2, <2>3
  <1>5. ASSUME NEW i \in Signs, At(s3, Turn(m2, 3, c, i), n, {1, 2, 3}, 4)
        PROVE  Finished(points, s4)
    <2> DEFINE k == Turn(m2, 3, c, i)
    <2>1. \/ s4 = s3 /\ At(s3, k, n, {1, 2, 3}, 5)
          \/ \E o \in Signs : At(s4, Turn(k, 4, 4, o), n, {1, 2, 3} \cup {4}, 5)
      BY <1>1, <1>5, LastStep
    <2> HIDE DEF s4, k
    <2>2. PICK j, P : At(s4, j, n, P, 5) /\ P \in {{1, 2, 3}, {1, 2, 3} \cup {4}}
      BY <2>1
    <2>3. (1..4) \ P \subseteq {4}
      BY <2>2
    <2>4. Pairs(s4, P)
      BY <2>3, OneLeft
    <2> QED
      BY <2>2, <2>4 DEF Finished
  <1> HIDE DEF s4, n
  <1>6. Finished(points, s4)
    BY <1>3, <1>4, <1>5
  <1> QED
    BY <1>6 DEF s4, s3

\* Whatever the points, the elimination ends so.
LEMMA EliminationFinishes ==
    ASSUME NEW points \in Points
    PROVE  Finished(points, Elimination([rows |-> NormalEquations(points), scale |-> 1]))
  <1> DEFINE n == NormalEquations(points)
             s0 == [rows |-> n, scale |-> 1]
             s1 == Eliminate(s0, 1)
             s2 == Eliminate(s1, 2)
             s4 == Eliminate(Eliminate(s2, 3), 4)
             a == PivotRow(n, 1)
  <1>1. n \in Rows /\ At(s0, n, n, {}, 1) /\ s0 \in Tableau
    <2>1. n \in Rows
      BY NormalTypes
    <2>2. At(s0, n, n, {}, 1)
      BY <2>1, AtStart
    <2> HIDE DEF s0, n
    <2> QED
      BY <2>1, <2>2 DEF At
  <1>2. Elimination(s0) = s4
    BY <1>1, EliminationTypes
  <1>3. s0.rows = n
    OBVIOUS
  <1>4. a \in 1..3 /\ a \in 1..4
    BY FirstPivot
  <1> HIDE DEF s0
  <1>5. \/ Skips(s0, s1, 1) /\ At(s1, n, n, {}, 2)
        \/ \E e \in Signs : At(s1, Turn(n, 1, a, e), n, {1}, 2)
    <2>1. \/ Skips(s0, s1, 1) /\ At(s1, n, n, {}, 1 + 1)
          \/ \E e \in Signs : /\ Pivots(s0, s1, 1, e)
                              /\ At(s1, Turn(n, 1, PivotRow(s0.rows, 1), e), n, {} \cup {1}, 1 + 1)
      BY <1>1, ColumnStep, 1 \in 1..4
    <2>2. 1 + 1 = 2 /\ {} \cup {1} = {1} /\ PivotRow(s0.rows, 1) = a
      BY <1>3
    <2> HIDE DEF s1, n, a
    <2> QED
      BY <2>1, <2>2
  <1> HIDE DEF s1, a
  <1>6. ASSUME Skips(s0, s1, 1), At(s1, n, n, {}, 2) PROVE Finished(points, s4)
    <2>1. s1.rows = n /\ n[1][1] = 0
      BY <1>3, <1>6, 1 \in 1..4 DEF Skips
    <2> QED
      BY <1>6, <2>1, FirstSkipped
  <1>7. ASSUME NEW e \in Signs, At(s1, Turn(n, 1, a, e), n, {1}, 2)
        PROVE  Finished(points, s4)
    <2> DEFINE m1 == Turn(n, 1, a, e)
               b == PivotRow(s1.rows, 2)
    <2>1. \/ At(s2, m1, n, {1}, 3)
          \/ \E i \in Signs : At(s2, Turn(m1, 2, b, i), n, {1, 2}, 3)
      <3>1. \/ Skips(s1, s2, 2) /\ At(s2, m1, n, {1}, 2 + 1)
            \/ \E i \in Signs : /\ Pivots(s1, s2, 2, i)
                                /\ At(s2, Turn(m1, 2, b, i), n, {1} \cup {2}, 2 + 1)
        BY <1>1, <1>7, ColumnStep, 2 \in 1..4
      <3>2. 2 + 1 = 3 /\ {1} \cup {2} = {1, 2}
        OBVIOUS
      <3> HIDE DEF s2, n, m1, b
      <3> QED
        BY <3>1, <3>2
    <2> HIDE DEF s2
    <2>2. CASE At(s2, m1, n, {1}, 3)
      BY <1>4, <2>2, SecondSkipped
    <2>3. CASE \E i \in Signs : At(s2, Turn(m1, 2, b, i), n, {1, 2}, 3)
      <3>1. PICK i \in Signs : At(s2, Turn(m1, 2, b, i), n, {1, 2}, 3)
        BY <2>3
      <3> DEFINE m2 == Turn(m1, 2, b, i)
      <3>2. /\ m1 = Turn(n, 1, a, e) /\ m2 = Turn(m1, 2, PivotRow(s1.rows, 2), i)
            /\ At(s1, m1, n, {1}, 2) /\ At(s2, m2, n, {1, 2}, 3)
        BY <1>7, <3>1
      <3> HIDE DEF m1, m2
      <3> QED
        BY <1>4, <3>2, SecondPivots
    <2> QED
      BY <2>1, <2>2, <2>3
  <1> HIDE DEF s4
  <1>8. Finished(points, s4)
    BY <1>5, <1>6, <1>7
  <1> QED
    BY <1>2, <1>8 DEF s0

\* For every set of points: the coefficients the elimination ends with solve the normal
\* equations exactly, so no others are closer to the measured latencies, also when the
\* points do not determine them.
THEOREM FitSolves == Spec => []FitIsLeastSquares
  <1>1. ASSUME SetupInv PROVE FitIsLeastSquares
    <2> DEFINE points == PointsOf(config.gpu_perf)
               start == [rows |-> NormalEquations(points), scale |-> 1]
               done == Elimination(start)
               n == NormalEquations(points)
               z == Answer(done)
               s == Solution(points)
    <2> SUFFICES ASSUME phase = "ready", NEW i \in 1..4
                 PROVE  n[i][1] * s.num[1] + n[i][2] * s.num[2] + n[i][3] * s.num[3]
                            + n[i][4] * s.num[4] = n[i][5] * s.den
      BY DEF FitIsLeastSquares
    <2>1. points \in Points
      <3>1. PerfType(config.gpu_perf)
        BY <1>1 DEF SetupInv, ConfigType
      <3> QED
        BY <3>1, CalibrationAssumption DEF PointsOf, PerfType, Points, CalibrationAssumption
    <2>2. s = [num |-> [k \in 1..4 |-> done.rows[k][5]], den |-> done.scale]
      BY DEF Solution, Elimination
    <2> HIDE DEF points
    <2>3. Finished(points, done)
      BY <2>1, EliminationFinishes
    <2> HIDE DEF done
    <2>4. z \in Row /\ Solves(z, n) /\ done.scale \in Int
      <3>1. PICK m, P : At(done, m, n, P, 5) /\ Pairs(done, P)
        BY <2>3 DEF Finished
      <3>2. done.scale \in Int
        BY <3>1 DEF At, Tableau
      <3> QED
        BY <2>1, <3>1, <3>2, PairsSolve
    <2>5. /\ z[1] = s.num[1] /\ z[2] = s.num[2] /\ z[3] = s.num[3] /\ z[4] = s.num[4]
          /\ z[5] = -s.den /\ s.den \in Int
      BY <2>2, <2>4 DEF Answer
    <2>6. /\ z[1] \in Int /\ z[2] \in Int /\ z[3] \in Int /\ z[4] \in Int /\ z[5] \in Int
          /\ Dot(z, n[i]) = 0
      BY <2>4, 1 \in 1..5 DEF Row, Solves
    <2>7. \A j \in 1..5 : n[i][j] \in Int
      BY <2>1, NormalTypes, RowTypes
    <2> DEFINE u == s.num d == s.den
               n1 == n[i][1] n2 == n[i][2] n3 == n[i][3] n4 == n[i][4] n5 == n[i][5]
               u1 == u[1] u2 == u[2] u3 == u[3] u4 == u[4]
    <2>8. u1 * n1 + u2 * n2 + u3 * n3 + u4 * n4 + (-d) * n5 = 0
      BY <2>5, <2>6 DEF Dot
    <2>9. /\ u1 \in Int /\ u2 \in Int /\ u3 \in Int /\ u4 \in Int /\ d \in Int
          /\ n1 \in Int /\ n2 \in Int /\ n3 \in Int /\ n4 \in Int /\ n5 \in Int
      BY <2>5, <2>6, <2>7
    <2> HIDE DEF u1, u2, u3, u4, d, n1, n2, n3, n4, n5
    <2>10. n1 * u1 + n2 * u2 + n3 * u3 + n4 * u4 = n5 * d
      BY <2>8, <2>9
    <2> QED
      BY <2>10 DEF u1, u2, u3, u4, d, n1, n2, n3, n4, n5
  <1> QED
    BY <1>1, SetupTypes, PTL
=============================================================================
