------------------------------ MODULE MCSetup ------------------------------
(* An instance of EngineSetup for TLC: launches that vary the model, the    *)
(* pools, the speculation and the latency points.                           *)
EXTENDS EngineSetup, TLC

Launch(files, flags) == [file : files, flags : flags]

\* optional keys: every subset of the given settings
Some(settings) ==
    {[k \in keys |-> settings[k]] : keys \in SUBSET DOMAIN settings}

-----------------------------------------------------------------------------
\* HuggingFace configs: compression or not, with and without MLA
Base == [num_hidden_layers |-> 5, qk_nope_head_dim |-> 24]
Ratios == {<<0, 0, 4, 128, 4>>, <<0, 4, 4, 4, 4>>, <<0, 0, 128, 0, 128>>, <<0, 0, 0, 0, 0>>}
Options == [kv_lora_rank |-> 8, qk_rope_head_dim |-> 8, num_nextn_predict_layers |-> 1,
            sliding_window |-> 100, enable_deepseek_v4_fp4_indexer |-> TRUE]
Models == {option @@ Base @@ ratio :
              option \in Some(Options),
              ratio \in {<<>>} \cup {[compress_ratios |-> r] : r \in Ratios}}
\* uniform models of another element size
OtherDtypes == {[torch_dtype |-> 4] @@ mla @@ Base :
                   mla \in Some([kv_lora_rank |-> 8, qk_rope_head_dim |-> 8])}
\* SGLang's planner takes models with compress ratios
Compressed == {m \in Models : "compress_ratios" \in DOMAIN m}

VLLMFiles == {drafts @@ [model_config_path |-> m] :
                 m \in Models \cup OtherDtypes,
                 drafts \in {<<>>, [num_spec_tokens |-> 0]}}
SGLangFiles == {drafts @@ [model_config_path |-> m, backend |-> "sglang"] :
                   m \in Compressed, drafts \in {<<>>, [enabled |-> FALSE]}}
LayoutLaunches ==
    Launch(VLLMFiles, Some([kv_cache_block_size |-> 8, num_kv_cache_blocks |-> 3]))
    \cup Launch(SGLangFiles, Some([use_fp4_indexer |-> TRUE, swa_full_tokens_ratio |-> 5]))
    \* DeepSeek V4 Flash
    \cup Launch({None}, Some([backend |-> "sglang", num_kv_cache_blocks |-> 1,
                              num_spec_tokens |-> 0]))

-----------------------------------------------------------------------------
\* Speculation from the file or from the flags; rates that are missing, too
\* short, increasing or out of range among them
RateLists == {<<>>, <<4>>, <<3, 2>>, <<3, 0, 0>>, <<4, 2, 1>>, <<2, 3, 1>>, <<5, 1, 1>>}
Speculation ==
    {enabled @@ [num_spec_tokens |-> k, acceptance_rates |-> r] :
        enabled \in {<<>>} \cup {[enabled |-> e] : e \in BOOLEAN},
        k \in 0..3, r \in RateLists}
    \cup {[accept_mode |-> "fixed", num_spec_tokens |-> 2]}
SpeculationLaunches ==
    Launch({None}, Speculation) \cup Launch(Speculation, {<<>>, [num_spec_tokens |-> 2]})

-----------------------------------------------------------------------------
\* Latency points: all pairs of loaded and computed tokens, up to three points
Point(m, n, y) == [loaded |-> m, computed |-> n, latency |-> y]
FewPoints == {Point(m, n, y) : m \in 0..2, n \in 1..2, y \in {0, 3}}
PointLists == UNION {[1..k -> FewPoints] : k \in 1..2}
              \cup {<<Point(0, 1, 1), p, q>> : p, q \in FewPoints}
LatencyLaunches ==
    Launch({None}, {[gpu_data_points |-> p] : p \in PointLists})
    \cup Launch(Some([coefficients |-> <<1, 2, -3, 0>>, data_points |-> <<Point(1, 1, 3)>>]),
                {[gpu_data_points |-> <<Point(0, 1, 1), Point(2, 1, 3)>>], <<>>})

MCLaunches == LayoutLaunches \cup SpeculationLaunches \cup LatencyLaunches

MCData == <<Point(0, 1, 1), Point(2, 1, 2), Point(0, 3, 4), Point(1, 2, 3)>>
MCBatches == {<<[loaded |-> 2, computed |-> 1]>>,
              <<[loaded |-> 2, computed |-> 1], [loaded |-> 3, computed |-> 2]>>}
=============================================================================
