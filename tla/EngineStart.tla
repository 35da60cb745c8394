------------------------------ MODULE EngineStart ------------------------------
(***************************************************************************)
(* From the arguments of the command line to the configuration of a        *)
(* serving engine: create_engine_config (engine/arg_utils.py) and what the *)
(* classes of config.py derive and refuse, the executor that is chosen,    *)
(* its workers and their model, and the number of cache blocks.            *)
(*                                                                         *)
(* A situation is a record: the fields of EngineArgs under their names,    *)
(* model and draft (what the config.json of the target and of the draft    *)
(* model say, and checkpoint, see there), and host (the machine).          *)
(***************************************************************************)
EXTENDS Integers, SequencesExt, Checkpoint

CONSTANTS
    Unset,              \* None, or a key that config.json does not have
    DefaultMaxLen,      \* default_max_len
    DefaultBatch,       \* max_num_batched_tokens, if nothing is said,
    ChunkedBatch,       \* with chunked prefill
    EmbeddingBatch,     \* and for an embedding model
    LoraBatch,          \* what the LoRA kernels can take
    GB,                 \* bytes
    WatermarkPercent,   \* watermark of the block managers
    NoLimit             \* bound: more tokens than any prompt has

ASSUME EngineStartAssumption ==
    /\ {DefaultMaxLen, DefaultBatch, ChunkedBatch, EmbeddingBatch, LoraBatch, GB, NoLimit}
          \subseteq Nat \ {0}
    /\ WatermarkPercent \in 0 .. 100

Given(x) == x # Unset

-----------------------------------------------------------------------------
\* DeviceConfig
DeviceType(s) ==
    IF s.device # "auto" THEN s.device
    ELSE IF s.host.build \in {"neuron", "cpu"} THEN s.host.build ELSE "cuda"

\* The compute capability of the GPU; Unset where there is none, and asking fails.
Capability(s) == s.host.capability

-----------------------------------------------------------------------------
\* ModelConfig, of s.model.  A draft model is s with the arguments it is given.

HfSlidingWindow(s) ==
    IF s.model.use_sliding_window = FALSE THEN Unset ELSE s.model.sliding_window

SlidingWindow(s) == IF s.disable_sliding_window THEN Unset ELSE HfSlidingWindow(s)

ToTorchDType ==
    [half |-> "float16", float16 |-> "float16", float |-> "float32", float32 |-> "float32",
     bfloat16 |-> "bfloat16"]

\* _get_and_verify_dtype
DType(s) ==
    LET own == IF Given(s.model.torch_dtype) THEN s.model.torch_dtype ELSE "float32"
    IN IF s.dtype # "auto" THEN ToTorchDType[s.dtype]
       ELSE IF own = "float32" THEN "float16" ELSE own

\* _get_and_verify_max_len: the lengths config.json gives, the limit they and
\* the scaling of RoPE make, and the length of the engine.
Lengths(s) ==
    Range(s.model.lengths)
        \cup (IF s.disable_sliding_window THEN {HfSlidingWindow(s)} \ {Unset} ELSE {})

BaseLen(s) == IF Lengths(s) = {} THEN DefaultMaxLen ELSE Min(Lengths(s))

ScalesRope(s) == Given(s.model.rope_scaling) /\ s.model.rope_scaling.type # "su"

\* The length is taken as it is.
LenUnchecked(s) ==
    \/ Lengths(s) = {} /\ Given(s.max_model_len)
    \/ ScalesRope(s) /\ ~Given(s.model.rope_scaling.factor)

DerivedLen(s) ==
    LET rope == s.model.rope_scaling
    IN IF ~ScalesRope(s) \/ LenUnchecked(s) THEN BaseLen(s)
       ELSE rope.factor * (IF rope.type = "yarn" THEN rope.original ELSE BaseLen(s))

MaxLenRefused(s) ==
    LET overrides == /\ "model_max_length" \in DOMAIN s.model.lengths
                     /\ s.max_model_len <= s.model.lengths.model_max_length
                     /\ ~s.disable_sliding_window
    IN /\ ~LenUnchecked(s)
       /\ \/ ScalesRope(s) /\ s.disable_sliding_window
          \/ Given(s.max_model_len) /\ s.max_model_len > DerivedLen(s) /\ ~overrides

MaxModelLen(s) == IF Given(s.max_model_len) THEN s.max_model_len ELSE DerivedLen(s)

\* QUANTIZATION_METHODS in its order, the least capability of each and the
\* types it computes in.
QuantizationMethods ==
    <<"aqlm", "awq", "deepspeedfp", "fp8", "marlin", "gptq_marlin_24", "gptq_marlin", "gptq",
      "squeezellm", "sparseml">>

MinCapability ==
    [aqlm |-> 60, awq |-> 75, deepspeedfp |-> 60, fp8 |-> 89, marlin |-> 80,
     gptq_marlin_24 |-> 80, gptq_marlin |-> 80, gptq |-> 60, squeezellm |-> 70, sparseml |-> 60]

SupportedActDTypes(method) ==
    {"float16"} \cup
        (IF method \in {"deepspeedfp", "fp8", "gptq_marlin"} THEN {"bfloat16"} ELSE {})

\* override_quantization_method
Overrides(s, method) ==
    LET quant == s.model.quantization_config
    IN \/ /\ method = "marlin" /\ quant.checkpoint_format = "marlin"
          /\ s.quantization \in {Unset, "gptq", "marlin"}
       \/ /\ method = "gptq_marlin_24" /\ quant.checkpoint_format = "marlin_24"
          /\ s.quantization \in {Unset, "gptq", "gptq_marlin_24"}
       \/ /\ method = "gptq_marlin" /\ quant.marlin_compatible
          /\ Given(Capability(s)) /\ Capability(s) >= MinCapability.gptq_marlin
          /\ s.quantization \in {Unset, "marlin"}

Overriding(s) ==
    IF ~Given(s.model.quantization_config) THEN {}
    ELSE {k \in DOMAIN QuantizationMethods : Overrides(s, QuantizationMethods[k])}

Quantization(s) ==
    IF Overriding(s) # {} THEN QuantizationMethods[Min(Overriding(s))]
    ELSE IF Given(s.quantization) \/ ~Given(s.model.quantization_config) THEN s.quantization
    ELSE s.model.quantization_config.quant_method

\* _verify_quantization; what a model may be converted to depends on the GPU.
QuantizationRefused(s) ==
    LET quant == s.model.quantization_config
        method == Quantization(s)
    IN \/ Given(quant) /\ Overriding(s) = {}
          /\ (method # quant.quant_method \/ (quant.marlin_compatible /\ ~Given(Capability(s))))
       \/ Given(method)
          /\ (\/ method \notin Range(QuantizationMethods)
              \/ s.host.build = "hip" /\ method \notin {"gptq", "squeezellm"})

\* ModelConfig.__init__
ModelConfigRefused(s) ==
    \/ Given(s.max_context_len_to_capture)
    \/ s.dtype # "auto" /\ s.dtype \notin DOMAIN ToTorchDType
    \/ MaxLenRefused(s)
    \/ ~s.skip_tokenizer_init /\ s.tokenizer_mode \notin {"auto", "slow"}
    \/ QuantizationRefused(s)

\* get_total_num_kv_heads: multi_query, or the first attribute that gives a number.
TotalNumKVHeads(s) ==
    IF s.model.multi_query /\ ~s.model.new_decoder_architecture THEN 1
    ELSE IF Given(s.model.num_key_value_heads) THEN s.model.num_key_value_heads
    ELSE s.model.num_attention_heads

\* get_num_kv_heads
NumKVHeads(s) == Max({1, TotalNumKVHeads(s) \div s.tensor_parallel_size})

-----------------------------------------------------------------------------
\* The other configurations.

\* CacheConfig
CacheConfigRefused(s) ==
    \/ s.gpu_memory_utilization > 100
    \/ s.kv_cache_dtype \notin {"auto", "fp8", "fp8_e4m3", "fp8_e5m2"}
    \/ /\ s.enable_prefix_caching
       /\ Given(SlidingWindow(s)) \/ s.kv_cache_dtype = "fp8"

\* TokenizerPoolConfig
TokenizerPoolConfigRefused(s) ==
    /\ s.tokenizer_pool_size # 0
    /\ s.tokenizer_pool_type # "ray" \/ ~s.pool_extra_is_dict

\* ParallelConfig
WorldSize(s) == s.pipeline_parallel_size * s.tensor_parallel_size

Backend(s) ==
    IF Given(s.distributed_executor_backend) THEN s.distributed_executor_backend
    ELSE IF s.worker_use_ray THEN "ray"
    ELSE IF WorldSize(s) = 1 THEN Unset
    ELSE IF s.host.ray THEN "ray" ELSE "mp"

ParallelConfigRefused(s) ==
    \/ s.worker_use_ray /\ Backend(s) # "ray"
    \/ s.pipeline_parallel_size > 1
    \/ Backend(s) \notin {"ray", "mp", Unset}
    \/ s.ray_workers_use_nsight /\ Backend(s) # "ray"

\* verify_with_parallel_config of the model
NotDivisible(s) ==
    \/ s.model.num_attention_heads % s.tensor_parallel_size # 0
    \/ s.model.num_hidden_layers % s.pipeline_parallel_size # 0

\* SpeculativeConfig
Speculates(s) == Given(s.speculative_model) \/ Given(s.num_speculative_tokens)

NGram(s) == s.speculative_model = "[ngram]"

DraftArgs(s) ==
    [s EXCEPT !.model = s.draft, !.dtype = DType(s), !.max_model_len = Unset,
              !.quantization = Unset, !.disable_sliding_window = FALSE,
              !.max_context_len_to_capture = Unset, !.skip_tokenizer_init = FALSE]

\* _maybe_override_draft_max_model_len
DraftMaxModelLen(s) ==
    IF NGram(s) THEN MaxModelLen(s)
    ELSE IF Given(s.speculative_max_model_len) THEN s.speculative_max_model_len
    ELSE Min({MaxModelLen(DraftArgs(s)), MaxModelLen(s)})

NGramRefused(s) ==
    LET least == IF Given(s.ngram_prompt_lookup_min) THEN s.ngram_prompt_lookup_min ELSE 1
        most == s.ngram_prompt_lookup_max
    IN ~Given(most) \/ most < 1 \/ least < 1 \/ least > most

SpeculativeConfigRefused(s) ==
    /\ Speculates(s)
    /\ \/ ~Given(s.speculative_model) \/ ~Given(s.num_speculative_tokens)
       \/ Given(s.speculative_disable_by_batch_size) /\ s.speculative_disable_by_batch_size < 2
       \/ s.enable_chunked_prefill \/ ~s.use_v2_block_manager
       \/ s.num_speculative_tokens <= 0
       \/ IF NGram(s) THEN NGramRefused(s)
          ELSE \/ ModelConfigRefused(DraftArgs(s)) \/ NotDivisible(DraftArgs(s))
               \/ /\ Given(s.speculative_max_model_len)
                  /\ \/ s.speculative_max_model_len > MaxModelLen(DraftArgs(s))
                     \/ s.speculative_max_model_len > MaxModelLen(s)

\* SchedulerConfig
MaxNumBatchedTokens(s) ==
    IF Given(s.max_num_batched_tokens) THEN s.max_num_batched_tokens
    ELSE IF s.enable_chunked_prefill THEN ChunkedBatch
    ELSE Max({MaxModelLen(s), IF s.model.embedding THEN EmbeddingBatch ELSE DefaultBatch})

NumLookaheadSlots(s) ==
    IF Speculates(s) THEN s.num_speculative_tokens ELSE s.num_lookahead_slots

\* The check of a batch that is shorter than a sequence is forgotten
MutSchedulerConfigRefused(s) ==
    MaxNumBatchedTokens(s) < s.max_num_seqs \/ NumLookaheadSlots(s) < 0

SchedulerConfigRefused(s) ==
    \/ MaxNumBatchedTokens(s) < MaxModelLen(s) /\ ~s.enable_chunked_prefill
    \/ MaxNumBatchedTokens(s) < s.max_num_seqs
    \/ NumLookaheadSlots(s) < 0

\* LoRAConfig; lora_dtype is no field of EngineArgs, as it has no annotation,
\* and keeps its default when the arguments are read.
MaxCpuLoras(s) ==
    IF Given(s.max_cpu_loras) /\ s.max_cpu_loras > 0 THEN s.max_cpu_loras ELSE s.max_loras

LoraDType(s) == DType(s)

LoRAConfigRefused(s) ==
    /\ s.enable_lora
    /\ \/ s.max_lora_rank \notin {8, 16, 32, 64}
       \/ s.lora_extra_vocab_size \notin {0, 256, 512}
       \/ s.max_loras < 1 \/ MaxCpuLoras(s) < s.max_loras

\* LoadConfig
LoadFormats == {"auto", "pt", "safetensors", "npcache", "dummy", "tensorizer", "sharded_state"}

\* VisionLanguageConfig: with image_input_type all of its arguments are given.
VisionConfigRefused(s) ==
    /\ Given(s.image_input_type)
    /\ \/ s.image_input_type \notin {"pixel_values", "image_features"}
       \/ s.image_token_id \in {Unset, 0} \/ ~s.image_shape_given

\* verify_with_parallel_config of the cache: at most 70 % of the memory
SwapTooLarge(s) == 10 * s.swap_space * GB * s.tensor_parallel_size > 7 * s.host.cpu_memory

\* EngineConfig.__post_init__
Disagree(s) ==
    \/ NotDivisible(s) \/ SwapTooLarge(s)
    \/ s.enable_lora /\ MaxNumBatchedTokens(s) > LoraBatch

\* create_engine_config raises.
Refused(s) ==
    \/ ModelConfigRefused(s) \/ CacheConfigRefused(s)
    \/ TokenizerPoolConfigRefused(s) \/ ParallelConfigRefused(s)
    \/ SpeculativeConfigRefused(s) \/ SchedulerConfigRefused(s) \/ LoRAConfigRefused(s)
    \/ s.load_format \notin LoadFormats
    \/ VisionConfigRefused(s)
    \/ s.guided_decoding_backend \notin {"outlines", "lm-format-enforcer"}
    \/ Given(SlidingWindow(s)) /\ s.enable_chunked_prefill /\ ~s.use_v2_block_manager
    \/ Disagree(s)

-----------------------------------------------------------------------------
\* The executor and its workers.

\* AsyncLLMEngine.from_engine_args
Executor(s) ==
    IF DeviceType(s) \in {"neuron", "cpu"} THEN DeviceType(s)
    ELSE IF Given(Backend(s)) THEN Backend(s) ELSE "gpu"

OnGPU(s) == Executor(s) \in {"ray", "mp", "gpu"}

\* The CPU executor turns chunked prefill and prefix caching off.
Chunks(s) == s.enable_chunked_prefill /\ Executor(s) # "cpu"

\* A CPU computes in bfloat16 what it cannot in float16.
ComputeDType(s) == IF Executor(s) = "cpu" /\ DType(s) = "float16" THEN "bfloat16" ELSE DType(s)

\* initialize_ray_cluster: the bundles of the placement group, each the number
\* of its GPUs and whether it is on the node of the driver.
Bundles(s) ==
    IF Given(s.host.placement_group) THEN s.host.placement_group
    ELSE [k \in 1 .. WorldSize(s) |-> [gpus |-> 1, driver |-> k \in s.host.driver_gpus]]

\* _init_workers_ray makes a worker for each bundle with a GPU.
NumWorkers(s) ==
    IF Executor(s) = "ray" THEN Len(SelectSeq(Bundles(s), LAMBDA b : b.gpus > 0))
    ELSE WorldSize(s)

RayFails(s) ==
    \/ ~s.host.ray
    \/ IF Given(s.host.placement_group)
       THEN (\E k \in DOMAIN Bundles(s) : Bundles(s)[k].gpus > 1) \/ WorldSize(s) > NumWorkers(s)
       ELSE WorldSize(s) > s.host.cluster_gpus
    \/ \A k \in DOMAIN Bundles(s) : Bundles(s)[k].gpus > 0 => ~Bundles(s)[k].driver

NeuronFails(s) == s.enable_lora \/ Speculates(s)

\* The CPU executor, and what it makes of its cache configuration.
CPUFails(s) == Given(Backend(s)) \/ s.enable_lora \/ s.host.kv_space < 0 \/ WorldSize(s) # 1

MultiprocessingFails(s) == Speculates(s) \/ s.tensor_parallel_size > s.host.local_gpus

\* The executor is chosen, and its _init_executor refuses what it cannot do.
ExecutorFails(s) ==
    \/ Executor(s) = "neuron" /\ NeuronFails(s)
    \/ Executor(s) = "cpu" /\ CPUFails(s)
    \/ Executor(s) = "ray" /\ RayFails(s)
    \/ Executor(s) = "mp" /\ MultiprocessingFails(s)
    \/ s.engine_use_ray /\ ~s.host.ray

\* Worker.__init__ and init_device: of more workers than the world has ranks,
\* some find no place.
WorkerFails(s) ==
    /\ OnGPU(s)
    /\ \/ Given(s.image_input_type) /\ s.enable_lora
       \/ ~Given(Capability(s)) \/ (DType(s) = "bfloat16" /\ Capability(s) < 80)
       \/ NumWorkers(s) > WorldSize(s)

\* get_model_loader
LoaderFails(s) ==
    \/ /\ s.load_format \in LoadFormats \ {"tensorizer", "sharded_state"}
       /\ s.model_loader_extra_config # {}
    \/ s.load_format = "sharded_state" /\ ~(s.model_loader_extra_config \subseteq {"pattern"})
    \/ s.load_format = "tensorizer"
       /\ (\/ "tensorizer_uri" \notin s.model_loader_extra_config
           \/ s.tensor_parallel_size > 1)

\* get_config_filenames is empty: there is a default.
NeedsNoConfigFile == {"aqlm", "fp8", "sparseml"}

\* _get_quantization_config; a method that config.json does not describe has
\* one file of its own.
QuantConfigFails(s) ==
    LET method == Quantization(s)
    IN /\ Given(method)
       /\ \/ /\ ~Given(s.model.quantization_config) /\ method \notin NeedsNoConfigFile
             /\ s.model.quant_files # 1
          \/ ~Given(Capability(s)) \/ Capability(s) < MinCapability[method]
          \/ ComputeDType(s) \notin SupportedActDTypes(method)

\* get_rope: the positions the rotary embedding has; 0 if it has none of them
RopePositions(s) ==
    LET rope == s.model.rope_scaling
        own == s.model.lengths.max_position_embeddings
    IN IF ~Given(rope) THEN own
       ELSE IF ~Given(rope.type) THEN 0
       ELSE IF rope.type = "su" \/ ~Given(rope.factor) THEN own
       ELSE IF rope.type \in {"linear", "dynamic"} THEN own * rope.factor
       ELSE IF rope.type = "yarn" THEN rope.original * rope.factor ELSE 0

HasRope(s) == "max_position_embeddings" \in DOMAIN s.model.lengths

\* QKVParallelLinear: the KV heads a layer has on each rank; 0 if they cannot
\* be divided
LayerKVHeads(s) ==
    LET total == TotalNumKVHeads(s)
        tp == s.tensor_parallel_size
    IN IF tp >= total THEN IF tp % total = 0 THEN 1 ELSE 0
       ELSE IF total % tp = 0 THEN total \div tp ELSE 0

\* _initialize_model and load_weights
ModelFails(s) ==
    \/ s.enable_lora /\ ~s.model.supports_lora
    \/ s.model.vision /\ ~s.model.supports_lora /\ ~Given(s.image_input_type)
    \/ QuantConfigFails(s)
    \/ HasRope(s) /\ RopePositions(s) = 0
    \/ LayerKVHeads(s) = 0
    \/ LoadWeightsFails(s.model.checkpoint, s.load_format)

\* load_model; models of Neuron are loaded by a library.
LoadFails(s) ==
    /\ Executor(s) # "neuron"
    /\ \/ Executor(s) \in {"ray", "mp"} /\ s.max_parallel_loading_workers \notin {Unset, 0}
       \/ LoaderFails(s) \/ ModelFails(s)
       \/ OnGPU(s) /\ Speculates(s) /\ ~NGram(s) /\ ModelFails(DraftArgs(s))

-----------------------------------------------------------------------------
\* The cache.

ElementSize(s) ==
    IF s.kv_cache_dtype # "auto" THEN 1 ELSE IF ComputeDType(s) = "float32" THEN 4 ELSE 2

\* get_cache_block_size
CacheBlockSize(s) ==
    (s.model.num_hidden_layers \div s.pipeline_parallel_size)
        * 2 * s.block_size * NumKVHeads(s) * s.model.head_size * ElementSize(s)

DraftBlockSize(s) ==
    IF Speculates(s) /\ ~NGram(s) THEN CacheBlockSize(DraftArgs(s)) ELSE 0

\* split_num_cache_blocks_evenly
SplitEvenly(scorer, proposer, total) == (total * scorer) \div (proposer + scorer)

\* What a GPU has left for the cache after the profile of its model
CacheBytes(s, rank) ==
    (s.host.gpu_memory * s.gpu_memory_utilization) \div 100 - s.host.peak[rank]

\* What VLLM_CPU_KVCACHE_SPACE holds, 4 GB if it is not set
CPUBlocks(s) ==
    ((IF s.host.kv_space = 0 THEN 4 ELSE s.host.kv_space) * GB) \div CacheBlockSize(s)

\* determine_num_available_blocks of the executor: the GPU with the least decides.
AvailableGpuBlocks(s) ==
    LET size == CacheBlockSize(s)
        blocks == {Max({0, CacheBytes(s, r) \div size}) : r \in 1 .. NumWorkers(s)}
    IN IF Executor(s) = "neuron" THEN s.max_num_seqs
       ELSE IF Executor(s) = "cpu" THEN CPUBlocks(s)
       ELSE SplitEvenly(size, DraftBlockSize(s), Min(blocks))

\* _initialize_kv_caches
NumGpuBlocks(s) ==
    IF Given(s.num_gpu_blocks_override) THEN s.num_gpu_blocks_override ELSE AvailableGpuBlocks(s)

\* raise_if_cache_size_invalid, _validate_num_cpu_blocks
CacheSizeInvalid(s) ==
    NumGpuBlocks(s) <= 0 \/ MaxModelLen(s) > s.block_size * NumGpuBlocks(s)

\* initialize_cache raises; an embedding model has no cache.
CacheFails(s) ==
    /\ ~s.model.embedding
    /\ IF Executor(s) = "neuron" THEN NumGpuBlocks(s) # s.max_num_seqs ELSE CacheSizeInvalid(s)

\* The block manager: blocks it never gives to a prompt, and blocks after which
\* a window begins anew.
WatermarkBlocks(s) == (WatermarkPercent * NumGpuBlocks(s)) \div 100

WindowBlocks(s) ==
    IF s.use_v2_block_manager THEN SlidingWindow(s) \div s.block_size + 2
    ELSE (SlidingWindow(s) + s.block_size - 1) \div s.block_size

\* The longest prompt can_allocate does not refuse for ever
CacheTokens(s) ==
    LET most == NumGpuBlocks(s) - WatermarkBlocks(s)
    IN IF \/ s.model.embedding
          \/ Given(SlidingWindow(s)) /\ WindowBlocks(s) <= most
       THEN NoLimit ELSE most * s.block_size

\* _get_prompt_limit
PromptLimit(s) ==
    IF Chunks(s) THEN MaxModelLen(s) ELSE Min({MaxModelLen(s), MaxNumBatchedTokens(s)})

\* What requests meet.
ConfigOf(s) ==
    [maxModelLen |-> MaxModelLen(s), maxLogprobs |-> s.max_logprobs,
     promptLimit |-> PromptLimit(s), budget |-> MaxNumBatchedTokens(s),
     cacheTokens |-> CacheTokens(s), chunked |-> Chunks(s), lora |-> s.enable_lora,
     embedding |-> s.model.embedding, eigenAlpha |-> Given(s.eigen_alpha),
     actor |-> s.engine_use_ray]
=============================================================================
