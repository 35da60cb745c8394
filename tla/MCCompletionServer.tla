-------------------------- MODULE MCCompletionServer --------------------------
(* Instances of ServerStart and CompletionServer for TLC. *)
EXTENDS ServerStart

\* Tokens: two letters, the halves of a character, a space before a letter, a
\* token that is no word, eos, and an added one.
TheBytes ==
    [t \in {"a", "b", "h1", "h2", "_a", "eos", "add"} |->
        CASE t = "_a" -> <<"_", "a">> [] t = "eos" -> <<"#">> [] t = "add" -> <<"+">>
          [] OTHER -> <<t>>]

Plain ==
    [kind |-> "completion", model |-> "base", prompts |-> <<<<"a">>>>, asLists |-> TRUE,
     n |-> 1, bestOf |-> None, beam |-> FALSE, greedy |-> FALSE, stream |-> FALSE,
     echo |-> FALSE, maxTokens |-> 2, minTokens |-> 0, logprobs |-> 1, topLogprobs |-> 1,
     stop |-> <<>>, stopTokens |-> {}, includeStop |-> FALSE, ignoreEos |-> FALSE,
     truncate |-> None, unsupported |-> FALSE, inRange |-> TRUE, skip |-> TRUE,
     spaces |-> TRUE, vocab |-> {"a", "eos"}, mayLeave |-> FALSE]

Long == <<"a", "b", "a", "b">>

Completions == {
    \* three prompts of one token, merged
    [Plain EXCEPT !.prompts = <<<<"a">>, <<"b">>, <<"h1">>>>, !.maxTokens = 1, !.vocab = {"a"}],
    \* two prompts; the client may leave
    [Plain EXCEPT !.prompts = <<<<"a">>, <<"b", "a">>>>, !.stream = TRUE, !.mayLeave = TRUE],
    [Plain EXCEPT !.prompts = <<<<"a">>, <<"b">>>>, !.maxTokens = 1, !.mayLeave = TRUE],
    \* a character in two tokens, and stop strings over several
    [Plain EXCEPT !.vocab = {"a", "h1", "h2"}, !.stream = TRUE, !.maxTokens = 4],
    [Plain EXCEPT !.vocab = {"a", "b"}, !.stop = <<<<"a", "b", "b">>>>, !.maxTokens = 5],
    [Plain EXCEPT !.vocab = {"a", "b"}, !.stop = <<<<"b", "a">>>>, !.includeStop = TRUE, !.stream = TRUE],
    [Plain EXCEPT !.vocab = {"a", "b"}, !.stop = <<<<"b", "a">>>>, !.includeStop = TRUE, !.maxTokens = 4],
    [Plain EXCEPT !.vocab = {"_a", "b", "h1"}, !.stop = <<<<"_">>>>, !.stream = TRUE, !.maxTokens = 3],
    \* a token of the added vocabulary
    [Plain EXCEPT !.vocab = {"_a", "b", "add"}, !.stream = TRUE, !.maxTokens = 3],
    \* several choices
    [Plain EXCEPT !.n = 2, !.stream = TRUE, !.vocab = {"a", "eos"}],
    [Plain EXCEPT !.bestOf = 2, !.stream = TRUE, !.vocab = {"a", "eos"}],
    \* echo
    [Plain EXCEPT !.prompts = <<Long>>, !.echo = TRUE, !.stream = TRUE],
    [Plain EXCEPT !.prompts = <<Long>>, !.echo = TRUE],
    [Plain EXCEPT !.prompts = <<Long>>, !.echo = TRUE, !.maxTokens = 0, !.stream = TRUE],
    [Plain EXCEPT !.echo = TRUE, !.maxTokens = 0],
    [Plain EXCEPT !.echo = TRUE, !.logprobs = 0],
    \* min_tokens, stop tokens, no end by eos, a prompt cut
    [Plain EXCEPT !.minTokens = 1, !.vocab = {"a", "b", "eos"}, !.stopTokens = {"b"}],
    [Plain EXCEPT !.ignoreEos = TRUE, !.skip = FALSE, !.stream = TRUE],
    [Plain EXCEPT !.prompts = <<Long \o Long>>, !.truncate = 2],
    \* max_tokens left open
    [Plain EXCEPT !.prompts = <<Long>>, !.maxTokens = None],
    \* refused
    [Plain EXCEPT !.prompts = <<Long \o Long>>], [Plain EXCEPT !.prompts = <<>>],
    [Plain EXCEPT !.prompts = <<<<>>>>], [Plain EXCEPT !.model = "unknown"],
    [Plain EXCEPT !.model = "lora"], [Plain EXCEPT !.logprobs = 9],
    [Plain EXCEPT !.maxTokens = 0], [Plain EXCEPT !.beam = TRUE],
    [Plain EXCEPT !.logprobs = None]}

Chats == {
    [Plain EXCEPT !.kind = "chat", !.maxTokens = None, !.prompts = <<Long>>],
    [Plain EXCEPT !.kind = "chat", !.stream = TRUE, !.n = 2, !.mayLeave = TRUE],
    [Plain EXCEPT !.kind = "chat", !.stream = TRUE, !.echo = TRUE],
    [Plain EXCEPT !.kind = "chat", !.stream = TRUE, !.bestOf = 2],
    [Plain EXCEPT !.kind = "chat", !.topLogprobs = None]}

Others == {
    [Plain EXCEPT !.kind = "embedding", !.prompts = <<<<"a">>, <<"b">>>>],
    [Plain EXCEPT !.kind = "generate", !.stream = TRUE, !.bestOf = 2],
    [Plain EXCEPT !.kind = "generate", !.prompts = <<Long \o Long>>, !.mayLeave = TRUE],
    [Plain EXCEPT !.kind = "generate", !.logprobs = 9],
    [Plain EXCEPT !.kind = "generate", !.maxTokens = None, !.vocab = {"a"}]}

TheRequests == Completions \cup Chats \cup Others

-----------------------------------------------------------------------------
\* Situations: the default, a GPU with five blocks of two tokens for a model of
\* six, and what may be different.

\* A checkpoint in two formats with an index, tensors of which two are tied and
\* one is a part of another, and what may be different.
File(format, names) == [format |-> format, names |-> names, inference |-> TRUE, indexed |-> TRUE]

Tensor(key, storage, from, to) ==
    [key |-> key, storage |-> storage, from |-> from, to |-> to, contiguous |-> TRUE]

Files ==
    [weights |-> {"w1", "w2"}, index |-> TRUE, fallBack |-> TRUE,
     files |-> {File("safetensors", {"w1"}), File("safetensors", {"w2"}),
                [File("safetensors", {"layers"}) EXCEPT !.indexed = FALSE],
                File("bin", {"w1", "w2"}), [File("bin", {"args"}) EXCEPT !.inference = FALSE]},
     tensors |-> <<Tensor(2, "a", 0, 4), Tensor(4, "b", 0, 2), Tensor(1, "a", 0, 4),
                   Tensor(3, "a", 1, 3), Tensor(5, "c", 0, 0)>>,
     saves |-> <<3>>, tensorized |-> [vllm |-> TRUE, names |-> {"w1", "w2"}]]

Checkpoints ==
    {[Files EXCEPT !.index = FALSE], [Files EXCEPT !.files = {File("bin", {"w1"})}],
     [Files EXCEPT !.files = {File("pt", {"w1", "w2"})}], [Files EXCEPT !.files = {}],
     [Files EXCEPT !.files = {File("pt", {"w1", "w2"})}, !.fallBack = FALSE],
     [Files EXCEPT !.files = {File("pt", {"w1", "w2"}),
                              [File("bin", {"args"}) EXCEPT !.inference = FALSE]}],
     [Files EXCEPT !.tensors[1].contiguous = FALSE],
     [Files EXCEPT !.tensors = <<Tensor(1, "a", 0, 2), Tensor(2, "a", 1, 3)>>],
     [Files EXCEPT !.saves = <<>>], [Files EXCEPT !.saves = <<Unlimited>>],
     [Files EXCEPT !.saves = <<3, Unlimited>>], [Files EXCEPT !.saves = <<Unlimited, 3>>],
     [Files EXCEPT !.tensorized.names = {"w1"}],
     [Files EXCEPT !.tensorized = [vllm |-> FALSE, names |-> {"w1", "w2"}]]}

Model ==
    [lengths |-> [max_position_embeddings |-> 6], sliding_window |-> Unset,
     use_sliding_window |-> Unset, rope_scaling |-> Unset, torch_dtype |-> "float16",
     quantization_config |-> Unset, num_attention_heads |-> 4, num_hidden_layers |-> 2,
     num_key_value_heads |-> 2, multi_query |-> FALSE, new_decoder_architecture |-> FALSE,
     head_size |-> 1, embedding |-> FALSE, supports_lora |-> TRUE, vision |-> FALSE,
     quant_files |-> 0, checkpoint |-> Files]

Host ==
    [build |-> "cuda", capability |-> 80, cpu_memory |-> 500, gpu_memory |-> 400,
     peak |-> <<190, 200, 180>>, kv_space |-> 4, ray |-> TRUE, placement_group |-> Unset,
     cluster_gpus |-> 2, driver_gpus |-> {1, 2}, local_gpus |-> 2]

Default ==
    [device |-> "auto", dtype |-> "auto", quantization |-> Unset, max_model_len |-> Unset,
     disable_sliding_window |-> FALSE, skip_tokenizer_init |-> FALSE,
     tokenizer_mode |-> "auto", max_context_len_to_capture |-> Unset, max_logprobs |-> 5,
     block_size |-> 2, gpu_memory_utilization |-> 90, swap_space |-> 4,
     kv_cache_dtype |-> "auto", num_gpu_blocks_override |-> Unset,
     enable_prefix_caching |-> FALSE, pipeline_parallel_size |-> 1,
     tensor_parallel_size |-> 1, worker_use_ray |-> FALSE,
     distributed_executor_backend |-> Unset, max_parallel_loading_workers |-> Unset,
     tokenizer_pool_size |-> 0, tokenizer_pool_type |-> "ray", pool_extra_is_dict |-> TRUE,
     ray_workers_use_nsight |-> FALSE, speculative_model |-> Unset,
     num_speculative_tokens |-> Unset, speculative_max_model_len |-> Unset,
     speculative_disable_by_batch_size |-> Unset, ngram_prompt_lookup_max |-> Unset,
     ngram_prompt_lookup_min |-> Unset, max_num_batched_tokens |-> Unset,
     max_num_seqs |-> 2, use_v2_block_manager |-> FALSE, num_lookahead_slots |-> 0,
     enable_chunked_prefill |-> FALSE, enable_lora |-> FALSE, max_loras |-> 1,
     max_lora_rank |-> 16, lora_extra_vocab_size |-> 256, max_cpu_loras |-> Unset,
     lora_dtype |-> "auto",
     load_format |-> "auto", model_loader_extra_config |-> {}, image_input_type |-> Unset,
     image_token_id |-> Unset, image_shape_given |-> FALSE,
     guided_decoding_backend |-> "outlines", engine_use_ray |-> FALSE, eigen_alpha |-> 1,
     model |-> Model,
     draft |-> [Model EXCEPT !.num_attention_heads = 2, !.num_key_value_heads = 1],
     host |-> Host]

Scaled(type, factor, original) == [type |-> type, factor |-> factor, original |-> original]
Quantized(method, format, marlin) ==
    [quant_method |-> method, checkpoint_format |-> format, marlin_compatible |-> marlin]

ModelChanges ==
    {[Model EXCEPT !.lengths = [max_position_embeddings |-> 12]],
     [Model EXCEPT !.lengths = [n_positions |-> 4]],
     [Model EXCEPT !.lengths = [k \in {} |-> 0]],
     [Model EXCEPT !.lengths = [max_position_embeddings |-> 6, model_max_length |-> 4]],
     [Model EXCEPT !.sliding_window = 2], [Model EXCEPT !.sliding_window = 8],
     [Model EXCEPT !.sliding_window = 2, !.use_sliding_window = FALSE],
     [Model EXCEPT !.torch_dtype = "bfloat16"], [Model EXCEPT !.torch_dtype = Unset],
     [Model EXCEPT !.num_attention_heads = 3, !.num_key_value_heads = 3],
     [Model EXCEPT !.num_attention_heads = 6, !.num_key_value_heads = 3],
     [Model EXCEPT !.multi_query = TRUE],
     [Model EXCEPT !.multi_query = TRUE, !.new_decoder_architecture = TRUE],
     [Model EXCEPT !.num_key_value_heads = Unset], [Model EXCEPT !.num_hidden_layers = 3],
     [Model EXCEPT !.head_size = 3], [Model EXCEPT !.embedding = TRUE],
     [Model EXCEPT !.supports_lora = FALSE],
     [Model EXCEPT !.supports_lora = FALSE, !.vision = TRUE],
     [Model EXCEPT !.quant_files = 1], [Model EXCEPT !.quant_files = 2]}
    \cup {[Model EXCEPT !.checkpoint = checkpoint] : checkpoint \in Checkpoints}
    \cup {[Model EXCEPT !.rope_scaling = scaling] :
             scaling \in {Scaled("linear", 2, Unset), Scaled("dynamic", 2, Unset),
                          Scaled("yarn", 2, 4), Scaled("su", Unset, Unset),
                          Scaled("linear", Unset, Unset), Scaled("llama3", 2, Unset),
                          Scaled(Unset, 2, Unset)}}
    \cup {[Model EXCEPT !.quantization_config = quantized] :
             quantized \in {Quantized("gptq", "gptq", FALSE), Quantized("gptq", "gptq", TRUE),
                            Quantized("gptq", "marlin", FALSE), Quantized("awq", Unset, FALSE),
                            Quantized("gptq", "marlin_24", FALSE),
                            Quantized("bitnet", Unset, FALSE)}}

HostChanges ==
    {[Host EXCEPT !.build = "cpu", !.capability = Unset],
     [Host EXCEPT !.build = "cpu", !.capability = Unset, !.kv_space = 0],
     [Host EXCEPT !.build = "cpu", !.capability = Unset, !.kv_space = -1],
     [Host EXCEPT !.build = "neuron", !.capability = Unset], [Host EXCEPT !.build = "hip"],
     [Host EXCEPT !.capability = 70], [Host EXCEPT !.capability = 90],
     [Host EXCEPT !.cpu_memory = 200], [Host EXCEPT !.gpu_memory = 300],
     [Host EXCEPT !.gpu_memory = 350], [Host EXCEPT !.gpu_memory = 900],
     [Host EXCEPT !.ray = FALSE], [Host EXCEPT !.cluster_gpus = 1, !.local_gpus = 1],
     [Host EXCEPT !.driver_gpus = {}]}
    \cup {[Host EXCEPT !.placement_group = group] :
             group \in {<<[gpus |-> 1, driver |-> TRUE]>>,
                        <<[gpus |-> 0, driver |-> TRUE], [gpus |-> 1, driver |-> TRUE]>>,
                        <<[gpus |-> 1, driver |-> FALSE], [gpus |-> 1, driver |-> TRUE]>>,
                        <<[gpus |-> 1, driver |-> FALSE]>>, <<[gpus |-> 2, driver |-> TRUE]>>,
                        <<[gpus |-> 1, driver |-> TRUE], [gpus |-> 1, driver |-> TRUE],
                          [gpus |-> 1, driver |-> TRUE]>>}}

\* Speculation with a draft model, and with n-grams
Draft == [speculative_model |-> "draft", num_speculative_tokens |-> 2,
          use_v2_block_manager |-> TRUE]
Speculating ==
    {Draft, [speculative_model |-> "[ngram]", ngram_prompt_lookup_max |-> 2] @@ Draft,
     [speculative_model |-> "[ngram]"] @@ Draft,
     [speculative_model |-> "[ngram]", ngram_prompt_lookup_max |-> 1,
      ngram_prompt_lookup_min |-> 2] @@ Draft,
     [speculative_max_model_len |-> 4] @@ Draft, [speculative_max_model_len |-> 9] @@ Draft,
     [speculative_disable_by_batch_size |-> 1] @@ Draft,
     [speculative_disable_by_batch_size |-> 2] @@ Draft,
     [num_speculative_tokens |-> 0] @@ Draft, [use_v2_block_manager |-> FALSE] @@ Draft,
     [speculative_model |-> "draft"], [num_speculative_tokens |-> 2]}
    \cup {[draft |-> draft] @@ Draft :
             draft \in {[Model EXCEPT !.lengths = [max_position_embeddings |-> 4]],
                        [Model EXCEPT !.num_attention_heads = 3, !.num_key_value_heads = 3],
                        [Model EXCEPT !.rope_scaling = Scaled("llama3", 2, Unset)]}}

Lora == [enable_lora |-> TRUE]
LoraChanges ==
    {Lora, [max_loras |-> 0] @@ Lora, [max_loras |-> 2, max_cpu_loras |-> 1] @@ Lora,
     [max_loras |-> 2, max_cpu_loras |-> 4] @@ Lora, [max_lora_rank |-> 4] @@ Lora,
     [lora_extra_vocab_size |-> 1] @@ Lora, [lora_dtype |-> "bfloat16"] @@ Lora,
     [max_num_batched_tokens |-> 17] @@ Lora}

Vision == [image_input_type |-> "pixel_values", image_token_id |-> 1, image_shape_given |-> TRUE]
VisionChanges ==
    {Vision, [image_token_id |-> 0] @@ Vision, [image_shape_given |-> FALSE] @@ Vision,
     [image_input_type |-> "sound"] @@ Vision,
     Vision @@ [model |-> [Model EXCEPT !.supports_lora = FALSE, !.vision = TRUE]]}

OtherChanges ==
    {[device |-> "cpu"], [device |-> "neuron"], [dtype |-> "half"], [dtype |-> "float32"],
     [dtype |-> "bfloat16"], [dtype |-> "int8"], [quantization |-> "gptq"],
     [quantization |-> "marlin"], [quantization |-> "awq"], [quantization |-> "fp8"],
     [quantization |-> "unknown"], [max_model_len |-> 4], [max_model_len |-> 6],
     [max_model_len |-> 12], [max_model_len |-> 10],
     [disable_sliding_window |-> TRUE], [max_context_len_to_capture |-> 4],
     [tokenizer_mode |-> "fast"], [tokenizer_mode |-> "fast", skip_tokenizer_init |-> TRUE],
     [gpu_memory_utilization |-> 110], [gpu_memory_utilization |-> 60], [swap_space |-> 10],
     [kv_cache_dtype |-> "fp8"], [kv_cache_dtype |-> "fp8_e5m2"], [kv_cache_dtype |-> "int8"],
     [num_gpu_blocks_override |-> 3], [num_gpu_blocks_override |-> 2],
     [num_gpu_blocks_override |-> 0], [enable_prefix_caching |-> TRUE],
     [pipeline_parallel_size |-> 2], [tensor_parallel_size |-> 2], [tensor_parallel_size |-> 3],
     [tensor_parallel_size |-> 4], [worker_use_ray |-> TRUE],
     [worker_use_ray |-> TRUE, distributed_executor_backend |-> "mp"],
     [distributed_executor_backend |-> "mp"], [distributed_executor_backend |-> "ray"],
     [distributed_executor_backend |-> "mp", tensor_parallel_size |-> 2],
     [distributed_executor_backend |-> "rpc"], [max_parallel_loading_workers |-> 1],
     [tokenizer_pool_size |-> 1], [tokenizer_pool_size |-> 1, tokenizer_pool_type |-> "mp"],
     [tokenizer_pool_size |-> 1, pool_extra_is_dict |-> FALSE],
     [ray_workers_use_nsight |-> TRUE], [max_num_batched_tokens |-> 4],
     [max_num_batched_tokens |-> 1, enable_chunked_prefill |-> TRUE], [max_num_seqs |-> 7],
     [max_num_seqs |-> 3], [use_v2_block_manager |-> TRUE], [num_lookahead_slots |-> 1],
     [num_lookahead_slots |-> -1], [enable_chunked_prefill |-> TRUE],
     [load_format |-> "pickle"], [load_format |-> "pt"], [load_format |-> "safetensors"],
     [load_format |-> "npcache"], [load_format |-> "dummy"], [load_format |-> "sharded_state"],
     [model_loader_extra_config |-> {"pattern"}],
     [load_format |-> "sharded_state", model_loader_extra_config |-> {"pattern"}],
     [load_format |-> "sharded_state", model_loader_extra_config |-> {"uri"}],
     [load_format |-> "tensorizer"],
     [load_format |-> "tensorizer", model_loader_extra_config |-> {"tensorizer_uri"}],
     [guided_decoding_backend |-> "regex"], [engine_use_ray |-> TRUE],
     [eigen_alpha |-> Unset]}

Changes ==
    {[model |-> model] : model \in ModelChanges} \cup {[host |-> host] : host \in HostChanges}
        \cup Speculating \cup LoraChanges \cup VisionChanges \cup OtherChanges

\* Two changes of the default, whatever they are.
TheSituations == {a @@ b @@ Default : a \in Changes, b \in Changes}

-----------------------------------------------------------------------------
\* Servers that get requests: the default, with chunked prefill, without
\* eigen_alpha, in a Ray actor, and on a CPU that chunked prefill was asked of.
Chunking == [enable_chunked_prefill |-> TRUE]
OnCPU == [host |-> [Host EXCEPT !.build = "cpu", !.capability = Unset]]

Served == {Default, Chunking @@ Default}
Poor == {[eigen_alpha |-> Unset] @@ Default, [engine_use_ray |-> TRUE] @@ Default,
         OnCPU @@ Chunking @@ Default}

CasesOf(situations, requests) == {ConfigOf(s) : s \in situations} \X requests

TheCases ==
    CasesOf(Served, TheRequests)
        \cup CasesOf(Poor, {[Plain EXCEPT !.n = 2], [Plain EXCEPT !.n = 2, !.vocab = {"_a"}],
                            [Plain EXCEPT !.prompts = <<Long \o <<"a">>>>, !.maxTokens = 1],
                            [Plain EXCEPT !.kind = "embedding"]})

-----------------------------------------------------------------------------
\* Claims of comments, documents and tests that the code does not keep, and the
\* requests that show it.

\* Text that may be the beginning of a stop string is held back "until sequence
\* is finished": nothing is streamed that the text does not keep, and nothing
\* twice (Streamed).
CasesHeldBack ==
    CasesOf(Served, {[Plain EXCEPT !.vocab = {"a", "b"}, !.stop = <<<<"a", "b", "b">>>>, !.maxTokens = 5,
                   !.stream = TRUE]})

\* "The returned output will not contain the stop strings."
NoStopInText ==
    \A i \in DOMAIN seqs : \A c \in DOMAIN seqs[i] : \A k \in DOMAIN req.stop :
        IsFinished(seqs[i][c]) /\ ~req.includeStop => Find(seqs[i][c].text, req.stop[k], 0) = -1
CasesTwoStops ==
    CasesOf(Served, {[Plain EXCEPT !.vocab = {"_a"}, !.stop = <<<<"a">>, <<"_">>>>]})

\* "Abort the request if the client disconnects."
DropStopsAll == stage = "dropped" => \A i \in Prompts : producer[i] = "runs" => i \in aborted
CasesLeft ==
    CasesOf(Served, {[Plain EXCEPT !.prompts = <<<<"a">>, <<"b">>>>, !.stream = TRUE, !.mayLeave = TRUE]})

\* A chat that echoes gets its chunks: "the new message will be prepended with
\* the last message if they belong to the same role".
ValidIsAnswered == stage \in {"error", "crashed"} => ~Valid(req) \/ EngineRefuses
CasesEcho ==
    CasesOf(Served, {[Plain EXCEPT !.kind = "chat", !.stream = TRUE, !.echo = TRUE]})
CasesBest ==
    CasesOf(Served, {[Plain EXCEPT !.kind = "chat", !.stream = TRUE, !.bestOf = 2]})
CasesEmbed ==
    CasesOf(Served, {[Plain EXCEPT !.kind = "embedding"]})
CasesEchoZero ==
    CasesOf(Served, {[Plain EXCEPT !.echo = TRUE, !.logprobs = 0]})

\* max_tokens that is left open is what the model has left.
WithinModel ==
    \A i \in DOMAIN seqs : \A c \in DOMAIN seqs[i] :
        Len(Ids(i)) + Len(seqs[i][c].out) <= config.maxModelLen
CasesOpen ==
    CasesOf(Served, {[Plain EXCEPT !.prompts = <<Long>>, !.maxTokens = None, !.vocab = {"a"}]})

\* echo with max_tokens = 0: "only return the prompt", once.
PromptOnce == \A k \in DOMAIN sent : sent[k].prompts <= 1
CasesPromptOnly ==
    CasesOf(Served, {[Plain EXCEPT !.prompts = <<Long>>, !.echo = TRUE, !.maxTokens = 0, !.stream = TRUE]})

\* A stop token is removed from the text as the token that was added last ("Remove
\* last token"), and nothing else is.
OnlyStopRemoved ==
    \A i \in DOMAIN seqs : \A c \in DOMAIN seqs[i] :
        LET s == seqs[i][c]
            prompt == TextOf(ConvertIdsToTokens(Ids(i), req.skip), req)
            all == TextOf(ConvertIdsToTokens(Ids(i) \o Front(s.sampled), req.skip), req)
        IN s.reason # None /\ Len(s.reason) = 1 /\ s.reason[1] \in req.stopTokens =>
              s.text = From(all, Len(prompt))
CasesStopToken ==
    CasesOf(Served, {[Plain EXCEPT !.vocab = {"h1", "b"}, !.stopTokens = {"b"}, !.maxTokens = 3]})

\* The texts of the tokens that prompt log probabilities are given for are those of
\* the prompt ("consistent actual with prompt").
PromptTextsInPlace ==
    stage # "start" => \A i \in Prompts : req.echo =>
        FlattenSeq(DecodePromptLogprobs(Ids(i), Tail(Ids(i)), req)) =
            From(TextOf(Ids(i), req), Len(TextOf(<<Head(Ids(i))>>, req)))
CasesPromptTexts ==
    CasesOf(Served, {[Plain EXCEPT !.prompts = <<<<"a", "b", "h1", "h2">>>>, !.echo = TRUE]})

\* A server whose eigen_alpha is not given, and one in a Ray actor, answer.
CasesNoAlpha == CasesOf({[eigen_alpha |-> Unset] @@ Default}, {[Plain EXCEPT !.n = 2]})
CasesActor == CasesOf({[engine_use_ray |-> TRUE] @@ Default}, {Plain})

-----------------------------------------------------------------------------
\* Claims about the start.

Started == phase = "started"

\* A batch that is too short "makes vLLM reject longer sequences": no engine is
\* started with one.
BatchHoldsSequence == Started => config.promptLimit >= config.maxModelLen

\* No engine is started whose sequences are longer than what "can be stored in
\* KV cache".
CacheHoldsSequence ==
    Started /\ Executor(situation) # "neuron" => config.cacheTokens >= config.maxModelLen

\* "If the user specified a max length, make sure it is smaller than the derived
\* length from the HF model config", which is that of the rotary embedding.
GivenLenIsChecked ==
    Started /\ HasRope(situation) /\ Executor(situation) # "neuron" =>
        config.maxModelLen <= RopePositions(situation)

\* --lora-dtype is the "Data type for LoRA".
LoraDTypeIsGiven ==
    Started /\ situation.enable_lora =>
        LoraDType(situation) =
            IF situation.lora_dtype = "auto" THEN DType(situation) ELSE situation.lora_dtype

\* --max-cpu-loras "Must be >= than max_num_seqs. Defaults to max_num_seqs."
CpuLorasHoldBatch ==
    Started /\ situation.enable_lora => MaxCpuLoras(situation) >= situation.max_num_seqs

\* --max-parallel-loading-workers: "Load model sequentially in multiple batches,
\* to avoid RAM OOM when using tensor parallel and large models."
LoadsInBatches ==
    phase = "failed" /\ situation.max_parallel_loading_workers # Unset =>
        LET s == [situation EXCEPT !.max_parallel_loading_workers = Unset]
        IN \/ Refused(s) \/ ExecutorFails(s) \/ WorkerFails(s) \/ LoadFails(s) \/ CacheFails(s)

\* "Prefix caching is not supported for fp8 cache_dtype. Run with --kv-cache-dtype
\* auto to use prefix caching."
NoPrefixesInFp8 ==
    Started /\ OnGPU(situation) /\ situation.enable_prefix_caching =>
        situation.kv_cache_dtype = "auto"

\* "pt" of --load-format "will load the weights in the pytorch bin format".
PtLoadsBin ==
    phase = "failed" /\ situation.load_format = "pt"
        /\ Matching(situation.model.checkpoint, "bin") # {} =>
        LET s == [situation EXCEPT !.load_format = "npcache"]
        IN Refused(s) \/ ExecutorFails(s) \/ WorkerFails(s) \/ LoadFails(s) \/ CacheFails(s)

\* What save_sharded_state writes to a directory ("exist_ok=True") "can be loaded
\* with" load_format sharded_state.
SavedCanBeLoaded ==
    LET c == situation.model.checkpoint
    IN phase = "failed" /\ situation.load_format = "sharded_state" /\ c.saves # <<>> =>
          ~ShardedLoadFails(c)

\* A server that is killed while it loads can be started again.
LoadsAgain ==
    phase = "failed" /\ disk.list = "cut" => LoadFails(situation)

\* "Verify that we can use the placement group": the workers find their place.
GroupCanBeUsed == phase = "executor" => NumWorkers(situation) = WorldSize(situation)
=============================================================================
