# SeaKR and its engine in TLA+

The repository is SeaKR, a multi-hop question answering program that asks a
language model step by step, measures how uncertain each answer is, and
retrieves documents when it is too uncertain.  It carries its own modified copy
of vLLM 0.4.2 (`vllm_uncertainty/`), which serves the model calls of many
questions at once.  This directory models the parts of both that decide, wait,
share and recover, checks them with TLC, and proves with TLAPS, for every value
of the constants, what matters most of eleven of them: the reasoner, the runner,
the asynchronous engine, the scheduler, the block manager, speculative decoding,
the driver of the workers, the all-reduce kernels and the forward passes that use
them, the merging of streams and the server that reads them.

Paths below are relative to `src/j-enhanced/`; `V/` is `vllm_uncertainty/vllm/`.

## 1. The system

    main_multihop.run_full                one task per question, semaphore, lock,
      |                                   two result files, error limit
      v
    SEAKR/reasoner.MultiHopReasoner       one coroutine per question
      |  call_llm                         (retriever: Elasticsearch)
      v
    V/engine/AsyncLLMEngine               calls, streams, tracker, background loop
      |  engine_step
      v
    V/engine/LLMEngine, V/core/Scheduler  queues, budget, preemption
      |  V/engine/output_processor        fork, stop checker, deferred end
      v
    V/core/BlockSpaceManager V1 or V2     block tables, prefix cache, evictor
      |
      v
    V/executor, V/worker                  broadcast, worker processes, monitor
      |
      v
    V/worker/model_runner, sampler        rows of a batch, tokens, embeddings
    csrc: cache and all-reduce kernels    the device caches, the barriers

    V/engine/arg_utils, config            arguments to limits, executor, workers,
    V/model_executor/model_loader         the files of the model, the cache
    V/spec_decode                         a draft model in front of the worker
    V/entrypoints/openai                  requests over HTTP: validation, the
                                          streams of several prompts merged
                                          (V/utils), chunks, responses

| component | state it keeps | operations | what makes it correct |
|---|---|---|---|
| Runner (`main_multihop.py`) | tasks, semaphore, one lock, two files, error count | start, solve, write and flush a line, count an error, cancel all, close | bounded concurrency, one writer, a line per question, nothing begun after the error limit, it ends |
| Reasoner (`SEAKR/reasoner.py`) | steps, documents, searched queries, final answers, number of calls | answer a step, retrieve, read the candidates, read all steps, read all documents, compare | uncertain steps are replaced, limits kept, no document twice, a failed call leaves a consistent checkpoint, it ends |
| Async engine (`V/engine/async_llm_engine.py`) | one stream per call, tracker with two queues and an event, loop task, error flag | generate, abort, cancel, read; one iteration of the loop; done callback | streams end once and for a reason, the loop neither dies nor sleeps over a request, errors reach the callers |
| Scheduler (`V/core/scheduler.py`) | waiting, running, swapped; the budget of a step | add, abort, the three loops of a step under two policies, preempt by recomputation or swapping | no group lost, no device overcommitted, order of arrival, every request ends |
| Output processing (`V/engine/output_processor/`) | status of the sequences of a group | fork at the first token, stop conditions, end deferred by a step (`real_stop_status`), several tokens of a speculative step | every end is reported, no token is lost, the embedding of an end is its own |
| Block manager v1 (`V/core/block_manager_v1.py`) | free lists, reference counts, block tables | allocate, append slots with copy-on-write, fork, free, swap in and out | no block in use is handed out, none is freed twice, a written block is not shared |
| Prefix cache (`CachedBlockAllocator`, `V/core/evictor_v1.py`) | blocks by hash, evictor, computed flags; the device caches | allocate by hash, promote, evict, swap, copy, mark computed | whoever reads a cached block finds the keys of its own prefix |
| Block manager v2 (`V/core/block_manager_v2.py`, `V/core/block/`) | block tables, naive and prefix caching allocators, counters, copy-on-write tracker | allocate, append with lookahead, fork, free, slide the window | the same, and no step runs out of blocks |
| Executors and workers (`V/executor/`, `V/worker/worker.py`) | execution loops, task queues, result handler, monitor | start a loop, step, stop the loop, run a task in all workers, die | all ranks agree on the order of collectives, nobody waits in vain |
| Parallel layers (`V/model_executor/layers/linear.py`, `vocab_parallel_embedding.py`, `V/lora/layers.py`) | a part of each parameter and of each adapter on every rank | construct, load a tensor, activate an adapter, forward, all-reduce | the ranks together compute every layer once, whatever the quantization |
| Custom all-reduce (`csrc/custom_all_reduce.cuh`) | signals in the memory of each peer | copy in, barrier, reduce, barrier | a rank reads its peers' buffers only while they hold this call's input |
| Sampled step (`V/worker/model_runner.py`, `sampling_metadata.py`, `sampler.py`) | rows of a batch, cached tensors | prepare, forward, prune, sample, gather | token, log probabilities and embedding of a sequence come from its own row |
| Speculative decoding (`V/spec_decode/`) | draft and target caches, proposals | propose, expand, score, reject, emit, track | the output is one the target model could have given by itself |
| Attention (`V/attention/`, `V/worker/model_runner.py`) | slot mapping, block tables, tables of captured graphs | prepare a batch, write keys, attend by one of five backends | every token reads the keys of its own context, each once |
| LoRA (`V/lora/`) | two LRU lists of adapters, slots of weights, the mapping of tokens to slots | load, activate, evict, remove, map | every token meets the weights of its own adapter |
| Merging of streams (`V/utils.py`) | producer tasks, a queue, flags | produce, end, raise, read, cancel | every item in order, no task left behind |
| Completion server (`V/entrypoints/`, `V/transformers_utils/detokenizer.py`) | per request what has been sent; per sequence text and offsets | validate, merge, send a chunk, keep a result, abort, end | the answer is the text of the tokens up to the stop, each part once, and it comes |
| Start (`V/engine/arg_utils.py`, `V/config.py`, `V/executor/`) | the arguments, and what each class of configuration derives | check, choose an executor, make workers, load, count cache blocks | what was checked early is still true when requests come |
| Model loading (`V/model_executor/model_loader/`) | files of a checkpoint, a numpy cache, parts of a sharded state | choose files, filter, dump, save, load | every weight arrives once, and a start that died does no harm to the next |
| Retriever, prompts, tensor arithmetic, offline entrypoints | | | see section 7 |

What is hard here is not one algorithm but the seams: coroutines that suspend
in the middle of a decision; calls, aborts, cancellations, errors and outputs
of one request that meet in any order; a scheduler that takes its queues apart
and reassembles them in each step; counts that must agree with tables through
forks, preemption and swapping; caches of keys and values that are trusted by
their hash while the step that fills them is still to come; ranks that agree on
the next collective only by having counted the same ones; and the deferral by
which this copy of vLLM ends a sequence one step after its last token, to
collect its hidden states.  `PROJECT.json` lists these hazards at their lines.

## 2. The modules

| module | models | mapping of its state and actions |
|---|---|---|
| `Reasoner` | `MultiHopReasoner.solve` for one question | The variables are the attributes of the object and the locals of `rag()`; `pc` is the call of the engine that is awaited. An action is the code from one `call_llm` to the next: `AnswerDirect` (with `check_final_step` and the pop of `rag`), `Retrieve`, `ReadDoc` (one candidate; after the last one the choice of the best and the end of the iteration), `ReadSteps`, `ForceSteps`, `ReadDocs`, `ForceDocs`, and `CallFails`. |
| `MultihopRunner` | `run_full`, `run_one_question` | `at[q]` is what the task of question q awaits. One action per piece between two awaits: getting a permit, asking for the lock, write, flush, count. A cancellation is on its way in `cancelled` until the task meets it (`Cancelled`), and is swallowed when an answer arrives with it (`Solved`, Python 3.10). |
| `AsyncEngine` | `AsyncStream`, `RequestTracker`, `AsyncLLMEngine` | Calls: `Generate`, `AddRequest`, `Read`, `Cancel`, `Abort`. The loop: `WaitForNewRequests`, `WakeUp`, `EngineStep` (up to the await of the workers), `ModelReturns`, `Breaks`; and `Callback`, the done callback of the task. `streams` holds what was ever put in a queue, `read` how much was taken out. |
| `RequestService` | what a caller may rely on | The abstract specification: per call none, open, then one ending, with at most `MaxOutputs` outputs. `AsyncEngine` implements it (`ImplementsService`, with `Reply` as refinement mapping). |
| `Scheduler` | `Scheduler`, `Sequence(Group)`, the output processor and the step of `LLMEngine` | `schedule()` is one synchronous call; each iteration of its loops is an action (`IgnorePrompt`, `Prefill`, `Preempt`, `AppendSlots`, `FailSwapped`, `SwapIn` and the `...Done` actions), `Commit` puts the queues together, `Execute` is the model and `_process_model_outputs`. `Configs` are the configurations of the engine, among them the policy. |
| `BlockManagerV1` | `UncachedBlockAllocator`, `BlockSpaceManagerV1` | One action per operation of the manager as the scheduler and the output processor call it: `Allocate`, `BeginAppendSlots` and `AppendSlot` (one sequence of the loop), `Sample` (with the forks), `BeamReplace`, `Finish`, `Abort`, `Retire`, `PreemptByRecompute`, `PreemptBySwap`, `SwapIn`, `IgnoreSwapped`. |
| `KVCache` | the device caches and what a step does to them | Cells of a block, the swaps, copies and writes of a step, and when their order matters (`RacesIn`). The managers below and `Attention` extend it. |
| `PrefixCache` | `CachedBlockAllocator`, `LRUEvictor` and `BlockSpaceManagerV1` over them | The actions are those of the scheduler on a group; `steps` of a device carry out what they asked for, so that flags and contents differ in time as in the code. |
| `BlockManagerV2` | `BlockSpaceManagerV2`, `BlockTable`, `NaiveBlockAllocator`, `PrefixCachingBlockAllocator` | The same actions over tables of blocks with numbers, immutable blocks by hash, and null blocks for what the window left behind. |
| `Workers` | `MultiprocessingGPUExecutor`, `ProcessWorkerWrapper`, `ResultHandler`, `WorkerMonitor`, `Worker` | The driver, one process per remote worker, the two threads of the executor. A collective is a position in the sequence of each rank; it completes when all ranks are at it with the same one. |
| `AllReduce` | `CustomAllreduce`, both kernels of `custom_all_reduce.cuh` | Per rank the host's calls and the kernel's blocks by the statement between two accesses to shared memory: copy in, signal, wait, read, signal, wait, reset. |
| `Shards` | `linear.py`, `create_weights` of ten quantization methods | No state: a layer is its kind and sizes, a parameter its axes and attributes, and a loader a function from a tensor to the pieces of it that a rank keeps. |
| `LoraShards` | `lora/layers.py`, `lora/fully_sharded_layers.py`, `LinearScalingRotaryEmbedding` | No state: which class replaces a layer, how it slices A and B, and which of their rows and columns meet when it is applied. |
| `TensorParallel` | the embedding, the logits, the loading and the forward of a model on all ranks | Composes `AllReduce` with the two above. `LoadTensor`, `FinishLoading`, `ActivateLora`, and `Reduce`, the steps of `AllReduce` with what the buffers hold: `partial` and `result` are sets of the inputs that have been summed. |
| `SampledStep` | `_prepare_model_input`, `SamplingMetadata`, `SamplingTensors`, `LogitsProcessor`, `Sampler`, the embedding and energy of a step | A batch is a sequence of rows; a value is named by the sequence and position it belongs to, so that a property can compare what was delivered with whose it was. |
| `SpecDecode` | `SpecDecodeWorker`, proposers, scorer, rejection sampler, multi-step output | One action per phase of a speculative step. The caches map positions to the token whose keys they hold. |
| `MergeIterators` | `merge_async_iterators` | A producer per iterator, and the consumer between two suspensions. |
| `Detokenizer` | `detokenizer.py`, `stop_checker.py` | No state: a sequence is a record of its tokens, offsets, text and status, and an operator per method. A token stands for bytes, a character may take two. |
| `CompletionServer` | `entrypoints/openai/serving_*.py`, `api_server.py`, `sampling_params.py`, what of `LLMEngine` answers them | Composes the two above. One request: `Start` (validation), `Read` (the merge), `StreamChunks` or `KeepResult`, `Leave`, `Finish`, `Fail`; `Step`, `PrefillPart`, `IgnorePrompt`, `StepEmbedding` are a step of the engine for one of its prompts. The chunks of one output are sent at once. |
| `Checkpoint` | `loader.py`, `weight_utils.py`, `tensorizer.py` | No state: a checkpoint is a record of its files with the names in them; one operator per loader says what it reads and when it raises, `Dumped` and `Interrupted` what becomes of the numpy cache. |
| `EngineStart` | `arg_utils.py`, `config.py`, the executors, `determine_num_available_blocks` | No state: a situation is a record of arguments, model, draft model and machine; one operator per derived value and per method that refuses. |
| `ServerStart` | the start of a server, and the server | Composes the two above with `CompletionServer`: `CreateEngineConfig`, `InitExecutor`, `InitWorkers`, `LoadModel`, `InitializeCache`, then `TakeRequest` and `Serve`. `CrashWhileLoading` is the death of the process while it makes the numpy cache (`disk`), after which it is started again. |
| `BlockSpaceManager` | `SchedulerConfig.use_v2_block_manager` | Either version behind one step of the scheduler: the variables of both, `Init` and `Next` of the one that the configuration asks for, and properties stated for both. |
| `Attention` | `selector.py`, five backends, `paged_attn.py`, `prefix_prefill.py`, the Triton and the block sparse kernel, the paged kernels | No state: one operator per `forward` and per kernel, the function from the positions that a query visits to the keys it finds there. |
| `LoraManager` | `LRUCacheWorkerLoRAManager`, `LRUCacheLoRAModelManager`, `convert_mapping` | A manager is a record; one operator per method. |
| `WorkerStep` | `ModelRunner`, `CPUModelRunner`, captured graphs, what shapes a batch in the scheduler, `compute_greedy_jacobian_score` | Composes the two above with `KVCache`: an action is a step of the engine (`Prefill`, `Decode`, `ChunkedStep`, `PreemptingStep`), the pass of a jacobian score, or a call that adds or removes an adapter. |
| `Lists` | | `Select` and `SumUpTo`, a subsequence and a sum, as recursive functions, and `OneOfEach`, the ways to choose one of each set of a sequence: used by the runner, the engine, the scheduler, `SpecDecode` and `MergeIterators`, and proved about in `ListLemmas`. |
| `ListLemmas` | | No model: induction over the natural numbers for sets instead of operators, what it shows of `Lists`, and facts about queues. |
| `SeakrProofs`, `AsyncEngineProofs`, `SchedulerProofs`, `BlockManagerV1Proofs`, `DistributedProofs`, `SpecDecodeProofs`, `ServerProofs` | | theorems and their proofs (section 6) |
| `MC...` | | instances for TLC, and the claims that are refuted (section 5) |

`Scheduler` counts blocks where `BlockManagerV1` names them: what the first
takes for granted of a group (its blocks are `prefix` shared ones and the rest
per sequence; what is lost when a count is too high) is what the second
shows block by block.  `PrefixCache` and `BlockManagerV2` go one level further
down, to what the blocks hold, and `WorkerStep` to what is read of them.
`AsyncEngine` sees the scheduler as the choice
of the groups that are in a step, `MultihopRunner` sees the reasoner as one
await, and `Reasoner` sees the engine as a call that returns or fails.

### What is abstracted

* **Texts.** `Reasoner` keeps of a text what the checks of the program see
  of it (`Contents`, `Answers`): blank, a thought, an answer, both, or an
  answer that was cut before its full stop, which `_check_final_answer` does
  not find and `filter_last_step` removes all the same.  An empty answer is not
  `None`: `read_all_steps` forces another, `read_all_docs` and `compare_answer`
  take it.
* **Scores.** Their side of the threshold, and their order among each other;
  a forced answer keeps the score of the first attempt, as in the code.
* **Retrieval.** Any `TopK` documents, or a failure; the dummy documents
  are documents that are returned like others.  The tokenizer that the jacobian
  selection awaits is folded into `Retrieve`.
* **The model.** Which sequences stop is a choice; only the length limits
  are computed (`MustStop`).  The workers of `AsyncEngine` answer, fail or time
  out.  In `SpecDecode` a model gives to each prefix a set of possible tokens and
  a likeliest one (`Likeliest`).
* **Refusals.** Whether `LLMEngine.add_request` raises `ValueError` for a call
  is a choice for the calls in `MayBeInvalid`.
* **Queues of the scheduler.** Running and swapped are sorted by arrival
  whenever they are used, so they are sets; waiting is a sequence, since nobody
  sorts it.
* **Blocks.** In `BlockManagerV1`, which free block is handed out is immaterial
  up to renaming.  In `PrefixCache` and `BlockManagerV2` the evictor decides, as
  in the code.  `Scheduler` uses blocks of one token.
* **Keys and values.** A cell of a cache holds the prefix of tokens its keys
  were computed from, which is what a reader has to know of them; a hash is the
  prefix it is computed from (no collisions).
* **Kernels.** `AllReduce`: reads and writes of shared memory in their order;
  the numbers that are added are not.  `Attention`: the positions a program
  visits, tile by tile, and where it loads each from; scores, softmax and the
  order of the sum are not.
* **Adapters.** In `WorkerStep` their numbers, the layers they cover and whether
  they have a long context; a slot holds the weights of one adapter or zeros.  In
  `LoraShards` their rank and the modules they have.
* **Weights.** A tensor is an interval of columns or inputs of one projection; a
  layer is right if the columns that its parameters hold at one place agree, and
  meet the inputs that their rank has.  Every `grain`-th column stands for the
  others.  The models themselves (`vllm/model_executor/models`) are not part of the
  repository; `TensorParallel` has the blocks that they are made of.
* **Configurations.** `EngineStart` has the arguments, the keys of config.json
  and the properties of the machine on which a start depends, with sizes scaled
  down; a file is the names in it, a tensor the bytes of its storage that it
  covers.  Of the configuration the requests meet the limits (`ConfigOf`).
* **What `WorkerStep` takes for granted.** Blocks as a block manager hands them
  out while there is room, sharing and windows included (`BlockTable`); a
  request that runs out of blocks is a step that preempts (`shortages`).  When
  requests arrive and how a set is iterated is open.

Omitted from `Scheduler`: `delay_factor`, beam search and embedding models;
the limits on adapters are in `WorkerStep`, lookahead slots in `BlockManagerV2`.  SeaKR itself runs with
`enable_prefix_caching=True`, so its own blocks come from the allocator in
`PrefixCache`; the one in `BlockManagerV1` serves every other use of this copy
of vLLM.  SeaKR samples n = 20 sequences per call, so groups of several
sequences, the ones with the intricate cases below, are its normal case.

## 3. The runs

`tlc -workers 2 -config X.cfg M` in this directory; a run of a module with an
`MC` module uses that one.

| run | configuration | distinct states | what it asks |
|---|---|---|---|
| `bm_swap` | `BlockManager_swap.cfg` | 697 437 | Two groups of two sequences, one sampled and one with beam search, compete for four GPU blocks, one of them the watermark, and three CPU blocks: refusals, forks, copy-on-write, swapping, recomputation, aborts and sequences that end one by one, in every order. (`IndInv`, `SlotsInv`, `SwapKeepsSharing`) |
| `async_serve` | `AsyncEngine_serve.cfg` | 142 049 | Two calls that the engine may refuse, with aborts and cancellations at any point, under two set-ups: workers that always answer, and workers that fail or time out under a loop the caller has started. Streams end once and for a reason, the groups in the engine and the open streams correspond, the loop neither dies of its own nor sleeps over a request, an errored engine stays stopped, aborted requests leave the engine, the callers are told, and the whole implements RequestService. (`StreamsInv`, `EngineInv`, `AbortedLeavesEngine`, `RegisteredRequestEnds`, `ImplementsService`) |
| `sched_serve` | `Scheduler_serve.cfg` | 248 219 | Three requests of one or two sequences compete under three settings: the default policy on a cache too small for them, with groups that are recomputed and groups that are swapped, and the chunked policy with prompts longer than the budget. No queue loses a group, no device is overcommitted, the limits are kept, no request overtakes another, no assertion fails, and every request of one sequence ends and is reported. (`QueuesInv`, `NoOvertaking`, `EndedIsReported`, `EmptyStepMadeRoom`, `EveryGroupEnds`) |
| `reasoner_solve` | `Reasoner_solve.cfg` | 658 140 | One question in eigen mode, every model answer and every retrieval of two of three documents: the checkpoint state, the limits and the cost of a question hold through all of solve(), which terminates without the help of the 20 minute timeout. (`IInv`, `CheckpointConsistent`, `SolveEnds`) |
| `runner_disk` | `MultihopRunner_disk.cfg` | 191 098 | Four questions, two at a time, a limit of two errors and a disk that may fail anywhere: what the two files hold, who may write to them, and that run_full ends and leaves no task behind. (`RunnerInv`, `RunEnds`) |
| `block_space` | `BlockSpaceManager_steps.cfg` | 634 109 | The block managers that cache, step by step down to what the device caches hold. Version 1: three requests with common and repeated prompts on five blocks, with forks, preemption by recomputation and by swapping, and aborts at any point. Version 2: two requests with and without content hashes, forks, a sliding window, lookahead slots and preemption. What the attention of a step reads from shared, computed and reused blocks is what the tokens of the sequence say. (`ReadsOwnPrefix`, `StepIsRaceFree`, `AccountsInv`) |
| `workers` | `Workers_tp3.cfg` | 24 880 | A driver with two worker processes, synchronous and asynchronous, that may be killed or raise at any point: the execution loops agree with what the executor believes, and no thread waits for a result that cannot come. (`LoopsAgree`, `NobodyWaitsInVain`) |
| `sampled_step` | `SampledStep_batches.cfg` | 8 869 | Batches that mix prompts and decodes, greedy, random and seeded requests, forks, prompt log probabilities, cached and cut prompts and preemption: every result of the sampler comes from the row of its own sequence. (`ResultsAreOwn`, `PromptLogprobsComplete`, `PlainStepsSucceed`) |
| `spec_decode` | `SpecDecode_serve.cfg` | 6 416 | Three requests under speculative decoding with a draft model or n-grams, sampled and greedy, in batches of which some requests cannot be guessed for, with preemption and with speculation off at times: every token is judged by the target in its own context, the draft model misses nothing, and what is accepted behind the end is dropped. (`OutputIsTargets`, `DraftKvComplete`, `EveryStepEmits`) |
| `worker_step` | `WorkerStep_pass.cfg` | 3 643 | One worker over several steps, under 41 engines: five attention backends, captured graphs, chunked prompts, prefix hits, sliding windows, block sparse heads of two ranks, preemption, jacobian passes, adapters with evictions: no step raises, every token reads exactly the keys of its own context, every token and row of logits meets the weights of its own adapter. (`StepsSucceed`, `AttendsOwnContext`, `AdaptersApplied`) |
| `tensor_parallel` | `TensorParallel_ranks.cfg` | 34 961 | A model on the ranks of tensor parallelism, from its constructors over the loading of its tensors, in any order, to its forward passes: 103 models with up to four ranks, ten quantizations and adapters in two slots, and for one of them six all-reduces of two ranks whose threads run freely. The ranks together compute every layer once, and each gets the sum of what all have contributed to that call. (`ReadsInPlace`, `ForwardIsWhole`, `SumsAreWhole`, `AdaptersInPlace`, `PassesEnd`) |
| `completion_serve` | `CompletionServer_serve.cfg` | 181 685 | A server from its arguments to its answers. The start with every pair of 162 changes of a default (arguments, model, checkpoint, draft model, host), the loading of the weights interrupted or not: an engine that has started has limits, cache, heads, positions and weights that agree. Then one request from validation to answer: 39 requests (completions of one to three prompts, chats, embeddings, /generate; streamed and not, several choices, echo, stop strings and tokens, characters split over tokens, refusals) under five engines, with a client that may leave at any time. Text is what the tokens decode to and ends at its stop string; the merged streams lose and mix nothing and no task outlives a failed reader; the answer is the whole text, each part once, and is missing only for the reasons listed; and there is no deadlock. (`ServerInv`, `AnswerIsWhole`, `StartIsSound`) |

`IndInv`, `SlotsInv` (`WriteIsExclusive`, `NoAllocatorError`), `StreamsInv`,
`EngineInv`, `QueuesInv`, `RunnerInv`, `IInv`, `ReadsOwnPrefix`,
`AccountsInv`, `ServerInv` (`MergeInv`, `HandlerIsServed`, `ResponseIsFinal`),
`AnswerIsWhole` (`TextIsWhole`, `EndsAtStop`, `StreamedIsFinal`, `OnlyKnownCrashes`),
`StartIsSound`, `ResultsAreOwn` (`SampledFromOwnRow`, `EndsWithOwnEmbedding`),
`OutputIsTargets` (`Lossless`, `EndsAtFirstStop`) and `NobodyWaitsInVain`
(`StepsComplete`, `WaitersWoken`) are
conjunctions of named parts, each stated with its comment in the module.

### Bounds, and why they are enough

* `bm_swap`: two groups of two sequences.  Copy-on-write, sharing and its end
  need two tables that share; competition needs a second group.  Four GPU blocks
  of two tokens, one of them the watermark, hold neither two full groups nor one
  group and the copy-on-write of the other, so every admission check gets to say
  no, and a prompt of seven tokens never fits; three CPU blocks make swapping
  succeed for one group and fail for two.  The header of the configuration
  names the values for a window of two blocks, with which a table lists a block
  twice; `NoUseAfterFree` and `NoAllocatorError` pass there, and section 5 shows
  what swapping and beam search do to a window.
* `async_serve`: two calls, two outputs each: a call that is running while
  another arrives, is refused, aborted or cancelled, and an output that is not
  the last.  `SetupsServe` are a loop that starts itself over workers that do
  not fail, and a loop started by the caller (so that a dead loop stays dead)
  over workers that fail or time out.  The scheduler always schedules one of its
  groups (`MayScheduleNone = FALSE`); section 5 shows what happens otherwise.
* `sched_serve`: three groups (a victim, the one that preempts, and one that
  waits), at most four output tokens, a model length of five, and too few blocks
  for three groups, so preemption, swapping, refusal and the length cap all
  happen, several times per behaviour.  `ConfigsServe` are the default policy
  with single sequences and no watermark, which lets one step preempt two groups;
  pairs of sequences with swap space; and the chunked policy with a watermark of
  three of eight blocks, so that a preempted group may become one that can never
  be allocated again, and prompts longer than the budget.
* `reasoner_solve`: three documents, two per retrieval, three queries, three
  steps and two documents at most: retrieval can return known, new and mixed
  documents, a query can repeat, and each limit is reached first in some
  behaviour.  `CallCap` is above the cost bound, so that `CallsInv` compares
  the real count and a mutant that loops has finitely many states.
* `runner_disk`: four questions, two workers, a limit of two errors: at the
  limit there are questions waiting, solving, in the lock and writing.
* `completion_serve`: a server is started with every pair of changes of the
  default arguments, model and machine (`Changes`, 11676 initial situations), so
  that two settings which meet in no single class of `config.py` are met; memory
  is counted in units of a fortieth of a gigabyte, the default length is 6,
  other lengths lie around it, and the watermark takes 20 percent of few blocks.
  `NoLimit` is above every length.  The two servers of `Served`, with and without
  chunked prompts, then answer the requests: 39 requests of one to three prompts
  over at most eight tokens (letters, halves of a character, a leading space, an
  added token, eos), up to five tokens of output; those of `Poor` the few
  that depend on what they lack.  Three prompts of one token make
  the streams interleave in every order; two with more tokens let a client leave
  between any two of their outputs.
* `block_space`: for version 1 with prefix caching three groups over two tokens,
  blocks of two, five GPU and two CPU blocks, five workloads: equal and
  diverging prompts, groups that fork, swap, are recomputed, and more blocks
  asked for than there are, so that the evictor takes a block back that a later
  group wanted.  For version 2 two groups, up to eight blocks of two, six
  configurations (`ConfigsSound`): both allocators, forks, lookahead, a window
  of one token.
* `worker_step`: three requests of up to ten tokens, of which texts, prompts and
  adapters are given by the engine, and 41 engines (`EnginesSound`): each
  backend, eager and captured, chunked, with prefix hits, with windows, with
  preemption; tiles, partitions and the graph's length are so small (2, 4, 6)
  that each of their boundaries lies inside a sequence, and at it.  Slots and
  memory for one to three adapters of three, so that evictions happen between
  steps and inside one.
* `workers`: two remote workers beside the driver, steps with a model and with
  nothing to do, the synchronous and the asynchronous executor, exceptions in a
  step and a worker that is killed at any point.  Two are enough for ranks to
  disagree in more than one way.
* `tensor_parallel`: one, two and four ranks, heads of keys and values that are
  divided, replicated and single; layers as narrow as their quantization accepts,
  so that each rank has one or two groups, tiles and packs; separate and fused
  checkpoints, biases, a vocabulary that ends inside, at the end of and before the
  rows of a rank; adapters with all, some and no modules, of full and smaller
  rank, in two slots.  Loading is order independent by inspection of all orders.
  Passes are run for one model on two ranks: six all-reduces, of which 1, 2 and 5
  take two stages (`TwoStage`), so that each kernel follows each, itself included.
* `sampled_step`: three requests, six configurations of their sampling
  parameters and of the engine (`MCSampledStep`): prompts and decodes in one
  batch, chunked prompts, prompt log probabilities, several sequences, seeds.
* `spec_decode`: three requests over two tokens, one of which is EOS, one or
  two proposed tokens, four configurations: both proposers, requests that are
  excluded because of their length or the size of the batch, and an EOS in every
  place of a step.

### Deadlock

`CHECK_DEADLOCK FALSE` is in every configuration but `SpecDecode_serve.cfg` and
`CompletionServer_serve.cfg` (where `Idle`, and `Over` and `Rest`, are the only
steps left when all requests have ended or the server has failed), because these systems really may stop: the block managers and the scheduler at an exception
that ends the engine or when all requests have ended, the calls of `AsyncEngine`
when each has its ending, the executor when it is shut down, the kernels after
the last call, `solve()` and `run_full` when they return.
That they do not stop *earlier* is what `EveryGroupEnds`, `EmptyStepMadeRoom`,
`ImplementsService`, `RegisteredRequestEnds`, `NobodyWaitsInVain`,
`PassesEnd`, `SolveEnds` and `RunEnds` check.


## 4. Fairness

* `AsyncEngine`: the event loop runs every task that is ready (weak fairness of
  each action of the loop, of `AddRequest` and `Read` per call), and a step that
  the workers execute comes to an end: `wait_for` with
  `ENGINE_ITERATION_TIMEOUT_S` guarantees it, or the workers do.  Nobody is
  assumed to call, abort or cancel.
* `Scheduler`: `WF(Step)`, the engine is stepped as long as it has unfinished
  requests (`run_engine_loop`, `LLM._run_engine`).  Arrivals are bounded by
  `NumGroups`, and no group has to be aborted.
* `Reasoner`: `WF(Next)`; a call returns, fails, or is cancelled by `wait_for`
  of `run_one_question` after 20 minutes.  `CallFails` is not relied upon: weak
  fairness of the disjunction is satisfied by returns alone, and in them the loop
  still ends.
* `MultihopRunner`: weak fairness per task and of `run_full`; `solve()` ends
  because of the timeout, a thread of aiofiles returns.
* `ServerStart` and `CompletionServer` state none.  A start goes forward or
  fails, and may die any number of times while it loads; every step of a request
  adds to what is computed, queued or read, all of which are bounded.  So the
  absence of deadlock (`Over` is the only step of a request that has come to an
  end) and `HandlerIsServed` mean that each request is answered.  `FairSpec` of
  `MergeIterators` belongs to its claim in section 5.
* `Workers`: weak fairness of the driver, of the tasks that enqueue, of the
  result handler, of the monitor and of each worker process: they are processes
  and threads of an operating system, and a collective that all ranks have
  entered completes.  Nobody is assumed to die or to raise.
* `TensorParallel`: the ranks go on loading, and a rank goes on with its stream
  and its kernel: weak fairness of `Reduce` per rank.  The blocks of a grid of at
  most 36 are resident together, which is what the spinning barriers rely on.


## 5. What the code does not keep

Comments, docstrings, assertions, tests and documents of the repository promise
more than the code does.  Each row is a promise that TLC refutes on an instance
of its module.  The header of the configuration of the component's run lists the
constants of each claim and the property to set (for `MergeIterators` and
`ServerStart`, that of `CompletionServer_serve.cfg`).

| module | claim | at | what happens |
|---|---|---|---|
| `BlockManager` | `ResetFreesAll` | V/core/block_manager_v1.py:301 | allocate sets ref_count to seq_group.num_seqs(), which counts the finished sequences of the group; when a group of which all sequences but one are finished is preempted by recomputation, its blocks get more references than tables and are never freed again. vllm_uncertainty/tests/core/test_block_manager.py:287 says "Resetting block manager frees all allocated blocks." |
| `BlockManager` | `NoAllocatorError` | V/core/block_manager_v1.py:529 | swap_out frees the GPU block of every entry of a table, so a block the sliding window lists twice is freed twice and free raises ValueError("Double free!"). V/core/block_manager_v1.py:542 says "we must make sure to not free blocks more than once". |
| `BlockManager` | `FreeIffUnreferenced` | V/core/block_manager_v1.py:441 | fork increments the count of every block of the parent table, including blocks that copy-on-write already released inside the window; a block on the free list gets a count. V/core/block_manager_v1.py:25 says the free list holds the blocks whose "reference count becomes zero". |
| `BlockManager` | `FinishedHoldsNothing` | V/core/scheduler.py:535 | _schedule_swapped marks the sequences of a swapped group that cannot be swapped in FINISHED_IGNORED and drops the group without free_seq, so its CPU blocks stay allocated for ever. V/sequence.py:69 says "The ignored sequences are the sequences whose prompt lengths" are longer than the cap, which hold no blocks; this one does. |
| `AsyncEngine` | `SleepsOnlyWhenIdle` | V/engine/async_llm_engine.py:508 | engine_step returns whether the step had outputs; its docstring says "Returns True if there are in-progress requests." (V/engine/async_llm_engine.py:473). A step of the scheduler in which the only running group cannot append a slot preempts that group and schedules nothing (V/core/scheduler.py:437): no output, an unfinished group, and run_engine_loop waits for a new request. The run shows the loop asleep over a group. |
| `AsyncEngine` | `ErrorReachesEveryStream` | V/engine/async_llm_engine.py:109 | propagate_exception iterates over _request_streams only, and a stream is entered there by get_new_and_finished_requests on the next iteration; its docstring says "Propagate an exception to request streams (all if request_id is None)." (V/engine/async_llm_engine.py:103). The run shows a call whose stream is in _new_requests when the loop dies: it gets neither error nor end. |
| `AsyncEngine` | `ErroredIsStopped` | V/engine/async_llm_engine.py:836 | is_stopped takes errored for stopped and check_health then says "Background loop is stopped." (V/engine/async_llm_engine.py:837). The run shows the engine errored with a running loop: errored is set by the done callback of the task, while start_background_loop, called between the end of the task and that callback, only looks at errored and is_running; it also replaces the tracker, so the callback informs the streams of the new tracker and the calls of the old one wait for ever. |
| `AsyncEngine` | `EngineSurvives` | V/engine/async_llm_engine.py:142 | add_request compares with _request_streams, not with _new_requests, so two calls with one id are accepted until the loop drains the queue; the tracker test says "# request_ids must be unique" and expects a KeyError for the second call (vllm_uncertainty/tests/async_engine/test_request_tracker.py:33). The run shows the second group raising KeyError in process_request_output instead, which ends the background loop for all requests. |
| `Scheduler` | `PrefillHasOneSequence` | V/core/scheduler.py:971 | schedule() asserts, under the comment "# Prefill has only 1 sequence." (V/core/scheduler.py:970), that a group in prefill has one sequence. A group with best_of 2 whose second sequence has finished has get_max_num_running_seqs() == 1, is preempted by recomputation, and is in prefill with two sequences in its dictionary when it is scheduled again. |
| `Scheduler` | `SameStage` | V/sequence.py:596 | is_prefill looks at the first sequence under the comment "# Every sequence should be in the same stage." (V/sequence.py:595). After the recomputation of a group whose first sequence has finished the first one is in the decode stage and the remaining one in prefill; schedule() makes the metadata of a decode for it. |
| `Scheduler` | `NothingLost` | V/core/block_manager_v1.py:301 | _preempt says of groups with multiple sequences that "recomputation is not currently supported. In" such a case swapping is used (V/core/scheduler.py:1062), but decides by the unfinished sequences; allocate then sets the reference count of each block to the number of all sequences of the group, and freeing the only table leaves it above zero (UncachedBlockAllocator). |
| `Scheduler` | `IgnoredIsTooLong` | V/core/scheduler.py:662 | The code ends a request as FINISHED_IGNORED that was accepted and has output, when it is recomputed with max_model_len + 1 tokens; sequence.py says "The ignored sequences are the sequences whose prompt lengths" are longer than the model's length cap (V/sequence.py:69). |
| `Scheduler` | `RunsWithinModel` | V/engine/output_processor/stop_checker.py:60 | maybe_stop_sequence flags a sequence when it has max_model_len + 1 tokens, and maybe_stop_sequence_for_eos lets it run once more; the configuration says "max_model_len: Maximum length of a sequence (including prompt and" output) (V/config.py:54). |
| `Scheduler` | `WaitingSorted` | V/core/scheduler.py:875 | _schedule_prefills says "We don't sort waiting queue because we assume it is sorted." (V/core/scheduler.py:642); the chunked policy prefills waiting requests in the step that preempts, so that a younger request runs and is later preempted in front of the older one. |
| `Scheduler` | `InfeasibleIsReported` | V/core/scheduler.py:904 | The chunked policy leaves infeasible_seq_groups out of "# Sequence groups that are going to be ignored." (V/core/scheduler.py:126), which the default policy includes; the group has been taken from the swapped queue and gets no RequestOutput. |
| `Scheduler` | `NeverOverBudget` | V/core/scheduler.py:1188 | A decode of several sequences is neither chunked nor compared with the budget, so the batch exceeds "max_num_batched_tokens: Maximum number of tokens to be processed in" a single iteration (V/config.py:621) and the assertion of _schedule_chunked_prefill fails. |
| `Scheduler` | `SwappedWaitsForRoom` | V/core/block_manager_v1.py:467 | can_swap_in answers NEVER only for a group larger than the whole device, but LATER as long as the watermark is not left free; a swapped group that fits the device but not the device without its watermark gets LATER for ever, and as long as there is a swapped group no waiting one is prefilled. V/core/interfaces.py:13 explains LATER as "cannot be allocated.", to be tried again when the capacity is larger. |
| `Reasoner` | `AnsweredWithoutDocs` | SEAKR/reasoner.py:562 | rag() pops the failed step before it retrieves; when it then returns None for the first step, solve() breaks with running_steps empty and filter_last_step reads running_steps[-1] (IndexError), so the question fails. The code says that it goes on to answer: 'No More Useful docs' at SEAKR/reasoner.py:611 followed by '# regenerate_last' at SEAKR/reasoner.py:622. |
| `Reasoner` | `ScoreIsCompared` | SEAKR/reasoner.py:73 | _should_trigger_retrieval prints jacobian_score, a name that does not exist there, so every answer that is not blank raises NameError in jacobian mode. VALIDATION_CHECKLIST.md:100 says 'Verify retrieval is triggered when `jacobian_score > 0.5`'. |
| `Reasoner` | `DuplicateUsesQuestion` | SEAKR/reasoner.py:286 | A query that was searched before raises ValueError, rag() returns None and solve() leaves the loop; the full question is not tried. The log line at SEAKR/reasoner.py:285 says 'query already searched, use full question'. |
| `BlockSpaceManager` | `ReadsOwnPrefix` | V/core/block_manager_v1.py:493 | swap_in allocates the last, partly filled block under the hash it had when it was allocated, which covers the prompt only (V/sequence.py:273 says the hash may be wrong); with an equal prompt running, two sequences that differ in their outputs get one block. "Represents the state of a block in the KV cache." (V/block.py:53) no longer describes it. |
| `BlockSpaceManager` | `StepIsRaceFree` | vllm_uncertainty/csrc/cache_kernels.cu:67 | The pairs of a step are copied by independent thread blocks, and a block that one sequence has released as the source of its copy may be the destination of another in the same step: what is copied depends on their order. The test of the kernel draws destinations outside the sources (vllm_uncertainty/tests/kernels/test_cache.py:64). |
| `BlockSpaceManager` | `ReadsOwnPrefix` | V/core/block/prefix_caching_block.py:177 | A block that is evicted for a new text is created with computed=True, and the prefix of a prompt that ends in it is taken for computed before it is; "the block comes from evictor already contain computed result" is true of the old text. |
| `BlockSpaceManager` | `StepIsRaceFree` | vllm_uncertainty/csrc/cache_kernels.cu:67 | As in version 1: a source freed by the copy-on-write of one sequence is the destination of the next. |
| `BlockSpaceManager` | `AccountsInv` | V/core/block_manager_v2.py:151 | can_append_slots promises a worst case ("assume each touched block will require a new allocation"), but the null block of a sliding window is taken from the same pool on first use and nobody counts it (V/core/block/cpu_gpu_block_allocator.py:118). |
| `BlockSpaceManager` | `AccountsInv` | V/core/block_manager_v2.py:70 | can_allocate caps what a prompt needs by max_block_sliding_window, "the max number of blocks that need to be allocated", while allocate takes blocks for the whole prompt. |
| `Workers` | `StepsComplete` | V/worker/worker.py:235 | A step with transfers and no groups makes the remote workers leave their loop, the driver still takes them to be in it and broadcasts an empty input, which nobody receives ("All workers are running infinite loop with broadcast_tensor_dict"). |
| `Workers` | `StepsComplete` | V/engine/llm_engine.py:764 | The Jacobian score is a forward pass of the driver alone; under tensor parallelism its collectives wait for workers that wait for a broadcast. "It guarantees all workers run the loop or None of them is running the loop." (V/executor/distributed_gpu_executor.py:193) does not help. |
| `Workers` | `StepsComplete` | V/executor/multiproc_gpu_executor.py:87 | "Runs the given method on all workers." (V/executor/multiproc_gpu_executor.py:95) and waits for them: called for add_lora while requests run, it waits for workers that take a task only after they have left their loop, which the waiting driver does not end. |
| `SampledStep` | `EnergyOfOwnRow` | V/model_executor/layers/sampler.py:133 | i_embedding counts the samples of groups that decode and stays at 0 for prompts, so a batch of prompts gives every first token the energy of the first row, and one prompt log probability shifts the rest. SeaKR reports it as the energy score of the answer (SEAKR/reasoner.py:156). |
| `SampledStep` | `NeverFails` | V/engine/output_processor/single_step.py:101 | A sequence that has stopped and is then recomputed comes back as a prompt, for which the sampler sets no eos_embedding: AttributeError ends the engine, where "get the eos embedding from sampling output" (V/engine/output_processor/single_step.py:96) takes it for granted. |
| `SampledStep` | `NeverFails` | V/worker/model_runner.py:1060 | eos_indices number logits and input_tokens number query tokens; with a prompt chunk in front of the decodes the assertion fails. |
| `SampledStep` | `NeverFails` | V/model_executor/sampling_metadata.py:236 | prompt_logprobs=0 selects no row here and is counted as if it did 22 lines below; the value is legal: "prompt_logprobs must be non-negative" (V/sampling_params.py:239). |
| `SampledStep` | `NeverFails` | V/model_executor/layers/sampler.py:763 | A prompt with cached blocks has fewer query tokens than its computed count says: the tokens and the rows of its prompt log probabilities disagree in number. |
| `SampledStep` | `NeverFails` | V/engine/llm_engine.py:793 | A request without logprobs, the default, has None there: TypeError when it finishes. "logprobs: The log probabilities of the top probability words at each position if the logprobs are requested." (V/outputs.py:21). |
| `SampledStep` | `PromptLogprobsComplete` | V/engine/output_processor/single_step.py:71 | A prompt that is cut and preempted in between is computed again from its start, and what it had is kept: entries twice. "prompt_logprobs: The log probabilities to return per prompt token." (V/outputs.py:74). |
| `SampledStep` | `SeededByOwn` | V/model_executor/layers/sampler.py:470 | _multinomial walks over all groups of a type, those that are not sampled in this step included, and the others are drawn with a neighbour's generator. "seed: Random seed to use for the generation." (V/sampling_params.py:67). |
| `SpecDecode` | `DraftKvComplete` | V/spec_decode/spec_decode_worker.py:316 | "Once num_speculative_tokens is set to 0, the spec decode of this request will be disabled forever." The field belongs to metadata that the scheduler makes anew in every step: when the queue is shorter again, the draft model guesses with holes in its cache. |
| `SpecDecode` | `RanksAgree` | V/spec_decode/spec_decode_worker.py:262 | The number of proposer passes changes with what is broadcast ("the non-driver workers won't know unless we perform a communication to inform them"), but V/spec_decode/spec_decode_worker.py:365 reads the lookahead only: with speculation off, or when no request fits the draft model, the other ranks wait in a pass that the driver does not make. |
| `SpecDecode` | `WithinModelLen` | V/spec_decode/batch_expansion.py:53 | "If a speculative sequence length would exceed the max model length, then no speculation is produced for that sequence." The proposer of n-grams is made without max_proposal_len (V/spec_decode/ngram_worker.py:40), and its guesses are scored at positions past the length. |
| `WorkerStep` | `AttendsOwnContext` | V/attention/backends/xformers.py:317 | "block tables are empty if the prompt does not have a cached prefix", which the backends decide for the whole batch. When one prompt of a batch hits the prefix cache (SeaKR enables it) and another does not, flash attention reads all keys of the second through an empty row of the padded table: from block 0, the keys of another prompt (`Engines <- EnginesMixedHits`). |
| `WorkerStep` | `AttendsExactly` | V/worker/model_runner.py:318 | "These are seq_len/context_len capped to the sliding window": with version 2 of the block manager up to a block less one key more are read, while the same token in a prompt sees the window alone (`EnginesWindow`). |
| `WorkerStep` | `AttendsOwnContext` | V/core/block_manager_v1.py:234 | The size of the window is rounded up to whole blocks, and the table is cut to the last blocks, which start at a block boundary: with a window that is no multiple of the block size a decode reads positions of the block it overwrites (`EnginesUnaligned`). |
| `WorkerStep` | `AttendsOwnContext` | V/attention/backends/rocm_flash_attn.py:215 | The ROCm backend keeps the window, and hands it to the CK kernel and to the prefix kernel; its default, the Triton kernel, is not given it: prompts attend to everything before them (`EnginesRocmWindow`). |
| `WorkerStep` | `AttendsOwnContext` | V/worker/cpu_model_runner.py:211 | The CPU runner cuts the table to the last window // block_size blocks and the length to the window, which fits tables of version 1 that wrap around. With version 2 the last block is not full: keys of the window are missing, and slots that are not yet written are read (`EnginesCpuWindow`). |
| `WorkerStep` | `AttendsOwnContext` | V/attention/backends/blocksparse_attn.py:49 | `homo_head_group`: "If within a group, the kv offsets that each q attends is the same". The paged kernel slides by key heads then; the pattern of prompts still slides by query heads, so a decode sees other blocks than its prompt did (`EnginesHeadGroup`). |
| `WorkerStep` | `AttendsOwnContext` | V/worker/model_runner.py:222 | "assumes seq_group_metadata_list is sorted by prefill -> decode", but `_sort_by_lora_ids` sorts a batch by adapter: with chunked prompts a decode comes before a prompt, and rows are split at the wrong place (`EnginesLoraChunked`). |
| `WorkerStep` | `AdaptersApplied` | V/lora/layers.py:140 | The indices of the logits are "Per sampled token", but the runner adds one for each sequence, a chunk that samples nothing included: the sampler's rows are one too many and later rows get the adapter of another (`EnginesLoraChunk`). |
| `WorkerStep` | `StepsSucceed` | V/core/scheduler.py:425 | "decode requests can be swapped or preempted": a request that has to preempt two others takes its adapter out of `curr_loras` twice, and the second `remove` is a KeyError that ends the engine; with chunked prompts the first one is, `curr_loras` is empty then (`EnginesLoraPreempt`). |
| `WorkerStep` | `AdaptersApplied` | V/lora/models.py:552 | A mapping that equals the last one is not converted again. `add_lora` and `remove_lora` of the engine in between change the slots: the tokens go on using the slot their adapter had, now of another or of none (`EnginesLoraApi`). |
| `WorkerStep` | `AttendsOwnContext` | V/core/block/prefix_caching_block.py:593 | "Content-based hashing does not yet support LoRA", and nothing refuses the two together: with version 2 two requests of the same text and different adapters share blocks, whose keys are those of the first (`EnginesLoraShared`). |
| `TensorParallel` | `ForwardIsWhole` | V/model_executor/layers/quantization/marlin.py:204 | The scales of Marlin are taken for channelwise when the rank has one group. If the layer has one group on each of several ranks, no rank takes its own group: "assert param_data.shape == loaded_weight.shape" ends the loading of a model whose sizes create_weights has accepted (`Models <- ModelsOneGroup`). |
| `TensorParallel` | `ForwardIsWhole` | V/model_executor/layers/quantization/awq.py:99 | "The output size is not aligned with the quantized weight shape. This can be caused by too large tensor parallel size": the check is of the sum over the projections of a merged layer, the loader divides each of them by the pack factor. Two halves of four columns pass it, and nothing of them is loaded (`ModelsHalfPack`). |
| `TensorParallel` | `ForwardIsWhole` | V/model_executor/layers/quantization/squeezellm.py:101 | The lookup table is created with the output size of all ranks and loaded as if it was divided: narrow() raises on every rank but the first when a ColumnParallelLinear of one projection is loaded (`ModelsLookup`). |
| `TensorParallel` | `ForwardIsWhole` | V/model_executor/layers/linear.py:375 | "Loaded weight is already packed": a tensor for all projections of a layer is loaded for weights, and fails for the parameters that have one entry for each projection, the codebooks of AQLM and the scales of fp8 and compressed-tensors (`ModelsFused`). |
| `TensorParallel` | `AdaptersInPlace` | V/lora/layers.py:487 | "LoRA B is sliced for tensor parallelism." (V/lora/layers.py:354): a merged layer with one packed module takes consecutive columns of B, while each rank has a part of both projections (`ModelsOnePacked`, two ranks). |
| `TensorParallel` | `AdaptersInPlace` | V/lora/layers.py:559 | An adapter that has one of the two modules of a layer is not sliced at all, and the copy of its whole B into the stack of a rank raises; for q, k and v each is sliced if it is there (`ModelsLacking`). |
| `TensorParallel` | `AdaptersInPlace` | V/lora/layers.py:619 | With fully sharded adapters the single adapter of q, k and v still gets this class, which has no sharded variant, with a stack for A of max_rank / tp rows: an adapter of a larger rank, which "assert"s nowhere, raises in the copy (V/lora/layers.py:680, `ModelsShardedQKV`). |
| `MergeIterators` | `ConsumerEnds` | V/utils.py:230 | merge_async_iterators waits for the queue when an iterator is unfinished and nothing is in it; an iterator that then ends without another item sets its flag and puts nothing, so the consumer waits for ever. The docstring says "This method handle the case where some iterators finish before others." (V/utils.py:207). Streams of the engine end in this way only after an abort, whose reader has gone: HandlerIsServed holds of the server. |
| `CompletionServer` | `Streamed` | V/sequence.py:266 | A sequence that meets a stop string runs one step more (real_stop_status), so that the text already cut is cut again by the buffer: what is sent shrinks, and the last chunk repeats characters that were sent. sampling_params.py says "Number of characters to hold back for stop string evaluation until sequence is finished." (V/sampling_params.py:178). |
| `CompletionServer` | `NoStopInText` | V/engine/output_processor/stop_checker.py:135 | The stop strings are looked for in the order of the list and the first that is found cuts the text, also if another begins before it. The docstring says "The returned output will not contain the stop strings." (V/sampling_params.py:79). |
| `CompletionServer` | `OnlyStopRemoved` | V/engine/output_processor/stop_checker.py:87 | For a stop token the characters that were new in this step are removed; if the tokens before it were an unfinished character, they are shown in this step and removed with it. The comment says "Remove last token" (V/engine/output_processor/stop_checker.py:97). |
| `CompletionServer` | `DropStopsAll` | V/entrypoints/openai/serving_completion.py:208 | When the client has left, the handler aborts the prompt whose output it has just read; the producers of the other prompts go on. The comment says "Abort the request if the client disconnects." (V/entrypoints/openai/serving_completion.py:164). |
| `CompletionServer` | `ValidIsAnswered` | V/entrypoints/openai/serving_chat.py:268 | The echo of a streamed chat is a ChatCompletionStreamResponse with the field logprobs, which OpenAIBaseModel forbids: a ValidationError instead of the echo. The description of the parameter says "If true, the new message will be prepended with the last message if they belong to the same role." (V/entrypoints/openai/protocol.py:145). |
| `CompletionServer` | `ValidIsAnswered` | V/entrypoints/openai/serving_chat.py:221 | A streamed chat with best_of > n may report a choice beyond n, for which the lists have no place (IndexError). serving_completion.py says "Similar to the OpenAI API, when n != best_of, we do not stream the" (V/entrypoints/openai/serving_completion.py:142); the chat does not ask. |
| `CompletionServer` | `ValidIsAnswered` | V/engine/llm_engine.py:724 | compute_uncertainty treats the outputs of every finished request as completions; an EmbeddingOutput is none, so each embedding ends the engine. llm.py promises "A list of `EmbeddingRequestOutput` objects" (V/entrypoints/llm.py:414). |
| `CompletionServer` | `ValidIsAnswered` | V/entrypoints/openai/serving_engine.py:88 | With logprobs = 0 there is no list top_logprobs, and _create_logprobs appends to it for the first token of an echoed prompt. The check of the parameter says "logprobs must be non-negative" (V/sampling_params.py:237). |
| `CompletionServer` | `WithinModel` | V/entrypoints/openai/serving_completion.py:93 | The sampling parameters of a completion are made before max_tokens is filled in, so the limit is not used. serving_engine.py says what it is for: "This model's maximum context length is" (V/entrypoints/openai/serving_engine.py:213). |
| `CompletionServer` | `PromptOnce` | V/entrypoints/openai/serving_completion.py:216 | With max_tokens = 0 a token is generated and, its end being put off, there are two outputs: the prompt is streamed for each. The comment says "only return the prompt" (V/entrypoints/openai/serving_completion.py:217). |
| `CompletionServer` | `PromptTextsInPlace` | V/transformers_utils/detokenizer.py:76 | decode_prompt_logprobs_inplace gets the list before the None of the first token is put in front of it, so its k-th entry is for token k + 1 of the prompt, and is compared with token k: the state of the detokenizer does not advance, and a character of two tokens has no text. The comment says "actual with prompt." (V/transformers_utils/detokenizer.py:75). |
| `ServerStart` | `BatchHoldsSequence` | V/executor/cpu_executor.py:127 | The CPU executor turns chunked prefill off after SchedulerConfig has let a batch pass that is shorter than a sequence because of it; longer prompts are then ignored. config.py says of such a batch "makes vLLM reject longer sequences" (V/config.py:685). |
| `ServerStart` | `CacheHoldsSequence` | V/worker/worker.py:373 | The check compares with all blocks; the block managers keep those of the watermark back, so a prompt of max_model_len may be refused for ever. The error message of the check says "larger than the maximum number of tokens that can be stored in KV cache" (V/worker/worker.py:377). |
| `ServerStart` | `GivenLenIsChecked` | V/config.py:1219 | For a rope_scaling without factor the given length is returned before it is compared. The comment says "If the user specified a max length, make sure it is smaller than the" derived length (V/config.py:1236). |
| `ServerStart` | `LoraDTypeIsGiven` | V/engine/arg_utils.py:70 | lora_dtype has no annotation, so it is no field of the dataclass and from_cli_args does not read it: LoRA has the type of the model whatever is given. The help says "Data type for LoRA." (V/engine/arg_utils.py:429). |
| `ServerStart` | `CpuLorasHoldBatch` | V/config.py:1025 | max_cpu_loras is compared with max_loras, which is its default too. The help says "Must be >= than max_num_seqs." (V/engine/arg_utils.py:447). |
| `ServerStart` | `LoadsInBatches` | V/executor/multiproc_gpu_executor.py:104 | The distributed executors pass max_parallel_loading_workers on to _run_workers, which raises NotImplementedError. The help says "Load model sequentially in multiple batches," (V/engine/arg_utils.py:272). |
| `ServerStart` | `NoPrefixesInFp8` | V/config.py:396 | Prefix caching is refused for "fp8" but not for the names of its formats, fp8_e5m2 and fp8_e4m3. The error says "Prefix caching is not supported for fp8 cache_dtype. " (V/config.py:398). |
| `ServerStart` | `GroupCanBeUsed` | V/executor/ray_utils.py:99 | A placement group may have more bundles with a GPU than the world has ranks; a worker is made for each, and those beyond the world size cannot join. The comment says "Verify that we can use the placement group." (V/executor/ray_utils.py:90). |
| `CompletionServer` | `ValidIsAnswered` | V/engine/llm_engine.py:790 | A request with n = 2 whose choices are not blank reads eigen_alpha, which is None unless --eigen-alpha is given (arg_utils.py:97): the step raises. tests/entrypoints/test_openai_server.py asks for several choices of a server started without it ("n=2", vllm_uncertainty/tests/entrypoints/test_openai_server.py:421). |
| `CompletionServer` | `ValidIsAnswered` | V/engine/async_llm_engine.py:399 | With engine_use_ray the attributes are set on the handle of the actor, not on the engine, whose steps read them. The help says "Use Ray to start the LLM engine in a" separate process (V/engine/arg_utils.py:715). |
| `ServerStart` | `PtLoadsBin` | V/model_executor/model_loader/loader.py:168 | With load_format pt only files *.pt are looked for, and a checkpoint of *.bin files is not found. The help says '"pt" will load the weights in the pytorch bin format' (V/engine/arg_utils.py:187). |
| `ServerStart` | `SavedCanBeLoaded` | V/model_executor/model_loader/loader.py:524 | save_model overwrites the parts it writes and leaves later ones of an earlier save in the directory (made with exist_ok=True): a load finds a key twice. examples/save_sharded_state.py says "Then, the model can be loaded with" (vllm_uncertainty/examples/save_sharded_state.py:14). |
| `ServerStart` | `LoadsAgain` | V/model_executor/model_loader/weight_utils.py:330 | The list of the numpy cache is written in place. A process that dies there leaves a file that exists and cannot be read, for every later start. The docstring says "Will dump the model weights to numpy files if they are not already dumped." (V/model_executor/model_loader/weight_utils.py:310). |

The passing runs stay off these cases by their constants, never by a guard the
code does not have: the workloads, configurations and setups that section 3
names leave out the ones that lead there.  The groups of two sequences in
`sched_serve` do run into some of the exceptions and lost blocks of the table;
the properties of that run hold in spite of them.


## 6. The proofs

`tlapm SeakrProofs.tla`, `AsyncEngineProofs`, `SchedulerProofs`,
`BlockManagerV1Proofs`, `DistributedProofs`, `SpecDecodeProofs` and
`ServerProofs`, and `ListLemmas` for the lemmas that they share.  The
theorems hold for every value of the constants that the named assumptions of the
modules allow; where a theorem has a hypothesis of its own it is named below.

**Data of any length.**  The library's induction theorems take an operator
and none of the provers can instantiate one, so what a `RECURSIVE` operator
or a fold computes cannot be proved.  `NatIsInductive` and `UpToInductive` of
`ListLemmas` state induction for a set, which is an ordinary constant, and
`RecursionExists` that a recursive function is what its definition says; with
them `Select`, `SumUpTo` and `OneOfEach` (`Lists`) have the theorems that the
runner, the engine, the scheduler, `SpecDecode` and the merge need: what a filtered queue
contains and in which order, that a sum grows with its terms and changes by what
one of them changes by, and that a choice takes one member of each set.

**Block manager** (`BlockManagerV1Proofs`, for `SlidingWindow = 0`; with a
window the result is false, section 5).  `BlockAccounting` is
`Spec => []IndInv`.  `NoUseAfterFree`, that no block of a table is free, is not
inductive: to free a block is to lower its count, so one has to know that the
count is at least the number of tables that refer to it
(`RefCountCoversTables`), and that free means count zero
(`FreeIffUnreferenced`).  It is not an equality: the counts may be too high
(`ResetFreesAll` of section 5).  Swapping replaces the tables of the
unfinished sequences of a group at one stroke, and counts entries, not blocks:
it needs that no table lists a block twice (`TablesInjective`) and that the
unfinished sequences of a group are all on one device (`UniformStatus`).  The
proof goes operation by operation: what an operation does to the blocks is
reduced to one of a few movements (references dropped, a fresh block, a copy,
a fork, a move to the other device), each with a lemma that it preserves the
accounts (`StepKeepsBlocksOK`), and the statuses are treated apart
(`StepKeepsQueues`).  `NoBlockReusedWhileHeld` and `TypeCorrect` follow.

`SlotsAreSound` is `SlotsInv`: a running sequence whose slot is appended writes
to a block that no other table lists, and no allocation that the admission
checks allow fails.  Exclusiveness alone is not inductive.  `append_slots`
decides by comparing the table with the logical blocks of the sequence, so its
length has to be known at every status: it covers the tokens that have a slot
(`TablesInv`, where `Pending` says whether the last one has), and a swapped
table lacks the last.  A prompt's table is shared by every sequence that waits
in its group: there is only one (`OneWaits`), since only a group with one
unfinished sequence is recomputed, which is also why the assertion of
`_preempt_by_recompute` holds (`OneToRecompute`).  And the loop of
`_append_slots` is only safe while the free list has a block for every sequence
it has still to serve (`TodoInv`), which is what `can_append_slots` counts and
`can_swap_in` adds to the blocks it moves.  That the last block stays exclusive
needs one lemma for all operations (`LastStaysOwn`): the other tables only ever
get blocks that some third table had, or free ones.  `SwapsKeepSharing` is the
action property that a swap renames blocks injectively.

**Reasoner** (`SeakrProofs`).  `Inductive` is `Spec => []IInv`, and `IInv`
has a part for each obstacle:

* `LowConfidenceReplaced` is inductive with the types: the only step that
  appends a `DIRECT_FAILED` step is the one whose rest pops it.
* `WithinLimits` is compared after the lists have grown; `Bounds` adds
  that inside the loop both are still below their limit.
* `NoDocReadTwice` needs, while `rag()` reads, that the candidates and the best
  of those already read are new (`DocsInv`).
* `OneDocPerQuery` needs that the query of the retrieval in progress has not
  brought its document yet (`QueriesInv`).
* `CheckpointConsistent` is proved on top (`CheckpointsAreConsistent`): its
  documents are those of the steps with a document, in their order, and a step
  that is appended, popped or filtered keeps that or takes the last one away.
* `CallsBounded` needs the account of the calls made so far in terms of steps
  and documents, with the candidates still to be read (`CallsInv`), and
  `Bounds` to close it.

Each action is first reduced to its cases (`AnswerDirectCases`,
`RetrieveCases`, `ReadDocCases`), then shown to keep the parts (`...Step`), and
`StepIInv` puts them together.  `DocsReadOnce`, `LimitsKept`, `CostBounded`,
`NothingUncertainKept`, `QueriesPayForDocs` and `TypeCorrect` are its
corollaries.  `CostBounded` is about the counter up to `CallCap`, for every
`CallCap`.

**Runner** (`SeakrProofs`).  `RunnerInv` is inductive with the parts
that the model already names: which tasks are in the queue of the lock
(`LockInv`), which lines a task has by how far it has come (`LinesInv`), that
the lines of `failed.jsonl` are as many as the errors counted and about to be
counted (`CountInv`), and why `gather` returned (`GatherInv`).  The disk may fail
at every write and flush.  `RunStopsAtLimit` is the action property that no
question is begun after the limit.

**Scheduler** (`SchedulerProofs`).  `SchedulerIsSound` is `Spec =>
[]SchedulerInv`, for every number of requests, every `Configs` that the
assumption allows, every arrival, abort and stop.  Its parts:

* `Core`: types; the numbers of a group fit each other (`GroupsInv`); the
  queues and the plan of the step list each group once (`QueuesAgree`).
* The blocks in use, by the groups and by what was lost, are within each device
  (`MemoryRespected`).  Every step changes the sum over all groups in one term
  or in those that it moves, so this is where `SumUpTo` is needed.
* The sequences that run are within `max_num_seqs` (`SeqsInv`): the budget of a
  step starts from those that already run.
* With one sequence per request nothing is ever swapped or lost and no exception
  occurs (`SingleInv`), the groups that run came before those that wait
  (`OrderInv`), and there is room for the first of them alone (`RoomInv`).
* Who has ended or was ignored in this step is in its outputs (`ReportedInv`).

`QueuesAreSound`, `FirstComeFirstServed`, `NobodyWaitsInVain` and
`QueuesNeverBlock` follow.  An iteration of a loop of `_schedule` is an action,
so that every part has to be stated for the middle of a step too: what is in
none of the queues then is in the plan.

**Asynchronous engine** (`AsyncEngineProofs`).  Three layers, each with the
hypotheses it needs and no more.

* `StreamsEndOnce` has none: whatever calls come, with whatever ids, in
  whatever order with aborts, faults and restarts of the loop, a stream
  ends once and nothing follows its end.  The invariant is `View`, which says of
  the queues as sets what the model says of them as sequences.
* `StreamsAreSound` (`StreamsInv`) assumes `UniqueIds`, that two calls have
  different ids ("request_id: The unique id of the request.", `generate`): with
  equal ids the end of one call would be that of the other.  `Reasons` adds why a
  stream has ended, and that the id of a call that is not queued yet is not about
  to be dropped.
* `EngineIsSound` (`EngineInv`) assumes in addition `NoRestart`, that a loop
  which may break is not started again by the next call: a restarted loop has
  lost its step and may be errored and running (`ErroredIsStopped`, section 5);
  and `~MayScheduleNone`, that a step schedules something when there is something:
  `QueuesNeverBlock` shows when the scheduler does.  `Matched` adds that a group in the engine and an
  open stream imply each other, that a reader is known to the tracker, and that
  no stream has more outputs than its group produced.

`ImplementsRequestService` is the refinement: under `UniqueIds` and `NoRestart`
every initial state of `AsyncEngine` is one of `RequestService` with `reply` as
`Reply` reads it off a stream, and in every step each reply changes as the
service allows, or not at all: one in a call, several in a step of the engine,
all that are open when the loop dies.  `MayScheduleNone` is free there.

**Workers** (`DistributedProofs`).  `LoopsStayInStep` is `Spec => []LoopsAgree` for
any number of remote workers, the loops started by the engine's thread or by a
task beside it, control calls and shutdowns between the steps, and processes
that are killed or raise at any point.  What it says is about healthy
workers, but the invariant has to follow a failure to the end.  Its parts:

* `ListsInv`: an operation of the executor is a list of steps, and what is left
  of it is known only by what may come after what (`Follows`) and what may be
  last (`Ends`).  The lists are put together from parts whose length is the number
  of workers, with a lemma for the concatenation (`ChainConcat`).
* `InboxInv`: no broadcast waits but the one that the driver has sent and not
  seen arrive; after a failure of the driver it stays where it is.
* `TokenInv`: the task of a worker's loop is in one place: not asked for yet, in
  its queue, under way, or answered in the result queue; its future is pending
  as long as it is somewhere.
* `PlaceInv`: where a worker is for each step that the driver may be at.  A
  worker that has its loop in the queue may be as far behind as it likes: the
  broadcast of the groups finds it there, that of the metadata does not.
* `LostInv`: what becomes of a worker whose loop has ended in an exception. The
  driver does not notice: it broadcasts, and waits for ever for a worker that
  does not receive.  It never gets as far as a step that would take the worker
  for one that was not started, so that no second loop is begun.
* `EngineInv`: while all are alive nobody closes a queue or drains the futures,
  and the driver has not failed, since only a death makes a collective
  or a call fail.

After the first death nothing is claimed of the loops.

**Custom all-reduce** (the same module).  `ReadsInPlaceHolds` says for any
number of ranks, any number of calls and any choice of kernels that a rank reads
its peers' buffers only while they hold this call's input, although the flags of
the barriers are the same memory in every call and are only ever reset by their
reader.  The invariant needs to know how often each flag has been set and reset:
`SignalsCount` determines the counters of signals, of resets and of barriers
passed by the number of calls begun and the statement a block is at, and a flag
is signals minus resets.  Two ranks are then never further apart than one
barrier, which is the distance at which a buffer could be overwritten while it
is read.

**Passes** (the same module).  `PassesRefineKernels` maps every step of
`TensorParallel` to one of `AllReduce` or to a stutter, so that the invariant
above holds of it.  `SumsAreWholeHolds` then needs what a rank's part holds
between the two stages: a rank that has passed the barrier of the second stage
of a call reads parts that were computed from the inputs of that call
(`SumsInv`), and an input that has been read is that of the call since it is
not overwritten before the last barrier.

**Speculative decoding** (`SpecDecodeProofs`).  `SpeculationIsLossless` is
`OutputIsTargets` for every number of requests and of guessed tokens, every
vocabulary, every target model (the possible tokens behind a text) and every mix
of a batch.  It is not inductive alone, since what the target gives is computed
from its cache: `TargetCovered` says that all but the last token of every running
text are there under their positions.  A guess that is rejected leaves its keys
behind; they lie past the text as it then is, and the next step writes over them.
`QueuesInv` is what makes the writes of one step independent: no request is twice
in a batch, or both waiting and running.  One step is proved from the inside
out.

* `RowFacts` locates the rows that `BatchExpansionTop1Scorer` makes of the
  proposals, the `k + 1` of every request with a guess and the one of every other
  behind them, by division of the row number (`DivMod`, `DivModRange`);
  `ScoredFacts` is what the target's cache holds when they are written, and
  `ScoresFacts` that after the contraction every request has the scores of its
  own text.
* `JudgedGood` is the rejection sampler: what it leaves of a guess is a prefix
  that the target may have given, one token more, and nothing behind it, whether
  or not it has a bonus token.  `PlainGood` is the same of a request without a
  guess.
* `ProcessStep` takes what holds of each output (`Good`, `Computed`) through the
  multi-step output processor: tokens are cut at the first that stops, what ends
  leaves the queue, and the caches cover what is left.

`StepsEmit` follows, as each output has at least one token.  `DraftCovered` is
the same of the draft model's cache; when every guess was accepted the last
guessed token has not been run through the draft model, and this is why the code
disables the bonus token.  `DraftCacheIsComplete` has `NeverOff` as a hypothesis:
more requests than there are switch speculation off.  Without it the claim is
false (`ConfigsDisabled`, section 5).  TLC checks `IInv` as an invariant of the
configurations of `spec_decode` as well.

**Streams and server** (`ServerProofs`).  `NothingIsLost` is `MergeInv` for any
number of iterators.  That the items of one come in order and that none is
missing at the end are statements about what was read; what makes them inductive
is the queue in between (`QueueInv`): of every iterator it holds exactly the
items that were yielded and not read, each once and in their order, among those of
the others and exceptions.  So the head of the queue is always the next item of
its iterator (`HeadIsNext`).  `TasksInv` ties the flags to the tasks, and
`ConsumerInv` says that a consumer that has left its loop has found the queue
empty and every flag set, although it tests them before it waits.

`ServerIsSound` is `StartSpec => []ServerInv`: the same for the streams of a
request, which an engine fills that may refuse, ignore, abort or fail any of them,
while the handler reads, loses its client or is cancelled.  `ServerIInv` adds to
the invariant of the merge: a stream that has ended has put an exception in the
queue, or its last output was the finished one, unless it was dropped
(`EndedInv`); the handler holds the latest item of the stream it reads and has kept
that of every other (`FinalInv`); and only what is dropped is aborted (`StageInv`),
which is why a stream that ends silently never leaves a handler waiting.  That
the response is complete follows at the end, where the merge has delivered
everything.  TLC checks `StartIInv` on the instance of `completion_serve` as well.

**Only model-checked**: everything with liveness, since fairness and `ENABLED`
are out of the prover's reach (`ImplementsService` beyond its safety part,
`AbortedLeavesEngine`, `RegisteredRequestEnds`, `EveryGroupEnds`, `SolveEnds`,
`RunEnds`, `NobodyWaitsInVain` of `Workers`, `PassesEnd`); what the text of an
answer is (`AnswerIsWhole`), which folds over tokens and strings; the safety of
the start (`StartIsSound`), `BlockSpaceManager`,
`SampledStep` and `WorkerStep`; and what `Shards` and `LoraShards`
compute (`ForwardIsWhole`, `AdaptersInPlace`), which is a statement about
concrete sizes.


## 7. Not modelled

| part | why |
|---|---|
| Retriever and index | Elasticsearch behind a retry: an external service, in Reasoner the choice of any TopK documents or of a failure. |
| Datasets and prompts | Stateless formatting of prompts and data classes. |
| Single-hop script and evaluation | Sequential batch scripts that keep no state between two runs. |
| Guided decoding | Glue around outlines and lm-format-enforcer: a regular expression becomes a mask of logits. |
| Build, tests, benchmarks, examples | No part of the running system. |

Of the parts that are modelled in part:

| part | what is and what is not |
|---|---|
| Merging of output streams | merge_async_iterators, the one concurrent operation of the file, with the streams of the server under it. The rest are stateless helpers. |
| Scheduler | Both policies, the budget, preemption, and the sequences and groups it moves; the limits on adapters of a batch are in WorkerStep, lookahead slots in BlockManagerV2. Not modelled: delay_factor, beam search. |
| Output processing of one step | The forks of the first token, the stop conditions on lengths and EOS and their deferral by one step (real_stop_status), the embedding of the EOS, prompt log probabilities, the release of finished sequences, and the tokens of several steps at once. Stop strings, stop tokens and text are in Detokenizer. Not modelled: beam search. |
| Block manager v1 | UncachedBlockAllocator and every operation of BlockSpaceManagerV1 with it: sliding window, copy-on-write, swapping. CachedBlockAllocator is the component below. Encoder-decoder tables do not exist in this version; lookahead is refused by the code. |
| Prefix caching of blocks | CachedBlockAllocator with its evictor, hashes of blocks, promotion and computed flags, the operations of BlockSpaceManagerV1 over it, and what a step writes and reads in the device caches. Not modelled: the sliding window, which the code refuses together with it. |
| Block manager v2 | Block tables over the naive and the prefix caching allocator, reference counts, copy-on-write, promotion, sliding window with null blocks, lookahead slots, and what a step writes and reads. Not modelled: a fork after blocks were dropped from the window, which asserts. |
| Synchronous engine | add_request, abort_request and step with the processing of outputs and what _compute_single_uncertainty needs of them; construction with the executor, the cache and the scheduler. Metrics are not modelled. |
| Uncertainty measures | Which row of a step an energy score and an EOS embedding come from, when they exist, and the extra forward pass of the Jacobian score: what it attends to, which adapters it uses, and its place among the collectives of the workers. The scores are floating point computations on tensors; Reasoner abstracts one to its side of the threshold. |
| Models, layers, attention | The rows of a batch from the model runner through the sampling metadata and the sampler, the rejection sampler, and the keys each token attends to in five backends and their kernels; the parameters of parallel layers under ten quantizations, their loaders and what they compute together. Logits, penalties, scores and distributions are tensor computations. FlashInferImpl takes one argument less than Attention passes and cannot be constructed. |
| Kernels | What the cache kernels copy, move and write, and in which order they may; the keys that the paged attention kernels visit; the barriers and the two kernels of the custom all-reduce. The arithmetic of kernels is not modelled. |
| Executors and workers | The multiprocessing executor: execution loops, tasks, result handler, monitor, dying workers, and the collectives of a step; of every executor, whether it starts and how many blocks it has. Not modelled: the steps of the Ray executor, the measuring of memory. |
| Distributed state | broadcast_tensor_dict as a collective by position, the protocol behind the custom all-reduce, and what is reduced and gathered in a pass. Process groups belong to torch.distributed. |
| Speculative decoding | A step from proposal to output, with draft model and n-grams, expansion and contraction of the batch, rejection sampling, and the caches of both models. Not modelled: metrics, the memory split of the two caches, probabilities beyond what is possible. |
| LoRA | The two caches of adapters of a worker, the slots of the weights, the mapping of tokens and logits to slots, the limits in the scheduler, the calls of the engine that add and remove adapters, the parts of an adapter on each rank, added tokens and long contexts. Not modelled: the loading of files, the packing of modules. |
| Tokenizer groups and detokenizer | Incremental detokenization of outputs and prompt log probabilities. Not modelled: the pool of Ray tokenizers; in AsyncEngine a tokenizer call is a suspension that may fail. |
| Entrypoints | The handlers of completions, chats, embeddings and /generate, streamed and not, from validation to the last chunk, over the streams of an engine. Not modelled: the offline loop of LLM, run_batch, usage and ids, tools of guided decoding. |
| Configuration and start | What create_engine_config and the classes of config.py derive and refuse, the executors and workers that are made and what they refuse, the number of cache blocks, and the limits that requests meet. Not modelled: the parsing of the command line, revisions and downloads, environment variables other than the CPU cache. |
| Model loading | Which files of a checkpoint are read, duplicates and formats, the numpy cache with the death of a process that makes it, sharded states as they are saved and loaded, what Tensorizer refuses, and the order of the tensors with the loaders they meet. Not modelled: downloads, the serialization of Tensorizer. |

Within the modelled parts: `MultihopRunner` takes the failures of pickle, of the
log file and of the disk together (`DiskFaults`).  A question that fails and is
cancelled in the queue of the lock at the error limit is in neither file; the
code promises nothing for it, and neither does a property.

## 8. What is left

1. Beam search in the scheduler and the output processor; the offline loop of
   `LLM`, whose failed calls leave requests behind.
2. One abstract specification of a block manager that `BlockManagerV1` and
   `BlockManagerV2` implement.
3. The start of the Ray workers, and what a request meets under every
   configuration that starts, not only under those of `TheCases`.
4. Theorems: `StepsSucceed` (`WorkerStep`), `ResultsAreOwn` (`SampledStep`),
   `AccountsInv` (`BlockSpaceManager`).

