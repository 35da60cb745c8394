----------------------------- MODULE ServerStart -----------------------------
(***************************************************************************)
(* A server from its arguments to its requests: EngineStart gives what     *)
(* each step of the start makes of a situation, CompletionServer what      *)
(* requests meet afterwards.                                               *)
(***************************************************************************)
EXTENDS CompletionServer, EngineStart

CONSTANT Situations     \* the arguments, models and hosts a server is started with

VARIABLES
    phase,      \* how far the start has come
    situation,  \* what it is started with, until requests come
    disk        \* the numpy cache of its model

startVars == <<phase, situation, disk>>

StartInit ==
    /\ phase = "args" /\ situation \in Situations
    /\ disk = NoCache
    /\ config = Unset /\ req = Unset
    /\ Idle

Go(to, fails) ==
    /\ phase' = IF fails THEN "failed" ELSE to
    /\ UNCHANGED <<situation, serverVars>>

UsesNpCache == situation.load_format = "npcache" /\ Executor(situation) # "neuron"

\* create_engine_config
CreateEngineConfig ==
    phase = "args" /\ Go("configured", Refused(situation)) /\ UNCHANGED disk

\* from_engine_args chooses the executor, which is initialized.
InitExecutor ==
    phase = "configured" /\ Go("executor", ExecutorFails(situation)) /\ UNCHANGED disk

\* The workers are made and given their device.
InitWorkers ==
    phase = "executor" /\ Go("workers", WorkerFails(situation)) /\ UNCHANGED disk

\* A list of the numpy cache that is cut off cannot be read.
LoadModel ==
    LET fails == LoadFails(situation) \/ (UsesNpCache /\ disk.list = "cut")
    IN /\ phase = "workers"
       /\ Go("loaded", fails)
       /\ disk' = IF UsesNpCache /\ ~fails THEN Dumped(situation.model.checkpoint, disk) ELSE disk

\* The server dies while it makes the numpy cache, and is started again.
CrashWhileLoading ==
    /\ phase = "workers" /\ UsesNpCache /\ ~LoadFails(situation)
    /\ disk' \in Interrupted(situation.model.checkpoint, disk)
    /\ phase' = "args"
    /\ UNCHANGED <<situation, serverVars>>

\* _initialize_kv_caches, and the scheduler with its block manager
InitializeCache ==
    /\ phase = "loaded"
    /\ phase' = IF CacheFails(situation) THEN "failed" ELSE "started"
    /\ config' = IF CacheFails(situation) THEN config ELSE ConfigOf(situation)
    /\ UNCHANGED <<situation, disk, vars, req, stage, connected, aborted, error, engineVars, final, sent>>

\* A client sends a request.
TakeRequest ==
    /\ phase = "started"
    /\ phase' = "serving" /\ situation' = Unset /\ disk' = NoCache
    /\ req' \in {c[2] : c \in {c \in Cases : c[1] = config}}
    /\ UNCHANGED <<vars, config, stage, connected, aborted, error, engineVars, final, sent>>

Serve == phase = "serving" /\ ServerNext /\ UNCHANGED startVars

\* A server that has failed, or that nobody asks.
Rest == phase \in {"failed", "started"} /\ UNCHANGED <<startVars, serverVars>>

StartNext ==
    \/ CreateEngineConfig \/ InitExecutor \/ InitWorkers \/ LoadModel \/ CrashWhileLoading
    \/ InitializeCache \/ TakeRequest \/ Serve \/ Rest

StartSpec == StartInit /\ [][StartNext]_<<startVars, serverVars>>

-----------------------------------------------------------------------------
\* What the parts of an engine have been told by different ways is consistent
\* once it is started.

\* A prompt that the server lets in is not ignored for its length, unless the
\* CPU executor has turned off the chunked prefill it relied on.
LimitsAgree(s) ==
    (s.enable_chunked_prefill => Chunks(s)) => config.promptLimit >= config.maxModelLen

\* The longest sequence has its blocks, but for those of the watermark.
CacheHolds(s) ==
    Executor(s) # "neuron" =>
        config.cacheTokens + WatermarkBlocks(s) * s.block_size >= config.maxModelLen

\* The caches of the target and of the draft model fit into each GPU.
CacheFits(s) ==
    OnGPU(s) /\ ~Given(s.num_gpu_blocks_override) =>
        \A r \in 1 .. WorldSize(s) :
            NumGpuBlocks(s) * (CacheBlockSize(s) + DraftBlockSize(s)) <= CacheBytes(s, r)

\* The attention of a rank has the heads its cache has.
HeadsAgree(s) == Executor(s) # "neuron" => LayerKVHeads(s) = NumKVHeads(s)

\* Every position has its rotary embedding, but for what _get_and_verify_max_len
\* lets pass.
PositionsExist(s, len) ==
    HasRope(s) /\ ~LenUnchecked(s) /\ "model_max_length" \notin DOMAIN s.model.lengths =>
        len <= RopePositions(s)

\* Every weight has been loaded if the checkpoint, its index and the file of
\* Tensorizer have them all; tensors of a sharded state have their values.
WeightsArrive(s) ==
    LET c == s.model.checkpoint
        complete == /\ \A f \in c.files : c.weights \subseteq NamesIn(Matching(c, f.format))
                    /\ c.index => c.weights \subseteq NamesIn({f \in c.files : f.indexed})
                    /\ c.weights \subseteq c.tensorized.names
    IN IF s.load_format = "sharded_state" THEN TensorsHaveValues(c)
       ELSE /\ s.load_format # "dummy" /\ complete => LoadedNames(c, s.load_format, disk) = c.weights
            /\ disk.listed \subseteq disk.written

DraftAgrees(s) ==
    OnGPU(s) /\ Speculates(s) =>
        /\ s.use_v2_block_manager /\ ~config.chunked
        /\ DraftMaxModelLen(s) <= config.maxModelLen
        /\ ~NGram(s) => PositionsExist(DraftArgs(s), DraftMaxModelLen(s))

StartIsSound ==
    phase = "started" =>
        LET s == situation
        IN /\ LimitsAgree(s) /\ HeadsAgree(s) /\ DraftAgrees(s)
           /\ Executor(s) # "neuron" => PositionsExist(s, config.maxModelLen) /\ WeightsArrive(s)
           /\ ~s.model.embedding => CacheHolds(s) /\ CacheFits(s)
=============================================================================
