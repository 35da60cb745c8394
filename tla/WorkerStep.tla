----------------------------- MODULE WorkerStep -----------------------------
(***************************************************************************)
(* One worker, step by step: ModelRunner._prepare_model_input turns what   *)
(* was scheduled into rows, slots, tables and adapter indices, the slots   *)
(* of the adapters are brought up to date, the new keys are written, and   *)
(* every layer attends (Attention) and adds adapters (LoraManager) by what *)
(* it was handed.  The CPU runner, the replay of captured graphs and the   *)
(* extra pass of the jacobian score are here too.  Blocks are those that a *)
(* block manager gives while there is room: BlockSpaceManager is about the *)
(* tables themselves.                                                      *)
(***************************************************************************)
EXTENDS Attention, LoraManager

CONSTANTS
    NumReqs,        \* requests 1 .. NumReqs, in their order of arrival
    MaxBlocks,      \* blocks of the longest sequence
    CaptureSizes,   \* _BATCH_SIZES_TO_CAPTURE
    Engines         \* records with EngineFields and StepFields

\* v2, chunked, caching, eager: arguments of the engine
\* budget, maxSeqs: max_num_batched_tokens, max_num_seqs
\* slots, capacity: max_loras (0: no adapters) and max_cpu_loras
\* api: adapters that calls between steps add and remove
\* shortages: how many others a request may have to preempt to get a block
\* jacobian: compute_jacobian; reqs: per request [text, prompt, lora, logprobs],
\* the tokens it will have, how many of them are its prompt, its adapter, and
\* whether it asks for prompt_logprobs
StepFields == {"v2", "chunked", "caching", "eager", "budget", "slots",
               "capacity", "api", "shortages", "jacobian", "maxSeqs", "reqs"}

Reqs == 1 .. NumReqs
NullBlock == NumReqs * MaxBlocks
Blocks == 0 .. NullBlock
GraphWidth == CeilDiv(MaxLenToCapture, BlockSize)

ASSUME WorkerStepAssumption ==
    /\ NumReqs \in Nat \ {0} /\ MaxBlocks \in Nat \ {0}
    /\ CaptureSizes \subseteq Nat \ {0} /\ 1 \in CaptureSizes
    /\ \A e \in Engines :
        /\ DOMAIN e = EngineFields \cup StepFields
        /\ Constructible(e) /\ Len(e.reqs) = NumReqs
        /\ e.slots <= e.capacity                        \* LoRAConfig.__post_init__
        /\ e.caching => e.window = 0                    \* _verify_cache_config
        /\ e.device = "cpu" => ~e.chunked /\ ~e.caching \* cpu_executor
        /\ \A r \in Reqs : /\ e.reqs[r].prompt < Len(e.reqs[r].text)
                           /\ NumBlocks(Len(e.reqs[r].text)) <= MaxBlocks

VARIABLES
    engine,     \* the configuration of this behaviour
    seqs,       \* request -> [status, len, computed, prefill] of its one sequence
    kv,         \* contents of the cache
    known,      \* blocks whose contents are marked as computed
    graph,      \* graph_block_tables, row by row
    lora,       \* the LoRA manager
    finished,   \* requests whose jacobian score is still to be computed
    step        \* the last forward pass, see Pass

vars == <<engine, seqs, kv, known, graph, lora, finished, step>>

\* A key or value also depends on the adapter of the request that computed it.
TextOf(r) == [i \in DOMAIN engine.reqs[r].text |-> <<engine.reqs[r].text[i], engine.reqs[r].lora>>]
AdapterOf(r) == engine.reqs[r].lora
InStatus(st) == {r \in Reqs : seqs[r].status = st}

-----------------------------------------------------------------------------
\* What the block manager hands out: a block of the same prompt prefix is
\* shared, a window wraps around (version 1) or ends in null blocks (version 2).

SamePrefix(q, r, n) ==
    /\ n <= engine.reqs[q].prompt /\ n <= engine.reqs[r].prompt
    /\ \A i \in 1 .. n : engine.reqs[q].text[i] = engine.reqs[r].text[i]
    /\ engine.v2 \/ AdapterOf(q) = AdapterOf(r)     \* hash_of_block; version 2: "does not yet support LoRA"
Owner(r, i) ==
    IF engine.caching
    THEN CHOOSE q \in 1 .. r : /\ q = r \/ SamePrefix(q, r, i * BlockSize)
                               /\ \A p \in 1 .. q - 1 : ~SamePrefix(p, r, i * BlockSize)
    ELSE r
WindowBlocks == CeilDiv(engine.window, BlockSize)
Dropped(computed) ==
    IF engine.v2 /\ engine.window > 0
    THEN computed \div BlockSize - (engine.window \div BlockSize + 2) ELSE 0
Physical(r, i) ==
    LET cyclic == engine.window > 0 /\ ~engine.v2
        j == IF cyclic THEN ((i - 1) % WindowBlocks) + 1 ELSE i
    IN (Owner(r, j) - 1) * MaxBlocks + j - 1
BlockTable(r, len, computed) ==
    [i \in 1 .. NumBlocks(len) |-> IF i <= Dropped(computed) THEN NullBlock ELSE Physical(r, i)]

MutLeadingKnown(table) == Cardinality({i \in DOMAIN table : \A j \in 1 .. i : table[j] \in known})
\* get_common_computed_block_ids: never the last block.
LeadingKnown(table) ==
    Cardinality({i \in 1 .. Len(table) - 1 : \A j \in 1 .. i : table[j] \in known})
\* compute_full_blocks_in_seq
MarkedComputed(metas) ==
    known \cup UNION {{metas[k].table[i] : i \in 1 .. metas[k].len \div BlockSize - 1} :
                          k \in DOMAIN metas}

-----------------------------------------------------------------------------
\* SequenceGroupMetadata of request r: table is <<>> and there is no cache in
\* a pass for the jacobian score.

Meta(r, chunk) ==
    LET s == seqs[r]
        table == BlockTable(r, s.len, s.computed)
    IN [req |-> r, prompt |-> s.prefill, len |-> s.len, computed |-> s.computed,
        chunk |-> chunk, table |-> table,
        hits |-> IF engine.caching THEN LeadingKnown(table) ELSE 0,
        sample |-> s.prefill => s.computed + chunk >= s.len]
SideMeta(r) ==
    [req |-> r, prompt |-> TRUE, len |-> seqs[r].len, computed |-> 0,
     chunk |-> seqs[r].len, table |-> <<>>, hits |-> 0, sample |-> TRUE]

\* _prepare_model_input, one sequence at a time.
Hit(m) == m.hits > 0 /\ engine.window = 0 /\ m.prompt
ContextLen(m) == IF Hit(m) THEN m.hits * BlockSize
                 ELSE IF m.prompt THEN m.computed ELSE m.len - 1
SeqLen(m) == Least(m.len, (IF m.prompt THEN m.computed ELSE m.len - 1) + m.chunk)
Sliding(m) == engine.window > 0 /\ ~m.prompt
SlidingSeqLen(m) ==
    LET s == SeqLen(m)
    IN CASE ~Sliding(m) -> s
         [] Sliding(m) /\ engine.v2 -> Least(s, WindowBlocks * BlockSize + (s % BlockSize))
         [] OTHER -> Least(s, engine.window)
SlidingContextLen(m) == IF Sliding(m) THEN SlidingSeqLen(m) - 1 ELSE ContextLen(m)
LastBlocks(table, n) == SubSeq(table, IF Len(table) > n THEN Len(table) - n + 1 ELSE 1, Len(table))
SlidingBlocks(m) ==
    IF engine.v2 /\ SeqLen(m) % BlockSize > 0 THEN WindowBlocks + 1 ELSE WindowBlocks
InputTable(m) ==
    CASE Hit(m) -> IF RunnerBackend(engine) = "FLASH_ATTN" THEN m.table ELSE SubSeq(m.table, 1, m.hits)
      [] ~Hit(m) /\ (engine.chunked \/ ~m.prompt) ->
             IF Sliding(m) THEN LastBlocks(m.table, SlidingBlocks(m)) ELSE m.table
      [] OTHER -> <<>>
InputRow(m) == [len |-> SlidingSeqLen(m), ctx |-> SlidingContextLen(m), table |-> InputTable(m)]
InputPositions(m) == ContextLen(m) + 1 .. SeqLen(m)

\* slot_mapping: what is before the window of a prompt is not written.
StartIdx(m) == LET query == SlidingSeqLen(m) - SlidingContextLen(m)
               IN IF engine.window > 0 /\ query > engine.window THEN query - engine.window ELSE 0
SlotMapping(m) ==
    IF m.table = <<>> THEN {}
    ELSE Writes(m.table, TextOf(m.req), {i \in InputPositions(m) : i > StartIdx(m)})

\* The assertions and errors on the way.
Refused(metas) ==
    \/ \E k \in DOMAIN metas :
        \/ engine.chunked /\ metas[k].hits > 0
        \/ engine.window > 0 /\ metas[k].prompt /\ ~engine.v2 /\ metas[k].computed > 0

\* CPUModelRunner._prepare_prompt and _prepare_decode.
CpuWindowBlocks == engine.window \div BlockSize
CpuRow(m) ==
    IF m.prompt THEN [len |-> m.len, ctx |-> 0, table |-> <<>>]
    ELSE LET len == IF engine.window > 0 THEN Least(m.len, engine.window) ELSE m.len
             table == IF engine.window > 0 /\ CpuWindowBlocks > 0
                      THEN LastBlocks(m.table, CpuWindowBlocks) ELSE m.table
         IN [len |-> len, ctx |-> len - 1, table |-> table]
CpuSlotMapping(m) ==
    LET I == IF m.prompt THEN 1 .. m.len ELSE {m.len}
        start == IF m.prompt /\ engine.window > 0 THEN m.len - engine.window ELSE 0
    IN Writes(m.table, TextOf(m.req), {i \in I : i > start})

-----------------------------------------------------------------------------
\* A captured graph is replayed for a batch of decodes, padded to a size that
\* was captured; its tables live in one array that is written row by row.

GraphSize(n) == Min({s \in CaptureSizes : s >= n})
UsesGraph(metas) ==
    /\ engine.device # "cpu" /\ ~engine.eager
    /\ \A k \in DOMAIN metas : ~metas[k].prompt /\ SlidingSeqLen(metas[k]) <= MaxLenToCapture
    /\ \E s \in CaptureSizes : s >= Len(metas)
WrittenOver(row, table) == [i \in DOMAIN row |-> IF i <= Len(table) THEN table[i] ELSE row[i]]
GraphTables(metas) ==
    [k \in DOMAIN graph |->
        IF k <= Len(metas) THEN WrittenOver(graph[k], InputTable(metas[k])) ELSE graph[k]]
GraphRows(metas) ==
    [k \in 1 .. GraphSize(Len(metas)) |->
        [len |-> IF k <= Len(metas) THEN SlidingSeqLen(metas[k]) ELSE 1,
         ctx |-> IF k <= Len(metas) THEN SlidingContextLen(metas[k]) ELSE 0,
         table |-> GraphTables(metas)[k]]]

Rows(metas) ==
    CASE engine.device = "cpu" -> [k \in DOMAIN metas |-> CpuRow(metas[k])]
      [] engine.device # "cpu" /\ UsesGraph(metas) -> GraphRows(metas)
      [] OTHER -> [k \in DOMAIN metas |-> InputRow(metas[k])]

NewKeys(metas) ==
    LET KeysOf(m) == [i \in 1 .. SeqLen(m) - ContextLen(m) |->
                         SubSeq(TextOf(m.req), 1, ContextLen(m) + i)]
    IN FlattenSeq([k \in DOMAIN metas |-> KeysOf(metas[k])])

\* The batch as the layers get it; a pass without tables has no cache.
Batch(metas) ==
    LET W == UNION {IF engine.device = "cpu" THEN CpuSlotMapping(metas[k])
                    ELSE SlotMapping(metas[k]) : k \in DOMAIN metas}
        side == \A k \in DOMAIN metas : metas[k].table = <<>>
    IN [keys |-> NewKeys(metas), rows |-> Rows(metas),
        prefills |-> Cardinality({k \in DOMAIN metas : metas[k].prompt}),
        kv |-> IF side THEN NoCache ELSE ReshapeAndCache(kv, W),
        graph |-> UsesGraph(metas)]

-----------------------------------------------------------------------------
\* Adapters: index_mapping and prompt_mapping, one entry per token and one per
\* row of logits; the order in which a set of requests is gone through is open.

Repeat(x, n) == [i \in 1 .. n |-> x]
QueryOf(m) == SlidingSeqLen(m) - SlidingContextLen(m)
LoraMapping(metas) ==
    LET padding == IF UsesGraph(metas) THEN GraphSize(Len(metas)) - Len(metas) ELSE 0
        LogitRows(m) == IF engine.reqs[m.req].logprobs THEN QueryOf(m) ELSE 1
    IN [tokens |-> FlattenSeq([k \in DOMAIN metas |-> Repeat(AdapterOf(metas[k].req), QueryOf(metas[k]))])
                   \o Repeat(0, padding),
        prompts |-> FlattenSeq([k \in DOMAIN metas |->
                        Repeat(AdapterOf(metas[k].req), LogitRows(metas[k]))])]
LoraRequests(metas) == {AdapterOf(metas[k].req) : k \in DOMAIN metas} \ {0}

NoPass == [metas |-> <<>>, batch |-> <<>>, failed |-> FALSE]
FailedPass == [NoPass EXCEPT !.failed = TRUE]

\* ModelRunner.execute_model without its sampler.
ExecuteModel(metas) ==
    LET batch == Batch(metas)
        tooMany == engine.slots > 0 /\ TooManyLoras(lora, SetToSeq(LoraRequests(metas)))
    IN IF Refused(metas) \/ tooMany
       THEN step' = FailedPass /\ UNCHANGED <<kv, graph, lora>>
       ELSE /\ IF engine.slots = 0 THEN UNCHANGED lora
               ELSE \E order \in SetToSeqs(LoraRequests(metas)) :
                       lora' = SetActiveLoras(lora, engine.capacity, order, LoraMapping(metas))
            /\ step' = [metas |-> metas, batch |-> batch, failed |-> Raises(engine, batch)]
            /\ kv' = IF batch.kv = NoCache THEN kv ELSE batch.kv
            /\ graph' = IF batch.graph THEN GraphTables(metas) ELSE graph

-----------------------------------------------------------------------------
\* The scheduler, as far as it shapes a batch.

MutNoAdapterFree(a, loras) ==
    engine.slots > 0 /\ a > 0 /\ a \notin loras /\ Cardinality(loras) > engine.slots
\* "We don't have a space for another LoRA, so we ignore this request for now."
NoAdapterFree(a, loras) ==
    engine.slots > 0 /\ a > 0 /\ a \notin loras /\ Cardinality(loras) >= engine.slots

\* Prompts that fit the budget of tokens and of adapters, first come first
\* served; the one that finds no adapter free is passed over.
Admit(waiting, budget, loras) ==
    LET Chunk(s, r) == IF engine.chunked THEN Least(seqs[r].len, s.left) ELSE seqs[r].len
        Consider(s, r) ==
            LET a == AdapterOf(r)
            IN CASE s.stop -> s
                 [] ~s.stop /\ NoAdapterFree(a, s.loras) -> s
                 [] ~s.stop /\ (Chunk(s, r) = 0 \/ Chunk(s, r) > s.left) -> [s EXCEPT !.stop = TRUE]
                 [] OTHER -> [s EXCEPT !.metas = Append(@, Meta(r, Chunk(s, r))),
                                       !.left = @ - Chunk(s, r),
                                       !.loras = IF a > 0 THEN @ \cup {a} ELSE @]
    IN FoldLeft(Consider, [metas |-> <<>>, left |-> budget, loras |-> loras, stop |-> FALSE],
                SetToSortSeq(waiting, <)).metas

\* Running requests: the rest of a prompt as far as the budget goes, or one
\* token.
Continue(running) ==
    LET Chunk(s, r) == IF engine.chunked THEN Least(seqs[r].len - seqs[r].computed, s.left) ELSE 1
        Consider(s, r) ==
            IF Chunk(s, r) = 0 THEN s
            ELSE [metas |-> Append(s.metas, Meta(r, Chunk(s, r))), left |-> s.left - Chunk(s, r)]
    IN FoldLeft(Consider, [metas |-> <<>>, left |-> engine.budget], SetToSortSeq(running, <))

\* _schedule_running when request r, the first without a free block, has to
\* preempt n times: the latest behind it, or itself when none is left.  Every
\* time the adapter of r is taken out of curr_loras.
Victims(r, n) ==
    LET behind == {q \in InStatus("running") : q > r}
        latest == {q \in behind : Cardinality({p \in behind : p > q}) < n}
    IN IF n > Cardinality(behind) THEN latest \cup {r} ELSE latest
RunningLoras == {AdapterOf(r) : r \in InStatus("running")} \ {0}
CurrLoras(r) ==
    IF engine.chunked THEN {AdapterOf(q) : q \in {q \in InStatus("running") : q < r}} \ {0}
    ELSE RunningLoras
KeyError(r, n) ==
    /\ engine.slots > 0 /\ AdapterOf(r) > 0 /\ n > 0
    /\ n > 1 \/ AdapterOf(r) \notin CurrLoras(r)

\* _sort_by_lora_ids, when any group has an adapter
Before(m, n) ==
    \/ AdapterOf(m.req) < AdapterOf(n.req)
    \/ AdapterOf(m.req) = AdapterOf(n.req) /\ m.req < n.req
Scheduled(metas) ==
    IF \E k \in DOMAIN metas : AdapterOf(metas[k].req) > 0 THEN SortSeq(metas, Before) ELSE metas

\* The requests that have arrived are the first n.
Waiting(n) == {r \in 1 .. n : seqs[r].status = "waiting"}

\* After the step: update_num_computed_tokens and the token that was sampled;
\* reset_state_for_recompute of what was preempted.
Advanced(metas, preempted) ==
    [r \in Reqs |->
        CASE r \in preempted ->
                [seqs[r] EXCEPT !.status = "waiting", !.computed = 0, !.prefill = TRUE]
          [] \E k \in DOMAIN metas : metas[k].req = r ->
                LET m == metas[CHOOSE k \in DOMAIN metas : metas[k].req = r]
                    len == IF m.sample THEN m.len + 1 ELSE m.len
                IN [status |-> IF len = Len(engine.reqs[r].text) THEN "finished" ELSE "running",
                    len |-> len, computed |-> m.computed + m.chunk,
                    prefill |-> m.computed + m.chunk < m.len]
          [] OTHER -> seqs[r]]

EngineStep(metas, preempted) ==
    /\ finished = {} /\ ~step.failed
    /\ IF metas = <<>> THEN step' = NoPass /\ UNCHANGED <<kv, graph, lora>>
       ELSE ExecuteModel(Scheduled(metas))
    /\ seqs' = Advanced(metas, preempted)
    /\ known' = IF engine.caching THEN MarkedComputed(metas) ELSE known
    /\ finished' = IF engine.jacobian
                   THEN {r \in Reqs : seqs'[r].status = "finished" /\ seqs[r].status # "finished"}
                   ELSE {}
    /\ UNCHANGED engine

-----------------------------------------------------------------------------
\* profile_run with dummy adapters (weights of zero), which are removed again,
\* and capture_model: the last mapping stays.
ProfiledLora(e, order) ==
    LET lenOf(i) == (e.budget \div e.maxSeqs) + (IF i < (e.budget % e.maxSeqs) THEN 1 ELSE 0)
        idOf(i) == (i % e.slots) + 1
        mapping == [tokens |-> FlattenSeq([k \in 1 .. e.maxSeqs |-> Repeat(idOf(k - 1), lenOf(k - 1))]),
                    prompts |-> [k \in 1 .. e.maxSeqs |-> idOf(k - 1)]]
        profiled == SetActiveLoras(NewManager(e.slots), e.capacity, order, mapping)
        emptied == [RemoveAllLoras(profiled) EXCEPT !.weights = NewManager(e.slots).weights]
    IN IF e.eager THEN emptied
       ELSE SetLoraMapping(emptied, [tokens |-> <<0>>, prompts |-> <<0>>])

Init ==
    /\ engine \in Engines
    /\ seqs = [r \in Reqs |-> [status |-> "waiting", len |-> engine.reqs[r].prompt,
                               computed |-> 0, prefill |-> TRUE]]
    /\ kv = [b \in Blocks |-> BlankBlock]
    /\ known = {}
    /\ graph = [k \in 1 .. Max(CaptureSizes) |-> [i \in 1 .. GraphWidth |-> 0]]
    /\ IF engine.slots = 0 THEN lora = NewManager(0)
       ELSE \E order \in SetToSeqs(1 .. Least(engine.slots, engine.maxSeqs)) :
               lora = ProfiledLora(engine, order)
    /\ finished = {}
    /\ step = NoPass

\* _schedule_default: prompts, or decodes when no prompt is admitted.
Prefill(n) ==
    LET metas == Admit(Waiting(n), engine.budget, RunningLoras)
    IN ~engine.chunked /\ metas # <<>> /\ EngineStep(metas, {})

Decode ==
    /\ ~engine.chunked /\ InStatus("running") # {}
    /\ EngineStep(Continue(InStatus("running")).metas, {})

\* _schedule_chunked_prefill: new prompts, then prompts that go on, then decodes.
ChunkedBatch(running, new) ==
    new \o SelectSeq(running, LAMBDA m : m.prompt) \o SelectSeq(running, LAMBDA m : ~m.prompt)
ChunkedStep(n) ==
    LET running == Continue(InStatus("running"))
        loras == {AdapterOf(running.metas[k].req) : k \in DOMAIN running.metas} \ {0}
        batch == ChunkedBatch(running.metas, Admit(Waiting(n), running.left, loras))
    IN engine.chunked /\ batch # <<>> /\ EngineStep(batch, {})

\* A step in which request r lacks a block.
PreemptingStep(r, n) ==
    LET left == Continue(InStatus("running") \ Victims(r, n)).metas
    IN /\ r \in InStatus("running") /\ n \in engine.shortages
       /\ IF KeyError(r, n)
          THEN /\ finished = {} /\ ~step.failed /\ step' = FailedPass
               /\ UNCHANGED <<engine, seqs, kv, known, graph, lora, finished>>
          ELSE EngineStep(ChunkedBatch(left, <<>>), Victims(r, n))

\* _attach_jacobian_score of a finished request: a pass over its whole text.
JacobianPass(r) ==
    /\ r \in finished
    /\ finished' = finished \ {r}
    /\ IF engine.device # "cpu" THEN ExecuteModel(<<SideMeta(r)>>)
       ELSE UNCHANGED <<step, kv, graph, lora>>
    /\ UNCHANGED <<engine, seqs, known>>

\* LLMEngine.add_lora and remove_lora between two steps.
ApiAddLora(a) ==
    /\ a \in engine.api /\ ~step.failed /\ finished = {}
    /\ lora' = AddLora(lora, engine.capacity, a)
    /\ step' = NoPass
    /\ UNCHANGED <<engine, seqs, kv, known, graph, finished>>
ApiRemoveLora(a) ==
    /\ a \in engine.api /\ ~step.failed /\ finished = {}
    /\ lora' = RemoveLora(lora, a)
    /\ step' = NoPass
    /\ UNCHANGED <<engine, seqs, kv, known, graph, finished>>

Next ==
    \/ \E n \in Reqs : Prefill(n)
    \/ Decode
    \/ \E n \in 0 .. NumReqs : ChunkedStep(n)
    \/ \E r, n \in Reqs : PreemptingStep(r, n)
    \/ \E r \in Reqs : JacobianPass(r)
    \/ \E a \in DOMAIN Covers : ApiAddLora(a) \/ ApiRemoveLora(a)

Spec == Init /\ [][Next]_vars

-----------------------------------------------------------------------------
\* Position of query token i of row k, and the keys its head h attends to.
Position(k, i) == SeqLen(step.metas[k]) - QueryLen(step.batch, k) + i
Reads(k, i, h) == Forward(engine, step.batch, QueryStart(step.batch, k) + i, h)

\* The positions that the token at position p is to see.
Visible(p, h) ==
    IF Sparse(engine)
    THEN LET s == engine.sparse
             q == (p - 1) \div s.size
             stepOf == IF s.homo THEN 0 ELSE HeadSlidingStep(TotalHeads(s), s.stride)
             Block(j) == (j - 1) \div s.size
         IN {j \in 1 .. p : \/ q - Block(j) < s.local
                            \/ (Block(j) + (s.rank * s.heads + h) * stepOf + 1) % s.stride = 0}
    ELSE {j \in 1 .. p : engine.window = 0 \/ p - j < engine.window}

\* No step raises: adapters fit their slots, a request that is preempted takes
\* its adapter out of those in use once, and no backend is handed rows it has no
\* path for.  A step that raises ends the engine with every request in it.
StepsSucceed == ~step.failed

\* Each token attends once to every position it is to see, finds there the key
\* of its own text under its own adapter, and finds nothing else: whatever the
\* backend, the tiles of a kernel, the partitions, padded and stale tables and
\* wrapped blocks.  Behind a window, version 2 of the block manager may show
\* less than one block more (model_runner.py: "suff_len").
SeesExactly(k, i, h, positions) ==
    LET got == Reads(k, i, h)
        text == TextOf(step.metas[k].req)
    IN /\ {got[j] : j \in DOMAIN got} = {SubSeq(text, 1, j) : j \in positions}
       /\ Cardinality(DOMAIN got) = Cardinality(positions)
AttendsWith(slack) ==
    ~step.failed =>
    /\ \A k \in DOMAIN step.metas : step.metas[k].sample => QueryLen(step.batch, k) > 0
    /\ \A k \in DOMAIN step.metas, h \in Heads(engine) :
        \A i \in 1 .. QueryLen(step.batch, k) :
            LET p == Position(k, i)
            IN \E extra \in 0 .. IF Sliding(step.metas[k]) THEN slack ELSE 0 :
                SeesExactly(k, i, h, Visible(p, h) \cup
                    {j \in 1 .. p : engine.window > 0 /\ p - j < engine.window + extra})
AttendsOwnContext == AttendsWith(IF engine.v2 THEN BlockSize - 1 ELSE 0)

\* The same without that much more.
AttendsExactly == AttendsWith(0)

\* Each token goes through the weights of the adapter of its own request, in
\* every layer the adapter covers and in no other, with its own rotary offset.
\* So does each row of logits, whose added vocabulary is its adapter's.  This is
\* across evictions, reused slots, padding and the mapping that is not converted
\* again when it looks the same.
LogitRows(m) ==
    IF engine.reqs[m.req].logprobs /\ m.prompt THEN QueryOf(m) ELSE IF m.sample THEN 1 ELSE 0
AdaptersApplied ==
    LET metas == step.metas
        tokens == FlattenSeq([k \in DOMAIN metas |-> Repeat(AdapterOf(metas[k].req), QueryOf(metas[k]))])
        rows == FlattenSeq([k \in DOMAIN metas |-> Repeat(AdapterOf(metas[k].req), LogitRows(metas[k]))])
        Expected(l, a) == IF a > 0 /\ l \in Covers[a] THEN a ELSE 0
    IN engine.slots > 0 /\ metas # <<>> =>
        /\ \A l \in Layers : \A k \in DOMAIN tokens :
               Applied(lora, l, lora.base[k]) = Expected(l, tokens[k])
        /\ \A k \in DOMAIN tokens : lora.rope[k] <=> tokens[k] \in LongAdapters
        /\ Len(lora.sampler) = Len(rows)
        /\ \A l \in Layers : \A k \in DOMAIN rows :
               Applied(lora, l, lora.sampler[k]) = Expected(l, rows[k])
        /\ \A k \in DOMAIN rows : ExtraLogits(lora, Len(rows), k) =
               <<IF rows[k] > 0 THEN SlotOf(lora, rows[k]) ELSE engine.slots + 1, k>>
=============================================================================
