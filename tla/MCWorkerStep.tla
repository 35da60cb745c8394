--------------------------- MODULE MCWorkerStep ---------------------------
(***************************************************************************)
(* Small instances of WorkerStep: three requests of up to ten tokens,     *)
(* blocks of two.                                                          *)
(***************************************************************************)
EXTENDS WorkerStep

Request(text, prompt) == [text |-> text, prompt |-> prompt, lora |-> 0, logprobs |-> FALSE]
Plain == <<Request(<<1, 2, 3, 4, 5, 6, 7>>, 5), Request(<<1, 2, 3>>, 1), Request(<<1, 2, 6, 7, 8>>, 3)>>
Long == <<Request(<<1, 2, 3, 4, 5, 6, 7, 8, 9, 5>>, 3), Request(<<1, 2, 3, 4, 5, 6, 7, 8>>, 6),
          Request(<<4, 6>>, 1)>>
Shared == <<Request(<<1, 2, 3, 4, 5, 6, 7, 8>>, 5), Request(<<1, 2, 3, 4, 6, 7>>, 5),
            Request(<<1, 2, 3, 4, 9>>, 4)>>
Adapted(a, b, c) ==
    <<[Request(<<1, 2, 3, 4>>, 2) EXCEPT !.lora = a],
      [Request(<<1, 2, 3, 5>>, 2) EXCEPT !.lora = b, !.logprobs = TRUE],
      [Request(<<1, 2, 6>>, 1) EXCEPT !.lora = c]>>

\* One token each, with prompts of different lengths: no two steps have the
\* same mapping.
Once(a, b, c) ==
    <<[Request(<<1, 2, 3, 4>>, 3) EXCEPT !.lora = a], [Request(<<1, 2, 5>>, 2) EXCEPT !.lora = b],
      [Request(<<1, 2>>, 1) EXCEPT !.lora = c]>>

Eager == [device |-> "ampere", env |-> "", fits |-> TRUE, window |-> 0, alibi |-> FALSE,
          sparse |-> <<>>, v2 |-> FALSE, chunked |-> FALSE, caching |-> FALSE, eager |-> TRUE,
          budget |-> 8, slots |-> 0, capacity |-> 0, api |-> {}, shortages |-> {},
          jacobian |-> TRUE, maxSeqs |-> 3, reqs |-> Plain]
On(device, e) == [e EXCEPT !.device = device]
Graphs(e) == [e EXCEPT !.eager = FALSE]
Window(n, e) == [e EXCEPT !.window = n, !.reqs = Long]
Chunked(budget, e) == [e EXCEPT !.chunked = TRUE, !.budget = budget]
Caching(budget, e) == [e EXCEPT !.caching = TRUE, !.budget = budget, !.reqs = Shared]
V2(e) == [e EXCEPT !.v2 = TRUE]
Alibi(e) == [e EXCEPT !.alibi = TRUE]
Short(shortages, e) == [e EXCEPT !.shortages = shortages]
Loras(slots, capacity, reqs, e) ==
    [e EXCEPT !.slots = slots, !.capacity = capacity, !.reqs = reqs]
Api(adapters, e) == [e EXCEPT !.api = adapters]
SparseBy(homo, ranks, rank, e) ==
    [e EXCEPT !.sparse = [heads |-> 2, kvHeads |-> 1, local |-> 1, stride |-> 4 , size |-> 2,
                          homo |-> homo, group |-> FALSE, rank |-> rank, ranks |-> ranks,
                          maxLen |-> 8]]

Devices == {"ampere", "volta", "hip", "cpu"}

EnginesSound ==
    {On(d, Eager) : d \in Devices}
    \cup {Graphs(On(d, e)) : d \in Devices \ {"cpu"}, e \in {Eager, Short({1}, Eager)}}
    \cup {Chunked(b, On(d, Eager)) : d \in Devices \ {"cpu"}, b \in {2, 3}}
    \cup {Short({1, 2}, Chunked(3, Graphs([Eager EXCEPT !.reqs = Long])))}
    \cup {Caching(8, On(d, Eager)) : d \in {"volta", "hip"}} \cup {Caching(5, Eager)}
    \cup {Window(w, Graphs(e)) : w \in {2, 4}, e \in {On("volta", Eager), V2(Eager)}}
    \cup {Window(4, On("cpu", Eager)), Window(4, Chunked(3, V2(Eager)))}
    \cup {Alibi(Caching(8, On("volta", Eager)))}
    \cup {SparseBy(homo, 2, rank, Graphs(Eager)) : homo \in BOOLEAN, rank \in 0 .. 1}
    \cup {Loras(s, 2, Adapted(1, 2, 3), Eager) : s \in {1, 2}}
    \cup {Loras(2, 3, Adapted(3, 0, 1), Graphs(Eager)),
          Loras(1, 2, Adapted(1, 2, 1), Short({1}, Graphs(Eager))),
          Api({1, 2}, Loras(1, 2, Adapted(1, 2, 1), Eager)),
          Api({1, 2}, Loras(2, 2, Once(1, 3, 0), Eager)),
          Api({1, 2}, Loras(2, 3, Once(1, 3, 0), Eager))}

\* Engines that are refuted, each of them with one claim (README.md, section 5).
EnginesMixedHits == {[Caching(10, Eager) EXCEPT !.reqs[3] = Request(<<8, 9, 4>>, 2)]}
EnginesWindow == {Window(4, V2(On("volta", Eager)))}
EnginesUnaligned == {Window(3, On("volta", Eager))}
EnginesRocmWindow == {Window(2, On("hip", Eager))}
EnginesCpuWindow == {Window(4, V2(On("cpu", Eager)))}
EnginesHeadGroup ==
    {[SparseBy(FALSE, 1, 0, Eager) EXCEPT !.sparse.group = TRUE, !.sparse.stride = 3]}
EnginesLoraChunked == {Loras(2, 2, Adapted(1, 2, 2), Chunked(3, Eager))}
EnginesLoraChunk == {Loras(1, 1, Adapted(1, 1, 1), Chunked(1, Eager))}
EnginesLoraPreempt == {Loras(2, 2, Adapted(1, 1, 1), Short({2}, Eager))}
EnginesLoraApi == 
    {Api({1, 2}, Loras(2, 2, [Adapted(1, 0, 0) EXCEPT ![1].prompt = 1], Eager))}
EnginesLoraShared ==
    {[V2(Caching(8, On("volta", Eager))) EXCEPT !.slots = 2, !.capacity = 2,
        !.reqs = [r \in Reqs |-> [Shared[r] EXCEPT !.lora = r - 1]]]}

AdapterLayers == <<{"linear", "lm_head"}, {"linear"}, {"lm_head"}>>
=============================================================================
