------------------------------ MODULE Checkpoint ------------------------------
(***************************************************************************)
(* The weights of a model on disk (model_executor/model_loader): which     *)
(* files of a checkpoint are read and what of them reaches the model, the  *)
(* numpy cache that is made of them, and the parts a rank writes its own   *)
(* tensors to and reads them from.                                         *)
(*                                                                         *)
(* A checkpoint c is a record: weights (the names the model has), files    *)
(* (each with its format, its names, whether it serves inference and is in *)
(* the index), index (there is one), fallBack (fall_back_to_pt), tensors   *)
(* (the state dict of a rank in its order), saves (the max_size of each    *)
(* save_sharded_state into this directory) and tensorized (one file).      *)
(***************************************************************************)
EXTENDS Integers, SequencesExt

CONSTANT Unlimited      \* max_size None

-----------------------------------------------------------------------------
\* DefaultModelLoader

\* _prepare_weights: the patterns that are tried, the first with any file is used.
PatternsOf ==
    [auto |-> <<"safetensors", "bin">>, safetensors |-> <<"safetensors">>,
     pt |-> <<"pt">>, npcache |-> <<"bin">>]

AllowPatterns(c, format) == PatternsOf[format] \o (IF c.fallBack THEN <<"pt">> ELSE <<>>)

Matching(c, pattern) == {f \in c.files : f.format = pattern}

Pattern(c, format) ==
    LET found == SelectSeq(AllowPatterns(c, format), LAMBDA p : Matching(c, p) # {})
    IN IF found = <<>> THEN "none" ELSE Head(found)

UseSafetensors(c, format) == format = "safetensors" \/ Pattern(c, format) = "safetensors"

\* filter_duplicate_safetensors_files
FilterDuplicates(c, files) == IF c.index THEN {f \in files : f.indexed} ELSE files

\* filter_files_not_needed_for_inference
FilterNotNeeded(files) == {f \in files : f.inference}

PreparedFiles(c, format) ==
    LET files == Matching(c, Pattern(c, format))
    IN IF UseSafetensors(c, format) THEN FilterDuplicates(c, files) ELSE FilterNotNeeded(files)

NamesIn(files) == UNION {f.names : f \in files}

\* No file is left, or a file is of the other format, or load_weights does not
\* know a name.
DefaultLoadFails(c, format) ==
    LET files == PreparedFiles(c, format)
    IN \/ files = {}
       \/ UseSafetensors(c, format) /\ Pattern(c, format) # "safetensors"
       \/ ~(NamesIn(files) \subseteq c.weights)

-----------------------------------------------------------------------------
\* np_cache_weights_iterator: under a lock, a file per weight, at the end the
\* list of their names, and what is read are the files of this list.
NoCache == [written |-> {}, list |-> "none", listed |-> {}]

Dumped(c, cache) ==
    LET names == NamesIn(PreparedFiles(c, "npcache"))
    IN IF cache.list # "none" THEN cache
       ELSE [written |-> names, list |-> "whole", listed |-> names]

\* The process dies while it dumps: not all weights are there, or the list is
\* cut off.
Interrupted(c, cache) ==
    LET names == NamesIn(PreparedFiles(c, "npcache"))
    IN IF cache.list # "none" THEN {}
       ELSE {[cache EXCEPT !.written = @ \cup some] : some \in SUBSET names}
                \cup {[cache EXCEPT !.written = names, !.list = "cut"]}

-----------------------------------------------------------------------------
\* ShardedStateLoader.  A tensor is a range of bytes of a storage; its key is a
\* number, in the order of the names.

Covers(t, u) == t.storage = u.storage /\ t.from <= u.from /\ u.to <= t.to

\* _filter_subtensors: a tensor that another one covers is left out, and of
\* equal ones all but the first key.
Superfluous(t, tensors) ==
    \E u \in Range(tensors) :
        /\ u.contiguous /\ Covers(u, t)
        /\ ~Covers(t, u) \/ ~t.contiguous \/ u.key < t.key

FilterSubtensors(tensors) ==
    LET some == SelectSeq(tensors, LAMBDA t : t.from < t.to)
        group(k) == IF \E j \in 1 .. k - 1 : some[j].storage = some[k].storage THEN <<>>
                    ELSE SelectSeq(some, LAMBDA t : t.storage = some[k].storage)
        groups == FlattenSeq([k \in DOMAIN some |-> group(k)])
    IN SelectSeq(groups, LAMBDA t : ~Superfluous(t, some))

KeysOf(tensors) == {t.key : t \in Range(tensors)}

\* save_model: the parts, each as long as max_size allows
SaveModel(tensors, maxSize) ==
    LET add(acc, t) ==
            LET size == t.to - t.from
            IN IF maxSize # Unlimited /\ acc.total + size > maxSize
               THEN [parts |-> Append(acc.parts, acc.part), part |-> {t.key}, total |-> size]
               ELSE [acc EXCEPT !.part = @ \cup {t.key}, !.total = @ + size]
        end == FoldLeft(add, [parts |-> <<>>, part |-> {}, total |-> 0], FilterSubtensors(tensors))
    IN IF end.part = {} THEN end.parts ELSE Append(end.parts, end.part)

\* The parts in the directory: a save overwrites those of its numbers.
PartsOf(c) ==
    FoldLeft(LAMBDA old, maxSize :
                 LET new == SaveModel(c.tensors, maxSize)
                 IN new \o SubSeq(old, Len(new) + 1, Len(old)), <<>>, c.saves)

\* load_model: the parts of this rank, whose keys the state dict has, once each,
\* and no key is missing.
ShardedLoadFails(c) ==
    LET parts == PartsOf(c)
        keys == KeysOf(FilterSubtensors(c.tensors))
    IN \/ parts = <<>>
       \/ \E j, k \in DOMAIN parts : j # k /\ parts[j] \cap parts[k] # {}
       \/ UNION Range(parts) # keys

-----------------------------------------------------------------------------
\* TensorizerLoader: a file that vLLM has written is read as it is, and every
\* tensor of the model must be in it; another one gives its weights by name.
TensorizerLoadFails(c) ==
    IF c.tensorized.vllm THEN c.tensorized.names # c.weights
    ELSE ~(c.tensorized.names \subseteq c.weights)

-----------------------------------------------------------------------------
\* Loading with a load_format, and the names that get values on disk.

LoadWeightsFails(c, format) ==
    CASE format = "dummy" -> FALSE
      [] format = "sharded_state" -> ShardedLoadFails(c)
      [] format = "tensorizer" -> TensorizerLoadFails(c)
      [] OTHER -> DefaultLoadFails(c, format)

LoadedNames(c, format, cache) ==
    CASE format = "npcache" -> cache.listed
      [] format = "tensorizer" -> c.tensorized.names
      [] OTHER -> NamesIn(PreparedFiles(c, format))

\* Each tensor of a rank has its values when those of the keys are loaded.
TensorsHaveValues(c) ==
    \A t \in Range(c.tensors) : t.from < t.to =>
        \E u \in Range(c.tensors) : u.key \in UNION Range(PartsOf(c)) /\ Covers(u, t)
=============================================================================
