--------------------------- MODULE BlockSpaceManager ---------------------------
(***************************************************************************)
(* What the scheduler and the worker rely on of a block manager that       *)
(* caches, whichever version get_block_space_manager_class gives them      *)
(* (core/interfaces.py): BlockSpaceManagerV1 with enable_caching, or       *)
(* BlockSpaceManagerV2.  A behaviour is one of either version.             *)
(***************************************************************************)
EXTENDS KVCache

CONSTANTS
    TokenIds,                                   \* what the model may sample
    NumGroupsV1, NumGpuBlocks, NumCpuBlocks, Workloads,     \* of PrefixCache
    NumGroupsV2, MaxBlocks, Configs                         \* of BlockManagerV2

VARIABLES
    version,        \* "v1" or "v2": use_v2_block_manager
    args,           \* the requests of this behaviour, with the engine's arguments
    status, outputs, tables, mem, kv, step

vars == <<version, args, status, outputs, tables, mem, kv, step>>

V1 == INSTANCE PrefixCache WITH NumGroups <- NumGroupsV1, load <- args
V2 == INSTANCE BlockManagerV2 WITH NumGroups <- NumGroupsV2, config <- args

ASSUME BlockSpaceAssumption == V1!PrefixAssumption /\ V2!V2Assumption

Init == \/ version = "v1" /\ V1!Init
        \/ version = "v2" /\ V2!Init

Next == \/ version = "v1" /\ V1!Next /\ UNCHANGED version
        \/ version = "v2" /\ V2!Next /\ UNCHANGED version

Spec == Init /\ [][Next]_vars

-----------------------------------------------------------------------------
\* Properties, over the parts that each version keeps in its own way.

\* Every position that the attention of a step reads holds the keys and values
\* of that very sequence, and what is marked computed (version 1) holds what its
\* hash says: no eviction, sharing, promotion, copy, swap, dropped block or
\* early flag makes a request read the cache of another text.
ReadsOwnPrefix == IF version = "v1" THEN V1!CacheInv ELSE V2!ReadsOwnPrefix

\* No two threads of a cache kernel disagree: blocks are copied from blocks the
\* step does not overwrite, and shared slots get one value.
StepIsRaceFree == IF version = "v1" THEN V1!StepIsRaceFree ELSE V2!StepIsRaceFree

\* The accounts of the allocators: a block is counted once for each table it is
\* in, is free, evictable or in use, a text is found in one block of a device,
\* and no step that the admission checks let through fails for want of blocks.
AccountsInv == IF version = "v1" THEN V1!AllocatorInv ELSE V2!NothingRunsOut
=============================================================================
