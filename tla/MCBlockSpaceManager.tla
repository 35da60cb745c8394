-------------------------- MODULE MCBlockSpaceManager --------------------------
(* Workloads of version 1 and configurations of version 2 for TLC. *)
EXTENDS BlockSpaceManager

Request(p, n, m) == [prompt |-> p, best_of |-> n, max_tokens |-> m]

\* Requests with one sequence: prompts that share a full block or a part of
\* one, and groups that are recomputed.
Singles == <<Request(<<1, 1, 2>>, 1, 3), Request(<<1, 1>>, 1, 4), Request(<<1, 1, 2>>, 1, 2)>>
Partial == <<Request(<<1>>, 1, 3), Request(<<1>>, 1, 3), Request(<<1, 1, 1>>, 1, 2)>>

\* Prompts of several blocks: cached prefixes are found again, or evicted.
Chains == <<Request(<<1, 1, 2, 2>>, 1, 2), Request(<<2, 2, 1, 1, 1>>, 1, 2),
            Request(<<1, 1, 2, 1, 2, 1, 1>>, 1, 2)>>

\* Requests with two sequences: prompts that fill their blocks, with swapping,
\* and one block shared by two groups before and after their forks.
Pairs == <<Request(<<1, 1>>, 2, 3), Request(<<1, 2>>, 2, 2), Request(<<1, 1, 2>>, 1, 1)>>
Forked == <<Request(<<1>>, 2, 2), Request(<<1>>, 2, 2), Request(<<1>>, 1, 2)>>

LoadsSound == {Singles, Partial, Chains, Pairs, Forked}

\* A group with two sequences whose block is not full when it is swapped out
\* and in, while another group holds the block of the same hash.
LoadsSwapPartial ==
    {<<Request(<<1>>, 2, 4), Request([i \in 1 .. 11 |-> 2], 1, 2), Request(<<1>>, 2, 3)>>}

\* Two pairs of requests with one prompt each, on a full device.
LoadsCopyRace ==
    {<<Request(<<1>>, 1, 3), Request(<<2>>, 1, 3), Request(<<2>>, 1, 3), Request(<<1>>, 1, 3)>>}
-----------------------------------------------------------------------------
Engine(blocks, caching, window, lookahead, reqs) ==
    [blocks |-> blocks, watermark |-> 0, caching |-> caching, window |-> window,
     lookahead |-> lookahead, reqs |-> reqs]

\* Forks that copy on write and run out of blocks; drafted tokens; a window
\* that drops blocks, with room for the null block; equal texts in a pool that never has to evict.
ConfigsSound ==
    {Engine(4, FALSE, 0, 0, <<Request(<<1>>, 2, 4), Request(<<1, 2>>, 1, 3)>>),
     Engine(5, FALSE, 0, 2, <<Request(<<1, 2, 1>>, 1, 4), Request(<<1, 2>>, 1, 4)>>),
     [Engine(5, FALSE, 0, 0, <<Request(<<1, 2, 1>>, 1, 3), Request(<<1, 2, 1, 1, 2, 1, 2, 1, 2>>, 1, 2)>>)
        EXCEPT !.watermark = 1],
     Engine(7, FALSE, 1, 0, <<Request(<<1, 2, 1>>, 1, 6), Request(<<1, 2>>, 1, 3)>>),
     Engine(8, TRUE, 0, 1, <<Request(<<1, 2, 1>>, 1, 5), Request(<<1, 2, 1, 1>>, 1, 4)>>),
     Engine(8, TRUE, 0, 0, <<Request(<<1, 2, 1>>, 1, 3), Request(<<1, 2, 1, 1, 1>>, 2, 2)>>)}

\* The null block takes the slot can_append_slots has counted on.
ConfigsNull == {Engine(2, FALSE, 1, 0, <<Request(<<1, 2>>, 1, 3), Request(<<2>>, 1, 3)>>)}

\* A prompt longer than the window needs more blocks than can_allocate asks for.
ConfigsPrompt == {Engine(4, FALSE, 1, 0, <<Request(<<1, 2, 1, 2>>, 1, 3), Request(<<2, 2, 2, 2, 2>>, 1, 3)>>)}

\* Three texts in a pool that has to evict.
ConfigsEvict == {Engine(2, TRUE, 0, 0, <<Request(<<1, 2, 1>>, 1, 2), Request(<<2, 2, 2>>, 1, 2)>>)}

\* Forked sequences that fill their blocks with the same text.
ConfigsRace == {Engine(8, TRUE, 0, 0, <<Request(<<1>>, 3, 2), Request(<<2>>, 2, 2)>>)}
=============================================================================
