----------------------------- MODULE Attention -----------------------------
(***************************************************************************)
(* What each token of a batch attends to, by backend (attention/selector,  *)
(* layer, backends/*, ops/*, csrc/attention).  An operator that stands for *)
(* a kernel gives, for one query token, the function from the key          *)
(* positions it visits (counted from 1 within the sequence) to the keys    *)
(* and values it finds there, named as in KVCache; scores and softmax are  *)
(* abstracted.                                                             *)
(*                                                                         *)
(* A batch b has the fields                                                *)
(*   keys      the new keys and values of the batch, a sequence            *)
(*   rows      per sequence [len, ctx, table]: seq_lens, context_lens and  *)
(*             block_tables as the model runner hands them over            *)
(*   prefills  num_prefills: the rows that come first are prompts          *)
(*   kv        the cache after the new keys are written, or NoCache        *)
(*   graph     whether a captured graph is replayed                        *)
(* and e is the engine: see EngineFields.                                  *)
(***************************************************************************)
EXTENDS KVCache, FiniteSets, FiniteSetsExt

CONSTANTS
    PartitionSize,      \* _PARTITION_SIZE of paged_attn.py (512)
    MaxV1Len,           \* 8192: longer sequences do not fit the v1 kernel
    BusyRows,           \* 512: with more rows than this, v1 is parallel enough
    NumHeads,           \* heads of a rank
    MaxLenToCapture,    \* max_seq_len_to_capture of the captured graphs
    Tile,               \* BLOCK of context_attention_fwd
    TileM, TileN        \* BLOCK_M and BLOCK_N of triton_flash_attention

ASSUME AttentionAssumption ==
    /\ {PartitionSize, MaxV1Len, BusyRows, NumHeads, MaxLenToCapture, Tile, TileN, TileM}
           \subseteq Nat \ {0}
    /\ PartitionSize % BlockSize = 0 /\ TileM % TileN = 0

Least(a, b) == IF a < b THEN a ELSE b
CeilDiv(a, b) == (a + b - 1) \div b
NoCache == <<>>

\* device: "ampere" (or newer), "volta" (or Turing), "hip", "cpu"
\* env: VLLM_ATTENTION_BACKEND, "" when not set
\* fits: head size, data types and block size are those of flash attention,
\*       and its package is installed
\* window: get_sliding_window(), 0 for None; alibi: the model has slopes
\* sparse: blocksparse_params, [] for None (see SparseFields)
EngineFields == {"device", "env", "fits", "window", "alibi", "sparse"}

\* The parameters of block sparse attention, with the heads of one rank.
SparseFields == {"heads", "kvHeads", "local", "stride", "size", "homo", "group",
                 "rank", "ranks", "maxLen"}
Sparse(e) == e.sparse # <<>>

-----------------------------------------------------------------------------
\* Selection and construction of a backend.

WhichAttnToUse(e) ==
    LET named == IF e.env = "" THEN "FLASH_ATTN" ELSE e.env
        CanFlash == e.device = "ampere" /\ e.fits /\ e.window = 0
    IN CASE e.device = "cpu" -> "TORCH_SDPA"
         [] e.device = "hip" -> "ROCM_FLASH"
         [] OTHER -> IF named = "FLASH_ATTN" /\ ~CanFlash THEN "XFORMERS" ELSE named

\* What Attention.__init__ makes; the model runner asks without is_blocksparse.
Backend(e) == IF Sparse(e) THEN "BLOCKSPARSE" ELSE WhichAttnToUse(e)
RunnerBackend(e) == WhichAttnToUse(e)

\* The backend takes the eight arguments Attention passes, and its metadata the
\* keywords of its runner.  FlashInferImpl takes seven; TorchSDPAMetadata has no
\* field for most of what the GPU runner passes.
Constructible(e) ==
    /\ Backend(e) # "FLASHINFER"
    /\ RunnerBackend(e) = "TORCH_SDPA" <=> e.device = "cpu"
    /\ Sparse(e) => e.window = 0 /\ ~e.alibi

-----------------------------------------------------------------------------
\* Where the tokens of a row are in the batch.

QueryLen(b, r) == b.rows[r].len - b.rows[r].ctx
QueryStart(b, r) == MapThenSumSet(LAMBDA q : QueryLen(b, q), 1 .. r - 1)
SeqStart(b, r) == MapThenSumSet(LAMBDA q : b.rows[q].len, 1 .. r - 1)
RowOfQuery(b, k) ==
    CHOOSE r \in DOMAIN b.rows : k - QueryStart(b, r) \in 1 .. QueryLen(b, r)
RowOfSeq(b, k) ==
    CHOOSE r \in DOMAIN b.rows : k - SeqStart(b, r) \in 1 .. b.rows[r].len
NumPrefillTokens(b) == QueryStart(b, b.prefills + 1)
DecodeRows(b) == b.prefills + 1 .. Len(b.rows)

\* block_tables is one tensor, padded with zeros to the longest row.
Width(b) == Max({Len(b.rows[r].table) : r \in DOMAIN b.rows})
PaddedBlock(b, r, i) ==
    IF i <= Len(b.rows[r].table) THEN b.rows[r].table[i] ELSE 0
\* Position j of row r in the cache; nothing of use past the tensor.
Cached(b, r, j) ==
    IF BlockIndex(j) > Width(b) THEN <<>>
    ELSE b.kv[PaddedBlock(b, r, BlockIndex(j))][Offset(j)]

\* "if kv_cache is None or prefill_meta.block_tables.numel() == 0"
PlainPrompt(b) == b.kv = NoCache \/ Width(b) = 0

-----------------------------------------------------------------------------
\* Prompts without a cached prefix: keys and queries are the batch's own.

\* flash_attn_varlen_func with cu_seqlens of the sequences, causal.
FlashVarlen(b, k) ==
    LET first == SeqStart(b, RowOfSeq(b, k))
    IN [j \in 1 .. k - first |-> b.keys[first + j]]

\* BlockDiagonalCausalMask, local unless the bias is that of alibi.
MemoryEfficient(e, b, k) ==
    LET first == SeqStart(b, RowOfSeq(b, k))
        local == k - first
    IN [j \in {j \in 1 .. local : e.window = 0 \/ e.alibi \/ local - j < e.window}
            |-> b.keys[first + j]]

\* The loop over seq_lens with a triangular mask of its own for each prompt.
SdpaMask(e, m, n) ==
    n <= m /\ (e.window = 0 \/ e.alibi \/ n >= m - e.window + 1)
ScaledDotProduct(e, b, k) ==
    LET r == RowOfSeq(b, k)
        start == SeqStart(b, r)
        end == start + b.rows[r].len
    IN [j \in {j \in 1 .. end - start : SdpaMask(e, k - start, j)} |-> b.keys[start + j]]

\* The key blocks of one program of attn_fwd: those before the last few are
\* visited without a mask.
AttnFwd(b, k) ==
    LET first == SeqStart(b, RowOfSeq(b, k))
        len == b.rows[RowOfSeq(b, k)].len
        m == k - first
        startM == (m - 1) \div TileM
        nBlocks == Least(CeilDiv(len, TileN), CeilDiv((startM + 1) * TileM, TileN))
        isModulo == len % TileN = 0 /\ len % TileM = 0
        masked == Least(TileM \div TileN + (IF isModulo THEN 0 ELSE 1), nBlocks)
        full == (nBlocks - masked) * TileN
    IN [j \in 1 .. full \cup {j \in full + 1 .. nBlocks * TileN : j <= len /\ j <= m}
            |-> b.keys[first + j]]

-----------------------------------------------------------------------------
\* Prompts after a cached prefix.

\* flash_attn_varlen_func with a block table: all keys come from the cache, and
\* the causal mask is aligned to the end of the sequence.
FlashPaged(b, k) ==
    LET r == RowOfQuery(b, k)
        last == b.rows[r].ctx + k - QueryStart(b, r)
    IN [j \in 1 .. last |-> Cached(b, r, j)]

\* context_attention_fwd: tiles over the context in the cache, then tiles over
\* the new keys of the batch up to the program's own rows.
ContextTiles(ctx) == {t \in 0 .. ctx : t * Tile < ctx}
FwdKernel(b, k, window) ==
    LET r == RowOfQuery(b, k)
        start == QueryStart(b, r)
        ctx == b.rows[r].ctx
        offsM == k - start - 1
        startM == offsM \div Tile
        InWindow(distance) == window = 0 \/ distance < window
        context == {t * Tile + n : t \in ContextTiles(ctx), n \in 0 .. Tile - 1}
        own == {t * Tile + n : t \in 0 .. startM, n \in 0 .. Tile - 1}
        cached == {j \in context : j < ctx /\ InWindow(ctx + offsM - j)}
        fresh == {j \in own : j <= offsM /\ InWindow(offsM - j)}
    IN [j \in {c + 1 : c \in cached} \cup {ctx + f + 1 : f \in fresh} |->
            IF j <= ctx THEN Cached(b, r, j) ELSE b.keys[start + j - ctx]]

\* _fwd_kernel_alibi has no window.
FwdKernelAlibi(b, k) == FwdKernel(b, k, 0)

ContextAttentionFwd(e, b, k) ==
    IF e.alibi THEN FwdKernelAlibi(b, k) ELSE FwdKernel(b, k, e.window)

-----------------------------------------------------------------------------
\* Decoding: one query for each row, all keys in the cache.

\* flash_attn_with_kvcache: cache_seqlens keys, through the row's table.
FlashKvCache(b, r) == [j \in 1 .. b.rows[r].len |-> Cached(b, r, j)]

\* The graph keeps the max_seq_len it was captured with; the block sparse
\* backend passes the longest length of its model.
MaxDecodeLen(e, b) ==
    CASE Sparse(e) -> e.sparse.maxLen
      [] b.graph /\ ~Sparse(e) -> MaxLenToCapture
      [] OTHER -> Max({b.rows[r].len : r \in DecodeRows(b)})
UseV1(e, b) ==
    LET longest == MaxDecodeLen(e, b)
        heads == IF Sparse(e) THEN e.sparse.heads ELSE NumHeads
        seqs == Cardinality(DecodeRows(b))
    IN longest <= MaxV1Len
       /\ (CeilDiv(longest, PartitionSize) = 1 \/ seqs * heads > BusyRows)

\* paged_attention_kernel without and with partitions; the second is launched
\* for the partitions of the longest sequence.
PagedV1(b, r) == UNION {{(i - 1) * BlockSize + o : o \in Slots} :
                            i \in 1 .. NumBlocks(b.rows[r].len)}
PagedV2(e, b, r) ==
    LET perPartition == PartitionSize \div BlockSize
        Blocks(p) == {i \in p * perPartition + 1 .. (p + 1) * perPartition :
                          i <= NumBlocks(b.rows[r].len)}
        launched == {p \in 0 .. CeilDiv(MaxDecodeLen(e, b), PartitionSize) - 1 :
                         p * PartitionSize < b.rows[r].len}
    IN UNION {{(i - 1) * BlockSize + o : o \in Slots} :
                  i \in UNION {Blocks(p) : p \in launched}}
PagedAttention(e, b, r) ==
    [j \in {j \in IF UseV1(e, b) THEN PagedV1(b, r) ELSE PagedV2(e, b, r) :
                j <= b.rows[r].len} |-> Cached(b, r, j)]

-----------------------------------------------------------------------------
\* Block sparse attention: local blocks, and one in `stride` blocks at an
\* offset that slides with the head.

HeadSlidingStep(heads, stride) == Max({1, stride \div heads})
TotalHeads(s) == s.ranks * s.heads
DecodeSlidingStep(s) ==
    CASE s.homo -> 0
      [] s.group /\ ~s.homo -> -HeadSlidingStep(s.ranks * s.kvHeads, s.stride)
      [] OTHER -> HeadSlidingStep(TotalHeads(s), s.stride)

\* get_sparse_attn_mask: does query block q see key block n, for head h of all?
SparseMask(s, h, q, n) ==
    LET step == IF s.homo THEN 0 ELSE HeadSlidingStep(TotalHeads(s), s.stride)
    IN q >= n /\ (q - n < s.local \/ (n + h * step + 1) % s.stride = 0)

\* The CSR row of the query's block; only the last block of a row is masked.
SparseRow(s, h, q) == {n \in 0 .. q : SparseMask(s, h, q, n)}
BlocksparseVarlen(e, b, k, head) ==
    LET s == e.sparse
        first == SeqStart(b, RowOfSeq(b, k))
        m == k - first
        row == SparseRow(s, s.rank * s.heads + head, (m - 1) \div s.size)
        Visible(j) == LET n == (j - 1) \div s.size
                      IN n \in row /\ (n = Max(row) => j <= m)
    IN [j \in {j \in 1 .. b.rows[RowOfSeq(b, k)].len : Visible(j)} |-> b.keys[first + j]]

\* The test of the paged kernel, which slides on query heads or, for a negative
\* step, on key heads.
PagedBlockOffset(s, head) ==
    LET step == DecodeSlidingStep(s)
        kvHead == head \div (s.heads \div s.kvHeads)
    IN IF step >= 0 THEN (s.rank * s.heads + head) * step + 1
       ELSE (s.rank * s.kvHeads + kvHead) * (-step) + 1
BlocksparsePaged(e, b, r, head) ==
    LET s == e.sparse
        dense == PagedAttention(e, b, r)
        q == (b.rows[r].len - 1) \div s.size
        Visited(j) == LET n == (((j - 1) \div BlockSize) * BlockSize) \div s.size
                      IN (n + PagedBlockOffset(s, head)) % s.stride = 0 \/ n > q - s.local
    IN [j \in {j \in DOMAIN dense : Visited(j)} |-> dense[j]]

-----------------------------------------------------------------------------
\* AttentionImpl.forward of each backend, for query token k and a head.

\* The forward passes that raise instead: no path for a prompt with a context.
Raises(e, b) ==
    Backend(e) \in {"TORCH_SDPA", "BLOCKSPARSE"} /\ b.prefills > 0 /\ ~PlainPrompt(b)

IsPrompt(b, k) == k <= NumPrefillTokens(b)

FlashAttentionForward(b, k) ==
    CASE IsPrompt(b, k) /\ PlainPrompt(b) -> FlashVarlen(b, k)
      [] IsPrompt(b, k) /\ ~PlainPrompt(b) -> FlashPaged(b, k)
      [] OTHER -> FlashKvCache(b, RowOfQuery(b, k))
XFormersForward(e, b, k) ==
    CASE IsPrompt(b, k) /\ PlainPrompt(b) -> MemoryEfficient(e, b, k)
      [] IsPrompt(b, k) /\ ~PlainPrompt(b) -> ContextAttentionFwd(e, b, k)
      [] OTHER -> PagedAttention(e, b, RowOfQuery(b, k))
ROCmFlashAttentionForward(e, b, k) ==
    CASE IsPrompt(b, k) /\ PlainPrompt(b) -> AttnFwd(b, k)
      [] IsPrompt(b, k) /\ ~PlainPrompt(b) -> ContextAttentionFwd(e, b, k)
      [] OTHER -> PagedAttention(e, b, RowOfQuery(b, k))
TorchSDPAForward(e, b, k) ==
    IF IsPrompt(b, k) THEN ScaledDotProduct(e, b, k)
    ELSE PagedAttention(e, b, RowOfQuery(b, k))
BlocksparseForward(e, b, k, head) ==
    IF IsPrompt(b, k) THEN BlocksparseVarlen(e, b, k, head)
    ELSE BlocksparsePaged(e, b, RowOfQuery(b, k), head)

Forward(e, b, k, head) ==
    CASE Backend(e) = "FLASH_ATTN" -> FlashAttentionForward(b, k)
      [] Backend(e) = "XFORMERS" -> XFormersForward(e, b, k)
      [] Backend(e) = "ROCM_FLASH" -> ROCmFlashAttentionForward(e, b, k)
      [] Backend(e) = "TORCH_SDPA" -> TorchSDPAForward(e, b, k)
      [] Backend(e) = "BLOCKSPARSE" -> BlocksparseForward(e, b, k, head)

\* The heads whose reads differ.
Heads(e) == IF Sparse(e) THEN 0 .. e.sparse.heads - 1 ELSE {0}
=============================================================================
