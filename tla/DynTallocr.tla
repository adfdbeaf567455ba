----------------------------- MODULE DynTallocr -----------------------------
(* ggml's dynamic tensor allocator: it lays tensors out in chunks of memory that do not exist yet, best fit first. Sizes   *)
(* and offsets are in units of the alignment. A chunk's array of free blocks is kept sorted by offset, so it is a set here. *)
EXTENDS Integers, Sequences, FiniteSets

CONSTANTS
  MaxChunkSize,  \* max_chunk_size, the largest buffer of the backend
  MaxChunks,     \* GGML_VBUFFER_MAX_CHUNKS
  Endless        \* the size of the last chunk, SIZE_MAX/2 in the code

ASSUME TallocrAssumption ==
  /\ MaxChunkSize \in Nat \ {0} /\ MaxChunks \in Nat \ {0} /\ Endless \in Nat \ {0}
  /\ Endless >= MaxChunkSize

VARIABLES
  chunks,  \* per chunk, its free blocks and max_size, the size its buffer must have
  live     \* history: per chunk, the blocks handed out and not freed

tallocrVars == <<chunks, live>>

Block(offset, size) == [offset |-> offset, size |-> size]
End(b) == b.offset + b.size

\* ggml_dyn_tallocr_reset.
TallocrInit == chunks = <<>> /\ live = <<>>

Larger(m, n) == IF m >= n THEN m ELSE n

IsLast(b, free) == b \in free /\ \A other \in free : other.offset <= b.offset

\* The blocks of a chunk that come before its last and are large enough.
InnerFits(c, size) == {b \in chunks[c].free : ~IsLast(b, chunks[c].free) /\ b.size >= size}

\* Of these the smallest, and of equals the last, of the last chunk that has any: best_fit_size starts anew in each chunk.
BestInner(c, b, size) ==
  /\ b \in InnerFits(c, size)
  /\ \A other \in InnerFits(c, size) : other.size > b.size \/ (other.size = b.size /\ other.offset <= b.offset)
  /\ \A d \in c + 1..Len(chunks) : InnerFits(d, size) = {}

LastFits(c, b, size) == IsLast(b, chunks[c].free) /\ b.size >= size

\* What max_size leaves when the tensor is put into the chunk's last block; negative when the chunk must grow.
Reuse(c, b, size) == chunks[c].max_size - b.offset - size

\* One last block is preferred to another: the least waste, then the least growth, then the earlier chunk.
Preferred(r, c, s, d) ==
  \/ r >= 0 /\ (s < 0 \/ r < s)
  \/ r < 0 /\ s < r
  \/ r = s /\ c <= d

BestLast(c, b, size) ==
  /\ LastFits(c, b, size)
  /\ \A d \in 1..Len(chunks) : \A other \in chunks[d].free :
       LastFits(d, other, size) => Preferred(Reuse(c, b, size), c, Reuse(d, other, size), d)

NoInner(size) == \A c \in 1..Len(chunks) : InnerFits(c, size) = {}
NoLast(size) == \A c \in 1..Len(chunks) : \A b \in chunks[c].free : ~LastFits(c, b, size)

Picks(c, b, size) ==
  \/ BestInner(c, b, size)
  \/ NoInner(size) /\ BestLast(c, b, size)

\* What is left of the free blocks when size is taken from the front of b.
Take(free, b, size) ==
  (free \ {b}) \cup (IF b.size = size THEN {} ELSE {Block(b.offset + size, b.size - size)})

FaultyAllocInChunk(c, b, size) ==
  /\ chunks' = [chunks EXCEPT ![c].free = Take(@, b, size), ![c].max_size = Larger(@, size)]
  /\ live' = [live EXCEPT ![c] = @ \cup {Block(b.offset, size)}]

AllocInChunk(c, b, size) ==
  /\ chunks' = [chunks EXCEPT ![c].free = Take(@, b, size), ![c].max_size = Larger(@, b.offset + size)]
  /\ live' = [live EXCEPT ![c] = @ \cup {Block(b.offset, size)}]

\* ggml_dyn_tallocr_new_chunk; the last chunk the allocator may have is endless.
NewChunkSize(size) == IF Len(chunks) = MaxChunks - 1 THEN Endless ELSE Larger(size, MaxChunkSize)

AllocInNewChunk(size) ==
  /\ Len(chunks) < MaxChunks
  /\ chunks' = Append(chunks, [free |-> Take({Block(0, NewChunkSize(size))}, Block(0, NewChunkSize(size)), size),
                               max_size |-> size])
  /\ live' = Append(live, {Block(0, size)})

\* ggml_dyn_tallocr_alloc, returning chunk c and an offset. It aborts when there is no chunk to be had.
Alloc(size, c, offset) ==
  \/ /\ c <= Len(chunks)
     /\ \E b \in chunks[c].free :
          /\ b.offset = offset
          /\ Picks(c, b, size)
          /\ AllocInChunk(c, b, size)
  \/ /\ NoInner(size) /\ NoLast(size)
     /\ c = Len(chunks) + 1
     /\ offset = 0
     /\ AllocInNewChunk(size)

Offsets(c) == IF c <= Len(chunks) THEN {b.offset : b \in chunks[c].free} ELSE {0}

FaultyMerge(free, b) ==
  LET before == {x \in free : End(x) = b.offset}
      after == IF before = {} THEN {x \in free : End(b) = x.offset} ELSE {}
      start == IF before = {} THEN b.offset ELSE (CHOOSE x \in before : TRUE).offset
      stop == IF after = {} THEN End(b) ELSE End(CHOOSE x \in after : TRUE)
  IN (free \ (before \cup after)) \cup {Block(start, stop - start)}

\* Freeing b: it is merged with the free block that ends where it starts and with the one that starts where it ends.
Merge(free, b) ==
  LET before == {x \in free : End(x) = b.offset}
      after == {x \in free : End(b) = x.offset}
      start == IF before = {} THEN b.offset ELSE (CHOOSE x \in before : TRUE).offset
      stop == IF after = {} THEN End(b) ELSE End(CHOOSE x \in after : TRUE)
  IN (free \ (before \cup after)) \cup {Block(start, stop - start)}

\* ggml_dyn_tallocr_free_bytes of the end of a block, or of all of it; keep is what stays.
FaultyFreeBytes(c, b, keep) ==
  /\ b \in live[c]
  /\ keep < b.size
  /\ chunks' = [chunks EXCEPT ![c].free = Merge(@, Block(b.offset, b.size - keep))]
  /\ live' = [live EXCEPT ![c] = (@ \ {b}) \cup (IF keep = 0 THEN {} ELSE {Block(b.offset, keep)})]

FreeBytes(c, b, keep) ==
  /\ b \in live[c]
  /\ keep < b.size
  /\ chunks' = [chunks EXCEPT ![c].free = Merge(@, Block(b.offset + keep, b.size - keep))]
  /\ live' = [live EXCEPT ![c] = (@ \ {b}) \cup (IF keep = 0 THEN {} ELSE {Block(b.offset, keep)})]
------------------------------------------------------------------------------
CONSTANTS
  Sizes,   \* the sizes that are asked for
  MaxLive  \* bound: blocks in use

ASSUME SizesAssumption == Sizes \subseteq 1..Endless /\ MaxLive \in Nat

Chunks == 1..Len(chunks)
InUse == UNION {{c} \X live[c] : c \in Chunks}

TallocrNext ==
  \/ \E size \in Sizes :
       /\ Cardinality(InUse) < MaxLive
       /\ \E c \in 1..Len(chunks) + 1 : \E offset \in Offsets(c) : Alloc(size, c, offset)
  \/ \E c \in Chunks : \E b \in live[c] : \E keep \in 0..b.size - 1 : FreeBytes(c, b, keep)

TallocrSpec == TallocrInit /\ [][TallocrNext]_tallocrVars
------------------------------------------------------------------------------
Disjoint(a, b) == a = b \/ End(a) <= b.offset \/ End(b) <= a.offset

\* No byte belongs to two tensors, or to a tensor and a free block. Code: ggml_dyn_tallocr_alloc, ggml_dyn_tallocr_free_bytes.
NoOverlap ==
  \A c \in Chunks :
    /\ live[c] \cap chunks[c].free = {}
    /\ \A a, b \in live[c] \cup chunks[c].free : Disjoint(a, b)

\* The buffer that will be made for a chunk, of max_size, holds every tensor that was laid out in it.
\* Code: ggml_dyn_tallocr_alloc, ggml_vbuffer_alloc.
WithinBuffer == \A c \in Chunks : \A b \in live[c] : End(b) <= chunks[c].max_size

\* Free blocks never touch: a hole is one block, however it came about. Code: ggml_dyn_tallocr_free_bytes.
HolesAreWhole == \A c \in Chunks : \A a, b \in chunks[c].free : End(a) # b.offset
=============================================================================
