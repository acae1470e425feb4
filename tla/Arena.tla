------------------------------- MODULE Arena -------------------------------
(***************************************************************************)
(* The bump allocator of include/rapidproto/arena_runtime.hpp (class       *)
(* Arena): aligned blocks are handed out of a list of chunks, a request    *)
(* that does not fit moves on to the next chunk or appends a larger one,   *)
(* reset() rewinds without freeing.                                        *)
(*                                                                         *)
(* Addresses are absolute numbers, 0 is nullptr.  std::size_t is the range *)
(* 0..SizeMax and its arithmetic wraps; the word is scaled down so that    *)
(* the overflow guards are within reach of small instances.  The host      *)
(* allocator behind new (std::nothrow) char[n] is external: it returns any *)
(* address whose n bytes overlap no chunk, or fails.  Chunk 0 (m_head) and *)
(* the chunks 1..N (m_more) are one sequence; m_live says it is not empty. *)
(***************************************************************************)
EXTENDS Integers, Sequences, FiniteSets, SequencesExt, FiniteSetsExt

CONSTANTS
    SizeMax,        \* SIZE_MAX
    AddrMax,        \* the end of the address range the host hands out
    HostAddrs,      \* where the host allocator may place an array
    Seeds,          \* constructor arguments: records [base, size]; base 0 is Arena()
    Types,          \* the T of create<T> and allocate_array<T>: [size, align]
    Counts,         \* the n of allocate_array
    Caps,           \* the arguments of set_capacity_limit
    kMaxAlign,      \* alignof(std::max_align_t)
    kDefaultChunk,
    kMaxChunk,
    MaxLive         \* bound: blocks handed out between two resets

ASSUME WordAssumption ==
    /\ SizeMax \in Nat /\ AddrMax \in Nat
    /\ kMaxAlign \in Nat \ {0} /\ kDefaultChunk \in Nat /\ kMaxChunk \in Nat
    /\ kDefaultChunk <= kMaxChunk /\ 2 * kMaxChunk <= SizeMax
    /\ kMaxAlign <= SizeMax \div 2
    /\ AddrMax + kMaxAlign <= SizeMax

ASSUME HostAssumption == HostAddrs \subseteq 1 .. AddrMax

\* A seed is nullptr or a buffer inside the address range.
ASSUME SeedAssumption ==
    \A s \in Seeds : /\ s.base \in Nat /\ s.size \in Nat
                     /\ s.base + s.size <= AddrMax

\* sizeof(T) >= 1; alignments are at most alignof(std::max_align_t).
ASSUME RequestAssumption ==
    /\ \A t \in Types : t.size \in 1 .. SizeMax /\ t.align \in 1 .. kMaxAlign
    /\ Counts \subseteq 0 .. SizeMax
    /\ Caps \subseteq 0 .. SizeMax

VARIABLES
    m_cur,          \* the bump cursor
    m_limit,        \* the end of the current chunk
    chunks,         \* m_head followed by m_more: [base, data, limit]
    m_cursor,       \* index of the current chunk, from 0
    m_used,
    m_reserved,
    m_next_chunk,
    m_cap,
    live            \* the blocks handed out since the last reset: [ptr, size, align]

member_vars == <<m_cur, m_limit, chunks, m_cursor, m_used, m_reserved, m_next_chunk, m_cap>>
arena_vars == <<member_vars, live>>

-----------------------------------------------------------------------------
PtrdiffMax == SizeMax \div 2

\* Unsigned arithmetic of std::size_t.
Wrap(n) == n % (SizeMax + 1)

\* align_up: (addr + (align - 1)) & ~(align - 1) for a power of two.
AlignUp(p, align) == ((p + (align - 1)) \div align) * align

chunk(i) == chunks[i + 1]
chunk_count == Len(chunks)

\* The size test of allocate() and of fits(): never p + bytes.
RoomFor(p, limit, bytes) == p <= limit /\ bytes <= limit - p

fits(c, bytes, align) == RoomFor(AlignUp(c.data, align), c.limit, bytes)

\* The request does not fit in the current chunk (the guard of allocate()).
Overflows(bytes, align) ==
    ~(m_cur # 0 /\ RoomFor(AlignUp(m_cur, align), m_limit, bytes))

-----------------------------------------------------------------------------
(* The host allocator (external).                                          *)
Overlap(lo1, hi1, lo2, hi2) == lo1 < hi2 /\ lo2 < hi1

HostBases(raw) ==
    {b \in HostAddrs :
        /\ b + raw <= AddrMax
        /\ \A i \in DOMAIN chunks : ~Overlap(b, b + raw, chunks[i].base, chunks[i].limit)}

-----------------------------------------------------------------------------
(* grow(min_usable)                                                        *)
GrowCap(min_usable) == IF m_next_chunk < min_usable THEN min_usable ELSE m_next_chunk

GrowRaw(min_usable) == Wrap(GrowCap(min_usable) + kMaxAlign)

\* Mutant: the limit is compared after an unsigned subtraction only.
GrowAllowedNoCapTest(min_usable) ==
    /\ ~(GrowCap(min_usable) > PtrdiffMax - kMaxAlign)
    /\ ~(GrowRaw(min_usable) > Wrap(m_cap - m_reserved))

\* The two size checks of grow(), before it asks the host.
GrowAllowed(min_usable) ==
    /\ ~(GrowCap(min_usable) > PtrdiffMax - kMaxAlign)
    /\ ~(m_reserved >= m_cap \/ GrowRaw(min_usable) > Wrap(m_cap - m_reserved))

NewChunk(base, raw) ==
    [base |-> base, data |-> AlignUp(base, kMaxAlign), limit |-> base + raw]

\* Mutant: a chunk is appended behind all others.
GrowIndexAtEnd == Len(chunks)

\* Index at which grow() inserts: the head of an empty arena, else right after
\* the current chunk.
GrowIndex == IF chunks = <<>> THEN 0 ELSE m_cursor + 1

\* Mutant: the schedule doubles without stopping at kMaxChunk.
NextChunkSizeUncapped == Wrap(2 * m_next_chunk)

NextChunkSize ==
    IF m_next_chunk < kMaxChunk
    THEN IF Wrap(2 * m_next_chunk) < kMaxChunk THEN Wrap(2 * m_next_chunk) ELSE kMaxChunk
    ELSE m_next_chunk

\* Mutant: the chunks behind the new one are dropped.
WithChunkLosesTail(c) == SubSeq(chunks, 1, GrowIndex) \o <<c>>

\* m_more.insert: the chunks from GrowIndex on move back by one.
WithChunk(c) == InsertAt(chunks, GrowIndex + 1, c)

\* What a chunk adds to m_reserved: its usable bytes.
ReservedBy(c) == c.limit - c.data

-----------------------------------------------------------------------------
(* allocate(bytes, align), its three ways to succeed and its failure.      *)
(* `size` is what the caller will write to: the true n * sizeof(T).        *)

\* The bump itself: align p within the chunk [data, limit), take the bytes.
Bump(cur, limit, bytes, align, size) ==
    LET p == AlignUp(cur, align)
    IN  /\ m_cur' = p + bytes
        /\ m_limit' = limit
        /\ m_used' = m_used + bytes
        /\ live' = live \cup {[ptr |-> p, size |-> size, align |-> align]}

AllocInCurrent(bytes, align, size) ==
    /\ ~Overflows(bytes, align)
    /\ Bump(m_cur, m_limit, bytes, align, size)
    /\ UNCHANGED <<chunks, m_cursor, m_reserved, m_next_chunk, m_cap>>

\* Mutant: the last kept chunk is never reused.
NextChunkFitsNotLast(bytes, align) ==
    m_cursor + 2 < chunk_count /\ fits(chunk(m_cursor + 1), bytes, align)

\* allocate_slow, first arm: the next chunk kept from before a reset().
NextChunkFits(bytes, align) ==
    m_cursor + 1 < chunk_count /\ fits(chunk(m_cursor + 1), bytes, align)

AllocInNext(bytes, align, size) ==
    /\ Overflows(bytes, align)
    /\ NextChunkFits(bytes, align)
    /\ m_cursor' = m_cursor + 1
    /\ Bump(chunk(m_cursor + 1).data, chunk(m_cursor + 1).limit, bytes, align, size)
    /\ UNCHANGED <<chunks, m_reserved, m_next_chunk, m_cap>>

\* allocate_slow, second arm: grow(bytes + align) unless the sum overflows.
MustGrow(bytes, align) ==
    Overflows(bytes, align) /\ ~NextChunkFits(bytes, align)

MayGrow(bytes, align) ==
    ~(bytes > SizeMax - align) /\ GrowAllowed(Wrap(bytes + align))

AllocByGrowing(bytes, align, size) ==
    /\ MustGrow(bytes, align)
    /\ MayGrow(bytes, align)
    /\ \E base \in HostBases(GrowRaw(Wrap(bytes + align))) :
         LET c == NewChunk(base, GrowRaw(Wrap(bytes + align)))
         IN  /\ chunks' = WithChunk(c)
             /\ m_cursor' = GrowIndex
             /\ m_reserved' = m_reserved + ReservedBy(c)
             /\ Bump(c.data, c.limit, bytes, align, size)
    /\ m_next_chunk' = NextChunkSize
    /\ UNCHANGED m_cap

\* nullptr: the sum overflows, a size check of grow() fails, or host OOM.
AllocFails(bytes, align) ==
    /\ MustGrow(bytes, align)
    /\ UNCHANGED arena_vars

AllocSucceeds(bytes, align, size) ==
    \/ AllocInCurrent(bytes, align, size)
    \/ AllocInNext(bytes, align, size)
    \/ AllocByGrowing(bytes, align, size)

Allocate(bytes, align, size) ==
    AllocSucceeds(bytes, align, size) \/ AllocFails(bytes, align)

\* create<T>: one T.
Create(t) == Allocate(t.size, t.align, t.size)

\* Mutant: the overflow of n * sizeof(T) is not tested.
CountRejectedZeroOnly(n, t) == n = 0

\* allocate_array<T>(n) rejects zero and a count whose byte size overflows.
CountRejected(n, t) == n = 0 \/ n > SizeMax \div t.size

AllocateArray(n, t) ==
    \/ /\ CountRejected(n, t)
       /\ UNCHANGED arena_vars
    \/ /\ ~CountRejected(n, t)
       /\ Allocate(Wrap(n * t.size), t.align, n * t.size)

\* Mutant: any block below the cursor counts as the most recent one.
ShrinkGuardAny(b, old_bytes) == b.ptr + old_bytes <= m_cur

\* base + old_bytes == m_cur: still the last allocation.
ShrinkGuard(b, old_bytes) == b.ptr + old_bytes = m_cur

\* shrink_last(ptr, old_bytes, new_bytes).  The generated code passes a live array
\* and the sizes of its capacity and of the elements in use.  The capacity it keeps
\* is lowered by a trim that had no effect, so old_bytes may be less than the array.
ShrinkLast(b, old_bytes, new_bytes) ==
    /\ new_bytes <= old_bytes
    /\ IF ShrinkGuard(b, old_bytes)
       THEN /\ m_cur' = b.ptr + new_bytes
            /\ m_used' = m_used - (old_bytes - new_bytes)
            /\ live' = (live \ {b}) \cup {[b EXCEPT !.size = new_bytes]}
       ELSE UNCHANGED <<m_cur, m_used, live>>
    /\ UNCHANGED <<m_limit, chunks, m_cursor, m_reserved, m_next_chunk, m_cap>>

\* Mutant: m_used survives the reset.
ResetKeepsUsed ==
    /\ m_cursor' = 0
    /\ m_cur' = IF chunks # <<>> THEN chunks[1].data ELSE 0
    /\ m_limit' = IF chunks # <<>> THEN chunks[1].limit ELSE 0
    /\ live' = {}
    /\ UNCHANGED <<chunks, m_used, m_reserved, m_next_chunk, m_cap>>

\* reset(): back to chunk 0; every earlier block is dead from here on.
Reset ==
    /\ m_used' = 0
    /\ m_cursor' = 0
    /\ m_cur' = IF chunks # <<>> THEN chunks[1].data ELSE 0
    /\ m_limit' = IF chunks # <<>> THEN chunks[1].limit ELSE 0
    /\ live' = {}
    /\ UNCHANGED <<chunks, m_reserved, m_next_chunk, m_cap>>

SetCapacityLimit(cap) ==
    /\ m_cap' = cap
    /\ UNCHANGED <<m_cur, m_limit, chunks, m_cursor, m_used, m_reserved, m_next_chunk, live>>

-----------------------------------------------------------------------------
\* Arena(buffer, size): adopt_buffer when the buffer is large enough to align.
SeedChunks(s) ==
    IF s.base # 0 /\ s.size > kMaxAlign THEN <<NewChunk(s.base, s.size)>> ELSE <<>>

ArenaInit ==
    /\ \E s \in Seeds : chunks = SeedChunks(s)
    /\ m_cursor = 0
    /\ m_cur = IF chunks # <<>> THEN chunks[1].data ELSE 0
    /\ m_limit = IF chunks # <<>> THEN chunks[1].limit ELSE 0
    /\ m_reserved = IF chunks # <<>> THEN ReservedBy(chunks[1]) ELSE 0
    /\ m_used = 0
    /\ m_next_chunk = kDefaultChunk
    /\ m_cap = SizeMax
    /\ live = {}

\* The sizes of the non-empty arrays inside block b: sizeof(T) is a multiple of alignof(T).
ArraySizes(b) == {s \in 1 .. b.size : s % b.align = 0}

\* The generated code trims an array to the elements it holds, at least one.
ArenaNext ==
    \/ \E t \in Types : Cardinality(live) < MaxLive /\ Create(t)
    \/ \E t \in Types, n \in Counts : Cardinality(live) < MaxLive /\ AllocateArray(n, t)
    \/ \E b \in live : \E old_bytes, new_bytes \in ArraySizes(b) :
          ShrinkLast(b, old_bytes, new_bytes)
    \/ Reset
    \/ \E cap \in Caps : SetCapacityLimit(cap)

ArenaSpec == ArenaInit /\ [][ArenaNext]_arena_vars

-----------------------------------------------------------------------------
(* Properties                                                              *)

Chunk == [base : Nat, data : Nat, limit : Nat]
Block == [ptr : Nat, size : Nat, align : Nat]

\* Types, and the range of the growth schedule: the size of the next chunk climbs
\* from kDefaultChunk and stops at kMaxChunk.
TypeOK ==
    /\ m_cur \in Nat /\ m_limit \in Nat
    /\ chunks \in Seq(Chunk)
    /\ m_cursor \in Nat
    /\ m_used \in Int /\ m_reserved \in Nat
    /\ m_next_chunk \in kDefaultChunk .. kMaxChunk /\ m_cap \in 0 .. SizeMax
    /\ live \subseteq Block

\* Block b lies in the usable part of chunk i.
Within(b, i) == chunks[i].data <= b.ptr /\ b.ptr + b.size <= chunks[i].limit

\* Every block that allocate() handed out since the last reset() lies inside one
\* chunk, with all the bytes its caller asked for and the alignment of its type:
\* no request, however large the untrusted count, is under-allocated.
BlocksInBounds ==
    \A b \in live : b.ptr % b.align = 0 /\ \E i \in DOMAIN chunks : Within(b, i)

\* No two live blocks share a byte, through growth, reuse of kept chunks after
\* reset() and the rewinding of shrink_last().
BlocksDisjoint ==
    \A a, b \in live : a # b => ~Overlap(a.ptr, a.ptr + a.size, b.ptr, b.ptr + b.size)

\* bytes_used() is exactly the payload of the live blocks and bytes_reserved() the
\* usable memory of the chunks held, however often the arena was shrunk and reset.
AccountingExact ==
    /\ m_used = SumFunction([b \in live |-> b.size])
    /\ m_reserved = SumFunction([i \in DOMAIN chunks |-> ReservedBy(chunks[i])])

\* set_capacity_limit: no step that takes memory from the host ends above the
\* limit in force, even when the limit is set below what is already held.
CapacityRespected == [][m_reserved' > m_reserved => m_reserved' <= m_cap]_arena_vars

\* Why a reused arena stops asking the host for memory: a chunk is never lost or
\* reordered, and a grow leaves the chunks up to the current one as they are and puts
\* right behind it a chunk strictly larger than the kept one it passes over, so that for
\* a bounded workload the list of chunk sizes only rises, lexicographically, to a fixed
\* point.
GrowthMakesProgress ==
    [][/\ \E f \in [DOMAIN chunks -> DOMAIN chunks'] :
             /\ \A i, j \in DOMAIN chunks : i < j => f[i] < f[j]
             /\ \A i \in DOMAIN chunks : chunks'[f[i]] = chunks[i]
       /\ Len(chunks') > Len(chunks) =>
             LET k == IF chunks = <<>> THEN 1 ELSE m_cursor + 2
             IN  /\ \A i \in 1 .. (k - 1) : chunks'[i] = chunks[i]
                 /\ m_cur' > chunks'[k].data /\ m_cur' <= chunks'[k].limit
                 /\ k <= Len(chunks) =>
                      chunks'[k].limit - chunks'[k].data > chunks[k].limit - chunks[k].data]_arena_vars
=============================================================================
