---------------------------- MODULE ArenaProofs ----------------------------
(***************************************************************************)
(* Safety of the arena for every word size, chunk schedule, host placement *)
(* and sequence of calls.  The inductive invariant IInv adds to the        *)
(* properties what they rest on: chunks overlap nowhere, the cursor is in  *)
(* the current chunk, and every live block lies in a chunk up to the       *)
(* current one, below the cursor when it is in the current one.  The       *)
(* accounting needs IInv too: what is handed out is disjoint from what is  *)
(* live, hence new, and a block that ends at the cursor is cut whole.      *)
(***************************************************************************)
EXTENDS Arena, InductionLemmas

\* What std::vector::insert does to the list of chunks: the element is at i, those
\* before it stay, those from i on move back by one.
LEMMA InsertAtFacts ==
    ASSUME NEW S, NEW s \in Seq(S), NEW i \in 1 .. (Len(s) + 1), NEW e \in S
    PROVE  /\ InsertAt(s, i, e) \in Seq(S)
           /\ Len(InsertAt(s, i, e)) = Len(s) + 1
           /\ \A j \in 1 .. (Len(s) + 1) :
                InsertAt(s, i, e)[j] = IF j < i THEN s[j] ELSE IF j = i THEN e ELSE s[j - 1]
  <1> DEFINE lo == SubSeq(s, 1, i - 1)
             hi == SubSeq(s, i, Len(s))
  <1>1. lo \in Seq(S) /\ Len(lo) = i - 1 /\ \A j \in 1 .. (i - 1) : lo[j] = s[j]
    OBVIOUS
  <1>2. /\ hi \in Seq(S) /\ Len(hi) = Len(s) - i + 1
        /\ \A j \in 1 .. (Len(s) - i + 1) : hi[j] = s[j + i - 1]
    OBVIOUS
  <1> HIDE DEF lo, hi
  <1> DEFINE mid == lo \o <<e>>
  <1>3. /\ mid \in Seq(S) /\ Len(mid) = i
        /\ \A j \in 1 .. i : mid[j] = IF j < i THEN s[j] ELSE e
    BY <1>1
  <1> HIDE DEF mid
  <1>4. InsertAt(s, i, e) = mid \o hi
    BY DEF InsertAt, lo, hi, mid
  <1>5. mid \o hi \in Seq(S) /\ Len(mid \o hi) = Len(s) + 1
    BY <1>2, <1>3
  <1>6. ASSUME NEW j \in 1 .. (Len(s) + 1)
        PROVE  (mid \o hi)[j] = IF j < i THEN s[j] ELSE IF j = i THEN e ELSE s[j - 1]
    <2>1. j \in Int /\ i \in Int /\ (j <= i \/ j > i)
      OBVIOUS
    <2>2. CASE j <= i
      BY <1>2, <1>3, <2>2
    <2>3. CASE j > i
      <3>1. (mid \o hi)[j] = hi[j - i]
        BY <1>2, <1>3, <2>3
      <3>2. hi[j - i] = s[(j - i) + i - 1] /\ (j - i) + i - 1 = j - 1
        BY <1>2, <2>3
      <3> QED
        BY <2>3, <3>1, <3>2
    <2> QED
      BY <2>1, <2>2, <2>3
  <1> QED
    BY <1>4, <1>5, <1>6

\* align_up returns the next multiple of the alignment, less than one alignment away.
LEMMA AlignUpFacts ==
    ASSUME NEW p \in Nat, NEW a \in Nat, a >= 1
    PROVE  /\ AlignUp(p, a) \in Nat
           /\ p <= AlignUp(p, a)
           /\ AlignUp(p, a) <= p + a - 1
           /\ AlignUp(p, a) % a = 0
  <1> DEFINE q == (p + (a - 1)) \div a
             r == (p + (a - 1)) % a
  <1>1. q \in Nat /\ r \in 0 .. (a - 1) /\ p + (a - 1) = a * q + r
    OBVIOUS
  <1>2. (q * a) % a = 0
    BY <1>1
  <1> QED
    BY <1>1, <1>2 DEF AlignUp

\* Unsigned arithmetic that stays within std::size_t is exact.
LEMMA WrapIdentity ==
    ASSUME NEW n \in 0 .. SizeMax
    PROVE  Wrap(n) = n
  BY WordAssumption DEF Wrap

-----------------------------------------------------------------------------
(* The inductive invariant, as predicates of a chunk list cs, the index k  *)
(* of its current chunk, the cursor cur and the live blocks bs.            *)

\* The chunks are address ranges that do not overlap.
Separate(cs) ==
    /\ \A i \in DOMAIN cs : /\ 0 < cs[i].base
                            /\ cs[i].base <= cs[i].data
                            /\ cs[i].data <= cs[i].limit
    /\ \A i, j \in DOMAIN cs :
          i # j => ~Overlap(cs[i].base, cs[i].limit, cs[j].base, cs[j].limit)

\* The cursor is inside the current chunk, and strictly inside once the arena has
\* moved on from chunk 0: this is what keeps shrink_last from mistaking the end of
\* a block of an address-adjacent earlier chunk for the cursor.
CursorIn(cs, k, cur, limit) ==
    /\ k + 1 \in DOMAIN cs
    /\ limit = cs[k + 1].limit
    /\ cs[k + 1].data <= cur /\ cur <= limit
    /\ k > 0 => cs[k + 1].data < cur

\* Block b lies in chunk i, which is at or before the current one; in the current
\* chunk it ends at or below the cursor.
PlacedIn(b, i, cs, k, cur) ==
    /\ i \in DOMAIN cs /\ i <= k + 1
    /\ cs[i].data <= b.ptr /\ b.ptr + b.size <= cs[i].limit
    /\ i = k + 1 => b.ptr + b.size <= cur

\* Every block is non-empty, aligned and has a place.
Placed(bs, cs, k, cur) ==
    \A b \in bs : /\ b.size >= 1 /\ b.align >= 1 /\ b.ptr % b.align = 0
                  /\ \E i \in Nat : PlacedIn(b, i, cs, k, cur)

Disjoint(bs) ==
    \A a, b \in bs : a # b => ~Overlap(a.ptr, a.ptr + a.size, b.ptr, b.ptr + b.size)

\* Nothing is live in an arena without chunks.
EmptyArena == m_cur = 0 /\ m_limit = 0 /\ m_cursor = 0 /\ live = {}

IInv ==
    /\ TypeOK
    /\ Separate(chunks)
    /\ chunks = <<>> => EmptyArena
    /\ chunks # <<>> => CursorIn(chunks, m_cursor, m_cur, m_limit)
    /\ Placed(live, chunks, m_cursor, m_cur)
    /\ Disjoint(live)

-----------------------------------------------------------------------------
\* The fields of a Chunk are addresses.
LEMMA ChunkFields ==
    ASSUME NEW cs \in Seq(Chunk), NEW i \in DOMAIN cs
    PROVE  cs[i].base \in Nat /\ cs[i].data \in Nat /\ cs[i].limit \in Nat
  <1>1. cs[i] \in Chunk
    OBVIOUS
  <1> QED
    BY <1>1 DEF Chunk

\* The fields of a block are numbers.
LEMMA BlockFields ==
    ASSUME NEW b \in Block
    PROVE  b.ptr \in Nat /\ b.size \in Nat /\ b.align \in Nat
  BY DEF Block

\* Blocks of chunks that do not overlap do not overlap.
LEMMA BlocksOfSeparateChunks ==
    ASSUME NEW c \in Chunk, NEW d \in Chunk, NEW b \in Block, NEW nb \in Block,
           ~Overlap(c.base, c.limit, d.base, d.limit),
           c.base <= c.data, c.data <= b.ptr, b.ptr + b.size <= c.limit,
           d.base <= d.data, d.data <= nb.ptr, nb.ptr + nb.size <= d.limit
    PROVE  /\ ~Overlap(b.ptr, b.ptr + b.size, nb.ptr, nb.ptr + nb.size)
           /\ ~Overlap(nb.ptr, nb.ptr + nb.size, b.ptr, b.ptr + b.size)
  <1>1. /\ c.base \in Nat /\ c.data \in Nat /\ c.limit \in Nat
        /\ d.base \in Nat /\ d.data \in Nat /\ d.limit \in Nat
    BY DEF Chunk
  <1>2. b.ptr \in Nat /\ b.size \in Nat /\ nb.ptr \in Nat /\ nb.size \in Nat
    BY BlockFields
  <1>3. c.base <= b.ptr /\ d.base <= nb.ptr
    BY <1>1, <1>2
  <1>4. b.ptr + b.size \in Nat /\ nb.ptr + nb.size \in Nat
    BY <1>2
  <1> QED
    BY <1>1, <1>2, <1>3, <1>4 DEF Overlap

\* A block above everything in its own chunk shares no byte with a block of the
\* same or of another chunk.
LEMMA FreshBlockDisjoint ==
    ASSUME NEW cs \in Seq(Chunk), Separate(cs), NEW k \in Nat, k + 1 \in DOMAIN cs,
           NEW b \in Block, NEW nb \in Block, NEW i \in Nat,
           PlacedIn(b, i, cs, k, nb.ptr),
           cs[k + 1].data <= nb.ptr, nb.ptr + nb.size <= cs[k + 1].limit
    PROVE  /\ ~Overlap(b.ptr, b.ptr + b.size, nb.ptr, nb.ptr + nb.size)
           /\ ~Overlap(nb.ptr, nb.ptr + nb.size, b.ptr, b.ptr + b.size)
  <1>1. i \in DOMAIN cs
    BY DEF PlacedIn
  <1>2. cs[i] \in Chunk /\ cs[k + 1] \in Chunk
    BY <1>1
  <1>3. CASE i = k + 1
    <2>1. b.ptr + b.size <= nb.ptr
      BY <1>3 DEF PlacedIn
    <2>2. b.ptr \in Nat /\ b.size \in Nat /\ nb.ptr \in Nat /\ nb.size \in Nat
      BY BlockFields
    <2> QED
      BY <2>1, <2>2 DEF Overlap
  <1>4. CASE i # k + 1
    <2>1. ~Overlap(cs[i].base, cs[i].limit, cs[k + 1].base, cs[k + 1].limit)
      BY <1>1, <1>4 DEF Separate
    <2>2. cs[i].base <= cs[i].data /\ cs[k + 1].base <= cs[k + 1].data
      BY <1>1 DEF Separate
    <2>3. cs[i].data <= b.ptr /\ b.ptr + b.size <= cs[i].limit
      BY DEF PlacedIn
    <2> QED
      BY <1>2, <2>1, <2>2, <2>3, BlocksOfSeparateChunks
  <1> QED
    BY <1>3, <1>4

\* Blocks stay placed when the cursor of the current chunk rises.
LEMMA RaiseCursor ==
    ASSUME NEW bs \in SUBSET Block, NEW cs \in Seq(Chunk), NEW k \in Nat,
           NEW cur \in Nat, NEW up \in Nat, cur <= up, Placed(bs, cs, k, cur)
    PROVE  Placed(bs, cs, k, up)
  <1> SUFFICES ASSUME NEW b \in bs
               PROVE  /\ b.size >= 1 /\ b.align >= 1 /\ b.ptr % b.align = 0
                      /\ \E i \in Nat : PlacedIn(b, i, cs, k, up)
    BY DEF Placed
  <1>1. /\ b.size >= 1 /\ b.align >= 1 /\ b.ptr % b.align = 0
        /\ \E i \in Nat : PlacedIn(b, i, cs, k, cur)
    BY DEF Placed
  <1>2. PICK i \in Nat : PlacedIn(b, i, cs, k, cur)
    BY <1>1
  <1>3. b.ptr \in Nat /\ b.size \in Nat
    BY BlockFields
  <1>4. PlacedIn(b, i, cs, k, up)
    BY <1>2, <1>3 DEF PlacedIn
  <1> QED
    BY <1>1, <1>4

\* Blocks stay placed when a later chunk becomes the current one: none is in it.
LEMMA AdvanceChunk ==
    ASSUME NEW bs \in SUBSET Block, NEW cs \in Seq(Chunk), NEW k \in Nat,
           NEW cur \in Nat, NEW any \in Nat, Placed(bs, cs, k, cur)
    PROVE  Placed(bs, cs, k + 1, any)
  <1> SUFFICES ASSUME NEW b \in bs
               PROVE  /\ b.size >= 1 /\ b.align >= 1 /\ b.ptr % b.align = 0
                      /\ \E i \in Nat : PlacedIn(b, i, cs, k + 1, any)
    BY DEF Placed
  <1>1. /\ b.size >= 1 /\ b.align >= 1 /\ b.ptr % b.align = 0
        /\ \E i \in Nat : PlacedIn(b, i, cs, k, cur)
    BY DEF Placed
  <1>2. PICK i \in Nat : PlacedIn(b, i, cs, k, cur)
    BY <1>1
  <1>3. PlacedIn(b, i, cs, k + 1, any)
    BY <1>2 DEF PlacedIn
  <1> QED
    BY <1>1, <1>3

\* The chunk list after an insertion at n.
LEMMA InsertChunk ==
    ASSUME NEW cs \in Seq(Chunk), NEW n \in 1 .. (Len(cs) + 1), NEW c \in Chunk
    PROVE  /\ InsertAt(cs, n, c) \in Seq(Chunk)
           /\ Len(InsertAt(cs, n, c)) = Len(cs) + 1
           /\ DOMAIN InsertAt(cs, n, c) = 1 .. (Len(cs) + 1)
           /\ InsertAt(cs, n, c)[n] = c
           /\ \A j \in 1 .. (Len(cs) + 1) : j < n => InsertAt(cs, n, c)[j] = cs[j]
           /\ \A j \in 1 .. (Len(cs) + 1) : j > n => InsertAt(cs, n, c)[j] = cs[j - 1]
  <1> DEFINE new == InsertAt(cs, n, c)
  <1>1. /\ new \in Seq(Chunk)
        /\ Len(new) = Len(cs) + 1
        /\ \A j \in 1 .. (Len(cs) + 1) :
             new[j] = IF j < n THEN cs[j] ELSE IF j = n THEN c ELSE cs[j - 1]
    BY InsertAtFacts
  <1> HIDE DEF new
  <1>2. DOMAIN new = 1 .. (Len(cs) + 1)
    BY <1>1
  <1> QED
    BY <1>1, <1>2 DEF new

\* Inserting a chunk that overlaps no other keeps the list separate.
LEMMA InsertSeparate ==
    ASSUME NEW cs \in Seq(Chunk), Separate(cs), NEW n \in 1 .. (Len(cs) + 1),
           NEW c \in Chunk, 0 < c.base, c.base <= c.data, c.data <= c.limit,
           \A j \in DOMAIN cs : ~Overlap(c.base, c.limit, cs[j].base, cs[j].limit)
    PROVE  Separate(InsertAt(cs, n, c))
  <1> DEFINE new == InsertAt(cs, n, c)
             old(j) == IF j < n THEN j ELSE j - 1
  <1>1. /\ DOMAIN new = 1 .. (Len(cs) + 1)
        /\ new[n] = c
        /\ \A j \in DOMAIN new : j # n => old(j) \in DOMAIN cs /\ new[j] = cs[old(j)]
    <2>1. /\ DOMAIN new = 1 .. (Len(cs) + 1) /\ new[n] = c
          /\ \A j \in 1 .. (Len(cs) + 1) : j < n => new[j] = cs[j]
          /\ \A j \in 1 .. (Len(cs) + 1) : j > n => new[j] = cs[j - 1]
      BY InsertChunk
    <2> HIDE DEF new
    <2>2. ASSUME NEW j \in DOMAIN new, j # n
          PROVE  old(j) \in DOMAIN cs /\ new[j] = cs[old(j)]
      BY <2>1, <2>2
    <2> QED
      BY <2>1, <2>2
  <1>2. \A i, j \in DOMAIN new : i # n /\ j # n /\ i # j => old(i) # old(j)
    BY <1>1
  <1> HIDE DEF new, old
  <1>3. ASSUME NEW j \in DOMAIN new
        PROVE  0 < new[j].base /\ new[j].base <= new[j].data /\ new[j].data <= new[j].limit
    <2>1. CASE j = n
      BY <1>1, <2>1
    <2>2. CASE j # n
      BY <1>1, <2>2 DEF Separate
    <2> QED
      BY <2>1, <2>2
  <1>4. \A j \in DOMAIN cs : ~Overlap(cs[j].base, cs[j].limit, c.base, c.limit)
    BY DEF Overlap
  <1>5. ASSUME NEW i \in DOMAIN new, NEW j \in DOMAIN new, i # j
        PROVE  ~Overlap(new[i].base, new[i].limit, new[j].base, new[j].limit)
    <2>1. CASE i = n
      BY <1>1, <1>5, <2>1
    <2>2. CASE j = n
      BY <1>1, <1>4, <1>5, <2>2
    <2>3. CASE i # n /\ j # n
      BY <1>1, <1>2, <1>5, <2>3 DEF Separate
    <2> QED
      BY <2>1, <2>2, <2>3
  <1> QED
    BY <1>3, <1>5 DEF Separate, new

\* Blocks stay placed when a chunk is inserted behind the current one and becomes
\* the current one.
LEMMA InsertPlaced ==
    ASSUME NEW bs \in SUBSET Block, NEW cs \in Seq(Chunk), NEW k \in Nat, NEW c \in Chunk,
           k + 1 \in DOMAIN cs, NEW cur \in Nat, NEW any \in Nat, Placed(bs, cs, k, cur)
    PROVE  Placed(bs, InsertAt(cs, k + 2, c), k + 1, any)
  <1> DEFINE new == InsertAt(cs, k + 2, c)
  <1>1. /\ DOMAIN new = 1 .. (Len(cs) + 1)
        /\ \A j \in 1 .. (k + 1) : new[j] = cs[j]
    <2>1. k + 2 \in 1 .. (Len(cs) + 1)
      OBVIOUS
    <2>2. /\ DOMAIN new = 1 .. (Len(cs) + 1)
          /\ \A j \in 1 .. (Len(cs) + 1) : j < k + 2 => new[j] = cs[j]
      BY <2>1, InsertChunk
    <2> HIDE DEF new
    <2> QED
      BY <2>1, <2>2
  <1> HIDE DEF new
  <1>2. ASSUME NEW b \in bs
        PROVE  /\ b.size >= 1 /\ b.align >= 1 /\ b.ptr % b.align = 0
               /\ \E i \in Nat : PlacedIn(b, i, new, k + 1, any)
    <2>1. /\ b.size >= 1 /\ b.align >= 1 /\ b.ptr % b.align = 0
          /\ \E i \in Nat : PlacedIn(b, i, cs, k, cur)
      BY DEF Placed
    <2>2. PICK i \in Nat : PlacedIn(b, i, cs, k, cur)
      BY <2>1
    <2>3. i \in 1 .. (k + 1) /\ i \in DOMAIN new /\ new[i] = cs[i]
      BY <1>1, <2>2 DEF PlacedIn
    <2>4. PlacedIn(b, i, new, k + 1, any)
      BY <2>2, <2>3 DEF PlacedIn
    <2> QED
      BY <2>1, <2>4
  <1> QED
    BY <1>2 DEF Placed, new

NewBlock(p, bytes, align) == [ptr |-> p, size |-> bytes, align |-> align]

\* A step that hands out one new block, of so many bytes.
HandsOut(bytes) ==
    \E b \in Block : /\ b \notin live /\ b.size = bytes
                     /\ live' = live \cup {b} /\ m_used' = m_used + bytes

\* Any way of placing a new block: the old blocks keep a place below it, and it
\* lies in the current chunk.
LEMMA PlacingABlock ==
    ASSUME NEW bs \in SUBSET Block, Disjoint(bs),
           NEW cs \in Seq(Chunk), Separate(cs), NEW k \in Nat, k + 1 \in DOMAIN cs,
           NEW p \in Nat, NEW bytes \in Nat, NEW align \in Nat,
           bytes >= 1, align >= 1, p % align = 0,
           Placed(bs, cs, k, p),
           cs[k + 1].data <= p, p + bytes <= cs[k + 1].limit
    PROVE  LET new == bs \cup {NewBlock(p, bytes, align)}
           IN  /\ new \subseteq Block /\ Placed(new, cs, k, p + bytes) /\ Disjoint(new)
               /\ NewBlock(p, bytes, align) \notin bs
  <1> DEFINE nb == NewBlock(p, bytes, align)
  <1>1. nb \in Block /\ nb.ptr = p /\ nb.size = bytes /\ nb.align = align
    BY DEF NewBlock, Block
  <1> HIDE DEF nb
  <1>2. bs \cup {nb} \subseteq Block
    BY <1>1
  <1>3. PlacedIn(nb, k + 1, cs, k, p + bytes)
    BY <1>1 DEF PlacedIn
  <1>4. ASSUME NEW b \in bs
        PROVE  \E i \in Nat : PlacedIn(b, i, cs, k, p + bytes)
    <2>1. PICK i \in Nat : PlacedIn(b, i, cs, k, p)
      BY DEF Placed
    <2>2. b.ptr \in Nat /\ b.size \in Nat
      BY BlockFields
    <2>3. PlacedIn(b, i, cs, k, p + bytes)
      BY <2>1, <2>2 DEF PlacedIn
    <2> QED
      BY <2>3
  <1>5. Placed(bs \cup {nb}, cs, k, p + bytes)
    <2> SUFFICES ASSUME NEW b \in bs \cup {nb}
                 PROVE  /\ b.size >= 1 /\ b.align >= 1 /\ b.ptr % b.align = 0
                        /\ \E i \in Nat : PlacedIn(b, i, cs, k, p + bytes)
      BY DEF Placed
    <2>1. CASE b = nb
      BY <1>1, <1>3, <2>1
    <2>2. CASE b \in bs
      BY <1>4, <2>2 DEF Placed
    <2> QED
      BY <2>1, <2>2
  <1>6. ASSUME NEW b \in bs
        PROVE  /\ ~Overlap(b.ptr, b.ptr + b.size, nb.ptr, nb.ptr + nb.size)
               /\ ~Overlap(nb.ptr, nb.ptr + nb.size, b.ptr, b.ptr + b.size)
    <2>1. PICK i \in Nat : PlacedIn(b, i, cs, k, nb.ptr)
      BY <1>1 DEF Placed
    <2>2. b \in Block /\ cs[k + 1].data <= nb.ptr /\ nb.ptr + nb.size <= cs[k + 1].limit
      BY <1>1
    <2> QED
      BY <1>1, <2>1, <2>2, FreshBlockDisjoint
  <1>7. Disjoint(bs \cup {nb})
    BY <1>6 DEF Disjoint
  <1>8. nb \notin bs
    BY <1>1, <1>6 DEF Overlap
  <1> QED
    BY <1>2, <1>5, <1>7, <1>8 DEF nb

-----------------------------------------------------------------------------
(* Each step preserves the invariant                                       *)

\* allocate() out of the current chunk.
LEMMA InCurrentStep ==
    ASSUME IInv, NEW bytes \in Nat, NEW align \in Nat, bytes >= 1, align >= 1,
           AllocInCurrent(bytes, align, bytes)
    PROVE  IInv' /\ HandsOut(bytes)
  <1> DEFINE p == AlignUp(m_cur, align)
  <1>1. /\ m_cur' = p + bytes /\ m_limit' = m_limit /\ m_used' = m_used + bytes
        /\ live' = live \cup {NewBlock(p, bytes, align)}
        /\ UNCHANGED <<chunks, m_cursor, m_reserved, m_next_chunk, m_cap>>
    BY DEF AllocInCurrent, Bump, NewBlock
  <1>2. m_cur # 0 /\ p <= m_limit /\ bytes <= m_limit - p
    BY DEF AllocInCurrent, Overflows, RoomFor
  <1>3. TypeOK /\ Separate(chunks) /\ Placed(live, chunks, m_cursor, m_cur) /\ Disjoint(live)
    BY DEF IInv
  <1>4. m_cur \in Nat /\ m_limit \in Nat /\ m_cursor \in Nat
    BY <1>3 DEF TypeOK
  <1>5. p \in Nat /\ m_cur <= p /\ p % align = 0
    BY <1>4, AlignUpFacts
  <1> HIDE DEF p
  <1>6. chunks # <<>> /\ CursorIn(chunks, m_cursor, m_cur, m_limit)
    BY <1>2 DEF IInv, EmptyArena
  <1> DEFINE c == chunks[m_cursor + 1]
  <1>7. /\ m_cursor + 1 \in DOMAIN chunks /\ m_limit = c.limit /\ c.data <= m_cur
        /\ c.data \in Nat /\ c.limit \in Nat
    BY <1>3, <1>6, ChunkFields DEF CursorIn, TypeOK
  <1> HIDE DEF c
  <1>8. Placed(live, chunks, m_cursor, p)
    BY <1>3, <1>4, <1>5, RaiseCursor DEF TypeOK
  <1>9. c.data <= p /\ p + bytes <= c.limit
    BY <1>2, <1>4, <1>5, <1>7
  <1>f. NewBlock(p, bytes, align) \notin live
    BY <1>1, <1>3, <1>4, <1>5, <1>7, <1>8, <1>9, PlacingABlock DEF TypeOK, c
  <1>10. live' \subseteq Block /\ Placed(live', chunks, m_cursor, p + bytes) /\ Disjoint(live')
    BY <1>1, <1>3, <1>4, <1>5, <1>7, <1>8, <1>9, PlacingABlock DEF TypeOK, c
  <1>11. CursorIn(chunks, m_cursor, p + bytes, m_limit)
    BY <1>4, <1>5, <1>7, <1>9 DEF CursorIn, c
  <1>12. TypeOK'
    BY <1>1, <1>3, <1>4, <1>5, <1>10 DEF TypeOK
  <1>h. HandsOut(bytes)
    BY <1>f, <1>1, <1>5 DEF HandsOut, NewBlock, Block
  <1>i. IInv'
    BY <1>1, <1>3, <1>6, <1>10, <1>11, <1>12 DEF IInv
  <1> QED
    BY <1>h, <1>i

\* allocate_slow() moving on to the next kept chunk.
LEMMA InNextStep ==
    ASSUME IInv, NEW bytes \in Nat, NEW align \in Nat, bytes >= 1, align >= 1,
           AllocInNext(bytes, align, bytes)
    PROVE  IInv' /\ HandsOut(bytes)
  <1> DEFINE c == chunks[m_cursor + 2]
             p == AlignUp(c.data, align)
  <1>0. TypeOK /\ Separate(chunks) /\ Placed(live, chunks, m_cursor, m_cur) /\ Disjoint(live)
    BY DEF IInv
  <1>1. m_cur \in Nat /\ m_limit \in Nat /\ m_cursor \in Nat /\ chunks \in Seq(Chunk)
    BY <1>0 DEF TypeOK
  <1>2. m_cursor + 1 < Len(chunks) /\ fits(c, bytes, align)
    BY <1>1 DEF AllocInNext, NextChunkFits, chunk, chunk_count
  <1>3. m_cursor + 2 \in DOMAIN chunks /\ c \in Chunk
    BY <1>1, <1>2
  <1>4. /\ m_cur' = p + bytes /\ m_limit' = c.limit /\ m_used' = m_used + bytes
        /\ m_cursor' = m_cursor + 1
        /\ live' = live \cup {NewBlock(p, bytes, align)}
        /\ UNCHANGED <<chunks, m_reserved, m_next_chunk, m_cap>>
    BY <1>1 DEF AllocInNext, Bump, NewBlock, chunk
  <1>5. p <= c.limit /\ bytes <= c.limit - p
    BY <1>2 DEF fits, RoomFor
  <1>6. c.data \in Nat /\ c.limit \in Nat
    BY <1>3 DEF Chunk
  <1>7. p \in Nat /\ c.data <= p /\ p % align = 0
    BY <1>6, AlignUpFacts
  <1> HIDE DEF p
  <1>8. Placed(live, chunks, m_cursor + 1, p)
    BY <1>0, <1>1, <1>7, AdvanceChunk DEF TypeOK
  <1>9. (m_cursor + 1) + 1 = m_cursor + 2 /\ m_cursor + 1 \in Nat
    BY <1>1
  <1>10. p + bytes <= c.limit
    BY <1>5, <1>6, <1>7
  <1>f. NewBlock(p, bytes, align) \notin live
    BY <1>0, <1>1, <1>3, <1>4, <1>7, <1>8, <1>9, <1>10, PlacingABlock DEF TypeOK
  <1>11. /\ live' \subseteq Block /\ Placed(live', chunks, m_cursor + 1, p + bytes)
         /\ Disjoint(live')
    BY <1>0, <1>1, <1>3, <1>4, <1>7, <1>8, <1>9, <1>10, PlacingABlock DEF TypeOK
  <1>12. CursorIn(chunks, m_cursor + 1, p + bytes, c.limit)
    BY <1>1, <1>3, <1>6, <1>7, <1>9, <1>10 DEF CursorIn
  <1>13. TypeOK'
    <2>1. m_cur' \in Nat /\ m_limit' \in Nat /\ m_cursor' \in Nat
      BY <1>4, <1>6, <1>7, <1>9
    <2>2. /\ m_used' \in Int
          /\ UNCHANGED <<chunks, m_reserved, m_next_chunk, m_cap>>
      BY <1>0, <1>4 DEF TypeOK
    <2> QED
      BY <1>0, <1>11, <2>1, <2>2 DEF TypeOK
  <1>h. HandsOut(bytes)
    BY <1>f, <1>4, <1>7 DEF HandsOut, NewBlock, Block
  <1>i. IInv'
    BY <1>0, <1>3, <1>4, <1>11, <1>12, <1>13 DEF IInv
  <1> QED
    BY <1>h, <1>i

\* The memory grow() asks for holds the aligned request wherever the host puts it.
LEMMA GrowRoom ==
    ASSUME TypeOK, NEW bytes \in Nat, NEW align \in Nat, bytes >= 1, align >= 1,
           MayGrow(bytes, align), NEW base \in Nat
    PROVE  LET raw == GrowRaw(Wrap(bytes + align))
               c == NewChunk(base, raw)
               p == AlignUp(c.data, align)
           IN  /\ c \in Chunk /\ c.base = base /\ c.limit = base + raw
               /\ base <= c.data /\ c.data <= c.limit
               /\ p \in Nat /\ c.data <= p /\ p % align = 0 /\ p + bytes <= c.limit
               /\ c.limit - c.data > bytes + align
  <1> DEFINE cap == GrowCap(bytes + align)
             data == AlignUp(base, kMaxAlign)
             p == AlignUp(data, align)
  <1>1. bytes + align \in 0 .. SizeMax
    BY WordAssumption DEF MayGrow
  <1>2. Wrap(bytes + align) = bytes + align
    BY <1>1, WrapIdentity
  <1>3. cap \in Nat /\ bytes + align <= cap
    BY WordAssumption DEF GrowCap, TypeOK
  <1>4. ~(cap > PtrdiffMax - kMaxAlign)
    BY <1>2 DEF MayGrow, GrowAllowed
  <1>5. PtrdiffMax \in Nat /\ PtrdiffMax <= SizeMax /\ kMaxAlign \in Nat /\ kMaxAlign >= 1
    BY WordAssumption DEF PtrdiffMax
  <1> HIDE DEF cap
  <1>6. cap + kMaxAlign \in 0 .. SizeMax
    BY <1>3, <1>4, <1>5, WordAssumption
  <1>7. GrowRaw(Wrap(bytes + align)) = cap + kMaxAlign
    BY <1>2, <1>6, WrapIdentity DEF GrowRaw, cap
  <1>8. data \in Nat /\ base <= data /\ data <= base + kMaxAlign - 1
    BY <1>5, AlignUpFacts
  <1> HIDE DEF data
  <1>9. p \in Nat /\ data <= p /\ p <= data + align - 1 /\ p % align = 0
    BY <1>8, AlignUpFacts
  <1> HIDE DEF p
  <1> DEFINE c == NewChunk(base, cap + kMaxAlign)
  <1>10. /\ c.base = base /\ c.data = data /\ c.limit = base + (cap + kMaxAlign)
         /\ c = [base |-> base, data |-> data, limit |-> base + (cap + kMaxAlign)]
    BY DEF NewChunk, data
  <1>11. c \in Chunk
    BY <1>3, <1>5, <1>8, <1>10 DEF Chunk
  <1> HIDE DEF c
  <1>12. /\ data <= base + (cap + kMaxAlign) /\ p + bytes <= base + (cap + kMaxAlign)
         /\ base + (cap + kMaxAlign) - data > bytes + align
    BY <1>3, <1>5, <1>8, <1>9
  <1>13. c.limit - c.data > bytes + align
    BY <1>3, <1>5, <1>8, <1>10, <1>12
  <1> QED
    BY <1>7, <1>8, <1>9, <1>10, <1>11, <1>12, <1>13 DEF c, p

\* allocate_slow() after grow(): the new chunk overlaps none and becomes current.
LEMMA GrowStep ==
    ASSUME IInv, NEW bytes \in Nat, NEW align \in Nat, bytes >= 1, align >= 1,
           AllocByGrowing(bytes, align, bytes)
    PROVE  IInv' /\ HandsOut(bytes)
  <1> DEFINE raw == GrowRaw(Wrap(bytes + align))
  <1>0. TypeOK /\ Separate(chunks) /\ Placed(live, chunks, m_cursor, m_cur) /\ Disjoint(live)
    BY DEF IInv
  <1>1. m_cur \in Nat /\ m_cursor \in Nat /\ chunks \in Seq(Chunk) /\ live \in SUBSET Block
    BY <1>0 DEF TypeOK
  <1>2. MayGrow(bytes, align) /\ m_next_chunk' = NextChunkSize /\ m_cap' = m_cap
    BY DEF AllocByGrowing
  <1>3. PICK base \in HostBases(raw) :
          LET c == NewChunk(base, raw)
          IN  /\ chunks' = InsertAt(chunks, GrowIndex + 1, c)
              /\ m_cursor' = GrowIndex
              /\ m_reserved' = m_reserved + (c.limit - c.data)
              /\ Bump(c.data, c.limit, bytes, align, bytes)
    BY DEF AllocByGrowing, WithChunk, ReservedBy
  <1> DEFINE c == NewChunk(base, raw)
             p == AlignUp(c.data, align)
  <1>4. /\ base \in Nat /\ 0 < base
        /\ \A i \in DOMAIN chunks : ~Overlap(base, base + raw, chunks[i].base, chunks[i].limit)
    BY HostAssumption, WordAssumption DEF HostBases
  <1>5. /\ c \in Chunk /\ c.base = base /\ c.limit = base + raw
        /\ base <= c.data /\ c.data <= c.limit
        /\ p \in Nat /\ c.data <= p /\ p % align = 0 /\ p + bytes <= c.limit
    BY <1>0, <1>2, <1>4, GrowRoom
  <1>6. /\ chunks' = InsertAt(chunks, GrowIndex + 1, c)
        /\ m_cursor' = GrowIndex /\ m_reserved' = m_reserved + (c.limit - c.data)
        /\ m_cur' = p + bytes /\ m_limit' = c.limit /\ m_used' = m_used + bytes
        /\ live' = live \cup {NewBlock(p, bytes, align)}
    BY <1>3 DEF Bump, NewBlock
  <1> HIDE DEF c, p
  <1>7. GrowIndex \in Nat /\ GrowIndex + 1 \in 1 .. (Len(chunks) + 1)
    BY <1>1 DEF GrowIndex, IInv, CursorIn
  <1>8. /\ chunks' \in Seq(Chunk) /\ Len(chunks') = Len(chunks) + 1
        /\ GrowIndex + 1 \in DOMAIN chunks' /\ (chunks')[GrowIndex + 1] = c
    <2> DEFINE g == GrowIndex + 1
    <2>1. g \in 1 .. (Len(chunks) + 1) /\ c \in Chunk /\ chunks \in Seq(Chunk)
      BY <1>1, <1>5, <1>7
    <2>2. chunks' = InsertAt(chunks, g, c)
      BY <1>6
    <2> HIDE DEF g
    <2>3. /\ InsertAt(chunks, g, c) \in Seq(Chunk)
          /\ Len(InsertAt(chunks, g, c)) = Len(chunks) + 1
          /\ DOMAIN InsertAt(chunks, g, c) = 1 .. (Len(chunks) + 1)
          /\ InsertAt(chunks, g, c)[g] = c
      BY <2>1, InsertChunk, ZenonT(60)
    <2>4. /\ chunks' \in Seq(Chunk) /\ Len(chunks') = Len(chunks) + 1
          /\ g \in DOMAIN chunks' /\ (chunks')[g] = c
      BY <2>1, <2>2, <2>3
    <2> QED
      BY <2>4 DEF g
  <1>9. c.data \in Nat /\ c.limit \in Nat
    BY <1>5 DEF Chunk
  <1>10. Separate(chunks')
    BY <1>0, <1>1, <1>4, <1>5, <1>6, <1>7, InsertSeparate
  <1>11. Placed(live, chunks', GrowIndex, p)
    <2>1. CASE chunks = <<>>
      BY <2>1 DEF IInv, EmptyArena, Placed
    <2>2. CASE chunks # <<>>
      <3>1. GrowIndex = m_cursor + 1 /\ GrowIndex + 1 = m_cursor + 2
        BY <1>1, <2>2 DEF GrowIndex
      <3>2. m_cursor + 1 \in DOMAIN chunks
        BY <2>2 DEF IInv, CursorIn
      <3> QED
        BY <1>0, <1>1, <1>5, <1>6, <3>1, <3>2, InsertPlaced
    <2> QED
      BY <2>1, <2>2
  <1>f. NewBlock(p, bytes, align) \notin live
    BY <1>0, <1>1, <1>5, <1>6, <1>7, <1>8, <1>10, <1>11, PlacingABlock
  <1>12. /\ live' \subseteq Block /\ Placed(live', chunks', GrowIndex, p + bytes)
         /\ Disjoint(live')
    BY <1>0, <1>1, <1>5, <1>6, <1>7, <1>8, <1>10, <1>11, PlacingABlock
  <1>13. CursorIn(chunks', GrowIndex, p + bytes, c.limit)
    BY <1>5, <1>7, <1>8, <1>9 DEF CursorIn
  <1>14. m_next_chunk' \in kDefaultChunk .. kMaxChunk
    <2>1. /\ m_next_chunk \in Nat /\ kDefaultChunk <= m_next_chunk /\ m_next_chunk <= kMaxChunk
          /\ kMaxChunk \in Nat /\ kDefaultChunk \in Nat
      BY <1>0, WordAssumption DEF TypeOK
    <2>2. Wrap(2 * m_next_chunk) = 2 * m_next_chunk
      BY <2>1, WordAssumption, WrapIdentity
    <2> QED
      BY <1>2, <2>1, <2>2 DEF NextChunkSize
  <1>15. TypeOK'
    <2>1. m_cur' \in Nat /\ m_limit' \in Nat /\ m_cursor' \in Nat
      BY <1>5, <1>6, <1>7, <1>9
    <2>2. m_used' \in Int /\ m_reserved' \in Nat /\ m_cap' \in 0 .. SizeMax
      BY <1>0, <1>2, <1>5, <1>6, <1>9 DEF TypeOK
    <2> QED
      BY <1>8, <1>12, <1>14, <2>1, <2>2 DEF TypeOK
  <1>16. chunks' # <<>>
    BY <1>1, <1>8
  <1>h. HandsOut(bytes)
    BY <1>f, <1>5, <1>6 DEF HandsOut, NewBlock, Block
  <1>i. IInv'
    BY <1>6, <1>10, <1>12, <1>13, <1>15, <1>16 DEF IInv
  <1> QED
    BY <1>h, <1>i

\* No part of a block of chunk c ends strictly above the start of a chunk d
\* that overlaps c nowhere.
LEMMA NoEndInAnotherChunk ==
    ASSUME NEW c \in Chunk, NEW d \in Chunk, NEW b \in Block, NEW old \in 1 .. b.size,
           NEW cur \in Nat, b.ptr + old = cur,
           ~Overlap(c.base, c.limit, d.base, d.limit),
           c.base <= c.data, c.data <= b.ptr, b.ptr + b.size <= c.limit,
           d.base <= d.data, d.data < cur, cur <= d.limit
    PROVE  FALSE
  <1>1. /\ c.base \in Nat /\ c.data \in Nat /\ c.limit \in Nat
        /\ d.base \in Nat /\ d.data \in Nat /\ d.limit \in Nat
    BY DEF Chunk
  <1>2. b.ptr \in Nat /\ b.size \in Nat
    BY BlockFields
  <1> QED
    BY <1>1, <1>2 DEF Overlap

\* A live block that ends at the cursor is in the current chunk, even when the
\* host has placed another chunk right before or behind it.
LEMMA EndsAtCursor ==
    ASSUME NEW cs \in Seq(Chunk), Separate(cs), NEW k \in Nat, NEW cur \in Nat, NEW limit \in Nat,
           CursorIn(cs, k, cur, limit), NEW b \in Block, NEW old \in 1 .. b.size,
           b.ptr + old = cur, NEW i \in Nat, PlacedIn(b, i, cs, k, cur)
    PROVE  i = k + 1 /\ old = b.size
  <1>0. b.ptr \in Nat /\ b.size \in Nat /\ old \in Nat
    BY BlockFields
  <1>a. CASE i = k + 1
    BY <1>0, <1>a DEF PlacedIn
  <1> SUFFICES ASSUME i # k + 1 PROVE FALSE
    BY <1>a
  <1>1. /\ i \in DOMAIN cs /\ k + 1 \in DOMAIN cs /\ k > 0
        /\ cs[k + 1].data < cur /\ cur <= cs[k + 1].limit
        /\ cs[i].data <= b.ptr /\ b.ptr + b.size <= cs[i].limit
    BY DEF PlacedIn, CursorIn
  <1>3. cs[i].base <= cs[i].data /\ cs[k + 1].base <= cs[k + 1].data
    BY <1>1 DEF Separate
  <1>4. ~Overlap(cs[i].base, cs[i].limit, cs[k + 1].base, cs[k + 1].limit)
    BY <1>1 DEF Separate
  <1>6. cs[i] \in Chunk /\ cs[k + 1] \in Chunk
    BY <1>1
  <1> QED
    BY <1>1, <1>3, <1>4, <1>6, NoEndInAnotherChunk

\* shrink_last(): only the block below the cursor is cut, and it stays placed.
LEMMA ShrinkStep ==
    ASSUME IInv, NEW b \in live, NEW old_bytes \in 1 .. b.size,
           NEW new_bytes \in 1 .. old_bytes, ShrinkLast(b, old_bytes, new_bytes)
    PROVE  /\ IInv'
           /\ ShrinkGuard(b, old_bytes) =>
                old_bytes = b.size /\ [b EXCEPT !.size = new_bytes] \notin live \ {b}
  <1> DEFINE s == [b EXCEPT !.size = new_bytes]
             cur == b.ptr + new_bytes
  <1>0. /\ TypeOK /\ Separate(chunks) /\ Placed(live, chunks, m_cursor, m_cur) /\ Disjoint(live)
        /\ chunks = <<>> => EmptyArena
        /\ chunks # <<>> => CursorIn(chunks, m_cursor, m_cur, m_limit)
    BY DEF IInv
  <1>1. /\ m_cur \in Nat /\ m_limit \in Nat /\ m_cursor \in Nat /\ chunks \in Seq(Chunk)
        /\ live \in SUBSET Block /\ m_used \in Int
    BY <1>0 DEF TypeOK
  <1>2. UNCHANGED <<m_limit, chunks, m_cursor, m_reserved, m_next_chunk, m_cap>>
    BY DEF ShrinkLast
  <1>3. CASE ~ShrinkGuard(b, old_bytes)
    <2>1. UNCHANGED arena_vars
      BY <1>2, <1>3 DEF ShrinkLast, arena_vars, member_vars
    <2> QED
      BY <1>3, <2>1, <1>0 DEF IInv, TypeOK, EmptyArena, arena_vars, member_vars
  <1>4. CASE ShrinkGuard(b, old_bytes)
    <2>1. /\ m_cur' = cur /\ m_used' = m_used - (old_bytes - new_bytes)
          /\ live' = (live \ {b}) \cup {s}
      BY <1>4 DEF ShrinkLast
    <2>2. b \in Block /\ b.ptr \in Nat /\ b.size \in Nat /\ b.align \in Nat
      BY <1>1, BlockFields
    <2>3. s \in Block /\ s.ptr = b.ptr /\ s.size = new_bytes /\ s.align = b.align
      BY <2>2 DEF Block
    <2> HIDE DEF s
    <2>4. chunks # <<>> /\ CursorIn(chunks, m_cursor, m_cur, m_limit)
      BY <1>0 DEF EmptyArena
    <2>5. /\ b.size >= 1 /\ b.align >= 1 /\ b.ptr % b.align = 0
          /\ \E i \in Nat : PlacedIn(b, i, chunks, m_cursor, m_cur)
      BY <1>0 DEF Placed
    <2>6. PICK i \in Nat : PlacedIn(b, i, chunks, m_cursor, m_cur)
      BY <2>5
    <2>8. i = m_cursor + 1 /\ old_bytes = b.size
      <3>1. b.ptr + old_bytes = m_cur
        BY <1>4 DEF ShrinkGuard
      <3> QED
        BY <1>0, <1>1, <2>2, <2>4, <2>6, <3>1, EndsAtCursor
    <2>7. b.ptr + b.size = m_cur
      BY <1>4, <2>8 DEF ShrinkGuard
    <2>9. /\ i \in DOMAIN chunks /\ chunks[i].data \in Nat /\ chunks[i].limit \in Nat
          /\ chunks[i].data <= b.ptr /\ b.ptr + b.size <= chunks[i].limit
      BY <1>1, <2>6, ChunkFields DEF PlacedIn
    <2>10. cur \in Nat /\ b.ptr < cur /\ cur <= m_cur
      BY <2>2, <2>7
    <2>11. PlacedIn(s, i, chunks, m_cursor, cur)
      BY <1>1, <2>2, <2>3, <2>8, <2>9, <2>10 DEF PlacedIn
    <2>12. ASSUME NEW a \in live, a # b
           PROVE  /\ a.size >= 1 /\ a.align >= 1 /\ a.ptr % a.align = 0
                  /\ \E j \in Nat : PlacedIn(a, j, chunks, m_cursor, cur)
                  /\ ~Overlap(a.ptr, a.ptr + a.size, s.ptr, s.ptr + s.size)
                  /\ ~Overlap(s.ptr, s.ptr + s.size, a.ptr, a.ptr + a.size)
      <3>1. /\ a.size >= 1 /\ a.align >= 1 /\ a.ptr % a.align = 0
            /\ \E j \in Nat : PlacedIn(a, j, chunks, m_cursor, m_cur)
        BY <1>0 DEF Placed
      <3>2. PICK j \in Nat : PlacedIn(a, j, chunks, m_cursor, m_cur)
        BY <3>1
      <3>3. a.ptr \in Nat /\ a.size \in Nat
        BY <1>1, BlockFields
      <3>4. ~Overlap(a.ptr, a.ptr + a.size, b.ptr, b.ptr + b.size)
        BY <1>0, <2>12 DEF Disjoint
      <3>5. j = m_cursor + 1 => a.ptr + a.size <= m_cur
        BY <3>2 DEF PlacedIn
      <3>6. j = m_cursor + 1 => a.ptr + a.size <= cur
        BY <2>2, <2>7, <2>10, <3>1, <3>3, <3>4, <3>5 DEF Overlap
      <3>7. PlacedIn(a, j, chunks, m_cursor, cur)
        BY <3>2, <3>6 DEF PlacedIn
      <3>8. /\ ~Overlap(a.ptr, a.ptr + a.size, s.ptr, s.ptr + s.size)
            /\ ~Overlap(s.ptr, s.ptr + s.size, a.ptr, a.ptr + a.size)
        BY <2>2, <2>3, <3>3, <3>4 DEF Overlap
      <3> QED
        BY <3>1, <3>7, <3>8
    <2>13. Placed(live', chunks, m_cursor, cur)
      <3> SUFFICES ASSUME NEW a \in live'
                   PROVE  /\ a.size >= 1 /\ a.align >= 1 /\ a.ptr % a.align = 0
                          /\ \E j \in Nat : PlacedIn(a, j, chunks, m_cursor, cur)
        BY DEF Placed
      <3>1. CASE a = s
        BY <2>3, <2>5, <2>11, <3>1
      <3>2. CASE a \in live /\ a # b
        BY <2>12, <3>2
      <3> QED
        BY <2>1, <3>1, <3>2
    <2>14. Disjoint(live')
      <3> SUFFICES ASSUME NEW x \in live', NEW y \in live', x # y
                   PROVE  ~Overlap(x.ptr, x.ptr + x.size, y.ptr, y.ptr + y.size)
        BY DEF Disjoint
      <3>1. CASE x = s
        BY <2>1, <2>12, <3>1
      <3>2. CASE y = s
        BY <2>1, <2>12, <3>2
      <3>3. CASE x # s /\ y # s
        BY <1>0, <2>1, <3>3 DEF Disjoint
      <3> QED
        BY <3>1, <3>2, <3>3
    <2>15. CursorIn(chunks, m_cursor, cur, m_limit)
      BY <1>1, <2>2, <2>4, <2>8, <2>9, <2>10 DEF CursorIn
    <2>16. m_used' \in Int
      BY <1>1, <2>1, <2>2
    <2>17. TypeOK'
      BY <1>0, <1>1, <1>2, <2>1, <2>3, <2>10, <2>16 DEF TypeOK
    <2>18. s \notin live \ {b}
      BY <2>2, <2>3, <2>12 DEF Overlap
    <2>19. IInv'
      BY <1>0, <1>2, <2>1, <2>4, <2>13, <2>14, <2>15, <2>17 DEF IInv
    <2> QED
      BY <2>8, <2>18, <2>19 DEF s
  <1> QED
    BY <1>3, <1>4

\* reset(): no block is live, the cursor is at the start of chunk 0.
LEMMA ResetStep ==
    ASSUME IInv, Reset
    PROVE  IInv'
  <1>0. TypeOK /\ Separate(chunks) /\ chunks \in Seq(Chunk)
    BY DEF IInv, TypeOK
  <1>1. m_used' = 0 /\ m_cursor' = 0 /\ live' = {} /\ chunks' = chunks
    BY DEF Reset
  <1>2. Placed(live', chunks', m_cursor', m_cur') /\ Disjoint(live')
    BY <1>1 DEF Placed, Disjoint
  <1>3. CASE chunks = <<>>
    <2>1. m_cur' = 0 /\ m_limit' = 0
      BY <1>3 DEF Reset
    <2>2. TypeOK'
      BY <1>0, <1>1, <2>1 DEF TypeOK, Reset
    <2> QED
      BY <1>0, <1>1, <1>2, <1>3, <2>1, <2>2 DEF IInv, EmptyArena
  <1>4. CASE chunks # <<>>
    <2>1. m_cur' = chunks[1].data /\ m_limit' = chunks[1].limit
      BY <1>4 DEF Reset
    <2>2. 1 \in DOMAIN chunks
      BY <1>0, <1>4
    <2>3. chunks[1].data \in Nat /\ chunks[1].limit \in Nat /\ chunks[1].data <= chunks[1].limit
      BY <1>0, <2>2, ChunkFields DEF Separate
    <2>4. TypeOK'
      BY <1>0, <1>1, <2>1, <2>3 DEF TypeOK, Reset
    <2>5. CursorIn(chunks', m_cursor', m_cur', m_limit')
      BY <1>1, <2>1, <2>2, <2>3 DEF CursorIn
    <2> QED
      BY <1>0, <1>1, <1>2, <1>4, <2>4, <2>5 DEF IInv
  <1> QED
    BY <1>3, <1>4

\* allocate(), whichever way it goes.
LEMMA AllocateStep ==
    ASSUME IInv, NEW bytes \in Nat, NEW align \in Nat, bytes >= 1, align >= 1,
           Allocate(bytes, align, bytes)
    PROVE  IInv'
  <1>1. CASE AllocFails(bytes, align)
    BY <1>1 DEF AllocFails, IInv, TypeOK, EmptyArena, arena_vars, member_vars
  <1> QED
    BY <1>1, InCurrentStep, InNextStep, GrowStep DEF Allocate, AllocSucceeds

\* Every call preserves the invariant.  The byte size of an array is the true one:
\* allocate_array rejects a count whose product would wrap.
LEMMA NextStep ==
    ASSUME IInv, [ArenaNext]_arena_vars
    PROVE  IInv'
  <1>1. ASSUME NEW t \in Types, Create(t)
        PROVE  IInv'
    BY <1>1, AllocateStep, RequestAssumption, WordAssumption DEF Create
  <1>2. ASSUME NEW t \in Types, NEW n \in Counts, AllocateArray(n, t)
        PROVE  IInv'
    <2>1. CASE CountRejected(n, t)
      BY <1>2, <2>1 DEF AllocateArray, IInv, TypeOK, EmptyArena, arena_vars, member_vars
    <2>2. CASE ~CountRejected(n, t)
      <3>1. /\ n \in Nat /\ n >= 1 /\ n <= SizeMax \div t.size
            /\ t.size \in Nat /\ t.size >= 1 /\ t.align \in Nat /\ t.align >= 1
            /\ SizeMax \in Nat
        BY <2>2, RequestAssumption, WordAssumption DEF CountRejected
      <3>2. n * t.size \in 0 .. SizeMax /\ n * t.size >= 1
        <4>1. (SizeMax \div t.size) * t.size <= SizeMax
          BY <3>1
        <4>2. n * t.size <= (SizeMax \div t.size) * t.size
          BY <3>1
        <4>3. n * t.size \in Nat /\ n * t.size >= 1
          BY <3>1
        <4> QED
          BY <3>1, <4>1, <4>2, <4>3
      <3>3. Wrap(n * t.size) = n * t.size
        BY <3>2, WrapIdentity
      <3>4. Allocate(n * t.size, t.align, n * t.size)
        BY <1>2, <2>2, <3>3 DEF AllocateArray
      <3> QED
        BY <3>1, <3>2, <3>4, AllocateStep
    <2> QED
      BY <2>1, <2>2
  <1>3. ASSUME NEW cap \in Caps, SetCapacityLimit(cap)
        PROVE  IInv'
    BY <1>3, RequestAssumption DEF SetCapacityLimit, IInv, TypeOK, EmptyArena
  <1>4. CASE UNCHANGED arena_vars
    BY <1>4 DEF IInv, TypeOK, EmptyArena, arena_vars, member_vars
  <1>5. ASSUME NEW b \in live, NEW old_bytes \in ArraySizes(b), NEW new_bytes \in ArraySizes(b),
               ShrinkLast(b, old_bytes, new_bytes)
        PROVE  IInv'
    <2>1. b.size \in Nat
      BY BlockFields DEF IInv, TypeOK
    <2>2. old_bytes \in 1 .. b.size /\ new_bytes \in 1 .. b.size
      BY DEF ArraySizes
    <2>3. new_bytes \in 1 .. old_bytes
      BY <1>5, <2>1, <2>2 DEF ShrinkLast
    <2> QED
      BY <1>5, <2>2, <2>3, ShrinkStep
  <1> QED
    BY <1>1, <1>2, <1>3, <1>4, <1>5, ResetStep DEF ArenaNext

\* Both constructors establish the invariant.
LEMMA InitIInv == ArenaInit => IInv
  <1> SUFFICES ASSUME ArenaInit PROVE IInv
    OBVIOUS
  <1>1. PICK s \in Seeds : chunks = SeedChunks(s)
    BY DEF ArenaInit
  <1>2. s.base \in Nat /\ s.size \in Nat /\ kMaxAlign \in Nat /\ kMaxAlign >= 1
    BY SeedAssumption, WordAssumption
  <1>3. Placed(live, chunks, m_cursor, m_cur) /\ Disjoint(live)
    BY DEF ArenaInit, Placed, Disjoint
  <1>4. CASE chunks = <<>>
    BY <1>3, <1>4, WordAssumption DEF ArenaInit, IInv, TypeOK, EmptyArena, Separate
  <1>5. CASE chunks # <<>>
    <2> DEFINE data == AlignUp(s.base, kMaxAlign)
    <2>1. s.base # 0 /\ s.size > kMaxAlign /\ chunks = <<NewChunk(s.base, s.size)>>
      BY <1>1, <1>5 DEF SeedChunks
    <2>2. data \in Nat /\ s.base <= data /\ data <= s.base + kMaxAlign - 1
      BY <1>2, AlignUpFacts
    <2>3. chunks = <<[base |-> s.base, data |-> data, limit |-> s.base + s.size]>>
      BY <2>1 DEF NewChunk
    <2> HIDE DEF data
    <2>4. /\ chunks \in Seq(Chunk) /\ DOMAIN chunks = {1}
          /\ chunks[1].base = s.base /\ chunks[1].data = data /\ chunks[1].limit = s.base + s.size
      BY <1>2, <2>2, <2>3 DEF Chunk
    <2>5. Separate(chunks)
      BY <1>2, <2>1, <2>2, <2>4 DEF Separate
    <2>6. m_cur = data /\ m_limit = s.base + s.size /\ m_cursor = 0
      BY <1>5, <2>4 DEF ArenaInit
    <2>7. CursorIn(chunks, m_cursor, m_cur, m_limit)
      BY <1>2, <2>1, <2>2, <2>4, <2>6 DEF CursorIn
    <2>8. TypeOK
      BY <1>2, <1>5, <2>1, <2>2, <2>4, <2>6, WordAssumption DEF ArenaInit, TypeOK, ReservedBy
    <2> QED
      BY <1>3, <1>5, <2>5, <2>7, <2>8 DEF IInv
  <1> QED
    BY <1>4, <1>5

-----------------------------------------------------------------------------
\* The invariant behind the safety theorems below holds in every reachable state.
THEOREM InductiveInvariant == ArenaSpec => []IInv
  <1>1. IInv /\ [ArenaNext]_arena_vars => IInv'
    BY NextStep
  <1> QED
    BY <1>1, InitIInv, PTL DEF ArenaSpec

\* Type correctness of the arena's fields for every word size, chunk schedule and
\* sequence of calls.
THEOREM TypeCorrect == ArenaSpec => []TypeOK
  <1>1. IInv => TypeOK
    BY DEF IInv
  <1> QED
    BY <1>1, InductiveInvariant, PTL

\* Every block allocate() hands out has all its bytes inside one chunk and the
\* alignment of its type, whatever the count asked for and wherever the host
\* allocator places the chunks.
THEOREM AllocationsInBounds == ArenaSpec => []BlocksInBounds
  <1>1. IInv => BlocksInBounds
    BY DEF IInv, Placed, PlacedIn, BlocksInBounds, Within
  <1> QED
    BY <1>1, InductiveInvariant, PTL

\* Live blocks never share a byte: neither the reuse of kept chunks after reset()
\* nor the rewind of shrink_last() hands out memory that is in use.
THEOREM AllocationsDisjoint == ArenaSpec => []BlocksDisjoint
  <1>1. IInv => BlocksDisjoint
    BY DEF IInv, Disjoint, BlocksDisjoint
  <1> QED
    BY <1>1, InductiveInvariant, PTL


\* A grow() that goes through stays within the limit: the bytes a chunk adds to
\* m_reserved are no more than the raw size grow() compared with the room left.
LEMMA GrowWithinLimit ==
    ASSUME TypeOK, NEW bytes \in Nat, NEW align \in Nat, NEW size,
           AllocByGrowing(bytes, align, size)
    PROVE  m_reserved' <= m_cap
  <1> DEFINE raw == GrowRaw(Wrap(bytes + align))
  <1>1. m_reserved \in Nat /\ m_cap \in 0 .. SizeMax /\ SizeMax \in Nat /\ kMaxAlign \in Nat \ {0}
    BY WordAssumption DEF TypeOK
  <1>2. PICK base \in HostBases(raw) :
           m_reserved' = m_reserved + ReservedBy(NewChunk(base, raw))
    BY DEF AllocByGrowing
  <1>3. ~(m_reserved >= m_cap \/ raw > Wrap(m_cap - m_reserved))
    BY DEF AllocByGrowing, MayGrow, GrowAllowed
  <1>4. Wrap(m_cap - m_reserved) = m_cap - m_reserved
    BY <1>1, <1>3, WrapIdentity
  <1>5. base \in Nat
    BY HostAssumption, WordAssumption DEF HostBases
  <1>6. AlignUp(base, kMaxAlign) \in Nat /\ base <= AlignUp(base, kMaxAlign)
    BY <1>1, <1>5, AlignUpFacts
  <1>7. raw \in Nat
    <2>1. Wrap(bytes + align) \in Nat /\ m_next_chunk \in Nat
      BY <1>1, WordAssumption DEF Wrap, TypeOK
    <2>2. GrowCap(Wrap(bytes + align)) + kMaxAlign \in Nat
      BY <1>1, <2>1 DEF GrowCap
    <2> QED
      BY <1>1, <2>2 DEF GrowRaw, Wrap
  <1>8. ReservedBy(NewChunk(base, raw)) = (base + raw) - AlignUp(base, kMaxAlign)
    BY DEF ReservedBy, NewChunk
  <1> QED
    BY <1>1, <1>2, <1>3, <1>4, <1>5, <1>6, <1>7, <1>8

\* No call takes host memory past the limit of set_capacity_limit() that is in force,
\* also when the limit was lowered below what the arena already holds.
THEOREM LimitRespected == ArenaSpec => CapacityRespected
  <1>1. ASSUME TypeOK, [ArenaNext]_arena_vars
        PROVE  [m_reserved' > m_reserved => m_reserved' <= m_cap]_arena_vars
    <2>0. m_reserved \in Nat /\ ~(m_reserved > m_reserved)
      BY <1>1 DEF TypeOK
    <2>1. ASSUME NEW bytes \in Nat, NEW align \in Nat, NEW size, Allocate(bytes, align, size)
          PROVE  m_reserved' > m_reserved => m_reserved' <= m_cap
      BY <1>1, <2>0, <2>1, GrowWithinLimit
         DEF Allocate, AllocSucceeds, AllocInCurrent, AllocInNext, AllocFails, arena_vars, member_vars
    <2>2. ASSUME NEW t \in Types, NEW n \in Counts, AllocateArray(n, t)
          PROVE  m_reserved' > m_reserved => m_reserved' <= m_cap
      <3>1. Wrap(n * t.size) \in Nat /\ t.align \in Nat
        BY RequestAssumption, WordAssumption DEF Wrap
      <3> QED
        BY <2>0, <2>1, <2>2, <3>1 DEF AllocateArray, arena_vars, member_vars
    <2>3. ASSUME NEW t \in Types, Create(t)
          PROVE  m_reserved' > m_reserved => m_reserved' <= m_cap
      BY <2>1, <2>3, RequestAssumption, WordAssumption DEF Create
    <2>4. ASSUME \/ \E b \in live : \E old_bytes, new_bytes \in ArraySizes(b) :
                      ShrinkLast(b, old_bytes, new_bytes)
                 \/ Reset
                 \/ \E cap \in Caps : SetCapacityLimit(cap)
          PROVE  m_reserved' > m_reserved => m_reserved' <= m_cap
      BY <2>0, <2>4 DEF ShrinkLast, Reset, SetCapacityLimit
    <2> QED
      BY <1>1, <2>2, <2>3, <2>4 DEF ArenaNext
  <1> QED
    BY <1>1, TypeCorrect, PTL DEF ArenaSpec, CapacityRespected

\* The size of an array handed to allocate() is the true one, at least one byte.
LEMMA ArraySizeExact ==
    ASSUME NEW t \in Types, NEW n \in Counts, ~CountRejected(n, t), AllocateArray(n, t)
    PROVE  /\ n * t.size \in Nat /\ n * t.size >= 1 /\ t.align \in Nat /\ t.align >= 1
           /\ Allocate(n * t.size, t.align, n * t.size)
  <1>1. /\ n \in Nat /\ n >= 1 /\ n <= SizeMax \div t.size
        /\ t.size \in Nat /\ t.size >= 1 /\ t.align \in Nat /\ t.align >= 1
        /\ SizeMax \in Nat
    BY RequestAssumption, WordAssumption DEF CountRejected
  <1>2. n * t.size \in 0 .. SizeMax /\ n * t.size >= 1
    <2>1. (SizeMax \div t.size) * t.size <= SizeMax
      BY <1>1
    <2>2. n * t.size <= (SizeMax \div t.size) * t.size
      BY <1>1
    <2>3. n * t.size \in Nat /\ n * t.size >= 1
      BY <1>1
    <2> QED
      BY <1>1, <2>1, <2>2, <2>3
  <1>3. Wrap(n * t.size) = n * t.size
    BY <1>2, WrapIdentity
  <1> QED
    BY <1>1, <1>2, <1>3 DEF AllocateArray

\* Only grow() changes the list of chunks.
LEMMA OnlyGrowAddsChunks ==
    ASSUME IInv, [ArenaNext]_arena_vars, chunks' # chunks
    PROVE  \E bytes, align \in Nat : bytes >= 1 /\ align >= 1 /\ AllocByGrowing(bytes, align, bytes)
  <1>1. ASSUME NEW bytes \in Nat, NEW align \in Nat, Allocate(bytes, align, bytes)
        PROVE  AllocByGrowing(bytes, align, bytes)
    BY <1>1 DEF Allocate, AllocSucceeds, AllocInCurrent, AllocInNext, AllocFails, arena_vars, member_vars
  <1>2. ASSUME NEW t \in Types, Create(t)
        PROVE  \E bytes, align \in Nat : bytes >= 1 /\ align >= 1 /\ AllocByGrowing(bytes, align, bytes)
    <2>1. t.size \in Nat /\ t.size >= 1 /\ t.align \in Nat /\ t.align >= 1
      BY RequestAssumption, WordAssumption
    <2>2. AllocByGrowing(t.size, t.align, t.size)
      BY <1>1, <1>2, <2>1 DEF Create
    <2> QED BY <2>1, <2>2
  <1>3. ASSUME NEW t \in Types, NEW n \in Counts, AllocateArray(n, t)
        PROVE  \E bytes, align \in Nat : bytes >= 1 /\ align >= 1 /\ AllocByGrowing(bytes, align, bytes)
    <2>1. ~CountRejected(n, t)
      BY <1>3 DEF AllocateArray, arena_vars, member_vars
    <2> DEFINE z == n * t.size
    <2>2. z \in Nat /\ z >= 1 /\ t.align \in Nat /\ t.align >= 1 /\ Allocate(z, t.align, z)
      BY <1>3, <2>1, ArraySizeExact
    <2> HIDE DEF z
    <2>3. AllocByGrowing(z, t.align, z)
      BY <1>1, <2>2
    <2> QED BY <2>2, <2>3
  <1> QED
    BY <1>2, <1>3 DEF ArenaNext, ShrinkLast, Reset, SetCapacityLimit, arena_vars, member_vars

\* What a step may do to the list of chunks: nothing is lost or reordered, and a chunk that is
\* added comes right behind the current one and is larger than the kept one it passes over,
\* because that one did not fit the request and the new one does with any alignment.
THEOREM GrowthProgresses == ArenaSpec => GrowthMakesProgress
  <1> DEFINE Kept == \E f \in [DOMAIN chunks -> DOMAIN chunks'] :
                        /\ \A i, j \in DOMAIN chunks : i < j => f[i] < f[j]
                        /\ \A i \in DOMAIN chunks : chunks'[f[i]] = chunks[i]
             k == IF chunks = <<>> THEN 1 ELSE m_cursor + 2
             Larger == /\ \A i \in 1 .. (k - 1) : chunks'[i] = chunks[i]
                       /\ m_cur' > chunks'[k].data /\ m_cur' <= chunks'[k].limit
                       /\ k <= Len(chunks) =>
                            chunks'[k].limit - chunks'[k].data > chunks[k].limit - chunks[k].data
  <1>1. ASSUME IInv, [ArenaNext]_arena_vars PROVE Kept /\ (Len(chunks') > Len(chunks) => Larger)
    <2>0. TypeOK /\ chunks \in Seq(Chunk) /\ m_cursor \in Nat /\ m_cur \in Nat
      BY <1>1 DEF IInv, TypeOK
    <2>1. CASE chunks' = chunks
      <3> DEFINE id == [i \in DOMAIN chunks |-> i]
      <3>1. /\ id \in [DOMAIN chunks -> DOMAIN chunks']
            /\ \A i, j \in DOMAIN chunks : i < j => id[i] < id[j]
            /\ \A i \in DOMAIN chunks : chunks'[id[i]] = chunks[i]
        BY <2>1
      <3> HIDE DEF id
      <3>2. Kept
        BY <3>1
      <3>3. Len(chunks) \in Nat
        BY <2>0
      <3> QED BY <2>1, <3>2, <3>3
    <2>2. CASE chunks' # chunks
      <3>1. PICK bytes \in Nat, align \in Nat :
              bytes >= 1 /\ align >= 1 /\ AllocByGrowing(bytes, align, bytes)
        BY <1>1, <2>2, OnlyGrowAddsChunks
      <3> DEFINE raw == GrowRaw(Wrap(bytes + align))
                 n == Len(chunks)
                 g == GrowIndex + 1
      <3>2. PICK base \in HostBases(raw) :
              LET c == NewChunk(base, raw)
              IN  chunks' = InsertAt(chunks, g, c) /\ m_cur' = AlignUp(c.data, align) + bytes
        BY <3>1 DEF AllocByGrowing, WithChunk, Bump
      <3>3. MayGrow(bytes, align) /\ base \in Nat
        BY <3>1, HostAssumption DEF AllocByGrowing, HostBases
      <3> DEFINE c == NewChunk(base, raw)
                 p == AlignUp(c.data, align)
      <3>4. /\ c \in Chunk /\ c.data <= c.limit
            /\ p \in Nat /\ c.data <= p /\ p + bytes <= c.limit
            /\ c.limit - c.data > bytes + align
        BY <2>0, <3>1, <3>3, GrowRoom
      <3>5. chunks' = InsertAt(chunks, g, c) /\ m_cur' = p + bytes
        BY <3>2
      <3> HIDE DEF c, p
      <3>6. n \in Nat /\ g \in 1 .. (n + 1) /\ g = k
        <4>1. n \in Nat /\ (chunks # <<>> => m_cursor + 1 \in 1 .. n) /\ (chunks = <<>> => n = 0)
          BY <1>1, <2>0 DEF IInv, CursorIn
        <4> QED BY <2>0, <4>1 DEF GrowIndex
      <3>7. DOMAIN chunks = 1 .. n /\ n = Len(chunks)
        BY <2>0
      <3> HIDE DEF g, n, k
      <3>8. /\ DOMAIN chunks' = 1 .. (n + 1) /\ Len(chunks') = n + 1 /\ chunks'[g] = c
            /\ \A j \in 1 .. (n + 1) : j < g => chunks'[j] = chunks[j]
            /\ \A j \in 1 .. (n + 1) : j > g => chunks'[j] = chunks[j - 1]
        <4> DEFINE new == InsertAt(chunks, g, c)
        <4>1. /\ new \in Seq(Chunk) /\ Len(new) = Len(chunks) + 1 /\ DOMAIN new = 1 .. (Len(chunks) + 1)
              /\ new[g] = c
              /\ \A j \in 1 .. (Len(chunks) + 1) : j < g => new[j] = chunks[j]
              /\ \A j \in 1 .. (Len(chunks) + 1) : j > g => new[j] = chunks[j - 1]
          <5>1. g \in 1 .. (Len(chunks) + 1) /\ c \in Chunk /\ chunks \in Seq(Chunk)
            BY <2>0, <3>4, <3>6, <3>7
          <5> QED BY <5>1, InsertChunk, ZenonT(60)
        <4>2. chunks' = new
          BY <3>5
        <4> HIDE DEF new
        <4> QED BY <3>7, <4>1, <4>2
      <3>9. Kept
        <4> DEFINE f == [i \in 1 .. n |-> IF i < g THEN i ELSE i + 1]
        <4>1. f \in [1 .. n -> 1 .. (n + 1)] /\ \A i, j \in 1 .. n : i < j => f[i] < f[j]
          BY <3>6
        <4>2. ASSUME NEW i \in 1 .. n PROVE chunks'[f[i]] = chunks[i]
          <5>1. CASE i < g
            BY <3>6, <3>8, <5>1
          <5>2. CASE ~(i < g)
            <6>1. f[i] = i + 1 /\ i + 1 \in 1 .. (n + 1) /\ i + 1 > g /\ (i + 1) - 1 = i
              BY <3>6, <5>2
            <6> QED BY <3>8, <6>1
          <5> QED BY <5>1, <5>2
        <4> HIDE DEF f
        <4> QED BY <3>7, <3>8, <4>1, <4>2
      <3>10. Larger
        <4>1. \A i \in 1 .. (k - 1) : chunks'[i] = chunks[i]
          BY <3>6, <3>8
        <4>2. chunks'[k] = c
          BY <3>6, <3>8
        <4>3. c.data \in Nat /\ c.limit \in Nat
          BY <3>4 DEF Chunk
        <4>4. m_cur' > c.data /\ m_cur' <= c.limit
          BY <3>1, <3>4, <3>5, <4>3
        <4>5. ASSUME k <= Len(chunks) PROVE c.limit - c.data > chunks[k].limit - chunks[k].data
          <5>1. chunks # <<>> /\ k = m_cursor + 2 /\ k \in DOMAIN chunks
            BY <3>6, <3>7, <4>5 DEF k
          <5> DEFINE d == chunks[k]
          <5>2. d.data \in Nat /\ d.limit \in Nat /\ d.data <= d.limit
            BY <1>1, <2>0, <5>1, ChunkFields DEF IInv, Separate
          <5>3. ~fits(d, bytes, align)
            <6>1. m_cursor + 1 < Len(chunks) /\ (m_cursor + 1) + 1 = k
              BY <2>0, <3>6, <3>7, <4>5, <5>1
            <6> QED BY <3>1, <6>1 DEF AllocByGrowing, MustGrow, NextChunkFits, chunk, chunk_count
          <5> HIDE DEF d
          <5>4. AlignUp(d.data, align) \in Nat /\ AlignUp(d.data, align) <= d.data + align - 1
            BY <3>1, <5>2, AlignUpFacts
          <5>5. d.limit - d.data < bytes + align
            BY <3>1, <5>2, <5>3, <5>4 DEF fits, RoomFor
          <5>6. c.limit - c.data > d.limit - d.data
            BY <3>1, <3>4, <4>3, <5>2, <5>5
          <5> QED BY <5>6 DEF d
        <4> QED BY <4>1, <4>2, <4>4, <4>5
      <3> QED BY <3>9, <3>10
    <2> QED BY <2>1, <2>2
  <1>2. ASSUME IInv, [ArenaNext]_arena_vars
        PROVE  [/\ \E f \in [DOMAIN chunks -> DOMAIN chunks'] :
                      /\ \A i, j \in DOMAIN chunks : i < j => f[i] < f[j]
                      /\ \A i \in DOMAIN chunks : chunks'[f[i]] = chunks[i]
                /\ Len(chunks') > Len(chunks) =>
                      LET n == IF chunks = <<>> THEN 1 ELSE m_cursor + 2
                      IN  /\ \A i \in 1 .. (n - 1) : chunks'[i] = chunks[i]
                          /\ m_cur' > chunks'[n].data /\ m_cur' <= chunks'[n].limit
                          /\ n <= Len(chunks) =>
                               chunks'[n].limit - chunks'[n].data > chunks[n].limit - chunks[n].data]_arena_vars
    BY <1>1, <1>2
  <1> QED
    BY <1>2, InductiveInvariant, PTL DEF ArenaSpec, GrowthMakesProgress

-----------------------------------------------------------------------------
(* The accounting: bytes_used() and bytes_reserved().                      *)

\* The bytes of so many blocks, and the usable memory of so many chunks.
Payload(bs) == SumFunction([b \in bs |-> b.size])
Held(cs) == SumFunction([i \in DOMAIN cs |-> ReservedBy(cs[i])])

\* The payload of so many blocks, with one more.
LEMMA PayloadAdds ==
    ASSUME NEW bs \in SUBSET Block, IsFiniteSet(bs), NEW nb \in Block, nb \notin bs
    PROVE  /\ Payload(bs) \in Int
           /\ Payload(bs \cup {nb}) = Payload(bs) + nb.size
           /\ IsFiniteSet(bs \cup {nb})
  <1>0. PICK ns : ns = bs \cup {nb}
    OBVIOUS
  <1>1. PICK f, g : f = [b \in bs |-> b.size] /\ g = [b \in ns |-> b.size]
    OBVIOUS
  <1>2. /\ \A b \in bs : f[b] \in Int /\ f[b] = g[b]
        /\ \A b \in ns : g[b] \in Int
        /\ nb \in ns /\ g[nb] = nb.size
        /\ DOMAIN f = bs /\ DOMAIN g = ns
    <2>1. \A b \in Block : b.size \in Int
      BY BlockFields
    <2> QED BY <1>0, <1>1, <2>1
  <1>3. IsFiniteSet(ns) /\ ns \ {nb} = bs
    BY <1>0, FS_AddElement
  <1>4. SumFunctionOnSet(g, ns) = g[nb] + SumFunctionOnSet(g, bs)
    <2>1. SumFunctionOnSet(g, ns) = g[nb] + SumFunctionOnSet(g, ns \ {nb})
      BY <1>2, <1>3, SumFacts
    <2> QED BY <1>3, <2>1
  <1>5. SumFunctionOnSet(f, bs) = SumFunctionOnSet(g, bs) /\ SumFunctionOnSet(f, bs) \in Int
    <2>1. \A b \in bs : f[b] \in Int
      BY <1>2
    <2>2. \A b \in bs : f[b] = g[b]
      BY <1>2
    <2> QED BY <2>1, <2>2, SumFacts
  <1>6. SumFunction(f) = SumFunctionOnSet(f, bs) /\ SumFunction(g) = SumFunctionOnSet(g, ns)
    BY <1>2 DEF SumFunction
  <1>7. nb.size \in Int
    BY <1>2
  <1>8. SumFunction(g) = SumFunction(f) + nb.size
    BY <1>2, <1>4, <1>5, <1>6, <1>7
  <1> QED
    BY <1>0, <1>1, <1>3, <1>5, <1>6, <1>8 DEF Payload

\* Nothing is used of no blocks.
LEMMA NoPayload == Payload({}) = 0
  <1>1. PICK f : f = [b \in {} |-> b.size]
    OBVIOUS
  <1>2. SumFunctionOnSet(f, {}) = 0
    BY FS_EmptySet, SumFacts
  <1>3. DOMAIN f = {}
    BY <1>1
  <1> QED
    BY <1>1, <1>2, <1>3 DEF SumFunction, Payload

\* The usable memory of the chunks, with one inserted among them.
LEMMA ReservedAdds ==
    ASSUME NEW cs \in Seq(Chunk), NEW k \in 1 .. (Len(cs) + 1), NEW c \in Chunk,
           NEW ds, ds = InsertAt(cs, k, c)
    PROVE  Held(ds) = Held(cs) + ReservedBy(c)
  <1>0. PICK m : m = Len(cs)
    OBVIOUS
  <1>1. /\ m \in Nat /\ DOMAIN cs = 1 .. m /\ k \in 1 .. (m + 1)
        /\ ds \in Seq(Chunk) /\ DOMAIN ds = 1 .. (m + 1)
        /\ \A j \in 1 .. (m + 1) : ds[j] = IF j < k THEN cs[j] ELSE IF j = k THEN c ELSE cs[j - 1]
    <2>1. /\ ds \in Seq(Chunk) /\ Len(ds) = Len(cs) + 1
          /\ \A j \in 1 .. (Len(cs) + 1) : ds[j] = IF j < k THEN cs[j] ELSE IF j = k THEN c ELSE cs[j - 1]
      BY InsertAtFacts
    <2> QED BY <1>0, <2>1
  <1>2. PICK f, e : f = [i \in DOMAIN cs |-> ReservedBy(cs[i])] /\ e = [i \in DOMAIN ds |-> ReservedBy(ds[i])]
    OBVIOUS
  <1>3. \A x \in Chunk : ReservedBy(x) \in Int
    BY DEF Chunk, ReservedBy
  <1>4. /\ DOMAIN f = 1 .. m /\ DOMAIN e = 1 .. (m + 1)
        /\ (\A i \in 1 .. m : f[i] = ReservedBy(cs[i])) /\ (\A i \in 1 .. (m + 1) : e[i] = ReservedBy(ds[i]))
    BY <1>1, <1>2
  <1>5. (\A i \in 1 .. m : f[i] \in Int) /\ (\A i \in 1 .. (m + 1) : e[i] \in Int)
    <2>1. \A i \in 1 .. m : cs[i] \in Chunk
      BY <1>0, <1>1
    <2>2. \A i \in 1 .. (m + 1) : ds[i] \in Chunk
      BY <1>1
    <2> QED BY <1>3, <1>4, <2>1, <2>2
  <1>6. PICK h : h = [i \in 1 .. m |-> IF i < k THEN i ELSE i + 1]
    OBVIOUS
  <1>7. ASSUME NEW x \in 1 .. m, NEW y \in 1 .. m, x # y PROVE h[x] # h[y]
    BY <1>1, <1>6, <1>7
  <1>8. ASSUME NEW x \in 1 .. m PROVE e[h[x]] = f[x]
    <2>1. CASE x < k
      <3>1. h[x] = x /\ x \in 1 .. (m + 1)
        BY <1>1, <1>6, <2>1
      <3> QED BY <1>1, <1>4, <2>1, <3>1
    <2>2. CASE ~(x < k)
      <3>1. h[x] = x + 1 /\ x + 1 \in 1 .. (m + 1) /\ ~(x + 1 < k) /\ x + 1 # k /\ (x + 1) - 1 = x
        BY <1>1, <1>6, <2>2
      <3>2. ds[x + 1] = cs[x]
        BY <1>1, <3>1
      <3> QED BY <1>4, <3>1, <3>2
    <2> QED BY <2>1, <2>2
  <1>9. {h[x] : x \in 1 .. m} = (1 .. (m + 1)) \ {k}
    <2>1. ASSUME NEW x \in 1 .. m PROVE h[x] \in (1 .. (m + 1)) \ {k}
      BY <1>1, <1>6
    <2>2. ASSUME NEW y \in (1 .. (m + 1)) \ {k} PROVE \E x \in 1 .. m : y = h[x]
      <3>1. CASE y < k
        <4>1. y \in 1 .. m /\ h[y] = y
          BY <1>1, <1>6, <3>1
        <4> QED BY <4>1
      <3>2. CASE ~(y < k)
        <4>1. y - 1 \in 1 .. m /\ ~(y - 1 < k)
          BY <1>1, <3>2
        <4>2. h[y - 1] = (y - 1) + 1
          BY <1>6, <4>1
        <4> QED BY <4>1, <4>2
      <3> QED BY <3>1, <3>2
    <2> QED BY <2>1, <2>2
  <1>10. IsFiniteSet(1 .. m) /\ IsFiniteSet(1 .. (m + 1))
    BY <1>1, FS_Interval
  <1>11. SumFunctionOnSet(e, (1 .. (m + 1)) \ {k}) = SumFunctionOnSet(f, 1 .. m)
    <2>1. PICK S : S = 1 .. m
      OBVIOUS
    <2>2. IsFiniteSet(S) /\ \A x \in S : f[x] \in Int
      BY <1>5, <1>10, <2>1
    <2>3. \A x, y \in S : x # y => h[x] # h[y]
      BY <1>7, <2>1
    <2>4. \A x \in S : e[h[x]] = f[x]
      BY <1>8, <2>1
    <2>5. SumFunctionOnSet(e, {h[x] : x \in S}) = SumFunctionOnSet(f, S)
      BY <2>2, <2>3, <2>4, SumReindexed
    <2> QED BY <1>9, <2>1, <2>5
  <1>12. SumFunctionOnSet(e, 1 .. (m + 1)) = e[k] + SumFunctionOnSet(e, (1 .. (m + 1)) \ {k})
    BY <1>1, <1>5, <1>10, SumFacts
  <1>13. e[k] = ReservedBy(c) /\ e[k] \in Int /\ SumFunctionOnSet(f, 1 .. m) \in Int
    <2>1. SumFunctionOnSet(f, 1 .. m) \in Int
      BY <1>5, <1>10, SumFacts
    <2> QED BY <1>1, <1>4, <1>5, <2>1
  <1>14. SumFunction(e) = SumFunctionOnSet(e, 1 .. (m + 1)) /\ SumFunction(f) = SumFunctionOnSet(f, 1 .. m)
    BY <1>4 DEF SumFunction
  <1> QED
    BY <1>2, <1>11, <1>12, <1>13, <1>14 DEF Held


\* The invariant of the accounting: every call keeps both counters at what they count.
UsedExact == IsFiniteSet(live) /\ m_used = Payload(live)
HeldExact == m_reserved = Held(chunks)
Accounted == UsedExact /\ HeldExact

\* A block handed out is counted once.
LEMMA HandingOutCounts ==
    ASSUME TypeOK, UsedExact, NEW bytes, HandsOut(bytes)
    PROVE  UsedExact'
  <1>1. PICK b \in Block : b \notin live /\ b.size = bytes /\ live' = live \cup {b} /\ m_used' = m_used + bytes
    BY DEF HandsOut
  <1>2. live \in SUBSET Block /\ IsFiniteSet(live) /\ m_used = Payload(live)
    BY DEF TypeOK, UsedExact
  <1>3. Payload(live \cup {b}) = Payload(live) + b.size /\ IsFiniteSet(live \cup {b})
    BY <1>1, <1>2, PayloadAdds
  <1> QED
    BY <1>1, <1>2, <1>3 DEF UsedExact

\* Trimming the last block gives back exactly the bytes cut off it.
LEMMA ShrinkingCounts ==
    ASSUME IInv, UsedExact, NEW b \in live, NEW old_bytes \in 1 .. b.size,
           NEW new_bytes \in 1 .. old_bytes, ShrinkLast(b, old_bytes, new_bytes)
    PROVE  UsedExact'
  <1>0. /\ live \in SUBSET Block /\ IsFiniteSet(live) /\ m_used = Payload(live)
        /\ b \in Block /\ b.size \in Nat
    BY BlockFields DEF IInv, TypeOK, UsedExact
  <1>1. CASE ~ShrinkGuard(b, old_bytes)
    <2>1. live' = live /\ m_used' = m_used
      BY <1>1 DEF ShrinkLast
    <2> QED BY <1>0, <2>1 DEF UsedExact
  <1>2. CASE ShrinkGuard(b, old_bytes)
    <2> DEFINE s == [b EXCEPT !.size = new_bytes]
               rest == live \ {b}
    <2>1. /\ m_used' = m_used - (old_bytes - new_bytes)
          /\ live' = rest \cup {s}
      BY <1>2 DEF ShrinkLast
    <2>2. old_bytes = b.size /\ s \notin rest
      BY <1>2, ShrinkStep
    <2>3. s \in Block /\ s.size = new_bytes /\ new_bytes \in Nat
      BY <1>0 DEF Block
    <2> HIDE DEF s
    <2>4. rest \in SUBSET Block /\ IsFiniteSet(rest) /\ b \notin rest /\ live = rest \cup {b}
      BY <1>0, FS_Subset
    <2> HIDE DEF rest
    <2>5. Payload(rest) \in Int /\ Payload(rest \cup {b}) = Payload(rest) + b.size
      BY <1>0, <2>4, PayloadAdds
    <2>6. Payload(rest \cup {s}) = Payload(rest) + s.size /\ IsFiniteSet(rest \cup {s})
      BY <2>2, <2>3, <2>4, PayloadAdds
    <2>7. m_used = Payload(rest) + b.size /\ Payload(live') = Payload(rest) + new_bytes
      BY <1>0, <2>1, <2>3, <2>4, <2>5, <2>6
    <2>8. m_used' = Payload(live')
      BY <1>0, <2>1, <2>2, <2>3, <2>5, <2>7
    <2> QED BY <2>1, <2>6, <2>8 DEF UsedExact
  <1> QED
    BY <1>1, <1>2

\* grow() counts the chunk it inserts.
LEMMA GrowingCounts ==
    ASSUME IInv, HeldExact, NEW bytes \in Nat, NEW align \in Nat, bytes >= 1, align >= 1,
           AllocByGrowing(bytes, align, bytes)
    PROVE  HeldExact'
  <1> DEFINE raw == GrowRaw(Wrap(bytes + align))
  <1>1. PICK base \in HostBases(raw) :
          LET c == NewChunk(base, raw)
          IN  chunks' = InsertAt(chunks, GrowIndex + 1, c) /\ m_reserved' = m_reserved + ReservedBy(c)
    BY DEF AllocByGrowing, WithChunk
  <1>2. MayGrow(bytes, align) /\ base \in Nat /\ TypeOK
    BY HostAssumption DEF AllocByGrowing, HostBases, IInv
  <1> DEFINE c == NewChunk(base, raw)
  <1>3. c \in Chunk
    BY <1>2, GrowRoom
  <1>4. chunks' = InsertAt(chunks, GrowIndex + 1, c) /\ m_reserved' = m_reserved + ReservedBy(c)
    BY <1>1
  <1> HIDE DEF c, raw
  <1>5. chunks \in Seq(Chunk) /\ GrowIndex + 1 \in 1 .. (Len(chunks) + 1)
    <2>1. chunks \in Seq(Chunk) /\ m_cursor \in Nat
      BY <1>2 DEF TypeOK
    <2>2. /\ Len(chunks) \in Nat /\ (chunks # <<>> => m_cursor + 1 \in 1 .. Len(chunks))
          /\ (chunks = <<>> => Len(chunks) = 0)
      BY <2>1 DEF IInv, CursorIn
    <2> QED BY <2>1, <2>2 DEF GrowIndex
  <1>6. Held(chunks') = Held(chunks) + ReservedBy(c)
    BY <1>3, <1>4, <1>5, ReservedAdds
  <1> QED
    BY <1>4, <1>6 DEF HeldExact


\* allocate(), whichever way it goes, keeps the accounts.
LEMMA AllocatingCounts ==
    ASSUME IInv, Accounted, NEW bytes \in Nat, NEW align \in Nat, bytes >= 1, align >= 1,
           Allocate(bytes, align, bytes)
    PROVE  Accounted'
  <1>0. TypeOK /\ UsedExact /\ HeldExact
    BY DEF IInv, Accounted
  <1>1. CASE AllocFails(bytes, align)
    BY <1>0, <1>1 DEF AllocFails, Accounted, UsedExact, HeldExact, arena_vars, member_vars
  <1>2. CASE AllocInCurrent(bytes, align, bytes)
    <2>1. UsedExact'
      BY <1>0, <1>2, InCurrentStep, HandingOutCounts
    <2>2. HeldExact'
      BY <1>0, <1>2 DEF AllocInCurrent, HeldExact
    <2> QED BY <2>1, <2>2 DEF Accounted
  <1>3. CASE AllocInNext(bytes, align, bytes)
    <2>1. UsedExact'
      BY <1>0, <1>3, InNextStep, HandingOutCounts
    <2>2. HeldExact'
      BY <1>0, <1>3 DEF AllocInNext, HeldExact
    <2> QED BY <2>1, <2>2 DEF Accounted
  <1>4. CASE AllocByGrowing(bytes, align, bytes)
    <2>1. UsedExact'
      BY <1>0, <1>4, GrowStep, HandingOutCounts
    <2>2. HeldExact'
      BY <1>0, <1>4, GrowingCounts
    <2> QED BY <2>1, <2>2 DEF Accounted
  <1> QED
    BY <1>1, <1>2, <1>3, <1>4 DEF Allocate, AllocSucceeds

\* Every call keeps the accounts.
LEMMA AccountedStep ==
    ASSUME IInv, Accounted, [ArenaNext]_arena_vars
    PROVE  Accounted'
  <1>1. ASSUME NEW t \in Types, Create(t) PROVE Accounted'
    <2>1. t.size \in Nat /\ t.size >= 1 /\ t.align \in Nat /\ t.align >= 1
      BY RequestAssumption, WordAssumption
    <2> QED BY <1>1, <2>1, AllocatingCounts DEF Create
  <1>2. ASSUME NEW t \in Types, NEW n \in Counts, AllocateArray(n, t) PROVE Accounted'
    <2>1. CASE CountRejected(n, t)
      BY <1>2, <2>1 DEF AllocateArray, Accounted, UsedExact, HeldExact, arena_vars, member_vars
    <2>2. CASE ~CountRejected(n, t)
      <3> DEFINE z == n * t.size
      <3>1. z \in Nat /\ z >= 1 /\ t.align \in Nat /\ t.align >= 1 /\ Allocate(z, t.align, z)
        BY <1>2, <2>2, ArraySizeExact
      <3> HIDE DEF z
      <3> QED BY <3>1, AllocatingCounts
    <2> QED BY <2>1, <2>2
  <1>3. ASSUME NEW b \in live, NEW old_bytes \in ArraySizes(b), NEW new_bytes \in ArraySizes(b),
               ShrinkLast(b, old_bytes, new_bytes)
        PROVE  Accounted'
    <2>1. b.size \in Nat
      BY BlockFields DEF IInv, TypeOK
    <2>2. old_bytes \in 1 .. b.size /\ new_bytes \in 1 .. b.size
      BY DEF ArraySizes
    <2>3. new_bytes \in 1 .. old_bytes
      BY <1>3, <2>1, <2>2 DEF ShrinkLast
    <2>4. UsedExact'
      BY <1>3, <2>2, <2>3, ShrinkingCounts DEF Accounted
    <2>5. HeldExact'
      BY <1>3 DEF ShrinkLast, Accounted, HeldExact
    <2> QED BY <2>4, <2>5 DEF Accounted
  <1>4. ASSUME Reset PROVE Accounted'
    <2>1. m_used' = 0 /\ live' = {} /\ chunks' = chunks /\ m_reserved' = m_reserved
      BY <1>4 DEF Reset
    <2> QED BY <2>1, NoPayload, FS_EmptySet DEF Accounted, UsedExact, HeldExact
  <1>5. ASSUME NEW cap \in Caps, SetCapacityLimit(cap) PROVE Accounted'
    BY <1>5 DEF SetCapacityLimit, Accounted, UsedExact, HeldExact
  <1>6. CASE UNCHANGED arena_vars
    BY <1>6 DEF Accounted, UsedExact, HeldExact, arena_vars, member_vars
  <1> QED
    BY <1>1, <1>2, <1>3, <1>4, <1>5, <1>6 DEF ArenaNext

\* Both constructors start with exact accounts: the caller's buffer is the one chunk held.
LEMMA InitAccounted == ArenaInit => Accounted
  <1> SUFFICES ASSUME ArenaInit PROVE Accounted
    OBVIOUS
  <1>1. UsedExact
    BY NoPayload, FS_EmptySet DEF ArenaInit, UsedExact
  <1>2. Held(<<>>) = 0
    <2>1. PICK f : f = [i \in DOMAIN << >> |-> ReservedBy(<< >>[i])]
      OBVIOUS
    <2>2. DOMAIN f = {} /\ SumFunctionOnSet(f, {}) = 0
      BY <2>1, FS_EmptySet, SumFacts
    <2> QED BY <2>1, <2>2 DEF Held, SumFunction
  <1>3. CASE chunks = <<>>
    BY <1>1, <1>2, <1>3 DEF ArenaInit, Accounted, HeldExact
  <1>4. CASE chunks # <<>>
    <2>1. IInv /\ chunks \in Seq(Chunk)
      BY InitIInv DEF IInv, TypeOK
    <2>2. PICK c : chunks = <<c>>
      BY <1>4 DEF ArenaInit, SeedChunks
    <2>3. c \in Chunk /\ chunks[1] = c
      BY <2>1, <2>2
    <2>4. chunks = InsertAt(<<>>, 1, c)
      BY <2>2 DEF InsertAt
    <2>5. Held(chunks) = Held(<<>>) + ReservedBy(c)
      <3>1. PICK none : none = <<>>
        OBVIOUS
      <3>2. none \in Seq(Chunk) /\ 1 \in 1 .. (Len(none) + 1)
        BY <3>1
      <3>3. chunks = InsertAt(none, 1, c)
        BY <2>4, <3>1
      <3>4. Held(chunks) = Held(none) + ReservedBy(c)
        BY <2>3, <3>2, <3>3, ReservedAdds
      <3> QED BY <3>1, <3>4
    <2>6. ReservedBy(c) \in Int
      BY <2>3 DEF Chunk, ReservedBy
    <2>7. m_reserved = ReservedBy(c)
      BY <1>4, <2>3 DEF ArenaInit
    <2> QED BY <1>1, <1>2, <2>5, <2>6, <2>7 DEF Accounted, HeldExact
  <1> QED
    BY <1>3, <1>4

\* bytes_used() is the payload of the live blocks and bytes_reserved() the usable memory of the
\* chunks, whatever was allocated, trimmed or reset: a block handed out is new, a trim cuts the
\* last block by what it gives back, and every chunk is counted when grow() inserts it.
THEOREM AccountsExact == ArenaSpec => []AccountingExact
  <1>1. IInv /\ Accounted /\ [ArenaNext]_arena_vars => IInv' /\ Accounted'
    BY NextStep, AccountedStep
  <1>2. Accounted => AccountingExact
    BY DEF Accounted, UsedExact, HeldExact, AccountingExact, Payload, Held
  <1> QED
    BY <1>1, <1>2, InitIInv, InitAccounted, PTL DEF ArenaSpec

=============================================================================
