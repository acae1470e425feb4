---------------------------- MODULE PackedProofs ----------------------------
(***************************************************************************)
(* The packed-varint kernels for every span, window and threshold.         *)
(*                                                                         *)
(* Memory safety: the invariant says where a block of the Struct kernel    *)
(* lies.  While it has terminators to come, the window and a further word  *)
(* are in the span, and the terminators are at or behind the next varint.  *)
(*                                                                         *)
(* Correctness: the invariant relates the decoder to the byte loop, which  *)
(* is seen place by place: at the place the decoder has reached the loop   *)
(* begins a varint, having delivered the same values.  A turn of a kernel  *)
(* is one or several turns of the loop, since the word arithmetic reads    *)
(* what read_varint reads.                                                 *)
(***************************************************************************)
EXTENDS PackedVarints, VarintLemmas

\* ctz64 of a non-zero stopmask of len bytes is one of these bytes.
LEMMA StopFacts ==
    ASSUME NEW p \in Nat, NEW len \in Nat, Stops(p, len) # {}
    PROVE  Min(Stops(p, len)) \in 0 .. (len - 1)
  <1>1. Stops(p, len) \subseteq 0 .. (len - 1)
    BY DEF Stops
  <1> QED
    BY <1>1, MinIsLeast

\* read_varint never passes the end of the buffer and takes at least a byte.
LEMMA ReadVarintFacts ==
    ASSUME NEW s \in Seq(Byte), NEW p \in Nat, read_varint(s, p).err = None
    PROVE  /\ read_varint(s, p).next \in Nat
           /\ p < read_varint(s, p).next /\ read_varint(s, p).next <= Len(s)
  <1> DEFINE r == read_varint(s, p)
  <1>1. r.next \in (p + 1) .. Len(s) /\ Len(s) \in Nat
    BY VarintFacts DEF None
  <1> HIDE DEF r
  <1>2. r.next \in Nat /\ p < r.next /\ r.next <= Len(s)
    BY <1>1
  <1> QED
    BY <1>2 DEF r

\* Nor does read_varint_packed, given the readable word it asks for.
LEMMA ReadPackedFacts ==
    ASSUME span \in Seq(Byte), NEW p \in Nat, p + WordBytes <= Len(span),
           read_varint_packed(p).err = None
    PROVE  /\ read_varint_packed(p).next \in Nat
           /\ p < read_varint_packed(p).next /\ read_varint_packed(p).next <= Len(span)
  <1> DEFINE stop == Stops(p, WordBytes)
  <1>1. CASE ~Continues(p + 1)
    BY <1>1 DEF read_varint_packed, Ok, WordBytes
  <1>2. CASE Continues(p + 1) /\ stop = {}
    <2>1. read_varint_packed(p) = read_varint(span, p)
      BY <1>2 DEF read_varint_packed
    <2> QED
      BY <2>1, ReadVarintFacts
  <1>3. CASE Continues(p + 1) /\ stop # {}
    <2>1. Min(stop) \in 0 .. (WordBytes - 1)
      BY <1>3, StopFacts DEF WordBytes
    <2>2. read_varint_packed(p).next = p + (Min(stop) + 1)
      BY <1>3 DEF read_varint_packed, Ok
    <2> QED
      BY <2>1, <2>2 DEF WordBytes
  <1> QED
    BY <1>1, <1>2, <1>3

-----------------------------------------------------------------------------
Kernels == {"ByteLoop", "Bulk1", "Bulk2", "Fixed", "Struct", "Swar"}

\* The block of the Struct kernel in flight, and no block under any other kernel.
BlockInSpan ==
    /\ t \subseteq start .. (Window - 1) /\ start \in Nat
    /\ t = {} => start = 0
    /\ t # {} => kern \in {"Struct", "Done"} /\ q + Window + WordBytes <= Len(span)

IInv ==
    /\ span \in Seq(Byte) /\ q \in Nat /\ q <= Len(span)
    /\ q_start \in Nat /\ q_start <= q
    /\ kern \in Kernels \cup {"Classify", "Tail", "Done"}
    /\ width \in Nat
    /\ kern = "Fixed" => width \in 3 .. VarintBytes
    /\ n \in Nat /\ n <= q + start
    /\ read_to \in Nat /\ read_to <= Len(span)
    /\ BlockInSpan

USE PackedAssumption

\* Before the first byte the invariant holds.
LEMMA InitIInv == PackedInit => IInv
  BY WireAssumption DEF PackedInit, IInv, BlockInSpan, Kernels, WordBytes

\* A kernel that passes `next - q` bytes for `count` elements.
LEMMA StoreStep ==
    ASSUME IInv, t = {}, NEW vals, NEW count \in Nat, NEW next \in Nat, NEW read_end \in Nat,
           Store(vals, count, next, read_end),
           q + count <= next, next <= Len(span), read_end <= Len(span)
    PROVE  IInv'
  BY DEF IInv, BlockInSpan, Store, Kernels

\* A rejected varint moves nothing.
LEMMA FailStep ==
    ASSUME IInv, NEW e, NEW p, FailAt(e, p)
    PROVE  IInv'
  BY DEF IInv, BlockInSpan, FailAt, Kernels

\* A kernel that takes one varint, if its reader stays in the span.
LEMMA StoreOneStep ==
    ASSUME IInv, t = {}, NEW v, NEW p, NEW read_end \in Nat, StoreOne(v, p, read_end),
           v.err = None => v.next \in Nat /\ q < v.next /\ v.next <= Len(span),
           read_end <= Len(span)
    PROVE  IInv'
  <1>1. CASE v.err # None
    BY <1>1, FailStep DEF StoreOne
  <1>2. CASE v.err = None
    <2>1. Store(<<v.val>>, 1, v.next, read_end)
      BY <1>2 DEF StoreOne
    <2>2. q \in Nat
      BY DEF IInv
    <2> QED
      BY <1>2, <2>1, <2>2, StoreStep
  <1> QED
    BY <1>1, <1>2

\* The strategy is a kernel, and the width of Fixed one a varint can have.
LEMMA StrategyFacts ==
    ASSUME NEW stop
    PROVE  /\ Strategy(stop) \in Kernels
           /\ Strategy(stop) = "Fixed" => FirstWidth(stop) \in 3 .. VarintBytes
  BY DEF Strategy, HasKernel, Kernels

\* packed_strategy looks at a window of the span, and picks a kernel.
LEMMA ClassifyStep ==
    ASSUME IInv, Classify
    PROVE  IInv'
  <1>1. t = {} /\ start = 0 /\ t' = {} /\ start' = 0
    BY DEF IInv, BlockInSpan, Classify
  <1>2. /\ span' = span /\ q' = q /\ q_start' = q /\ n' = n
    BY DEF Classify
  <1>3. /\ kern' \in Kernels /\ width' \in Nat
        /\ kern' = "Fixed" => width' \in 3 .. VarintBytes
        /\ read_to' \in Nat /\ read_to' <= Len(span)
    <2>1. CASE Left < kPackedKernelMinSpan
      BY <2>1 DEF Classify, Kernels, IInv
    <2>2. CASE ~(Left < kPackedKernelMinSpan)
      <3> DEFINE stop == Stops(q, Window)
      <3>1. /\ kern' = Strategy(stop)
            /\ width' = IF kern' = "Fixed" THEN FirstWidth(stop) ELSE 0
            /\ read_to' = q + Window
        BY <2>2 DEF Classify
      <3>2. q + Window <= Len(span) /\ q \in Nat /\ Window \in Nat
        BY <2>2 DEF Left, IInv, WordBytes
      <3> HIDE DEF stop
      <3>3. kern' \in Kernels /\ (kern' = "Fixed" => FirstWidth(stop) \in 3 .. VarintBytes)
        BY <3>1, StrategyFacts
      <3> QED
        BY <3>1, <3>2, <3>3, WireAssumption
    <2> QED
      BY <2>1, <2>2
  <1> QED
    BY <1>1, <1>2, <1>3 DEF IInv, BlockInSpan, Kernels

\* Every turn of a kernel but Struct's is a store or a failure.
LEMMA KernelSteps ==
    ASSUME IInv, Bulk1 \/ Bulk2 \/ FixedFill \/ FixedFillWide \/ Swar \/ ByteLoop
    PROVE  IInv'
  <1>0. /\ span \in Seq(Byte) /\ q \in Nat /\ Len(span) \in Nat /\ q <= Len(span)
        /\ width \in Nat /\ Window \in Nat /\ read_to \in Nat /\ read_to <= Len(span)
    BY DEF IInv
  <1>t. kern \notin {"Struct", "Done"} => t = {}
    BY DEF IInv, BlockInSpan
  <1>1. CASE Bulk1
    <2>1. t = {} /\ q + Window <= Len(span)
      BY <1>0, <1>1, <1>t DEF Bulk1, Bulk1Fits, Left
    <2>2. Store([i \in 1 .. Window |-> At(q + i)], Window, q + Window, q + Window)
      BY <1>1 DEF Bulk1, Bulk1Stride
    <2> QED
      BY <1>0, <2>1, <2>2, StoreStep
  <1>2. CASE Bulk2
    <2>1. t = {} /\ q + WordBytes <= Len(span)
      BY <1>0, <1>2, <1>t DEF Bulk2, Bulk2Fits, Left, WordBytes
    <2>2. Store(Compacted(Lanes(q, WordBytes), Weight(1)), 4, q + WordBytes, q + WordBytes)
      BY <1>2 DEF Bulk2
    <2>3. q + 4 <= q + WordBytes /\ q + WordBytes \in Nat
      BY <1>0 DEF WordBytes
    <2> QED
      BY <1>0, <2>1, <2>2, <2>3, StoreStep
  <1>3. CASE FixedFill
    <2>1. t = {} /\ q + WordBytes <= Len(span) /\ width >= 3 /\ width <= WordBytes
      BY <1>0, <1>3, <1>t DEF FixedFill, FixedFits, Left, WordBytes, IInv
    <2> DEFINE first == compact7(Lanes(q, width))
               second == compact7(Lanes(q + width, width))
    <2>2. CASE FixedTwo
      <3>1. Store(<<first, second>>, 2, q + 2 * width, q + WordBytes)
        BY <1>3, <2>2 DEF FixedFill
      <3>2. /\ q + 2 * width \in Nat /\ q + WordBytes \in Nat
            /\ q + 2 <= q + 2 * width /\ q + 2 * width <= Len(span)
        BY <1>0, <2>1, <2>2 DEF FixedTwo, WordBytes
      <3> HIDE DEF first, second
      <3> QED
        BY <2>1, <3>1, <3>2, StoreStep
    <2>3. CASE ~FixedTwo
      <3>1. Store(<<first>>, 1, q + width, q + WordBytes)
        BY <1>3, <2>3 DEF FixedFill
      <3>2. /\ q + width \in Nat /\ q + WordBytes \in Nat
            /\ q + 1 <= q + width /\ q + width <= Len(span)
        BY <1>0, <2>1 DEF WordBytes
      <3> HIDE DEF first, second
      <3> QED
        BY <2>1, <3>1, <3>2, StoreStep
    <2> QED
      BY <2>2, <2>3
  <1>4. CASE FixedFillWide
    <2>1. t = {} /\ q + width <= Len(span) /\ width > WordBytes
      BY <1>0, <1>4, <1>t DEF FixedFillWide, FixedWideFits, Left, WordBytes
    <2>2. Store(<<FixedWideValue>>, 1, q + width, q + width)
      BY <1>4 DEF FixedFillWide
    <2>3. q + width \in Nat /\ q + 1 <= q + width
      BY <1>0, <2>1 DEF WordBytes
    <2> QED
      BY <2>1, <2>2, <2>3, StoreStep
  <1>5. CASE Swar
    <2>1. t = {} /\ q + WordBytes <= Len(span) /\ q + WordBytes \in Nat
      BY <1>0, <1>5, <1>t DEF Swar, SwarFits, Left, WordBytes
    <2>2. StoreOne(read_varint_packed(q), q, q + WordBytes)
      BY <1>5 DEF Swar
    <2>3. read_varint_packed(q).err = None =>
            /\ read_varint_packed(q).next \in Nat
            /\ q < read_varint_packed(q).next /\ read_varint_packed(q).next <= Len(span)
      BY <1>0, <2>1, ReadPackedFacts
    <2> QED
      BY <2>1, <2>2, <2>3, StoreOneStep
  <1>6. CASE ByteLoop
    <2>1. t = {}
      BY <1>6, <1>t DEF ByteLoop
    <2>2. StoreOne(read_varint(span, q), q, read_to)
      BY <1>6 DEF ByteLoop
    <2>3. read_varint(span, q).err = None =>
            /\ read_varint(span, q).next \in Nat
            /\ q < read_varint(span, q).next /\ read_varint(span, q).next <= Len(span)
      BY <1>0, ReadVarintFacts
    <2> QED
      BY <1>0, <2>1, <2>2, <2>3, StoreOneStep
  <1> QED
    BY <1>1, <1>2, <1>3, <1>4, <1>5, <1>6

\* A new block: its window and a further word are in the span.
LEMMA StructBlockStep ==
    ASSUME IInv, StructBlock
    PROVE  IInv'
  <1>1. /\ q \in Nat /\ Len(span) \in Nat /\ Window \in Nat
        /\ q + Window + WordBytes <= Len(span)
    BY DEF IInv, StructBlock, StructFits, StructRoom, Left, WordBytes
  <1>2. t' # {} /\ t' \subseteq 0 .. (Window - 1) /\ start' = 0
    BY DEF StructBlock, StructFits, Stops
  <1>3. start = 0
    BY DEF IInv, BlockInSpan, StructBlock
  <1>4. read_to' \in Nat /\ read_to' <= Len(span)
    BY <1>1 DEF StructBlock, WordBytes
  <1> QED
    BY <1>1, <1>2, <1>3, <1>4 DEF IInv, BlockInSpan, StructBlock

\* One varint of a block: the word at its start is in the span.
LEMMA StructVarintStep ==
    ASSUME IInv, StructVarint
    PROVE  IInv'
  <1> DEFINE b == Min(t)
             len == b - start + 1
             v == IF len <= WordBytes
                  THEN Ok(q + b + 1, compact7(Lanes(q + start, len)))
                  ELSE read_varint_packed(q + start)
  <1>1. /\ q \in Nat /\ Len(span) \in Nat /\ Window \in Nat /\ start \in Nat /\ n \in Nat
        /\ n <= q + start /\ q + Window + WordBytes <= Len(span)
        /\ t # {} /\ t \subseteq start .. (Window - 1)
    BY DEF IInv, BlockInSpan, StructVarint
  <1>2. b \in t /\ (\A y \in t : b <= y) /\ b \in Nat /\ start <= b /\ b <= Window - 1
    <2>1. t \subseteq Nat
      BY <1>1
    <2>2. b \in t /\ \A y \in t : b <= y
      BY <1>1, <2>1, MinIsLeast
    <2> HIDE DEF b
    <2> QED
      BY <1>1, <2>1, <2>2
  <1>3. CASE v.err # None
    BY <1>3, FailStep DEF StructVarint
  <1>4. CASE v.err = None
    <2>1. /\ n' = n + 1 /\ t' = t \ {b} /\ start' = IF t' = {} THEN 0 ELSE b + 1
          /\ q' = (IF t' = {} THEN q + b + 1 ELSE q) /\ read_to' = q + start + WordBytes
          /\ span' = span /\ q_start' = q_start /\ kern' = kern /\ width' = width
      BY <1>4 DEF StructVarint
    <2> HIDE DEF b, v
    <2>2. \A y \in t' : b + 1 <= y /\ y <= Window - 1 /\ y \in Nat
      BY <1>1, <1>2, <2>1
    <2>0. WordBytes = 8 /\ read_to' \in Nat /\ read_to' <= Len(span)
      BY <1>1, <1>2, <2>1 DEF WordBytes
    <2>3. CASE t' = {}
      <3>1. /\ q' = q + b + 1 /\ start' = 0 /\ q' \in Nat /\ q' <= Len(span)
            /\ n' \in Nat /\ n' <= q' + start' /\ q <= q'
        BY <1>1, <1>2, <2>0, <2>1, <2>3
      <3>2. BlockInSpan'
        BY <2>3, <3>1 DEF BlockInSpan
      <3>3. /\ span \in Seq(Byte) /\ q_start \in Nat /\ q_start <= q /\ q \in Nat
            /\ kern \in Kernels \cup {"Classify", "Tail", "Done"} /\ width \in Nat
            /\ kern = "Fixed" => width \in 3 .. VarintBytes
        BY DEF IInv
      <3>4. q_start <= q'
        BY <3>1, <3>3
      <3> QED
        BY <2>0, <2>1, <3>1, <3>2, <3>3, <3>4 DEF IInv
    <2>4. CASE t' # {}
      <3>1. t' \subseteq start' .. (Window - 1) /\ start' \in Nat
        BY <1>1, <1>2, <2>1, <2>2, <2>4
      <3>2. n' \in Nat /\ n' <= q' + start' /\ q' = q
        <4>1. n' = n + 1 /\ start' = b + 1 /\ q' = q
          BY <2>1, <2>4
        <4>2. n \in Nat /\ q \in Nat /\ b \in Nat /\ start \in Nat /\ start <= b
              /\ n <= q + start
          BY <1>1, <1>2
        <4> QED
          BY <4>1, <4>2
      <3>3. q + Window + WordBytes <= Len(span) /\ kern = "Struct"
        BY <1>1 DEF StructVarint
      <3> QED
        BY <2>0, <2>1, <2>4, <3>1, <3>2, <3>3 DEF IInv, BlockInSpan
    <2> QED
      BY <2>3, <2>4
  <1> QED
    BY <1>3, <1>4

\* A kernel is left with no block in flight.
LEMMA LeaveStep ==
    ASSUME IInv, Leave
    PROVE  IInv'
  <1>1. t = {}
    <2>1. kern = "Struct" => t = {}
      BY DEF Leave, Fits
    <2> QED
      BY <2>1 DEF IInv, BlockInSpan, Leave
  <1>2. kern' \in {"Classify", "Tail"} /\ t' = {}
    BY <1>1 DEF Leave
  <1> QED
    BY <1>1, <1>2 DEF IInv, BlockInSpan, Leave, Kernels

\* The three properties of memory safety follow from one invariant.
THEOREM PackedInvariant == PackedSpec => []IInv
  <1>1. IInv /\ [PackedNext]_packed_vars => IInv'
    <2> SUFFICES ASSUME IInv, [PackedNext]_packed_vars PROVE IInv'
      OBVIOUS
    <2>1. CASE Classify
      BY <2>1, ClassifyStep
    <2>2. CASE Bulk1 \/ Bulk2 \/ FixedFill \/ FixedFillWide \/ Swar \/ ByteLoop
      BY <2>2, KernelSteps
    <2>3. CASE StructBlock
      BY <2>3, StructBlockStep
    <2>4. CASE StructVarint
      BY <2>4, StructVarintStep
    <2>5. CASE Leave
      BY <2>5, LeaveStep
    <2>6. CASE Finish
      BY <2>6 DEF Finish, IInv, BlockInSpan, Kernels
    <2>7. CASE UNCHANGED packed_vars
      BY <2>7 DEF packed_vars, IInv, BlockInSpan
    <2> QED
      BY <2>1, <2>2, <2>3, <2>4, <2>5, <2>6, <2>7 DEF PackedNext
  <1> QED
    BY InitIInv, <1>1, PTL DEF PackedSpec

\* A varint of a block begins inside its window.
LEMMA StartInWindow ==
    ASSUME IInv
    PROVE  /\ start \in 0 .. Window
           /\ t # {} => start < Window
  <1>1. start \in Nat /\ Window \in Nat /\ t \subseteq start .. (Window - 1)
    BY DEF IInv, BlockInSpan
  <1>2. CASE t = {}
    BY <1>1, <1>2 DEF IInv, BlockInSpan
  <1>3. CASE t # {}
    <2>1. PICK y \in t : y \in start .. (Window - 1)
      BY <1>1, <1>3
    <2> QED
      BY <1>1, <2>1
  <1> QED
    BY <1>2, <1>3

\* The kernels keep their types; a fixed-stride kernel runs for widths 3 to 10 only.
THEOREM PackedTypes == PackedSpec => []PackedTypeOK
  <1>1. IInv => PackedTypeOK
    <2> SUFFICES ASSUME IInv PROVE PackedTypeOK
      OBVIOUS
    <2>1. t \subseteq 0 .. (Window - 1)
      BY DEF IInv, BlockInSpan
    <2> QED
      BY <2>1, StartInWindow DEF IInv, PackedTypeOK, Kernels
  <1> QED
    BY PackedInvariant, <1>1, PTL

\* No kernel loads a byte behind the end of a packed span, whatever the span.
THEOREM KernelsLoadInSpan == PackedSpec => []LoadsInSpan
  <1>1. IInv => LoadsInSpan
    BY DEF IInv, LoadsInSpan
  <1> QED
    BY PackedInvariant, <1>1, PTL

\* No kernel stores more elements than the span has bytes, the size of the array.
THEOREM KernelsStoreInArray == PackedSpec => []StoresFit
  <1>1. IInv => StoresFit
    <2> SUFFICES ASSUME IInv PROVE StoresFit
      OBVIOUS
    <2>1. /\ q \in Nat /\ Len(span) \in Nat /\ start \in Nat /\ Window \in Nat
          /\ n \in Nat /\ n <= q + start /\ q <= Len(span)
      BY DEF IInv, BlockInSpan
    <2>2. CASE t = {}
      BY <2>1, <2>2 DEF IInv, BlockInSpan, StoresFit
    <2>3. CASE t # {}
      <3>1. start < Window /\ q + Window + WordBytes <= Len(span)
        BY <2>3, StartInWindow DEF IInv, BlockInSpan
      <3> QED
        BY <2>1, <3>1 DEF StoresFit, WordBytes
    <2> QED
      BY <2>2, <2>3
  <1> QED
    BY PackedInvariant, <1>1, PTL


-----------------------------------------------------------------------------
(* The values the word arithmetic computes.                                *)

\* One part of a sum of weighted lanes, multiplied out.
LEMMA Distribute ==
    ASSUME NEW a \in Int, NEW b \in Int, NEW v \in Int, NEW w \in Int, NEW x \in Int, x = v * w
    PROVE  v * (a + w * b) = a * v + b * x
  <1>1. v * (a + w * b) = v * a + v * (w * b)
    OBVIOUS
  <1>2. v * (w * b) = b * (v * w)
    OBVIOUS
  <1> QED BY <1>1, <1>2

\* The weights of the lanes of a word are products of those of the three rounds.
LEMMA WeightProducts ==
    /\ \A k \in 0 .. 9 : Weight(k) \in Nat
    /\ Weight(0) = 1 /\ Weight(1) = Radix
    /\ Weight(3) = Weight(2) * Weight(1)
    /\ Weight(5) = Weight(4) * Weight(1) /\ Weight(6) = Weight(4) * Weight(2)
    /\ Weight(7) = Weight(4) * Weight(3)
  <1>1. Radix \in Nat
    BY WireAssumption
  <1>2. \A k \in 0 .. 9 : Weight(k) \in Nat
    <2> TAKE k \in 0 .. 9
    <2>1. k \in Nat
      OBVIOUS
    <2> QED BY <2>1, WeightFacts
  <1>3. Weight(0) = 1 /\ \A k \in Nat : Weight(k + 1) = Radix * Weight(k)
    BY WeightFacts
  <1>4. /\ Weight(0 + 1) = Radix * Weight(0) /\ Weight(1 + 1) = Radix * Weight(1)
        /\ Weight(2 + 1) = Radix * Weight(2) /\ Weight(3 + 1) = Radix * Weight(3)
        /\ Weight(4 + 1) = Radix * Weight(4) /\ Weight(5 + 1) = Radix * Weight(5)
        /\ Weight(6 + 1) = Radix * Weight(6)
    BY <1>3
  <1> DEFINE w1 == Weight(1)
             w2 == Weight(2)
             w3 == Weight(3)
             w4 == Weight(4)
             w5 == Weight(5)
             w6 == Weight(6)
             w7 == Weight(7)
  <1>5. /\ w1 \in Nat /\ w2 \in Nat /\ w3 \in Nat /\ w4 \in Nat /\ w5 \in Nat /\ w6 \in Nat /\ w7 \in Nat
        /\ w1 = Radix /\ w2 = Radix * w1 /\ w3 = Radix * w2 /\ w4 = Radix * w3 /\ w5 = Radix * w4
        /\ w6 = Radix * w5 /\ w7 = Radix * w6
    BY <1>1, <1>2, <1>3, <1>4
  <1> HIDE DEF w1, w2, w3, w4, w5, w6, w7
  <1>6. w3 = w2 * w1 /\ w5 = w4 * w1 /\ w6 = w4 * w2 /\ w7 = w4 * w3
    BY <1>1, <1>5
  <1> QED
    BY <1>2, <1>3, <1>5, <1>6 DEF w1, w2, w3, w4, w5, w6, w7

\* The three rounds of compact7 add the eight lanes up, each with its weight.
LEMMA CompactSum ==
    ASSUME NEW x \in [1 .. WordBytes -> Nat]
    PROVE  /\ compact7(x) = x[1] + x[2] * Weight(1) + x[3] * Weight(2) + x[4] * Weight(3)
                          + x[5] * Weight(4) + x[6] * Weight(5) + x[7] * Weight(6) + x[8] * Weight(7)
           /\ Compacted(x, Weight(1)) = [i \in 1 .. 4 |-> x[2 * i - 1] + Weight(1) * x[2 * i]]
  <1> DEFINE w1 == Weight(1)
             w2 == Weight(2)
             w3 == Weight(3)
             w4 == Weight(4)
             w5 == Weight(5)
             w6 == Weight(6)
             w7 == Weight(7)
  <1>1. /\ w1 \in Nat /\ w2 \in Nat /\ w3 \in Nat /\ w4 \in Nat /\ w5 \in Nat /\ w6 \in Nat /\ w7 \in Nat
        /\ w3 = w2 * w1 /\ w5 = w4 * w1 /\ w6 = w4 * w2 /\ w7 = w4 * w3
    <2>1. \A k \in 0 .. 9 : Weight(k) \in Nat
      BY WeightProducts
    <2> QED BY <2>1, WeightProducts
  <1>2. Len(x) = 8 /\ Len(x) \div 2 = 4
    <2>1. Len(x) = 8
      <3>1. x = [i \in 1 .. 8 |-> x[i]]
        BY DEF WordBytes
      <3>2. Len([i \in 1 .. 8 |-> x[i]]) = 8
        OBVIOUS
      <3> QED BY <3>1, <3>2
    <2> QED BY <2>1
  <1> DEFINE y == Compacted(x, w1)
             z == Compacted(y, w2)
             r == Compacted(z, w4)
  <1>3. y = [i \in 1 .. 4 |-> x[2 * i - 1] + w1 * x[2 * i]]
    <2> HIDE DEF w1
    <2> QED BY <1>2 DEF Compacted
  <1>4. Len(y) = 4 /\ Len(y) \div 2 = 2
    <2> HIDE DEF w1, y
    <2>1. Len(y) = 4
      BY <1>3
    <2> QED BY <2>1
  <1>5. z = [i \in 1 .. 2 |-> y[2 * i - 1] + w2 * y[2 * i]]
    <2> HIDE DEF w1, w2, y
    <2> QED BY <1>4 DEF Compacted
  <1>6. Len(z) = 2 /\ Len(z) \div 2 = 1
    <2> HIDE DEF w1, w2, y, z
    <2>1. Len(z) = 2
      BY <1>5
    <2> QED BY <2>1
  <1>7. r = [i \in 1 .. 1 |-> z[2 * i - 1] + w4 * z[2 * i]]
    <2> HIDE DEF w1, w2, w4, y, z
    <2> QED BY <1>6 DEF Compacted
  <1>8. compact7(x) = r[1]
    BY DEF compact7
  <1> HIDE DEF w1, w2, w3, w4, w5, w6, w7, y, z, r
  <1>9. /\ y[1] = x[1] + w1 * x[2] /\ y[2] = x[3] + w1 * x[4]
        /\ y[3] = x[5] + w1 * x[6] /\ y[4] = x[7] + w1 * x[8]
    BY <1>3
  <1>10. z[1] = y[1] + w2 * y[2] /\ z[2] = y[3] + w2 * y[4]
    BY <1>5
  <1>11. r[1] = z[1] + w4 * z[2]
    BY <1>7
  <1> DEFINE a1 == x[1]
             a2 == x[2]
             a3 == x[3]
             a4 == x[4]
             a5 == x[5]
             a6 == x[6]
             a7 == x[7]
             a8 == x[8]
  <1>12. /\ a1 \in Nat /\ a2 \in Nat /\ a3 \in Nat /\ a4 \in Nat
         /\ a5 \in Nat /\ a6 \in Nat /\ a7 \in Nat /\ a8 \in Nat
    BY DEF WordBytes
  <1>13. r[1] = ((a1 + w1 * a2) + w2 * (a3 + w1 * a4)) + w4 * ((a5 + w1 * a6) + w2 * (a7 + w1 * a8))
    BY <1>9, <1>10, <1>11
  <1> HIDE DEF a1, a2, a3, a4, a5, a6, a7, a8
  <1>14. w2 * (a3 + w1 * a4) = a3 * w2 + a4 * w3
    BY <1>1, <1>12, Distribute
  <1>15. w2 * (a7 + w1 * a8) = a7 * w2 + a8 * w3
    BY <1>1, <1>12, Distribute
  <1>16. w4 * (a5 + w1 * a6) = a5 * w4 + a6 * w5
    BY <1>1, <1>12, Distribute
  <1>17. w4 * (a7 * w2 + a8 * w3) = a7 * w6 + a8 * w7
    BY <1>1, <1>12
  <1>18. w1 * a2 = a2 * w1
    BY <1>1, <1>12
  <1>19. w4 * ((a5 + w1 * a6) + (a7 * w2 + a8 * w3)) = a5 * w4 + a6 * w5 + (a7 * w6 + a8 * w7)
    <2> DEFINE u == a5 + w1 * a6
               v == a7 * w2 + a8 * w3
    <2>1. u \in Int /\ v \in Int
      BY <1>1, <1>12
    <2>2. w4 * u = a5 * w4 + a6 * w5 /\ w4 * v = a7 * w6 + a8 * w7
      BY <1>16, <1>17
    <2>3. w4 * (u + v) = w4 * u + w4 * v
      <3> HIDE DEF u, v
      <3> QED BY <1>1, <2>1
    <2> QED BY <2>2, <2>3
  <1> DEFINE p2 == a2 * w1
             p3 == a3 * w2
             p4 == a4 * w3
             p5 == a5 * w4
             p6 == a6 * w5
             p7 == a7 * w6
             p8 == a8 * w7
  <1>20. /\ p2 \in Nat /\ p3 \in Nat /\ p4 \in Nat /\ p5 \in Nat /\ p6 \in Nat /\ p7 \in Nat /\ p8 \in Nat
         /\ r[1] = ((a1 + p2) + (p3 + p4)) + (p5 + p6 + (p7 + p8))
    BY <1>1, <1>12, <1>13, <1>14, <1>15, <1>18, <1>19
  <1> HIDE DEF p2, p3, p4, p5, p6, p7, p8
  <1>21. r[1] = a1 + p2 + p3 + p4 + p5 + p6 + p7 + p8
    BY <1>12, <1>20
  <1> QED
    BY <1>3, <1>8, <1>21 DEF p2, p3, p4, p5, p6, p7, p8, a1, a2, a3, a4, a5, a6, a7, a8,
                             w1, w2, w3, w4, w5, w6, w7, y

\* The masked lanes of a word are the bytes of the varint that begins there, without their
\* continuation bits, and zeros behind it.
LEMMA LanesFacts ==
    ASSUME span \in Seq(Byte), NEW p \in Nat, NEW len \in 1 .. WordBytes, p + len <= Len(span)
    PROVE  /\ Lanes(p, len) \in [1 .. WordBytes -> Nat]
           /\ \A i \in 1 .. len : Lanes(p, len)[i] = span[p + i] % Radix /\ span[p + i] \in Nat
           /\ \A i \in 1 .. WordBytes : i > len => Lanes(p, len)[i] = 0
  <1>1. Radix \in Nat \ {0} /\ Len(span) \in Nat /\ WordBytes = 8
    BY WireAssumption DEF WordBytes
  <1>2. \A i \in 1 .. Len(span) : span[i] \in Nat
    BY Bytes
  <1>3. ASSUME NEW i \in 1 .. len PROVE At(p + i) = span[p + i] /\ span[p + i] \in Nat
    <2>1. p + i \in 1 .. Len(span) /\ p + i <= Len(span)
      BY <1>1
    <2> QED BY <1>2, <2>1 DEF At
  <1>4. ASSUME NEW i \in 1 .. len PROVE At(p + i) % Radix \in Nat
    <2>1. At(p + i) \in Nat
      BY <1>3
    <2> QED BY <1>1, <2>1
  <1>5. ASSUME NEW i \in 1 .. WordBytes PROVE Lanes(p, len)[i] = IF i <= len THEN At(p + i) % Radix ELSE 0
    BY DEF Lanes
  <1>6. \A i \in 1 .. WordBytes : Lanes(p, len)[i] \in Nat
    <2>1. ASSUME NEW i \in 1 .. WordBytes PROVE Lanes(p, len)[i] \in Nat
      <3>1. CASE i <= len
        <4>1. i \in 1 .. len
          BY <1>1, <3>1
        <4> QED BY <1>4, <1>5, <3>1, <4>1
      <3>2. CASE ~(i <= len)
        BY <1>5, <3>2
      <3> QED BY <3>1, <3>2
    <2> QED BY <2>1
  <1>7. Lanes(p, len) \in [1 .. WordBytes -> Nat]
    <2>1. Lanes(p, len) = [i \in 1 .. WordBytes |-> Lanes(p, len)[i]]
      BY DEF Lanes
    <2> QED BY <1>6, <2>1
  <1>8. ASSUME NEW i \in 1 .. len PROVE Lanes(p, len)[i] = span[p + i] % Radix /\ span[p + i] \in Nat
    <2>1. i \in 1 .. WordBytes /\ i <= len
      BY <1>1
    <2> QED BY <1>3, <1>5, <2>1
  <1>9. ASSUME NEW i \in 1 .. WordBytes, i > len PROVE Lanes(p, len)[i] = 0
    <2>1. ~(i <= len)
      BY <1>1, <1>9
    <2> QED BY <1>5, <2>1
  <1> QED
    BY <1>7, <1>8, <1>9

\* compact7 of the masked word is the value the byte loop computes.
LEMMA LanesValue ==
    ASSUME span \in Seq(Byte), NEW p \in Nat, NEW len \in 1 .. WordBytes, p + len <= Len(span)
    PROVE  compact7(Lanes(p, len)) = VarintValue(span, p, len)
  <1>0. PICK L : L = Lanes(p, len)
    OBVIOUS
  <1>1. /\ L \in [1 .. 8 -> Nat] /\ WordBytes = 8 /\ len \in 1 .. 8
        /\ \A i \in 1 .. len : L[i] = span[p + i] % Radix
        /\ \A i \in 1 .. 8 : i > len => L[i] = 0
    BY <1>0, LanesFacts DEF WordBytes
  <1>2. PICK g \in [0 .. len -> Nat] :
          /\ g[0] = 0 /\ \A i \in 1 .. len : g[i] = g[i - 1] + (span[p + i] % Radix) * Weight(i - 1)
          /\ VarintValue(span, p, len) = g[len]
    <2>1. len \in Nat
      BY <1>1
    <2> QED BY <2>1, VarintRecursion
  <1> DEFINE h == [i \in 0 .. 8 |-> IF i <= len THEN g[i] ELSE g[len]]
  <1>3. h \in [0 .. 8 -> Nat]
    <2>1. ASSUME NEW i \in 0 .. 8 PROVE (IF i <= len THEN g[i] ELSE g[len]) \in Nat
      <3>1. i <= len => i \in 0 .. len
        BY <1>1
      <3>2. len \in 0 .. len
        BY <1>1
      <3> QED BY <3>1, <3>2
    <2> QED BY <2>1
  <1>4. ASSUME NEW i \in 1 .. 8 PROVE h[i] = h[i - 1] + L[i] * Weight(i - 1)
    <2>1. CASE i <= len
      <3>0. i \in 1 .. len /\ i \in 0 .. 8 /\ i - 1 \in 0 .. 8 /\ i - 1 <= len
        <4>1. len \in 1 .. 8
          BY <1>1
        <4> QED BY <2>1, <4>1
      <3>1. i \in 1 .. len /\ h[i] = g[i] /\ h[i - 1] = g[i - 1] /\ L[i] = span[p + i] % Radix
        BY <1>1, <2>1, <3>0
      <3> HIDE DEF h
      <3> QED BY <1>2, <3>1
    <2>2. CASE ~(i <= len)
      <3>0. i > len /\ i \in 0 .. 8 /\ i - 1 \in 0 .. 8 /\ len \in 0 .. len /\ (i - 1 <= len => i - 1 = len)
        <4>1. len \in 1 .. 8
          BY <1>1
        <4> QED BY <2>2, <4>1
      <3>1. h[i] = g[len] /\ h[i - 1] = g[len] /\ L[i] = 0 /\ g[len] \in Nat
        BY <1>1, <2>2, <3>0
      <3>2. Weight(i - 1) \in Nat
        <4>1. i - 1 \in 0 .. 9
          OBVIOUS
        <4> QED BY <4>1, WeightProducts
      <3> HIDE DEF h
      <3> QED BY <3>1, <3>2
    <2> QED BY <2>1, <2>2
  <1>5. h[0] = 0 /\ h[8] = g[len]
    BY <1>1, <1>2
  <1> HIDE DEF h
  <1>6. /\ h[1] = h[0] + L[1] * Weight(0) /\ h[2] = h[1] + L[2] * Weight(1)
        /\ h[3] = h[2] + L[3] * Weight(2) /\ h[4] = h[3] + L[4] * Weight(3)
        /\ h[5] = h[4] + L[5] * Weight(4) /\ h[6] = h[5] + L[6] * Weight(5)
        /\ h[7] = h[6] + L[7] * Weight(6) /\ h[8] = h[7] + L[8] * Weight(7)
    BY <1>4
  <1> DEFINE p1 == L[1]
             p2 == L[2] * Weight(1)
             p3 == L[3] * Weight(2)
             p4 == L[4] * Weight(3)
             p5 == L[5] * Weight(4)
             p6 == L[6] * Weight(5)
             p7 == L[7] * Weight(6)
             p8 == L[8] * Weight(7)
  <1>7. compact7(L) = p1 + p2 + p3 + p4 + p5 + p6 + p7 + p8
    BY <1>1, CompactSum
  <1>8. L[1] * Weight(0) = p1
    BY <1>1, WeightProducts
  <1>9. /\ p1 \in Int /\ p2 \in Int /\ p3 \in Int /\ p4 \in Int
        /\ p5 \in Int /\ p6 \in Int /\ p7 \in Int /\ p8 \in Int
    <2>1. /\ L[1] \in Nat /\ L[2] \in Nat /\ L[3] \in Nat /\ L[4] \in Nat
          /\ L[5] \in Nat /\ L[6] \in Nat /\ L[7] \in Nat /\ L[8] \in Nat
      BY <1>1
    <2>2. /\ Weight(1) \in Nat /\ Weight(2) \in Nat /\ Weight(3) \in Nat /\ Weight(4) \in Nat
          /\ Weight(5) \in Nat /\ Weight(6) \in Nat /\ Weight(7) \in Nat
      BY WeightProducts
    <2>3. \A a, b \in Nat : a * b \in Int
      OBVIOUS
    <2>4. /\ L[2] * Weight(1) \in Int /\ L[3] * Weight(2) \in Int /\ L[4] * Weight(3) \in Int
          /\ L[5] * Weight(4) \in Int /\ L[6] * Weight(5) \in Int /\ L[7] * Weight(6) \in Int
          /\ L[8] * Weight(7) \in Int
      BY <2>1, <2>2, <2>3, Zenon
    <2>5. L[1] \in Int
      <3>1. \A a \in Nat : a \in Int
        OBVIOUS
      <3> QED BY <2>1, <3>1, Zenon
    <2> QED BY <2>4, <2>5, Zenon
  <1>10. /\ h[1] = h[0] + p1 /\ h[2] = h[1] + p2 /\ h[3] = h[2] + p3 /\ h[4] = h[3] + p4
         /\ h[5] = h[4] + p5 /\ h[6] = h[5] + p6 /\ h[7] = h[6] + p7 /\ h[8] = h[7] + p8
    BY <1>6, <1>8
  <1> HIDE DEF p1, p2, p3, p4, p5, p6, p7, p8
  <1>11. h[8] = p1 + p2 + p3 + p4 + p5 + p6 + p7 + p8
    BY <1>3, <1>5, <1>9, <1>10
  <1> QED
    BY <1>0, <1>2, <1>5, <1>7, <1>11

-----------------------------------------------------------------------------
(* The byte loop, place by place.                                          *)

\* What the loop holds.
State(vals, next, e, p) == [vals |-> vals, next |-> next, err |-> e, fail_off |-> p]

\* Before its first byte.
AtFirst == State(<<>>, 0, None, 0)

Decoded ==
    [vals : Seq(Nat), next : Nat, err : {None, "VarintOverflow", "TruncatedVarint"}, fail_off : Nat]

\* D[k] is what the byte loop has decoded when it has passed k bytes of s.
Loop(s, D) == D[0] = AtFirst /\ \A k \in 1 .. Len(s) : D[k] = AtPlace(D[k - 1], s, k - 1)

\* With c bytes of s passed, the byte loop has delivered the values o and begins a varint.
Follows(s, c, o) ==
    \A D : Loop(s, D) => D[c] = State(o, c, None, 0)

\* A place of the loop keeps the types of what it has decoded.
LEMMA PlaceTypes ==
    ASSUME NEW s \in Seq(Byte), NEW p \in Nat, NEW d \in Decoded
    PROVE  AtPlace(d, s, p) \in Decoded
  <1>0. PICK v : v = read_varint(s, p)
    OBVIOUS
  <1>1. CASE p # d.next \/ d.err # None
    BY <1>1 DEF AtPlace
  <1>2. CASE ~(p # d.next \/ d.err # None) /\ v.err # None
    <2>1. v.err \in {"VarintOverflow", "TruncatedVarint"}
      BY <1>0, <1>2, VarintFacts
    <2>2. AtPlace(d, s, p) = [d EXCEPT !.err = v.err, !.fail_off = p]
      BY <1>0, <1>2 DEF AtPlace
    <2> QED BY <2>1, <2>2 DEF Decoded
  <1>3. CASE ~(p # d.next \/ d.err # None) /\ v.err = None
    <2>1. v.val \in Nat /\ v.next \in (p + 1) .. Len(s)
      BY <1>0, <1>3, VarintFacts DEF None
    <2>2. v.next \in Nat
      BY <2>1
    <2>3. AtPlace(d, s, p) = [d EXCEPT !.vals = Append(@, v.val), !.next = v.next]
      BY <1>0, <1>3 DEF AtPlace
    <2>4. Append(d.vals, v.val) \in Seq(Nat)
      BY <2>1 DEF Decoded
    <2> QED BY <2>2, <2>3, <2>4 DEF Decoded
  <1> QED
    BY <1>1, <1>2, <1>3

\* The byte loop of a span exists, and decode_packed_varints_small is where it ends.
LEMMA LoopExists ==
    ASSUME NEW s \in Seq(Byte)
    PROVE  \E D : Loop(s, D) /\ decode_packed_varints_small(s) = D[Len(s)]
  <1> DEFINE len == Len(s)
             Body(f, k) == IF k = 0 THEN AtFirst ELSE AtPlace(f[k - 1], s, k - 1)
             step == [k \in 1 .. len |-> [d \in Decoded |-> AtPlace(d, s, k - 1)]]
             w == CHOOSE f : f = [k \in 0 .. len |-> Body(f, k)]
  <1>1. len \in Nat
    OBVIOUS
  <1>2. AtFirst \in Decoded
    BY DEF AtFirst, Decoded, State
  <1>3. step \in [1 .. len -> [Decoded -> Decoded]]
    <2>1. ASSUME NEW k \in 1 .. len, NEW d \in Decoded PROVE AtPlace(d, s, k - 1) \in Decoded
      <3>1. k - 1 \in Nat
        BY <1>1
      <3> QED BY <3>1, PlaceTypes
    <2> HIDE DEF len
    <2> QED BY <2>1
  <1>4. PICK g : g \in [0 .. len -> Decoded] /\ g[0] = AtFirst /\ \A k \in 1 .. len : g[k] = step[k][g[k - 1]]
    <2> HIDE DEF step, len
    <2>1. \E g : Iterates(g, len, Decoded, AtFirst, step)
      BY <1>1, <1>2, <1>3, RecursionExists
    <2> QED BY <2>1 DEF Iterates
  <1> HIDE DEF len
  <1>5. ASSUME NEW k \in 0 .. len PROVE g[k] = Body(g, k)
    <2>1. k = 0 \/ (k \in 1 .. len /\ g[k - 1] \in Decoded)
      BY <1>1, <1>4
    <2> QED BY <1>4, <2>1
  <1> HIDE DEF Body, step
  <1>6. g = [k \in 0 .. len |-> Body(g, k)]
    BY <1>4, <1>5
  <1>7. w = [k \in 0 .. len |-> Body(w, k)]
    BY <1>6
  <1>8. decode_packed_varints_small(s) = w[len]
    BY DEF decode_packed_varints_small, Body, AtFirst, len, State
  <1> HIDE DEF w
  <1>9. ASSUME NEW k \in 0 .. len PROVE w[k] = Body(w, k)
    BY <1>7
  <1>10. w[0] = AtFirst
    <2>1. 0 \in 0 .. len
      BY <1>1
    <2> QED BY <1>9, <2>1 DEF Body
  <1>11. ASSUME NEW k \in 1 .. len PROVE w[k] = AtPlace(w[k - 1], s, k - 1)
    <2>1. k \in 0 .. len /\ k # 0
      BY <1>1
    <2> QED BY <1>9, <2>1 DEF Body
  <1> QED
    BY <1>8, <1>10, <1>11 DEF Loop, len

\* The place where a varint begins delivers it.
LEMMA PlaceStores ==
    ASSUME NEW s, NEW c, NEW o, NEW next, NEW val, read_varint(s, c) = Ok(next, val),
           NEW d, d = State(o, c, None, 0)
    PROVE  AtPlace(d, s, c) = State(Append(o, val), next, None, 0)
  <1>0. PICK x : x = Append(o, val)
    OBVIOUS
  <1> DEFINE S == {"vals", "next", "err", "fail_off"}
             e == [d EXCEPT !.vals = x, !.next = next]
             r == [vals |-> x, next |-> next, err |-> None, fail_off |-> 0]
  <1>1. \A i \in S : e[i] = r[i]
    <2>1. e.vals = x /\ e.next = next /\ e.err = None /\ e.fail_off = 0
      BY DEF State
    <2>2. r.vals = x /\ r.next = next /\ r.err = None /\ r.fail_off = 0
      OBVIOUS
    <2> HIDE DEF e, r
    <2> QED BY <2>1, <2>2
  <1>2. r = [i \in S |-> r[i]] /\ e = [i \in S |-> e[i]]
    BY DEF State
  <1>3. AtPlace(d, s, c) = e
    <2>1. d.next = c /\ d.err = None /\ d.vals = o
      BY DEF State
    <2>2. PICK v : v = read_varint(s, c)
      OBVIOUS
    <2>3. v.err = None /\ v.val = val /\ v.next = next
      BY <2>2 DEF Ok
    <2>4. AtPlace(d, s, c) = [d EXCEPT !.vals = Append(@, v.val), !.next = v.next]
      BY <2>1, <2>2, <2>3 DEF AtPlace
    <2> QED BY <1>0, <2>1, <2>3, <2>4
  <1> HIDE DEF e, r, S
  <1>4. e = r
    BY <1>1, <1>2
  <1> QED BY <1>0, <1>3, <1>4 DEF r, State

\* The place where a malformed varint begins notes the error.
LEMMA PlaceRejects ==
    ASSUME NEW s, NEW c, NEW o, NEW x, x = read_varint(s, c), NEW f, f = x.err, f # None,
           NEW d, d = State(o, c, None, 0)
    PROVE  AtPlace(d, s, c) = State(o, c, f, c)
  <1> DEFINE S == {"vals", "next", "err", "fail_off"}
             e == [d EXCEPT !.err = f, !.fail_off = c]
             r == [vals |-> o, next |-> c, err |-> f, fail_off |-> c]
  <1>1. \A i \in S : e[i] = r[i]
    <2>1. e.vals = o /\ e.next = c /\ e.err = f /\ e.fail_off = c
      BY DEF State
    <2>2. r.vals = o /\ r.next = c /\ r.err = f /\ r.fail_off = c
      OBVIOUS
    <2> HIDE DEF e, r
    <2> QED BY <2>1, <2>2
  <1>2. r = [i \in S |-> r[i]] /\ e = [i \in S |-> e[i]]
    BY DEF State
  <1>3. AtPlace(d, s, c) = e
    <2>1. d.next = c /\ d.err = None
      BY DEF State
    <2> QED BY <2>1 DEF AtPlace
  <1> HIDE DEF e, r, S
  <1>4. e = r
    BY <1>1, <1>2
  <1> QED BY <1>3, <1>4 DEF r, State

\* Inside a varint, and behind an error, the loop keeps what it has.
LEMMA LoopStays ==
    ASSUME NEW s \in Seq(Byte), NEW D, Loop(s, D), NEW a \in Nat, NEW b \in Nat, a <= b, b <= Len(s),
           D[a].err # None \/ (D[a].next \in Nat /\ D[a].next >= b)
    PROVE  D[b] = D[a]
  <1> DEFINE m == b - a
             T == {i \in 0 .. m : D[a + i] = D[a]}
  <1>1. m \in Nat /\ a + m = b /\ Len(s) \in Nat
    OBVIOUS
  <1>2. 0 \in T
    <2>1. a + 0 = a
      OBVIOUS
    <2> QED BY <1>1, <2>1
  <1>3. ASSUME NEW i \in 1 .. m, i - 1 \in T PROVE i \in T
    <2>1. /\ a + i \in 1 .. Len(s) /\ (a + i) - 1 = a + (i - 1) /\ i \in 0 .. m
          /\ (a + i) - 1 < b /\ (a + i) - 1 \in Nat
      BY <1>1
    <2>2. D[(a + i) - 1] = D[a]
      BY <1>3, <2>1
    <2>3. D[a + i] = AtPlace(D[a], s, (a + i) - 1)
      BY <2>1, <2>2 DEF Loop
    <2>4. (a + i) - 1 # D[a].next \/ D[a].err # None
      BY <2>1
    <2>5. D[a + i] = D[a]
      BY <2>3, <2>4 DEF AtPlace
    <2> QED BY <2>1, <2>5
  <1>4. m \in T
    <2> HIDE DEF T, m
    <2>1. \A i \in 0 .. m : i \in T
      BY <1>1, <1>2, <1>3, UpTo
    <2> QED BY <1>1, <2>1
  <1> QED
    BY <1>1, <1>4

\* The loop begins a varint at the first byte.
LEMMA FollowsStart ==
    ASSUME NEW s
    PROVE  Follows(s, 0, <<>>)
  BY DEF Follows, Loop, AtFirst

\* A kernel that takes the varint the byte loop begins stays with it.
LEMMA FollowsStep ==
    ASSUME NEW s \in Seq(Byte), NEW c \in Nat, NEW o, Follows(s, c, o),
           NEW next \in Nat, NEW val, read_varint(s, c) = Ok(next, val), c < next, next <= Len(s)
    PROVE  Follows(s, next, Append(o, val))
  <1> SUFFICES ASSUME NEW D, Loop(s, D)
               PROVE  D[next] = State(Append(o, val), next, None, 0)
    BY DEF Follows
  <1>1. D[c] = State(o, c, None, 0)
    BY DEF Follows
  <1>2. c + 1 \in 1 .. Len(s) /\ (c + 1) - 1 = c
    OBVIOUS
  <1>3. D[c + 1] = AtPlace(D[c], s, c)
    BY <1>2 DEF Loop
  <1>4. D[c + 1] = State(Append(o, val), next, None, 0)
    <2>1. PICK d : d = D[c]
      OBVIOUS
    <2>2. d = State(o, c, None, 0)
      BY <1>1, <2>1
    <2>3. AtPlace(d, s, c) = State(Append(o, val), next, None, 0)
      BY <2>2, PlaceStores
    <2> QED BY <1>3, <2>1, <2>3
  <1>5. D[next] = D[c + 1]
    <2>1. D[c + 1].next = next /\ c + 1 \in Nat /\ c + 1 <= next /\ next >= next
      BY <1>4 DEF State
    <2> QED BY <2>1, LoopStays
  <1> QED
    BY <1>4, <1>5

\* The byte loop rejects the varint the kernel rejects, and that is how it ends.
LEMMA FollowsFail ==
    ASSUME NEW s \in Seq(Byte), NEW c \in Nat, NEW o, Follows(s, c, o), c < Len(s),
           NEW x, x = read_varint(s, c), NEW e, e = x.err, e # None
    PROVE  decode_packed_varints_small(s) = State(o, c, e, c)
  <1>0. PICK D : Loop(s, D) /\ decode_packed_varints_small(s) = D[Len(s)]
    BY LoopExists
  <1>1. D[c] = State(o, c, None, 0)
    BY <1>0 DEF Follows
  <1>2. c + 1 \in 1 .. Len(s) /\ (c + 1) - 1 = c /\ Len(s) \in Nat
    OBVIOUS
  <1>3. D[c + 1] = AtPlace(D[c], s, c)
    BY <1>0, <1>2 DEF Loop
  <1>4. D[c + 1] = State(o, c, e, c)
    <2>1. PICK d : d = D[c]
      OBVIOUS
    <2>2. d = State(o, c, None, 0)
      BY <1>1, <2>1
    <2>3. AtPlace(d, s, c) = State(o, c, e, c)
      BY <2>2, PlaceRejects
    <2> QED BY <1>3, <2>1, <2>3
  <1>5. D[Len(s)] = D[c + 1]
    <2>1. D[c + 1].err # None /\ c + 1 \in Nat /\ c + 1 <= Len(s)
      BY <1>2, <1>4 DEF State
    <2> QED BY <1>0, <1>2, <2>1, LoopStays
  <1> QED
    BY <1>0, <1>4, <1>5

\* At the end of the span the values are all there.
LEMMA FollowsEnd ==
    ASSUME NEW s \in Seq(Byte), NEW o, Follows(s, Len(s), o)
    PROVE  decode_packed_varints_small(s) = State(o, Len(s), None, 0)
  BY LoopExists DEF Follows

-----------------------------------------------------------------------------
(* What a kernel reads is what read_varint reads.                          *)

\* A varint without its last byte, and this byte's share.
LEMMA VarintSplit ==
    ASSUME NEW s \in Seq(Byte), NEW p \in Nat, NEW m \in Nat, p + m + 1 <= Len(s)
    PROVE  /\ VarintValue(s, p, 0) = 0 /\ VarintValue(s, p, m) \in Nat
           /\ VarintValue(s, p, m + 1) = VarintValue(s, p, m) + (s[p + (m + 1)] % Radix) * Weight(m)
  <1>0. Len(s) \in Nat /\ m + 1 \in Nat
    OBVIOUS
  <1>1. VarintValue(s, p, 0) = 0
    <2>1. p + 0 <= Len(s) /\ 0 \in Nat
      BY <1>0
    <2>2. ASSUME NEW z \in Nat, z = 0 PROVE VarintValue(s, p, z) = 0
      <3>1. p + z <= Len(s)
        BY <2>1, <2>2
      <3>2. PICK g \in [0 .. z -> Nat] :
              /\ g[0] = 0 /\ \A i \in 1 .. z : g[i] = g[i - 1] + (s[p + i] % Radix) * Weight(i - 1)
              /\ VarintValue(s, p, z) = g[z]
        <4> HIDE <2>2
        <4> QED BY <3>1, VarintRecursion
      <3> QED BY <2>2, <3>2
    <2> QED BY <2>2
  <1>2. PICK g \in [0 .. m -> Nat] :
          /\ g[0] = 0 /\ \A i \in 1 .. m : g[i] = g[i - 1] + (s[p + i] % Radix) * Weight(i - 1)
          /\ VarintValue(s, p, m) = g[m]
    <2>1. p + m <= Len(s)
      BY <1>0
    <2> QED BY <2>1, VarintRecursion
  <1>3. PICK h \in [0 .. (m + 1) -> Nat] :
          /\ h[0] = 0 /\ \A i \in 1 .. (m + 1) : h[i] = h[i - 1] + (s[p + i] % Radix) * Weight(i - 1)
          /\ VarintValue(s, p, m + 1) = h[m + 1]
    <2>1. p + (m + 1) <= Len(s)
      BY <1>0
    <2> QED BY <1>0, <2>1, VarintRecursion
  <1> DEFINE T == {i \in 0 .. m : h[i] = g[i]}
  <1>4. 0 \in T
    BY <1>2, <1>3
  <1>5. ASSUME NEW i \in 1 .. m, i - 1 \in T PROVE i \in T
    <2>1. i \in 1 .. (m + 1) /\ i \in 0 .. m /\ h[i - 1] = g[i - 1]
      BY <1>5
    <2>2. h[i] = g[i]
      BY <1>2, <1>3, <2>1
    <2> QED BY <2>1, <2>2
  <1>6. h[m] = g[m] /\ g[m] \in Nat
    <2> HIDE DEF T
    <2>1. \A i \in 0 .. m : i \in T
      BY <1>4, <1>5, UpTo
    <2>2. m \in 0 .. m
      OBVIOUS
    <2> QED BY <2>1, <2>2 DEF T
  <1>7. h[m + 1] = h[m] + (s[p + (m + 1)] % Radix) * Weight(m)
    <2>1. m + 1 \in 1 .. (m + 1) /\ (m + 1) - 1 = m
      OBVIOUS
    <2> QED BY <1>3, <2>1
  <1> QED
    BY <1>1, <1>2, <1>3, <1>6, <1>7

\* A load inside the span sees its bytes.
LEMMA LoadInSpan ==
    ASSUME span \in Seq(Byte), NEW p \in Nat, NEW i \in Nat, i >= 1, p + i <= Len(span)
    PROVE  At(p + i) = span[p + i] /\ span[p + i] \in Nat /\ (Continues(p + i) <=> span[p + i] >= Radix)
  <1>1. Len(span) \in Nat /\ p + i \in 1 .. Len(span) /\ p + i <= Len(span)
    OBVIOUS
  <1>2. span[p + i] \in Nat
    BY <1>1, Bytes
  <1> QED
    BY <1>1, <1>2 DEF At, Continues

\* The compare with kOneVarint finds a varint of this width.
LEMMA OneReads ==
    ASSUME span \in Seq(Byte), NEW p \in Nat, NEW w \in 1 .. VarintBytes, p + w <= Len(span),
           IsOne(p, w), LastByteFits(w, At(p + w))
    PROVE  read_varint(span, p) = Ok(p + w, VarintValue(span, p, w))
  <1>1. Radix \in Nat /\ w \in Nat /\ w >= 1 /\ Len(span) \in Nat
    BY WireAssumption
  <1>2. ASSUME NEW i \in 1 .. (w - 1) PROVE span[p + i] >= Radix
    <2>1. i \in Nat /\ i >= 1 /\ p + i <= Len(span)
      BY <1>1
    <2> QED BY <2>1, LoadInSpan DEF IsOne
  <1>3. At(p + w) = span[p + w] /\ span[p + w] \in Nat /\ ~(span[p + w] >= Radix)
    BY <1>1, LoadInSpan DEF IsOne
  <1>4. IsVarint(span, p, w)
    BY <1>1, <1>2, <1>3 DEF IsVarint
  <1> QED
    BY <1>4, ReadsVarint

\* A varint of at most a word: compact7 of its masked lanes.
LEMMA WordReads ==
    ASSUME span \in Seq(Byte), NEW p \in Nat, NEW w \in 1 .. WordBytes, p + w <= Len(span), IsOne(p, w)
    PROVE  read_varint(span, p) = Ok(p + w, compact7(Lanes(p, w)))
  <1>1. w \in 1 .. VarintBytes /\ w # VarintBytes
    BY DEF WordBytes
  <1>2. LastByteFits(w, At(p + w))
    BY <1>1 DEF LastByteFits
  <1>3. read_varint(span, p) = Ok(p + w, VarintValue(span, p, w))
    BY <1>1, <1>2, OneReads
  <1> QED
    BY <1>3, LanesValue

\* A byte without the continuation bit is its own value.
LEMMA OneByteReads ==
    ASSUME span \in Seq(Byte), NEW p \in Nat, p + 1 <= Len(span), ~Continues(p + 1)
    PROVE  read_varint(span, p) = Ok(p + 1, At(p + 1)) /\ At(p + 1) \in Nat
  <1>1. 1 \in 1 .. VarintBytes /\ 1 # VarintBytes /\ Radix \in Nat \ {0} /\ Len(span) \in Nat
    BY WireAssumption DEF WordBytes
  <1>2. IsOne(p, 1) /\ LastByteFits(1, At(p + 1))
    BY <1>1 DEF IsOne, LastByteFits
  <1>3. read_varint(span, p) = Ok(p + 1, VarintValue(span, p, 1))
    BY <1>1, <1>2, OneReads
  <1>4. At(p + 1) = span[p + 1] /\ span[p + 1] \in Nat /\ ~(span[p + 1] >= Radix)
    BY LoadInSpan
  <1>5. VarintValue(span, p, 0 + 1) = VarintValue(span, p, 0) + (span[p + (0 + 1)] % Radix) * Weight(0)
    <2>1. p + 0 + 1 <= Len(span)
      OBVIOUS
    <2> QED BY <2>1, VarintSplit
  <1>6. VarintValue(span, p, 0) = 0
    <2>1. p + 0 + 1 <= Len(span)
      OBVIOUS
    <2> QED BY <2>1, VarintSplit
  <1>7. span[p + 1] % Radix = span[p + 1]
    <2>1. PICK b : b = span[p + 1]
      OBVIOUS
    <2>2. b \in Nat /\ b < Radix /\ Radix \in Nat \ {0}
      BY <1>1, <1>4, <2>1
    <2>3. b % Radix = b
      BY <2>2
    <2> QED BY <2>1, <2>3
  <1>8. VarintValue(span, p, 1) = span[p + 1]
    <2>1. 0 + 1 = 1 /\ Weight(0) = 1
      BY WeightProducts
    <2> QED BY <1>4, <1>5, <1>6, <1>7, <2>1
  <1> QED
    BY <1>3, <1>4, <1>8

\* read_varint_packed, given the readable word it asks for, is read_varint.
LEMMA PackedReads ==
    ASSUME span \in Seq(Byte), NEW p \in Nat, p + WordBytes <= Len(span)
    PROVE  read_varint_packed(p) = read_varint(span, p)
  <1> DEFINE stop == Stops(p, WordBytes)
  <1>0. WordBytes = 8 /\ Len(span) \in Nat
    BY DEF WordBytes
  <1>1. CASE ~Continues(p + 1)
    <2>1. p + 1 <= Len(span)
      BY <1>0
    <2> QED BY <1>1, <2>1, OneByteReads DEF read_varint_packed
  <1>2. CASE Continues(p + 1) /\ stop = {}
    BY <1>2 DEF read_varint_packed
  <1>3. CASE Continues(p + 1) /\ stop # {}
    <2>0. PICK b : b = Min(stop)
      OBVIOUS
    <2>1. stop \subseteq Nat
      BY <1>0 DEF Stops
    <2>2. b \in stop /\ \A y \in stop : b <= y
      BY <1>3, <2>0, <2>1, MinIsLeast
    <2>3. b \in 0 .. 7 /\ ~Continues(p + b + 1)
      BY <1>0, <2>2 DEF Stops
    <2>4. ASSUME NEW i \in 1 .. b PROVE Continues(p + i)
      <3>1. i - 1 \in 0 .. (WordBytes - 1) /\ ~(b <= i - 1) /\ p + (i - 1) + 1 = p + i
        BY <1>0, <2>3
      <3>2. i - 1 \notin stop
        BY <2>2, <3>1
      <3> QED BY <3>1, <3>2 DEF Stops
    <2>5. (b + 1) - 1 = b /\ p + (b + 1) = p + b + 1 /\ b + 1 \in 1 .. WordBytes /\ p + (b + 1) <= Len(span)
      BY <1>0, <2>3
    <2>6. IsOne(p, b + 1)
      BY <2>3, <2>4, <2>5 DEF IsOne
    <2>7. read_varint(span, p) = Ok(p + (b + 1), compact7(Lanes(p, b + 1)))
      BY <2>5, <2>6, WordReads
    <2>8. read_varint_packed(p) = Ok(p + (b + 1), compact7(Lanes(p, b + 1)))
      BY <1>3, <2>0 DEF read_varint_packed
    <2> QED BY <2>7, <2>8
  <1> QED
    BY <1>1, <1>2, <1>3

\* Two bytes: the lanes one round of compaction joins.
LEMMA TwoBytesRead ==
    ASSUME span \in Seq(Byte), NEW p \in Nat, p + 2 <= Len(span), IsOne(p, 2)
    PROVE  read_varint(span, p) = Ok(p + 2, (At(p + 1) % Radix) + Weight(1) * (At(p + 2) % Radix))
  <1>1. 2 \in 1 .. VarintBytes /\ 2 # VarintBytes /\ Radix \in Nat \ {0} /\ Len(span) \in Nat
    BY WireAssumption DEF WordBytes
  <1>2. LastByteFits(2, At(p + 2))
    BY <1>1 DEF LastByteFits
  <1>3. read_varint(span, p) = Ok(p + 2, VarintValue(span, p, 2))
    BY <1>1, <1>2, OneReads
  <1>4. At(p + 1) = span[p + 1] /\ At(p + 2) = span[p + 2] /\ span[p + 1] \in Nat /\ span[p + 2] \in Nat
    <2>1. p + 1 <= Len(span)
      BY <1>1
    <2> QED BY <1>1, <2>1, LoadInSpan
  <1>5. /\ VarintValue(span, p, 0 + 1) = VarintValue(span, p, 0) + (span[p + (0 + 1)] % Radix) * Weight(0)
        /\ VarintValue(span, p, 0) = 0
    <2>1. p + 0 + 1 <= Len(span)
      BY <1>1
    <2> QED BY <2>1, VarintSplit
  <1>6. VarintValue(span, p, 1 + 1) = VarintValue(span, p, 1) + (span[p + (1 + 1)] % Radix) * Weight(1)
    <2>1. p + 1 + 1 <= Len(span)
      BY <1>1
    <2> QED BY <2>1, VarintSplit
  <1>7. PICK a, b, w : a = span[p + 1] % Radix /\ b = span[p + 2] % Radix /\ w = Weight(1)
    OBVIOUS
  <1>8. a \in Nat /\ b \in Nat /\ w \in Nat
    <2>1. w \in Nat
      BY <1>7, WeightProducts
    <2>2. \A x \in Nat : x % Radix \in Nat
      BY <1>1
    <2> QED BY <1>4, <1>7, <2>1, <2>2
  <1>9. VarintValue(span, p, 1) = a
    <2>1. 0 + 1 = 1 /\ Weight(0) = 1
      BY WeightProducts
    <2>2. VarintValue(span, p, 1) = 0 + a * 1
      BY <1>5, <1>7, <2>1
    <2> QED BY <1>8, <2>2
  <1>10. VarintValue(span, p, 2) = a + w * b
    <2>1. VarintValue(span, p, 2) = a + b * w
      <3>1. 1 + 1 = 2
        OBVIOUS
      <3> QED BY <1>6, <1>7, <1>9, <3>1
    <2> QED BY <1>8, <2>1
  <1> QED
    BY <1>3, <1>4, <1>7, <1>10

\* Nine and ten bytes: the word, and the bytes behind it.
LEMMA WideReads ==
    ASSUME span \in Seq(Byte), q \in Nat, width \in 9 .. VarintBytes, FixedWideFits
    PROVE  read_varint(span, q) = Ok(q + width, FixedWideValue)
  <1>1. /\ width \in 1 .. VarintBytes /\ Radix \in Nat \ {0} /\ Len(span) \in Nat /\ q + width <= Len(span)
        /\ width \in {9, 10} /\ WordBytes = 8
    BY WireAssumption DEF FixedWideFits, Left, WordBytes
  <1>2. read_varint(span, q) = Ok(q + width, VarintValue(span, q, width))
    BY <1>1, OneReads DEF FixedWideFits
  <1>3. VarintValue(span, q, 8 + 1) = VarintValue(span, q, 8) + (span[q + (8 + 1)] % Radix) * Weight(8)
    <2>1. q + 8 + 1 <= Len(span)
      BY <1>1
    <2> QED BY <2>1, VarintSplit
  <1>4. compact7(Lanes(q, WordBytes)) = VarintValue(span, q, 8)
    <2>1. 8 \in 1 .. WordBytes /\ q + 8 <= Len(span)
      BY <1>1
    <2> QED BY <1>1, <2>1, LanesValue
  <1>5. At(q + 9) = span[q + 9] /\ span[q + 9] \in Nat
    <2>1. q + 9 <= Len(span)
      BY <1>1
    <2> QED BY <2>1, LoadInSpan
  <1>6. PICK a, b, w, v : /\ a = VarintValue(span, q, 8) /\ b = span[q + 9] % Radix
                          /\ w = Weight(8) /\ v = Weight(9)
    OBVIOUS
  <1>7. a \in Nat /\ b \in Nat /\ w \in Nat /\ v \in Nat
    <2>1. w \in Nat /\ v \in Nat
      BY <1>6, WeightProducts
    <2>2. \A x \in Nat : x % Radix \in Nat
      BY <1>1
    <2>3. a \in Nat
      <3>1. q + 8 + 1 <= Len(span)
        BY <1>1
      <3> QED BY <1>6, <3>1, VarintSplit
    <2> QED BY <1>5, <1>6, <2>1, <2>2, <2>3
  <1>8. VarintValue(span, q, 9) = a + w * b
    <2>1. VarintValue(span, q, 9) = a + b * w
      <3>1. 8 + 1 = 9
        OBVIOUS
      <3> QED BY <1>3, <1>6, <3>1
    <2> QED BY <1>7, <2>1
  <1>9. CASE width = 9
    <2>1. FixedWideValue = a + w * b + 0
      BY <1>1, <1>4, <1>5, <1>6, <1>9 DEF FixedWideValue
    <2>2. FixedWideValue = a + w * b
      BY <1>7, <2>1
    <2> QED BY <1>2, <1>8, <1>9, <2>2
  <1>10. CASE width = 10
    <2>1. At(q + 10) = span[q + 10] /\ span[q + 10] \in Nat /\ ~(span[q + 10] >= Radix)
      <3>1. q + 10 <= Len(span) /\ ~Continues(q + 10)
        BY <1>1, <1>10 DEF FixedWideFits, IsOne
      <3> QED BY <3>1, LoadInSpan
    <2>2. PICK c : c = span[q + 10]
      OBVIOUS
    <2>3. c \in Nat /\ c % Radix = c
      <3>1. c \in Nat /\ c < Radix /\ Radix \in Nat \ {0}
        BY <1>1, <2>1, <2>2
      <3> QED BY <3>1
    <2>4. VarintValue(span, q, 9 + 1) = VarintValue(span, q, 9) + (span[q + (9 + 1)] % Radix) * Weight(9)
      <3>1. q + 9 + 1 <= Len(span)
        BY <1>1, <1>10
      <3> QED BY <3>1, VarintSplit
    <2>5. VarintValue(span, q, 10) = (a + w * b) + c * v
      <3>1. 9 + 1 = 10
        OBVIOUS
      <3> QED BY <1>6, <1>8, <2>2, <2>3, <2>4, <3>1
    <2>6. FixedWideValue = a + w * b + v * c
      <3>1. WordBytes + 1 = 9
        BY <1>1
      <3> QED BY <1>1, <1>4, <1>5, <1>6, <1>10, <2>1, <2>2, <3>1 DEF FixedWideValue
    <2>7. v * c = c * v
      BY <1>7, <2>3
    <2> QED BY <1>2, <1>10, <2>5, <2>6, <2>7
  <1> QED
    BY <1>1, <1>9, <1>10

-----------------------------------------------------------------------------
(* A kernel that stores several values of one width stays with the loop.   *)

\* Append and concatenation commute.
LEMMA ConcatAppend ==
    ASSUME NEW o \in Seq(Nat), NEW y \in Seq(Nat), NEW z \in Nat
    PROVE  o \o Append(y, z) = Append(o \o y, z)
  <1>0. \A a, b \in Nat : \A j \in 1 .. (a + (b + 1)) :
           j <= a \/ (j > a /\ j <= a + b) \/ j = a + b + 1
    OBVIOUS
  <1> DEFINE lhs == o \o Append(y, z)
             rhs == Append(o \o y, z)
  <1>1. Len(o) \in Nat /\ Len(y) \in Nat
    OBVIOUS
  <1>2. /\ o \o y \in Seq(Nat) /\ Len(o \o y) = Len(o) + Len(y)
        /\ \A i \in 1 .. (Len(o) + Len(y)) : (o \o y)[i] = IF i <= Len(o) THEN o[i] ELSE y[i - Len(o)]
    BY ConcatProperties
  <1>3. /\ Append(y, z) \in Seq(Nat) /\ Len(Append(y, z)) = Len(y) + 1
        /\ \A i \in 1 .. Len(y) : Append(y, z)[i] = y[i]
        /\ Append(y, z)[Len(y) + 1] = z
    BY AppendProperties
  <1>4. /\ lhs \in Seq(Nat) /\ Len(lhs) = Len(o) + (Len(y) + 1)
        /\ \A i \in 1 .. (Len(o) + (Len(y) + 1)) : lhs[i] = IF i <= Len(o) THEN o[i] ELSE Append(y, z)[i - Len(o)]
    BY <1>3, ConcatProperties
  <1>5. /\ rhs \in Seq(Nat) /\ Len(rhs) = (Len(o) + Len(y)) + 1
        /\ \A i \in 1 .. (Len(o) + Len(y)) : rhs[i] = (o \o y)[i]
        /\ rhs[(Len(o) + Len(y)) + 1] = z
    BY <1>2, AppendProperties
  <1> HIDE DEF lhs, rhs
  <1>6. ASSUME NEW i \in 1 .. Len(lhs) PROVE lhs[i] = rhs[i]
    <2>1. CASE i <= Len(o)
      <3>1. i \in 1 .. (Len(o) + Len(y)) /\ i \in 1 .. (Len(o) + (Len(y) + 1))
        BY <1>1, <1>4, <2>1
      <3> QED BY <1>2, <1>4, <1>5, <2>1, <3>1
    <2>2. CASE i > Len(o) /\ i <= Len(o) + Len(y)
      <3>1. i - Len(o) \in 1 .. Len(y) /\ i \in 1 .. (Len(o) + Len(y)) /\ i \in 1 .. (Len(o) + (Len(y) + 1)) /\ ~(i <= Len(o))
        BY <1>1, <2>2
      <3> QED BY <1>2, <1>3, <1>4, <1>5, <3>1
    <2>3. CASE i = Len(o) + Len(y) + 1
      <3>1. i - Len(o) = Len(y) + 1 /\ i \in 1 .. (Len(o) + (Len(y) + 1)) /\ ~(i <= Len(o)) /\ i = (Len(o) + Len(y)) + 1
        BY <1>1, <2>3
      <3> QED BY <1>3, <1>4, <1>5, <3>1
    <2>4. i <= Len(o) \/ (i > Len(o) /\ i <= Len(o) + Len(y)) \/ i = Len(o) + Len(y) + 1
      BY <1>0, <1>1, <1>4
    <2> QED BY <2>1, <2>2, <2>3, <2>4
  <1>7. lhs = rhs
    <2>1. Len(lhs) = Len(rhs)
      BY <1>1, <1>4, <1>5
    <2> QED BY <1>4, <1>5, <1>6, <2>1, SeqEqual
  <1> QED BY <1>7 DEF lhs, rhs

\* A concatenation grows by one value at a time.
LEMMA GrowsByOne ==
    ASSUME NEW o \in Seq(Nat), NEW x \in Seq(Nat), NEW i \in 1 .. Len(x)
    PROVE  o \o SubSeq(x, 1, i) = Append(o \o SubSeq(x, 1, i - 1), x[i])
  <1>1. Len(x) \in Nat /\ i \in Nat /\ i - 1 \in Nat /\ x[i] \in Nat
    OBVIOUS
  <1>2. SubSeq(x, 1, i) = Append(SubSeq(x, 1, i - 1), x[i])
    OBVIOUS
  <1>3. SubSeq(x, 1, i - 1) \in Seq(Nat)
    OBVIOUS
  <1>4. \A y \in Seq(Nat), z \in Nat : o \o Append(y, z) = Append(o \o y, z)
    BY ConcatAppend
  <1> QED
    BY <1>1, <1>2, <1>3, <1>4, Zenon

\* Several varints of one width are as many steps of the loop.
LEMMA FollowsMany ==
    ASSUME NEW s \in Seq(Byte), NEW c \in Nat, NEW o \in Seq(Nat), Follows(s, c, o),
           NEW x \in Seq(Nat), NEW w \in Nat, w >= 1, c + w * Len(x) <= Len(s),
           \A i \in 1 .. Len(x) : read_varint(s, c + w * (i - 1)) = Ok(c + w * (i - 1) + w, x[i])
    PROVE  Follows(s, c + w * Len(x), o \o x)
  <1>0. PICK m : m = Len(x)
    OBVIOUS
  <1> DEFINE T == {i \in 0 .. m : Follows(s, c + w * i, o \o SubSeq(x, 1, i))}
  <1>1. m \in Nat /\ Len(s) \in Nat
    BY <1>0
  <1>2. 0 \in T
    <2>1. c + w * 0 = c
      OBVIOUS
    <2>2. SubSeq(x, 1, 0) = <<>> /\ o \o <<>> = o
      OBVIOUS
    <2>3. Follows(s, c + w * 0, o \o SubSeq(x, 1, 0))
      BY <2>1, <2>2
    <2> QED BY <1>1, <2>3
  <1>3. ASSUME NEW i \in 1 .. m, i - 1 \in T PROVE i \in T
    <2>1. /\ i \in 0 .. m /\ w * (i - 1) \in Nat /\ w * i = w * (i - 1) + w /\ w * i <= w * m
      <3>1. \A a, b \in Nat : w * a \in Nat /\ (a <= b => w * a <= w * b)
        OBVIOUS
      <3>2. i - 1 \in Nat /\ i \in Nat /\ i <= m
        BY <1>1
      <3>3. w * i = w * (i - 1) + w
        BY <3>2
      <3> QED BY <1>1, <3>1, <3>2, <3>3
    <2>2. PICK a : a = c + w * (i - 1)
      OBVIOUS
    <2>3. PICK y : y = o \o SubSeq(x, 1, i - 1)
      OBVIOUS
    <2>4. a \in Nat /\ a + w \in Nat /\ a < a + w /\ a + w <= Len(s) /\ c + w * i = a + w
      <3>1. c + w * m <= Len(s) /\ w * m \in Nat
        BY <1>0, <1>1
      <3>2. PICK u, v, z : u = w * (i - 1) /\ v = w * i /\ z = w * m
        OBVIOUS
      <3>3. u \in Nat /\ v = u + w /\ v <= z /\ z \in Nat /\ c + z <= Len(s) /\ a = c + u
        BY <2>1, <2>2, <3>1, <3>2
      <3>4. a \in Nat /\ a + w \in Nat /\ a < a + w /\ a + w <= Len(s) /\ c + v = a + w
        BY <1>1, <3>3
      <3> QED BY <3>2, <3>4
    <2>5. Follows(s, a, y)
      BY <1>3, <2>2, <2>3
    <2>6. read_varint(s, a) = Ok(a + w, x[i])
      BY <1>0, <2>2
    <2>7. Follows(s, a + w, Append(y, x[i]))
      BY <2>4, <2>5, <2>6, FollowsStep
    <2>8. o \o SubSeq(x, 1, i) = Append(y, x[i])
      BY <1>0, <2>3, GrowsByOne
    <2> QED BY <2>1, <2>4, <2>7, <2>8
  <1>4. m \in T
    <2> HIDE DEF T
    <2>1. \A i \in 0 .. m : i \in T
      BY <1>1, <1>2, <1>3, UpTo
    <2> QED BY <1>1, <2>1
  <1>5. SubSeq(x, 1, m) = x
    BY <1>0
  <1> QED
    BY <1>0, <1>4, <1>5

-----------------------------------------------------------------------------
(* A wrong guess is only slower.                                           *)

\* Until it is done, the decoder has delivered what the byte loop has at the same place, and
\* the terminators to come are all those of the window behind this place.
WithTheLoop ==
    /\ out \in Seq(Nat) /\ n = Len(out)
    /\ kern # "Done" => err = None /\ fail_off = 0 /\ Follows(span, q + start, out)
    /\ t # {} => t = {i \in Stops(q, Window) : start <= i}
    /\ KernelsMatchTheByteLoop

\* At first nothing has been passed.
LEMMA InitWithTheLoop == PackedInit => WithTheLoop
  <1> SUFFICES ASSUME PackedInit PROVE WithTheLoop
    OBVIOUS
  <1>1. q + start = 0 /\ out = <<>> /\ out \in Seq(Nat) /\ n = Len(out) /\ t = {}
    BY DEF PackedInit
  <1>2. kern # "Done" /\ err = None /\ fail_off = 0
    BY DEF PackedInit
  <1>3. Follows(span, q + start, out)
    BY <1>1, FollowsStart
  <1> QED
    BY <1>1, <1>2, <1>3 DEF WithTheLoop, KernelsMatchTheByteLoop

\* A malformed varint is the byte loop's error.
LEMMA FailKeeps ==
    ASSUME IInv, WithTheLoop, kern # "Done", NEW p \in Nat, p = q + start, p < Len(span),
           NEW v, v = read_varint(span, p), NEW e, e = v.err, e # None, FailAt(e, p)
    PROVE  WithTheLoop'
  <1>1. span \in Seq(Byte) /\ Follows(span, p, out)
    BY DEF IInv, WithTheLoop
  <1>2. decode_packed_varints_small(span) = State(out, p, e, p)
    BY <1>1, FollowsFail
  <1>3. /\ kern' = "Done" /\ err' = e /\ fail_off' = p
        /\ span' = span /\ q' = q /\ t' = t /\ start' = start /\ n' = n /\ out' = out
    BY DEF FailAt
  <1>4. KernelsMatchTheByteLoop'
    <2>1. PICK d : d = decode_packed_varints_small(span)
      OBVIOUS
    <2>2. d.err = e /\ d.fail_off = p
      BY <1>2, <2>1 DEF State
    <2>3. decode_packed_varints_small(span') = d
      BY <1>3, <2>1
    <2> QED BY <1>3, <2>2, <2>3 DEF KernelsMatchTheByteLoop
  <1>5. t' # {} => t' = {i \in Stops(q, Window)' : start' <= i}
    BY <1>3 DEF WithTheLoop, Stops, Continues, At
  <1> QED
    BY <1>3, <1>4, <1>5 DEF WithTheLoop

\* A kernel that stores the next varints, all w bytes wide.
LEMMA StoreKeeps ==
    ASSUME IInv, WithTheLoop, kern # "Done", t = {}, NEW x \in Seq(Nat), NEW w \in Nat, w >= 1,
           q + w * Len(x) <= Len(span),
           \A i \in 1 .. Len(x) : read_varint(span, q + w * (i - 1)) = Ok(q + w * (i - 1) + w, x[i]),
           NEW r, Store(x, Len(x), q + w * Len(x), r)
    PROVE  WithTheLoop'
  <1>1. span \in Seq(Byte) /\ q \in Nat /\ q + start = q /\ start = 0
    BY DEF IInv, BlockInSpan
  <1>2. out \in Seq(Nat) /\ n = Len(out) /\ err = None /\ fail_off = 0 /\ Follows(span, q, out)
    BY <1>1 DEF WithTheLoop
  <1>3. Follows(span, q + w * Len(x), out \o x)
    BY <1>1, <1>2, FollowsMany
  <1>4. /\ n' = n + Len(x) /\ out' = out \o x /\ q' = q + w * Len(x)
        /\ span' = span /\ kern' = kern /\ t' = t /\ start' = start /\ err' = err /\ fail_off' = fail_off
    BY DEF Store
  <1>5. q' + start' = q + w * Len(x)
    BY <1>1, <1>4
  <1>6. out' \in Seq(Nat) /\ n' = Len(out')
    BY <1>2, <1>4
  <1> QED
    BY <1>2, <1>3, <1>4, <1>5, <1>6 DEF WithTheLoop, KernelsMatchTheByteLoop

\* One varint at a time.
LEMMA StoreOneKeeps ==
    ASSUME IInv, WithTheLoop, kern # "Done", t = {}, q < Len(span),
           NEW v, v = read_varint(span, q), NEW r, StoreOne(v, q, r)
    PROVE  WithTheLoop'
  <1>1. span \in Seq(Byte) /\ q \in Nat /\ start = 0 /\ q = q + start /\ Len(span) \in Nat
    BY DEF IInv, BlockInSpan
  <1>2. CASE v.err # None
    BY <1>1, <1>2, FailKeeps DEF StoreOne
  <1>3. CASE v.err = None
    <2>1. v.next \in (q + 1) .. Len(span) /\ v.val \in Nat
      BY <1>1, <1>3, VarintFacts DEF None
    <2>2. v = Ok(v.next, v.val)
      <3>1. \E a, b : v = Ok(a, b)
        BY <1>3 DEF read_varint, Err, None
      <3> QED BY <3>1 DEF Ok
    <2>3. Store(<<v.val>>, 1, v.next, r)
      BY <1>3 DEF StoreOne
    <2>4. PICK x, w : x = <<v.val>> /\ w = v.next - q
      OBVIOUS
    <2>5. /\ x \in Seq(Nat) /\ Len(x) = 1 /\ x[1] = v.val /\ w \in Nat /\ w >= 1
          /\ q + w * Len(x) = v.next /\ q + w * Len(x) <= Len(span)
      BY <1>1, <2>1, <2>4
    <2>6. ASSUME NEW i \in 1 .. Len(x)
          PROVE  read_varint(span, q + w * (i - 1)) = Ok(q + w * (i - 1) + w, x[i])
      <3>1. i = 1 /\ q + w * (i - 1) = q /\ q + w * (i - 1) + w = v.next
        BY <1>1, <2>1, <2>4, <2>5
      <3> QED BY <2>2, <2>5, <3>1
    <2>7. Store(x, Len(x), q + w * Len(x), r)
      BY <2>3, <2>4, <2>5
    <2> QED BY <2>5, <2>6, <2>7, StoreKeeps
  <1> QED
    BY <1>2, <1>3

\* Where a varint is accepted, its terminator is the first one.
LEMMA ReadsUpToTheStop ==
    ASSUME span \in Seq(Byte), NEW p \in Nat, NEW w \in Nat, w >= 1, p + w <= Len(span), IsOne(p, w),
           NEW v, v = read_varint(span, p), v.err = None
    PROVE  v = Ok(p + w, v.val)
  <1>0. Radix \in Nat /\ Len(span) \in Nat /\ VarintBytes \in Nat
    BY WireAssumption
  <1>1. PICK m \in 1 .. VarintBytes : IsVarint(span, p, m)
    BY DEF read_varint, Err, None
  <1>2. v = Ok(p + m, VarintValue(span, p, m))
    BY <1>1, ReadsVarint
  <1>3. m \in Nat /\ m >= 1 /\ p + m <= Len(span) /\ span[p + m] < Radix
    BY <1>0, <1>1 DEF IsVarint
  <1>4. ~(m < w)
    <2> SUFFICES ASSUME m < w PROVE FALSE
      OBVIOUS
    <2>1. m \in 1 .. (w - 1)
      BY <1>3
    <2>2. Continues(p + m)
      BY <2>1 DEF IsOne
    <2>3. span[p + m] \in Nat /\ span[p + m] >= Radix
      BY <1>3, <2>2, LoadInSpan
    <2> QED BY <1>0, <1>3, <2>3
  <1>5. ~(w < m)
    <2> SUFFICES ASSUME w < m PROVE FALSE
      OBVIOUS
    <2>1. w \in 1 .. (m - 1)
      BY <1>3
    <2>2. span[p + w] >= Radix
      BY <1>1, <2>1 DEF IsVarint
    <2>3. ~Continues(p + w)
      BY DEF IsOne
    <2> QED BY <2>2, <2>3, LoadInSpan
  <1>6. m = w
    BY <1>3, <1>4, <1>5
  <1> QED
    BY <1>2, <1>6 DEF Ok

\* The steps that move no cursor.
LEMMA QuietKeeps ==
    ASSUME IInv, WithTheLoop, kern # "Done", t = {}, kern' # "Done",
           UNCHANGED <<span, q, t, start, n, out, err, fail_off>>
    PROVE  WithTheLoop'
  BY DEF WithTheLoop, KernelsMatchTheByteLoop

\* Choosing a kernel delivers nothing.
LEMMA ClassifyKeeps ==
    ASSUME IInv, WithTheLoop, Classify
    PROVE  WithTheLoop'
  <1>1. kern # "Done" /\ t = {}
    BY DEF Classify, IInv, BlockInSpan
  <1>2. kern' # "Done"
    <2>1. CASE Left < kPackedKernelMinSpan
      BY <2>1 DEF Classify
    <2>2. CASE ~(Left < kPackedKernelMinSpan)
      <3>1. kern' = Strategy(Stops(q, Window))
        BY <2>2 DEF Classify
      <3>2. kern' \in Kernels
        BY <3>1, StrategyFacts
      <3> QED BY <3>2 DEF Kernels
    <2> QED BY <2>1, <2>2
  <1> QED
    BY <1>1, <1>2, QuietKeeps DEF Classify

\* Nor does leaving it.
LEMMA LeaveKeeps ==
    ASSUME IInv, WithTheLoop, Leave
    PROVE  WithTheLoop'
  <1>1. kern # "Done" /\ t = {}
    <2>1. kern = "Struct" => t = {}
      BY DEF Leave, Fits
    <2> QED BY <2>1 DEF IInv, BlockInSpan, Leave
  <1>2. kern' # "Done"
    BY DEF Leave
  <1> QED
    BY <1>1, <1>2, QuietKeeps DEF Leave

\* At the end of the span the byte loop has ended as well.
LEMMA FinishKeeps ==
    ASSUME IInv, WithTheLoop, Finish
    PROVE  WithTheLoop'
  <1>1. /\ span \in Seq(Byte) /\ t = {} /\ q + start = Len(span) /\ q \in Nat /\ Len(span) \in Nat
        /\ kern = "Tail"
    BY DEF Finish, IInv, BlockInSpan
  <1>2. /\ out \in Seq(Nat) /\ n = Len(out) /\ err = None /\ fail_off = 0 /\ Follows(span, Len(span), out)
    BY <1>1 DEF WithTheLoop
  <1>3. decode_packed_varints_small(span) = State(out, Len(span), None, 0)
    BY <1>1, <1>2, FollowsEnd
  <1>4. /\ span' = span /\ kern' = "Done" /\ err' = None /\ fail_off' = 0 /\ out' = out /\ n' = n /\ t' = {}
    BY <1>1, <1>2 DEF Finish
  <1>5. KernelsMatchTheByteLoop'
    <2>1. PICK d : d = decode_packed_varints_small(span)
      OBVIOUS
    <2>2. d.err = None /\ d.fail_off = 0 /\ d.vals = out
      BY <1>3, <2>1 DEF State
    <2>3. decode_packed_varints_small(span') = d
      BY <1>4, <2>1
    <2> QED BY <1>2, <1>4, <2>2, <2>3 DEF KernelsMatchTheByteLoop
  <1> QED
    BY <1>2, <1>4, <1>5 DEF WithTheLoop

\* A window of one-byte varints.
LEMMA Bulk1Keeps ==
    ASSUME IInv, WithTheLoop, Bulk1
    PROVE  WithTheLoop'
  <1>1. /\ span \in Seq(Byte) /\ q \in Nat /\ Len(span) \in Nat /\ Window \in Nat
        /\ kern # "Done" /\ t = {} /\ q + Window <= Len(span)
        /\ \A i \in 1 .. Window : ~Continues(q + i)
    BY DEF IInv, BlockInSpan, Bulk1, Bulk1Fits, Left
  <1>2. PICK x : x = [i \in 1 .. Window |-> At(q + i)]
    OBVIOUS
  <1>3. ASSUME NEW i \in 1 .. Window
        PROVE  /\ read_varint(span, q + (i - 1)) = Ok(q + i, At(q + i))
               /\ At(q + i) \in Nat
    <2>1. PICK p : p = q + (i - 1)
      OBVIOUS
    <2>2. p \in Nat /\ p + 1 = q + i /\ p + 1 <= Len(span)
      BY <1>1, <2>1
    <2>3. ~Continues(p + 1)
      BY <1>1, <2>2
    <2>4. read_varint(span, p) = Ok(p + 1, At(p + 1)) /\ At(p + 1) \in Nat
      BY <1>1, <2>2, <2>3, OneByteReads
    <2> QED BY <2>1, <2>2, <2>4
  <1>4. x \in Seq(Nat) /\ Len(x) = Window
    <2>1. x \in [1 .. Window -> Nat]
      BY <1>2, <1>3
    <2>2. x \in Seq(Nat)
      BY <1>1, <2>1
    <2>3. Len([i \in 1 .. Window |-> At(q + i)]) = Window
      BY <1>1
    <2> QED BY <1>2, <2>2, <2>3
  <1>5. PICK w : w = 1
    OBVIOUS
  <1>6. w \in Nat /\ w >= 1 /\ w * Len(x) = Window /\ q + w * Len(x) <= Len(span)
    BY <1>1, <1>4, <1>5
  <1>7. ASSUME NEW i \in 1 .. Len(x)
        PROVE  read_varint(span, q + w * (i - 1)) = Ok(q + w * (i - 1) + w, x[i])
    <2>1. i \in 1 .. Window /\ q + w * (i - 1) = q + (i - 1) /\ q + w * (i - 1) + w = q + i
      BY <1>1, <1>4, <1>5
    <2>2. x[i] = At(q + i)
      BY <1>2, <2>1
    <2> QED BY <1>3, <2>1, <2>2
  <1>8. Store(x, Len(x), q + w * Len(x), q + Window)
    BY <1>2, <1>4, <1>6 DEF Bulk1, Bulk1Stride
  <1> HIDE <1>5
  <1> QED
    BY <1>1, <1>4, <1>6, <1>7, <1>8, StoreKeeps

\* Four two-byte varints.
LEMMA Bulk2Keeps ==
    ASSUME IInv, WithTheLoop, Bulk2
    PROVE  WithTheLoop'
  <1>1. /\ span \in Seq(Byte) /\ q \in Nat /\ Len(span) \in Nat /\ WordBytes = 8
        /\ kern # "Done" /\ t = {} /\ q + 8 <= Len(span)
        /\ \A i \in 0 .. 3 : IsOne(q + 2 * i, 2)
    BY DEF IInv, BlockInSpan, Bulk2, Bulk2Fits, Left, WordBytes
  <1>2. PICK L : L = Lanes(q, WordBytes)
    OBVIOUS
  <1>3. PICK x : x = Compacted(L, Weight(1))
    OBVIOUS
  <1>4. L \in [1 .. WordBytes -> Nat]
    <2>1. WordBytes \in 1 .. WordBytes /\ q + WordBytes <= Len(span)
      BY <1>1
    <2> QED BY <1>1, <1>2, <2>1, LanesFacts
  <1>5. \A i \in 1 .. 8 : L[i] = At(q + i) % Radix
    BY <1>1, <1>2 DEF Lanes
  <1>6. x = [i \in 1 .. 4 |-> L[2 * i - 1] + Weight(1) * L[2 * i]]
    BY <1>3, <1>4, CompactSum
  <1>7. ASSUME NEW i \in 1 .. 4
        PROVE  /\ x[i] \in Nat
               /\ read_varint(span, q + 2 * (i - 1)) = Ok(q + 2 * (i - 1) + 2, x[i])
    <2>1. PICK p : p = q + 2 * (i - 1)
      OBVIOUS
    <2>2. /\ p \in Nat /\ p + 2 <= Len(span) /\ i - 1 \in 0 .. 3 /\ p + 1 = q + (2 * i - 1) /\ p + 2 = q + 2 * i
          /\ 2 * i - 1 \in 1 .. 8 /\ 2 * i \in 1 .. 8
      BY <1>1, <2>1
    <2>3. IsOne(p, 2)
      BY <1>1, <2>1, <2>2
    <2>4. read_varint(span, p) = Ok(p + 2, (At(p + 1) % Radix) + Weight(1) * (At(p + 2) % Radix))
      BY <1>1, <2>2, <2>3, TwoBytesRead
    <2>5. L[2 * i - 1] = At(p + 1) % Radix /\ L[2 * i] = At(p + 2) % Radix
      BY <1>5, <2>2
    <2>6. x[i] = L[2 * i - 1] + Weight(1) * L[2 * i]
      BY <1>6
    <2>7. x[i] \in Nat
      <3>1. L[2 * i - 1] \in Nat /\ L[2 * i] \in Nat
        BY <1>1, <1>4, <2>2
      <3>2. Weight(1) \in Nat
        BY WeightProducts
      <3>3. PICK a, b, c : a = L[2 * i - 1] /\ b = Weight(1) /\ c = L[2 * i]
        OBVIOUS
      <3>4. a \in Nat /\ b \in Nat /\ c \in Nat
        BY <3>1, <3>2, <3>3
      <3>5. a + b * c \in Nat
        BY <3>4
      <3> QED BY <2>6, <3>3, <3>5
    <2> QED BY <2>1, <2>4, <2>5, <2>6, <2>7
  <1>8. x \in Seq(Nat) /\ Len(x) = 4
    <2>1. x = [i \in 1 .. 4 |-> x[i]]
      BY <1>6
    <2> QED BY <1>7, <2>1
  <1>9. q + 2 * Len(x) = q + WordBytes /\ q + 2 * Len(x) <= Len(span) /\ 2 \in Nat /\ 2 >= 1
    BY <1>1, <1>8
  <1>10. ASSUME NEW i \in 1 .. Len(x)
         PROVE  read_varint(span, q + 2 * (i - 1)) = Ok(q + 2 * (i - 1) + 2, x[i])
    <2>1. i \in 1 .. 4
      BY <1>8
    <2> QED BY <1>7, <2>1
  <1>11. Store(x, Len(x), q + 2 * Len(x), q + WordBytes)
    BY <1>2, <1>3, <1>8, <1>9 DEF Bulk2
  <1> QED
    BY <1>1, <1>8, <1>9, <1>10, <1>11, StoreKeeps

\* One or two varints of a fixed width.
LEMMA FixedFillKeeps ==
    ASSUME IInv, WithTheLoop, FixedFill
    PROVE  WithTheLoop'
  <1>1. /\ span \in Seq(Byte) /\ q \in Nat /\ Len(span) \in Nat /\ WordBytes = 8
        /\ kern # "Done" /\ t = {} /\ q + 8 <= Len(span)
        /\ width \in Nat /\ width >= 1 /\ width \in 1 .. WordBytes /\ IsOne(q, width)
    BY DEF IInv, BlockInSpan, FixedFill, FixedFits, Left, WordBytes
  <1>2. PICK a, b : a = compact7(Lanes(q, width)) /\ b = compact7(Lanes(q + width, width))
    OBVIOUS
  <1>3. read_varint(span, q) = Ok(q + width, a) /\ a \in Nat
    <2>1. q + width <= Len(span)
      BY <1>1
    <2>2. read_varint(span, q) = Ok(q + width, a)
      BY <1>1, <1>2, <2>1, WordReads
    <2> QED BY <1>1, <2>2, VarintFacts DEF Ok, None
  <1>4. CASE FixedTwo
    <2>1. q + width \in Nat /\ (q + width) + width <= Len(span) /\ q + 2 * width = (q + width) + width
      BY <1>1, <1>4 DEF FixedTwo
    <2>2. read_varint(span, q + width) = Ok((q + width) + width, b) /\ b \in Nat
      <3>1. PICK p : p = q + width
        OBVIOUS
      <3>2. p \in Nat /\ p + width <= Len(span) /\ IsOne(p, width)
        BY <1>4, <2>1, <3>1 DEF FixedTwo
      <3>3. read_varint(span, p) = Ok(p + width, b)
        BY <1>1, <1>2, <3>1, <3>2, WordReads
      <3>4. b \in Nat
        BY <1>1, <3>2, <3>3, VarintFacts DEF Ok, None
      <3> QED BY <3>1, <3>3, <3>4
    <2>3. PICK x : x = <<a, b>>
      OBVIOUS
    <2>4. x \in Seq(Nat) /\ Len(x) = 2 /\ x[1] = a /\ x[2] = b
      BY <1>3, <2>2, <2>3
    <2>5. q + width * Len(x) = q + 2 * width /\ q + width * Len(x) <= Len(span)
      BY <1>1, <2>1, <2>4
    <2>6. ASSUME NEW i \in 1 .. Len(x)
          PROVE  read_varint(span, q + width * (i - 1)) = Ok(q + width * (i - 1) + width, x[i])
      <3>1. CASE i = 1
        <4>1. q + width * (i - 1) = q
          BY <1>1, <3>1
        <4> QED BY <1>3, <2>4, <3>1, <4>1
      <3>2. CASE i = 2
        <4>1. q + width * (i - 1) = q + width
          BY <1>1, <3>2
        <4> QED BY <2>2, <2>4, <3>2, <4>1
      <3>3. i = 1 \/ i = 2
        BY <2>4
      <3> QED BY <3>1, <3>2, <3>3
    <2>7. Store(x, Len(x), q + width * Len(x), q + WordBytes)
      BY <1>2, <1>4, <2>3, <2>4, <2>5 DEF FixedFill
    <2> QED
      BY <1>1, <2>4, <2>5, <2>6, <2>7, StoreKeeps
  <1>5. CASE ~FixedTwo
    <2>1. StoreOne(Ok(q + width, a), q, q + WordBytes)
      BY <1>2, <1>5 DEF FixedFill, StoreOne, Ok
    <2>2. q < Len(span)
      BY <1>1
    <2> QED
      BY <1>1, <1>3, <2>1, <2>2, StoreOneKeeps
  <1> QED
    BY <1>4, <1>5

\* The kernels that take one varint a turn.
LEMMA OneAtATimeKeeps ==
    ASSUME IInv, WithTheLoop, FixedFillWide \/ Swar \/ ByteLoop
    PROVE  WithTheLoop'
  <1>1. /\ span \in Seq(Byte) /\ q \in Nat /\ Len(span) \in Nat /\ WordBytes = 8
        /\ kern # "Done" /\ t = {}
    BY DEF IInv, BlockInSpan, FixedFillWide, Swar, ByteLoop, WordBytes
  <1>2. CASE FixedFillWide
    <2>1. width \in 9 .. VarintBytes /\ q < Len(span)
      BY <1>1, <1>2 DEF FixedFillWide, FixedWideFits, Left, IInv
    <2>2. read_varint(span, q) = Ok(q + width, FixedWideValue)
      BY <1>1, <1>2, <2>1, WideReads DEF FixedFillWide
    <2>3. StoreOne(Ok(q + width, FixedWideValue), q, q + width)
      BY <1>2 DEF FixedFillWide, StoreOne, Ok
    <2> QED
      BY <1>1, <2>1, <2>2, <2>3, StoreOneKeeps
  <1>3. CASE Swar
    <2>1. q + WordBytes <= Len(span) /\ q < Len(span)
      BY <1>1, <1>3 DEF Swar, SwarFits, Left
    <2>2. read_varint_packed(q) = read_varint(span, q)
      BY <1>1, <2>1, PackedReads
    <2>3. StoreOne(read_varint_packed(q), q, q + WordBytes)
      BY <1>3 DEF Swar
    <2> QED
      BY <1>1, <2>1, <2>2, <2>3, StoreOneKeeps
  <1>4. CASE ByteLoop
    BY <1>1, <1>4, StoreOneKeeps DEF ByteLoop
  <1> QED
    BY <1>2, <1>3, <1>4

\* The stopmask of a window: all of its terminators are to come.
LEMMA StructBlockKeeps ==
    ASSUME IInv, WithTheLoop, StructBlock
    PROVE  WithTheLoop'
  <1>1. /\ kern # "Done" /\ kern' = kern /\ start = 0 /\ start' = 0 /\ t' = Stops(q, Window)
        /\ span' = span /\ q' = q /\ n' = n /\ out' = out /\ err' = err /\ fail_off' = fail_off
    BY DEF StructBlock, IInv, BlockInSpan
  <1>2. Stops(q, Window)' = Stops(q, Window)
    BY <1>1 DEF Stops, Continues, At
  <1>3. t' = {i \in Stops(q, Window)' : start' <= i}
    BY <1>1, <1>2 DEF Stops
  <1> QED
    BY <1>1, <1>3 DEF WithTheLoop, KernelsMatchTheByteLoop

\* The varint up to the least terminator to come is the one that begins at start.
LEMMA StructVarintKeeps ==
    ASSUME IInv, WithTheLoop, StructVarint
    PROVE  WithTheLoop'
  <1>0. PICK b : b = Min(t)
    OBVIOUS
  <1>1. PICK p : p = q + start
    OBVIOUS
  <1>2. PICK len : len = b - start + 1
    OBVIOUS
  <1>3. PICK v : v = IF len <= WordBytes THEN Ok(q + b + 1, compact7(Lanes(p, len))) ELSE read_varint_packed(p)
    OBVIOUS
  <1>4. /\ span \in Seq(Byte) /\ q \in Nat /\ Len(span) \in Nat /\ Window \in Nat /\ start \in Nat
        /\ q + Window + 8 <= Len(span) /\ WordBytes = 8 /\ kern = "Struct"
        /\ t # {} /\ t \subseteq start .. (Window - 1)
    BY DEF IInv, BlockInSpan, StructVarint, WordBytes
  <1>5. /\ out \in Seq(Nat) /\ n = Len(out) /\ err = None /\ fail_off = 0 /\ Follows(span, p, out)
        /\ t = {i \in Stops(q, Window) : start <= i}
    BY <1>1, <1>4 DEF WithTheLoop
  <1>6. b \in t /\ (\A y \in t : b <= y) /\ b \in Nat /\ start <= b /\ b <= Window - 1
    <2>1. t \subseteq Nat
      BY <1>4
    <2>2. b \in t /\ \A y \in t : b <= y
      BY <1>0, <1>4, <2>1, MinIsLeast
    <2> QED
      BY <1>4, <2>1, <2>2
  <1>7. /\ p \in Nat /\ len \in Nat /\ len >= 1 /\ p + len = q + b + 1 /\ p + len <= Len(span)
        /\ p + 8 <= Len(span) /\ p < Len(span)
    BY <1>1, <1>2, <1>4, <1>6
  <1>8. IsOne(p, len)
    <2>1. ~Continues(p + len)
      <3>1. b \in Stops(q, Window)
        BY <1>5, <1>6
      <3> QED BY <1>7, <3>1 DEF Stops
    <2>2. ASSUME NEW i \in 1 .. (len - 1) PROVE Continues(p + i)
      <3>1. PICK j : j = start + (i - 1)
        OBVIOUS
      <3>2. j \in 0 .. (Window - 1) /\ start <= j /\ ~(b <= j) /\ q + j + 1 = p + i
        BY <1>1, <1>2, <1>4, <1>6, <3>1
      <3>3. j \notin Stops(q, Window)
        BY <1>5, <1>6, <3>2
      <3> QED BY <3>2, <3>3 DEF Stops
    <2> QED BY <2>1, <2>2 DEF IsOne
  <1>9. v = read_varint(span, p)
    <2>1. CASE len <= WordBytes
      <3>1. len \in 1 .. WordBytes
        BY <1>4, <1>7, <2>1
      <3> QED BY <1>3, <1>4, <1>7, <1>8, <2>1, <3>1, WordReads
    <2>2. CASE ~(len <= WordBytes)
      BY <1>3, <1>4, <1>7, <2>2, PackedReads
    <2> QED BY <2>1, <2>2
  <1>10. CASE v.err # None
    <2>1. FailAt(v.err, p)
      BY <1>0, <1>1, <1>2, <1>3, <1>10 DEF StructVarint
    <2> QED
      BY <1>1, <1>4, <1>7, <1>9, <1>10, <2>1, FailKeeps
  <1>11. CASE v.err = None
    <2>1. /\ n' = n + 1 /\ out' = Append(out, v.val) /\ t' = t \ {b}
          /\ start' = (IF t' = {} THEN 0 ELSE b + 1)
          /\ q' = (IF t' = {} THEN q + b + 1 ELSE q)
          /\ span' = span /\ kern' = kern /\ err' = err /\ fail_off' = fail_off
      BY <1>0, <1>1, <1>2, <1>3, <1>11 DEF StructVarint
    <2>2. v = Ok(q + b + 1, v.val) /\ v.val \in Nat
      <3>1. v.val \in Nat
        BY <1>4, <1>7, <1>9, <1>11, VarintFacts DEF None
      <3>2. v = Ok(p + len, v.val)
        BY <1>4, <1>7, <1>8, <1>9, <1>11, ReadsUpToTheStop
      <3> QED BY <1>7, <3>1, <3>2
    <2>3. Follows(span, q + b + 1, Append(out, v.val))
      <3>1. PICK c : c = q + b + 1
        OBVIOUS
      <3>2. c \in Nat /\ p < c /\ c <= Len(span) /\ read_varint(span, p) = Ok(c, v.val)
        BY <1>7, <1>9, <2>2, <3>1
      <3> QED BY <1>4, <1>5, <1>7, <3>1, <3>2, FollowsStep
    <2>4. q' + start' = q + b + 1
      BY <1>4, <1>6, <2>1
    <2>5. out' \in Seq(Nat) /\ n' = Len(out')
      BY <1>5, <2>1, <2>2
    <2>6. ASSUME t' # {} PROVE t' = {i \in Stops(q, Window)' : start' <= i}
      <3>1. Stops(q, Window)' = Stops(q, Window) /\ start' = b + 1
        BY <2>1, <2>6 DEF Stops, Continues, At
      <3>2. ASSUME NEW i \in Stops(q, Window) PROVE i \in t \ {b} <=> b + 1 <= i
        <4>1. i \in Nat
          BY <1>4 DEF Stops
        <4>2. i \in t <=> start <= i
          BY <1>5
        <4>3. i \in t => b <= i
          BY <1>6
        <4> QED BY <1>4, <1>6, <4>1, <4>2, <4>3
      <3>3. t \ {b} \subseteq Stops(q, Window)
        BY <1>5
      <3> QED BY <2>1, <3>1, <3>2, <3>3
    <2>7. kern' # "Done"
      BY <1>4, <2>1
    <2> QED
      BY <1>5, <2>1, <2>3, <2>4, <2>5, <2>6, <2>7 DEF WithTheLoop, KernelsMatchTheByteLoop
  <1> QED
    BY <1>10, <1>11

\* The kernels deliver what the byte loop delivers, on every span and with every window and
\* threshold, a malformed varint at its offset included: "a wrong guess is only slower,
\* never incorrect".
THEOREM KernelsAreTheByteLoop == PackedSpec => []KernelsMatchTheByteLoop
  <1>1. IInv /\ WithTheLoop /\ [PackedNext]_packed_vars => WithTheLoop'
    <2> SUFFICES ASSUME IInv, WithTheLoop, [PackedNext]_packed_vars PROVE WithTheLoop'
      OBVIOUS
    <2>1. CASE Classify
      BY <2>1, ClassifyKeeps
    <2>2. CASE Bulk1
      BY <2>2, Bulk1Keeps
    <2>3. CASE Bulk2
      BY <2>3, Bulk2Keeps
    <2>4. CASE FixedFill
      BY <2>4, FixedFillKeeps
    <2>5. CASE FixedFillWide \/ Swar \/ ByteLoop
      BY <2>5, OneAtATimeKeeps
    <2>6. CASE StructBlock
      BY <2>6, StructBlockKeeps
    <2>7. CASE StructVarint
      BY <2>7, StructVarintKeeps
    <2>8. CASE Leave
      BY <2>8, LeaveKeeps
    <2>9. CASE Finish
      BY <2>9, FinishKeeps
    <2>10. CASE UNCHANGED packed_vars
      BY <2>10 DEF packed_vars, WithTheLoop, KernelsMatchTheByteLoop, Stops, Continues, At
    <2> QED
      BY <2>1, <2>2, <2>3, <2>4, <2>5, <2>6, <2>7, <2>8, <2>9, <2>10 DEF PackedNext
  <1>2. WithTheLoop => KernelsMatchTheByteLoop
    BY DEF WithTheLoop
  <1> QED
    BY PackedInvariant, InitWithTheLoop, <1>1, <1>2, PTL DEF PackedSpec

=============================================================================
