-------------------------- MODULE ArenaDecodeProofs -------------------------
(***************************************************************************)
(* The arrays that a nested decode builds up never touch one another, for  *)
(* every schema, input, first capacity and way memory may run out.         *)
(*                                                                         *)
(* Only the running frame changes its arrays, and only at the cursor:      *)
(* an array moves behind everything else or is cut at its end.  What makes *)
(* the cut safe is that the array that ends at the cursor is the last one, *)
(* so the invariant keeps every array of one element at least (an empty    *)
(* one at the cursor would be lost) and every message under construction   *)
(* outside the arrays of the running frame.                                *)
(***************************************************************************)
EXTENDS ArenaDecode, InductionLemmas

Array == [acc : Nat, n : Nat, cap : Nat, got : Nat]

\* Array a is in a memory of so many cells.
InMemory(a, cells) ==
    /\ a.n <= a.cap
    /\ a.acc = 0 => a.cap = 0
    /\ a.acc # 0 => a.n >= 1
    /\ a.acc + a.cap <= cells + 1

Separate(a, b) ==
    \/ a.acc = 0 \/ b.acc = 0
    \/ a.acc + a.cap <= b.acc
    \/ b.acc + b.cap <= a.acc

\* Cell p is not one of array a.
Outside(p, a) == p = 0 \/ a.acc = 0 \/ p < a.acc \/ p >= a.acc + a.cap

\* The cell of frame i is that of the last element of its parent's array.
IsElement(st, i, j, n) ==
    /\ i = j + 1 /\ st[i].num = n
    /\ st[i].addr = st[j].arr[n].acc + st[j].arr[n].n - 1

ArraysIn(st, cells) ==
    \A i \in DOMAIN st : \A n \in DOMAIN st[i].arr :
        st[i].arr[n] \in Array /\ InMemory(st[i].arr[n], cells)
ArraysSeparate(st) ==
    \A i, j \in DOMAIN st : \A m \in DOMAIN st[i].arr, n \in DOMAIN st[j].arr :
        i # j \/ m # n => Separate(st[i].arr[m], st[j].arr[n])
ObjectsOutside(st, cells) ==
    \A i \in DOMAIN st :
        /\ st[i].addr \in 0 .. cells
        /\ \A j \in DOMAIN st : \A n \in DOMAIN st[j].arr :
              Outside(st[i].addr, st[j].arr[n]) \/ IsElement(st, i, j, n)

\* What the frames of st may do with a memory of so many cells.
Safe(st, cells) == ArraysIn(st, cells) /\ ArraysSeparate(st) /\ ObjectsOutside(st, cells)

FrameFields == {"type", "body", "depth", "addr", "num", "map", "out", "arr", "bits", "unknown"}
Repeated(t) == {m \in DOMAIN Schema[t] : Schema[t][m].kind \in RepeatedKinds}
Typed(fr) ==
    /\ DOMAIN fr = FrameFields
    /\ fr.type \in DOMAIN Schema
    /\ fr.body \in Seq(Records[fr.type])
    /\ DOMAIN fr.arr = Repeated(fr.type)

IInv ==
    /\ input \in Calls
    /\ IsSeq(stack) /\ IsSeq(mem)
    /\ \A i \in DOMAIN stack : Typed(stack[i])
    /\ Safe(stack, Len(mem))

-----------------------------------------------------------------------------
(* The frames and the memory                                               *)

\* The last element of an array in memory is in memory, and in the array.
LEMMA LastCell ==
    ASSUME NEW acc \in Nat, NEW n \in Nat, NEW cap \in Nat, NEW cells \in Nat,
           n >= 1, n <= cap, acc = 0 => cap = 0, acc + cap <= cells + 1, NEW p, p = acc + n - 1
    PROVE  acc # 0 /\ p \in 0 .. cells /\ acc <= p /\ p < acc + cap
  OBVIOUS

\* Safety is about the arrays, cells and numbers of the frames, of all of them or the lowest.
LEMMA SafeAgrees ==
    ASSUME NEW st, NEW cells, Safe(st, cells), NEW su, DOMAIN su \subseteq DOMAIN st,
           \A i \in DOMAIN su : su[i].arr = st[i].arr /\ su[i].addr = st[i].addr /\ su[i].num = st[i].num
    PROVE  Safe(su, cells)
  <1>1. ArraysIn(su, cells)
    BY DEF Safe, ArraysIn
  <1>2. ArraysSeparate(su)
    BY DEF Safe, ArraysSeparate
  <1>3. ObjectsOutside(su, cells)
    BY DEF Safe, ObjectsOutside, IsElement
  <1> QED
    BY <1>1, <1>2, <1>3 DEF Safe

\* Stack su is st with array b in place of array f of the running frame.
Replaced(su, st, f, b) ==
    /\ DOMAIN su = DOMAIN st
    /\ \A i \in DOMAIN st : /\ su[i].addr = st[i].addr /\ su[i].num = st[i].num
                            /\ DOMAIN su[i].arr = DOMAIN st[i].arr
    /\ \A i \in DOMAIN st : \A n \in DOMAIN st[i].arr :
          i # Len(st) \/ n # f => su[i].arr[n] = st[i].arr[n]
    /\ su[Len(st)].arr[f] = b

\* The running frame may have array b, if it is in memory and clear of everything else.
LEMMA TopArrayReplaced ==
    ASSUME NEW st, IsSeq(st), NEW cells \in Nat, Safe(st, cells), Len(st) \in DOMAIN st,
           NEW f \in DOMAIN st[Len(st)].arr, NEW b \in Array, NEW su, Replaced(su, st, f, b),
           NEW now \in Nat, InMemory(b, now),
           \A i \in DOMAIN st : \A n \in DOMAIN st[i].arr :
              i # Len(st) \/ n # f => InMemory(st[i].arr[n], now) /\ Separate(st[i].arr[n], b),
           \A i \in DOMAIN st : st[i].addr \in 0 .. now /\ Outside(st[i].addr, b)
    PROVE  Safe(su, now)
  <1>1. ArraysIn(su, now)
    BY DEF Safe, ArraysIn, Replaced
  <1>2. ArraysSeparate(su)
    <2> SUFFICES ASSUME NEW i \in DOMAIN su, NEW j \in DOMAIN su,
                        NEW m \in DOMAIN su[i].arr, NEW n \in DOMAIN su[j].arr, i # j \/ m # n
                 PROVE  Separate(su[i].arr[m], su[j].arr[n])
      BY DEF ArraysSeparate
    <2>1. i \in DOMAIN st /\ j \in DOMAIN st /\ m \in DOMAIN st[i].arr /\ n \in DOMAIN st[j].arr
      BY DEF Replaced
    <2>2. Separate(st[i].arr[m], st[j].arr[n])
      BY <2>1 DEF Safe, ArraysSeparate
    <2>3. CASE i = Len(st) /\ m = f
      <3>1. su[i].arr[m] = b /\ su[j].arr[n] = st[j].arr[n]
        BY <2>1, <2>3 DEF Replaced
      <3>2. Separate(st[j].arr[n], b)
        BY <2>1, <2>3
      <3> QED BY <3>1, <3>2 DEF Separate
    <2>4. CASE j = Len(st) /\ n = f
      <3>1. su[j].arr[n] = b /\ su[i].arr[m] = st[i].arr[m]
        BY <2>1, <2>4 DEF Replaced
      <3>2. Separate(st[i].arr[m], b)
        BY <2>1, <2>4
      <3> QED BY <3>1, <3>2
    <2>5. CASE ~(i = Len(st) /\ m = f) /\ ~(j = Len(st) /\ n = f)
      BY <2>1, <2>2, <2>5 DEF Replaced
    <2> QED BY <2>3, <2>4, <2>5
  <1>3. ObjectsOutside(su, now)
    <2>1. ASSUME NEW i \in DOMAIN su, NEW j \in DOMAIN su, NEW n \in DOMAIN su[j].arr
          PROVE  Outside(su[i].addr, su[j].arr[n]) \/ IsElement(su, i, j, n)
      <3>1. /\ i \in DOMAIN st /\ j \in DOMAIN st /\ n \in DOMAIN st[j].arr
            /\ su[i].addr = st[i].addr /\ su[i].num = st[i].num
        BY DEF Replaced
      <3>2. CASE j = Len(st) /\ n = f
        BY <3>1, <3>2 DEF Replaced
      <3>3. CASE ~(j = Len(st) /\ n = f)
        <4>1. su[j].arr[n] = st[j].arr[n]
          BY <3>1, <3>3 DEF Replaced
        <4>2. Outside(st[i].addr, st[j].arr[n]) \/ IsElement(st, i, j, n)
          BY <3>1 DEF Safe, ObjectsOutside
        <4> QED BY <3>1, <4>1, <4>2 DEF IsElement
      <3> QED BY <3>2, <3>3
    <2> QED BY <2>1 DEF ObjectsOutside, Replaced
  <1> QED
    BY <1>1, <1>2, <1>3 DEF Safe

\* No message is under construction in an array of the running frame.
LEMMA TopArraysHoldNone ==
    ASSUME NEW st, IsSeq(st), NEW cells, Safe(st, cells), Len(st) \in DOMAIN st,
           NEW f \in DOMAIN st[Len(st)].arr, NEW i \in DOMAIN st
    PROVE  st[i].addr \in 0 .. cells /\ Outside(st[i].addr, st[Len(st)].arr[f])
  <1>1. Len(st) \in Nat /\ DOMAIN st = 1 .. Len(st)
    BY SeqFacts
  <1>2. i # Len(st) + 1
    BY <1>1
  <1>3. Outside(st[i].addr, st[Len(st)].arr[f]) \/ IsElement(st, i, Len(st), f)
    BY DEF Safe, ObjectsOutside
  <1> QED
    BY <1>2, <1>3 DEF Safe, ObjectsOutside, IsElement

\* An element is counted that the capacity has room for.
LEMMA ArrayRecounted ==
    ASSUME NEW st, IsSeq(st), NEW cells \in Nat, Safe(st, cells), Len(st) \in DOMAIN st,
           NEW f \in DOMAIN st[Len(st)].arr, NEW b \in Array, NEW su, Replaced(su, st, f, b),
           b.acc = st[Len(st)].arr[f].acc, b.cap = st[Len(st)].arr[f].cap,
           b.n \in st[Len(st)].arr[f].n .. b.cap
    PROVE  Safe(su, cells)
  <1> DEFINE a == st[Len(st)].arr[f]
  <1>1. a \in Array /\ InMemory(a, cells)
    BY DEF Safe, ArraysIn
  <1>2. InMemory(b, cells)
    BY <1>1 DEF InMemory, Array
  <1>3. ASSUME NEW i \in DOMAIN st, NEW n \in DOMAIN st[i].arr, i # Len(st) \/ n # f
        PROVE  InMemory(st[i].arr[n], cells) /\ Separate(st[i].arr[n], b)
    <2>1. Separate(st[i].arr[n], a)
      BY <1>3 DEF Safe, ArraysSeparate
    <2> QED BY <2>1 DEF Safe, ArraysIn, Separate
  <1>4. ASSUME NEW i \in DOMAIN st PROVE st[i].addr \in 0 .. cells /\ Outside(st[i].addr, b)
    BY TopArraysHoldNone DEF Outside
  <1> QED
    BY <1>2, <1>3, <1>4, TopArrayReplaced

\* The array is allocated anew at the cursor.
LEMMA ArrayRelocated ==
    ASSUME NEW st, IsSeq(st), NEW cells \in Nat, Safe(st, cells), Len(st) \in DOMAIN st,
           NEW f \in DOMAIN st[Len(st)].arr, NEW b \in Array, NEW su, Replaced(su, st, f, b),
           b.acc = cells + 1, b.n \in 1 .. b.cap
    PROVE  Safe(su, cells + b.cap)
  <1>0. b.acc \in Nat /\ b.n \in Nat /\ b.cap \in Nat /\ cells + b.cap \in Nat
    BY DEF Array
  <1>2. InMemory(b, cells + b.cap)
    BY <1>0 DEF InMemory
  <1>3. ASSUME NEW i \in DOMAIN st, NEW n \in DOMAIN st[i].arr
        PROVE  InMemory(st[i].arr[n], cells + b.cap) /\ Separate(st[i].arr[n], b)
    <2>1. st[i].arr[n] \in Array /\ InMemory(st[i].arr[n], cells)
      BY DEF Safe, ArraysIn
    <2> QED BY <1>0, <2>1 DEF InMemory, Separate, Array
  <1>4. ASSUME NEW i \in DOMAIN st PROVE st[i].addr \in 0 .. (cells + b.cap) /\ Outside(st[i].addr, b)
    <2>1. st[i].addr \in 0 .. cells
      BY DEF Safe, ObjectsOutside
    <2> QED BY <1>0, <2>1 DEF Outside
  <1> QED
    BY <1>0, <1>2, <1>3, <1>4, TopArrayReplaced

\* The array is cut to its elements, and the memory with it if the array is the last thing there.
LEMMA ArrayTrimmed ==
    ASSUME NEW st, IsSeq(st), NEW cells \in Nat, Safe(st, cells), Len(st) \in DOMAIN st,
           NEW f \in DOMAIN st[Len(st)].arr, NEW b \in Array, NEW su, Replaced(su, st, f, b),
           b.acc = st[Len(st)].arr[f].acc, b.n = st[Len(st)].arr[f].n, b.cap = b.n,
           NEW now \in Nat,
           \/ now = cells
           \/ /\ b.acc # 0 /\ b.acc + st[Len(st)].arr[f].cap = cells + 1
              /\ now = b.acc + b.n - 1
    PROVE  Safe(su, now)
  <1> DEFINE a == st[Len(st)].arr[f]
  <1>1. a \in Array /\ InMemory(a, cells)
    BY DEF Safe, ArraysIn
  <1>a. a.acc \in Nat /\ a.n \in Nat /\ a.cap \in Nat /\ b.acc = a.acc /\ b.n = a.n /\ b.cap = a.n
    BY <1>1 DEF Array
  <1>b. a.n <= a.cap /\ (a.acc = 0 => a.cap = 0) /\ (a.acc # 0 => a.n >= 1) /\ a.acc + a.cap <= cells + 1
    BY <1>1 DEF InMemory
  <1>c. now = cells \/ (a.acc # 0 /\ a.acc + a.cap = cells + 1 /\ now = a.acc + a.n - 1)
    BY <1>a
  <1>2. InMemory(b, now)
    BY <1>a, <1>b, <1>c DEF InMemory
  <1>3. ASSUME NEW i \in DOMAIN st, NEW n \in DOMAIN st[i].arr, i # Len(st) \/ n # f
        PROVE  InMemory(st[i].arr[n], now) /\ Separate(st[i].arr[n], b)
    <2> DEFINE o == st[i].arr[n]
    <2>1. Separate(o, a)
      BY <1>3 DEF Safe, ArraysSeparate
    <2>2. o \in Array /\ InMemory(o, cells)
      BY DEF Safe, ArraysIn
    <2>3. o.acc \in Nat /\ o.n \in Nat /\ o.cap \in Nat
      BY <2>2 DEF Array
    <2> HIDE DEF o, a
    <2>4. Separate(o, b)
      BY <1>a, <1>b, <2>1, <2>3 DEF Separate
    <2>5. InMemory(o, now)
      <3>1. /\ o.n <= o.cap /\ (o.acc = 0 => o.cap = 0) /\ (o.acc # 0 => o.n >= 1)
            /\ o.acc + o.cap <= cells + 1
        BY <2>2 DEF InMemory
      <3>2. o.acc = 0 \/ a.acc = 0 \/ o.acc + o.cap <= a.acc \/ a.acc + a.cap <= o.acc
        BY <2>1 DEF Separate
      <3>3. o.acc + o.cap <= now + 1
        <4>1. CASE now = cells
          BY <3>1, <4>1
        <4>2. CASE a.acc # 0 /\ a.acc + a.cap = cells + 1 /\ now = a.acc + a.n - 1
          <5>1. now + 1 >= a.acc /\ now + 1 \in Nat
            BY <1>a, <1>b, <4>2
          <5>2. ~(a.acc + a.cap <= o.acc) \/ o.acc = 0
            BY <2>3, <3>1, <4>2
          <5>3. o.acc = 0 \/ o.acc + o.cap <= a.acc
            BY <3>2, <4>2, <5>2
          <5> QED BY <1>a, <2>3, <3>1, <5>1, <5>3
        <4> QED BY <1>c, <4>1, <4>2
      <3> QED BY <3>1, <3>3 DEF InMemory
    <2> QED BY <2>4, <2>5 DEF o
  <1>4. ASSUME NEW i \in DOMAIN st PROVE st[i].addr \in 0 .. now /\ Outside(st[i].addr, b)
    <2>1. st[i].addr \in 0 .. cells /\ Outside(st[i].addr, a)
      BY TopArraysHoldNone
    <2> HIDE DEF a
    <2> QED BY <1>a, <1>b, <1>c, <2>1 DEF Outside
  <1> QED
    BY <1>2, <1>3, <1>4, TopArrayReplaced

\* A new frame has no arrays yet; its cell is behind the others, or an element of the array of
\* the frame below, or it has none.
LEMMA FramePushed ==
    ASSUME NEW st, IsSeq(st), NEW cells \in Nat, Safe(st, cells),
           NEW fr, \A n \in DOMAIN fr.arr : fr.arr[n] = EmptyArray,
           NEW su, DOMAIN su = 1 .. (Len(st) + 1), su[Len(st) + 1] = fr,
           \A i \in DOMAIN st : su[i] = st[i],
           NEW now \in Nat, now >= cells, fr.addr \in 0 .. now,
           \A j \in DOMAIN st : \A n \in DOMAIN st[j].arr :
              Outside(fr.addr, st[j].arr[n]) \/ IsElement(su, Len(st) + 1, j, n)
    PROVE  Safe(su, now)
  <1>0. Len(st) \in Nat /\ DOMAIN st = 1 .. Len(st)
    BY SeqFacts
  <1>1. \A i \in DOMAIN su : (i \in DOMAIN st /\ su[i] = st[i]) \/ (i = Len(st) + 1 /\ su[i] = fr)
    BY <1>0
  <1>2. EmptyArray \in Array /\ EmptyArray.acc = 0 /\ InMemory(EmptyArray, now)
    BY DEF EmptyArray, Array, InMemory
  <1>3. ArraysIn(su, now)
    <2> SUFFICES ASSUME NEW i \in DOMAIN su, NEW n \in DOMAIN su[i].arr
                 PROVE  su[i].arr[n] \in Array /\ InMemory(su[i].arr[n], now)
      BY DEF ArraysIn
    <2>1. CASE i \in DOMAIN st /\ su[i] = st[i]
      <3>1. st[i].arr[n] \in Array /\ InMemory(st[i].arr[n], cells)
        BY <2>1 DEF Safe, ArraysIn
      <3> QED BY <2>1, <3>1 DEF InMemory, Array
    <2>2. CASE su[i] = fr
      BY <1>2, <2>2
    <2> QED BY <1>1, <2>1, <2>2
  <1>4. ArraysSeparate(su)
    <2> SUFFICES ASSUME NEW i \in DOMAIN su, NEW j \in DOMAIN su,
                        NEW m \in DOMAIN su[i].arr, NEW n \in DOMAIN su[j].arr, i # j \/ m # n
                 PROVE  Separate(su[i].arr[m], su[j].arr[n])
      BY DEF ArraysSeparate
    <2>1. CASE su[i] = fr \/ su[j] = fr
      BY <1>2, <2>1 DEF Separate
    <2>2. CASE i \in DOMAIN st /\ su[i] = st[i] /\ j \in DOMAIN st /\ su[j] = st[j]
      BY <2>2 DEF Safe, ArraysSeparate
    <2> QED BY <1>1, <2>1, <2>2
  <1>5. ObjectsOutside(su, now)
    <2>1. ASSUME NEW i \in DOMAIN su PROVE su[i].addr \in 0 .. now
      <3>1. CASE i \in DOMAIN st /\ su[i] = st[i]
        <4>1. st[i].addr \in 0 .. cells
          BY <3>1 DEF Safe, ObjectsOutside
        <4> QED BY <3>1, <4>1
      <3> QED BY <1>1, <3>1
    <2>2. ASSUME NEW i \in DOMAIN su, NEW j \in DOMAIN su, NEW n \in DOMAIN su[j].arr
          PROVE  Outside(su[i].addr, su[j].arr[n]) \/ IsElement(su, i, j, n)
      <3>1. CASE su[j] = fr
        BY <1>2, <3>1 DEF Outside
      <3>2. CASE j \in DOMAIN st /\ su[j] = st[j] /\ i = Len(st) + 1 /\ su[i] = fr
        BY <3>2
      <3>3. CASE j \in DOMAIN st /\ su[j] = st[j] /\ i \in DOMAIN st /\ su[i] = st[i]
        BY <3>3 DEF Safe, ObjectsOutside, IsElement
      <3> QED BY <1>1, <3>1, <3>2, <3>3
    <2> QED BY <2>1, <2>2 DEF ObjectsOutside
  <1> QED
    BY <1>3, <1>4, <1>5 DEF Safe

-----------------------------------------------------------------------------
(* Sequences and frames                                                    *)

\* Two sequences, one behind the other.
LEMMA ConcatIsSeq ==
    ASSUME NEW s, NEW t, IsSeq(s), IsSeq(t)
    PROVE  /\ IsSeq(s \o t) /\ Len(s \o t) = Len(s) + Len(t)
           /\ \A i \in 1 .. Len(s) : (s \o t)[i] = s[i]
           /\ \A i \in 1 .. Len(t) : (s \o t)[Len(s) + i] = t[i]
  <1> DEFINE S == {s[i] : i \in DOMAIN s} \cup {t[i] : i \in DOMAIN t}
  <1>1. s \in Seq(S) /\ t \in Seq(S)
    BY SeqMonotonic DEF IsSeq
  <1> HIDE DEF S
  <1>2. s \o t \in Seq(S) /\ Len(s \o t) = Len(s) + Len(t)
    BY <1>1, ConcatProperties
  <1>3. Len(s) \in Nat /\ Len(t) \in Nat
    BY SeqFacts
  <1>4. \A i \in 1 .. Len(s) : (s \o t)[i] = s[i]
    BY <1>1, <1>3
  <1>5. \A i \in 1 .. Len(t) : (s \o t)[Len(s) + i] = t[i]
    BY <1>1, <1>3
  <1> QED
    BY <1>2, <1>4, <1>5, SeqIsSeq

\* A sequence with one element replaced.
LEMMA ExceptIsSeq ==
    ASSUME NEW s, IsSeq(s), NEW k \in DOMAIN s, NEW x
    PROVE  /\ IsSeq([s EXCEPT ![k] = x]) /\ Len([s EXCEPT ![k] = x]) = Len(s)
           /\ DOMAIN [s EXCEPT ![k] = x] = DOMAIN s
           /\ [s EXCEPT ![k] = x][k] = x
           /\ \A i \in DOMAIN s : i # k => [s EXCEPT ![k] = x][i] = s[i]
  <1>1. Len(s) \in Nat /\ DOMAIN s = 1 .. Len(s)
    BY SeqFacts
  <1> DEFINE e == [s EXCEPT ![k] = x]
             S == {s[i] : i \in DOMAIN s} \cup {x}
  <1>2. s \in Seq(S) /\ x \in S
    BY SeqMonotonic DEF IsSeq
  <1> HIDE DEF S
  <1>3. e \in Seq(S) /\ Len(e) = Len(s)
    BY <1>1, <1>2, ExceptSeq
  <1>4. DOMAIN e = DOMAIN s /\ e[k] = x /\ \A i \in DOMAIN s : i # k => e[i] = s[i]
    BY <1>2
  <1> QED
    BY <1>3, <1>4, SeqIsSeq

\* The running frame.
LEMMA TopFrame ==
    ASSUME IInv, Running
    PROVE  /\ Len(stack) \in Nat /\ Len(stack) >= 1 /\ Len(stack) \in DOMAIN stack
           /\ DOMAIN stack = 1 .. Len(stack)
           /\ Top = stack[Len(stack)] /\ Typed(Top)
           /\ Len(mem) \in Nat /\ DOMAIN mem = 1 .. Len(mem)
  <1>1. Len(stack) \in Nat /\ DOMAIN stack = 1 .. Len(stack) /\ Len(mem) \in Nat /\ DOMAIN mem = 1 .. Len(mem)
    BY SeqFacts DEF IInv
  <1>2. Len(stack) # 0
    <2>1. stack \in Seq({stack[i] : i \in DOMAIN stack}) /\ stack # <<>>
      BY DEF IInv, IsSeq, Running
    <2> QED BY <2>1, EmptySeq
  <1>3. Len(stack) >= 1 /\ Len(stack) \in DOMAIN stack
    BY <1>1, <1>2
  <1> QED
    BY <1>1, <1>3 DEF IInv, Top

\* Frame fr is frame old but for its values, bits and what is left of its body.
Like(fr, old) ==
    /\ Typed(fr) /\ fr.type = old.type
    /\ fr.addr = old.addr /\ fr.num = old.num /\ fr.arr = old.arr

\* The record at hand, and the frame behind it.
LEMMA AtARecord ==
    ASSUME IInv, AtRecord
    PROVE  Rec \in Records[Top.type] /\ Like(Advanced, Top)
  <1>1. Typed(Top) /\ Top.body # <<>>
    BY TopFrame DEF AtRecord
  <1>2. Top.body \in Seq(Records[Top.type])
    BY <1>1 DEF Typed
  <1>3. Head(Top.body) \in Records[Top.type] /\ Tail(Top.body) \in Seq(Records[Top.type])
    <2>1. PICK b : b = Top.body
      OBVIOUS
    <2>2. PICK R : R = Records[Top.type]
      OBVIOUS
    <2>3. b \in Seq(R) /\ b # <<>>
      BY <1>1, <1>2, <2>1, <2>2
    <2>4. Head(b) \in R /\ Tail(b) \in Seq(R)
      BY <2>3, HeadTailProperties
    <2> QED BY <2>1, <2>2, <2>4
  <1>4. /\ DOMAIN Advanced = DOMAIN Top /\ Advanced.body = Tail(Top.body)
        /\ Advanced.type = Top.type /\ Advanced.addr = Top.addr /\ Advanced.num = Top.num
        /\ Advanced.arr = Top.arr
    BY <1>1 DEF Typed, FrameFields, Advanced
  <1> QED
    BY <1>1, <1>3, <1>4 DEF Rec, Typed, Like

\* Recording the value of a field leaves the arrays and the cell of the frame alone.
LEMMA HoldingKeeps ==
    ASSUME NEW fr, Typed(fr), NEW num, NEW v
    PROVE  Like(Holding(fr, num, v), fr)
  <1> DEFINE h == Holding(fr, num, v)
  <1>1. /\ DOMAIN h = DOMAIN fr /\ h.body = fr.body /\ h.type = fr.type /\ h.addr = fr.addr
        /\ h.num = fr.num /\ h.arr = fr.arr
    BY DEF Typed, FrameFields, Holding
  <1> QED
    BY <1>1 DEF Typed, Like

\* A new frame.
LEMMA FrameFacts ==
    ASSUME NEW t \in DOMAIN Schema, NEW body \in Seq(Records[t]), NEW depth, NEW addr, NEW num, NEW map
    PROVE  LET fr == Frame(t, body, depth, addr, num, map)
           IN  /\ Typed(fr) /\ fr.addr = addr /\ fr.num = num
               /\ \A n \in DOMAIN fr.arr : fr.arr[n] = EmptyArray
  BY DEF Frame, Typed, FrameFields, Repeated

\* The running frame goes on with its arrays as they are.
LEMMA ContinueStep ==
    ASSUME IInv, Running, NEW fr, Like(fr, Top), Continue(fr), UNCHANGED <<input, mem>>
    PROVE  IInv'
  <1>1. /\ Len(stack) \in DOMAIN stack /\ Top = stack[Len(stack)] /\ IsSeq(stack)
        /\ stack' = [stack EXCEPT ![Len(stack)] = fr]
    BY TopFrame DEF IInv, Continue
  <1>2. /\ IsSeq(stack') /\ DOMAIN stack' = DOMAIN stack /\ stack'[Len(stack)] = fr
        /\ \A i \in DOMAIN stack : i # Len(stack) => stack'[i] = stack[i]
    BY <1>1, ExceptIsSeq
  <1>3. \A i \in DOMAIN stack' :
          Typed(stack'[i]) /\ stack'[i].arr = stack[i].arr /\ stack'[i].addr = stack[i].addr
             /\ stack'[i].num = stack[i].num
    BY <1>1, <1>2 DEF IInv, Like
  <1>4. Safe(stack', Len(mem))
    <2>1. PICK su : su = stack'
      OBVIOUS
    <2>2. Safe(su, Len(mem))
      BY <1>2, <1>3, <2>1, SafeAgrees DEF IInv
    <2> QED BY <2>1, <2>2
  <1> QED
    BY <1>2, <1>3, <1>4 DEF IInv

\* Without frames there is nothing to keep apart.
LEMMA NoFrames == IsSeq(<<>>) /\ DOMAIN <<>> = {} /\ \A n : Safe(<<>>, n)
  <1>1. <<>> \in Seq({}) /\ DOMAIN <<>> = {}
    OBVIOUS
  <1>2. IsSeq(<<>>)
    BY <1>1, SeqIsSeq
  <1> QED
    BY <1>1, <1>2 DEF Safe, ArraysIn, ArraysSeparate, ObjectsOutside

\* A failing decode drops its frames.
LEMMA FailStep ==
    ASSUME IInv, NEW code, NEW num, Fail(code, num)
    PROVE  IInv'
  <1>1. stack' = <<>> /\ input' = input /\ mem' = mem
    BY DEF Fail
  <1> QED
    BY <1>1, NoFrames DEF IInv

-----------------------------------------------------------------------------
(* Growing arrays                                                          *)

\* A frame with another array, and the stack with another running frame.
WithArray(fr, f, b) == [fr EXCEPT !.arr[f] = b]
WithTop(fr) == [stack EXCEPT ![Len(stack)] = fr]

\* Only the running frame is another.
LEMMA TopExcept ==
    ASSUME IInv, Running, NEW fr
    PROVE  LET e == WithTop(fr)
           IN  /\ IsSeq(e) /\ Len(e) = Len(stack) /\ DOMAIN e = DOMAIN stack /\ e[Len(stack)] = fr
               /\ \A i \in DOMAIN stack : i # Len(stack) => e[i] = stack[i]
  <1>1. Len(stack) \in DOMAIN stack /\ IsSeq(stack)
    BY TopFrame DEF IInv
  <1> QED
    BY <1>1, ExceptIsSeq DEF WithTop

\* The running frame with other values, bits or what is left of its body.
LEMMA LikeTop ==
    ASSUME IInv, Running, NEW fr, Like(fr, Top), NEW su, su = WithTop(fr)
    PROVE  /\ IsSeq(su) /\ Len(su) = Len(stack) /\ DOMAIN su = DOMAIN stack
           /\ \A i \in DOMAIN su : /\ Typed(su[i]) /\ su[i].arr = stack[i].arr
                                   /\ su[i].addr = stack[i].addr /\ su[i].num = stack[i].num
  <1>1. Top = stack[Len(stack)] /\ \A i \in DOMAIN stack : Typed(stack[i])
    BY TopFrame DEF IInv
  <1>2. /\ IsSeq(su) /\ Len(su) = Len(stack) /\ DOMAIN su = DOMAIN stack /\ su[Len(stack)] = fr
        /\ \A i \in DOMAIN stack : i # Len(stack) => su[i] = stack[i]
    BY TopExcept
  <1> QED
    BY <1>1, <1>2 DEF Like

\* The stack with another array in its running frame.
LEMMA ReplaceTop ==
    ASSUME IInv, Running, NEW old, Like(old, Top), NEW f \in DOMAIN Top.arr, NEW b,
           NEW su, su = WithTop(WithArray(old, f, b))
    PROVE  /\ Replaced(su, stack, f, b) /\ IsSeq(su) /\ Len(su) = Len(stack)
           /\ \A i \in DOMAIN su : Typed(su[i])
  <1>1. /\ Len(stack) \in DOMAIN stack /\ Top = stack[Len(stack)] /\ IsSeq(stack) /\ Typed(Top)
        /\ \A i \in DOMAIN stack : Typed(stack[i])
    BY TopFrame DEF IInv
  <1>0. PICK fr : fr = WithArray(old, f, b)
    OBVIOUS
  <1>2. /\ IsSeq(su) /\ Len(su) = Len(stack) /\ DOMAIN su = DOMAIN stack /\ su[Len(stack)] = fr
        /\ \A i \in DOMAIN stack : i # Len(stack) => su[i] = stack[i]
    BY <1>0, TopExcept
  <1>3. /\ DOMAIN old = FrameFields /\ old.arr = Top.arr /\ old.addr = Top.addr /\ old.num = Top.num
        /\ old.type = Top.type /\ Typed(old)
    BY DEF Like, Typed
  <1>4. /\ DOMAIN fr = DOMAIN old /\ fr.addr = old.addr /\ fr.num = old.num /\ fr.type = old.type
        /\ fr.body = old.body /\ DOMAIN fr.arr = DOMAIN old.arr /\ fr.arr[f] = b
        /\ \A n \in DOMAIN old.arr : n # f => fr.arr[n] = old.arr[n]
    BY <1>0, <1>3 DEF FrameFields, WithArray
  <1>5. Typed(fr)
    BY <1>3, <1>4 DEF Typed
  <1>6. Replaced(su, stack, f, b)
    <2>1. ASSUME NEW i \in DOMAIN stack
          PROVE  /\ su[i].addr = stack[i].addr /\ su[i].num = stack[i].num
                 /\ DOMAIN su[i].arr = DOMAIN stack[i].arr
                 /\ \A n \in DOMAIN stack[i].arr :
                       i # Len(stack) \/ n # f => su[i].arr[n] = stack[i].arr[n]
      <3>1. CASE i = Len(stack)
        BY <1>1, <1>2, <1>3, <1>4, <3>1
      <3>2. CASE i # Len(stack)
        BY <1>2, <3>2
      <3> QED BY <3>1, <3>2
    <2>2. su[Len(stack)].arr[f] = b
      BY <1>2, <1>4
    <2> QED BY <1>2, <2>1, <2>2 DEF Replaced
  <1> QED
    BY <1>1, <1>2, <1>5, <1>6

\* Two ways to replace the same array.
LEMMA ReplacedAgain ==
    ASSUME NEW st, NEW su, NEW sv, NEW f, NEW b, NEW c, Replaced(su, st, f, b), Replaced(sv, st, f, c),
           Len(su) = Len(st)
    PROVE  Replaced(sv, su, f, c)
  BY DEF Replaced

\* The memory behind a new array of so many cells.
LEMMA GrownMemory ==
    ASSUME IInv, NEW a, NEW nc \in Nat
    PROVE  IsSeq(MemGrown(a, nc)) /\ Len(MemGrown(a, nc)) = Len(mem) + nc
  <1>1. PICK t : t = [i \in 1 .. nc |-> IF i <= a.n THEN CellAt(a.acc + i - 1) ELSE Junk]
    OBVIOUS
  <1>2. t \in [1 .. nc -> {t[i] : i \in 1 .. nc}]
    BY <1>1
  <1>3. IsSeq(t) /\ Len(t) = nc
    BY <1>2, FunctionIsSeq
  <1>4. MemGrown(a, nc) = mem \o t
    BY <1>1 DEF MemGrown
  <1> QED
    BY <1>3, <1>4, ConcatIsSeq DEF IInv

\* Stores do not move the cursor.
LEMMA StoredMemory ==
    ASSUME NEW m, IsSeq(m), NEW c, NEW vs
    PROVE  IsSeq(Stored(m, c, vs)) /\ Len(Stored(m, c, vs)) = Len(m)
  <1>1. Len(m) \in Nat /\ DOMAIN m = 1 .. Len(m)
    BY SeqFacts
  <1>2. PICK t : t = Stored(m, c, vs)
    OBVIOUS
  <1>3. t \in [1 .. Len(m) -> {t[i] : i \in 1 .. Len(m)}]
    BY <1>1, <1>2 DEF Stored
  <1> QED
    BY <1>1, <1>2, <1>3, FunctionIsSeq

\* The array of an open field.
LEMMA OpenArray ==
    ASSUME IInv, NEW kinds \in SUBSET RepeatedKinds, AtField(kinds)
    PROVE  /\ Running /\ Rec.num \in DOMAIN Top.arr /\ Top.type \in DOMAIN Schema
           /\ Rec \in Records[Top.type] /\ Known(Top.type, Rec) /\ Like(Advanced, Top)
           /\ Top.arr[Rec.num] \in Array /\ InMemory(Top.arr[Rec.num], Len(mem))
           /\ Field = Schema[Top.type][Rec.num] /\ Field.kind \in kinds
  <1>1. /\ AtRecord /\ Running /\ Known(Top.type, Rec) /\ Field.kind \in kinds
        /\ Field = Schema[Top.type][Rec.num]
    BY DEF AtField, AtRecord, Field, Fields
  <1>2. /\ Rec \in Records[Top.type] /\ Like(Advanced, Top) /\ Typed(Top)
        /\ Len(stack) \in DOMAIN stack /\ Top = stack[Len(stack)]
    BY <1>1, AtARecord, TopFrame
  <1>3. Rec.num \in DOMAIN Top.arr /\ Top.type \in DOMAIN Schema
    BY <1>1, <1>2 DEF Typed, Repeated, Known
  <1>4. Top.arr[Rec.num] \in Array /\ InMemory(Top.arr[Rec.num], Len(mem))
    BY <1>2, <1>3 DEF IInv, Safe, ArraysIn
  <1> QED
    BY <1>1, <1>2, <1>3, <1>4

\* An array in new memory.
LEMMA GrownFacts ==
    ASSUME NEW a \in Array, NEW nc \in Nat, Len(mem) \in Nat
    PROVE  /\ Grown(a, nc) \in Array /\ Grown(a, nc).acc = Len(mem) + 1
           /\ Grown(a, nc).cap = nc /\ Grown(a, nc).n = a.n
  <1>0. a.acc \in Nat /\ a.n \in Nat /\ a.cap \in Nat /\ a.got \in Nat
    BY DEF Array
  <1>1. PICK p : p = [a EXCEPT !.acc = Len(mem) + 1]
    OBVIOUS
  <1>2. p \in Array /\ p.acc = Len(mem) + 1 /\ p.n = a.n
    BY <1>0, <1>1 DEF Array
  <1>3. PICK q : q = [p EXCEPT !.cap = nc]
    OBVIOUS
  <1>4. q \in Array /\ q.acc = Len(mem) + 1 /\ q.n = a.n /\ q.cap = nc
    BY <1>2, <1>3 DEF Array
  <1>5. PICK r : r = [q EXCEPT !.got = nc]
    OBVIOUS
  <1>6. r \in Array /\ r.acc = Len(mem) + 1 /\ r.n = a.n /\ r.cap = nc
    BY <1>4, <1>5 DEF Array
  <1>7. Grown(a, nc) = r
    BY <1>1, <1>3, <1>5, Zenon DEF Grown, NextCell
  <1> QED BY <1>6, <1>7

\* An array with so many elements more.
Counted(a, k) == [a EXCEPT !.n = @ + k]

\* The count is all that changes.
LEMMA CountedFacts ==
    ASSUME NEW a \in Array, NEW k \in Nat
    PROVE  LET b == Counted(a, k)
           IN  b \in Array /\ b.acc = a.acc /\ b.cap = a.cap /\ b.n = a.n + k
  <1>1. a.acc \in Nat /\ a.n \in Nat /\ a.cap \in Nat /\ a.got \in Nat
    BY DEF Array
  <1> QED
    BY <1>1 DEF Array, Counted

\* rp_slot: the array has one element more, in memory that is its own.
LEMMA SlotFacts ==
    ASSUME IInv, NEW a \in Array, InMemory(a, Len(mem))
    PROVE  LET b == SlotArray(a)
           IN  /\ b \in Array /\ b.n = a.n + 1 /\ b.n \in 1 .. b.cap
               /\ IsSeq(SlotMem(a)) /\ Len(SlotMem(a)) \in Nat
               /\ \/ b.acc = a.acc /\ b.cap = a.cap /\ SlotMem(a) = mem
                  \/ b.acc = Len(mem) + 1 /\ Len(SlotMem(a)) = Len(mem) + b.cap
  <1>1. a.acc \in Nat /\ a.n \in Nat /\ a.cap \in Nat /\ a.got \in Nat /\ Len(mem) \in Nat
    BY SeqFacts DEF Array, IInv
  <1>2. a.n <= a.cap
    BY DEF InMemory
  <1>3. CASE SlotNeedsGrowth(a)
    <2> DEFINE nc == SlotCapacity(a)
    <2>1. nc \in Nat /\ nc >= a.n + 1
      BY <1>1, <1>3, DecodeAssumption DEF SlotCapacity, SlotNeedsGrowth
    <2>2. IsSeq(MemGrown(a, nc)) /\ Len(MemGrown(a, nc)) = Len(mem) + nc
      BY <2>1, GrownMemory
    <2>3. SlotMem(a) = MemGrown(a, nc)
      BY <1>3 DEF SlotMem
    <2>4. SlotArray(a) = [Grown(a, nc) EXCEPT !.n = @ + 1]
      BY <1>3 DEF SlotArray
    <2> HIDE DEF nc
    <2>5. Grown(a, nc) \in Array /\ Grown(a, nc).acc = Len(mem) + 1 /\ Grown(a, nc).cap = nc /\ Grown(a, nc).n = a.n
      BY <1>1, <2>1, GrownFacts
    <2>6. SlotArray(a) \in Array /\ SlotArray(a).n = a.n + 1 /\ SlotArray(a).cap = nc /\ SlotArray(a).acc = Len(mem) + 1
      BY <1>1, <2>4, <2>5 DEF Array
    <2> QED BY <1>1, <2>1, <2>2, <2>3, <2>6
  <1>4. CASE ~SlotNeedsGrowth(a)
    <2>1. SlotMem(a) = mem /\ IsSeq(mem)
      BY <1>4 DEF SlotMem, IInv
    <2>2. SlotArray(a) = [a EXCEPT !.n = @ + 1] /\ a.n # a.cap
      BY <1>4 DEF SlotArray, SlotNeedsGrowth
    <2>3. SlotArray(a) \in Array /\ SlotArray(a).n = a.n + 1 /\ SlotArray(a).cap = a.cap /\ SlotArray(a).acc = a.acc
      BY <1>1, <2>2 DEF Array
    <2> QED BY <1>1, <1>2, <2>1, <2>2, <2>3
  <1> QED
    BY <1>3, <1>4

\* A span without a failing element has no more elements than its bound, and some if that is
\* not zero.
LEMMA SpanBound ==
    ASSUME NEW t \in DOMAIN Schema, NEW r \in Records[t], Known(t, r), r.val # Bad,
           TakesPacked(Schema[t][r.num], r), ~HasBad(r.val), NEW ub, ub = UpperBound(Schema[t][r.num], r.val)
    PROVE  /\ ub \in Nat /\ Len(r.val) \in Nat /\ Len(r.val) <= ub
           /\ ub # 0 => Len(r.val) >= 1
  <1>1. PICK v, n : v = r.val /\ n = Len(r.val)
    OBVIOUS
  <1>2. v \in Seq(DOMAIN Width)
    BY <1>1, DecodeAssumption
  <1>3. n \in Nat /\ DOMAIN v = 1 .. n /\ \A k \in 1 .. n : v[k] \in DOMAIN Width
    BY <1>1, <1>2, LenProperties
  <1>4. IsFiniteSet(1 .. n) /\ Cardinality(1 .. n) = n
    BY <1>3, FS_Interval
  <1>5. CASE Schema[t][r.num].wire = "Varint"
    <2>1. PICK g : g = [k \in DOMAIN v |-> Width[v[k]]]
      OBVIOUS
    <2>2. ub = SumFunctionOnSet(g, 1 .. n)
      BY <1>1, <1>3, <1>5, <2>1 DEF UpperBound, SumFunction
    <2>3. \A k \in 1 .. n : g[k] \in Nat \ {0}
      BY <1>3, <2>1, DecodeAssumption
    <2>4. ub \in Nat /\ n <= ub /\ (1 .. n = {} => ub = 0)
      BY <1>4, <2>2, <2>3, SumAtLeastCount
    <2> QED BY <1>1, <1>3, <2>4
  <1>6. CASE Schema[t][r.num].wire # "Varint"
    <2>1. {k \in DOMAIN v : v[k] # Bad} = 1 .. n
      BY <1>1, <1>3 DEF HasBad
    <2>2. ub = n
      BY <1>1, <1>4, <1>6, <2>1 DEF UpperBound
    <2> QED BY <1>1, <1>3, <2>2
  <1> QED BY <1>5, <1>6

\* The growth of an array for a span: the elements are in memory that is its own.
LEMMA SpanFacts ==
    ASSUME IInv, NEW a \in Array, InMemory(a, Len(mem)), NEW ub \in Nat, NEW k \in Nat, k <= ub,
           ub # 0 => k >= 1, NEW b, b = Counted(SpanArray(a, ub), k)
    PROVE  /\ b \in Array /\ b.n = a.n + k /\ b.n <= b.cap
           /\ IsSeq(SpanMem(a, ub)) /\ Len(SpanMem(a, ub)) \in Nat
           /\ \/ b.acc = a.acc /\ b.cap = a.cap /\ SpanMem(a, ub) = mem
              \/ b.acc = Len(mem) + 1 /\ Len(SpanMem(a, ub)) = Len(mem) + b.cap /\ b.n >= 1
  <1>1. a.acc \in Nat /\ a.n \in Nat /\ a.cap \in Nat /\ a.got \in Nat /\ Len(mem) \in Nat
    BY SeqFacts DEF Array, IInv
  <1>2. a.n <= a.cap
    BY DEF InMemory
  <1>3. CASE SpanNeedsGrowth(a, ub)
    <2>1. PICK nc : nc = a.n + ub
      OBVIOUS
    <2>2. nc \in Nat /\ ub # 0
      BY <1>1, <1>3, <2>1 DEF SpanNeedsGrowth
    <2>3. SpanMem(a, ub) = MemGrown(a, nc) /\ SpanArray(a, ub) = Grown(a, nc)
      BY <1>3, <2>1 DEF SpanMem, SpanArray
    <2>4. IsSeq(MemGrown(a, nc)) /\ Len(MemGrown(a, nc)) = Len(mem) + nc
      BY <2>2, GrownMemory
    <2>5. Grown(a, nc) \in Array /\ Grown(a, nc).acc = Len(mem) + 1 /\ Grown(a, nc).cap = nc /\ Grown(a, nc).n = a.n
      BY <1>1, <2>2, GrownFacts
    <2>6. PICK p : p = Grown(a, nc)
      OBVIOUS
    <2>a. b = Counted(p, k)
      BY <2>3, <2>6
    <2>7. p \in Array /\ p.acc = Len(mem) + 1 /\ p.cap = nc /\ p.n = a.n
      BY <2>5, <2>6
    <2>b. b \in Array /\ b.acc = p.acc /\ b.cap = p.cap /\ b.n = p.n + k
      BY <2>a, <2>7, CountedFacts
    <2>8. b \in Array /\ b.acc = Len(mem) + 1 /\ b.cap = nc /\ b.n = a.n + k
      BY <2>7, <2>b
    <2>9. b.n <= b.cap /\ b.n >= 1
      BY <1>1, <2>1, <2>2, <2>8
    <2>c. IsSeq(SpanMem(a, ub)) /\ Len(SpanMem(a, ub)) \in Nat /\ Len(SpanMem(a, ub)) = Len(mem) + b.cap
      BY <1>1, <2>2, <2>3, <2>4, <2>8
    <2> QED BY <2>8, <2>9, <2>c
  <1>4. CASE ~SpanNeedsGrowth(a, ub)
    <2>1. SpanMem(a, ub) = mem /\ SpanArray(a, ub) = a /\ IsSeq(mem)
      BY <1>4 DEF SpanMem, SpanArray, IInv
    <2>2. b = Counted(a, k)
      BY <2>1
    <2>3. b \in Array /\ b.acc = a.acc /\ b.cap = a.cap /\ b.n = a.n + k
      BY <2>2, CountedFacts
    <2>4. ub = 0 \/ a.cap >= a.n + ub
      BY <1>1, <1>4 DEF SpanNeedsGrowth
    <2> QED BY <1>1, <1>2, <2>1, <2>3, <2>4
  <1> QED
    BY <1>3, <1>4

\* The stack with the elements counted.
LEMMA ArrayGrown ==
    ASSUME IInv, Running, NEW f \in DOMAIN Top.arr, NEW b \in Array, NEW su, Replaced(su, stack, f, b),
           NEW now, b.n <= b.cap, b.n >= Top.arr[f].n,
           \/ b.acc = Top.arr[f].acc /\ b.cap = Top.arr[f].cap /\ now = Len(mem)
           \/ b.acc = Len(mem) + 1 /\ now = Len(mem) + b.cap /\ b.n >= 1
    PROVE  Safe(su, now)
  <1> DEFINE a == Top.arr[f]
  <1>1. /\ IsSeq(stack) /\ Len(mem) \in Nat /\ Safe(stack, Len(mem)) /\ Len(stack) \in DOMAIN stack
        /\ Top = stack[Len(stack)]
    BY TopFrame DEF IInv
  <1>2. a \in Array /\ a = stack[Len(stack)].arr[f]
    BY <1>1 DEF Safe, ArraysIn
  <1>3. b.n \in Nat /\ b.cap \in Nat /\ a.n \in Nat
    BY <1>2 DEF Array
  <1>4. CASE b.acc = a.acc /\ b.cap = a.cap /\ now = Len(mem)
    <2>1. b.n \in a.n .. b.cap
      BY <1>3
    <2> QED BY <1>1, <1>2, <1>4, <2>1, ArrayRecounted
  <1>5. CASE b.acc = Len(mem) + 1 /\ now = Len(mem) + b.cap /\ b.n >= 1
    <2>1. b.n \in 1 .. b.cap
      BY <1>3, <1>5
    <2> QED BY <1>1, <1>2, <1>5, <2>1, ArrayRelocated
  <1> QED
    BY <1>4, <1>5

\* The stack with a slot taken by the record at hand.
LEMMA SlotTaken ==
    ASSUME IInv, NEW kinds \in SUBSET RepeatedKinds, AtField(kinds), NEW su,
           su = WithTop(WithArray(Advanced, Rec.num, SlotArray(Top.arr[Rec.num])))
    PROVE  LET a == Top.arr[Rec.num]
           IN  /\ Replaced(su, stack, Rec.num, SlotArray(a)) /\ IsSeq(su) /\ Len(su) = Len(stack)
               /\ \A i \in DOMAIN su : Typed(su[i])
               /\ IsSeq(SlotMem(a)) /\ Len(SlotMem(a)) \in Nat
               /\ Safe(su, Len(SlotMem(a)))
  <1> DEFINE a == Top.arr[Rec.num]
             b == SlotArray(a)
  <1>1. /\ Running /\ Rec.num \in DOMAIN Top.arr /\ Like(Advanced, Top)
        /\ a \in Array /\ InMemory(a, Len(mem))
    BY OpenArray
  <1>2. /\ b \in Array /\ b.n = a.n + 1 /\ b.n \in 1 .. b.cap
        /\ IsSeq(SlotMem(a)) /\ Len(SlotMem(a)) \in Nat
        /\ \/ b.acc = a.acc /\ b.cap = a.cap /\ SlotMem(a) = mem
           \/ b.acc = Len(mem) + 1 /\ Len(SlotMem(a)) = Len(mem) + b.cap
    BY <1>1, SlotFacts
  <1>3. PICK n, c : n = Rec.num /\ c = b
    OBVIOUS
  <1>5. n \in DOMAIN Top.arr /\ su = WithTop(WithArray(Advanced, n, c))
    BY <1>1, <1>3
  <1>6. Replaced(su, stack, n, c) /\ IsSeq(su) /\ Len(su) = Len(stack) /\ \A i \in DOMAIN su : Typed(su[i])
    <2> HIDE DEF b, a
    <2> QED BY <1>1, <1>5, ReplaceTop
  <1>7. Safe(su, Len(SlotMem(a)))
    <2>1. a = Top.arr[n] /\ a.n \in Nat
      BY <1>1, <1>3 DEF Array
    <2>2. /\ c \in Array /\ c.n <= c.cap /\ c.n >= Top.arr[n].n
          /\ \/ c.acc = Top.arr[n].acc /\ c.cap = Top.arr[n].cap /\ Len(SlotMem(a)) = Len(mem)
             \/ c.acc = Len(mem) + 1 /\ Len(SlotMem(a)) = Len(mem) + c.cap /\ c.n >= 1
      BY <1>2, <1>3, <2>1 DEF Array
    <2> HIDE DEF b, a
    <2> QED BY <1>1, <1>5, <1>6, <2>2, ArrayGrown
  <1> HIDE DEF b, a
  <1> QED
    BY <1>2, <1>3, <1>6, <1>7 DEF b, a

-----------------------------------------------------------------------------
(* The steps                                                               *)

\* One element into the next slot.
LEMMA ElementStep ==
    ASSUME IInv, Element
    PROVE  IInv'
  <1> DEFINE a == Top.arr[Rec.num]
             fr == WithArray(Advanced, Rec.num, SlotArray(a))
  <1>1. AtField({"elements", "raws"}) /\ {"elements", "raws"} \in SUBSET RepeatedKinds
    BY DEF Element, RepeatedKinds
  <1>2. CASE OutOfMemory \/ Fail("Wire", 0)
    BY <1>2, FailStep DEF OutOfMemory
  <1>3. CASE /\ mem' = Stored(SlotMem(a), SlotCell(a), <<Rec.val>>) /\ Continue(fr)
             /\ UNCHANGED <<input, result>>
    <2>1. PICK su : su = stack'
      OBVIOUS
    <2>2. su = WithTop(fr)
      BY <1>3, <2>1 DEF Continue, WithTop
    <2>3. /\ IsSeq(su) /\ \A i \in DOMAIN su : Typed(su[i])
          /\ IsSeq(SlotMem(a)) /\ Safe(su, Len(SlotMem(a)))
      BY <1>1, <2>1, <2>2, SlotTaken
    <2>4. IsSeq(mem') /\ Len(mem') = Len(SlotMem(a))
      BY <1>3, <2>3, StoredMemory
    <2> HIDE DEF fr, a
    <2> QED
      BY <1>3, <2>1, <2>3, <2>4 DEF IInv
  <1> QED
    BY <1>2, <1>3 DEF Element, WithArray

\* What the trim does to the array and to the memory.
LEMMA TrimmedFacts ==
    ASSUME NEW a \in Array, NEW m
    PROVE  LET b == Trimmed(a, m)
           IN  b \in Array /\ b.acc = a.acc /\ b.n = a.n /\ b.cap = b.n
  <1>1. a.acc \in Nat /\ a.n \in Nat /\ a.cap \in Nat /\ a.got \in Nat
    BY DEF Array
  <1>2. PICK g : g = IF IsLast(m, a.acc, a.cap) THEN a.n ELSE a.got
    OBVIOUS
  <1>3. PICK p : p = [a EXCEPT !.got = g]
    OBVIOUS
  <1>4. p = AfterTrim(a, m)
    BY <1>2, <1>3 DEF AfterTrim
  <1>5. p \in Array /\ p.acc = a.acc /\ p.n = a.n
    BY <1>1, <1>2, <1>3 DEF Array
  <1>6. PICK q : q = [p EXCEPT !.cap = a.n]
    OBVIOUS
  <1>7. q \in Array /\ q.acc = a.acc /\ q.n = a.n /\ q.cap = a.n
    BY <1>1, <1>5, <1>6 DEF Array
  <1>8. Trimmed(a, m) = q
    BY <1>4, <1>6 DEF Trimmed
  <1> QED BY <1>7, <1>8

\* shrink_last(): the memory stays, or ends with the elements of the array that ended it.
LEMMA ShrunkMemory ==
    ASSUME NEW m, IsSeq(m), NEW a \in Array, InMemory(a, Len(m)), NEW now, now = Shrunk(m, a.acc, a.cap, a.n)
    PROVE  /\ IsSeq(now) /\ Len(now) \in Nat
           /\ \/ Len(now) = Len(m)
              \/ a.acc # 0 /\ a.acc + a.cap = Len(m) + 1 /\ Len(now) = a.acc + a.n - 1
  <1>1. Len(m) \in Nat /\ DOMAIN m = 1 .. Len(m)
    BY SeqFacts
  <1>2. CASE ~IsLast(m, a.acc, a.cap)
    BY <1>1, <1>2 DEF Shrunk
  <1>3. CASE IsLast(m, a.acc, a.cap)
    <2>1. PICK k : k = a.acc + a.n - 1
      OBVIOUS
    <2>2. a.acc # 0 /\ a.acc + a.cap = Len(m) + 1
      BY <1>3 DEF IsLast
    <2>3. k \in Nat /\ k <= Len(m) /\ k >= 1
      BY <1>1, <2>1, <2>2 DEF InMemory, Array
    <2>4. now = SubSeq(m, 1, k)
      BY <1>3, <2>1 DEF Shrunk
    <2>5. \A i \in 1 .. k : m[i] \in {m[j] : j \in DOMAIN m}
      BY <1>1, <2>3
    <2>6. PICK S : S = {m[j] : j \in DOMAIN m}
      OBVIOUS
    <2>7. now \in Seq(S) /\ Len(now) = k
      <3>1. \A i \in 1 .. k : m[i] \in S
        BY <2>5, <2>6
      <3> QED BY <2>3, <2>4, <3>1, SubSeqProperties
    <2> QED BY <2>1, <2>2, <2>3, <2>7, SeqIsSeq
  <1> QED BY <1>2, <1>3

\* A packed span of elements: the array has room for the bound, and is cut to its elements if
\* they are varints.
LEMMA PackedStep ==
    ASSUME IInv, Packed
    PROVE  IInv'
  <1> DEFINE a == Top.arr[Rec.num]
             ub == UpperBound(Field, Rec.val)
             b == Counted(SpanArray(a, ub), Len(Rec.val))
             m == Stored(SpanMem(a, ub), b.acc + a.n, Rec.val)
             c == Trimmed(b, m)
  <1>1. AtField({"elements"}) /\ {"elements"} \in SUBSET RepeatedKinds /\ TakesPacked(Field, Rec)
    BY DEF Packed, RepeatedKinds
  <1>2. /\ Running /\ Rec.num \in DOMAIN Top.arr /\ Like(Advanced, Top)
        /\ a \in Array /\ InMemory(a, Len(mem)) /\ Top.type \in DOMAIN Schema
        /\ Rec \in Records[Top.type] /\ Known(Top.type, Rec) /\ Field = Schema[Top.type][Rec.num]
    BY <1>1, OpenArray
  <1>3. CASE OutOfMemory \/ Fail("Wire", 0)
    BY <1>3, FailStep DEF OutOfMemory
  <1>4. CASE /\ Rec.val # Bad /\ ~HasBad(Rec.val) /\ input' = input
             /\ IF Field.wire = "Varint"
                THEN mem' = Shrunk(m, b.acc, b.cap, b.n) /\ Continue(WithArray(Advanced, Rec.num, c))
                ELSE mem' = m /\ Continue(WithArray(Advanced, Rec.num, b))
    <2>1. ub \in Nat /\ Len(Rec.val) \in Nat /\ Len(Rec.val) <= ub /\ (ub # 0 => Len(Rec.val) >= 1)
      BY <1>1, <1>2, <1>4, SpanBound
    <2>2. PICK n, k, u, p : n = Rec.num /\ k = Len(Rec.val) /\ u = ub /\ p = b
      OBVIOUS
    <2>3. /\ u \in Nat /\ k \in Nat /\ k <= u /\ (u # 0 => k >= 1)
          /\ p = Counted(SpanArray(a, u), k)
      BY <2>1, <2>2
    <2> HIDE DEF ub, a
    <2>4. /\ p \in Array /\ p.n = a.n + k /\ p.n <= p.cap
          /\ IsSeq(SpanMem(a, u)) /\ Len(SpanMem(a, u)) \in Nat
          /\ \/ p.acc = a.acc /\ p.cap = a.cap /\ SpanMem(a, u) = mem
             \/ p.acc = Len(mem) + 1 /\ Len(SpanMem(a, u)) = Len(mem) + p.cap /\ p.n >= 1
      BY <1>2, <2>3, SpanFacts
    <2>5. p.acc \in Nat /\ p.n \in Nat /\ p.cap \in Nat /\ a.n \in Nat /\ p.n >= a.n
      BY <1>2, <2>3, <2>4 DEF Array
    <2>6. PICK w : w = m
      OBVIOUS
    <2>7. IsSeq(w) /\ Len(w) = Len(SpanMem(a, u)) /\ Len(w) \in Nat
      <3>1. w = Stored(SpanMem(a, u), p.acc + a.n, Rec.val)
        BY <2>2, <2>6
      <3> QED BY <2>4, <3>1, StoredMemory
    <2>8. PICK q : q = c
      OBVIOUS
    <2>9. q = Trimmed(p, w)
      BY <2>2, <2>6, <2>8
    <2>10. /\ IF Field.wire = "Varint"
              THEN mem' = Shrunk(w, p.acc, p.cap, p.n) /\ stack' = WithTop(WithArray(Advanced, n, q))
              ELSE mem' = w /\ stack' = WithTop(WithArray(Advanced, n, p))
           /\ input' = input
      BY <1>4, <2>2, <2>6, <2>8 DEF Continue, WithTop
    <2> HIDE DEF b, m, c
    <2>11. PICK su : su = WithTop(WithArray(Advanced, n, p))
      OBVIOUS
    <2>12. n \in DOMAIN Top.arr /\ a = Top.arr[n]
      BY <1>2, <2>2 DEF a
    <2>13. Replaced(su, stack, n, p) /\ IsSeq(su) /\ Len(su) = Len(stack) /\ \A i \in DOMAIN su : Typed(su[i])
      BY <1>2, <2>11, <2>12, ReplaceTop
    <2>14. Safe(su, Len(w))
      <3>1. \/ p.acc = Top.arr[n].acc /\ p.cap = Top.arr[n].cap /\ Len(w) = Len(mem)
            \/ p.acc = Len(mem) + 1 /\ Len(w) = Len(mem) + p.cap /\ p.n >= 1
        BY <2>4, <2>7, <2>12
      <3> QED BY <1>2, <2>4, <2>5, <2>12, <2>13, <3>1, ArrayGrown
    <2>15. CASE Field.wire # "Varint"
      <3>1. mem' = w /\ stack' = su
        BY <2>10, <2>11, <2>15
      <3> QED BY <2>7, <2>10, <2>13, <2>14, <3>1 DEF IInv
    <2>16. CASE Field.wire = "Varint"
      <3>1. PICK sv : sv = stack'
        OBVIOUS
      <3>2. sv = WithTop(WithArray(Advanced, n, q))
        BY <2>10, <2>16, <3>1
      <3>3. Replaced(sv, stack, n, q) /\ IsSeq(sv) /\ \A i \in DOMAIN sv : Typed(sv[i])
        BY <1>2, <2>12, <3>2, ReplaceTop
      <3>4. Replaced(sv, su, n, q)
        BY <2>13, <3>3, ReplacedAgain
      <3>5. q \in Array /\ q.acc = p.acc /\ q.n = p.n /\ q.cap = q.n
        BY <2>4, <2>9, TrimmedFacts
      <3>6. Len(su) \in DOMAIN su /\ n \in DOMAIN su[Len(su)].arr /\ su[Len(su)].arr[n] = p
        BY <1>2, <2>12, <2>13, TopFrame DEF Replaced
      <3>7. InMemory(p, Len(w))
        BY <2>14, <3>6 DEF Safe, ArraysIn
      <3>8. /\ IsSeq(mem') /\ Len(mem') \in Nat
            /\ \/ Len(mem') = Len(w)
               \/ p.acc # 0 /\ p.acc + p.cap = Len(w) + 1 /\ Len(mem') = p.acc + p.n - 1
        BY <2>4, <2>7, <2>10, <2>16, <3>7, ShrunkMemory
      <3>9. PICK now : now = Len(mem')
        OBVIOUS
      <3>10. Safe(sv, now)
        <4>1. \/ now = Len(w)
              \/ q.acc # 0 /\ q.acc + su[Len(su)].arr[n].cap = Len(w) + 1 /\ now = q.acc + q.n - 1
          BY <3>5, <3>6, <3>8, <3>9
        <4>2. q.acc = su[Len(su)].arr[n].acc /\ q.n = su[Len(su)].arr[n].n /\ now \in Nat
          BY <3>5, <3>6, <3>8, <3>9
        <4> QED BY <2>7, <2>13, <2>14, <3>4, <3>5, <3>6, <4>1, <4>2, ArrayTrimmed
      <3> QED BY <2>10, <3>1, <3>3, <3>8, <3>9, <3>10 DEF IInv
    <2> QED BY <2>15, <2>16
  <1> QED
    BY <1>3, <1>4 DEF Packed, WithArray, Counted

\* A frame is entered, above a stack su that is safe in the first cells of memory m.
LEMMA EnterStep ==
    ASSUME IInv, NEW parent, NEW m, NEW fr, Enter(parent, m, fr), ~TooDeep(fr.depth),
           NEW su, su = WithTop(parent), IsSeq(su), \A i \in DOMAIN su : Typed(su[i]),
           NEW cells \in Nat, Safe(su, cells), IsSeq(m), Len(m) >= cells,
           Typed(fr), \A n \in DOMAIN fr.arr : fr.arr[n] = EmptyArray, fr.addr \in 0 .. Len(m),
           \A j \in DOMAIN su : \A n \in DOMAIN su[j].arr :
              \/ Outside(fr.addr, su[j].arr[n])
              \/ j = Len(su) /\ n = fr.num /\ fr.addr = su[j].arr[n].acc + su[j].arr[n].n - 1
    PROVE  IInv'
  <1>1. stack' = su \o <<fr>> /\ mem' = m /\ input' = input
    BY DEF Enter, WithTop
  <1>2. IsSeq(<<fr>>) /\ Len(<<fr>>) = 1 /\ <<fr>>[1] = fr
    <2>1. <<fr>> \in Seq({fr})
      OBVIOUS
    <2> QED BY <2>1, SeqIsSeq
  <1>3. Len(su) \in Nat /\ DOMAIN su = 1 .. Len(su) /\ Len(m) \in Nat
    BY SeqFacts
  <1>4. PICK sv : sv = su \o <<fr>>
    OBVIOUS
  <1>5. /\ IsSeq(sv) /\ Len(sv) = Len(su) + 1
        /\ \A i \in 1 .. Len(su) : sv[i] = su[i]
        /\ \A i \in 1 .. 1 : sv[Len(su) + i] = fr
    BY <1>2, <1>4, ConcatIsSeq
  <1>6. DOMAIN sv = 1 .. (Len(su) + 1) /\ sv[Len(su) + 1] = fr
    BY <1>5, SeqFacts
  <1>7. \A i \in DOMAIN sv : Typed(sv[i])
    <2>1. ASSUME NEW i \in DOMAIN sv PROVE Typed(sv[i])
      <3>1. i \in DOMAIN su \/ i = Len(su) + 1
        BY <1>3, <1>6
      <3> QED BY <1>3, <1>5, <1>6, <3>1
    <2> QED BY <2>1
  <1>8. Safe(sv, Len(m))
    <2>1. \A i \in DOMAIN su : sv[i] = su[i]
      BY <1>3, <1>5
    <2>2. \A j \in DOMAIN su : \A n \in DOMAIN su[j].arr :
             Outside(fr.addr, su[j].arr[n]) \/ IsElement(sv, Len(su) + 1, j, n)
      <3> SUFFICES ASSUME NEW j \in DOMAIN su, NEW n \in DOMAIN su[j].arr, ~Outside(fr.addr, su[j].arr[n])
                   PROVE  IsElement(sv, Len(su) + 1, j, n)
        OBVIOUS
      <3>1. j = Len(su) /\ n = fr.num /\ fr.addr = su[j].arr[n].acc + su[j].arr[n].n - 1
        OBVIOUS
      <3>2. sv[j] = su[j]
        BY <2>1
      <3> QED BY <1>6, <3>1, <3>2 DEF IsElement
    <2> QED BY <1>3, <1>6, <2>1, <2>2, FramePushed
  <1> QED
    BY <1>1, <1>4, <1>5, <1>7, <1>8 DEF IInv

\* A cell more at the end of the memory.
LEMMA OneCell ==
    ASSUME IInv
    PROVE  /\ IsSeq(mem \o Cells(1)) /\ Len(mem) \in Nat /\ Len(mem \o Cells(1)) = Len(mem) + 1
           /\ NextCell = Len(mem) + 1
  <1>1. PICK c : c = Cells(1)
    OBVIOUS
  <1>2. c \in [1 .. 1 -> {Junk}]
    BY <1>1 DEF Cells
  <1>3. IsSeq(c) /\ Len(c) = 1
    BY <1>2, FunctionIsSeq
  <1>4. IsSeq(mem \o c) /\ Len(mem \o c) = Len(mem) + Len(c)
    BY <1>3, ConcatIsSeq DEF IInv
  <1>5. Len(mem) \in Nat
    BY SeqFacts DEF IInv
  <1> QED
    BY <1>1, <1>3, <1>4, <1>5 DEF NextCell

\* The frame of a singular sub-message: in its parent's member, or in a new cell.
LEMMA SubMessageStep ==
    ASSUME IInv, SubMessage
    PROVE  IInv'
  <1>1. /\ AtRecord /\ Running /\ Known(Top.type, Rec) /\ Field = Schema[Top.type][Rec.num]
        /\ Field.kind \in MessageKinds /\ TakesOne(Field, Rec)
    BY DEF SubMessage, AtField, AtRecord, Field, Fields, MessageKinds
  <1>2. Rec \in Records[Top.type] /\ Like(Advanced, Top) /\ Typed(Top) /\ Len(mem) \in Nat /\ IsSeq(mem)
    BY <1>1, AtARecord, TopFrame DEF IInv
  <1>3. CASE Fail("Wire", 0) \/ OutOfMemory
    BY <1>3, FailStep DEF OutOfMemory
  <1>4. ASSUME Rec.val # Bad, NEW m, NEW addr, NEW fr,
               fr = Frame(Field.type, Rec.val, Top.depth + 1, addr, Rec.num, 0),
               Enter(Advanced, m, fr), ~TooDeep(fr.depth),
               \/ m = mem /\ addr = 0
               \/ m = mem \o Cells(1) /\ addr = NextCell
        PROVE  IInv'
    <2>1. Field.type \in DOMAIN Schema /\ Rec.val \in Seq(Records[Field.type])
      <3>1. Top.type \in DOMAIN Schema
        BY <1>2 DEF Typed
      <3> QED BY <1>1, <1>2, <1>4, <3>1, SchemaAssumption, DecodeAssumption DEF Known
    <2>2. Typed(fr) /\ fr.addr = addr /\ \A n \in DOMAIN fr.arr : fr.arr[n] = EmptyArray
      BY <1>4, <2>1, FrameFacts
    <2>3. IsSeq(m) /\ Len(m) \in Nat /\ Len(m) >= Len(mem) /\ addr \in 0 .. Len(m) /\ (addr = 0 \/ addr > Len(mem))
      <3>1. CASE m = mem /\ addr = 0
        BY <1>2, <3>1
      <3>2. CASE m = mem \o Cells(1) /\ addr = NextCell
        <4>1. IsSeq(m) /\ Len(m) = Len(mem) + 1 /\ addr = Len(mem) + 1
          BY <3>2, OneCell
        <4> QED BY <1>2, <4>1
      <3> QED BY <1>4, <3>1, <3>2
    <2>4. PICK su : su = WithTop(Advanced)
      OBVIOUS
    <2>5. /\ IsSeq(su) /\ DOMAIN su = DOMAIN stack
          /\ \A i \in DOMAIN su : /\ Typed(su[i]) /\ su[i].arr = stack[i].arr
                                  /\ su[i].addr = stack[i].addr /\ su[i].num = stack[i].num
      BY <1>1, <1>2, <2>4, LikeTop
    <2>6. Safe(su, Len(mem))
      BY <2>5, SafeAgrees DEF IInv
    <2>7. \A j \in DOMAIN su : \A n \in DOMAIN su[j].arr : Outside(fr.addr, su[j].arr[n])
      <3> SUFFICES ASSUME NEW j \in DOMAIN su, NEW n \in DOMAIN su[j].arr
                   PROVE  Outside(fr.addr, su[j].arr[n])
        OBVIOUS
      <3>1. su[j].arr[n] \in Array /\ InMemory(su[j].arr[n], Len(mem))
        BY <2>6 DEF Safe, ArraysIn
      <3> QED BY <1>2, <2>2, <2>3, <3>1 DEF InMemory, Array, Outside
    <2> QED BY <1>2, <1>4, <2>2, <2>3, <2>4, <2>5, <2>6, <2>7, EnterStep
  <1>5. ASSUME NEW m, NEW fr, Enter(Advanced, m, fr), TooDeep(fr.depth)
        PROVE  IInv'
    BY <1>5, FailStep DEF Enter
  <1>6. PICK fr, gr : /\ fr = Frame(Field.type, Rec.val, Top.depth + 1, 0, Rec.num, 0)
                      /\ gr = Frame(Field.type, Rec.val, Top.depth + 1, NextCell, Rec.num, 0)
    OBVIOUS
  <1>7. \/ Fail("Wire", 0) \/ OutOfMemory
        \/ Rec.val # Bad /\ (Enter(Advanced, mem, fr) \/ Enter(Advanced, mem \o Cells(1), gr))
    BY <1>6 DEF SubMessage
  <1>8. CASE Rec.val # Bad /\ Enter(Advanced, mem, fr)
    <2>1. PICK m, c : m = mem /\ c = 0
      OBVIOUS
    <2>2. Enter(Advanced, m, fr) /\ fr = Frame(Field.type, Rec.val, Top.depth + 1, c, Rec.num, 0)
      BY <1>6, <1>8, <2>1
    <2>3. CASE TooDeep(fr.depth)
      BY <1>5, <2>2, <2>3
    <2>4. CASE ~TooDeep(fr.depth)
      BY <1>4, <1>8, <2>1, <2>2, <2>4
    <2> QED BY <2>3, <2>4
  <1>9. CASE Rec.val # Bad /\ Enter(Advanced, mem \o Cells(1), gr)
    <2>1. PICK m, c : m = mem \o Cells(1) /\ c = NextCell
      OBVIOUS
    <2>2. Enter(Advanced, m, gr) /\ gr = Frame(Field.type, Rec.val, Top.depth + 1, c, Rec.num, 0)
      BY <1>6, <1>9, <2>1
    <2>3. CASE TooDeep(gr.depth)
      BY <1>5, <2>2, <2>3
    <2>4. CASE ~TooDeep(gr.depth)
      BY <1>4, <1>9, <2>1, <2>2, <2>4
    <2> QED BY <2>3, <2>4
  <1> QED
    BY <1>3, <1>7, <1>8, <1>9

\* The frame of an element of a repeated sub-message or map, in the slot it takes.
LEMMA MessageElementStep ==
    ASSUME IInv, MessageElement
    PROVE  IInv'
  <1> DEFINE a == Top.arr[Rec.num]
             b == SlotArray(a)
             parent == WithArray(Advanced, Rec.num, b)
             map == IF Field.kind = "map" THEN Rec.num ELSE 0
             depth == IF Field.kind = "map" THEN Top.depth ELSE Top.depth + 1
  <1>1. AtField({"messages", "map"}) /\ {"messages", "map"} \in SUBSET RepeatedKinds /\ TakesOne(Field, Rec)
    BY DEF MessageElement, RepeatedKinds
  <1>2. /\ Running /\ Rec.num \in DOMAIN Top.arr /\ Top.type \in DOMAIN Schema /\ Rec \in Records[Top.type]
        /\ Known(Top.type, Rec) /\ a \in Array /\ InMemory(a, Len(mem))
        /\ Field = Schema[Top.type][Rec.num] /\ Field.kind \in MessageKinds
    <2>1. Field.kind \in {"messages", "map"}
      BY <1>1, OpenArray
    <2> QED BY <1>1, <2>1, OpenArray DEF MessageKinds
  <1>3. CASE OutOfMemory \/ Fail("Wire", 0)
    BY <1>3, FailStep DEF OutOfMemory
  <1>4. CASE Rec.val # Bad /\ Enter(parent, SlotMem(a), Frame(Field.type, Rec.val, depth, SlotCell(a), Rec.num, map))
    <2>1. PICK fr : fr = Frame(Field.type, Rec.val, depth, SlotCell(a), Rec.num, map)
      OBVIOUS
    <2>2. Field.type \in DOMAIN Schema /\ Rec.val \in Seq(Records[Field.type])
      BY <1>1, <1>2, <1>4, SchemaAssumption, DecodeAssumption DEF Known
    <2>3. Typed(fr) /\ fr.addr = SlotCell(a) /\ fr.num = Rec.num /\ \A n \in DOMAIN fr.arr : fr.arr[n] = EmptyArray
      BY <2>1, <2>2, FrameFacts
    <2>4. Enter(parent, SlotMem(a), fr)
      BY <1>4, <2>1
    <2>5. PICK su, m, c : su = WithTop(parent) /\ m = SlotMem(a) /\ c = b
      OBVIOUS
    <2>6. /\ Replaced(su, stack, Rec.num, c) /\ IsSeq(su) /\ Len(su) = Len(stack)
          /\ \A i \in DOMAIN su : Typed(su[i])
          /\ IsSeq(m) /\ Len(m) \in Nat /\ Safe(su, Len(m))
      BY <1>1, <2>5, SlotTaken
    <2>7. c \in Array /\ c.n = a.n + 1 /\ c.n \in 1 .. c.cap
      BY <1>2, <2>5, SlotFacts
    <2>8. PICK p : p = fr.addr
      OBVIOUS
    <2>9. p = c.acc + c.n - 1 /\ c.acc \in Nat /\ c.n \in Nat /\ c.cap \in Nat
      BY <1>2, <2>3, <2>5, <2>7, <2>8 DEF SlotCell, Array
    <2>10. Len(su) \in DOMAIN su /\ Rec.num \in DOMAIN su[Len(su)].arr /\ su[Len(su)].arr[Rec.num] = c
      BY <1>2, <2>6, TopFrame DEF Replaced
    <2>11. InMemory(c, Len(m))
      BY <2>6, <2>10 DEF Safe, ArraysIn
    <2>12. c.acc # 0 /\ p \in 0 .. Len(m) /\ c.acc <= p /\ p < c.acc + c.cap
      <3>1. Len(m) \in Nat
        BY <2>6
      <3>2. c.n >= 1 /\ c.n <= c.cap
        BY <2>7, <2>9
      <3>3. (c.acc = 0 => c.cap = 0) /\ c.acc + c.cap <= Len(m) + 1
        BY <2>11 DEF InMemory
      <3> QED BY <2>9, <3>1, <3>2, <3>3, LastCell
    <2>13. ASSUME NEW j \in DOMAIN su, NEW n \in DOMAIN su[j].arr
           PROVE  \/ Outside(p, su[j].arr[n])
                  \/ j = Len(su) /\ n = fr.num /\ p = su[j].arr[n].acc + su[j].arr[n].n - 1
      <3>1. CASE j = Len(su) /\ n = Rec.num
        BY <2>3, <2>9, <2>10, <3>1
      <3>2. CASE ~(j = Len(su) /\ n = Rec.num)
        <4>1. PICK o : o = su[j].arr[n]
          OBVIOUS
        <4>2. Separate(o, c) /\ o \in Array
          BY <2>6, <2>10, <3>2, <4>1 DEF Safe, ArraysSeparate, ArraysIn
        <4>3. o.acc \in Nat /\ o.cap \in Nat
          BY <4>2 DEF Array
        <4>4. Outside(p, o)
          BY <2>9, <2>12, <4>2, <4>3 DEF Separate, Outside
        <4> QED BY <4>1, <4>4
      <3> QED BY <3>1, <3>2
    <2> HIDE DEF a, b, parent, map, depth
    <2>14. CASE TooDeep(fr.depth)
      BY <2>4, <2>14, FailStep DEF Enter
    <2>15. CASE ~TooDeep(fr.depth)
      <3>1. Len(m) >= Len(m) /\ Enter(parent, m, fr)
        BY <2>4, <2>5, <2>6
      <3> QED BY <2>3, <2>5, <2>6, <2>8, <2>12, <2>13, <2>15, <3>1, EnterStep
    <2> QED BY <2>14, <2>15
  <1> QED
    BY <1>3, <1>4 DEF MessageElement, WithArray

\* A finished frame is left: its cell is written, and the frame below goes on.
LEMMA ReturnStep ==
    ASSUME IInv, Return
    PROVE  IInv'
  <1>1. Running
    BY DEF Return
  <1>2. /\ Len(stack) \in Nat /\ Len(stack) >= 1 /\ DOMAIN stack = 1 .. Len(stack) /\ IsSeq(stack)
        /\ Len(stack) \in DOMAIN stack /\ Top = stack[Len(stack)] /\ Len(mem) \in Nat
        /\ DOMAIN mem = 1 .. Len(mem) /\ IsSeq(mem)
    BY <1>1, TopFrame DEF IInv
  <1>3. IsSeq(mem') /\ Len(mem') = Len(mem)
    <2>1. Top.addr \in 0 .. Len(mem)
      BY <1>2 DEF IInv, Safe, ObjectsOutside
    <2>2. CASE Top.addr = 0
      BY <1>2, <2>2 DEF Return
    <2>3. CASE Top.addr # 0
      <3>1. mem' = [mem EXCEPT ![Top.addr] = Finished(Top)] /\ Top.addr \in DOMAIN mem
        BY <1>2, <2>1, <2>3 DEF Return
      <3> QED BY <1>2, <3>1, ExceptIsSeq
    <2> QED BY <2>2, <2>3
  <1>4. input' = input
    BY DEF Return
  <1>5. CASE Len(stack) = 1
    <2>1. stack' = <<>>
      BY <1>5 DEF Return
    <2> QED BY <1>3, <1>4, <2>1, NoFrames DEF IInv
  <1>6. CASE Len(stack) # 1
    <2>1. PICK k, low : k = Len(stack) - 1 /\ low = SubSeq(stack, 1, k)
      OBVIOUS
    <2>2. k \in DOMAIN stack /\ k \in Nat /\ k >= 1 /\ k < Len(stack)
      BY <1>2, <1>6, <2>1
    <2>3. PICK after : /\ after = stack[k] \/ \E v : after = Holding(stack[k], Top.num, v)
                       /\ stack' = [low EXCEPT ![k] = after]
      BY <1>6, <2>1 DEF Return
    <2>4. Like(after, stack[k])
      <3>1. Typed(stack[k])
        BY <2>2 DEF IInv
      <3> QED BY <2>3, <3>1, HoldingKeeps DEF Like
    <2>5. IsSeq(low) /\ Len(low) = k /\ \A i \in 1 .. k : low[i] = stack[i]
      <3>1. PICK S : S = {stack[j] : j \in DOMAIN stack}
        OBVIOUS
      <3>2. \A i \in 1 .. k : stack[i] \in S
        BY <1>2, <2>2, <3>1
      <3>3. low \in Seq(S) /\ Len(low) = k /\ \A i \in 1 .. k : low[i] = stack[1 + i - 1]
        BY <2>1, <2>2, <3>2, SubSeqProperties
      <3> QED BY <2>2, <3>3, SeqIsSeq
    <2>6. DOMAIN low = 1 .. k /\ k \in DOMAIN low
      BY <2>2, <2>5, SeqFacts
    <2>7. PICK su : su = stack'
      OBVIOUS
    <2>8. /\ IsSeq(su) /\ DOMAIN su = 1 .. k /\ su[k] = after
          /\ \A i \in 1 .. k : i # k => su[i] = low[i]
      BY <2>3, <2>5, <2>6, <2>7, ExceptIsSeq
    <2>9. \A i \in DOMAIN su : /\ Typed(su[i]) /\ su[i].arr = stack[i].arr
                               /\ su[i].addr = stack[i].addr /\ su[i].num = stack[i].num
      <3>1. ASSUME NEW i \in 1 .. k
            PROVE  /\ Typed(su[i]) /\ su[i].arr = stack[i].arr
                   /\ su[i].addr = stack[i].addr /\ su[i].num = stack[i].num
        <4>1. CASE i = k
          BY <2>4, <2>8, <4>1 DEF Like
        <4>2. CASE i # k
          <5>1. su[i] = stack[i] /\ i \in DOMAIN stack
            BY <1>2, <2>2, <2>5, <2>8, <4>2
          <5> QED BY <5>1 DEF IInv
        <4> QED BY <4>1, <4>2
      <3> QED BY <2>8, <3>1
    <2>10. DOMAIN su \subseteq DOMAIN stack
      BY <1>2, <2>2, <2>8
    <2>11. Safe(su, Len(mem))
      BY <2>9, <2>10, SafeAgrees DEF IInv
    <2> QED BY <1>3, <1>4, <2>7, <2>8, <2>9, <2>11 DEF IInv
  <1> QED
    BY <1>5, <1>6

\* The root is created and its frame entered.
LEMMA DecodeStep ==
    ASSUME IInv, Decode
    PROVE  IInv'
  <1>1. CASE OutOfMemory
    BY <1>1, FailStep DEF OutOfMemory
  <1>2. CASE /\ stack = <<>> /\ mem' = mem \o Cells(1) /\ input' = input
             /\ stack' = <<Frame(input.type, input.body, 0, NextCell, 0, 0)>>
    <2>1. PICK fr, su : fr = Frame(input.type, input.body, 0, NextCell, 0, 0) /\ su = stack'
      OBVIOUS
    <2>2. input.type \in DOMAIN Schema /\ input.body \in Seq(Records[input.type])
      <3>1. PICK t \in DOMAIN Inputs : input \in [type : {t}, body : Inputs[t]]
        BY DEF IInv, Calls
      <3>2. input.type = t /\ input.body \in Inputs[t]
        BY <3>1
      <3> QED BY <3>2, SchemaAssumption, DecodeAssumption
    <2>3. Typed(fr) /\ fr.addr = NextCell /\ \A n \in DOMAIN fr.arr : fr.arr[n] = EmptyArray
      BY <2>1, <2>2, FrameFacts
    <2>4. su = <<fr>> /\ IsSeq(su) /\ DOMAIN su = 1 .. 1 /\ su[1] = fr
      <3>1. su = <<fr>>
        BY <1>2, <2>1
      <3>2. <<fr>> \in Seq({fr}) /\ DOMAIN <<fr>> = 1 .. 1 /\ <<fr>>[1] = fr
        OBVIOUS
      <3>3. IsSeq(<<fr>>)
        BY <3>2, SeqIsSeq
      <3> QED BY <3>1, <3>2, <3>3
    <2>5. IsSeq(mem') /\ Len(mem) \in Nat /\ Len(mem') = Len(mem) + 1 /\ NextCell = Len(mem) + 1
      BY <1>2, OneCell
    <2>6. Safe(su, Len(mem) + 1)
      <3>1. Len(stack) = 0 /\ DOMAIN stack = {} /\ IsSeq(stack) /\ Safe(stack, Len(mem))
        BY <1>2 DEF IInv
      <3>2. DOMAIN su = 1 .. (Len(stack) + 1) /\ su[Len(stack) + 1] = fr
        BY <2>4, <3>1
      <3>3. fr.addr \in 0 .. (Len(mem) + 1) /\ Len(mem) + 1 >= Len(mem) /\ Len(mem) + 1 \in Nat
        BY <2>3, <2>5
      <3> QED BY <2>3, <2>5, <3>1, <3>2, <3>3, FramePushed
    <2>7. \A i \in DOMAIN su : Typed(su[i])
      BY <2>3, <2>4
    <2> QED BY <1>2, <2>1, <2>4, <2>5, <2>6, <2>7 DEF IInv
  <1> QED
    BY <1>1, <1>2 DEF Decode

\* The records that leave the arrays alone.
LEMMA OtherSteps ==
    ASSUME IInv, BadTag \/ Skip \/ Scalar \/ RejectRepeated \/ Raw \/ EndMissing
    PROVE  IInv'
  <1>1. CASE \E code, num : Fail(code, num)
    BY <1>1, FailStep
  <1>2. CASE /\ AtRecord
             /\ \E v : Continue(Holding(Advanced, Rec.num, v))
             /\ UNCHANGED <<input, mem>>
    <2>1. PICK v : Continue(Holding(Advanced, Rec.num, v))
      BY <1>2
    <2>2. Running /\ Like(Advanced, Top) /\ Typed(Advanced)
      BY <1>2, AtARecord DEF AtRecord, Like
    <2>3. Like(Holding(Advanced, Rec.num, v), Advanced)
      BY <2>2, HoldingKeeps
    <2>4. Like(Holding(Advanced, Rec.num, v), Top)
      BY <2>2, <2>3 DEF Like
    <2> QED BY <1>2, <2>1, <2>2, <2>4, ContinueStep
  <1>3. CASE /\ AtRecord
             /\ \E u : Continue([Advanced EXCEPT !.unknown = u])
             /\ UNCHANGED <<input, mem>>
    <2>1. PICK u : Continue([Advanced EXCEPT !.unknown = u])
      BY <1>3
    <2>2. PICK fr : fr = [Advanced EXCEPT !.unknown = u]
      OBVIOUS
    <2>3. Running /\ Like(Advanced, Top) /\ Typed(Advanced)
      BY <1>3, AtARecord DEF AtRecord, Like
    <2>4. /\ DOMAIN fr = DOMAIN Advanced /\ fr.body = Advanced.body /\ fr.type = Advanced.type
          /\ fr.addr = Advanced.addr /\ fr.num = Advanced.num /\ fr.arr = Advanced.arr
      BY <2>2, <2>3 DEF Typed, FrameFields
    <2>5. Like(fr, Top)
      BY <2>3, <2>4 DEF Like, Typed
    <2> QED BY <1>3, <2>1, <2>2, <2>3, <2>5, ContinueStep
  <1>4. CASE BadTag
    BY <1>1, <1>4 DEF BadTag
  <1>5. CASE Skip
    BY <1>1, <1>3, <1>5 DEF Skip
  <1>6. CASE Scalar
    BY <1>1, <1>2, <1>6 DEF Scalar, AtField
  <1>7. CASE RejectRepeated
    BY <1>1, <1>7 DEF RejectRepeated
  <1>8. CASE Raw
    BY <1>1, <1>2, <1>8 DEF Raw, AtField
  <1>9. CASE EndMissing
    BY <1>1, <1>9 DEF EndMissing
  <1> QED
    BY <1>4, <1>5, <1>6, <1>7, <1>8, <1>9

-----------------------------------------------------------------------------
(* The theorem                                                             *)

\* The invariant holds before decode() is called ...
LEMMA InitSafe == DecodeInit => IInv
  <1> SUFFICES ASSUME DecodeInit PROVE IInv
    OBVIOUS
  <1>1. input \in Calls /\ stack = <<>> /\ mem = <<>>
    BY DEF DecodeInit
  <1> QED
    BY <1>1, NoFrames DEF IInv

\* ... and every step keeps it.
LEMMA NextSafe == IInv /\ [DecodeNext]_decode_vars => IInv'
  <1> SUFFICES ASSUME IInv, [DecodeNext]_decode_vars PROVE IInv'
    OBVIOUS
  <1>1. CASE UNCHANGED decode_vars
    BY <1>1 DEF IInv, decode_vars
  <1>2. CASE DecodeNext
    BY <1>2, DecodeStep, OtherSteps, SubMessageStep, ElementStep, PackedStep, MessageElementStep, ReturnStep DEF DecodeNext
  <1> QED
    BY <1>1, <1>2

\* Extents of separate arrays share no cell.
LEMMA SafeIsApart == IInv => ArraysApart
  <1> SUFFICES ASSUME IInv PROVE ArraysApart
    OBVIOUS
  <1>1. Len(mem) \in Nat /\ DOMAIN mem = 1 .. Len(mem)
    BY SeqFacts DEF IInv
  <1>2. ASSUME NEW k \in OpenArrays
        PROVE  /\ k[1] \in DOMAIN stack /\ k[2] \in DOMAIN stack[k[1]].arr /\ k = <<k[1], k[2]>>
               /\ ArrayAt(k) = stack[k[1]].arr[k[2]]
               /\ ArrayAt(k) \in Array /\ InMemory(ArrayAt(k), Len(mem))
    <2>1. PICK i \in DOMAIN stack : \E n \in DOMAIN stack[i].arr : k = <<i, n>>
      BY DEF OpenArrays
    <2>2. PICK n \in DOMAIN stack[i].arr : k = <<i, n>>
      BY <2>1
    <2>3. k[1] = i /\ k[2] = n
      BY <2>2
    <2> QED BY <2>2, <2>3 DEF ArrayAt, IInv, Safe, ArraysIn
  <1>3. ASSUME NEW k \in OpenArrays
        PROVE  ArrayAt(k).n <= ArrayAt(k).cap /\ Extent(ArrayAt(k)) \subseteq DOMAIN mem
    <2>1. PICK a : a = ArrayAt(k)
      OBVIOUS
    <2>2. a \in Array /\ InMemory(a, Len(mem))
      BY <1>2, <2>1
    <2>3. a.acc \in Nat /\ a.n \in Nat /\ a.cap \in Nat /\ a.n <= a.cap /\ a.acc + a.cap <= Len(mem) + 1
      BY <2>2 DEF Array, InMemory
    <2>4. Extent(a) \subseteq DOMAIN mem
      BY <1>1, <2>3 DEF Extent
    <2> QED BY <2>1, <2>3, <2>4
  <1>4. ASSUME NEW k \in OpenArrays, NEW l \in OpenArrays, k # l
        PROVE  Extent(ArrayAt(k)) \cap Extent(ArrayAt(l)) = {}
    <2>1. PICK a, b : a = ArrayAt(k) /\ b = ArrayAt(l)
      OBVIOUS
    <2>2. k[1] # l[1] \/ k[2] # l[2]
      BY <1>2, <1>4
    <2>3. Separate(a, b) /\ a \in Array /\ b \in Array
      BY <1>2, <2>1, <2>2 DEF IInv, Safe, ArraysSeparate
    <2>4. a.acc \in Nat /\ a.cap \in Nat /\ b.acc \in Nat /\ b.cap \in Nat
      BY <2>3 DEF Array
    <2>5. Extent(a) \cap Extent(b) = {}
      BY <2>3, <2>4 DEF Extent, Separate
    <2> QED BY <2>1, <2>5
  <1>5. ASSUME NEW k \in OpenArrays, NEW i \in DOMAIN stack, stack[i].addr \in Extent(ArrayAt(k))
        PROVE  /\ i = k[1] + 1 /\ stack[i].num = k[2]
               /\ stack[i].addr = ArrayAt(k).acc + ArrayAt(k).n - 1
    <2>1. PICK a, p : a = ArrayAt(k) /\ p = stack[i].addr
      OBVIOUS
    <2>2. a \in Array /\ InMemory(a, Len(mem)) /\ p \in Extent(a)
      BY <1>2, <1>5, <2>1
    <2>3. ~Outside(p, a)
      BY <2>2 DEF Extent, Outside, Array
    <2>4. Outside(p, a) \/ IsElement(stack, i, k[1], k[2])
      BY <1>2, <2>1 DEF IInv, Safe, ObjectsOutside
    <2> QED BY <1>2, <2>3, <2>4 DEF IsElement
  <1> QED
    BY <1>3, <1>4, <1>5 DEF ArraysApart

\* Whatever the schema, the input and the allocations that fail, the arrays that a nested
\* decode of rp_decode_into() builds are in the memory the arena has handed out, share no
\* cell with one another, and hold no message under construction but their own last element:
\* growth and the trim of packed varints never touch the array or message of another level.
THEOREM DecodeKeepsArraysApart == DecodeSpec => []ArraysApart
  <1>1. DecodeInit => IInv
    BY InitSafe
  <1>2. IInv /\ [DecodeNext]_decode_vars => IInv'
    BY NextSafe
  <1>3. IInv => ArraysApart
    BY SafeIsApart
  <1> QED
    BY <1>1, <1>2, <1>3, PTL DEF DecodeSpec

=============================================================================
