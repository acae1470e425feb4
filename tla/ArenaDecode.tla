---------------------------- MODULE ArenaDecode ----------------------------
(***************************************************************************)
(* The decoder that src/arenagen/generator.cpp emits for a message type:   *)
(* decode() and the recursive rp_decode_into(), with the growable arrays   *)
(* of repeated fields and maps in the arena.                               *)
(*                                                                         *)
(* The C++ recursion is the stack of frames, the last one running.  A map  *)
(* entry is decoded by a loop of its own inside its message's frame; it is *)
(* a frame here, with the depth of the message.                            *)
(*                                                                         *)
(* The arena is its memory below the bump cursor: mem is a sequence of     *)
(* cells, one per element, message or entry, and the cursor is behind the  *)
(* last.  Module Arena has the chunks, sizes and alignment behind it.      *)
(***************************************************************************)
EXTENDS MessageSchema

CONSTANTS
    Records,         \* message or entry type -> the records that its bodies are made of
    FirstCapacity,   \* elements of the first array of a repeated field (4 in the code)
    Width,           \* Width[v]: the bytes of value v as a varint; Width[Bad] too
    Junk,            \* a cell that has not been written
    Pending

VARIABLES
    input,           \* the call of decode(): [type, body]
    stack,           \* the frames of rp_decode_into and of map entries
    mem,             \* the cells handed out by the arena
    result           \* Pending, [err |-> ...] or [root |-> ...]

decode_vars == <<input, stack, mem, result>>

ASSUME DecodeAssumption ==
    /\ FirstCapacity \in Nat \ {0}
    /\ \A v \in DOMAIN Width : Width[v] \in Nat \ {0}
    /\ \A t \in DOMAIN Inputs : Inputs[t] \subseteq Seq(Records[t])
    /\ \A t \in DOMAIN Schema : \A r \in Records[t] :
          Known(t, r) /\ r.val # Bad =>
              LET f == Schema[t][r.num]
              IN  /\ TakesPacked(f, r) => r.val \in Seq(DOMAIN Width)
                  /\ f.kind \in MessageKinds /\ TakesOne(f, r) => r.val \in Seq(Records[f.type])

Error(code, num) == [code |-> code, num |-> num]

Top == stack[Len(stack)]
Fields == Schema[Top.type]
Rec == Head(Top.body)
Field == Fields[Rec.num]

\* The frame after the current record, when that record leaves it otherwise alone.
Advanced == [Top EXCEPT !.body = Tail(@)]

\* The running frame becomes fr.
Continue(fr) == stack' = [stack EXCEPT ![Len(stack)] = fr]

\* return false all the way up: the tree under construction is dropped.
Fail(code, num) ==
    /\ result' = [err |-> Error(code, num)]
    /\ stack' = <<>>
    /\ UNCHANGED <<input, mem>>

-----------------------------------------------------------------------------
(* Arena                                                                   *)

\* What allocate() and create() return next.
NextCell == Len(mem) + 1

\* The host refuses memory, or the capacity limit is reached.
OutOfMemory == Fail("OutOfMemory", 0)

Cells(k) == [i \in 1 .. k |-> Junk]

\* What is read from cell c; above the cursor there is nothing of use.
CellAt(c) == IF c \in DOMAIN mem THEN mem[c] ELSE Junk

\* Mutant: the rewind does not ask whether anything was allocated since.
IsLastAnyway(m, acc, old) == acc # 0

\* shrink_last() on memory m: the array at acc ends at the cursor.
IsLast(m, acc, old) == acc # 0 /\ acc + old = Len(m) + 1
Shrunk(m, acc, old, new) == IF IsLast(m, acc, old) THEN SubSeq(m, 1, acc + new - 1) ELSE m

-----------------------------------------------------------------------------
(* Growable arrays: rp_acc, rp_n and rp_cap of a repeated field or map.    *)
(* got is history: the cells that the arena holds for the array.           *)

EmptyArray == [acc |-> 0, n |-> 0, cap |-> 0, got |-> 0]

\* A new array of nc elements at the cursor, and the elements copied over.
Grown(a, nc) == [a EXCEPT !.acc = NextCell, !.cap = nc, !.got = nc]
MemGrown(a, nc) ==
    mem \o [i \in 1 .. nc |-> IF i <= a.n THEN CellAt(a.acc + i - 1) ELSE Junk]

\* rp_slot: room for one element, and the array with the element counted.
SlotNeedsGrowth(a) == a.n = a.cap
SlotCapacity(a) == IF a.cap = 0 THEN FirstCapacity ELSE a.cap * 2
SlotArray(a) ==
    [(IF SlotNeedsGrowth(a) THEN Grown(a, SlotCapacity(a)) ELSE a) EXCEPT !.n = @ + 1]
SlotMem(a) == IF SlotNeedsGrowth(a) THEN MemGrown(a, SlotCapacity(a)) ELSE mem
SlotCell(a) == SlotArray(a).acc + a.n

\* Elements vs stored from cell c on.
Stored(m, c, vs) ==
    [i \in DOMAIN m |-> IF i \in c .. c + Len(vs) - 1 THEN vs[i - c + 1] ELSE m[i]]

HasBad(span) == \E k \in DOMAIN span : span[k] = Bad

\* The bound on the elements of a packed span: its bytes for varints, its bytes by the
\* width for fixed-width ones, where an incomplete element at the end is cut off.
UpperBound(f, span) ==
    IF f.wire = "Varint" THEN SumFunction([k \in DOMAIN span |-> Width[span[k]]])
    ELSE Cardinality({k \in DOMAIN span : span[k] # Bad})

SpanNeedsGrowth(a, ub) == ub # 0 /\ a.cap < a.n + ub
SpanArray(a, ub) == IF SpanNeedsGrowth(a, ub) THEN Grown(a, a.n + ub) ELSE a
SpanMem(a, ub) == IF SpanNeedsGrowth(a, ub) THEN MemGrown(a, a.n + ub) ELSE mem

\* The array after the trim that memory m allows.
AfterTrim(a, m) == [a EXCEPT !.got = IF IsLast(m, a.acc, a.cap) THEN a.n ELSE @]

\* Mutant: the capacity of before the trim stays.
TrimmedKeepsCap(a, m) == AfterTrim(a, m)

\* rp_cap = rp_n after the trim, so that a later occurrence grows the array again.
Trimmed(a, m) == [AfterTrim(a, m) EXCEPT !.cap = a.n]

-----------------------------------------------------------------------------
(* Frames                                                                  *)

\* A body of type t.  The message goes to cell addr (0: into the parent's member) and
\* then is what field num of the parent holds; map is that number for an entry.
Frame(t, body, depth, addr, num, map) ==
    [type |-> t, body |-> body, depth |-> depth, addr |-> addr, num |-> num, map |-> map,
     out |-> [n \in Members(t) |-> Absent],
     arr |-> [n \in {m \in DOMAIN Schema[t] : Schema[t][m].kind \in RepeatedKinds} |->
                 EmptyArray],
     bits |-> {}, unknown |-> FALSE]

TooDeep(depth) == depth > kMaxDecodeDepth

\* rp_decode_into() of a sub-message: the parent is below by the time it runs.
Enter(parent, m, fr) ==
    IF TooDeep(fr.depth) THEN Fail("RecursionTooDeep", 0)
    ELSE /\ stack' = [stack EXCEPT ![Len(stack)] = parent] \o <<fr>>
         /\ mem' = m
         /\ UNCHANGED <<input, result>>

\* Field num of frame fr holds v.
Holding(fr, num, v) ==
    LET f == Schema[fr.type][num]
    IN  [fr EXCEPT !.out[Storage(fr.type, num)] = <<num, v>>,
                   !.bits = IF f.bit THEN @ \cup {num} ELSE @]

\* decode(): the root is created, then rp_decode_into() at depth 0.
Decode ==
    /\ result = Pending /\ stack = <<>>
    /\ \/ /\ mem' = mem \o Cells(1)
          /\ stack' = <<Frame(input.type, input.body, 0, NextCell, 0, 0)>>
          /\ UNCHANGED <<input, result>>
       \/ OutOfMemory

\* The records of the running frame.
Running == result = Pending /\ stack # <<>>
AtRecord == Running /\ Top.body # <<>>
AtField(kinds) == /\ AtRecord /\ Rec.wire # Bad
                  /\ Known(Top.type, Rec) /\ Field.kind \in kinds

\* A malformed tag.
BadTag == AtRecord /\ Rec.wire = Bad /\ Fail("Wire", 0)

\* No arm, or an arm whose wire guard fails: the shared skip, which validates the value.
\* Only a number without an arm sets the unknown bit, and an entry has none.
Skip ==
    /\ AtRecord /\ Rec.wire # Bad /\ ~Belongs(Top.type, Rec.num, Rec)
    /\ IF Rec.val = Bad THEN Fail("Wire", 0)
       ELSE /\ Continue([Advanced EXCEPT
                            !.unknown = @ \/ (~Known(Top.type, Rec) /\ Top.map = 0)])
            /\ UNCHANGED <<input, mem, result>>

\* Singular scalar, enum, bool or string, also as a oneof member: last one wins.
Scalar ==
    /\ AtField({"scalar"}) /\ TakesOne(Field, Rec)
    /\ IF Rec.val = Bad THEN Fail("Wire", 0)
       ELSE Continue(Holding(Advanced, Rec.num, Rec.val)) /\ UNCHANGED <<input, mem, result>>

\* Mutant: a oneof member that was set and replaced still counts.
SeenInOneofEver(num) == num \in Top.bits \/ Top.out[Storage(Top.type, num)] # Absent

\* "Already present": the oneof holds it, its pointer or its borrowed payload is set,
\* or its bit is.
Seen(num) ==
    LET held == Top.out[Storage(Top.type, num)]
    IN  IF Fields[num].oneof # 0 \/ Fields[num].kind \in {"pointer", "raw"}
        THEN held # Absent /\ held[1] = num
        ELSE num \in Top.bits

\* A second occurrence is rejected before it is read; in a map entry under the number
\* of the map.
RejectRepeated ==
    /\ AtField(SingularMessageKinds) /\ TakesOne(Field, Rec) /\ Seen(Rec.num)
    /\ Fail("RepeatedSingularMessage", IF Top.map # 0 THEN Top.map ELSE Rec.num)

\* A singular sub-message, inline or behind a pointer.
SubMessage ==
    /\ AtField({"inline", "pointer"}) /\ TakesOne(Field, Rec) /\ ~Seen(Rec.num)
    /\ IF Rec.val = Bad THEN Fail("Wire", 0)
       ELSE IF Field.kind = "inline"
       THEN Enter(Advanced, mem, Frame(Field.type, Rec.val, Top.depth + 1, 0, Rec.num, 0))
       ELSE \/ Enter(Advanced, mem \o Cells(1),
                     Frame(Field.type, Rec.val, Top.depth + 1, NextCell, Rec.num, 0))
            \/ OutOfMemory

\* A raw sub-message: the payload is borrowed, not decoded.
Raw ==
    /\ AtField({"raw"}) /\ TakesOne(Field, Rec) /\ ~Seen(Rec.num)
    /\ IF Rec.val = Bad THEN Fail("Wire", 0)
       ELSE Continue(Holding(Advanced, Rec.num, Rec.val)) /\ UNCHANGED <<input, mem, result>>

\* One element of a repeated scalar, or one raw payload, into the next slot.  Only the
\* payload is read before the slot is taken.
Element ==
    LET a == Top.arr[Rec.num]
    IN  /\ AtField({"elements", "raws"}) /\ TakesOne(Field, Rec)
        /\ \/ SlotNeedsGrowth(a) /\ (Field.kind = "raws" => Rec.val # Bad) /\ OutOfMemory
           \/ Rec.val = Bad /\ Fail("Wire", 0)
           \/ /\ Rec.val # Bad
              /\ mem' = Stored(SlotMem(a), SlotCell(a), <<Rec.val>>)
              /\ Continue([Advanced EXCEPT !.arr[Rec.num] = SlotArray(a)])
              /\ UNCHANGED <<input, result>>

\* A packed span: the array is grown to the bound once, filled, and for varints trimmed.
Packed ==
    LET a == Top.arr[Rec.num]
        ub == UpperBound(Field, Rec.val)
        b == [SpanArray(a, ub) EXCEPT !.n = @ + Len(Rec.val)]
        m == Stored(SpanMem(a, ub), b.acc + a.n, Rec.val)
    IN  /\ AtField({"elements"}) /\ TakesPacked(Field, Rec)
        /\ \/ Rec.val = Bad /\ Fail("Wire", 0)
           \/ Rec.val # Bad /\ SpanNeedsGrowth(a, ub) /\ OutOfMemory
           \/ Rec.val # Bad /\ HasBad(Rec.val) /\ Fail("Wire", 0)
           \/ /\ Rec.val # Bad /\ ~HasBad(Rec.val)
              /\ IF Field.wire = "Varint"
                 THEN /\ mem' = Shrunk(m, b.acc, b.cap, b.n)
                      /\ Continue([Advanced EXCEPT !.arr[Rec.num] = Trimmed(b, m)])
                 ELSE /\ mem' = m
                      /\ Continue([Advanced EXCEPT !.arr[Rec.num] = b])
              /\ UNCHANGED <<input, result>>

\* A repeated sub-message is decoded in its slot, a map entry by the entry loop.  The
\* element of a repeated field takes its slot before the payload is read.
MessageElement ==
    LET a == Top.arr[Rec.num]
        parent == [Advanced EXCEPT !.arr[Rec.num] = SlotArray(a)]
    IN  /\ AtField({"messages", "map"}) /\ TakesOne(Field, Rec)
        /\ \/ SlotNeedsGrowth(a) /\ (Field.kind = "map" => Rec.val # Bad) /\ OutOfMemory
           \/ Rec.val = Bad /\ Fail("Wire", 0)
           \/ /\ Rec.val # Bad
              /\ LET map == IF Field.kind = "map" THEN Rec.num ELSE 0
                     depth == IF Field.kind = "map" THEN Top.depth ELSE Top.depth + 1
                 IN  Enter(parent, SlotMem(a),
                           Frame(Field.type, Rec.val, depth, SlotCell(a), Rec.num, map))

\* The required fields whose bit is not set.
Missing(fr) == {n \in DOMAIN Schema[fr.type] : Schema[fr.type][n].required # 0 /\ n \notin fr.bits}

\* The views over the arrays, and the message as it is stored.
Finished(fr) ==
    [val |-> [n \in Members(fr.type) |->
                 IF n \in DOMAIN fr.arr
                 THEN [acc |-> fr.arr[n].acc, size |-> fr.arr[n].n]
                 ELSE fr.out[n]],
     has |-> fr.bits, unknown |-> fr.unknown]

\* The end of a body: finalize, then check the required fields in declaration order.
EndMissing ==
    /\ Running /\ Top.body = <<>>
    /\ \E n \in Missing(Top) :
          /\ \A m \in Missing(Top) : Fields[n].required <= Fields[m].required
          /\ Fail("MissingRequired", n)

\* rp_decode_into() returns true, and the caller records the sub-message.
Return ==
    /\ Running /\ Top.body = <<>> /\ Missing(Top) = {}
    /\ mem' = IF Top.addr # 0 THEN [mem EXCEPT ![Top.addr] = Finished(Top)] ELSE mem
    /\ IF Len(stack) = 1
       THEN result' = [root |-> Top.addr] /\ stack' = <<>>
       ELSE LET parent == stack[Len(stack) - 1]
                held == IF Top.addr # 0 THEN [ptr |-> Top.addr] ELSE [msg |-> Finished(Top)]
                after == IF Top.num \in DOMAIN parent.arr THEN parent
                         ELSE Holding(parent, Top.num, held)
            IN  /\ stack' = [SubSeq(stack, 1, Len(stack) - 1) EXCEPT ![Len(stack) - 1] = after]
                /\ UNCHANGED result
    /\ UNCHANGED input

-----------------------------------------------------------------------------

DecodeInit == input \in Calls /\ stack = <<>> /\ mem = <<>> /\ result = Pending

DecodeNext ==
    \/ Decode \/ BadTag \/ Skip \/ Scalar \/ RejectRepeated \/ SubMessage \/ Raw
    \/ Element \/ Packed \/ MessageElement \/ EndMissing \/ Return

DecodeSpec == DecodeInit /\ [][DecodeNext]_decode_vars

-----------------------------------------------------------------------------
(* Properties                                                              *)

\* The arrays under construction, by frame and field number.
OpenArrays == UNION {{<<i, n>> : n \in DOMAIN stack[i].arr} : i \in DOMAIN stack}
ArrayAt(k) == stack[k[1]].arr[k[2]]
Extent(a) == IF a.acc = 0 THEN {} ELSE a.acc .. a.acc + a.cap - 1

\* The arrays under construction, at every level of a nested decode, lie in arena memory
\* with their whole capacity and share no cell; a message under construction is in none
\* but the array whose element it is, and there below rp_n.
ArraysApart ==
    /\ \A k \in OpenArrays :
          LET a == ArrayAt(k)
          IN  a.n <= a.cap /\ Extent(a) \subseteq DOMAIN mem
    /\ \A k, l \in OpenArrays : k # l => Extent(ArrayAt(k)) \cap Extent(ArrayAt(l)) = {}
    /\ \A k \in OpenArrays, i \in DOMAIN stack :
          stack[i].addr \in Extent(ArrayAt(k)) =>
              /\ i = k[1] + 1 /\ stack[i].num = k[2]
              /\ stack[i].addr = ArrayAt(k).acc + ArrayAt(k).n - 1

=============================================================================
