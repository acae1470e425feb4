----------------------------- MODULE WireProofs -----------------------------
(***************************************************************************)
(* Proofs about the wire readers and the generated field loop, for every   *)
(* buffer and every value of the constants.                                *)
(***************************************************************************)
EXTENDS WireDecode, VarintLemmas, FiniteSetTheorems

-----------------------------------------------------------------------------
(* Tags and leaves.                                                        *)

\* A tag that was checked.
IsTag(t) == /\ t.field \in Nat \ {0} /\ t.wire \in 0 .. 5
            /\ t = [field |-> t.field, wire |-> t.wire]

\* A raw tag with a field number and a wire type that is not reserved is one.
LEMMA TagOfFacts ==
    ASSUME NEW raw \in Nat, TagOf(raw).field # 0, TagOf(raw).wire \notin Reserved
    PROVE  IsTag(TagOf(raw))
  <1>1. raw \div 8 \in Nat /\ raw % 8 \in 0 .. 7
    OBVIOUS
  <1>2. TagOf(raw).field = raw \div 8 /\ TagOf(raw).wire = raw % 8
    BY DEF TagOf
  <1>3. raw % 8 # 6 /\ raw % 8 # 7
    BY <1>2 DEF Reserved
  <1> QED
    BY <1>1, <1>2, <1>3 DEF IsTag, TagOf

\* What read_tag returns: a tag with a field number and a wire type, the cursor moved on
\* inside the buffer, or an error.
LEMMA TagFacts ==
    ASSUME NEW s \in Seq(Byte), NEW p \in Nat
    PROVE  LET r == read_tag(s, p)
           IN  /\ r.err = None => /\ r.next \in (p + 1) .. Len(s) /\ IsTag(r.val) /\ p < Len(s)
                                  /\ r = Ok(r.next, r.val)
               /\ r.err \notin {"End", "running"}
  <1> DEFINE v == read_varint(s, p)
             r == read_tag(s, p)
  <1>1. CASE p < Len(s) /\ OneByteTag(s, p)
    <2>1. s[p + 1] \in Nat /\ Len(s) \in Nat
      BY <1>1, Bytes
    <2>2. r = Ok(p + 1, TagOf(s[p + 1]))
      BY <1>1 DEF read_tag
    <2>3. IsTag(TagOf(s[p + 1]))
      BY <1>1, <2>1, TagOfFacts DEF OneByteTag
    <2>4. p + 1 \in (p + 1) .. Len(s)
      BY <1>1, <2>1
    <2> QED BY <1>1, <2>2, <2>3, <2>4 DEF Ok, None
  <1>2. CASE ~(p < Len(s) /\ OneByteTag(s, p))
    <2>1. r = IF v.err # None THEN v ELSE CheckedTag(v.val, v.next)
      BY <1>2 DEF read_tag
    <2>2. CASE v.err # None
      <3>1. v.err \in {"VarintOverflow", "TruncatedVarint"}
        BY <2>2, VarintFacts
      <3> QED BY <2>1, <2>2, <3>1
    <2>3. CASE v.err = None
      <3>1. v.next \in (p + 1) .. Len(s) /\ v.val \in Nat /\ p < Len(s)
        BY <2>3, VarintFacts DEF None
      <3>2. r = CheckedTag(v.val, v.next)
        BY <2>1, <2>3
      <3> HIDE DEF v, r
      <3>3. r.err = None => /\ TagOf(v.val).field # 0 /\ TagOf(v.val).wire \notin Reserved
                            /\ r = Ok(v.next, TagOf(v.val))
        BY <3>2 DEF CheckedTag, Err, None
      <3>4. r.err \notin {"End", "running"}
        BY <3>2 DEF CheckedTag, Err, Ok, None
      <3> QED BY <3>1, <3>3, <3>4, TagOfFacts DEF Ok, v, r
    <2> QED BY <2>2, <2>3
  <1> QED
    BY <1>1, <1>2

\* What skip_value returns for a leaf: the cursor at the end of the value, inside the buffer.
LEMMA LeafFacts ==
    ASSUME NEW s \in Seq(Byte), NEW p \in 0 .. Len(s), NEW wire, IsLeaf(wire)
    PROVE  LET v == SkipLeaf(s, p, wire)
           IN  (v.err = None => v.next \in p .. Len(s)) /\ v.err # "running"
  <1>0. Len(s) \in Nat /\ p \in Nat /\ I32Bytes \in Nat /\ I64Bytes \in Nat
    BY WireAssumption
  <1>1. CASE wire = Varint
    <2>1. SkipLeaf(s, p, wire) = read_varint(s, p)
      BY <1>1 DEF SkipLeaf, Varint, I64, I32, LenType
    <2> DEFINE v == read_varint(s, p)
    <2>2. (v.err = None => v.next \in (p + 1) .. Len(s)) /\ v.err # "running"
      BY <1>0, VarintFacts DEF None
    <2> HIDE DEF v
    <2>3. (v.err = None => v.next \in p .. Len(s)) /\ v.err # "running"
      BY <1>0, <2>2
    <2> QED BY <2>1, <2>3 DEF v
  <1>2. ASSUME NEW width \in Nat, NEW err, err # None, err # "running"
        PROVE  LET v == read_fixed(s, p, width, err)
               IN  (v.err = None => v.next \in p .. Len(s)) /\ v.err # "running"
    BY <1>0, <1>2 DEF read_fixed, Ok, Err, None
  <1>3. CASE wire = I64
    <2>1. SkipLeaf(s, p, wire) = read_fixed(s, p, I64Bytes, "TruncatedI64")
      BY <1>3 DEF SkipLeaf, Varint, I64, I32, LenType, read_fixed64
    <2> QED BY <1>0, <1>2, <2>1 DEF None
  <1>4. CASE wire = I32
    <2>1. SkipLeaf(s, p, wire) = read_fixed(s, p, I32Bytes, "TruncatedI32")
      BY <1>4 DEF SkipLeaf, Varint, I64, I32, LenType, read_fixed32
    <2> QED BY <1>0, <1>2, <2>1 DEF None
  <1>5. CASE wire = LenType
    <2> DEFINE v == read_varint(s, p)
               r == read_length_delimited(s, p)
    <2>1. SkipLeaf(s, p, wire) = r
      BY <1>5 DEF SkipLeaf, Varint, I64, I32, LenType
    <2>2. /\ v.err = None => v.next \in (p + 1) .. Len(s) /\ v.val \in Nat
          /\ v.err # "running"
      BY <1>0, VarintFacts DEF None
    <2>3. r = IF v.err # None THEN v
              ELSE IF v.val > SizeTMax THEN Err("LengthTooLarge")
              ELSE IF LengthExceeds(v.val, Len(s) - v.next) THEN Err("LengthExceedsBuffer")
              ELSE Ok(v.next + v.val, View(v.next, v.next + v.val))
      BY DEF read_length_delimited
    <2> HIDE DEF v, r
    <2>4. r.err = None => v.err = None /\ ~(v.val > Len(s) - v.next) /\ r.next = v.next + v.val
      BY <2>3 DEF Err, Ok, None, LengthExceeds
    <2>5. r.err = None => r.next \in p .. Len(s)
      BY <1>0, <2>2, <2>4
    <2>6. r.err # "running"
      BY <2>2, <2>3 DEF Err, Ok, None
    <2> QED BY <2>1, <2>5, <2>6 DEF r
  <1> QED
    BY <1>1, <1>3, <1>4, <1>5 DEF IsLeaf

\* The fused readers of the field loop and the plain one of the group scan agree on every
\* tag: what a callback is told is what a scan over the same bytes would read.
LEMMA TagReadersAgree ==
    ASSUME NEW s \in Seq(Byte), NEW p \in Nat, p < Len(s)
    PROVE  read_tag_or_end(s, p) = read_tag(s, p)
  <1>0. /\ Len(s) \in Nat /\ Radix \in Nat \ {0} /\ Radix % 8 = 0 /\ VarintBytes \in Nat /\ VarintBytes >= 3
        /\ kMaxFieldNumber \in Nat /\ (Radix * Radix) \div 8 <= kMaxFieldNumber + 1
    BY WireAssumption
  <1>1. CASE OneByteTag(s, p)
    BY <1>0, <1>1 DEF read_tag_or_end, read_tag
  <1>2. CASE ~OneByteTag(s, p) /\ ~TwoByteTag(s, p)
    BY <1>0, <1>2 DEF read_tag_or_end
  <1>3. CASE ~OneByteTag(s, p) /\ TwoByteTag(s, p)
    <2> DEFINE a == s[p + 1]
               b == s[p + 2]
               raw == TwoByteRaw(s, p)
    <2>1. a >= Radix /\ Len(s) - p >= 2 /\ (b - 1) % (2 * Radix) < Radix - 1 /\ TagOf(raw).wire \notin Reserved
      BY <1>3 DEF TwoByteTag, EndsTwoByteTag
    <2>2. a \in Nat /\ a < 2 * Radix /\ b \in Nat /\ b < 2 * Radix
      <3>1. p + 1 \in 1 .. Len(s) /\ p + 2 \in 1 .. Len(s)
        BY <1>0, <2>1
      <3> QED BY <3>1, Bytes
    <2> HIDE DEF a, b, raw
    <2>3. b \in 1 .. (Radix - 1)
      <3>1. CASE b = 0
        <4>1. (b - 1) % (2 * Radix) = 2 * Radix - 1
          BY <1>0, <3>1
        <4> QED BY <1>0, <2>1, <4>1
      <3>2. CASE b # 0
        <4>1. (b - 1) % (2 * Radix) = b - 1
          BY <1>0, <2>2, <3>2
        <4> QED BY <1>0, <2>1, <2>2, <3>2, <4>1
      <3> QED BY <3>1, <3>2
    <2>4. IsVarint(s, p, 2) /\ 2 \in 1 .. VarintBytes
      <3>1. 2 \in 1 .. VarintBytes /\ 2 # VarintBytes /\ p + 2 <= Len(s)
        BY <1>0, <2>1
      <3>2. \A i \in 1 .. (2 - 1) : s[p + i] >= Radix
        <4>1. \A i \in 1 .. (2 - 1) : i = 1
          OBVIOUS
        <4> QED BY <2>1, <4>1 DEF a
      <3> QED BY <1>0, <2>3, <3>1, <3>2 DEF IsVarint, LastByteFits, b
    <2>5. VarintValue(s, p, 2) = raw
      <3>1. 2 \in Nat /\ p + 2 <= Len(s)
        BY <1>0, <2>1
      <3>2. PICK g \in [0 .. 2 -> Nat] :
              /\ g[0] = 0 /\ \A i \in 1 .. 2 : g[i] = g[i - 1] + (s[p + i] % Radix) * Weight(i - 1)
              /\ VarintValue(s, p, 2) = g[2]
        BY <3>1, VarintRecursion
      <3>3. Weight(0) = 1 /\ Weight(1) = Radix
        <4>1. Weight(0) = 1 /\ Weight(0 + 1) = Radix * Weight(0)
          BY WeightFacts
        <4> QED BY <1>0, <4>1
      <3>4. 1 \in 1 .. 2 /\ 2 \in 1 .. 2 /\ 1 - 1 = 0 /\ 2 - 1 = 1
        OBVIOUS
      <3>5. g[1] = g[0] + (s[p + 1] % Radix) * Weight(1 - 1) /\ g[2] = g[1] + (s[p + 2] % Radix) * Weight(2 - 1)
        BY <3>2, <3>4
      <3>6. b % Radix = b /\ a % Radix \in Nat
        BY <1>0, <2>2, <2>3
      <3>7. g[2] = (a % Radix) + b * Radix
        BY <1>0, <2>3, <3>2, <3>3, <3>5, <3>6 DEF a, b
      <3>8. raw = (a % Radix) + Radix * b
        BY DEF raw, a, b, TwoByteRaw
      <3>9. b * Radix = Radix * b
        BY <1>0, <2>3
      <3> QED BY <3>2, <3>7, <3>8, <3>9
    <2>6. read_varint(s, p) = Ok(p + 2, raw)
      BY <2>4, <2>5, ReadsVarint
    <2>7. raw \in Nat /\ raw >= 8 /\ raw < Radix * Radix
      <3>1. raw = (a % Radix) + Radix * b /\ a % Radix \in 0 .. (Radix - 1) /\ Radix >= 8
        BY <1>0, <2>2 DEF raw, a, b, TwoByteRaw
      <3>2. Radix * b >= Radix /\ Radix * b <= Radix * (Radix - 1) /\ Radix * b \in Nat
        BY <1>0, <2>3
      <3>3. Radix * (Radix - 1) + Radix = Radix * Radix /\ Radix * Radix \in Nat
        BY <1>0
      <3> DEFINE x == Radix * b
                 y == Radix * Radix
                 z == Radix * (Radix - 1)
      <3>4. x >= Radix /\ x <= z /\ x \in Nat /\ z + Radix = y /\ y \in Nat /\ z \in Int /\ raw = (a % Radix) + x
        BY <1>0, <3>1, <3>2, <3>3
      <3> HIDE DEF x, y, z
      <3>5. raw \in Nat /\ raw >= 8 /\ raw < y
        BY <1>0, <3>1, <3>4
      <3> QED BY <3>5 DEF y
    <2>8. raw \div 8 # 0 /\ ~(raw \div 8 > kMaxFieldNumber)
      <3> DEFINE y == Radix * Radix
      <3>1. y \in Nat /\ raw < y /\ y \div 8 <= kMaxFieldNumber + 1 /\ y % 8 = 0
        <4>1. PICK k \in Nat : Radix = 8 * k
          <5>1. Radix = 8 * (Radix \div 8) + (Radix % 8) /\ Radix \div 8 \in Nat
            BY <1>0
          <5> QED BY <1>0, <5>1
        <4>2. y = 8 * (k * Radix) /\ k * Radix \in Nat
          BY <1>0, <4>1
        <4> DEFINE l == k * Radix
        <4>3. y = 8 * l /\ l \in Nat
          BY <4>2
        <4>4. y \in Nat /\ raw < y /\ y \div 8 <= kMaxFieldNumber + 1
          BY <1>0, <2>7
        <4> HIDE DEF l, y
        <4>5. (8 * l) % 8 = 0
          BY <4>3
        <4> QED BY <4>3, <4>4, <4>5
      <3> HIDE DEF y
      <3>2. raw \div 8 < y \div 8
        BY <2>7, <3>1
      <3>3. raw \div 8 >= 1
        BY <2>7
      <3> QED BY <1>0, <2>7, <3>1, <3>2, <3>3
    <2>9. CheckedTag(raw, p + 2) = Ok(p + 2, TagOf(raw))
      BY <2>1, <2>8 DEF CheckedTag, TagOf
    <2>10. read_tag(s, p) = CheckedTag(raw, p + 2)
      BY <1>3, <2>6 DEF read_tag, Ok, None
    <2>11. read_tag_or_end(s, p) = Ok(p + 2, TagOf(raw))
      BY <1>0, <1>3 DEF read_tag_or_end, raw
    <2> QED BY <2>9, <2>10, <2>11
  <1> QED
    BY <1>1, <1>2, <1>3
-----------------------------------------------------------------------------
(* Tokens and the positions between them.                                  *)

\* A token with nothing wrong has a tag and ends after it began, inside the buffer.
LEMMA TokenFacts ==
    ASSUME NEW s \in Seq(Byte), NEW q \in Nat, Token(s, q).err = None
    PROVE  /\ q < Len(s)
           /\ Token(s, q).next \in (q + 1) .. Len(s)
           /\ IsTag(Token(s, q).tag)
  <1> DEFINE t == read_tag(s, q)
             v == SkipLeaf(s, t.next, t.val.wire)
             k == Token(s, q)
  <1>1. k = IF t.err # None THEN [err |-> t.err, at |-> q, next |-> 0, tag |-> 0]
            ELSE IF ~IsLeaf(t.val.wire)
            THEN [err |-> None, at |-> t.next, next |-> t.next, tag |-> t.val]
            ELSE [err |-> v.err, at |-> t.next, next |-> v.next, tag |-> t.val]
    BY DEF Token
  <1>2. t.err = None => t.next \in (q + 1) .. Len(s) /\ IsTag(t.val) /\ q < Len(s)
    BY TagFacts
  <1>3. t.next \in 0 .. Len(s) /\ IsLeaf(t.val.wire) /\ v.err = None => v.next \in t.next .. Len(s)
    BY LeafFacts
  <1>4. k.err = None
    OBVIOUS
  <1> HIDE DEF t, v, k
  <1>5. t.err = None
    BY <1>1, <1>4
  <1>6. k.tag = t.val
    BY <1>1, <1>5
  <1>7. k.next = t.next \/ (IsLeaf(t.val.wire) /\ v.err = None /\ k.next = v.next)
    BY <1>1, <1>4, <1>5
  <1>8. Len(s) \in Nat
    OBVIOUS
  <1>9. k.next \in (q + 1) .. Len(s)
    BY <1>2, <1>3, <1>5, <1>7, <1>8
  <1> QED
    BY <1>2, <1>5, <1>6, <1>9 DEF k

\* R is the run of the recursion behind Boundaries over the buffer s.
Reaches(s, R) ==
    /\ R \in [0 .. Len(s) -> SUBSET Nat]
    /\ R[0] = {0}
    /\ \A k \in 1 .. Len(s) :
          R[k] = IF k - 1 \in R[k - 1] /\ Token(s, k - 1).err = None
                 THEN R[k - 1] \cup {Token(s, k - 1).next} ELSE R[k - 1]

\* Boundaries is what that recursion ends with.
LEMMA BoundaryRecursion ==
    ASSUME NEW s \in Seq(Byte)
    PROVE  \E R : Reaches(s, R) /\ Boundaries(s) = R[Len(s)]
  <1> DEFINE n == Len(s)
             More(X, i) == IF i - 1 \in X /\ Token(s, i - 1).err = None
                           THEN X \cup {Token(s, i - 1).next} ELSE X
             Body(f, i) == IF i = 0 THEN {0} ELSE More(f[i - 1], i)
             step == [i \in 1 .. n |-> [X \in SUBSET Nat |-> More(X, i)]]
             w == CHOOSE f : f = [i \in 0 .. n |-> Body(f, i)]
  <1>1. n \in Nat /\ {0} \in SUBSET Nat
    OBVIOUS
  <1>2. ASSUME NEW i \in 1 .. n, NEW X \in SUBSET Nat PROVE More(X, i) \in SUBSET Nat
    <2>1. i - 1 \in Nat
      BY <1>1
    <2>2. Token(s, i - 1).err = None => Token(s, i - 1).next \in Nat
      <3>1. \A q \in Nat : Token(s, q).err = None => Token(s, q).next \in (q + 1) .. Len(s)
        BY TokenFacts
      <3> QED BY <1>1, <2>1, <3>1
    <2> QED BY <2>2
  <1> HIDE DEF n, More
  <1>3. step \in [1 .. n -> [SUBSET Nat -> SUBSET Nat]]
    BY <1>2
  <1>4. PICK g : g \in [0 .. n -> SUBSET Nat] /\ g[0] = {0} /\ \A i \in 1 .. n : g[i] = step[i][g[i - 1]]
    <2> HIDE DEF step
    <2>1. \E g : Iterates(g, n, SUBSET Nat, {0}, step)
      BY <1>1, <1>3, RecursionExists
    <2> QED BY <2>1 DEF Iterates
  <1>5. ASSUME NEW i \in 0 .. n PROVE g[i] = Body(g, i)
    <2>1. i = 0 \/ (i \in 1 .. n /\ g[i - 1] \in SUBSET Nat)
      BY <1>1, <1>4
    <2>2. CASE i \in 1 .. n /\ g[i - 1] \in SUBSET Nat
      <3>1. g[i] = step[i][g[i - 1]] /\ i # 0
        BY <1>4, <2>2
      <3>2. step[i][g[i - 1]] = More(g[i - 1], i)
        BY <2>2
      <3> QED BY <3>1, <3>2
    <2> QED BY <1>4, <2>1, <2>2
  <1> HIDE DEF Body, step
  <1>6. g = [i \in 0 .. n |-> Body(g, i)]
    BY <1>4, <1>5
  <1>7. w = [i \in 0 .. n |-> Body(w, i)]
    BY <1>6
  <1>8. Boundaries(s) = w[n]
    BY DEF Boundaries, Body, More, n
  <1> HIDE DEF w
  <1> DEFINE T == {i \in 0 .. n : w[i] = g[i]}
  <1>9. \A i \in 0 .. n : w[i] = Body(w, i)
    BY <1>7
  <1>10. 0 \in T
    <2>1. 0 \in 0 .. n
      BY <1>1
    <2> QED BY <1>5, <1>9, <2>1 DEF Body
  <1>11. ASSUME NEW i \in 1 .. n, i - 1 \in T PROVE i \in T
    <2>1. i \in 0 .. n /\ i # 0 /\ w[i - 1] = g[i - 1]
      BY <1>1, <1>11
    <2> QED BY <1>5, <1>9, <2>1 DEF Body
  <1>12. w[n] = g[n]
    <2> HIDE DEF T
    <2>1. \A i \in 0 .. n : i \in T
      BY <1>1, <1>10, <1>11, UpTo
    <2> QED BY <1>1, <2>1 DEF T
  <1>13. \A i \in 1 .. n : g[i] = More(g[i - 1], i)
    <2>1. \A i \in 1 .. n : i \in 0 .. n /\ i # 0
      BY <1>1
    <2> QED BY <1>5, <2>1 DEF Body
  <1>14. Reaches(s, g)
    BY <1>4, <1>13 DEF Reaches, More, n
  <1> QED
    BY <1>8, <1>12, <1>14 DEF n

\* The boundaries found when the tokens below k have been looked at: one of them is at or
\* above k, the others begin a token without a defect that ends at or before the next one.
Chain(s, k, X) ==
    /\ 0 \in X /\ X \subseteq 0 .. Len(s)
    /\ \A q, r \in X : q >= k /\ r >= k => q = r
    /\ \A q \in X : q < k /\ Token(s, q).err = None => Token(s, q).next \in X
    /\ \A q, r \in X : q < r => Token(s, q).err = None /\ Token(s, q).next <= r

\* One more token keeps the chain.
LEMMA ChainStep ==
    ASSUME NEW s \in Seq(Byte), NEW k \in 1 .. Len(s), NEW X, Chain(s, k - 1, X), NEW Y,
           Y = IF k - 1 \in X /\ Token(s, k - 1).err = None
               THEN X \cup {Token(s, k - 1).next} ELSE X
    PROVE  Chain(s, k, Y)
  <1>0. /\ Len(s) \in Nat /\ k - 1 \in Nat /\ k - 1 < k /\ k \in Nat
        /\ 0 \in X /\ X \subseteq 0 .. Len(s)
    BY DEF Chain
  <1>1. \A q, r \in X : q >= k - 1 /\ r >= k - 1 => q = r
    BY DEF Chain
  <1>2. \A q \in X : q < k - 1 /\ Token(s, q).err = None => Token(s, q).next \in X
    BY DEF Chain
  <1>3. \A q, r \in X : q < r => Token(s, q).err = None /\ Token(s, q).next <= r
    BY DEF Chain
  <1>4. CASE k - 1 \in X /\ Token(s, k - 1).err = None
    <2> DEFINE x == Token(s, k - 1).next
    <2>1. x \in k .. Len(s)
      <3>1. x \in ((k - 1) + 1) .. Len(s)
        BY <1>0, <1>4, TokenFacts
      <3> QED BY <1>0, <3>1
    <2>2. Token(s, k - 1).next = x
      OBVIOUS
    <2> HIDE DEF x
    <2>3. Y = X \cup {x}
      BY <1>4, <2>2
    <2>4. \A q \in X : q \in Nat /\ q <= k - 1
      BY <1>0, <1>1, <1>4
    <2>5. \A q, r \in Y : q >= k /\ r >= k => q = r
      BY <1>0, <2>3, <2>4
    <2>6. \A q \in Y : q < k /\ Token(s, q).err = None => Token(s, q).next \in Y
      <3> SUFFICES ASSUME NEW q \in Y, q < k, Token(s, q).err = None PROVE Token(s, q).next \in Y
        OBVIOUS
      <3>1. q \in X
        BY <1>0, <2>1, <2>3
      <3>2. q = k - 1 \/ q < k - 1
        BY <1>0, <2>4, <3>1
      <3> QED BY <1>2, <2>2, <2>3, <3>1, <3>2
    <2>7. \A q, r \in Y : q < r => Token(s, q).err = None /\ Token(s, q).next <= r
      <3> SUFFICES ASSUME NEW q \in Y, NEW r \in Y, q < r
                   PROVE  Token(s, q).err = None /\ Token(s, q).next <= r
        OBVIOUS
      <3>1. q \in X
        <4>1. q = x => r \in X
          BY <1>0, <2>1, <2>3
        <4> QED BY <1>0, <2>1, <2>3, <2>4, <4>1
      <3>2. CASE r \in X
        BY <1>3, <3>1, <3>2
      <3>3. CASE r = x
        <4>1. CASE q = k - 1
          BY <1>0, <1>4, <2>1, <2>2, <3>3, <4>1
        <4>2. CASE q < k - 1
          <5>1. Token(s, q).err = None /\ Token(s, q).next <= k - 1
            BY <1>3, <1>4, <3>1, <4>2
          <5>2. Token(s, q).next \in Nat
            <6>1. q \in Nat
              BY <2>4, <3>1
            <6>2. Token(s, q).next \in (q + 1) .. Len(s)
              BY <5>1, <6>1, TokenFacts
            <6> QED BY <1>0, <6>1, <6>2
          <5> QED BY <1>0, <2>1, <3>3, <5>1, <5>2
        <4> QED BY <1>0, <2>4, <3>1, <4>1, <4>2
      <3> QED BY <2>3, <3>2, <3>3
    <2>8. 0 \in Y /\ Y \subseteq 0 .. Len(s)
      <3>1. x \in 0 .. Len(s)
        BY <1>0, <2>1
      <3> QED BY <1>0, <2>3, <3>1
    <2> QED BY <2>5, <2>6, <2>7, <2>8 DEF Chain
  <1>5. CASE ~(k - 1 \in X /\ Token(s, k - 1).err = None)
    <2>1. Y = X
      BY <1>5
    <2>2. \A q \in X : q \in Nat
      BY <1>0
    <2>3. \A q, r \in X : q >= k /\ r >= k => q = r
      BY <1>0, <1>1, <2>2
    <2>4. \A q \in X : q < k /\ Token(s, q).err = None => Token(s, q).next \in X
      <3> SUFFICES ASSUME NEW q \in X, q < k, Token(s, q).err = None PROVE Token(s, q).next \in X
        OBVIOUS
      <3>1. q # k - 1
        BY <1>5
      <3>2. q < k - 1
        BY <1>0, <2>2, <3>1
      <3> QED BY <1>2, <3>2
    <2> QED BY <1>0, <1>3, <2>1, <2>3, <2>4 DEF Chain
  <1> QED
    BY <1>4, <1>5

\* The boundaries of a buffer: they begin at 0, the end of a good token is one, and between
\* a token and its end there is none.
LEMMA BoundaryFacts ==
    ASSUME NEW s \in Seq(Byte)
    PROVE  /\ 0 \in Boundaries(s) /\ Boundaries(s) \subseteq 0 .. Len(s)
           /\ \A q \in Boundaries(s) : Token(s, q).err = None => Token(s, q).next \in Boundaries(s)
           /\ \A q, r \in Boundaries(s) : q < r => Token(s, q).err = None /\ Token(s, q).next <= r
  <1>1. PICK R : Reaches(s, R) /\ Boundaries(s) = R[Len(s)]
    BY BoundaryRecursion
  <1> DEFINE T == {k \in 0 .. Len(s) : Chain(s, k, R[k])}
  <1>2. Len(s) \in Nat
    OBVIOUS
  <1>3. 0 \in T
    <2>1. R[0] = {0}
      BY <1>1 DEF Reaches
    <2> QED BY <1>2, <2>1 DEF Chain
  <1>4. ASSUME NEW k \in 1 .. Len(s), k - 1 \in T PROVE k \in T
    <2>1. R[k] = IF k - 1 \in R[k - 1] /\ Token(s, k - 1).err = None
                 THEN R[k - 1] \cup {Token(s, k - 1).next} ELSE R[k - 1]
      BY <1>1 DEF Reaches
    <2>2. Chain(s, k - 1, R[k - 1])
      BY <1>4
    <2>3. Chain(s, k, R[k])
      BY <2>1, <2>2, ChainStep
    <2> QED BY <2>3
  <1>5. Chain(s, Len(s), Boundaries(s))
    <2> HIDE DEF T
    <2>1. \A k \in 0 .. Len(s) : k \in T
      BY <1>2, <1>3, <1>4, UpTo
    <2>2. Len(s) \in T
      BY <1>2, <2>1
    <2> QED BY <1>1, <2>2 DEF T
  <1>6. \A q \in Boundaries(s) : Token(s, q).err = None => q < Len(s)
    <2>1. \A q \in Boundaries(s) : q \in Nat
      BY <1>5 DEF Chain
    <2> QED BY <2>1, TokenFacts
  <1> QED
    BY <1>5, <1>6 DEF Chain

\* Going over one token, the only boundary passed is the one it begins at.
LEMMA StepCounts ==
    ASSUME NEW s \in Seq(Byte), NEW q \in Boundaries(s), Token(s, q).err = None, NEW wire
    PROVE  LET tok == Tokens(s)
           IN  /\ Count(tok, q, wire) \in Nat
               /\ Count(tok, Token(s, q).next, wire)
                    = Count(tok, q, wire) + (IF Token(s, q).tag.wire = wire THEN 1 ELSE 0)
  <1> DEFINE x == Token(s, q).next
             A == {r \in Boundaries(s) : r < q /\ Is(Tokens(s), r, wire)}
             C == {r \in Boundaries(s) : r < x /\ Is(Tokens(s), r, wire)}
  <1>1. /\ Len(s) \in Nat /\ q \in Nat /\ \A r \in Boundaries(s) : r \in 0 .. Len(s)
        /\ \A r \in Boundaries(s) : q < r => x <= r
    BY BoundaryFacts
  <1>2. x \in Nat /\ q < x
    <2>1. x \in (q + 1) .. Len(s)
      BY <1>1, TokenFacts
    <2> QED BY <1>1, <2>1
  <1>3. DOMAIN Tokens(s) = Boundaries(s) /\ Tokens(s)[q] = Token(s, q)
    BY DEF Tokens
  <1>4. Count(Tokens(s), q, wire) = Cardinality(A) /\ Count(Tokens(s), x, wire) = Cardinality(C)
    BY <1>3 DEF Count
  <1>5. IsFiniteSet(A)
    <2>1. IsFiniteSet(0 .. Len(s))
      BY <1>1, FS_Interval
    <2>2. A \subseteq 0 .. Len(s)
      BY <1>1
    <2> QED BY <2>1, <2>2, FS_Subset
  <1>6. Cardinality(A) \in Nat
    BY <1>5, FS_CardinalityType
  <1>7. Is(Tokens(s), q, wire) <=> Token(s, q).tag.wire = wire
    BY <1>3 DEF Is
  <1>8. q \notin A
    BY <1>1
  <1> HIDE DEF x
  <1>9. ASSUME NEW r \in Boundaries(s) PROVE r < x <=> r < q \/ r = q
    <2>1. r \in Nat /\ (q < r => x <= r)
      BY <1>1
    <2> QED BY <1>1, <1>2, <2>1
  <1>10. CASE Token(s, q).tag.wire = wire
    <2>1. C = A \cup {q}
      BY <1>7, <1>9, <1>10
    <2> HIDE DEF A, C
    <2>2. Cardinality(A \cup {q}) = Cardinality(A) + 1
      BY <1>5, <1>8, FS_AddElement
    <2> QED BY <1>4, <1>6, <1>10, <2>1, <2>2 DEF x
  <1>11. CASE Token(s, q).tag.wire # wire
    <2>1. C = A
      BY <1>7, <1>9, <1>11
    <2> HIDE DEF A, C
    <2> QED BY <1>4, <1>6, <1>11, <2>1 DEF x
  <1> QED
    BY <1>10, <1>11

\* The depth goes up over a start of group, down over an end and stays over a leaf.
LEMMA StepDepth ==
    ASSUME NEW s \in Seq(Byte), NEW q \in Boundaries(s), Token(s, q).err = None
    PROVE  LET d == DepthAt(Tokens(s), q)
               e == DepthAt(Tokens(s), Token(s, q).next)
               wire == Token(s, q).tag.wire
           IN  /\ d \in Int
               /\ wire = SGroup => e = d + 1
               /\ wire = EGroup => e = d - 1
               /\ wire \notin {SGroup, EGroup} => e = d
  <1> DEFINE tok == Tokens(s)
             x == Token(s, q).next
             wire == Token(s, q).tag.wire
  <1>1. ASSUME NEW w
        PROVE  Count(tok, q, w) \in Nat /\ Count(tok, x, w) = Count(tok, q, w) + (IF wire = w THEN 1 ELSE 0)
    BY StepCounts
  <1>2. /\ DepthAt(tok, q) = Count(tok, q, SGroup) - Count(tok, q, EGroup)
        /\ DepthAt(tok, x) = Count(tok, x, SGroup) - Count(tok, x, EGroup)
    BY DEF DepthAt
  <1> HIDE DEF tok, x, wire
  <1>3. SGroup # EGroup
    BY DEF SGroup, EGroup
  <1>4. /\ Count(tok, q, SGroup) \in Nat /\ Count(tok, q, EGroup) \in Nat
        /\ Count(tok, x, SGroup) = Count(tok, q, SGroup) + (IF wire = SGroup THEN 1 ELSE 0)
        /\ Count(tok, x, EGroup) = Count(tok, q, EGroup) + (IF wire = EGroup THEN 1 ELSE 0)
    BY <1>1
  <1>5. /\ DepthAt(tok, q) \in Int
        /\ wire = SGroup => DepthAt(tok, x) = DepthAt(tok, q) + 1
        /\ wire = EGroup => DepthAt(tok, x) = DepthAt(tok, q) - 1
        /\ wire \notin {SGroup, EGroup} => DepthAt(tok, x) = DepthAt(tok, q)
    BY <1>2, <1>3, <1>4
  <1> QED
    BY <1>5 DEF tok, x, wire

\* The depth at the beginning is zero.
LEMMA DepthAtStart ==
    ASSUME NEW s \in Seq(Byte)
    PROVE  DepthAt(Tokens(s), 0) = 0
  <1>1. DOMAIN Tokens(s) = Boundaries(s) /\ \A r \in Boundaries(s) : r \in Nat
    BY BoundaryFacts DEF Tokens
  <1>2. ASSUME NEW w PROVE Count(Tokens(s), 0, w) = 0
    <2>1. {r \in DOMAIN Tokens(s) : r < 0 /\ Is(Tokens(s), r, w)} = {}
      BY <1>1
    <2>2. Cardinality({}) = 0
      BY FS_EmptySet
    <2> QED BY <2>1, <2>2 DEF Count
  <1> QED
    BY <1>2 DEF DepthAt

-----------------------------------------------------------------------------
(* The inductive invariant.                                                *)

Tag == [field : Nat, wire : 0 .. 5]
Span == [kind : {"unknown", "group", "skipped"}, tag : Tag, lo : Nat, hi : Nat, next : Nat]

\* The variables have their types, the cursors their order.
CursorsInside ==
    /\ input \in Seq(Byte)
    /\ rp_c \in 0 .. Len(input) /\ value_start \in 0 .. rp_c /\ egroup_tag \in Nat
    /\ tag \in Tag
    /\ scan \in Seq(Nat) /\ Len(scan) <= kMaxGroupDepth
    /\ pending \in BOOLEAN /\ (pending => scan = <<>>)
    /\ status.offset \in 0 .. Len(input)

\* A group that waits for its callback ends where its last tag begins.
GroupEndsInside ==
    pending /\ tag.wire = SGroup => value_start <= egroup_tag /\ egroup_tag <= rp_c

\* What was delivered lies inside the buffer.
SpansInside ==
    /\ out \in Seq(Span)
    /\ \A i \in 1 .. Len(out) : /\ out[i].lo <= out[i].hi
                                /\ out[i].hi <= out[i].next /\ out[i].next <= Len(input)

\* While the decode runs, the cursor is between two tokens, no token before it has a
\* defect, and the stack holds the groups that are open there.
Opens(s, r, c, i, f) ==
    /\ r \in Boundaries(s) /\ r < c
    /\ Is(Tokens(s), r, SGroup) /\ DepthAt(Tokens(s), r) = i - 1
    /\ Tokens(s)[r].tag.field = f
    /\ \A u \in Boundaries(s) :
          u < c /\ Is(Tokens(s), u, SGroup) /\ DepthAt(Tokens(s), u) = i - 1 => u <= r

Clean(s, c) ==
    /\ c \in Boundaries(s)
    /\ \A q \in Boundaries(s) : q < c => Defect(Tokens(s), Len(s), q) = NoDefect

StackIs(s, c, st) ==
    /\ DepthAt(Tokens(s), c) = Len(st)
    /\ \A i \in 1 .. Len(st) : \E r \in Boundaries(s) : Opens(s, r, c, i, st[i])

BetweenTokens == status = Running => Clean(input, rp_c) /\ StackIs(input, rp_c, scan)

DecodeInv ==
    CursorsInside /\ GroupEndsInside /\ SpansInside /\ BetweenTokens /\ VerdictIsFirstDefect

-----------------------------------------------------------------------------
(* What the field loop and the scan know about the tokens before the cursor. *)

\* The first defect is the verdict.
LEMMA VerdictAt ==
    ASSUME NEW s \in Seq(Byte), NEW q, Clean(s, q), Defect(Tokens(s), Len(s), q) # NoDefect
    PROVE  Verdict(s) = Defect(Tokens(s), Len(s), q)
  <1> DEFINE D == {r \in Boundaries(s) : Defect(Tokens(s), Len(s), r) # NoDefect}
  <1>1. q \in D /\ \A r \in D : ~(r < q)
    BY DEF Clean
  <1>2. D \subseteq Nat /\ D # {}
    <2>1. Boundaries(s) \subseteq Nat
      BY BoundaryFacts
    <2> QED BY <1>1, <2>1
  <1>3. DOMAIN Tokens(s) = Boundaries(s)
    BY DEF Tokens
  <1>4. Verdict(s) = IF D = {} THEN NoDefect ELSE Defect(Tokens(s), Len(s), Min(D))
    BY <1>3 DEF Verdict, FirstDefect
  <1> HIDE DEF D
  <1>5. Min(D) \in D /\ \A r \in D : Min(D) <= r
    BY <1>2, MinIsLeast
  <1>6. Min(D) = q
    <2> DEFINE m == Min(D)
    <2>1. m \in Nat /\ q \in Nat /\ m <= q /\ ~(m < q)
      BY <1>1, <1>2, <1>5
    <2> HIDE DEF m
    <2>2. m = q
      BY <2>1
    <2> QED BY <2>2 DEF m
  <1> QED
    BY <1>2, <1>4, <1>6

\* A buffer read to its end without a defect has none.
LEMMA VerdictAtEnd ==
    ASSUME NEW s \in Seq(Byte), Clean(s, Len(s)), Defect(Tokens(s), Len(s), Len(s)) = NoDefect
    PROVE  Verdict(s) = NoDefect
  <1>1. ASSUME NEW r \in Boundaries(s) PROVE Defect(Tokens(s), Len(s), r) = NoDefect
    <2>1. r \in 0 .. Len(s) /\ Len(s) \in Nat
      BY BoundaryFacts
    <2>2. r = Len(s) \/ r < Len(s)
      BY <2>1
    <2> QED BY <2>2 DEF Clean
  <1>2. DOMAIN Tokens(s) = Boundaries(s)
    BY DEF Tokens
  <1>3. {r \in Boundaries(s) : Defect(Tokens(s), Len(s), r) # NoDefect} = {}
    BY <1>1
  <1> QED
    BY <1>2, <1>3 DEF Verdict, FirstDefect

\* Past a token without a defect there is still none.
LEMMA CleanStep ==
    ASSUME NEW s \in Seq(Byte), NEW q, Clean(s, q), Token(s, q).err = None,
           Defect(Tokens(s), Len(s), q) = NoDefect
    PROVE  Clean(s, Token(s, q).next)
  <1> DEFINE x == Token(s, q).next
  <1>1. /\ q \in Boundaries(s) /\ q \in Nat /\ \A r \in Boundaries(s) : r \in Nat /\ (q < r => x <= r)
        /\ x \in Boundaries(s)
    BY BoundaryFacts DEF Clean
  <1>2. x \in Nat
    BY <1>1
  <1> HIDE DEF x
  <1>3. ASSUME NEW r \in Boundaries(s), r < x PROVE Defect(Tokens(s), Len(s), r) = NoDefect
    <2>1. r = q \/ r < q
      BY <1>1, <1>2, <1>3
    <2> QED BY <2>1 DEF Clean
  <1>4. Clean(s, x)
    BY <1>1, <1>3 DEF Clean
  <1> QED
    BY <1>4 DEF x

\* An open group stays open over a token that does not reopen its level.
LEMMA OpensStep ==
    ASSUME NEW s \in Seq(Byte), NEW q \in Boundaries(s), Token(s, q).err = None,
           NEW r, NEW i \in Nat, NEW f, Opens(s, r, q, i, f),
           Token(s, q).tag.wire # SGroup \/ DepthAt(Tokens(s), q) # i - 1
    PROVE  Opens(s, r, Token(s, q).next, i, f)
  <1> DEFINE x == Token(s, q).next
  <1>1. /\ q \in Nat /\ \A u \in Boundaries(s) : u \in Nat /\ (q < u => x <= u)
        /\ x \in Nat
    BY BoundaryFacts
  <1>2. q < x
    <2>1. x \in (q + 1) .. Len(s)
      BY <1>1, TokenFacts
    <2> QED BY <1>1, <2>1
  <1>3. Tokens(s)[q] = Token(s, q)
    BY DEF Tokens
  <1> HIDE DEF x
  <1>4. r \in Boundaries(s) /\ r < q
    BY DEF Opens
  <1>5. r < x
    BY <1>1, <1>2, <1>4
  <1>6. ASSUME NEW u \in Boundaries(s), u < x, Is(Tokens(s), u, SGroup), DepthAt(Tokens(s), u) = i - 1
        PROVE  u <= r
    <2>1. u < q \/ u = q
      BY <1>1, <1>6
    <2>2. u # q
      BY <1>3, <1>6 DEF Is
    <2> QED BY <1>6, <2>1, <2>2 DEF Opens
  <1>7. Opens(s, r, x, i, f)
    BY <1>4, <1>5, <1>6 DEF Opens
  <1> QED
    BY <1>7 DEF x

\* A leaf leaves the stack as it was.
LEMMA StackOverLeaf ==
    ASSUME NEW s \in Seq(Byte), NEW q \in Boundaries(s), Token(s, q).err = None,
           Token(s, q).tag.wire \notin {SGroup, EGroup},
           NEW st \in Seq(Nat), StackIs(s, q, st)
    PROVE  StackIs(s, Token(s, q).next, st)
  <1>1. DepthAt(Tokens(s), Token(s, q).next) = Len(st)
    BY StepDepth DEF StackIs
  <1>2. ASSUME NEW i \in 1 .. Len(st)
        PROVE  \E r \in Boundaries(s) : Opens(s, r, Token(s, q).next, i, st[i])
    <2>1. PICK r \in Boundaries(s) : Opens(s, r, q, i, st[i])
      BY DEF StackIs
    <2>2. i \in Nat
      OBVIOUS
    <2>3. Opens(s, r, Token(s, q).next, i, st[i])
      BY <2>1, <2>2, OpensStep
    <2> QED BY <2>3
  <1> QED
    BY <1>1, <1>2 DEF StackIs

\* A start of group is pushed.
LEMMA StackOverStart ==
    ASSUME NEW s \in Seq(Byte), NEW q \in Boundaries(s), Token(s, q).err = None,
           Token(s, q).tag.wire = SGroup, Token(s, q).tag.field \in Nat,
           NEW st \in Seq(Nat), StackIs(s, q, st)
    PROVE  StackIs(s, Token(s, q).next, Append(st, Token(s, q).tag.field))
  <1> DEFINE x == Token(s, q).next
             f == Token(s, q).tag.field
             u == Append(st, f)
             n == Len(st)
  <1>1. u \in Seq(Nat) /\ Len(u) = n + 1 /\ u[n + 1] = f /\ (\A i \in 1 .. n : u[i] = st[i]) /\ n \in Nat
    BY Appended
  <1>2. DepthAt(Tokens(s), q) = n /\ DepthAt(Tokens(s), x) = n + 1
    BY StepDepth DEF StackIs
  <1>3. /\ q \in Nat /\ (\A r \in Boundaries(s) : r \in Nat /\ (q < r => x <= r)) /\ x \in Nat
    BY BoundaryFacts
  <1>4. q < x
    <2>1. x \in (q + 1) .. Len(s)
      BY <1>3, TokenFacts
    <2> QED BY <1>3, <2>1
  <1>5. Tokens(s)[q] = Token(s, q)
    BY DEF Tokens
  <1>6. ASSUME NEW i \in 1 .. n PROVE \E r \in Boundaries(s) : Opens(s, r, x, i, u[i])
    <2>1. PICK r \in Boundaries(s) : Opens(s, r, q, i, st[i])
      BY DEF StackIs
    <2>2. i \in Nat /\ n # i - 1
      BY <1>1
    <2>3. Opens(s, r, x, i, st[i])
      BY <1>2, <2>1, <2>2, OpensStep
    <2>4. u[i] = st[i]
      BY <1>1
    <2> QED BY <2>3, <2>4
  <1>7. Opens(s, q, x, n + 1, u[n + 1])
    <2>1. \A r \in Boundaries(s) : r < x => r <= q
      <3> HIDE DEF x
      <3> QED BY <1>3
    <2>2. Is(Tokens(s), q, SGroup) /\ Tokens(s)[q].tag.field = f
      BY <1>5 DEF Is
    <2>3. (n + 1) - 1 = n
      BY <1>1
    <2> HIDE DEF x, u, n, f
    <2> QED BY <1>1, <1>2, <1>4, <2>1, <2>2, <2>3 DEF Opens
  <1>8. ASSUME NEW i \in 1 .. Len(u) PROVE \E r \in Boundaries(s) : Opens(s, r, x, i, u[i])
    <2>1. i = n + 1 \/ i \in 1 .. n
      <3> HIDE DEF u, n
      <3> QED BY <1>1
    <2> HIDE DEF x, u, n, f
    <2> QED BY <1>6, <1>7, <2>1
  <1> HIDE DEF x, u, n, f
  <1>9. StackIs(s, x, u)
    BY <1>1, <1>2, <1>8 DEF StackIs
  <1> QED
    BY <1>9 DEF x, u, f

\* An end of group pops the innermost one.
LEMMA StackOverEnd ==
    ASSUME NEW s \in Seq(Byte), NEW q \in Boundaries(s), Token(s, q).err = None,
           Token(s, q).tag.wire = EGroup,
           NEW st \in Seq(Nat), st # <<>>, StackIs(s, q, st)
    PROVE  StackIs(s, Token(s, q).next, Front(st))
  <1> DEFINE x == Token(s, q).next
             u == Front(st)
             n == Len(st)
  <1>1. u \in Seq(Nat) /\ Len(u) = n - 1 /\ (\A i \in 1 .. (n - 1) : u[i] = st[i]) /\ n \in Nat /\ n > 0
    BY FrontFacts
  <1>2. DepthAt(Tokens(s), x) = n - 1
    BY StepDepth DEF StackIs
  <1>3. Token(s, q).tag.wire # SGroup
    BY DEF SGroup, EGroup
  <1>4. ASSUME NEW i \in 1 .. Len(u) PROVE \E r \in Boundaries(s) : Opens(s, r, x, i, u[i])
    <2>1. i \in 1 .. n /\ i \in Nat /\ u[i] = st[i]
      BY <1>1
    <2>2. PICK r \in Boundaries(s) : Opens(s, r, q, i, st[i])
      BY <2>1 DEF StackIs
    <2>3. Opens(s, r, x, i, st[i])
      BY <1>3, <2>1, <2>2, OpensStep
    <2> QED BY <2>1, <2>3
  <1> HIDE DEF x, u, n
  <1>5. StackIs(s, x, u)
    BY <1>1, <1>2, <1>4 DEF StackIs
  <1> QED
    BY <1>5 DEF x, u

\* The group that is innermost is the one on top of the stack.
LEMMA OpenIsLast ==
    ASSUME NEW s \in Seq(Byte), NEW q, NEW st \in Seq(Nat), st # <<>>, StackIs(s, q, st)
    PROVE  Tokens(s)[OpenAt(Tokens(s), q)].tag.field = Last(st)
  <1> DEFINE n == Len(st)
             O == {r \in Boundaries(s) :
                     r < q /\ Is(Tokens(s), r, SGroup) /\ DepthAt(Tokens(s), r) = n - 1}
  <1>1. n \in Nat /\ n > 0 /\ n \in 1 .. n
    BY FrontFacts
  <1>2. PICK r \in Boundaries(s) : Opens(s, r, q, n, st[n])
    BY <1>1 DEF StackIs
  <1>3. DepthAt(Tokens(s), q) = n /\ DOMAIN Tokens(s) = Boundaries(s)
    BY DEF StackIs, Tokens
  <1>4. OpenAt(Tokens(s), q) = Max(O)
    BY <1>3 DEF OpenAt
  <1>5. r \in O /\ \A u \in O : r >= u
    <2>1. \A u \in Boundaries(s) : u \in Nat
      BY BoundaryFacts
    <2> QED BY <1>2, <2>1 DEF Opens
  <1>6. O \subseteq Nat
    BY BoundaryFacts
  <1> HIDE DEF O
  <1>7. Max(O) = r
    <2> DEFINE m == Max(O)
    <2>1. m \in O /\ \A u \in O : m >= u
      BY <1>5 DEF Max
    <2> HIDE DEF m
    <2>2. m = r
      BY <1>5, <1>6, <2>1
    <2> QED BY <2>2 DEF m
  <1>8. Tokens(s)[r].tag.field = st[n]
    BY <1>2 DEF Opens
  <1>9. Last(st) = st[n]
    BY DEF Last
  <1> QED
    BY <1>4, <1>7, <1>8, <1>9

\* What is wrong at a position, said with the token there and the stack.
LEMMA DefectOf ==
    ASSUME NEW s \in Seq(Byte), NEW q \in Boundaries(s), NEW st \in Seq(Nat), StackIs(s, q, st)
    PROVE  LET k == Token(s, q)
               bad(err, at) == [err |-> err, at |-> at]
           IN  Defect(Tokens(s), Len(s), q) =
                 IF q = Len(s) THEN IF st # <<>> THEN bad("UnterminatedGroup", q) ELSE NoDefect
                 ELSE IF k.err # None THEN bad(k.err, k.at)
                 ELSE IF k.tag.wire = SGroup /\ Len(st) >= kMaxGroupDepth THEN bad("GroupTooDeep", k.next)
                 ELSE IF k.tag.wire # EGroup THEN NoDefect
                 ELSE IF st = <<>> THEN bad("UnexpectedEndGroup", k.next)
                 ELSE IF Last(st) # k.tag.field THEN bad("EndGroupMismatch", q)
                 ELSE NoDefect
  <1>1. Tokens(s)[q] = Token(s, q)
    BY DEF Tokens
  <1>2. DepthAt(Tokens(s), q) = Len(st)
    BY DEF StackIs
  <1>3. /\ Len(st) > 0 <=> st # <<>>
        /\ Len(st) <= 0 <=> st = <<>>
    <2>1. Len(st) \in Nat /\ (Len(st) = 0 <=> st = <<>>)
      BY EmptySeq
    <2> QED BY <2>1
  <1>4. st # <<>> => Tokens(s)[OpenAt(Tokens(s), q)].tag.field = Last(st)
    BY OpenIsLast
  <1> DEFINE open == Tokens(s)[OpenAt(Tokens(s), q)].tag.field
             d == DepthAt(Tokens(s), q)
             t == Tokens(s)[q]
  <1>5. Defect(Tokens(s), Len(s), q) =
          IF q = Len(s) THEN IF d > 0 THEN [err |-> "UnterminatedGroup", at |-> q] ELSE NoDefect
          ELSE IF t.err # None THEN [err |-> t.err, at |-> t.at]
          ELSE IF t.tag.wire = SGroup /\ d >= kMaxGroupDepth THEN [err |-> "GroupTooDeep", at |-> t.next]
          ELSE IF t.tag.wire # EGroup THEN NoDefect
          ELSE IF d <= 0 THEN [err |-> "UnexpectedEndGroup", at |-> t.next]
          ELSE IF open # t.tag.field THEN [err |-> "EndGroupMismatch", at |-> q]
          ELSE NoDefect
    BY DEF Defect
  <1>6. d = Len(st) /\ t = Token(s, q) /\ (st # <<>> => open = Last(st))
    BY <1>1, <1>2, <1>4
  <1> HIDE DEF open, d, t
  <1> QED
    BY <1>3, <1>5, <1>6

\* The token at a position whose tag was read.
LEMMA TokenOf ==
    ASSUME NEW s, NEW q, read_tag(s, q).err = None
    PROVE  LET t == read_tag(s, q)
               v == SkipLeaf(s, t.next, t.val.wire)
               k == Token(s, q)
           IN  /\ k.tag = t.val /\ k.at = t.next
               /\ IsLeaf(t.val.wire) => k.err = v.err /\ k.next = v.next
               /\ ~IsLeaf(t.val.wire) => k.err = None /\ k.next = t.next
  BY DEF Token

\* Reading the tag fails where the token is defective.
LEMMA TagError ==
    ASSUME NEW s, NEW q, read_tag(s, q).err # None
    PROVE  Token(s, q).err = read_tag(s, q).err /\ Token(s, q).at = q
  BY DEF Token

\* What the decode knows between two tokens, with the cursor at c and the groups st open.
Knows(s, c, st) ==
    /\ s \in Seq(Byte) /\ c \in 0 .. Len(s)
    /\ st \in Seq(Nat) /\ Len(st) <= kMaxGroupDepth
    /\ Clean(s, c) /\ StackIs(s, c, st)

\* The result of a decode that stops is its verdict.
Reports(s, r) ==
    /\ r.offset \in 0 .. Len(s) /\ r # Running
    /\ r.wire = Verdict(s).err /\ r.offset = Verdict(s).at

\* A defect at the cursor, where there was none before it, is the verdict.
LEMMA DefectReported ==
    ASSUME NEW s, NEW c, NEW st, Knows(s, c, st), NEW err, NEW at \in 0 .. Len(s),
           Defect(Tokens(s), Len(s), c) = [err |-> err, at |-> at],
           err # None, err # "running"
    PROVE  Reports(s, Failed(err, at))
  <1>1. Verdict(s) = [err |-> err, at |-> at]
    BY VerdictAt DEF Knows, NoDefect
  <1>2. Failed(err, at) # Running
    BY DEF Failed, Running
  <1> QED
    BY <1>1, <1>2 DEF Reports, Failed

\* Reading the value of a field, of the loop or of a scan: the decode goes on behind the
\* token, or stops with what is wrong with the token.
LEMMA ReadValueStep ==
    ASSUME Knows(input, rp_c, scan), Idle, pending \in BOOLEAN,
           read_tag(input, rp_c).err = None,
           ReadValue(read_tag(input, rp_c).val, read_tag(input, rp_c).next)
    PROVE  /\ rp_c' \in read_tag(input, rp_c).next .. Len(input)
           /\ scan' \in Seq(Nat) /\ Len(scan') <= kMaxGroupDepth
           /\ pending' \in BOOLEAN
           /\ pending' => scan = <<>> /\ scan' = <<>> /\ IsLeaf(read_tag(input, rp_c).val.wire)
           /\ \/ status' = Running /\ Knows(input, rp_c', scan')
              \/ Reports(input, status')
  <1> DEFINE t == read_tag(input, rp_c)
             p == t.next
             k == Token(input, rp_c)
             v == SkipLeaf(input, p, t.val.wire)
  <1>1. /\ input \in Seq(Byte) /\ rp_c \in 0 .. Len(input) /\ Len(input) \in Nat /\ rp_c \in Nat
        /\ scan \in Seq(Nat) /\ Len(scan) <= kMaxGroupDepth /\ Len(scan) \in Nat
        /\ Clean(input, rp_c) /\ StackIs(input, rp_c, scan) /\ rp_c \in Boundaries(input)
        /\ kMaxGroupDepth \in Nat
    BY DecodeAssumption DEF Knows, Clean
  <1>2. p \in (rp_c + 1) .. Len(input) /\ IsTag(t.val) /\ rp_c < Len(input)
    BY <1>1, TagFacts
  <1>3. p \in 0 .. Len(input) /\ rp_c # Len(input)
    BY <1>1, <1>2
  <1>4. /\ k.tag = t.val /\ k.at = p
        /\ IsLeaf(t.val.wire) => k.err = v.err /\ k.next = v.next
        /\ ~IsLeaf(t.val.wire) => k.err = None /\ k.next = p
    BY TokenOf
  <1> DEFINE D == Defect(Tokens(input), Len(input), rp_c)
  <1>5. D = IF k.err # None THEN [err |-> k.err, at |-> k.at]
            ELSE IF k.tag.wire = SGroup /\ Len(scan) >= kMaxGroupDepth
                 THEN [err |-> "GroupTooDeep", at |-> k.next]
            ELSE IF k.tag.wire # EGroup THEN NoDefect
            ELSE IF scan = <<>> THEN [err |-> "UnexpectedEndGroup", at |-> k.next]
            ELSE IF Last(scan) # k.tag.field THEN [err |-> "EndGroupMismatch", at |-> rp_c]
            ELSE NoDefect
    BY <1>1, <1>3, DefectOf
  <1>6. status = Running /\ pending = FALSE
    BY DEF Idle
  <1>7. (k.err = None /\ D = NoDefect) => Clean(input, k.next) /\ k.next \in 0 .. Len(input)
    <2>1. k.err = None => k.next \in (rp_c + 1) .. Len(input)
      BY <1>1, TokenFacts
    <2> QED BY <1>1, <2>1, CleanStep
  <1>8. CASE t.val.wire = SGroup /\ EnterGroup(t.val.field, p)
    <2>1. ~IsLeaf(t.val.wire) /\ t.val.wire # EGroup
      BY <1>8 DEF IsLeaf, SGroup, EGroup, Varint, I64, I32, LenType
    <2>2. k.err = None /\ k.next = p /\ k.tag.wire = SGroup /\ k.tag.wire # EGroup
      BY <1>4, <1>8, <2>1
    <2>3. CASE TooDeep(Len(scan) + 1)
      <3>1. D = [err |-> "GroupTooDeep", at |-> p]
        BY <1>1, <1>5, <2>2, <2>3 DEF TooDeep
      <3>2. status' = Failed("GroupTooDeep", p) /\ rp_c' = p /\ scan' = scan /\ pending' = pending
        BY <1>8, <2>3 DEF EnterGroup, FailWith
      <3>3. Reports(input, Failed("GroupTooDeep", p))
        <4> HIDE DEF p
        <4> QED BY <1>3, <3>1, DefectReported DEF None
      <3>4. rp_c' \in p .. Len(input)
        BY <1>2, <1>1, <3>2
      <3> QED BY <1>1, <1>6, <3>2, <3>3, <3>4
    <2>4. CASE ~TooDeep(Len(scan) + 1)
      <3>1. /\ scan' = Append(scan, t.val.field) /\ rp_c' = p /\ pending' = pending
            /\ status' = status
        BY <1>8, <2>4 DEF EnterGroup
      <3>2. Len(scan) + 1 <= kMaxGroupDepth
        BY <1>1, <2>4 DEF TooDeep
      <3>3. D = NoDefect
        BY <1>1, <1>5, <2>2, <3>2
      <3>4. Clean(input, p) /\ p \in 0 .. Len(input)
        BY <1>7, <2>2, <3>3
      <3>5. t.val.field \in Nat
        BY <1>2 DEF IsTag
      <3>6. StackIs(input, p, scan')
        <4>1. StackIs(input, k.next, Append(scan, k.tag.field))
          BY <1>1, <1>4, <2>2, <3>5, StackOverStart
        <4> QED BY <1>4, <2>2, <3>1, <4>1
      <3>7. scan' \in Seq(Nat) /\ Len(scan') <= kMaxGroupDepth
        BY <1>1, <3>1, <3>2, <3>5, Appended
      <3>8. Knows(input, rp_c', scan')
        BY <1>1, <3>1, <3>4, <3>6, <3>7 DEF Knows
      <3>9. rp_c' \in p .. Len(input)
        BY <1>1, <1>2, <3>1
      <3> QED BY <1>6, <3>1, <3>7, <3>8, <3>9
    <2> QED BY <2>3, <2>4
  <1>9. CASE IsLeaf(t.val.wire) /\ ReadLeaf(t.val.wire, p)
    <2>1. t.val.wire # EGroup /\ t.val.wire # SGroup
      BY <1>9 DEF IsLeaf, SGroup, EGroup, Varint, I64, I32, LenType
    <2>2. k.err = v.err /\ k.next = v.next /\ k.tag = t.val /\ k.at = p
      BY <1>4, <1>9
    <2>3. (v.err = None => v.next \in p .. Len(input)) /\ v.err # "running"
      BY <1>1, <1>3, <1>9, LeafFacts
    <2>4. CASE v.err # None
      <3>1. status' = Failed(v.err, p) /\ rp_c' = p /\ scan' = scan /\ pending' = pending
        BY <1>9, <2>4 DEF ReadLeaf, FailWith
      <3>2. D = [err |-> v.err, at |-> p]
        BY <1>5, <2>2, <2>4
      <3>3. Reports(input, Failed(v.err, p))
        <4> HIDE DEF p, v
        <4> QED BY <1>3, <2>3, <2>4, <3>2, DefectReported
      <3>4. rp_c' \in p .. Len(input)
        BY <1>1, <1>2, <3>1
      <3> QED BY <1>1, <1>6, <3>1, <3>3, <3>4
    <2>5. CASE v.err = None
      <3>1. /\ rp_c' = v.next /\ pending' = FieldComplete(Len(scan))
            /\ scan' = scan /\ status' = status
        BY <1>9, <2>5 DEF ReadLeaf, LeafEnd
      <3>2. D = NoDefect
        BY <1>5, <2>1, <2>2, <2>5
      <3>3. Clean(input, v.next) /\ v.next \in 0 .. Len(input)
        BY <1>7, <2>2, <2>5, <3>2
      <3>4. StackIs(input, v.next, scan)
        <4>1. StackIs(input, k.next, scan)
          BY <1>1, <2>1, <2>2, <2>5, StackOverLeaf
        <4> QED BY <2>2, <4>1
      <3>5. Knows(input, rp_c', scan')
        BY <1>1, <3>1, <3>3, <3>4 DEF Knows
      <3>6. pending' \in BOOLEAN /\ (pending' => scan = <<>>)
        <4>1. Len(scan) = 0 <=> scan = <<>>
          BY <1>1, EmptySeq
        <4> QED BY <3>1, <4>1 DEF FieldComplete
      <3> QED BY <1>1, <1>6, <1>9, <2>3, <2>5, <3>1, <3>5, <3>6
    <2> QED BY <2>4, <2>5
  <1> QED
    BY <1>8, <1>9 DEF ReadValue

\* An error of the tag reader is what is wrong at the cursor.
LEMMA TagErrorReported ==
    ASSUME NEW s, NEW c, NEW st, Knows(s, c, st), c < Len(s), read_tag(s, c).err # None
    PROVE  Reports(s, Failed(read_tag(s, c).err, c))
  <1> DEFINE e == read_tag(s, c).err
  <1>1. /\ s \in Seq(Byte) /\ Len(s) \in Nat /\ c \in Nat /\ c \in Boundaries(s)
        /\ st \in Seq(Nat) /\ StackIs(s, c, st) /\ c # Len(s) /\ c \in 0 .. Len(s)
    BY DEF Knows, Clean
  <1>2. Token(s, c).err = e /\ Token(s, c).at = c /\ e # None
    BY TagError
  <1>3. e # "running"
    BY <1>1, TagFacts
  <1> HIDE DEF e
  <1>4. Defect(Tokens(s), Len(s), c) = [err |-> e, at |-> c]
    BY <1>1, <1>2, DefectOf
  <1>5. Reports(s, Failed(e, c))
    BY <1>1, <1>2, <1>3, <1>4, DefectReported
  <1> QED
    BY <1>5 DEF e

\* The parts of the invariant that a step inside the loops must keep.
LEMMA LoopStep ==
    ASSUME DecodeInv, input' = input, out' = out,
           rp_c' \in value_start' .. Len(input), value_start' \in Nat, egroup_tag' \in Nat,
           tag' \in Tag,
           scan' \in Seq(Nat), Len(scan') <= kMaxGroupDepth,
           pending' \in BOOLEAN, pending' => scan' = <<>>,
           pending' /\ tag'.wire = SGroup => value_start' <= egroup_tag' /\ egroup_tag' <= rp_c',
           (status' = Running /\ Knows(input, rp_c', scan')) \/ Reports(input, status')
    PROVE  DecodeInv'
  <1>1. input \in Seq(Byte) /\ Len(input) \in Nat
    BY DEF DecodeInv, CursorsInside
  <1>2. status'.offset \in 0 .. Len(input)
    BY <1>1 DEF Reports, Running
  <1>3. rp_c' \in 0 .. Len(input) /\ value_start' \in 0 .. rp_c'
    BY <1>1
  <1>4. CursorsInside'
    BY <1>1, <1>2, <1>3 DEF CursorsInside
  <1>5. GroupEndsInside'
    BY DEF GroupEndsInside
  <1>6. SpansInside'
    BY DEF DecodeInv, SpansInside
  <1>7. BetweenTokens'
    BY DEF BetweenTokens, Knows, Reports
  <1>8. VerdictIsFirstDefect'
    BY DEF VerdictIsFirstDefect, Reports
  <1> QED
    BY <1>4, <1>5, <1>6, <1>7, <1>8 DEF DecodeInv

\* One turn of the field loop keeps the invariant.
LEMMA NextFieldKeeps ==
    ASSUME DecodeInv, NextField
    PROVE  DecodeInv'
  <1> DEFINE t == read_tag_or_end(input, rp_c)
             r == read_tag(input, rp_c)
  <1>1. /\ input \in Seq(Byte) /\ Len(input) \in Nat /\ rp_c \in 0 .. Len(input) /\ rp_c \in Nat
        /\ scan \in Seq(Nat) /\ value_start \in 0 .. rp_c /\ value_start \in Nat
        /\ egroup_tag \in Nat /\ tag \in Tag /\ pending \in BOOLEAN
        /\ Len(scan) <= kMaxGroupDepth
    BY DEF DecodeInv, CursorsInside
  <1>2. Idle /\ scan = <<>> /\ status = Running /\ pending = FALSE
    BY DEF NextField, Idle
  <1>3. Knows(input, rp_c, scan)
    BY <1>1, <1>2 DEF DecodeInv, BetweenTokens, Knows
  <1>4. input' = input /\ egroup_tag' = egroup_tag /\ out' = out
    BY DEF NextField
  <1>5. rp_c < Len(input) => t = r
    BY <1>1, TagReadersAgree
  <1>6. rp_c >= Len(input) => t = Err("End")
    BY DEF read_tag_or_end
  <1>7. CASE t.err = "End" /\ status' = Success /\ UNCHANGED <<rp_c, tag, value_start, scan, pending>>
    <2>1. rp_c = Len(input)
      <3>1. r.err # "End"
        BY <1>1, TagFacts
      <3> HIDE DEF t, r
      <3> QED BY <1>1, <1>5, <1>7, <3>1
    <2>2. Verdict(input) = NoDefect
      <3>1. Clean(input, Len(input)) /\ StackIs(input, Len(input), scan) /\ Len(input) \in Boundaries(input)
        BY <1>3, <2>1 DEF Knows, Clean
      <3>2. Defect(Tokens(input), Len(input), Len(input)) = NoDefect
        BY <1>1, <1>2, <3>1, DefectOf
      <3> QED BY <1>1, <3>1, <3>2, VerdictAtEnd
    <2>3. Reports(input, status')
      BY <1>1, <1>7, <2>2 DEF Reports, Success, Running, NoDefect, None
    <2>4. rp_c' \in value_start' .. Len(input)
      BY <1>1, <1>7
    <2> QED BY <1>1, <1>2, <1>4, <1>7, <2>3, <2>4, LoopStep
  <1>8. CASE t.err \notin {None, "End"} /\ FailWith(t.err, rp_c) /\ UNCHANGED <<tag, value_start>>
    <2>1. rp_c < Len(input)
      BY <1>1, <1>6, <1>8 DEF Err
    <2>2. t.err = r.err
      BY <1>5, <2>1
    <2>3. Reports(input, Failed(t.err, rp_c))
      BY <1>3, <1>8, <2>1, <2>2, TagErrorReported
    <2>4. status' = Failed(t.err, rp_c) /\ rp_c' = rp_c /\ scan' = scan /\ pending' = pending
      BY <1>8 DEF FailWith
    <2>5. rp_c' \in value_start' .. Len(input)
      BY <1>1, <1>8, <2>4
    <2> HIDE DEF t
    <2> QED BY <1>1, <1>2, <1>4, <1>8, <2>3, <2>4, <2>5, LoopStep
  <1>9. CASE /\ t.err = None /\ tag' = t.val /\ value_start' = t.next
             /\ IF t.val.wire = EGroup THEN FailWith("UnexpectedEndGroup", t.next)
                ELSE ReadValue(t.val, t.next)
    <2>1. rp_c < Len(input)
      BY <1>1, <1>6, <1>9 DEF Err, None
    <2>2. t = r
      BY <1>5, <2>1
    <2>3. r.err = None /\ tag' = r.val /\ value_start' = r.next
      BY <1>9, <2>2
    <2>4. r.next \in (rp_c + 1) .. Len(input) /\ IsTag(r.val)
      BY <1>1, <2>3, TagFacts
    <2>5. tag' \in Tag /\ value_start' \in Nat
      <3>1. r.val = [field |-> r.val.field, wire |-> r.val.wire] /\ r.val.field \in Nat /\ r.val.wire \in 0 .. 5
        BY <2>4 DEF IsTag
      <3>2. r.val \in Tag
        BY <3>1 DEF Tag
      <3> QED BY <1>1, <2>3, <2>4, <3>2
    <2>6. CASE r.val.wire = EGroup /\ FailWith("UnexpectedEndGroup", r.next)
      <3>1. ~IsLeaf(r.val.wire) /\ r.val.wire # SGroup
        BY <2>6 DEF IsLeaf, SGroup, EGroup, Varint, I64, I32, LenType
      <3>2. Token(input, rp_c).err = None /\ Token(input, rp_c).next = r.next /\ Token(input, rp_c).tag = r.val
        BY <2>3, <3>1, TokenOf
      <3>3. Defect(Tokens(input), Len(input), rp_c) = [err |-> "UnexpectedEndGroup", at |-> r.next]
        <4>1. rp_c \in Boundaries(input) /\ StackIs(input, rp_c, scan) /\ rp_c # Len(input)
          BY <1>1, <1>3, <2>1 DEF Knows, Clean
        <4> QED BY <1>1, <1>2, <2>6, <3>1, <3>2, <4>1, DefectOf
      <3>4. r.next \in 0 .. Len(input)
        BY <1>1, <2>4
      <3>5. Reports(input, Failed("UnexpectedEndGroup", r.next))
        <4> HIDE DEF r
        <4> QED BY <1>3, <3>3, <3>4, DefectReported DEF None
      <3>6. /\ status' = Failed("UnexpectedEndGroup", r.next) /\ rp_c' = r.next
            /\ scan' = scan /\ pending' = pending
        BY <2>6 DEF FailWith
      <3>7. rp_c' \in value_start' .. Len(input)
        BY <1>1, <2>3, <2>4, <3>6
      <3> HIDE DEF t, r
      <3> QED BY <1>1, <1>2, <1>4, <2>5, <3>5, <3>6, <3>7, LoopStep
    <2>7. CASE ReadValue(r.val, r.next)
      <3>1. /\ rp_c' \in r.next .. Len(input)
            /\ scan' \in Seq(Nat) /\ Len(scan') <= kMaxGroupDepth
            /\ pending' \in BOOLEAN
            /\ pending' => scan' = <<>> /\ IsLeaf(r.val.wire)
            /\ \/ status' = Running /\ Knows(input, rp_c', scan')
               \/ Reports(input, status')
        BY <1>1, <1>2, <1>3, <2>3, <2>7, ReadValueStep
      <3>2. ~(pending' /\ tag'.wire = SGroup)
        BY <2>3, <3>1 DEF IsLeaf, SGroup, Varint, I64, I32, LenType
      <3> HIDE DEF t, r
      <3> QED BY <1>1, <1>4, <2>3, <2>5, <3>1, <3>2, LoopStep
    <2> QED BY <1>9, <2>2, <2>6, <2>7
  <1> QED
    BY <1>7, <1>8, <1>9 DEF NextField

\* One turn of the loop of scan_group_end keeps the invariant.
LEMMA ScanGroupKeeps ==
    ASSUME DecodeInv, ScanGroup
    PROVE  DecodeInv'
  <1> DEFINE t == read_tag(input, rp_c)
  <1>1. /\ input \in Seq(Byte) /\ Len(input) \in Nat /\ rp_c \in 0 .. Len(input) /\ rp_c \in Nat
        /\ scan \in Seq(Nat) /\ value_start \in 0 .. rp_c /\ value_start \in Nat
        /\ egroup_tag \in Nat /\ tag \in Tag /\ pending \in BOOLEAN
        /\ Len(scan) <= kMaxGroupDepth /\ kMaxGroupDepth \in Nat
    BY DecodeAssumption DEF DecodeInv, CursorsInside
  <1>2. Idle /\ scan # <<>> /\ status = Running /\ pending = FALSE
    BY DEF ScanGroup, Idle
  <1>3. Knows(input, rp_c, scan)
    BY <1>1, <1>2 DEF DecodeInv, BetweenTokens, Knows
  <1>4. input' = input /\ tag' = tag /\ value_start' = value_start /\ out' = out
    BY DEF ScanGroup
  <1>5. rp_c \in Boundaries(input) /\ StackIs(input, rp_c, scan)
    BY <1>3 DEF Knows, Clean
  \* A decode that stops reports what it stops with.
  <1>6. ASSUME NEW err, FailWith(err, rp_c), egroup_tag' = egroup_tag, Reports(input, Failed(err, rp_c))
        PROVE  DecodeInv'
    <2>1. status' = Failed(err, rp_c) /\ rp_c' = rp_c /\ scan' = scan /\ pending' = pending
      BY <1>6 DEF FailWith
    <2>2. rp_c' \in value_start' .. Len(input)
      BY <1>1, <1>4, <2>1
    <2> QED BY <1>1, <1>2, <1>4, <1>6, <2>1, <2>2, LoopStep
  <1>7. CASE rp_c >= Len(input) /\ FailWith("UnterminatedGroup", rp_c) /\ egroup_tag' = egroup_tag
    <2>1. rp_c = Len(input)
      BY <1>1, <1>7
    <2>2. Defect(Tokens(input), Len(input), rp_c) = [err |-> "UnterminatedGroup", at |-> rp_c]
      BY <1>1, <1>2, <1>5, <2>1, DefectOf
    <2>3. Reports(input, Failed("UnterminatedGroup", rp_c))
      BY <1>1, <1>3, <2>2, DefectReported DEF None
    <2> QED BY <1>6, <1>7, <2>3
  <1>8. CASE rp_c < Len(input) /\ t.err # None /\ FailWith(t.err, rp_c) /\ egroup_tag' = egroup_tag
    <2>1. Reports(input, Failed(t.err, rp_c))
      BY <1>3, <1>8, TagErrorReported
    <2> QED BY <1>6, <1>8, <2>1
  <1>9. CASE /\ rp_c < Len(input) /\ t.err = None /\ t.val.wire = EGroup
             /\ IF Closes(t.val.field)
                THEN /\ scan' = Front(scan)
                     /\ rp_c' = t.next
                     /\ egroup_tag' = EndOfBody(rp_c, t.next)
                     /\ pending' = FieldComplete(Len(scan) - 1)
                     /\ UNCHANGED status
                ELSE FailWith("EndGroupMismatch", rp_c) /\ UNCHANGED egroup_tag
    <2> DEFINE k == Token(input, rp_c)
    <2>1. t.next \in (rp_c + 1) .. Len(input) /\ IsTag(t.val)
      BY <1>1, <1>9, TagFacts
    <2>2. ~IsLeaf(t.val.wire) /\ t.val.wire # SGroup
      BY <1>9 DEF IsLeaf, SGroup, EGroup, Varint, I64, I32, LenType
    <2>3. k.err = None /\ k.next = t.next /\ k.tag = t.val /\ k.tag.wire = EGroup /\ k.tag.wire # SGroup
      BY <1>9, <2>2, TokenOf
    <2>4. Defect(Tokens(input), Len(input), rp_c) =
            IF Last(scan) # k.tag.field THEN [err |-> "EndGroupMismatch", at |-> rp_c] ELSE NoDefect
      <3>1. rp_c # Len(input)
        BY <1>1, <1>9
      <3> QED BY <1>1, <1>2, <1>5, <2>3, <3>1, DefectOf
    <2>5. CASE Closes(t.val.field)
      <3>1. /\ scan' = Front(scan) /\ rp_c' = t.next /\ egroup_tag' = rp_c
            /\ pending' = FieldComplete(Len(scan) - 1) /\ status' = Running
        BY <1>2, <1>9, <2>5 DEF EndOfBody
      <3>2. Defect(Tokens(input), Len(input), rp_c) = NoDefect
        BY <2>3, <2>4, <2>5 DEF Closes
      <3>3. Clean(input, t.next)
        <4>1. Clean(input, rp_c)
          BY <1>3 DEF Knows
        <4> QED BY <1>1, <2>3, <3>2, <4>1, CleanStep
      <3>4. StackIs(input, t.next, Front(scan))
        BY <1>1, <1>2, <1>5, <2>3, StackOverEnd
      <3>5. /\ Front(scan) \in Seq(Nat) /\ Len(Front(scan)) = Len(scan) - 1
            /\ Len(scan) \in Nat /\ Len(scan) > 0
        BY <1>1, <1>2, FrontFacts
      <3>6. pending' \in BOOLEAN /\ (pending' => scan' = <<>>)
        <4>1. Len(Front(scan)) = 0 <=> Front(scan) = <<>>
          BY <3>5, EmptySeq
        <4> QED BY <3>1, <3>5, <4>1 DEF FieldComplete
      <3>7. Len(scan') <= kMaxGroupDepth /\ scan' \in Seq(Nat)
        BY <1>1, <3>1, <3>5
      <3>8. Knows(input, rp_c', scan')
        <4>1. t.next \in 0 .. Len(input)
          BY <1>1, <2>1
        <4> QED BY <1>1, <3>1, <3>3, <3>4, <3>7, <4>1 DEF Knows
      <3>9. rp_c' \in value_start' .. Len(input) /\ value_start' <= egroup_tag' /\ egroup_tag' <= rp_c'
        BY <1>1, <1>4, <2>1, <3>1
      <3> HIDE DEF t, k
      <3> QED BY <1>1, <1>4, <3>1, <3>6, <3>7, <3>8, <3>9, LoopStep
    <2>6. CASE ~Closes(t.val.field)
      <3>1. Defect(Tokens(input), Len(input), rp_c) = [err |-> "EndGroupMismatch", at |-> rp_c]
        BY <2>3, <2>4, <2>6 DEF Closes
      <3>2. Reports(input, Failed("EndGroupMismatch", rp_c))
        BY <1>1, <1>3, <3>1, DefectReported DEF None
      <3> QED BY <1>6, <1>9, <2>6, <3>2
    <2> QED BY <2>5, <2>6
  <1>10. CASE rp_c < Len(input) /\ t.err = None /\ ReadValue(t.val, t.next) /\ egroup_tag' = egroup_tag
    <2>1. /\ rp_c' \in t.next .. Len(input)
          /\ scan' \in Seq(Nat) /\ Len(scan') <= kMaxGroupDepth
          /\ pending' \in BOOLEAN
          /\ pending' => scan = <<>>
          /\ \/ status' = Running /\ Knows(input, rp_c', scan')
             \/ Reports(input, status')
      BY <1>1, <1>2, <1>3, <1>10, ReadValueStep
    <2>2. t.next \in (rp_c + 1) .. Len(input)
      BY <1>1, <1>10, TagFacts
    <2>3. ~pending'
      BY <1>2, <2>1
    <2> HIDE DEF t
    <2>4. rp_c' \in value_start' .. Len(input)
      BY <1>1, <1>4, <2>1, <2>2
    <2> QED BY <1>1, <1>4, <1>10, <2>1, <2>3, <2>4, LoopStep
  <1> QED
    BY <1>7, <1>8, <1>9, <1>10 DEF ScanGroup

\* A callback keeps the invariant: its span lies inside the buffer.
LEMMA DispatchKeeps ==
    ASSUME DecodeInv, Dispatch
    PROVE  DecodeInv'
  <1>1. /\ input \in Seq(Byte) /\ Len(input) \in Nat /\ rp_c \in 0 .. Len(input) /\ rp_c \in Nat
        /\ value_start \in 0 .. rp_c /\ egroup_tag \in Nat /\ tag \in Tag
        /\ out \in Seq(Span)
    BY DEF DecodeInv, CursorsInside, SpansInside
  <1>2. /\ status = Running /\ pending /\ out' = Append(out, Item) /\ pending' = FALSE
        /\ UNCHANGED <<input, rp_c, tag, value_start, scan, egroup_tag>>
        /\ status' \in {Running, Aborted}
    BY DEF Dispatch
  <1>3. Kind \in {"unknown", "group", "skipped"} /\ (Kind = "group" => tag.wire = SGroup)
    BY DEF Kind
  <1> DEFINE hi == IF Kind = "group" THEN egroup_tag ELSE rp_c
  <1>4. hi \in Nat /\ value_start <= hi /\ hi <= rp_c
    BY <1>1, <1>2, <1>3 DEF DecodeInv, GroupEndsInside
  <1>5. Item = [kind |-> Kind, tag |-> tag, lo |-> value_start, hi |-> hi, next |-> rp_c]
    BY DEF Item
  <1> HIDE DEF hi
  <1>6. Item \in Span /\ Item.lo <= Item.hi /\ Item.hi <= Item.next /\ Item.next <= Len(input)
    BY <1>1, <1>3, <1>4, <1>5 DEF Span
  <1>7. SpansInside'
    <2>1. /\ out' \in Seq(Span) /\ Len(out') = Len(out) + 1 /\ out'[Len(out) + 1] = Item
          /\ \A i \in 1 .. Len(out) : out'[i] = out[i]
      BY <1>1, <1>2, <1>6, Appended
    <2>2. ASSUME NEW i \in 1 .. Len(out')
          PROVE  /\ out'[i].lo <= out'[i].hi
                 /\ out'[i].hi <= out'[i].next /\ out'[i].next <= Len(input)
      <3>1. i = Len(out) + 1 \/ i \in 1 .. Len(out)
        BY <1>1, <2>1
      <3> QED BY <1>6, <2>1, <3>1 DEF DecodeInv, SpansInside
    <2> QED BY <1>2, <2>1, <2>2 DEF SpansInside
  <1>8. CursorsInside'
    <2>1. status'.offset \in 0 .. Len(input)
      BY <1>1, <1>2 DEF Running, Aborted
    <2> QED BY <1>2, <2>1 DEF DecodeInv, CursorsInside
  <1>9. GroupEndsInside'
    BY <1>2 DEF GroupEndsInside
  <1>10. BetweenTokens'
    <2>1. Clean(input, rp_c) /\ StackIs(input, rp_c, scan)
      BY <1>2 DEF DecodeInv, BetweenTokens
    <2> QED BY <1>2, <2>1 DEF BetweenTokens
  <1>11. VerdictIsFirstDefect'
    BY <1>2 DEF VerdictIsFirstDefect
  <1> QED
    BY <1>7, <1>8, <1>9, <1>10, <1>11 DEF DecodeInv

\* At the beginning of a buffer nothing is open and nothing was wrong.
LEMMA KnowsAtStart ==
    ASSUME NEW s \in Seq(Byte)
    PROVE  Knows(s, 0, <<>>)
  <1>1. Len(s) \in Nat /\ kMaxGroupDepth \in Nat /\ Len(<<>>) = 0 /\ <<>> \in Seq(Nat)
    BY DecodeAssumption
  <1>2. Clean(s, 0)
    <2>1. 0 \in Boundaries(s) /\ Boundaries(s) \subseteq 0 .. Len(s)
      BY BoundaryFacts
    <2>2. \A q \in Boundaries(s) : ~(q < 0)
      BY <1>1, <2>1
    <2> QED BY <2>1, <2>2 DEF Clean
  <1>3. StackIs(s, 0, <<>>)
    <2>1. DepthAt(Tokens(s), 0) = 0
      BY DepthAtStart
    <2> QED BY <1>1, <2>1 DEF StackIs
  <1>4. 0 \in 0 .. Len(s) /\ Len(<<>>) <= kMaxGroupDepth
    BY <1>1
  <1> QED
    BY <1>1, <1>2, <1>3, <1>4 DEF Knows

\* A decode begins before the first token, with no group open.
LEMMA InitDecode ==
    ASSUME WireInit
    PROVE  DecodeInv
  <1>1. input \in Seq(Byte) /\ kMaxGroupDepth \in Nat
    BY DecodeAssumption DEF WireInit
  <1>2. Len(input) \in Nat /\ Len(<<>>) = 0 /\ scan \in Seq(Nat) /\ out \in Seq(Span)
    BY <1>1 DEF WireInit
  <1>3. CursorsInside
    <2>1. tag \in Tag
      BY DEF WireInit, Tag, Varint
    <2>2. status.offset = 0
      BY DEF WireInit, Running
    <2>3. /\ rp_c = 0 /\ value_start = 0 /\ egroup_tag = 0 /\ pending = FALSE
          /\ scan = <<>> /\ Len(scan) = 0
      BY <1>2 DEF WireInit
    <2>4. rp_c \in 0 .. Len(input) /\ value_start \in 0 .. rp_c /\ 0 \in 0 .. Len(input)
      BY <1>2, <2>3
    <2>5. Len(scan) <= kMaxGroupDepth
      BY <1>1, <2>3
    <2> QED BY <1>1, <1>2, <2>1, <2>2, <2>3, <2>4, <2>5 DEF CursorsInside
  <1>4. GroupEndsInside /\ SpansInside /\ VerdictIsFirstDefect
    BY <1>2 DEF WireInit, GroupEndsInside, SpansInside, VerdictIsFirstDefect
  <1>5. BetweenTokens
    BY <1>1, KnowsAtStart DEF WireInit, BetweenTokens, Knows
  <1> QED
    BY <1>3, <1>4, <1>5 DEF DecodeInv

\* The invariant holds in every state of a decode.
THEOREM DecodeInvariant == WireSpec => []DecodeInv
  <1>1. WireInit => DecodeInv
    BY InitDecode
  <1>2. DecodeInv /\ [WireNext]_wire_vars => DecodeInv'
    <2> SUFFICES ASSUME DecodeInv, [WireNext]_wire_vars PROVE DecodeInv'
      OBVIOUS
    <2>1. CASE UNCHANGED wire_vars
      BY <2>1 DEF wire_vars, DecodeInv, CursorsInside, GroupEndsInside, SpansInside, BetweenTokens,
                  VerdictIsFirstDefect
    <2> QED
      BY <2>1, NextFieldKeeps, ScanGroupKeeps, DispatchKeeps DEF WireNext
  <1> QED
    BY <1>1, <1>2, PTL DEF WireSpec

\* The readers are safe on any bytes: the cursor, the position of an error and the spans
\* given to the callbacks of a generated decode() stay inside the buffer, skip_value and
\* scan_group_end within their depth limit, and read_varint inside the 64-bit word.
THEOREM ReadersSafe == WireSpec => []ReadersAreSafe
  <1>1. DecodeInv => ReadersAreSafe
    <2> SUFFICES ASSUME DecodeInv PROVE ReadersAreSafe
      OBVIOUS
    <2>1. /\ input \in Seq(Byte) /\ Len(input) \in Nat /\ rp_c \in 0 .. Len(input) /\ rp_c \in Nat
          /\ value_start \in 0 .. rp_c /\ status.offset \in 0 .. Len(input)
          /\ Len(scan) <= kMaxGroupDepth /\ out \in Seq(Span)
      BY DEF DecodeInv, CursorsInside, SpansInside
    <2>2. value_start <= rp_c /\ rp_c <= Len(input) /\ status.offset <= Len(input)
      BY <2>1
    <2>3. \A i \in DOMAIN out : /\ out[i].lo <= out[i].hi
                                /\ out[i].hi <= out[i].next /\ out[i].next <= Len(input)
      <3>1. DOMAIN out = 1 .. Len(out)
        BY <2>1
      <3> QED BY <3>1 DEF DecodeInv, SpansInside
    <2>4. LET v == read_varint(input, rp_c) IN v.err = None => v.val < WordSize
      BY <2>1, VarintFacts DEF None
    <2> QED BY <2>1, <2>2, <2>3, <2>4 DEF ReadersAreSafe
  <1> QED
    BY <1>1, DecodeInvariant, PTL

\* The recursive scan of skip_value and scan_group_end and the field loop around it accept
\* exactly the well-nested buffers within the depth limit, and report the first defect of
\* any other, at its position.
THEOREM VerdictIsExact == WireSpec => []VerdictIsFirstDefect
  <1>1. DecodeInv => VerdictIsFirstDefect
    BY DEF DecodeInv
  <1> QED
    BY <1>1, DecodeInvariant, PTL

-----------------------------------------------------------------------------
(* What a reader does with the bytes it consumes it does with a copy of them: *)
(* the body of a group can be read as a buffer of its own.                    *)

\* u is the part of s from lo to hi.
IsPart(u, s, lo, hi) ==
    /\ s \in Seq(Byte) /\ u \in Seq(Byte)
    /\ lo \in Nat /\ hi \in Nat /\ lo <= hi /\ hi <= Len(s)
    /\ Len(u) = hi - lo
    /\ \A i \in 1 .. (hi - lo) : u[i] = s[lo + i]

\* That is what SubSeq returns.
LEMMA SubSeqIsPart ==
    ASSUME NEW s \in Seq(Byte), NEW hi \in 0 .. Len(s), NEW lo \in 0 .. hi
    PROVE  IsPart(SubSeq(s, lo + 1, hi), s, lo, hi)
  <1> DEFINE u == SubSeq(s, lo + 1, hi)
             m == lo + 1
  <1>1. Len(s) \in Nat /\ lo \in Nat /\ hi \in Nat /\ lo <= hi /\ hi <= Len(s) /\ m \in Nat
    OBVIOUS
  <1>2. \A i \in m .. hi : s[i] \in Byte
    BY <1>1
  <1>3. u = SubSeq(s, m, hi)
    OBVIOUS
  <1>4. m = lo + 1
    OBVIOUS
  <1> HIDE DEF m, u
  <1>5. /\ SubSeq(s, m, hi) \in Seq(Byte)
        /\ Len(SubSeq(s, m, hi)) = IF m <= hi THEN hi - m + 1 ELSE 0
        /\ \A i \in 1 .. hi - m + 1 : SubSeq(s, m, hi)[i] = s[m + i - 1]
    BY <1>1, <1>2, SubSeqProperties
  <1>6. u \in Seq(Byte) /\ Len(u) = IF m <= hi THEN hi - m + 1 ELSE 0
    BY <1>3, <1>5
  <1>7. Len(u) = hi - lo
    BY <1>1, <1>4, <1>6
  <1>8. ASSUME NEW i \in 1 .. (hi - lo) PROVE u[i] = s[lo + i]
    <2>1. i \in 1 .. hi - m + 1 /\ m + i - 1 = lo + i
      BY <1>1, <1>4
    <2> QED BY <1>3, <1>5, <2>1
  <1>9. IsPart(u, s, lo, hi)
    BY <1>1, <1>6, <1>7, <1>8 DEF IsPart
  <1> QED
    BY <1>9 DEF u

\* read_varint reads the same value in every part of the buffer that holds the varint.
LEMMA VarintLocal ==
    ASSUME NEW s, NEW u, NEW lo, NEW hi, IsPart(u, s, lo, hi), NEW p \in lo .. hi,
           read_varint(s, p).err = None, read_varint(s, p).next <= hi
    PROVE  read_varint(u, p - lo) = Ok(read_varint(s, p).next - lo, read_varint(s, p).val)
  <1>1. /\ s \in Seq(Byte) /\ u \in Seq(Byte) /\ lo \in Nat /\ hi \in Nat /\ lo <= hi /\ hi <= Len(s)
        /\ Len(s) \in Nat /\ Len(u) = hi - lo /\ p \in Nat /\ p - lo \in Nat /\ VarintBytes \in Nat
        /\ Radix \in Nat
    BY WireAssumption DEF IsPart
  <1>2. PICK n \in 1 .. VarintBytes : IsVarint(s, p, n)
    BY DEF read_varint, Err, None
  <1>3. read_varint(s, p) = Ok(p + n, VarintValue(s, p, n))
    BY <1>1, <1>2, ReadsVarint
  <1>4. p + n <= hi /\ n \in Nat
    BY <1>1, <1>3 DEF Ok
  <1>5. ASSUME NEW i \in 1 .. n PROVE u[(p - lo) + i] = s[p + i]
    <2>1. (p - lo) + i \in 1 .. (hi - lo) /\ lo + ((p - lo) + i) = p + i
      BY <1>1, <1>4
    <2> QED BY <2>1 DEF IsPart
  <1>6. (p - lo) + n <= Len(u)
    BY <1>1, <1>4
  <1>7. IsVarint(u, p - lo, n)
    <2>1. n \in 1 .. n /\ \A i \in 1 .. (n - 1) : i \in 1 .. n
      BY <1>4
    <2> QED BY <1>2, <1>5, <1>6, <2>1 DEF IsVarint
  <1>8. VarintValue(u, p - lo, n) = VarintValue(s, p, n)
    <2>1. PICK g \in [0 .. n -> Nat] :
            /\ g[0] = 0 /\ \A i \in 1 .. n : g[i] = g[i - 1] + (s[p + i] % Radix) * Weight(i - 1)
            /\ VarintValue(s, p, n) = g[n]
      <3>1. p + n <= Len(s)
        BY <1>1, <1>4
      <3>2. s \in Seq(Byte) /\ p \in Nat /\ n \in Nat
        BY <1>1, <1>4
      <3> QED BY <3>1, <3>2, VarintRecursion
    <2>2. PICK h \in [0 .. n -> Nat] :
            /\ h[0] = 0
            /\ \A i \in 1 .. n : h[i] = h[i - 1] + (u[(p - lo) + i] % Radix) * Weight(i - 1)
            /\ VarintValue(u, p - lo, n) = h[n]
      <3> DEFINE m == p - lo
      <3>1. m \in Nat /\ m + n <= Len(u)
        BY <1>1, <1>6
      <3> HIDE DEF m
      <3>2. \E h \in [0 .. n -> Nat] :
              /\ h[0] = 0 /\ \A i \in 1 .. n : h[i] = h[i - 1] + (u[m + i] % Radix) * Weight(i - 1)
              /\ VarintValue(u, m, n) = h[n]
        BY <1>1, <1>4, <3>1, VarintRecursion
      <3> QED BY <3>2 DEF m
    <2> DEFINE T == {i \in 0 .. n : h[i] = g[i]}
    <2>3. 0 \in T
      BY <1>4, <2>1, <2>2
    <2>4. ASSUME NEW i \in 1 .. n, i - 1 \in T PROVE i \in T
      <3>1. i \in 0 .. n /\ h[i - 1] = g[i - 1] /\ u[(p - lo) + i] = s[p + i]
        BY <1>4, <1>5, <2>4
      <3>2. h[i] = g[i]
        BY <2>1, <2>2, <3>1
      <3> QED BY <3>1, <3>2
    <2>5. h[n] = g[n]
      <3> HIDE DEF T
      <3>1. \A i \in 0 .. n : i \in T
        BY <1>4, <2>3, <2>4, UpTo
      <3> QED BY <1>4, <3>1 DEF T
    <2> QED BY <2>1, <2>2, <2>5
  <1>9. read_varint(u, p - lo) = Ok((p - lo) + n, VarintValue(s, p, n))
    <2> DEFINE m == p - lo
    <2>1. m \in Nat /\ IsVarint(u, m, n) /\ VarintValue(u, m, n) = VarintValue(s, p, n)
      BY <1>1, <1>7, <1>8
    <2> HIDE DEF m
    <2>2. read_varint(u, m) = Ok(m + n, VarintValue(s, p, n))
      BY <1>1, <2>1, ReadsVarint
    <2> QED BY <2>2 DEF m
  <1>10. (p - lo) + n = (p + n) - lo
    BY <1>1, <1>4
  <1> QED
    BY <1>3, <1>9, <1>10 DEF Ok

\* And read_tag the same tag.
LEMMA TagLocal ==
    ASSUME NEW s, NEW u, NEW lo, NEW hi, IsPart(u, s, lo, hi), NEW p \in lo .. hi,
           read_tag(s, p).err = None, read_tag(s, p).next <= hi
    PROVE  read_tag(u, p - lo) = Ok(read_tag(s, p).next - lo, read_tag(s, p).val)
  <1> DEFINE t == read_tag(s, p)
             v == read_varint(s, p)
  <1>1. /\ s \in Seq(Byte) /\ u \in Seq(Byte) /\ lo \in Nat /\ hi \in Nat /\ lo <= hi /\ hi <= Len(s)
        /\ Len(s) \in Nat /\ Len(u) = hi - lo /\ p \in Nat /\ p - lo \in Nat
    BY DEF IsPart
  <1>2. t.next \in (p + 1) .. Len(s) /\ p < Len(s) /\ t.next <= hi
    BY <1>1, TagFacts
  <1>3. p - lo < Len(u) /\ (p - lo) + 1 \in 1 .. (hi - lo) /\ lo + ((p - lo) + 1) = p + 1
    <2> HIDE DEF t
    <2> QED BY <1>1, <1>2
  <1>4. u[(p - lo) + 1] = s[p + 1]
    BY <1>3 DEF IsPart
  <1>5. OneByteTag(u, p - lo) <=> OneByteTag(s, p)
    BY <1>4 DEF OneByteTag
  <1>6. CASE OneByteTag(s, p)
    <2>1. t = Ok(p + 1, TagOf(s[p + 1])) /\ read_tag(u, p - lo) = Ok((p - lo) + 1, TagOf(s[p + 1]))
      BY <1>2, <1>3, <1>4, <1>5, <1>6 DEF read_tag
    <2>2. (p - lo) + 1 = (p + 1) - lo
      BY <1>1
    <2> QED BY <2>1, <2>2 DEF Ok
  <1>7. CASE ~OneByteTag(s, p)
    <2>1. t = IF v.err # None THEN v ELSE CheckedTag(v.val, v.next)
      BY <1>7 DEF read_tag
    <2>2. t.err = None
      OBVIOUS
    <2>3. v.err = None /\ t = CheckedTag(v.val, v.next)
      <3> HIDE DEF t, v
      <3> QED BY <2>1, <2>2
    <2>4. t.next = v.next /\ t.val = TagOf(v.val) /\ CheckedTag(v.val, v.next - lo) = Ok(v.next - lo, TagOf(v.val))
      <3> HIDE DEF t, v
      <3> QED BY <2>2, <2>3 DEF CheckedTag, Ok, Err, None
    <2>5. read_varint(u, p - lo) = Ok(v.next - lo, v.val)
      BY <1>2, <2>3, <2>4, VarintLocal
    <2>6. read_tag(u, p - lo) = CheckedTag(v.val, v.next - lo)
      BY <1>5, <1>7, <2>5 DEF read_tag, Ok, None
    <2> QED BY <2>4, <2>6
  <1> QED
    BY <1>6, <1>7

\* And skip_value ends at the same byte.
LEMMA LeafLocal ==
    ASSUME NEW s, NEW u, NEW lo, NEW hi, IsPart(u, s, lo, hi), NEW p \in lo .. hi,
           NEW wire, IsLeaf(wire),
           SkipLeaf(s, p, wire).err = None, SkipLeaf(s, p, wire).next <= hi
    PROVE  /\ SkipLeaf(u, p - lo, wire).err = None
           /\ SkipLeaf(u, p - lo, wire).next = SkipLeaf(s, p, wire).next - lo
  <1>1. /\ s \in Seq(Byte) /\ u \in Seq(Byte) /\ lo \in Nat /\ hi \in Nat /\ lo <= hi /\ hi <= Len(s)
        /\ Len(s) \in Nat /\ Len(u) = hi - lo /\ p \in Nat /\ p - lo \in Nat
        /\ I32Bytes \in Nat /\ I64Bytes \in Nat
    BY WireAssumption DEF IsPart
  <1> DEFINE v == read_varint(s, p)
  <1>2. CASE wire = Varint
    <2>1. SkipLeaf(s, p, wire) = v /\ SkipLeaf(u, p - lo, wire) = read_varint(u, p - lo)
      BY <1>2 DEF SkipLeaf, Varint, I64, I32, LenType
    <2>2. read_varint(u, p - lo) = Ok(v.next - lo, v.val)
      BY <2>1, VarintLocal
    <2> QED BY <2>1, <2>2 DEF Ok
  <1>3. ASSUME NEW width \in Nat, NEW err, err # None,
               read_fixed(s, p, width, err).err = None, read_fixed(s, p, width, err).next <= hi
        PROVE  /\ read_fixed(u, p - lo, width, err).err = None
               /\ read_fixed(u, p - lo, width, err).next = read_fixed(s, p, width, err).next - lo
    <2>1. read_fixed(s, p, width, err) = Ok(p + width, View(p, p + width))
      BY <1>3 DEF read_fixed, Err
    <2>2. p + width <= hi
      BY <1>3, <2>1 DEF Ok
    <2>3. ~(Len(u) - (p - lo) < width)
      BY <1>1, <2>2
    <2>4. read_fixed(u, p - lo, width, err) = Ok((p - lo) + width, View(p - lo, (p - lo) + width))
      BY <2>3 DEF read_fixed
    <2>5. (p - lo) + width = (p + width) - lo
      BY <1>1
    <2> QED BY <2>1, <2>4, <2>5 DEF Ok
  <1>4. CASE wire = I64
    <2>1. /\ SkipLeaf(s, p, wire) = read_fixed(s, p, I64Bytes, "TruncatedI64")
          /\ SkipLeaf(u, p - lo, wire) = read_fixed(u, p - lo, I64Bytes, "TruncatedI64")
      BY <1>4 DEF SkipLeaf, Varint, I64, I32, LenType, read_fixed64
    <2> QED BY <1>1, <1>3, <2>1 DEF None
  <1>5. CASE wire = I32
    <2>1. /\ SkipLeaf(s, p, wire) = read_fixed(s, p, I32Bytes, "TruncatedI32")
          /\ SkipLeaf(u, p - lo, wire) = read_fixed(u, p - lo, I32Bytes, "TruncatedI32")
      BY <1>5 DEF SkipLeaf, Varint, I64, I32, LenType, read_fixed32
    <2> QED BY <1>1, <1>3, <2>1 DEF None
  <1>6. CASE wire = LenType
    <2> DEFINE r == read_length_delimited(s, p)
    <2>1. SkipLeaf(s, p, wire) = r /\ SkipLeaf(u, p - lo, wire) = read_length_delimited(u, p - lo)
      BY <1>6 DEF SkipLeaf, Varint, I64, I32, LenType
    <2>2. r = IF v.err # None THEN v
              ELSE IF v.val > SizeTMax THEN Err("LengthTooLarge")
              ELSE IF LengthExceeds(v.val, Len(s) - v.next) THEN Err("LengthExceedsBuffer")
              ELSE Ok(v.next + v.val, View(v.next, v.next + v.val))
      BY DEF read_length_delimited
    <2>3. v.err = None => v.next \in (p + 1) .. Len(s) /\ v.val \in Nat
      BY <1>1, VarintFacts DEF None
    <2>4. r.err = None /\ r.next <= hi
      BY <2>1
    <2>5. v.err = None /\ ~(v.val > SizeTMax) /\ r.next = v.next + v.val
      <3> HIDE DEF v, r
      <3> QED BY <2>2, <2>4 DEF Ok, Err, None
    <2>6. v.next \in Nat /\ v.val \in Nat /\ v.next + v.val <= hi
      <3> HIDE DEF v, r
      <3> QED BY <1>1, <2>3, <2>4, <2>5
    <2>7. read_varint(u, p - lo) = Ok(v.next - lo, v.val)
      <3>1. v.next <= hi
        <4> HIDE DEF v, r
        <4> QED BY <1>1, <2>6
      <3> QED BY <2>5, <3>1, VarintLocal
    <2>8. ~LengthExceeds(v.val, Len(u) - (v.next - lo))
      <3> HIDE DEF v, r
      <3> QED BY <1>1, <2>6 DEF LengthExceeds
    <2>9. read_length_delimited(u, p - lo) =
            Ok((v.next - lo) + v.val, View(v.next - lo, (v.next - lo) + v.val))
      BY <2>5, <2>7, <2>8 DEF read_length_delimited, Ok, None
    <2>10. (v.next - lo) + v.val = (v.next + v.val) - lo
      <3> HIDE DEF v, r
      <3> QED BY <1>1, <2>6
    <2> QED BY <2>1, <2>5, <2>9, <2>10 DEF Ok
  <1> QED
    BY <1>2, <1>4, <1>5, <1>6 DEF IsLeaf

\* A token without a defect is read alike in every part of the buffer that holds it.
LEMMA TokenLocal ==
    ASSUME NEW s, NEW u, NEW lo, NEW hi, IsPart(u, s, lo, hi), NEW q \in lo .. hi,
           Token(s, q).err = None, Token(s, q).next <= hi
    PROVE  /\ Token(u, q - lo).err = None
           /\ Token(u, q - lo).next = Token(s, q).next - lo
           /\ Token(u, q - lo).tag = Token(s, q).tag
  <1> DEFINE t == read_tag(s, q)
             v == SkipLeaf(s, t.next, t.val.wire)
             k == Token(s, q)
  <1>1. /\ s \in Seq(Byte) /\ lo \in Nat /\ hi \in Nat /\ q \in Nat /\ Len(s) \in Nat /\ hi <= Len(s)
    BY DEF IsPart
  <1>2. t.err = None
    BY TagError
  <1>3. /\ k.tag = t.val
        /\ IsLeaf(t.val.wire) => k.err = v.err /\ k.next = v.next
        /\ ~IsLeaf(t.val.wire) => k.err = None /\ k.next = t.next
    BY <1>2, TokenOf
  <1>4. t.next \in (q + 1) .. Len(s)
    BY <1>1, <1>2, TagFacts
  <1>5. t.next \in 0 .. Len(s)
    BY <1>1, <1>4
  <1>6. k.err = None /\ k.next <= hi
    OBVIOUS
  <1>7. IsLeaf(t.val.wire) => v.next \in t.next .. Len(s)
    BY <1>1, <1>3, <1>5, <1>6, LeafFacts
  <1>8. t.next \in lo .. hi
    <2> HIDE DEF t, v, k
    <2> QED BY <1>1, <1>3, <1>4, <1>6, <1>7
  <1>9. read_tag(u, q - lo) = Ok(t.next - lo, t.val)
    <2>1. t.next <= hi
      BY <1>1, <1>8
    <2> QED BY <1>2, <2>1, TagLocal
  <1>10. CASE IsLeaf(t.val.wire)
    <2>1. v.err = None /\ v.next <= hi
      BY <1>3, <1>6, <1>10
    <2>2. SkipLeaf(u, t.next - lo, t.val.wire).err = None /\ SkipLeaf(u, t.next - lo, t.val.wire).next = v.next - lo
      BY <1>8, <1>10, <2>1, LeafLocal
    <2> QED BY <1>3, <1>9, <1>10, <2>2 DEF Token, Ok
  <1>11. CASE ~IsLeaf(t.val.wire)
    BY <1>3, <1>9, <1>11 DEF Token, Ok
  <1> QED
    BY <1>10, <1>11

\* What is known goes over a token that the stack agrees with.
LEMMA KnowsOver ==
    ASSUME NEW s, NEW c, NEW st, Knows(s, c, st), Token(s, c).err = None
    PROVE  LET k == Token(s, c)
           IN  /\ k.tag.wire \notin {SGroup, EGroup} => Knows(s, k.next, st)
               /\ k.tag.wire = SGroup /\ Len(st) < kMaxGroupDepth => Knows(s, k.next, Append(st, k.tag.field))
               /\ k.tag.wire = EGroup /\ st # <<>> /\ Last(st) = k.tag.field => Knows(s, k.next, Front(st))
  <1> DEFINE k == Token(s, c)
             D == Defect(Tokens(s), Len(s), c)
  <1>1. /\ s \in Seq(Byte) /\ Len(s) \in Nat /\ c \in Nat /\ c \in Boundaries(s) /\ Clean(s, c)
        /\ st \in Seq(Nat) /\ Len(st) \in Nat /\ Len(st) <= kMaxGroupDepth /\ StackIs(s, c, st)
        /\ kMaxGroupDepth \in Nat /\ SGroup # EGroup
    BY DecodeAssumption DEF Knows, Clean, SGroup, EGroup
  <1>2. k.next \in (c + 1) .. Len(s) /\ IsTag(k.tag) /\ c < Len(s)
    BY <1>1, TokenFacts
  <1>3. k.next \in 0 .. Len(s) /\ c # Len(s) /\ k.tag.field \in Nat
    BY <1>1, <1>2 DEF IsTag
  <1>4. k.err = None
    OBVIOUS
  <1>5. D = IF k.tag.wire = SGroup /\ Len(st) >= kMaxGroupDepth
                 THEN [err |-> "GroupTooDeep", at |-> k.next]
            ELSE IF k.tag.wire # EGroup THEN NoDefect
            ELSE IF st = <<>> THEN [err |-> "UnexpectedEndGroup", at |-> k.next]
            ELSE IF Last(st) # k.tag.field THEN [err |-> "EndGroupMismatch", at |-> c]
            ELSE NoDefect
    BY <1>1, <1>3, <1>4, DefectOf
  <1>6. D = NoDefect => Clean(s, k.next)
    BY <1>1, <1>4, CleanStep
  <1>7. ASSUME k.tag.wire \notin {SGroup, EGroup} PROVE Knows(s, k.next, st)
    <2>1. D = NoDefect
      BY <1>5, <1>7
    <2>2. StackIs(s, k.next, st)
      BY <1>1, <1>4, <1>7, StackOverLeaf
    <2> QED BY <1>1, <1>3, <1>6, <2>1, <2>2 DEF Knows
  <1>8. ASSUME k.tag.wire = SGroup, Len(st) < kMaxGroupDepth PROVE Knows(s, k.next, Append(st, k.tag.field))
    <2>1. D = NoDefect
      BY <1>1, <1>5, <1>8
    <2>2. StackIs(s, k.next, Append(st, k.tag.field))
      BY <1>1, <1>3, <1>4, <1>8, StackOverStart
    <2>3. Append(st, k.tag.field) \in Seq(Nat) /\ Len(Append(st, k.tag.field)) = Len(st) + 1
      BY <1>1, <1>3, Appended
    <2>4. Len(Append(st, k.tag.field)) <= kMaxGroupDepth
      BY <1>1, <1>8, <2>3
    <2> QED BY <1>1, <1>3, <1>6, <2>1, <2>2, <2>3, <2>4 DEF Knows
  <1>9. ASSUME k.tag.wire = EGroup, st # <<>>, Last(st) = k.tag.field PROVE Knows(s, k.next, Front(st))
    <2>1. D = NoDefect
      BY <1>1, <1>5, <1>9
    <2>2. StackIs(s, k.next, Front(st))
      BY <1>1, <1>4, <1>9, StackOverEnd
    <2>3. Front(st) \in Seq(Nat) /\ Len(Front(st)) = Len(st) - 1
      BY <1>1, <1>9, FrontFacts
    <2>4. Len(Front(st)) <= kMaxGroupDepth
      BY <1>1, <2>3
    <2> QED BY <1>1, <1>3, <1>6, <2>1, <2>2, <2>3, <2>4 DEF Knows
  <1> QED
    BY <1>7, <1>8, <1>9

-----------------------------------------------------------------------------
(* What the callbacks have received: the second half of the invariant.      *)

\* Where the field after those delivered begins.
FieldStart == IF out = <<>> THEN 0 ELSE out[Len(out)].next

\* Between two fields the cursor is there; while a field is read, its tag is.
AtField ==
    status = Running =>
        IF scan = <<>> /\ ~pending THEN rp_c = FieldStart
        ELSE read_tag(input, FieldStart) = Ok(value_start, tag)

\* The stack without the group the field loop reads.
Inner(st, sc) ==
    /\ st \in Seq(Nat) /\ Len(st) = Len(sc) - 1
    /\ \A i \in 1 .. Len(st) : st[i] = sc[i + 1]

\* What was scanned of a group is the beginning of a good buffer, wherever the group ends.
BodyClean ==
    status = Running /\ scan # <<>> =>
        \A hi \in rp_c .. Len(input) :
            \E st : /\ Inner(st, scan)
                    /\ Knows(SubSeq(input, value_start + 1, hi), rp_c - value_start, st)

\* The body of a group that waits for its callback is a good buffer.
BodyComplete ==
    status = Running /\ pending /\ tag.wire = SGroup =>
        Verdict(SubSeq(input, value_start + 1, egroup_tag)) = NoDefect

TileInv == AtField /\ BodyClean /\ BodyComplete /\ FieldsTileTheInput

\* What a turn of the loops that goes on has read: a leaf, or the start of a group.
LEMMA ValueRead ==
    ASSUME Knows(input, rp_c, scan), Idle,
           read_tag(input, rp_c).err = None,
           ReadValue(read_tag(input, rp_c).val, read_tag(input, rp_c).next), status' = Running
    PROVE  LET k == Token(input, rp_c)
           IN  /\ k.err = None /\ rp_c' = k.next
               /\ \/ /\ k.tag.wire \notin {SGroup, EGroup} /\ scan' = scan
                     /\ pending' = (scan = <<>>) /\ k.tag = read_tag(input, rp_c).val
                  \/ /\ k.tag.wire = SGroup /\ Len(scan) < kMaxGroupDepth
                     /\ scan' = Append(scan, k.tag.field) /\ pending' = FALSE
                     /\ rp_c' = read_tag(input, rp_c).next
  <1> DEFINE t == read_tag(input, rp_c)
             p == t.next
             k == Token(input, rp_c)
             v == SkipLeaf(input, p, t.val.wire)
  <1>1. /\ input \in Seq(Byte) /\ Len(input) \in Nat /\ rp_c \in Nat
        /\ scan \in Seq(Nat) /\ Len(scan) \in Nat /\ kMaxGroupDepth \in Nat
    BY DecodeAssumption DEF Knows
  <1>2. p \in 0 .. Len(input)
    <2>1. p \in (rp_c + 1) .. Len(input)
      BY <1>1, TagFacts
    <2> QED BY <1>1, <2>1
  <1>3. /\ k.tag = t.val
        /\ IsLeaf(t.val.wire) => k.err = v.err /\ k.next = v.next
        /\ ~IsLeaf(t.val.wire) => k.err = None /\ k.next = p
    BY TokenOf
  <1>4. CASE t.val.wire = SGroup /\ EnterGroup(t.val.field, p)
    <2>1. ~IsLeaf(t.val.wire)
      BY <1>4 DEF IsLeaf, SGroup, Varint, I64, I32, LenType
    <2>2. ~TooDeep(Len(scan) + 1)
      BY <1>4 DEF EnterGroup, FailWith, Failed, Running
    <2>3. scan' = Append(scan, t.val.field) /\ rp_c' = p /\ pending' = pending
      BY <1>4, <2>2 DEF EnterGroup
    <2>4. Len(scan) < kMaxGroupDepth
      BY <1>1, <2>2 DEF TooDeep
    <2> QED BY <1>3, <1>4, <2>1, <2>3, <2>4 DEF Idle
  <1>5. CASE IsLeaf(t.val.wire) /\ ReadLeaf(t.val.wire, p)
    <2>1. t.val.wire \notin {SGroup, EGroup}
      BY <1>5 DEF IsLeaf, SGroup, EGroup, Varint, I64, I32, LenType
    <2>2. v.err # "running"
      BY <1>1, <1>2, <1>5, LeafFacts
    <2>3. v.err = None
      <3>1. v.err # None => status' = Failed(v.err, p)
        BY <1>5 DEF ReadLeaf, FailWith
      <3>2. Failed(v.err, p) # Running
        BY <2>2 DEF Failed, Running
      <3> QED BY <3>1, <3>2
    <2>4. rp_c' = v.next /\ pending' = FieldComplete(Len(scan)) /\ scan' = scan
      BY <1>5, <2>3 DEF ReadLeaf, LeafEnd
    <2>5. FieldComplete(Len(scan)) = (scan = <<>>)
      <3>1. Len(scan) = 0 <=> scan = <<>>
        BY <1>1, EmptySeq
      <3> QED BY <3>1 DEF FieldComplete
    <2> QED BY <1>3, <1>5, <2>1, <2>3, <2>4, <2>5
  <1> QED
    BY <1>4, <1>5 DEF ReadValue

\* A token read inside the field at lo is read in every part that begins there, and what is
\* known about the part goes over it.
LEMMA BodyStep ==
    ASSUME NEW s \in Seq(Byte), NEW hi \in 0 .. Len(s), NEW lo \in 0 .. hi, NEW q \in lo .. hi,
           Token(s, q).err = None, Token(s, q).next <= hi,
           NEW st, Knows(SubSeq(s, lo + 1, hi), q - lo, st)
    PROVE  LET k == Token(s, q)
               u == SubSeq(s, lo + 1, hi)
           IN  /\ k.tag.wire \notin {SGroup, EGroup} => Knows(u, k.next - lo, st)
               /\ k.tag.wire = SGroup /\ Len(st) < kMaxGroupDepth
                    => Knows(u, k.next - lo, Append(st, k.tag.field))
               /\ k.tag.wire = EGroup /\ st # <<>> /\ Last(st) = k.tag.field
                    => Knows(u, k.next - lo, Front(st))
  <1> DEFINE k == Token(s, q)
             u == SubSeq(s, lo + 1, hi)
             j == Token(u, q - lo)
  <1>1. IsPart(u, s, lo, hi)
    BY SubSeqIsPart
  <1>2. k.err = None /\ k.next <= hi /\ Knows(u, q - lo, st)
    OBVIOUS
  <1>3. j.err = None /\ j.next = k.next - lo /\ j.tag = k.tag
    <2> HIDE DEF u
    <2> QED BY <1>1, <1>2, TokenLocal
  <1>4. /\ j.tag.wire \notin {SGroup, EGroup} => Knows(u, j.next, st)
        /\ j.tag.wire = SGroup /\ Len(st) < kMaxGroupDepth => Knows(u, j.next, Append(st, j.tag.field))
        /\ j.tag.wire = EGroup /\ st # <<>> /\ Last(st) = j.tag.field => Knows(u, j.next, Front(st))
    <2> HIDE DEF u
    <2> QED BY <1>2, <1>3, KnowsOver
  <1> HIDE DEF u, j, k
  <1>5. /\ k.tag.wire \notin {SGroup, EGroup} => Knows(u, k.next - lo, st)
        /\ k.tag.wire = SGroup /\ Len(st) < kMaxGroupDepth
             => Knows(u, k.next - lo, Append(st, k.tag.field))
        /\ k.tag.wire = EGroup /\ st # <<>> /\ Last(st) = k.tag.field
             => Knows(u, k.next - lo, Front(st))
    BY <1>3, <1>4
  <1> QED
    BY <1>5 DEF u, k

\* The two stacks are pushed and popped together.
LEMMA InnerStacks ==
    ASSUME NEW st, NEW sc \in Seq(Nat), sc # <<>>, Inner(st, sc)
    PROVE  /\ Len(st) < Len(sc) /\ Len(st) \in Nat
           /\ \A f \in Nat : Inner(Append(st, f), Append(sc, f))
           /\ st # <<>> => Last(st) = Last(sc) /\ Inner(Front(st), Front(sc))
           /\ st = <<>> <=> Len(sc) = 1
  <1>1. /\ st \in Seq(Nat) /\ Len(st) = Len(sc) - 1 /\ \A i \in 1 .. Len(st) : st[i] = sc[i + 1]
        /\ Len(sc) \in Nat /\ Len(st) \in Nat
    BY DEF Inner
  <1>2. ASSUME NEW f \in Nat PROVE Inner(Append(st, f), Append(sc, f))
    <2> DEFINE a == Append(st, f)
               b == Append(sc, f)
    <2>1. a \in Seq(Nat) /\ Len(a) = Len(st) + 1 /\ a[Len(st) + 1] = f /\ \A i \in 1 .. Len(st) : a[i] = st[i]
      BY <1>1, Appended
    <2>2. Len(b) = Len(sc) + 1 /\ b[Len(sc) + 1] = f /\ \A i \in 1 .. Len(sc) : b[i] = sc[i]
      BY Appended
    <2> HIDE DEF a, b
    <2>3. ASSUME NEW i \in 1 .. Len(a) PROVE a[i] = b[i + 1]
      <3>1. CASE i = Len(st) + 1
        <4>1. i + 1 = Len(sc) + 1
          BY <1>1, <3>1
        <4> QED BY <2>1, <2>2, <3>1, <4>1
      <3>2. CASE i # Len(st) + 1
        <4>1. i \in 1 .. Len(st) /\ i + 1 \in 1 .. Len(sc)
          BY <1>1, <2>1, <3>2
        <4> QED BY <1>1, <2>1, <2>2, <4>1
      <3> QED BY <3>1, <3>2
    <2>4. Len(a) = Len(b) - 1
      BY <1>1, <2>1, <2>2
    <2>5. Inner(a, b)
      BY <2>1, <2>3, <2>4 DEF Inner
    <2> QED BY <2>5 DEF a, b
  <1>3. ASSUME st # <<>> PROVE Last(st) = Last(sc) /\ Inner(Front(st), Front(sc))
    <2> DEFINE a == Front(st)
               b == Front(sc)
    <2>1. a \in Seq(Nat) /\ Len(a) = Len(st) - 1 /\ (\A i \in 1 .. (Len(st) - 1) : a[i] = st[i]) /\ Len(st) > 0
      BY <1>1, <1>3, FrontFacts
    <2>2. Len(b) = Len(sc) - 1 /\ \A i \in 1 .. (Len(sc) - 1) : b[i] = sc[i]
      BY FrontFacts
    <2>3. Last(st) = Last(sc)
      <3>1. Len(st) \in 1 .. Len(st) /\ Len(st) + 1 = Len(sc)
        BY <1>1, <2>1
      <3>2. st[Len(st)] = sc[Len(sc)]
        BY <1>1, <3>1
      <3> QED BY <3>2 DEF Last
    <2> HIDE DEF a, b
    <2>4. ASSUME NEW i \in 1 .. Len(a) PROVE a[i] = b[i + 1]
      <3>1. i \in 1 .. (Len(st) - 1) /\ i \in 1 .. Len(st) /\ i + 1 \in 1 .. (Len(sc) - 1)
        BY <1>1, <2>1
      <3> QED BY <1>1, <2>1, <2>2, <3>1
    <2>5. Len(a) = Len(b) - 1
      BY <1>1, <2>1, <2>2
    <2>6. Inner(a, b)
      BY <2>1, <2>4, <2>5 DEF Inner
    <2> QED BY <2>3, <2>6 DEF a, b
  <1>4. st = <<>> <=> Len(sc) = 1
    <2>1. Len(st) = 0 <=> st = <<>>
      BY <1>1, EmptySeq
    <2> QED BY <1>1, <2>1
  <1>5. Len(st) < Len(sc)
    BY <1>1
  <1> QED
    BY <1>1, <1>2, <1>3, <1>4, <1>5

\* A decode that has stopped keeps what it delivered.
LEMMA StoppedTiles ==
    ASSUME TileInv, status' # Running, UNCHANGED <<input, out>>
    PROVE  TileInv'
  BY DEF TileInv, AtField, BodyClean, BodyComplete, FieldsTileTheInput

\* The field loop reads the tag of the next field where the one before it ended.
LEMMA NextFieldTiles ==
    ASSUME DecodeInv, TileInv, NextField
    PROVE  TileInv'
  <1> DEFINE t == read_tag_or_end(input, rp_c)
             r == read_tag(input, rp_c)
             k == Token(input, rp_c)
  <1>1. /\ input \in Seq(Byte) /\ Len(input) \in Nat /\ rp_c \in 0 .. Len(input) /\ rp_c \in Nat
        /\ scan \in Seq(Nat) /\ Len(scan) <= kMaxGroupDepth
    BY DEF DecodeInv, CursorsInside
  <1>2. Idle /\ scan = <<>> /\ status = Running /\ pending = FALSE /\ input' = input /\ out' = out
    BY DEF NextField, Idle
  <1>3. CASE status' # Running
    BY <1>2, <1>3, StoppedTiles
  <1>4. CASE status' = Running
    <2>1. Knows(input, rp_c, scan)
      BY <1>1, <1>2 DEF DecodeInv, BetweenTokens, Knows
    <2>2. rp_c < Len(input) => t = r
      BY <1>1, TagReadersAgree
    <2>3. rp_c >= Len(input) => t.err = "End"
      BY DEF read_tag_or_end, Err
    <2>4. r.err \notin {"End", "running"}
      BY <1>1, TagFacts
    <2>5. /\ t.err = None /\ tag' = t.val /\ value_start' = t.next
          /\ t.val.wire # EGroup /\ ReadValue(t.val, t.next)
      <3>1. Success # Running
        BY DEF Success, Running, None
      <3>2. \A o : Failed("UnexpectedEndGroup", o) # Running
        BY DEF Failed, Running
      <3>3. t.err \notin {None, "End"} => Failed(t.err, rp_c) # Running
        <4>1. t.err \notin {None, "End"} => rp_c < Len(input)
          BY <1>1, <2>3
        <4>2. t.err \notin {None, "End"} => t.err = r.err
          BY <2>2, <4>1
        <4> HIDE DEF t, r
        <4> QED BY <2>4, <4>2 DEF Failed, Running
      <3> QED BY <1>4, <3>1, <3>2, <3>3 DEF NextField, FailWith
    <2>6. t = r
      <3>1. rp_c < Len(input)
        BY <1>1, <2>3, <2>5 DEF None
      <3> QED BY <2>2, <3>1
    <2>7. r.err = None /\ tag' = r.val /\ value_start' = r.next /\ ReadValue(r.val, r.next)
      BY <2>5, <2>6
    <2>8. r = Ok(r.next, r.val) /\ r.next \in (rp_c + 1) .. Len(input) /\ IsTag(r.val)
      BY <1>1, <2>7, TagFacts
    <2>9. /\ k.err = None /\ rp_c' = k.next
          /\ \/ /\ k.tag.wire \notin {SGroup, EGroup} /\ scan' = scan
                /\ pending' = (scan = <<>>) /\ k.tag = r.val
             \/ /\ k.tag.wire = SGroup /\ Len(scan) < kMaxGroupDepth
                /\ scan' = Append(scan, k.tag.field) /\ pending' = FALSE
                /\ rp_c' = r.next
      BY <1>2, <1>4, <2>1, <2>7, ValueRead
    <2>10. k.tag.field \in Nat
      BY <1>1, <2>9, TokenFacts DEF IsTag
    <2>11. scan' # <<>> \/ pending'
      <3>1. ASSUME scan' = Append(scan, k.tag.field) PROVE scan' # <<>>
        <4>1. Len(scan') = Len(scan) + 1 /\ Len(scan) = 0
          BY <1>1, <1>2, <2>10, <3>1, Appended
        <4>2. scan' = <<>> => Len(scan') = 0
          OBVIOUS
        <4> QED BY <4>1, <4>2
      <3> HIDE DEF k, r, t
      <3> QED BY <1>2, <2>9, <3>1
    <2>12. rp_c = FieldStart /\ FieldStart' = FieldStart
      BY <1>2 DEF TileInv, AtField, FieldStart
    <2>13. AtField'
      <3>1. read_tag(input, FieldStart) = Ok(value_start', tag')
        BY <2>7, <2>8, <2>12
      <3> HIDE DEF t, r, k
      <3> QED BY <1>2, <2>11, <2>12, <3>1 DEF AtField
    <2>14. BodyClean'
      <3> SUFFICES ASSUME scan' # <<>>, NEW hi \in rp_c' .. Len(input)
                   PROVE  \E st : /\ Inner(st, scan')
                                  /\ Knows(SubSeq(input, value_start' + 1, hi), rp_c' - value_start', st)
        BY <1>2 DEF BodyClean
      <3>1. scan' = Append(scan, k.tag.field) /\ rp_c' = r.next /\ value_start' = rp_c'
        <4> HIDE DEF k, r
        <4> QED BY <1>2, <2>7, <2>9
      <3>2. rp_c' \in Nat /\ rp_c' <= Len(input)
        <4> HIDE DEF r
        <4> QED BY <1>1, <2>8, <3>1
      <3>3. hi \in 0 .. Len(input) /\ rp_c' \in 0 .. hi /\ rp_c' - value_start' = 0
        BY <1>1, <3>1, <3>2
      <3>4. SubSeq(input, rp_c' + 1, hi) \in Seq(Byte)
        BY <1>1, <3>3, SubSeqIsPart DEF IsPart
      <3>5. Knows(SubSeq(input, rp_c' + 1, hi), 0, <<>>)
        BY <3>4, KnowsAtStart
      <3>6. Inner(<<>>, scan')
        <4>1. Len(scan') = 1
          <5>1. Len(scan') = Len(scan) + 1 /\ Len(scan) = 0
            BY <1>1, <1>2, <2>10, <3>1, Appended
          <5> QED BY <5>1
        <4> QED BY <4>1 DEF Inner
      <3> QED BY <3>1, <3>3, <3>5, <3>6
    <2>15. BodyComplete'
      <3>1. ~(pending' /\ tag'.wire = SGroup)
        <4> HIDE DEF k, r
        <4> QED BY <2>7, <2>9
      <3> QED BY <3>1 DEF BodyComplete
    <2>16. FieldsTileTheInput'
      BY <1>2 DEF TileInv, FieldsTileTheInput
    <2> QED BY <2>13, <2>14, <2>15, <2>16 DEF TileInv
  <1> QED
    BY <1>3, <1>4

\* A turn of the group scan goes over one token of the body, or ends the body before the tag
\* that closes the group.
LEMMA ScanGroupTiles ==
    ASSUME DecodeInv, TileInv, ScanGroup
    PROVE  TileInv'
  <1> DEFINE t == read_tag(input, rp_c)
             k == Token(input, rp_c)
  <1>1. /\ input \in Seq(Byte) /\ Len(input) \in Nat /\ rp_c \in 0 .. Len(input) /\ rp_c \in Nat
        /\ value_start \in 0 .. rp_c /\ value_start \in Nat
        /\ scan \in Seq(Nat) /\ Len(scan) \in Nat /\ Len(scan) <= kMaxGroupDepth /\ kMaxGroupDepth \in Nat
    BY DecodeAssumption DEF DecodeInv, CursorsInside
  <1>2. /\ Idle /\ scan # <<>> /\ status = Running /\ pending = FALSE
        /\ input' = input /\ out' = out /\ tag' = tag /\ value_start' = value_start
    BY DEF ScanGroup, Idle
  <1>3. CASE status' # Running
    BY <1>2, <1>3, StoppedTiles
  <1>4. CASE status' = Running
    <2>1. Knows(input, rp_c, scan)
      BY <1>1, <1>2 DEF DecodeInv, BetweenTokens, Knows
    <2>2. t.err # "running"
      BY <1>1, TagFacts
    <2>3. /\ t.err = None
          /\ \/ /\ t.val.wire = EGroup /\ Closes(t.val.field)
                /\ scan' = Front(scan) /\ rp_c' = t.next /\ egroup_tag' = rp_c
                /\ pending' = FieldComplete(Len(scan) - 1)
             \/ ReadValue(t.val, t.next)
      <3>1. \A err : err # "running" => Failed(err, rp_c) # Running
        BY DEF Failed, Running
      <3> HIDE DEF t
      <3>2. \A err : err # "running" => ~FailWith(err, rp_c)
        BY <1>4, <3>1 DEF FailWith
      <3>3. ~FailWith("UnterminatedGroup", rp_c) /\ ~FailWith("EndGroupMismatch", rp_c) /\ ~FailWith(t.err, rp_c)
        BY <2>2, <3>2
      <3> QED BY <3>3 DEF ScanGroup, EndOfBody, t
    <2>4. FieldStart' = FieldStart /\ read_tag(input, FieldStart) = Ok(value_start, tag)
      BY <1>2 DEF TileInv, AtField, FieldStart
    <2>5. FieldsTileTheInput'
      BY <1>2 DEF TileInv, FieldsTileTheInput
    \* What is known about each part that reaches beyond the cursor.
    <2>6. ASSUME NEW hi \in rp_c .. Len(input)
          PROVE  /\ hi \in 0 .. Len(input) /\ value_start \in 0 .. hi /\ rp_c \in value_start .. hi
                 /\ \E st : /\ Inner(st, scan)
                            /\ Knows(SubSeq(input, value_start + 1, hi), rp_c - value_start, st)
      BY <1>1, <1>2 DEF TileInv, BodyClean
    <2>7. CASE ReadValue(t.val, t.next)
      <3>1. /\ k.err = None /\ rp_c' = k.next
            /\ \/ /\ k.tag.wire \notin {SGroup, EGroup} /\ scan' = scan
                  /\ pending' = (scan = <<>>)
               \/ /\ k.tag.wire = SGroup /\ Len(scan) < kMaxGroupDepth
                  /\ scan' = Append(scan, k.tag.field) /\ pending' = FALSE
        BY <1>2, <1>4, <2>1, <2>3, <2>7, ValueRead
      <3>2. k.next \in (rp_c + 1) .. Len(input) /\ k.tag.field \in Nat
        BY <1>1, <3>1, TokenFacts DEF IsTag
      <3>3. pending' = FALSE
        <4> HIDE DEF k
        <4> QED BY <1>2, <3>1
      <3>4. scan' # <<>>
        <4>1. Len(Append(scan, k.tag.field)) = Len(scan) + 1
          BY <1>1, <3>2, Appended
        <4>2. Append(scan, k.tag.field) # <<>>
          <5> DEFINE a == Append(scan, k.tag.field)
          <5>1. Len(a) = Len(scan) + 1
            BY <4>1
          <5> HIDE DEF a
          <5>2. a # <<>>
            BY <1>1, <5>1
          <5> QED BY <5>2 DEF a
        <4> HIDE DEF k
        <4> QED BY <1>2, <3>1, <4>2
      <3>5. AtField'
        BY <1>2, <2>4, <3>4 DEF AtField
      <3>6. BodyClean'
        <4> SUFFICES ASSUME NEW hi \in rp_c' .. Len(input)
                     PROVE  \E st : /\ Inner(st, scan')
                                    /\ Knows(SubSeq(input, value_start + 1, hi), rp_c' - value_start, st)
          BY <1>2 DEF BodyClean
        <4>1. hi \in rp_c .. Len(input) /\ k.next <= hi
          <5> HIDE DEF k
          <5> QED BY <1>1, <3>1, <3>2
        <4>2. /\ hi \in 0 .. Len(input) /\ value_start \in 0 .. hi /\ rp_c \in value_start .. hi
          BY <2>6, <4>1
        <4>3. PICK st : /\ Inner(st, scan)
                        /\ Knows(SubSeq(input, value_start + 1, hi), rp_c - value_start, st)
          BY <2>6, <4>1
        <4>4. /\ k.tag.wire \notin {SGroup, EGroup}
                   => Knows(SubSeq(input, value_start + 1, hi), k.next - value_start, st)
              /\ k.tag.wire = SGroup /\ Len(st) < kMaxGroupDepth
                   => Knows(SubSeq(input, value_start + 1, hi), k.next - value_start,
                            Append(st, k.tag.field))
          BY <1>1, <3>1, <4>1, <4>2, <4>3, BodyStep
        <4>5. Len(st) < kMaxGroupDepth /\ Inner(Append(st, k.tag.field), Append(scan, k.tag.field))
          <5>1. Len(st) < Len(scan) /\ Len(st) \in Nat /\ \A f \in Nat : Inner(Append(st, f), Append(scan, f))
            BY <1>1, <1>2, <4>3, InnerStacks
          <5> QED BY <1>1, <3>2, <5>1
        <4> HIDE DEF k
        <4> QED BY <3>1, <4>3, <4>4, <4>5
      <3>7. BodyComplete'
        BY <3>3 DEF BodyComplete
      <3> QED BY <2>5, <3>5, <3>6, <3>7 DEF TileInv
    <2>8. CASE /\ t.val.wire = EGroup /\ Closes(t.val.field)
               /\ scan' = Front(scan) /\ rp_c' = t.next /\ egroup_tag' = rp_c
               /\ pending' = FieldComplete(Len(scan) - 1)
      <3>1. ~IsLeaf(t.val.wire)
        BY <2>8 DEF IsLeaf, EGroup, Varint, I64, I32, LenType
      <3>2. k.err = None /\ k.next = t.next /\ k.tag = t.val
        BY <2>3, <3>1, TokenOf
      <3>3. k.next \in (rp_c + 1) .. Len(input)
        BY <1>1, <3>2, TokenFacts
      <3>4. /\ Front(scan) \in Seq(Nat) /\ Len(Front(scan)) = Len(scan) - 1 /\ Len(scan) > 0
            /\ (Len(Front(scan)) = 0 <=> Front(scan) = <<>>)
        <4>1. /\ Front(scan) \in Seq(Nat) /\ Len(Front(scan)) = Len(scan) - 1 /\ Len(scan) > 0
          BY <1>1, <1>2, FrontFacts
        <4> QED BY <4>1, EmptySeq
      <3>5. pending' = (scan' = <<>>)
        BY <1>1, <2>8, <3>4 DEF FieldComplete
      <3>6. AtField'
        BY <1>2, <2>4, <3>5 DEF AtField
      <3>7. BodyClean'
        <4> SUFFICES ASSUME scan' # <<>>, NEW hi \in rp_c' .. Len(input)
                     PROVE  \E st : /\ Inner(st, scan')
                                    /\ Knows(SubSeq(input, value_start + 1, hi), rp_c' - value_start, st)
          BY <1>2 DEF BodyClean
        <4>1. hi \in rp_c .. Len(input) /\ k.next <= hi /\ rp_c' = k.next
          <5>1. rp_c' = k.next
            BY <2>8, <3>2
          <5> HIDE DEF k
          <5> QED BY <1>1, <3>3, <5>1
        <4>2. /\ hi \in 0 .. Len(input) /\ value_start \in 0 .. hi /\ rp_c \in value_start .. hi
          BY <2>6, <4>1
        <4>3. PICK st : /\ Inner(st, scan)
                        /\ Knows(SubSeq(input, value_start + 1, hi), rp_c - value_start, st)
          BY <2>6, <4>1
        <4>4. st # <<>>
          <5>1. st = <<>> <=> Len(scan) = 1
            BY <1>1, <1>2, <4>3, InnerStacks
          <5> QED BY <2>8, <3>4, <5>1
        <4>5. Last(st) = Last(scan) /\ Inner(Front(st), Front(scan))
          BY <1>1, <1>2, <4>3, <4>4, InnerStacks
        <4>6. k.tag.wire = EGroup /\ Last(st) = k.tag.field
          BY <2>8, <3>2, <4>5 DEF Closes
        <4>7. Knows(SubSeq(input, value_start + 1, hi), k.next - value_start, Front(st))
          BY <1>1, <3>2, <4>1, <4>2, <4>3, <4>4, <4>6, BodyStep
        <4> QED BY <2>8, <4>1, <4>5, <4>7
      <3>8. BodyComplete'
        <4> SUFFICES ASSUME pending'
                     PROVE  Verdict(SubSeq(input, value_start + 1, rp_c)) = NoDefect
          BY <1>2, <2>8 DEF BodyComplete
        <4> DEFINE u == SubSeq(input, value_start + 1, rp_c)
        <4>1. rp_c \in rp_c .. Len(input)
          BY <1>1
        <4>2. PICK st : Inner(st, scan) /\ Knows(u, rp_c - value_start, st)
          BY <2>6, <4>1
        <4>3. st = <<>>
          <5>1. st = <<>> <=> Len(scan) = 1
            BY <1>1, <1>2, <4>2, InnerStacks
          <5>2. Len(scan) - 1 = 0
            BY <2>8 DEF FieldComplete
          <5> QED BY <1>1, <5>1, <5>2
        <4>4. u \in Seq(Byte) /\ Len(u) = rp_c - value_start
          BY <1>1, SubSeqIsPart DEF IsPart
        <4> HIDE DEF u
        <4>5. Clean(u, Len(u)) /\ StackIs(u, Len(u), <<>>) /\ Len(u) \in Boundaries(u) /\ <<>> \in Seq(Nat)
          BY <4>2, <4>3, <4>4 DEF Knows, Clean
        <4>6. Defect(Tokens(u), Len(u), Len(u)) = NoDefect
          BY <4>4, <4>5, DefectOf
        <4>7. Verdict(u) = NoDefect
          BY <4>4, <4>5, <4>6, VerdictAtEnd
        <4> QED BY <4>7 DEF u
      <3> QED BY <2>5, <3>6, <3>7, <3>8 DEF TileInv
    <2> QED BY <2>3, <2>7, <2>8
  <1> QED
    BY <1>3, <1>4

\* A callback is told the tag at the end of the field before, and a group callback a body
\* that is a good buffer.
LEMMA DispatchTiles ==
    ASSUME DecodeInv, TileInv, Dispatch
    PROVE  TileInv'
  <1>1. /\ out \in Seq(Span) /\ scan = <<>> /\ status = Running /\ pending
        /\ out' = Append(out, Item) /\ pending' = FALSE
        /\ UNCHANGED <<input, rp_c, tag, value_start, scan, egroup_tag>>
    BY DEF DecodeInv, CursorsInside, SpansInside, Dispatch
  <1>2. DecodeInv'
    BY DispatchKeeps
  <1>3. out' \in Seq(Span)
    BY <1>2 DEF DecodeInv, SpansInside
  <1> DEFINE n == Len(out)
  <1>4. n \in Nat /\ Len(out') = n + 1 /\ out'[n + 1] = Item /\ \A i \in 1 .. n : out'[i] = out[i]
    BY <1>1, AppendProperties
  <1>5. read_tag(input, FieldStart) = Ok(value_start, tag)
    BY <1>1 DEF TileInv, AtField
  <1>6. /\ Item.kind = Kind /\ Item.tag = tag /\ Item.lo = value_start /\ Item.next = rp_c
        /\ Kind = "group" => Item.hi = egroup_tag /\ tag.wire = SGroup
    BY DEF Item, Kind
  <1>7. AtField'
    <2>1. out' # <<>> /\ out'[Len(out')].next = rp_c
      <3>1. Len(out') # 0
        BY <1>4
      <3>2. out' # <<>>
        BY <1>3, <3>1, EmptySeq
      <3> QED BY <1>4, <1>6, <3>2
    <2> QED BY <1>1, <2>1 DEF AtField, FieldStart
  <1>8. BodyClean' /\ BodyComplete'
    BY <1>1 DEF BodyClean, BodyComplete
  <1>9. FieldsTileTheInput'
    <2> DEFINE from(o, i) == IF i = 1 THEN 0 ELSE o[i - 1].next
               Good(o, i) ==
                 /\ read_tag(input, from(o, i)).err = None
                 /\ read_tag(input, from(o, i)).val = o[i].tag
                 /\ read_tag(input, from(o, i)).next = o[i].lo
                 /\ o[i].kind = "group" => Verdict(SubSeq(input, o[i].lo + 1, o[i].hi)) = NoDefect
    <2>1. ASSUME NEW i \in 1 .. n PROVE Good(out', i)
      <3>1. out'[i] = out[i] /\ (i # 1 => i - 1 \in 1 .. n)
        BY <1>4
      <3>2. from(out', i) = from(out, i)
        BY <1>4, <3>1
      <3>3. Good(out, i)
        <4>1. i \in DOMAIN out
          BY <1>1
        <4> QED BY <4>1 DEF TileInv, FieldsTileTheInput
      <3> HIDE DEF from
      <3> QED BY <3>1, <3>2, <3>3
    <2>2. Good(out', n + 1)
      <3>1. from(out', n + 1) = FieldStart
        <4>1. CASE n = 0
          <5>1. out = <<>>
            BY <1>1, <4>1, EmptySeq
          <5> QED BY <4>1, <5>1 DEF FieldStart
        <4>2. CASE n # 0
          <5>1. n + 1 # 1 /\ (n + 1) - 1 = n /\ n \in 1 .. n
            BY <1>4, <4>2
          <5>2. out # <<>>
            BY <1>1, <4>2, EmptySeq
          <5> QED BY <1>4, <5>1, <5>2 DEF FieldStart
        <4> QED BY <4>1, <4>2
      <3>2. Item.kind = "group" => Verdict(SubSeq(input, Item.lo + 1, Item.hi)) = NoDefect
        BY <1>1, <1>6 DEF TileInv, BodyComplete
      <3>3. /\ read_tag(input, FieldStart).err = None
            /\ read_tag(input, FieldStart).val = Item.tag
            /\ read_tag(input, FieldStart).next = Item.lo
        BY <1>5, <1>6 DEF Ok
      <3> HIDE DEF from
      <3> QED BY <1>4, <3>1, <3>2, <3>3
    <2>3. DOMAIN out' = 1 .. (n + 1)
      BY <1>3, <1>4
    <2>4. \A i \in DOMAIN out' : Good(out', i)
      <3> HIDE DEF Good
      <3>1. \A i \in DOMAIN out' : i = n + 1 \/ i \in 1 .. n
        BY <1>4, <2>3
      <3> QED BY <2>1, <2>2, <3>1
    <2> QED BY <1>1, <2>4 DEF FieldsTileTheInput
  <1> QED
    BY <1>7, <1>8, <1>9 DEF TileInv

\* The fields handed to the callbacks of a generated decode() tile the buffer, with the tags
\* the group scan would read there, and the body of a group, as read_group returns it, is a
\* well-formed buffer of its own.
THEOREM FieldsTile == WireSpec => []FieldsTileTheInput
  <1>1. WireInit => TileInv
    BY DEF WireInit, TileInv, AtField, FieldStart, BodyClean, BodyComplete, FieldsTileTheInput
  <1>2. DecodeInv /\ TileInv /\ [WireNext]_wire_vars => TileInv'
    <2> SUFFICES ASSUME DecodeInv, TileInv, [WireNext]_wire_vars PROVE TileInv'
      OBVIOUS
    <2>1. CASE UNCHANGED wire_vars
      BY <2>1 DEF wire_vars, TileInv, AtField, FieldStart, BodyClean, BodyComplete, FieldsTileTheInput
    <2> QED
      BY <2>1, NextFieldTiles, ScanGroupTiles, DispatchTiles DEF WireNext
  <1>3. TileInv => FieldsTileTheInput
    BY DEF TileInv
  <1> QED
    BY <1>1, <1>2, <1>3, DecodeInvariant, PTL DEF WireSpec
=============================================================================
