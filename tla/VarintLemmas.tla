---------------------------- MODULE VarintLemmas ----------------------------
(***************************************************************************)
(* What read_varint of include/rapidproto/runtime.hpp returns, for every   *)
(* buffer and every length a varint may have: the facts that the proofs    *)
(* about the field loop and about the packed kernels share.                *)
(***************************************************************************)
EXTENDS Wire, InductionLemmas

\* The values of the recursion behind Weight.
LEMMA WeightRecursion ==
    ASSUME NEW k \in Nat
    PROVE  \E g \in [0 .. k -> Nat] :
              g[0] = 1 /\ (\A i \in 1 .. k : g[i] = Radix * g[i - 1]) /\ Weight(k) = g[k]
  <1> DEFINE Body(f, i) == IF i = 0 THEN 1 ELSE Radix * f[i - 1]
             step == [i \in 1 .. k |-> [v \in Nat |-> Radix * v]]
             w == CHOOSE f : f = [i \in 0 .. k |-> Body(f, i)]
  <1>1. Radix \in Nat
    BY WireAssumption
  <1>2. step \in [1 .. k -> [Nat -> Nat]]
    BY <1>1
  <1>3. PICK g : g \in [0 .. k -> Nat] /\ g[0] = 1 /\ \A i \in 1 .. k : g[i] = step[i][g[i - 1]]
    <2> HIDE DEF step
    <2>1. \E g : Iterates(g, k, Nat, 1, step)
      BY <1>2, RecursionExists
    <2> QED BY <2>1 DEF Iterates
  <1>4. ASSUME NEW i \in 0 .. k PROVE g[i] = Body(g, i)
    <2>1. i = 0 \/ (i \in 1 .. k /\ g[i - 1] \in Nat)
      BY <1>3
    <2> QED BY <1>3, <2>1
  <1> HIDE DEF Body, step
  <1>5. g = [i \in 0 .. k |-> Body(g, i)]
    BY <1>3, <1>4
  <1>6. w = [i \in 0 .. k |-> Body(w, i)]
    BY <1>5
  <1>7. Weight(k) = w[k]
    BY DEF Weight, Body
  <1> HIDE DEF w
  <1> DEFINE T == {i \in 0 .. k : w[i] = g[i]}
  <1>8. \A i \in 0 .. k : w[i] = Body(w, i)
    BY <1>6
  <1>9. 0 \in T
    <2>1. 0 \in 0 .. k
      OBVIOUS
    <2> QED BY <1>4, <1>8, <2>1 DEF Body
  <1>10. ASSUME NEW i \in 1 .. k, i - 1 \in T PROVE i \in T
    <2>1. i \in 0 .. k /\ i # 0 /\ w[i - 1] = g[i - 1]
      BY <1>10
    <2> QED BY <1>4, <1>8, <2>1 DEF Body
  <1>11. w[k] = g[k]
    <2> HIDE DEF T
    <2>1. \A i \in 0 .. k : i \in T
      BY <1>9, <1>10, UpTo
    <2> QED BY <2>1 DEF T
  <1>12. \A i \in 1 .. k : g[i] = Radix * g[i - 1]
    <2>1. \A i \in 1 .. k : i \in 0 .. k /\ i # 0
      OBVIOUS
    <2> QED BY <1>4, <2>1 DEF Body
  <1> QED
    BY <1>3, <1>7, <1>11, <1>12

\* Each byte of a varint weighs Radix times the one before it.
LEMMA WeightFacts ==
    ASSUME NEW k \in Nat
    PROVE  /\ Weight(0) = 1
           /\ Weight(k) \in Nat /\ Weight(k) >= 1
           /\ Weight(k + 1) = Radix * Weight(k)
  <1>1. Radix \in Nat /\ Radix >= 1
    BY WireAssumption
  <1>2. Weight(0) = 1
    <2>1. PICK g \in [0 .. 0 -> Nat] : g[0] = 1 /\ Weight(0) = g[0]
      BY WeightRecursion
    <2> QED BY <2>1
  <1>3. PICK g \in [0 .. k -> Nat] :
            g[0] = 1 /\ (\A i \in 1 .. k : g[i] = Radix * g[i - 1]) /\ Weight(k) = g[k]
    BY WeightRecursion
  <1>4. PICK h \in [0 .. (k + 1) -> Nat] :
            /\ h[0] = 1 /\ (\A i \in 1 .. (k + 1) : h[i] = Radix * h[i - 1])
            /\ Weight(k + 1) = h[k + 1]
    <2> DEFINE m == k + 1
    <2>1. m \in Nat
      OBVIOUS
    <2> HIDE DEF m
    <2>2. \E h \in [0 .. m -> Nat] :
            h[0] = 1 /\ (\A i \in 1 .. m : h[i] = Radix * h[i - 1]) /\ Weight(m) = h[m]
      BY <2>1, WeightRecursion
    <2> QED BY <2>2 DEF m
  <1> DEFINE T == {i \in 0 .. k : h[i] = g[i] /\ g[i] >= 1}
  <1>5. 0 \in T
    BY <1>3, <1>4
  <1>6. ASSUME NEW i \in 1 .. k, i - 1 \in T PROVE i \in T
    <2>1. i \in 0 .. k /\ i \in 1 .. (k + 1) /\ h[i - 1] = g[i - 1] /\ g[i - 1] >= 1 /\ g[i - 1] \in Nat
      BY <1>6
    <2>2. g[i] = Radix * g[i - 1] /\ h[i] = Radix * h[i - 1]
      BY <1>3, <1>4, <2>1
    <2>3. Radix * g[i - 1] >= 1
      <3> DEFINE z == g[i - 1]
      <3>1. z \in Nat /\ z >= 1
        BY <2>1
      <3> HIDE DEF z
      <3>2. Radix * z >= 1
        BY <1>1, <3>1
      <3> QED BY <3>2 DEF z
    <2> QED BY <2>1, <2>2, <2>3
  <1>7. h[k] = g[k] /\ g[k] >= 1
    <2> HIDE DEF T
    <2>1. \A i \in 0 .. k : i \in T
      BY <1>5, <1>6, UpTo
    <2> QED BY <2>1 DEF T
  <1>8. h[k + 1] = Radix * h[k]
    <2>1. k + 1 \in 1 .. (k + 1) /\ (k + 1) - 1 = k
      OBVIOUS
    <2> QED BY <1>4, <2>1
  <1> QED
    BY <1>2, <1>3, <1>4, <1>7, <1>8

\* A longer varint weighs more.
LEMMA WeightMonotone ==
    ASSUME NEW k \in Nat, NEW i \in 0 .. k
    PROVE  Weight(i) <= Weight(k)
  <1> DEFINE T == {j \in 0 .. (k - i) : Weight(i) <= Weight(i + j)}
  <1>1. Radix \in Nat /\ Radix >= 1 /\ k - i \in Nat
    BY WireAssumption
  <1>2. 0 \in T
    <2>1. i + 0 = i /\ Weight(i) \in Nat /\ 0 \in 0 .. (k - i)
      BY <1>1, WeightFacts
    <2> QED BY <2>1
  <1>3. ASSUME NEW j \in 1 .. (k - i), j - 1 \in T PROVE j \in T
    <2> DEFINE m == i + (j - 1)
    <2>1. m \in Nat /\ m + 1 = i + j /\ Weight(i) <= Weight(m) /\ j \in 0 .. (k - i)
      BY <1>1, <1>3
    <2> HIDE DEF m
    <2>2. Weight(m) \in Nat /\ Weight(i) \in Nat /\ Weight(m + 1) = Radix * Weight(m)
      BY <2>1, WeightFacts
    <2>3. Weight(m) <= Radix * Weight(m)
      BY <1>1, <2>2
    <2>4. Weight(i) <= Weight(m + 1)
      BY <1>1, <2>1, <2>2, <2>3
    <2> QED BY <2>1, <2>4
  <1>4. k - i \in T
    <2> HIDE DEF T
    <2>1. \A j \in 0 .. (k - i) : j \in T
      BY <1>1, <1>2, <1>3, UpTo
    <2> QED BY <1>1, <2>1
  <1>5. i + (k - i) = k
    OBVIOUS
  <1> QED
    BY <1>4, <1>5

\* The values of the recursion behind VarintValue.
LEMMA VarintRecursion ==
    ASSUME NEW s \in Seq(Byte), NEW p \in Nat, NEW n \in Nat, p + n <= Len(s)
    PROVE  \E g \in [0 .. n -> Nat] :
              /\ g[0] = 0 /\ \A i \in 1 .. n : g[i] = g[i - 1] + (s[p + i] % Radix) * Weight(i - 1)
              /\ VarintValue(s, p, n) = g[n]
  <1> DEFINE Add(i) == (s[p + i] % Radix) * Weight(i - 1)
             Body(f, i) == IF i = 0 THEN 0 ELSE f[i - 1] + Add(i)
             step == [i \in 1 .. n |-> [v \in Nat |-> v + Add(i)]]
             w == CHOOSE f : f = [i \in 0 .. n |-> Body(f, i)]
  <1>1. Radix \in Nat \ {0}
    BY WireAssumption
  <1>2. ASSUME NEW i \in 1 .. n PROVE Add(i) \in Nat
    <2>1. Weight(i - 1) \in Nat
      <3>1. i - 1 \in Nat
        OBVIOUS
      <3> QED BY <3>1, WeightFacts
    <2>2. s[p + i] \in Nat
      <3>1. p + i \in 1 .. Len(s)
        OBVIOUS
      <3>2. s[p + i] \in Byte
        BY <3>1
      <3> QED BY <1>1, <3>2 DEF Byte
    <2>3. s[p + i] % Radix \in Nat
      BY <1>1, <2>2
    <2> QED BY <2>1, <2>3
  <1> HIDE DEF Add
  <1>3. step \in [1 .. n -> [Nat -> Nat]]
    BY <1>2
  <1>4. PICK g : g \in [0 .. n -> Nat] /\ g[0] = 0 /\ \A i \in 1 .. n : g[i] = step[i][g[i - 1]]
    <2> HIDE DEF step
    <2>1. \E g : Iterates(g, n, Nat, 0, step)
      BY <1>3, RecursionExists
    <2> QED BY <2>1 DEF Iterates
  <1>5. ASSUME NEW i \in 0 .. n PROVE g[i] = Body(g, i)
    <2>1. i = 0 \/ (i \in 1 .. n /\ g[i - 1] \in Nat)
      BY <1>4
    <2> QED BY <1>4, <2>1
  <1> HIDE DEF Body, step
  <1>6. g = [i \in 0 .. n |-> Body(g, i)]
    BY <1>4, <1>5
  <1>7. w = [i \in 0 .. n |-> Body(w, i)]
    BY <1>6
  <1>8. VarintValue(s, p, n) = w[n]
    BY DEF VarintValue, Body, Add
  <1> HIDE DEF w
  <1> DEFINE T == {i \in 0 .. n : w[i] = g[i]}
  <1>9. \A i \in 0 .. n : w[i] = Body(w, i)
    BY <1>7
  <1>10. 0 \in T
    <2>1. 0 \in 0 .. n
      OBVIOUS
    <2> QED BY <1>5, <1>9, <2>1 DEF Body
  <1>11. ASSUME NEW i \in 1 .. n, i - 1 \in T PROVE i \in T
    <2>1. i \in 0 .. n /\ i # 0 /\ w[i - 1] = g[i - 1]
      BY <1>11
    <2> QED BY <1>5, <1>9, <2>1 DEF Body
  <1>12. w[n] = g[n]
    <2> HIDE DEF T
    <2>1. \A i \in 0 .. n : i \in T
      BY <1>10, <1>11, UpTo
    <2> QED BY <2>1 DEF T
  <1>13. \A i \in 1 .. n : g[i] = g[i - 1] + Add(i)
    <2>1. \A i \in 1 .. n : i \in 0 .. n /\ i # 0
      OBVIOUS
    <2> QED BY <1>5, <2>1 DEF Body
  <1> QED
    BY <1>4, <1>8, <1>12, <1>13 DEF Add

\* An accepted varint fits into the word: no bit is lost off its top.
LEMMA VarintBound ==
    ASSUME NEW s \in Seq(Byte), NEW p \in Nat, NEW n \in 1 .. VarintBytes, IsVarint(s, p, n)
    PROVE  VarintValue(s, p, n) \in Nat /\ VarintValue(s, p, n) < WordSize
  <1>1. /\ n \in Nat /\ p + n <= Len(s) /\ Radix \in Nat \ {0} /\ VarintBytes \in Nat
        /\ Len(s) \in Nat
    BY WireAssumption DEF IsVarint
  <1>2. PICK g \in [0 .. n -> Nat] :
          /\ g[0] = 0 /\ \A i \in 1 .. n : g[i] = g[i - 1] + (s[p + i] % Radix) * Weight(i - 1)
          /\ VarintValue(s, p, n) = g[n]
    BY <1>1, VarintRecursion
  <1>3. ASSUME NEW i \in 1 .. n PROVE s[p + i] \in Nat /\ s[p + i] % Radix \in 0 .. (Radix - 1)
    <2>1. s[p + i] \in Byte
      BY <1>1
    <2>2. s[p + i] \in Nat
      BY <1>1, <2>1 DEF Byte
    <2> QED BY <1>1, <2>2
  <1> DEFINE T == {i \in 0 .. n : g[i] < Weight(i)}
  <1>4. 0 \in T
    BY <1>1, <1>2, WeightFacts
  <1>5. ASSUME NEW i \in 1 .. n, i - 1 \in T PROVE i \in T
    <2> DEFINE x == s[p + i] % Radix
               y == Weight(i - 1)
    <2>1. x \in 0 .. (Radix - 1) /\ y \in Nat /\ Weight(i) = Radix * y /\ g[i] = g[i - 1] + x * y
      <3>1. i - 1 \in Nat /\ (i - 1) + 1 = i
        BY <1>1
      <3> QED BY <1>2, <1>3, <3>1, WeightFacts
    <2>2. g[i - 1] \in Nat /\ g[i - 1] < y
      BY <1>1, <1>2, <1>5
    <2> HIDE DEF x, y
    <2>3. x * y <= (Radix - 1) * y /\ (Radix - 1) * y + y = Radix * y /\ x * y \in Nat
      BY <1>1, <2>1
    <2>4. g[i] < Weight(i)
      <3> DEFINE u == x * y
                 v == Radix * y
                 z == (Radix - 1) * y
      <3>1. u \in Nat /\ u <= z /\ z + y = v /\ z \in Int /\ g[i] = g[i - 1] + u /\ Weight(i) = v
        BY <1>1, <2>1, <2>3
      <3> HIDE DEF u, v, z
      <3> QED BY <2>1, <2>2, <3>1
    <2> QED BY <2>4
  <1>6. \A i \in 0 .. n : g[i] < Weight(i)
    <2> HIDE DEF T
    <2>1. \A i \in 0 .. n : i \in T
      BY <1>1, <1>4, <1>5, UpTo
    <2> QED BY <2>1 DEF T
  <1> DEFINE W == Weight(VarintBytes - 1)
  <1>7. W \in Nat /\ WordSize = 2 * W
    <2>1. VarintBytes - 1 \in Nat
      BY WireAssumption
    <2> QED BY <2>1, WeightFacts DEF WordSize
  <1>8. g[n] \in Nat
    BY <1>1
  <1>9. CASE n < VarintBytes
    <2>1. n \in 0 .. (VarintBytes - 1) /\ VarintBytes - 1 \in Nat
      BY <1>1, <1>9
    <2>2. Weight(n) <= W /\ Weight(n) \in Nat /\ g[n] < Weight(n)
      BY <1>1, <1>6, <2>1, WeightMonotone, WeightFacts
    <2> HIDE DEF W
    <2> QED BY <1>2, <1>7, <1>8, <2>2
  <1>10. CASE n = VarintBytes
    <2> DEFINE x == s[p + n] % Radix
    <2>1. s[p + n] <= 1 /\ n \in 1 .. n /\ s[p + n] < Radix
      BY <1>1, <1>10 DEF IsVarint, LastByteFits
    <2>2. x \in 0 .. 1
      <3>1. s[p + n] \in 0 .. 1
        BY <1>3, <2>1
      <3>2. s[p + n] % Radix = s[p + n]
        BY <1>1, <2>1, <3>1
      <3> QED BY <3>1, <3>2
    <2>3. g[n] = g[n - 1] + x * W
      BY <1>2, <1>10, <2>1
    <2>4. g[n - 1] < W /\ g[n - 1] \in Nat
      <3>1. n - 1 \in 0 .. n /\ n - 1 = VarintBytes - 1
        BY <1>1, <1>10
      <3> QED BY <1>6, <3>1
    <2> HIDE DEF W, x
    <2>5. x * W <= W
      BY <1>7, <2>2
    <2> QED BY <1>2, <1>7, <1>8, <2>2, <2>3, <2>4, <2>5
  <1> QED
    BY <1>1, <1>9, <1>10

\* The length of a varint is determined by its bytes.
LEMMA VarintUnique ==
    ASSUME NEW s, NEW p \in Nat, NEW n \in 1 .. VarintBytes, NEW m \in 1 .. VarintBytes,
           IsVarint(s, p, n), IsVarint(s, p, m),
           \A i \in 1 .. n : s[p + i] \in Int, \A i \in 1 .. m : s[p + i] \in Int
    PROVE  n = m
  <1>0. Radix \in Nat /\ VarintBytes \in Nat
    BY WireAssumption
  <1>1. ASSUME n < m PROVE FALSE
    <2>1. n \in 1 .. (m - 1) /\ n \in 1 .. n
      BY <1>0, <1>1
    <2>2. s[p + n] < Radix
      BY DEF IsVarint
    <2>3. s[p + n] >= Radix
      <3>1. \A i \in 1 .. (m - 1) : s[p + i] >= Radix
        BY DEF IsVarint
      <3> QED BY <2>1, <3>1
    <2>4. s[p + n] \in Int
      BY <2>1
    <2> QED BY <1>0, <2>2, <2>3, <2>4
  <1>2. ASSUME m < n PROVE FALSE
    <2>1. m \in 1 .. (n - 1) /\ m \in 1 .. m
      BY <1>0, <1>2
    <2>2. s[p + m] < Radix
      BY DEF IsVarint
    <2>3. s[p + m] >= Radix
      <3>1. \A i \in 1 .. (n - 1) : s[p + i] >= Radix
        BY DEF IsVarint
      <3> QED BY <2>1, <3>1
    <2>4. s[p + m] \in Int
      BY <2>1
    <2> QED BY <1>0, <2>2, <2>3, <2>4
  <1> QED
    BY <1>0, <1>1, <1>2

\* The bytes of a buffer are numbers.
LEMMA Bytes ==
    ASSUME NEW s \in Seq(Byte)
    PROVE  Len(s) \in Nat /\ \A i \in 1 .. Len(s) : s[i] \in Nat /\ s[i] < 2 * Radix
  <1>1. Radix \in Nat \ {0}
    BY WireAssumption
  <1>2. \A i \in 1 .. Len(s) : s[i] \in Byte
    OBVIOUS
  <1> QED BY <1>1, <1>2 DEF Byte

\* read_varint accepts the varint at p, if there is one.
LEMMA ReadsVarint ==
    ASSUME NEW s \in Seq(Byte), NEW p \in Nat, NEW n \in 1 .. VarintBytes, IsVarint(s, p, n)
    PROVE  read_varint(s, p) = Ok(p + n, VarintValue(s, p, n))
  <1> DEFINE m == CHOOSE l \in 1 .. VarintBytes : IsVarint(s, p, l)
  <1>1. m \in 1 .. VarintBytes /\ IsVarint(s, p, m)
    OBVIOUS
  <1>2. read_varint(s, p) = Ok(p + m, VarintValue(s, p, m))
    BY DEF read_varint
  <1> HIDE DEF m
  <1>3. ASSUME NEW l \in 1 .. VarintBytes, IsVarint(s, p, l) PROVE \A i \in 1 .. l : s[p + i] \in Int
    <2>1. p + l <= Len(s) /\ Len(s) \in Nat /\ VarintBytes \in Nat
      BY <1>3, WireAssumption DEF IsVarint
    <2>2. \A i \in 1 .. l : p + i \in 1 .. Len(s)
      BY <2>1
    <2>3. \A i \in 1 .. Len(s) : s[i] \in Nat
      BY Bytes
    <2>4. ASSUME NEW i \in 1 .. l PROVE s[p + i] \in Int
      <3>1. s[p + i] \in Nat
        BY <2>2, <2>3
      <3> QED BY <3>1
    <2> QED BY <2>4
  <1>4. m = n
    BY <1>1, <1>3, VarintUnique
  <1> QED
    BY <1>2, <1>4

\* What read_varint returns: a value of the word with the cursor moved on inside the buffer,
\* or an error.
LEMMA VarintFacts ==
    ASSUME NEW s \in Seq(Byte), NEW p \in Nat
    PROVE  LET r == read_varint(s, p)
           IN  \/ /\ r.err = None /\ r.next \in (p + 1) .. Len(s)
                  /\ r.val \in Nat /\ r.val < WordSize
                  /\ p < Len(s)
               \/ r.err \in {"VarintOverflow", "TruncatedVarint"}
  <1>1. CASE \E n \in 1 .. VarintBytes : IsVarint(s, p, n)
    <2>1. PICK n \in 1 .. VarintBytes : IsVarint(s, p, n)
      BY <1>1
    <2>2. read_varint(s, p) = Ok(p + n, VarintValue(s, p, n))
      BY <2>1, ReadsVarint
    <2>3. VarintValue(s, p, n) \in Nat /\ VarintValue(s, p, n) < WordSize
      BY <2>1, VarintBound
    <2>4. p + n <= Len(s) /\ Len(s) \in Nat /\ VarintBytes \in Nat
      BY <2>1, WireAssumption DEF IsVarint
    <2>5. p + n \in (p + 1) .. Len(s) /\ p < Len(s)
      BY <2>4
    <2> QED BY <2>2, <2>3, <2>5 DEF Ok
  <1>2. CASE ~\E n \in 1 .. VarintBytes : IsVarint(s, p, n)
    BY <1>2 DEF read_varint, Err
  <1> QED
    BY <1>1, <1>2

=============================================================================
