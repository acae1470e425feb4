-------------------------- MODULE InductionLemmas --------------------------
(***************************************************************************)
(* The least element of a set of natural numbers, the form of induction    *)
(* the proofs of this project use: a fact about every number holds when    *)
(* the set of its counterexamples has no least element.  With it, that a   *)
(* recursive function on 0 .. n exists, that a sum over a finite set does  *)
(* not depend on the order of its terms, and the facts about sequences     *)
(* that the proofs of several components need.                             *)
(***************************************************************************)
EXTENDS Integers, Sequences, SequencesExt, Functions, TLAPS, WellFoundedInduction,
        SequenceTheorems, FiniteSetTheorems, SeqSelect

\* A non-empty set of natural numbers has a least element.
LEMMA LeastNat ==
    ASSUME NEW T, T \subseteq Nat, T # {}
    PROVE  \E x \in T : \A y \in T : x <= y
  <1> DEFINE R == {p \in Nat \X Nat : p[1] < p[2]}
  <1>1. R = OpToRel(<, Nat)
    BY DEF OpToRel
  <1>2. IsWellFoundedOn(R, Nat)
    BY <1>1, NatLessThanWellFounded
  <1>3. PICK x \in T : \A y \in T : ~(<<y, x>> \in R)
    <2> HIDE DEF R
    <2> QED BY <1>2, WFMin
  <1>4. ASSUME NEW y \in T PROVE x <= y
    <2>1. x \in Nat /\ y \in Nat
      OBVIOUS
    <2>2. <<y, x>> \in R <=> y < x
      BY <2>1
    <2> QED
      BY <1>3, <2>1, <2>2
  <1> QED
    BY <1>4

\* Min of FiniteSetsExt is that element.
LEMMA MinIsLeast ==
    ASSUME NEW T, T \subseteq Nat, T # {}
    PROVE  Min(T) \in T /\ \A y \in T : Min(T) <= y
  BY LeastNat DEF Min

\* A set that has 0 and the successor of each of its elements below n has all of 0 .. n.
LEMMA UpTo ==
    ASSUME NEW n \in Nat, NEW T, 0 \in T, \A i \in 1 .. n : i - 1 \in T => i \in T
    PROVE  \A i \in 0 .. n : i \in T
  <1> DEFINE U == {i \in 0 .. n : i \notin T}
  <1> SUFFICES U = {}
    OBVIOUS
  <1> SUFFICES ASSUME U # {} PROVE FALSE
    OBVIOUS
  <1>1. PICK x \in U : \A y \in U : x <= y
    <2>1. U \subseteq Nat
      OBVIOUS
    <2> HIDE DEF U
    <2> QED BY <2>1, LeastNat
  <1>2. x \in 1 .. n /\ x \notin T
    OBVIOUS
  <1>3. x - 1 \in 0 .. n /\ x - 1 \notin U
    <2>1. x - 1 \in 0 .. n /\ ~(x <= x - 1)
      BY <1>2
    <2> QED BY <1>1, <2>1
  <1> QED
    BY <1>2, <1>3

\* g is the function on 0 .. n that begins with a and goes from i - 1 to i by step[i].
Iterates(g, n, V, a, step) ==
    g \in [0 .. n -> V] /\ g[0] = a /\ \A i \in 1 .. n : g[i] = step[i][g[i - 1]]

\* A function on 0 .. n defined from its value at i - 1 exists.
LEMMA RecursionExists ==
    ASSUME NEW n \in Nat, NEW V, NEW a \in V, NEW step, step \in [1 .. n -> [V -> V]]
    PROVE  \E g : Iterates(g, n, V, a, step)
  <1> DEFINE Good(k, g) == g[0] = a /\ \A i \in 1 .. k : g[i] = step[i][g[i - 1]]
             T == {k \in 0 .. n : \E g \in [0 .. k -> V] : Good(k, g)}
  <1>1. 0 \in T
    <2> DEFINE g == [i \in 0 .. 0 |-> a]
    <2>1. g \in [0 .. 0 -> V] /\ Good(0, g)
      OBVIOUS
    <2> HIDE DEF g, Good
    <2>2. \E f \in [0 .. 0 -> V] : Good(0, f)
      BY <2>1
    <2> QED BY <2>2
  <1>2. ASSUME NEW k \in 1 .. n, k - 1 \in T PROVE k \in T
    <2>1. PICK g \in [0 .. (k - 1) -> V] : Good(k - 1, g)
      BY <1>2
    <2> DEFINE h == [i \in 0 .. k |-> IF i = k THEN step[k][g[k - 1]] ELSE g[i]]
    <2>2. g[k - 1] \in V
      OBVIOUS
    <2>3. step[k][g[k - 1]] \in V
      BY <2>2
    <2>4. h \in [0 .. k -> V]
      BY <2>3
    <2>5. h[0] = a
      BY <2>1
    <2>6. ASSUME NEW i \in 1 .. k PROVE h[i] = step[i][h[i - 1]]
      <3>1. CASE i = k
        <4>1. h[k] = step[k][g[k - 1]] /\ h[k - 1] = g[k - 1]
          OBVIOUS
        <4> QED BY <3>1, <4>1
      <3>2. CASE i # k
        <4>1. i \in 1 .. (k - 1) /\ h[i] = g[i] /\ h[i - 1] = g[i - 1]
          BY <3>2
        <4> QED BY <2>1, <4>1
      <3> QED BY <3>1, <3>2
    <2>7. Good(k, h)
      BY <2>5, <2>6
    <2> HIDE DEF h, Good
    <2>8. \E f \in [0 .. k -> V] : Good(k, f)
      BY <2>4, <2>7
    <2> QED BY <2>8
  <1>3. n \in T
    <2> HIDE DEF T
    <2>1. \A i \in 0 .. n : i \in T
      BY <1>1, <1>2, UpTo
    <2> QED BY <2>1
  <1>4. PICK g : g \in [0 .. n -> V] /\ Good(n, g)
    BY <1>3
  <1>5. Iterates(g, n, V, a, step)
    BY <1>4 DEF Iterates
  <1> QED
    BY <1>5

\* s is a sequence, of whatever.
IsSeq(s) == s \in Seq(ToSet(s))

\* The length of a sequence, and its positions.
LEMMA SeqFacts ==
    ASSUME NEW s, IsSeq(s)
    PROVE  Len(s) \in Nat /\ DOMAIN s = 1 .. Len(s)
  BY LenProperties DEF IsSeq

\* A sequence over any set is one over its own elements.
LEMMA SeqIsSeq ==
    ASSUME NEW S, NEW s \in Seq(S)
    PROVE  IsSeq(s)
  <1>1. Len(s) \in Nat /\ s \in [1 .. Len(s) -> S]
    BY LenProperties
  <1>2. s \in [1 .. Len(s) -> ToSet(s)]
    BY <1>1 DEF ToSet
  <1> QED
    BY <1>1, <1>2, SeqDef DEF IsSeq

\* A function on the first numbers is a sequence of that length.
LEMMA FunctionIsSeq ==
    ASSUME NEW n \in Nat, NEW s, NEW S, s \in [1 .. n -> S]
    PROVE  IsSeq(s) /\ Len(s) = n
  <1>1. s \in Seq(S)
    BY SeqDef
  <1>2. Len(s) \in Nat /\ DOMAIN s = 1 .. Len(s) /\ DOMAIN s = 1 .. n
    BY <1>1, LenProperties
  <1>3. Len(s) = n
    BY <1>2
  <1> QED
    BY <1>1, <1>3, SeqIsSeq

\* A sequence over any set: also one over its own elements, with a length and positions.
LEMMA SeqOfElements ==
    ASSUME NEW X, NEW s \in Seq(X)
    PROVE  IsSeq(s) /\ Len(s) \in Nat /\ DOMAIN s = 1 .. Len(s)
  BY SeqIsSeq, SeqFacts

\* Append adds one element and keeps the others.
LEMMA Appended ==
    ASSUME NEW S, NEW s \in Seq(S), NEW e \in S
    PROVE  LET t == Append(s, e)
           IN  /\ t \in Seq(S)
               /\ Len(t) = Len(s) + 1
               /\ t[Len(s) + 1] = e
               /\ \A i \in 1 .. Len(s) : t[i] = s[i]
  BY AppendProperties

\* Front drops the last element.
LEMMA FrontFacts ==
    ASSUME NEW S, NEW s \in Seq(S), s # <<>>
    PROVE  /\ Front(s) \in Seq(S)
           /\ Len(Front(s)) = Len(s) - 1
           /\ \A i \in 1 .. (Len(s) - 1) : Front(s)[i] = s[i]
           /\ Len(s) \in Nat /\ Len(s) > 0
  <1>1. Len(s) \in Nat \ {0}
    BY EmptySeq
  <1> DEFINE n == Len(s) - 1
           t == SubSeq(s, 1, n)
  <1>2. n \in Nat /\ \A i \in 1 .. n : s[i] \in S
    BY <1>1, ElementOfSeq
  <1>3. t \in Seq(S) /\ Len(t) = n /\ \A i \in 1 .. n : t[i] = s[i]
    <2> HIDE DEF n
    <2>1. /\ SubSeq(s, 1, n) \in Seq(S)
          /\ Len(SubSeq(s, 1, n)) = IF 1 <= n THEN n - 1 + 1 ELSE 0
          /\ \A i \in 1 .. n - 1 + 1 : SubSeq(s, 1, n)[i] = s[1 + i - 1]
      BY <1>2, SubSeqProperties
    <2> HIDE DEF t
    <2>2. /\ t \in Seq(S)
          /\ Len(t) = IF 1 <= n THEN n - 1 + 1 ELSE 0
          /\ \A i \in 1 .. n - 1 + 1 : t[i] = s[1 + i - 1]
      BY <2>1 DEF t
    <2>3. ASSUME NEW i \in 1 .. n PROVE t[i] = s[i]
      <3>1. i \in 1 .. n - 1 + 1 /\ 1 + i - 1 = i
        BY <1>2
      <3> QED BY <2>2, <3>1
    <2> QED
      BY <1>2, <2>2, <2>3
  <1>4. Front(s) = t
    BY DEF Front
  <1> QED
    BY <1>1, <1>3, <1>4

\* The first element of a sequence, and the rest.
LEMMA TailFacts ==
    ASSUME NEW s, IsSeq(s), s # <<>>
    PROVE  IsSeq(Tail(s)) /\ ToSet(s) = {Head(s)} \cup ToSet(Tail(s))
  <1>1. PICK S : S = ToSet(s)
    OBVIOUS
  <1>2. s \in Seq(S)
    BY <1>1 DEF IsSeq
  <1>3. PICK n : n = Len(s)
    OBVIOUS
  <1>4. n \in Nat \ {0} /\ DOMAIN s = 1 .. n
    <2>1. n \in Nat /\ DOMAIN s = 1 .. n
      BY <1>3, SeqFacts
    <2>2. n # 0
      BY <1>2, <1>3, EmptySeq
    <2> QED BY <2>1, <2>2
  <1>5. PICK t : t = Tail(s)
    OBVIOUS
  <1>6. t \in Seq(S) /\ Len(t) = n - 1 /\ Head(s) = s[1] /\ \A i \in 1 .. (n - 1) : t[i] = s[i + 1]
    BY <1>2, <1>3, <1>4, <1>5, HeadTailProperties
  <1>7. IsSeq(t) /\ DOMAIN t = 1 .. (n - 1)
    BY <1>6, SeqOfElements
  <1>8. ToSet(s) = {Head(s)} \cup ToSet(t)
    <2>1. ASSUME NEW i \in 1 .. n PROVE s[i] \in {Head(s)} \cup ToSet(t)
      <3>1. CASE i = 1
        BY <1>6, <3>1
      <3>2. CASE i # 1
        <4>1. i - 1 \in 1 .. (n - 1) /\ (i - 1) + 1 = i
          BY <1>4, <3>2
        <4>2. t[i - 1] = s[i]
          BY <1>6, <4>1
        <4> QED BY <1>7, <4>1, <4>2 DEF ToSet
      <3> QED BY <3>1, <3>2
    <2>2. ASSUME NEW i \in 1 .. (n - 1) PROVE t[i] \in ToSet(s)
      <3>1. i + 1 \in 1 .. n
        BY <1>4
      <3> QED BY <1>4, <1>6, <3>1 DEF ToSet
    <2>3. Head(s) \in ToSet(s)
      <3>1. 1 \in 1 .. n
        BY <1>4
      <3> QED BY <1>4, <1>6, <3>1 DEF ToSet
    <2>4. ToSet(s) \subseteq {Head(s)} \cup ToSet(t)
      BY <1>4, <2>1 DEF ToSet
    <2>5. ToSet(t) \subseteq ToSet(s)
      BY <1>7, <2>2 DEF ToSet
    <2> QED BY <2>3, <2>4, <2>5
  <1> QED BY <1>5, <1>7, <1>8

\* One sequence after another.
LEMMA JoinFacts ==
    ASSUME NEW s, IsSeq(s), NEW t, IsSeq(t)
    PROVE  IsSeq(s \o t) /\ ToSet(s \o t) = ToSet(s) \cup ToSet(t)
  <1>1. PICK S : S = ToSet(s) \cup ToSet(t)
    OBVIOUS
  <1>2. s \in Seq(S) /\ t \in Seq(S)
    <2>1. s \in Seq(ToSet(s)) /\ t \in Seq(ToSet(t)) /\ ToSet(s) \subseteq S /\ ToSet(t) \subseteq S
      BY <1>1 DEF IsSeq
    <2> QED BY <2>1
  <1>3. PICK n, m : n = Len(s) /\ m = Len(t)
    OBVIOUS
  <1>4. n \in Nat /\ m \in Nat /\ DOMAIN s = 1 .. n /\ DOMAIN t = 1 .. m
    BY <1>3, SeqFacts
  <1>5. PICK u : u = s \o t
    OBVIOUS
  <1>6. u \in Seq(S) /\ Len(u) = n + m /\ \A i \in 1 .. (n + m) : u[i] = IF i <= n THEN s[i] ELSE t[i - n]
    BY <1>2, <1>3, <1>5, ConcatProperties
  <1>7. IsSeq(u) /\ DOMAIN u = 1 .. (n + m)
    BY <1>6, SeqOfElements
  <1>8. ToSet(u) \subseteq ToSet(s) \cup ToSet(t)
    <2>1. ASSUME NEW i \in 1 .. (n + m) PROVE u[i] \in ToSet(s) \cup ToSet(t)
      <3>1. CASE i <= n
        <4>1. i \in 1 .. n
          BY <1>4, <3>1
        <4> QED BY <1>4, <1>6, <3>1, <4>1 DEF ToSet
      <3>2. CASE ~(i <= n)
        <4>1. i - n \in 1 .. m
          BY <1>4, <3>2
        <4> QED BY <1>4, <1>6, <3>2, <4>1 DEF ToSet
      <3> QED BY <3>1, <3>2
    <2> QED BY <1>7, <2>1 DEF ToSet
  <1>9. ToSet(s) \subseteq ToSet(u)
    <2>1. ASSUME NEW i \in 1 .. n PROVE i \in 1 .. (n + m) /\ u[i] = s[i]
      BY <1>4, <1>6
    <2> QED BY <1>4, <1>7, <2>1 DEF ToSet
  <1>10. ToSet(t) \subseteq ToSet(u)
    <2>1. ASSUME NEW i \in 1 .. m PROVE n + i \in 1 .. (n + m) /\ u[n + i] = t[i]
      <3>1. n + i \in 1 .. (n + m) /\ ~(n + i <= n) /\ (n + i) - n = i
        BY <1>4
      <3> QED BY <1>6, <3>1
    <2> QED BY <1>4, <1>7, <2>1 DEF ToSet
  <1> QED BY <1>5, <1>7, <1>8, <1>9, <1>10

\* No element of s is in two places.
NoRepeat(s) == \A i, j \in DOMAIN s : s[i] = s[j] => i = j

\* Select keeps exactly the elements of s that are in S, and repeats none.
LEMMA SelectFacts ==
    ASSUME NEW X, NEW s \in Seq(X), NEW S
    PROVE  /\ Select(s, S) \in Seq(X)
           /\ ToSet(Select(s, S)) = ToSet(s) \cap S
           /\ NoRepeat(s) => NoRepeat(Select(s, S))
  <1> DEFINE n == Len(s)
             V == Seq(X)
             a == <<>>
             step == [i \in 1 .. n |-> [v \in V |-> IF s[i] \in S THEN Append(v, s[i]) ELSE v]]
             Body(f, i) == IF i = 0 THEN <<>>
                           ELSE IF s[i] \in S THEN Append(f[i - 1], s[i]) ELSE f[i - 1]
             r == CHOOSE f : f = [i \in 0 .. n |-> Body(f, i)]
  <1>1. n \in Nat /\ (\A i \in 1 .. n : s[i] \in X) /\ a \in V
    OBVIOUS
  <1>2. step \in [1 .. n -> [V -> V]]
    BY <1>1
  <1>3. PICK g : g \in [0 .. n -> V] /\ g[0] = a /\ \A i \in 1 .. n : g[i] = step[i][g[i - 1]]
    <2> HIDE DEF step, V, n, a
    <2>1. \E g : Iterates(g, n, V, a, step)
      BY <1>1, <1>2, RecursionExists
    <2> QED BY <2>1 DEF Iterates
  <1>4. ASSUME NEW i \in 1 .. n
        PROVE  g[i] = IF s[i] \in S THEN Append(g[i - 1], s[i]) ELSE g[i - 1]
    <2>1. g[i - 1] \in V
      BY <1>1, <1>3
    <2>2. g[i] = step[i][g[i - 1]]
      BY <1>3
    <2> HIDE DEF V
    <2> QED BY <2>1, <2>2
  <1>5. g = [i \in 0 .. n |-> Body(g, i)]
    <2>1. ASSUME NEW i \in 0 .. n PROVE g[i] = Body(g, i)
      <3>1. CASE i = 0
        BY <1>3, <3>1
      <3>2. CASE i # 0
        <4>1. i \in 1 .. n
          BY <1>1, <3>2
        <4> QED BY <1>4, <3>2, <4>1
      <3> QED BY <3>1, <3>2
    <2> HIDE DEF V, Body
    <2> QED BY <1>3, <2>1
  <1>6. r = [i \in 0 .. n |-> Body(r, i)]
    <2> HIDE DEF Body
    <2> QED BY <1>5
  <1>7. Select(s, S) = r[n]
    BY DEF Select
  <1> HIDE DEF r
  <1>8. r[0] = <<>> /\ \A i \in 1 .. n : r[i] = IF s[i] \in S THEN Append(r[i - 1], s[i]) ELSE r[i - 1]
    <2>1. \A i \in 0 .. n : r[i] = Body(r, i)
      <3> HIDE DEF Body
      <3> QED BY <1>6
    <2>2. 0 \in 0 .. n /\ \A i \in 1 .. n : i \in 0 .. n /\ i # 0
      BY <1>1
    <2> HIDE DEF n
    <2> QED BY <2>1, <2>2
  <1> DEFINE Kept(i) == {x \in X : x \in S /\ \E k \in 1 .. i : s[k] = x}
             T == {i \in 0 .. n : /\ r[i] \in Seq(X) /\ ToSet(r[i]) = Kept(i)
                                  /\ NoRepeat(s) => NoRepeat(r[i])}
  <1>9. 0 \in T
    <2>1. ToSet(r[0]) = {} /\ r[0] \in Seq(X)
      BY <1>8 DEF ToSet
    <2>2. Kept(0) = {} /\ 0 \in 0 .. n
      BY <1>1
    <2>3. NoRepeat(r[0])
      BY <1>8 DEF NoRepeat
    <2> QED BY <2>1, <2>2, <2>3
  <1>10. ASSUME NEW i \in 1 .. n, i - 1 \in T PROVE i \in T
    <2> DEFINE t == r[i - 1]
    <2>1. /\ t \in Seq(X) /\ ToSet(t) = Kept(i - 1) /\ s[i] \in X
          /\ NoRepeat(s) => NoRepeat(t)
      BY <1>1, <1>10
    <2>2. \A x : (\E k \in 1 .. i : s[k] = x) <=> (x = s[i] \/ \E k \in 1 .. (i - 1) : s[k] = x)
      OBVIOUS
    <2>3. CASE s[i] \in S
      <3>1. r[i] = Append(t, s[i])
        BY <1>8, <2>3
      <3> HIDE DEF t
      <3>2. /\ r[i] \in Seq(X) /\ Len(r[i]) = Len(t) + 1 /\ r[i][Len(t) + 1] = s[i]
            /\ \A k \in 1 .. Len(t) : r[i][k] = t[k]
        BY <2>1, <3>1, Appended
      <3>3. ToSet(r[i]) = ToSet(t) \cup {s[i]}
        <4>1. DOMAIN t = 1 .. Len(t) /\ DOMAIN r[i] = 1 .. (Len(t) + 1) /\ Len(t) \in Nat
          BY <2>1, <3>2
        <4>2. \A k : k \in 1 .. (Len(t) + 1) <=> (k \in 1 .. Len(t) \/ k = Len(t) + 1)
          BY <4>1
        <4> DEFINE u == r[i]
        <4> HIDE DEF u
        <4>3. /\ u[Len(t) + 1] = s[i] /\ \A k \in 1 .. Len(t) : u[k] = t[k]
              /\ DOMAIN u = 1 .. (Len(t) + 1)
          BY <3>2, <4>1 DEF u
        <4>4. ToSet(u) = ToSet(t) \cup {s[i]}
          BY <4>1, <4>2, <4>3 DEF ToSet
        <4> QED BY <4>4 DEF u
      <3>4. Kept(i) = Kept(i - 1) \cup {s[i]}
        BY <2>1, <2>2, <2>3
      <3>5. ASSUME NoRepeat(s) PROVE NoRepeat(r[i])
        <4>1. DOMAIN t = 1 .. Len(t) /\ DOMAIN r[i] = 1 .. (Len(t) + 1) /\ Len(t) \in Nat
          BY <2>1, <3>2
        <4>2. s[i] \notin ToSet(t)
          <5>1. DOMAIN s = 1 .. n /\ \A k \in 1 .. (i - 1) : k \in 1 .. n /\ k # i
            BY <1>1
          <5>2. \A k \in 1 .. (i - 1) : s[k] # s[i]
            BY <3>5, <5>1 DEF NoRepeat
          <5> QED BY <2>1, <5>2
        <4>3. \A k \in 1 .. Len(t) : r[i][k] # s[i]
          BY <3>2, <4>1, <4>2 DEF ToSet
        <4>4. \A k \in 1 .. (Len(t) + 1) : k \in 1 .. Len(t) \/ k = Len(t) + 1
          BY <4>1
        <4>5. NoRepeat(t)
          BY <2>1, <3>5
        <4> DEFINE u == r[i]
        <4> HIDE DEF u
        <4>6. /\ u[Len(t) + 1] = s[i] /\ \A k \in 1 .. Len(t) : u[k] = t[k] /\ u[k] # s[i]
              /\ DOMAIN u = 1 .. (Len(t) + 1)
          BY <3>2, <4>1, <4>3 DEF u
        <4>7. NoRepeat(u)
          BY <4>1, <4>4, <4>5, <4>6 DEF NoRepeat
        <4> QED BY <4>7 DEF u
      <3> QED BY <2>1, <3>2, <3>3, <3>4, <3>5
    <2>4. CASE s[i] \notin S
      <3>1. r[i] = t
        BY <1>8, <2>4
      <3>2. Kept(i) = Kept(i - 1)
        BY <2>1, <2>2, <2>4
      <3> QED BY <2>1, <3>1, <3>2
    <2> QED BY <2>3, <2>4
  <1>11. n \in T
    <2> HIDE DEF T
    <2>1. \A i \in 0 .. n : i \in T
      BY <1>1, <1>9, <1>10, UpTo
    <2> QED BY <1>1, <2>1
  <1>12. Kept(n) = ToSet(s) \cap S
    BY <1>1 DEF ToSet
  <1> QED
    BY <1>7, <1>11, <1>12

\* A sequence without repetition after another one: its first element is not in the rest.
LEMMA TailApart ==
    ASSUME NEW s, IsSeq(s), s # <<>>, NoRepeat(s)
    PROVE  NoRepeat(Tail(s)) /\ Head(s) \notin ToSet(Tail(s))
  <1>1. PICK S : S = ToSet(s)
    OBVIOUS
  <1>2. s \in Seq(S)
    BY <1>1 DEF IsSeq
  <1>3. PICK n : n = Len(s)
    OBVIOUS
  <1>4. n \in Nat \ {0} /\ DOMAIN s = 1 .. n
    <2>1. n \in Nat /\ DOMAIN s = 1 .. n
      BY <1>3, SeqFacts
    <2>2. n # 0
      BY <1>2, <1>3, EmptySeq
    <2> QED BY <2>1, <2>2
  <1>5. PICK t : t = Tail(s)
    OBVIOUS
  <1>6. t \in Seq(S) /\ Len(t) = n - 1 /\ Head(s) = s[1] /\ \A i \in 1 .. (n - 1) : t[i] = s[i + 1]
    BY <1>2, <1>3, <1>4, <1>5, HeadTailProperties
  <1>7. DOMAIN t = 1 .. (n - 1)
    BY <1>6, SeqOfElements
  <1>8. \A i \in 1 .. (n - 1) : i + 1 \in 1 .. n /\ i + 1 # 1
    BY <1>4
  <1>9. 1 \in 1 .. n /\ \A i, j \in 1 .. (n - 1) : i + 1 = j + 1 => i = j
    BY <1>4
  <1>10. NoRepeat(t)
    <2>1. ASSUME NEW i \in 1 .. (n - 1), NEW j \in 1 .. (n - 1), t[i] = t[j] PROVE i = j
      <3>1. s[i + 1] = s[j + 1]
        BY <1>6, <2>1
      <3>2. i + 1 = j + 1
        BY <1>4, <1>8, <3>1 DEF NoRepeat
      <3> QED BY <1>9, <3>2
    <2> QED BY <1>7, <2>1 DEF NoRepeat
  <1>11. Head(s) \notin ToSet(t)
    <2>1. ASSUME NEW i \in 1 .. (n - 1) PROVE t[i] # s[1]
      <3>1. s[i + 1] # s[1]
        BY <1>4, <1>8, <1>9 DEF NoRepeat
      <3> QED BY <1>6, <3>1
    <2> QED BY <1>6, <1>7, <2>1 DEF ToSet
  <1> QED BY <1>5, <1>10, <1>11

\* Two sequences without repetition and without a common element, one after the other.
LEMMA JoinApart ==
    ASSUME NEW s, IsSeq(s), NEW t, IsSeq(t), NoRepeat(s), NoRepeat(t), ToSet(s) \cap ToSet(t) = {}
    PROVE  NoRepeat(s \o t)
  <1>1. PICK S : S = ToSet(s) \cup ToSet(t)
    OBVIOUS
  <1>2. s \in Seq(S) /\ t \in Seq(S)
    <2>1. s \in Seq(ToSet(s)) /\ t \in Seq(ToSet(t)) /\ ToSet(s) \subseteq S /\ ToSet(t) \subseteq S
      BY <1>1 DEF IsSeq
    <2> QED BY <2>1
  <1>3. PICK n, m : n = Len(s) /\ m = Len(t)
    OBVIOUS
  <1>4. n \in Nat /\ m \in Nat /\ DOMAIN s = 1 .. n /\ DOMAIN t = 1 .. m
    BY <1>3, SeqFacts
  <1>5. PICK u : u = s \o t
    OBVIOUS
  <1>6. u \in Seq(S) /\ Len(u) = n + m /\ \A i \in 1 .. (n + m) : u[i] = IF i <= n THEN s[i] ELSE t[i - n]
    BY <1>2, <1>3, <1>5, ConcatProperties
  <1>7. DOMAIN u = 1 .. (n + m)
    BY <1>6, SeqOfElements
  <1>8. ASSUME NEW i \in 1 .. (n + m)
        PROVE  \/ i \in 1 .. n /\ u[i] = s[i] /\ u[i] \in ToSet(s)
               \/ i - n \in 1 .. m /\ u[i] = t[i - n] /\ u[i] \in ToSet(t)
    <2>1. CASE i <= n
      <3>1. i \in 1 .. n
        BY <1>4, <2>1
      <3> QED BY <1>4, <1>6, <2>1, <3>1 DEF ToSet
    <2>2. CASE ~(i <= n)
      <3>1. i - n \in 1 .. m
        BY <1>4, <2>2
      <3> QED BY <1>4, <1>6, <2>2, <3>1 DEF ToSet
    <2> QED BY <2>1, <2>2
  <1>9. ASSUME NEW i \in 1 .. (n + m), NEW j \in 1 .. (n + m), u[i] = u[j] PROVE i = j
    <2>1. CASE i \in 1 .. n /\ u[i] = s[i] /\ u[i] \in ToSet(s)
      <3>1. j \in 1 .. n /\ u[j] = s[j]
        BY <1>8, <1>9, <2>1
      <3> QED BY <1>4, <1>9, <2>1, <3>1 DEF NoRepeat
    <2>2. CASE i - n \in 1 .. m /\ u[i] = t[i - n] /\ u[i] \in ToSet(t)
      <3>1. j - n \in 1 .. m /\ u[j] = t[j - n]
        BY <1>8, <1>9, <2>2
      <3>2. i - n = j - n
        BY <1>4, <1>9, <2>2, <3>1 DEF NoRepeat
      <3> QED BY <1>4, <3>2
    <2> QED BY <1>8, <2>1, <2>2
  <1> QED BY <1>5, <1>7, <1>9 DEF NoRepeat

-----------------------------------------------------------------------------
(* Walks over a forest with a list of pending nodes.                       *)

\* Nodes N, those R that the walk starts from, and the nodes K[x] below x: nothing is below two.
Forest(N, R, K) ==
    /\ R \subseteq N /\ \A x \in N : K[x] \subseteq N /\ K[x] \cap R = {}
    /\ \A x, y \in N : x # y => K[x] \cap K[y] = {}

\* Z has been visited and w is pending: what the walk has met, each node once.
Walked(w, Z, N, R, K) ==
    /\ IsSeq(w) /\ NoRepeat(w) /\ Z \subseteq N /\ ToSet(w) \cap Z = {}
    /\ ToSet(w) \cup Z = R \cup UNION {K[x] : x \in Z}

\* A walk starts from the nodes of R.
LEMMA WalkStart ==
    ASSUME NEW N, NEW R, NEW K, NEW w, IsSeq(w), NoRepeat(w), ToSet(w) = R
    PROVE  Walked(w, {}, N, R, K)
  BY DEF Walked

\* The first pending node is visited, and what is below it becomes pending.
LEMMA WalkStep ==
    ASSUME NEW N, NEW R, NEW K, Forest(N, R, K), NEW w, NEW Z, Walked(w, Z, N, R, K), w # <<>>,
           NEW k, IsSeq(k), NoRepeat(k), ToSet(k) = K[Head(w)]
    PROVE  /\ Head(w) \in N /\ Head(w) \notin Z
           /\ Walked(k \o Tail(w), Z \cup {Head(w)}, N, R, K)
  <1>1. PICK h : h = Head(w)
    OBVIOUS
  <1>2. PICK t : t = Tail(w)
    OBVIOUS
  <1>3. /\ IsSeq(t) /\ ToSet(w) = {h} \cup ToSet(t)
        /\ NoRepeat(t) /\ h \notin ToSet(t)
    BY <1>1, <1>2, TailFacts, TailApart DEF Walked
  <1>4. ToSet(w) \cap Z = {} /\ Z \subseteq N /\ ToSet(w) \cup Z = R \cup UNION {K[x] : x \in Z}
    BY DEF Walked
  <1>5. ToSet(w) \cup Z \subseteq N
    BY <1>4 DEF Forest
  <1>6. h \in N /\ h \notin Z
    BY <1>3, <1>4, <1>5
  <1>7. K[h] \cap (ToSet(w) \cup Z) = {}
    <2>1. \A x \in Z : x \in N /\ x # h
      BY <1>4, <1>6
    <2>2. \A x \in Z : K[x] \cap K[h] = {}
      BY <1>6, <2>1 DEF Forest
    <2>3. K[h] \cap R = {}
      BY <1>6 DEF Forest
    <2> QED BY <1>4, <2>2, <2>3
  <1>8. PICK v : v = k \o t
    OBVIOUS
  <1>9. IsSeq(v) /\ ToSet(v) = K[h] \cup ToSet(t)
    BY <1>1, <1>3, <1>8, JoinFacts
  <1>10. NoRepeat(v)
    <2>1. ToSet(k) \cap ToSet(t) = {}
      BY <1>1, <1>3, <1>7
    <2> QED BY <1>3, <1>8, <2>1, JoinApart
  <1>11. PICK Y : Y = Z \cup {h}
    OBVIOUS
  <1>12. UNION {K[x] : x \in Y} = K[h] \cup UNION {K[x] : x \in Z}
    BY <1>11
  <1>13. ToSet(v) \cup Y = R \cup UNION {K[x] : x \in Y}
    BY <1>3, <1>4, <1>9, <1>11, <1>12
  <1>14. ToSet(v) \cap Y = {}
    <2>1. h \notin K[h]
      BY <1>3, <1>7
    <2> QED BY <1>3, <1>4, <1>7, <1>9, <1>11, <2>1
  <1>15. Y \subseteq N
    BY <1>4, <1>6, <1>11
  <1> QED BY <1>1, <1>2, <1>6, <1>8, <1>9, <1>10, <1>11, <1>13, <1>14, <1>15 DEF Walked

\* When nothing is pending every node has been visited, if each is in R or below one of lower rank.
LEMMA WalkEnds ==
    ASSUME NEW N, NEW R, NEW K, NEW Z, Walked(<<>>, Z, N, R, K), NEW rank,
           \A x \in N : rank[x] \in Nat,
           \A x \in N : x \in R \/ \E y \in N : x \in K[y] /\ rank[y] < rank[x]
    PROVE  Z = N
  <1>1. ToSet(<<>>) = {}
    BY DEF ToSet
  <1>2. Z \subseteq N /\ Z = R \cup UNION {K[x] : x \in Z}
    BY <1>1 DEF Walked
  <1>3. PICK M : M = {rank[x] : x \in N \ Z}
    OBVIOUS
  <1>4. ASSUME N \ Z # {} PROVE FALSE
    <2>1. M # {} /\ M \subseteq Nat
      BY <1>3, <1>4
    <2>2. PICK r \in M : \A q \in M : r <= q
      BY <2>1, LeastNat
    <2>3. PICK x \in N \ Z : r = rank[x]
      BY <1>3
    <2>4. x \notin R
      BY <1>2
    <2>5. PICK y \in N : x \in K[y] /\ rank[y] < rank[x]
      BY <2>4
    <2>6. y \notin Z
      BY <1>2, <2>5
    <2>7. rank[y] \in M
      BY <1>3, <2>6
    <2>8. r <= rank[y] /\ rank[y] < r /\ r \in Nat /\ rank[y] \in Nat
      BY <2>1, <2>2, <2>3, <2>5, <2>7
    <2> QED BY <2>8
  <1> QED BY <1>2, <1>4

-----------------------------------------------------------------------------
(* Sums over finite sets.                                                  *)

\* The subsets of a finite set, and what removing an element does to one.
LEMMA SubsetCards ==
    ASSUME NEW S, IsFiniteSet(S), NEW s \in SUBSET S
    PROVE  /\ IsFiniteSet(s) /\ Cardinality(s) \in Nat /\ Cardinality(S) \in Nat
           /\ Cardinality(s) <= Cardinality(S)
           /\ Cardinality(s) = 0 <=> s = {}
           /\ \A x \in s : Cardinality(s \ {x}) = Cardinality(s) - 1
  <1>1. IsFiniteSet(s) /\ Cardinality(s) <= Cardinality(S)
    BY FS_Subset
  <1>2. Cardinality(s) \in Nat /\ Cardinality(S) \in Nat
    BY <1>1, FS_CardinalityType
  <1>3. Cardinality(s) = 0 <=> s = {}
    BY <1>1, FS_EmptySet
  <1>4. \A x \in s : Cardinality(s \ {x}) = Cardinality(s) - 1
    BY <1>1, FS_RemoveElement
  <1> QED BY <1>1, <1>2, <1>3, <1>4

\* A collection of subsets has all of them when it has the empty one, and each one all of
\* whose reductions by an element it has.
LEMMA SubsetInduction ==
    ASSUME NEW S, IsFiniteSet(S), NEW T, {} \in T,
           \A s \in SUBSET S : s # {} /\ (\A x \in s : s \ {x} \in T) => s \in T
    PROVE  \A s \in SUBSET S : s \in T
  <1>0. PICK m : m = Cardinality(S)
    OBVIOUS
  <1>1. m \in Nat
    BY <1>0, FS_CardinalityType
  <1> DEFINE U == {i \in 0 .. m : \A s \in SUBSET S : Cardinality(s) <= i => s \in T}
  <1>2. 0 \in U
    <2>1. ASSUME NEW s \in SUBSET S, Cardinality(s) <= 0 PROVE s \in T
      <3>1. Cardinality(s) \in Nat /\ (Cardinality(s) = 0 <=> s = {})
        BY SubsetCards
      <3>2. Cardinality(s) = 0
        BY <2>1, <3>1
      <3> QED BY <3>1, <3>2
    <2> QED BY <1>1, <2>1
  <1>3. ASSUME NEW i \in 1 .. m, i - 1 \in U PROVE i \in U
    <2>1. ASSUME NEW s \in SUBSET S, Cardinality(s) <= i PROVE s \in T
      <3>1. ASSUME NEW x \in s PROVE s \ {x} \in T
        <4>1. Cardinality(s) \in Nat /\ Cardinality(s \ {x}) = Cardinality(s) - 1
          BY SubsetCards
        <4>2. Cardinality(s \ {x}) <= i - 1 /\ s \ {x} \in SUBSET S
          BY <2>1, <4>1
        <4> QED BY <1>3, <4>2
      <3> QED BY <3>1
    <2>2. i \in 0 .. m
      OBVIOUS
    <2> QED BY <2>1, <2>2
  <1>4. m \in U
    <2> HIDE DEF U
    <2>1. \A i \in 0 .. m : i \in U
      BY <1>1, <1>2, <1>3, UpTo
    <2> QED BY <1>1, <2>1
  <1>5. ASSUME NEW s \in SUBSET S PROVE s \in T
    <2>1. Cardinality(s) <= m
      BY <1>0, SubsetCards
    <2> QED BY <1>4, <2>1
  <1> QED BY <1>5

\* The element a fold takes next.
AnyOf(s) == CHOOSE x \in s : TRUE

\* g gives each subset of S the sum of f over it.
Sums(g, f, S) ==
    /\ g[{}] = 0
    /\ \A s \in SUBSET S : /\ g[s] \in Int
                           /\ s # {} => g[s] = f[AnyOf(s)] + g[s \ {AnyOf(s)}]

\* The recursion behind SumFunctionOnSet has such a g.
LEMMA SumRecursion ==
    ASSUME NEW S, IsFiniteSet(S), NEW f, \A x \in S : f[x] \in Int
    PROVE  \E g : Sums(g, f, S) /\ SumFunctionOnSet(f, S) = g[S]
  <1> DEFINE V == [SUBSET S -> Int]
             Body(g, s) == IF s = {} THEN 0 ELSE f[AnyOf(s)] + g[s \ {AnyOf(s)}]
             Turn(g) == [s \in SUBSET S |-> Body(g, s)]
             a == [s \in SUBSET S |-> 0]
             w == CHOOSE g : g = [s \in SUBSET S |-> Body(g, s)]
  <1>0. PICK m : m = Cardinality(S)
    OBVIOUS
  <1>1. m \in Nat
    BY <1>0, FS_CardinalityType
  <1>2. ASSUME NEW s \in SUBSET S, s # {} PROVE AnyOf(s) \in s /\ f[AnyOf(s)] \in Int /\ s \ {AnyOf(s)} \in SUBSET S
    <2>1. AnyOf(s) \in s
      BY <1>2 DEF AnyOf
    <2> QED BY <2>1
  <1>3. ASSUME NEW g \in V PROVE Turn(g) \in V
    <2>1. ASSUME NEW s \in SUBSET S PROVE Body(g, s) \in Int
      BY <1>2
    <2> QED BY <2>1
  <1> DEFINE step == [i \in 1 .. m |-> [g \in V |-> Turn(g)]]
  <1>4. step \in [1 .. m -> [V -> V]] /\ a \in V
    <2>1. a \in V
      OBVIOUS
    <2> HIDE DEF V, Turn, a
    <2> QED BY <1>3, <2>1
  <1>5. PICK h : h \in [0 .. m -> V] /\ h[0] = a /\ \A i \in 1 .. m : h[i] = Turn(h[i - 1])
    <2> HIDE DEF V, Turn, a
    <2>1. \E h : Iterates(h, m, V, a, step)
      <3> HIDE DEF step
      <3> QED BY <1>1, <1>4, RecursionExists
    <2>2. PICK h : Iterates(h, m, V, a, step)
      BY <2>1
    <2>3. ASSUME NEW i \in 1 .. m PROVE h[i] = Turn(h[i - 1])
      <3>1. i - 1 \in 0 .. m /\ h[i - 1] \in V
        BY <1>1, <2>2 DEF Iterates
      <3> QED BY <2>2, <3>1 DEF Iterates
    <2> QED BY <2>2, <2>3 DEF Iterates
  <1> HIDE DEF V
  <1> DEFINE U == {i \in 0 .. m : \A s \in SUBSET S : Cardinality(s) <= i => Body(h[i], s) = h[i][s]}
  <1>6. 0 \in U
    <2>1. ASSUME NEW s \in SUBSET S, Cardinality(s) <= 0 PROVE Body(h[0], s) = h[0][s]
      <3>1. s = {}
        <4>1. Cardinality(s) \in Nat /\ (Cardinality(s) = 0 <=> s = {})
          BY SubsetCards
        <4> QED BY <2>1, <4>1
      <3> QED BY <1>5, <3>1
    <2>2. 0 \in 0 .. m
      BY <1>1
    <2> HIDE DEF Body
    <2> QED BY <2>1, <2>2
  <1>7. ASSUME NEW i \in 1 .. m, i - 1 \in U PROVE i \in U
    <2>1. ASSUME NEW s \in SUBSET S, Cardinality(s) <= i PROVE Body(h[i], s) = h[i][s]
      <3>1. h[i][s] = Body(h[i - 1], s)
        BY <1>5
      <3>2. CASE s = {}
        BY <3>1, <3>2
      <3>3. CASE s # {}
        <4>1. PICK r : r = s \ {AnyOf(s)}
          OBVIOUS
        <4>2. r \in SUBSET S /\ AnyOf(s) \in s
          BY <1>2, <3>3, <4>1
        <4>3. Cardinality(r) <= i - 1
          <5>1. Cardinality(s) \in Nat /\ Cardinality(r) = Cardinality(s) - 1
            BY <4>1, <4>2, SubsetCards
          <5> QED BY <2>1, <5>1
        <4>4. Body(h[i - 1], r) = h[i - 1][r]
          BY <1>7, <4>2, <4>3
        <4>5. h[i][r] = Body(h[i - 1], r)
          BY <1>5, <4>2
        <4>6. h[i][r] = h[i - 1][r]
          BY <4>4, <4>5
        <4> QED BY <3>1, <3>3, <4>1, <4>6
      <3> QED BY <3>2, <3>3
    <2>2. i \in 0 .. m
      OBVIOUS
    <2> QED BY <2>1, <2>2
  <1>8. m \in U
    <2> HIDE DEF U
    <2>1. \A i \in 0 .. m : i \in U
      BY <1>1, <1>6, <1>7, UpTo
    <2> QED BY <1>1, <2>1
  <1>9. ASSUME NEW s \in SUBSET S PROVE h[m][s] = Body(h[m], s)
    <2>1. Cardinality(s) <= m
      BY <1>0, SubsetCards
    <2> QED BY <1>8, <2>1
  <1>10. h[m] \in [SUBSET S -> Int]
    <2>1. m \in 0 .. m
      BY <1>1
    <2> QED BY <1>5, <2>1 DEF V
  <1> HIDE DEF Body, Turn, a, U, step
  <1>11. h[m] = [s \in SUBSET S |-> Body(h[m], s)]
    BY <1>9, <1>10
  <1>12. w = [s \in SUBSET S |-> Body(w, s)]
    BY <1>11
  <1>13. SumFunctionOnSet(f, S) = w[S]
    BY DEF SumFunctionOnSet, FoldFunctionOnSet, MapThenFoldSet, AnyOf, Body
  <1> HIDE DEF w
  <1>14. ASSUME NEW s \in SUBSET S PROVE w[s] = Body(w, s)
    BY <1>12
  <1> DEFINE T == {s \in SUBSET S : w[s] \in Int}
  <1>15. {} \in T /\ w[{}] = 0
    <2>1. {} \in SUBSET S
      OBVIOUS
    <2>2. w[{}] = 0
      BY <1>14, <2>1 DEF Body
    <2> QED BY <2>1, <2>2
  <1>16. ASSUME NEW s \in SUBSET S, s # {}, \A x \in s : s \ {x} \in T PROVE s \in T
    <2>1. w[s] = f[AnyOf(s)] + w[s \ {AnyOf(s)}]
      BY <1>14, <1>16 DEF Body
    <2>2. AnyOf(s) \in s /\ f[AnyOf(s)] \in Int
      BY <1>2, <1>16
    <2>3. w[s \ {AnyOf(s)}] \in Int
      BY <1>16, <2>2
    <2> QED BY <2>1, <2>2, <2>3
  <1>17. \A s \in SUBSET S : w[s] \in Int
    <2> HIDE DEF T
    <2>1. \A s \in SUBSET S : s \in T
      BY <1>15, <1>16, SubsetInduction
    <2> QED BY <2>1 DEF T
  <1>18. ASSUME NEW s \in SUBSET S, s # {} PROVE w[s] = f[AnyOf(s)] + w[s \ {AnyOf(s)}]
    BY <1>14, <1>18 DEF Body
  <1>19. Sums(w, f, S)
    BY <1>15, <1>17, <1>18 DEF Sums
  <1> QED BY <1>13, <1>19

\* Any element may be added last.
LEMMA SumsRemove ==
    ASSUME NEW S, IsFiniteSet(S), NEW f, \A x \in S : f[x] \in Int, NEW g, Sums(g, f, S)
    PROVE  \A s \in SUBSET S : \A x \in s : g[s] = f[x] + g[s \ {x}]
  <1> DEFINE T == {s \in SUBSET S : \A x \in s : g[s] = f[x] + g[s \ {x}]}
  <1>1. {} \in T
    OBVIOUS
  <1>2. ASSUME NEW s \in SUBSET S, s # {}, \A x \in s : s \ {x} \in T PROVE s \in T
    <2>1. PICK y : y = AnyOf(s)
      OBVIOUS
    <2>2. y \in s
      BY <1>2, <2>1 DEF AnyOf
    <2>3. g[s] = f[y] + g[s \ {y}]
      BY <1>2, <2>1 DEF Sums
    <2>4. ASSUME NEW x \in s, x # y PROVE g[s] = f[x] + g[s \ {x}]
      <3>1. PICK r : r = (s \ {x}) \ {y}
        OBVIOUS
      <3>2. (s \ {y}) \ {x} = r /\ x \in s \ {y} /\ y \in s \ {x} /\ r \in SUBSET S
        BY <2>2, <2>4, <3>1
      <3>3. g[s \ {y}] = f[x] + g[r]
        BY <1>2, <2>2, <3>2
      <3>4. g[s \ {x}] = f[y] + g[r]
        BY <1>2, <3>1, <3>2
      <3>5. f[x] \in Int /\ f[y] \in Int /\ g[r] \in Int
        BY <2>2, <3>2 DEF Sums
      <3> QED BY <2>3, <3>3, <3>4, <3>5
    <2> QED BY <2>3, <2>4
  <1> HIDE DEF T
  <1>3. \A s \in SUBSET S : s \in T
    BY <1>1, <1>2, SubsetInduction
  <1> QED BY <1>3 DEF T

\* A sum depends on what is summed only.
LEMMA SumsAgree ==
    ASSUME NEW S, IsFiniteSet(S), NEW f, NEW e, \A x \in S : f[x] = e[x],
           NEW R, S \subseteq R, NEW g, Sums(g, f, S), NEW h, Sums(h, e, R)
    PROVE  g[S] = h[S]
  <1> DEFINE T == {s \in SUBSET S : g[s] = h[s]}
  <1>1. {} \in T
    BY DEF Sums
  <1>2. ASSUME NEW s \in SUBSET S, s # {}, \A x \in s : s \ {x} \in T PROVE s \in T
    <2>1. PICK y : y = AnyOf(s)
      OBVIOUS
    <2>2. y \in s
      BY <1>2, <2>1 DEF AnyOf
    <2>3. g[s] = f[y] + g[s \ {y}]
      BY <1>2, <2>1 DEF Sums
    <2>4. h[s] = e[y] + h[s \ {y}]
      <3>1. s \in SUBSET R
        OBVIOUS
      <3> QED BY <1>2, <2>1, <3>1 DEF Sums
    <2>5. f[y] = e[y] /\ g[s \ {y}] = h[s \ {y}]
      BY <1>2, <2>2
    <2> QED BY <2>3, <2>4, <2>5
  <1> HIDE DEF T
  <1>3. \A s \in SUBSET S : s \in T
    BY <1>1, <1>2, SubsetInduction
  <1>4. S \in SUBSET S
    OBVIOUS
  <1>5. S \in T
    BY <1>3, <1>4, Zenon
  <1> QED BY <1>5 DEF T

\* The sum over a finite set: empty, with one element more, and of what agrees on the set.
LEMMA SumFacts ==
    ASSUME NEW S, IsFiniteSet(S), NEW f, \A x \in S : f[x] \in Int
    PROVE  /\ SumFunctionOnSet(f, S) \in Int
           /\ S = {} => SumFunctionOnSet(f, S) = 0
           /\ \A x \in S : SumFunctionOnSet(f, S) = f[x] + SumFunctionOnSet(f, S \ {x})
           /\ \A e : (\A x \in S : f[x] = e[x]) => SumFunctionOnSet(f, S) = SumFunctionOnSet(e, S)
  <1>1. PICK g : Sums(g, f, S) /\ SumFunctionOnSet(f, S) = g[S]
    BY SumRecursion
  <1>2. S \in SUBSET S
    OBVIOUS
  <1>3. SumFunctionOnSet(f, S) \in Int /\ (S = {} => SumFunctionOnSet(f, S) = 0)
    BY <1>1, <1>2 DEF Sums
  <1>4. ASSUME NEW x \in S PROVE SumFunctionOnSet(f, S) = f[x] + SumFunctionOnSet(f, S \ {x})
    <2>1. PICK R : R = S \ {x}
      OBVIOUS
    <2>2. IsFiniteSet(R) /\ R \subseteq S /\ \A y \in R : f[y] \in Int
      BY <2>1, FS_RemoveElement
    <2>3. PICK h : Sums(h, f, R) /\ SumFunctionOnSet(f, R) = h[R]
      BY <2>2, SumRecursion
    <2>4. h[R] = g[R]
      BY <1>1, <2>2, <2>3, SumsAgree
    <2>5. g[S] = f[x] + g[R]
      BY <1>1, <1>2, <2>1, SumsRemove
    <2> QED BY <1>1, <2>1, <2>3, <2>4, <2>5
  <1>5. ASSUME NEW e, \A x \in S : f[x] = e[x] PROVE SumFunctionOnSet(f, S) = SumFunctionOnSet(e, S)
    <2>1. \A x \in S : e[x] \in Int
      BY <1>5
    <2>2. PICK h : Sums(h, e, S) /\ SumFunctionOnSet(e, S) = h[S]
      BY <2>1, SumRecursion
    <2>3. g[S] = h[S]
      BY <1>1, <1>5, <2>2, SumsAgree
    <2> QED BY <1>1, <2>2, <2>3
  <1> QED BY <1>3, <1>4, <1>5

\* The same sum under other indices.
LEMMA SumReindexed ==
    ASSUME NEW S, IsFiniteSet(S), NEW f, \A x \in S : f[x] \in Int,
           NEW h, \A x, y \in S : x # y => h[x] # h[y], NEW e, \A x \in S : e[h[x]] = f[x]
    PROVE  SumFunctionOnSet(e, {h[x] : x \in S}) = SumFunctionOnSet(f, S)
  <1> DEFINE Im(s) == {h[x] : x \in s}
             T == {s \in SUBSET S : SumFunctionOnSet(e, Im(s)) = SumFunctionOnSet(f, s)}
  <1>0. ASSUME NEW s \in SUBSET S
        PROVE  /\ IsFiniteSet(s) /\ IsFiniteSet(Im(s))
               /\ (\A x \in s : f[x] \in Int) /\ (\A z \in Im(s) : e[z] \in Int)
    <2>1. IsFiniteSet(s)
      BY FS_Subset
    <2>2. IsFiniteSet(Im(s))
      <3>1. PICK k : k = [x \in s |-> h[x]]
        OBVIOUS
      <3>2. k \in Surjection(s, Im(s))
        BY <3>1 DEF Surjection
      <3> HIDE DEF Im
      <3> QED BY <2>1, <3>2, FS_Surjection
    <2> QED BY <2>1, <2>2
  <1>1. {} \in T
    <2>1. {} \in SUBSET S /\ Im({}) = {}
      OBVIOUS
    <2>2. IsFiniteSet({})
      BY FS_EmptySet
    <2>3. SumFunctionOnSet(e, {}) = 0 /\ SumFunctionOnSet(f, {}) = 0
      BY <2>2, SumFacts
    <2> QED BY <2>1, <2>3
  <1>2. ASSUME NEW s \in SUBSET S, s # {}, \A x \in s : s \ {x} \in T PROVE s \in T
    <2>1. PICK x \in s : TRUE
      BY <1>2
    <2>2. Im(s) \ {h[x]} = Im(s \ {x}) /\ h[x] \in Im(s)
      OBVIOUS
    <2>3. SumFunctionOnSet(f, s) = f[x] + SumFunctionOnSet(f, s \ {x})
      <3> HIDE DEF Im, T
      <3> QED BY <1>0, SumFacts
    <2>4. SumFunctionOnSet(e, Im(s)) = e[h[x]] + SumFunctionOnSet(e, Im(s) \ {h[x]})
      <3> HIDE DEF Im, T
      <3> QED BY <1>0, <2>2, SumFacts
    <2>5. SumFunctionOnSet(e, Im(s \ {x})) = SumFunctionOnSet(f, s \ {x})
      BY <1>2
    <2>6. e[h[x]] = f[x]
      OBVIOUS
    <2>7. SumFunctionOnSet(e, Im(s)) = SumFunctionOnSet(f, s)
      <3> HIDE DEF Im
      <3> QED BY <2>2, <2>3, <2>4, <2>5, <2>6
    <2> HIDE DEF Im
    <2> QED BY <2>7
  <1> HIDE DEF T
  <1>3. \A s \in SUBSET S : s \in T
    BY <1>1, <1>2, SubsetInduction
  <1>4. S \in SUBSET S
    OBVIOUS
  <1>5. S \in T
    BY <1>3, <1>4, Zenon
  <1> QED BY <1>5 DEF T

\* A sum of positive numbers is at least their number.
LEMMA SumAtLeastCount ==
    ASSUME NEW S, IsFiniteSet(S), NEW f, \A x \in S : f[x] \in Nat \ {0}
    PROVE  /\ Cardinality(S) \in Nat /\ SumFunctionOnSet(f, S) \in Nat
           /\ Cardinality(S) <= SumFunctionOnSet(f, S)
           /\ S = {} => SumFunctionOnSet(f, S) = 0
  <1> DEFINE T == {s \in SUBSET S : Cardinality(s) <= SumFunctionOnSet(f, s)}
  <1>0. ASSUME NEW s \in SUBSET S
        PROVE  IsFiniteSet(s) /\ Cardinality(s) \in Nat /\ SumFunctionOnSet(f, s) \in Int
    <2>1. IsFiniteSet(s) /\ \A x \in s : f[x] \in Int
      BY FS_Subset
    <2> QED BY <2>1, SumFacts, FS_CardinalityType
  <1>1. {} \in T
    <2>1. IsFiniteSet({}) /\ Cardinality({}) = 0
      BY FS_EmptySet
    <2>2. SumFunctionOnSet(f, {}) = 0
      BY <2>1, SumFacts
    <2> QED BY <2>1, <2>2
  <1>2. ASSUME NEW s \in SUBSET S, s # {}, \A x \in s : s \ {x} \in T PROVE s \in T
    <2>1. PICK x \in s : TRUE
      BY <1>2
    <2>2. Cardinality(s \ {x}) = Cardinality(s) - 1 /\ Cardinality(s) \in Nat
      BY SubsetCards
    <2>3. SumFunctionOnSet(f, s) = f[x] + SumFunctionOnSet(f, s \ {x})
      <3>1. IsFiniteSet(s) /\ \A y \in s : f[y] \in Int
        BY <1>0
      <3> QED BY <3>1, SumFacts
    <2>4. Cardinality(s \ {x}) <= SumFunctionOnSet(f, s \ {x})
      BY <1>2
    <2>5. f[x] \in Nat /\ f[x] >= 1 /\ SumFunctionOnSet(f, s \ {x}) \in Int
      BY <1>0
    <2> QED BY <2>2, <2>3, <2>4, <2>5
  <1> HIDE DEF T
  <1>3. \A s \in SUBSET S : s \in T
    BY <1>1, <1>2, SubsetInduction
  <1>4. S \in SUBSET S
    OBVIOUS
  <1>5. S \in T
    BY <1>3, <1>4, Zenon
  <1>6. Cardinality(S) <= SumFunctionOnSet(f, S)
    BY <1>5 DEF T
  <1>7. S = {} => SumFunctionOnSet(f, S) = 0
    BY SumFacts
  <1> QED BY <1>0, <1>4, <1>6, <1>7

\* The largest of a finite set of numbers.
LEMMA LargestFacts ==
    ASSUME NEW S, IsFiniteSet(S), S \subseteq Nat, S # {}
    PROVE  Max(S) \in S /\ \A x \in S : x <= Max(S)
  <1> DEFINE T == {s \in SUBSET S : s # {} => \E a \in s : \A b \in s : a >= b}
  <1>1. {} \in T
    OBVIOUS
  <1>2. ASSUME NEW s \in SUBSET S, s # {}, \A x \in s : s \ {x} \in T PROVE s \in T
    <2>1. PICK x \in s : TRUE
      BY <1>2
    <2>2. CASE s \ {x} = {}
      <3>1. \A b \in s : b = x
        BY <2>2
      <3> QED BY <3>1
    <2>3. CASE s \ {x} # {}
      <3>1. PICK a \in s \ {x} : \A b \in s \ {x} : a >= b
        BY <1>2, <2>3
      <3>2. CASE x > a
        BY <3>1, <3>2
      <3>3. CASE ~(x > a)
        BY <3>1, <3>3
      <3> QED BY <3>2, <3>3
    <2> QED BY <2>2, <2>3
  <1>3. S \in T
    <2> HIDE DEF T
    <2> QED BY <1>1, <1>2, SubsetInduction
  <1>4. \E a \in S : \A b \in S : a >= b
    BY <1>3
  <1>5. Max(S) \in S /\ \A x \in S : Max(S) >= x
    BY <1>4 DEF Max
  <1> QED BY <1>5

-----------------------------------------------------------------------------
(* Recursion over the subsets of a finite set.                             *)

\* g gives the empty subset of S the value z, and each other one the step of the element that c
\* picks from it, applied to the value of the rest.
SubsetFolds(g, S, V, z, c, step) ==
    /\ g \in [SUBSET S -> V] /\ g[{}] = z
    /\ \A s \in SUBSET S : s # {} => g[s] = step[c[s]][g[s \ {c[s]}]]

\* A function on the subsets of a finite set defined by taking out one element exists.
LEMMA SubsetRecursion ==
    ASSUME NEW S, IsFiniteSet(S), NEW V, NEW z \in V, NEW c, \A s \in SUBSET S : s # {} => c[s] \in s,
           NEW step, step \in [S -> [V -> V]]
    PROVE  \E g : SubsetFolds(g, S, V, z, c, step)
  <1> DEFINE F == [SUBSET S -> V]
             Body(g, s) == IF s = {} THEN z ELSE step[c[s]][g[s \ {c[s]}]]
             Turn(g) == [s \in SUBSET S |-> Body(g, s)]
             a == [s \in SUBSET S |-> z]
  <1>0. PICK m : m = Cardinality(S)
    OBVIOUS
  <1>1. m \in Nat
    BY <1>0, FS_CardinalityType
  <1>2. ASSUME NEW s \in SUBSET S, s # {} PROVE c[s] \in s /\ c[s] \in S /\ s \ {c[s]} \in SUBSET S
    BY <1>2
  <1>3. ASSUME NEW g \in F PROVE Turn(g) \in F
    <2>1. ASSUME NEW s \in SUBSET S PROVE Body(g, s) \in V
      <3>1. CASE s = {}
        BY <3>1
      <3>2. CASE s # {}
        <4>1. c[s] \in S /\ s \ {c[s]} \in SUBSET S
          BY <1>2, <3>2
        <4>2. g[s \ {c[s]}] \in V /\ step[c[s]] \in [V -> V]
          BY <4>1
        <4> QED BY <3>2, <4>2
      <3> QED BY <3>1, <3>2
    <2> HIDE DEF Body
    <2> QED BY <2>1
  <1> DEFINE turns == [i \in 1 .. m |-> [g \in F |-> Turn(g)]]
  <1>4. turns \in [1 .. m -> [F -> F]] /\ a \in F
    <2>1. a \in F
      OBVIOUS
    <2> HIDE DEF F, Turn, a
    <2> QED BY <1>3, <2>1
  <1>5. PICK h : h \in [0 .. m -> F] /\ h[0] = a /\ \A i \in 1 .. m : h[i] = Turn(h[i - 1])
    <2> HIDE DEF F, Turn, a
    <2>1. \E h : Iterates(h, m, F, a, turns)
      <3> HIDE DEF turns
      <3> QED BY <1>1, <1>4, RecursionExists
    <2>2. PICK h : Iterates(h, m, F, a, turns)
      BY <2>1
    <2>3. ASSUME NEW i \in 1 .. m PROVE h[i] = Turn(h[i - 1])
      <3>1. i - 1 \in 0 .. m /\ h[i - 1] \in F
        BY <1>1, <2>2 DEF Iterates
      <3> QED BY <2>2, <3>1 DEF Iterates
    <2> QED BY <2>2, <2>3 DEF Iterates
  <1> HIDE DEF F
  <1> DEFINE U == {i \in 0 .. m : \A s \in SUBSET S : Cardinality(s) <= i => Body(h[i], s) = h[i][s]}
  <1>6. 0 \in U
    <2>1. ASSUME NEW s \in SUBSET S, Cardinality(s) <= 0 PROVE Body(h[0], s) = h[0][s]
      <3>1. s = {}
        <4>1. Cardinality(s) \in Nat /\ (Cardinality(s) = 0 <=> s = {})
          BY SubsetCards
        <4> QED BY <2>1, <4>1
      <3> QED BY <1>5, <3>1
    <2>2. 0 \in 0 .. m
      BY <1>1
    <2> HIDE DEF Body
    <2> QED BY <2>1, <2>2
  <1>7. ASSUME NEW i \in 1 .. m, i - 1 \in U PROVE i \in U
    <2>1. ASSUME NEW s \in SUBSET S, Cardinality(s) <= i PROVE Body(h[i], s) = h[i][s]
      <3>0. \A r \in SUBSET S : h[i][r] = Body(h[i - 1], r)
        <4>1. PICK q : q = h[i - 1]
          OBVIOUS
        <4>2. h[i] = Turn(q)
          <5> HIDE DEF Turn
          <5> QED BY <1>5, <4>1
        <4> HIDE DEF Body
        <4> QED BY <4>1, <4>2
      <3>1. h[i][s] = Body(h[i - 1], s)
        <4> HIDE DEF Body
        <4> QED BY <3>0
      <3>2. CASE s = {}
        BY <3>1, <3>2
      <3>3. CASE s # {}
        <4>1. PICK r : r = s \ {c[s]}
          OBVIOUS
        <4>2. r \in SUBSET S /\ c[s] \in s
          BY <1>2, <3>3, <4>1
        <4>3. Cardinality(r) <= i - 1
          <5>1. Cardinality(s) \in Nat /\ Cardinality(r) = Cardinality(s) - 1
            BY <4>1, <4>2, SubsetCards
          <5> QED BY <2>1, <5>1
        <4>4. Body(h[i - 1], r) = h[i - 1][r]
          BY <1>7, <4>2, <4>3
        <4>5. h[i][r] = Body(h[i - 1], r)
          <5> HIDE DEF Body
          <5> QED BY <3>0, <4>2
        <4>6. h[i][r] = h[i - 1][r]
          BY <4>4, <4>5
        <4> QED BY <3>1, <3>3, <4>1, <4>6
      <3> QED BY <3>2, <3>3
    <2>2. i \in 0 .. m
      OBVIOUS
    <2> QED BY <2>1, <2>2
  <1>8. m \in U
    <2> HIDE DEF U
    <2>1. \A i \in 0 .. m : i \in U
      BY <1>1, <1>6, <1>7, UpTo
    <2> QED BY <1>1, <2>1
  <1>9. ASSUME NEW s \in SUBSET S PROVE h[m][s] = Body(h[m], s)
    <2>1. Cardinality(s) <= m
      BY <1>0, SubsetCards
    <2> QED BY <1>8, <2>1
  <1>10. h[m] \in [SUBSET S -> V]
    <2>1. m \in 0 .. m
      BY <1>1
    <2> QED BY <1>5, <2>1 DEF F
  <1> QED BY <1>9, <1>10 DEF SubsetFolds

=============================================================================
