--------------------------- MODULE PlanningProofs ---------------------------
(***************************************************************************)
(* Proofs about what the arena generator settles before it emits code: the *)
(* flatten budget of the layouts, the field modes of a profile, and the    *)
(* layouts themselves.                                                     *)
(***************************************************************************)
EXTENDS FlattenBudget, FieldModes, Layout, InductionLemmas

-----------------------------------------------------------------------------
(* Facts about the operators of the model.                                 *)

\* What adding up with add_cost gives: the sum, or the largest value where that is more.
LEMMA AccumulatedFacts ==
    ASSUME NEW arms \in 0 .. SizeMax, NEW q \in Seq(0 .. SizeMax)
    PROVE  /\ Accumulated(arms, q) = Saturated(Sum(arms, q))
           /\ Accumulated(arms, q) \in 0 .. SizeMax
  <1> DEFINE n == Len(q)
             V == 0 .. SizeMax
             BodyC(f, i) == IF i = 0 THEN arms ELSE add_cost(f[i - 1], q[i])
             BodyS(f, i) == IF i = 0 THEN arms ELSE f[i - 1] + q[i]
             c == CHOOSE f : f = [i \in 0 .. n |-> BodyC(f, i)]
             sum == CHOOSE f : f = [i \in 0 .. n |-> BodyS(f, i)]
             stepC == [i \in 1 .. n |-> [v \in V |-> add_cost(v, q[i])]]
             stepS == [i \in 1 .. n |-> [v \in Nat |-> v + q[i]]]
  <1>1. n \in Nat /\ SizeMax \in Nat /\ \A i \in 1 .. n : q[i] \in V
    BY FlattenAssumption
  <1>2. c[0] = arms /\ \A i \in 1 .. n : c[i] = add_cost(c[i - 1], q[i])
    <2>1. stepC \in [1 .. n -> [V -> V]]
      <3>1. \A v, w \in V : add_cost(v, w) \in V
        BY <1>1 DEF add_cost
      <3> HIDE DEF V
      <3> QED BY <1>1, <3>1
    <2>2. PICK g : g \in [0 .. n -> V] /\ g[0] = arms /\ \A i \in 1 .. n : g[i] = stepC[i][g[i - 1]]
      <3>1. arms \in V /\ n \in Nat
        BY <1>1
      <3> HIDE DEF stepC, V, n
      <3>2. \E g : Iterates(g, n, V, arms, stepC)
        BY <2>1, <3>1, RecursionExists
      <3> QED BY <3>2 DEF Iterates
    <2>3. ASSUME NEW i \in 0 .. n PROVE g[i] = BodyC(g, i)
      <3>1. i = 0 \/ i \in 1 .. n
        BY <1>1
      <3>2. i # 0 => g[i - 1] \in V
        <4>1. n \in Nat
          BY <1>1
        <4>2. i # 0 => i - 1 \in 0 .. n
          BY <4>1
        <4>3. g \in [0 .. n -> V]
          BY <2>2
        <4> HIDE DEF n
        <4> QED BY <4>2, <4>3
      <3> HIDE DEF V
      <3> QED BY <2>2, <3>1, <3>2
    <2> HIDE DEF V, BodyC, stepC
    <2>4. g = [i \in 0 .. n |-> BodyC(g, i)]
      BY <2>2, <2>3
    <2>5. c = [i \in 0 .. n |-> BodyC(c, i)]
      BY <2>4
    <2> HIDE DEF c
    <2>6. \A i \in 0 .. n : c[i] = BodyC(c, i)
      BY <2>5
    <2>7. 0 \in 0 .. n /\ \A i \in 1 .. n : i \in 0 .. n /\ i # 0
      BY <1>1
    <2> HIDE DEF n
    <2> QED BY <2>6, <2>7 DEF BodyC
  <1>3. sum[0] = arms /\ \A i \in 1 .. n : sum[i] = sum[i - 1] + q[i]
    <2>1. stepS \in [1 .. n -> [Nat -> Nat]]
      BY <1>1
    <2>2. PICK g : g \in [0 .. n -> Nat] /\ g[0] = arms /\ \A i \in 1 .. n : g[i] = stepS[i][g[i - 1]]
      <3>1. arms \in Nat /\ n \in Nat
        BY <1>1
      <3> HIDE DEF stepS, n
      <3>2. \E g : Iterates(g, n, Nat, arms, stepS)
        BY <2>1, <3>1, RecursionExists
      <3> QED BY <3>2 DEF Iterates
    <2>3. ASSUME NEW i \in 0 .. n PROVE g[i] = BodyS(g, i)
      <3>1. i = 0 \/ i \in 1 .. n
        BY <1>1
      <3>2. i # 0 => g[i - 1] \in Nat
        <4>1. n \in Nat
          BY <1>1
        <4>2. i # 0 => i - 1 \in 0 .. n
          BY <4>1
        <4>3. g \in [0 .. n -> Nat]
          BY <2>2
        <4> HIDE DEF n
        <4> QED BY <4>2, <4>3
      <3> QED BY <2>2, <3>1, <3>2
    <2> HIDE DEF BodyS, stepS
    <2>4. g = [i \in 0 .. n |-> BodyS(g, i)]
      BY <2>2, <2>3
    <2>5. sum = [i \in 0 .. n |-> BodyS(sum, i)]
      BY <2>4
    <2> HIDE DEF sum
    <2>6. \A i \in 0 .. n : sum[i] = BodyS(sum, i)
      BY <2>5
    <2>7. 0 \in 0 .. n /\ \A i \in 1 .. n : i \in 0 .. n /\ i # 0
      BY <1>1
    <2> HIDE DEF n
    <2> QED BY <2>6, <2>7 DEF BodyS
  <1>4. Accumulated(arms, q) = c[n] /\ Sum(arms, q) = sum[n]
    BY DEF Accumulated, Sum
  <1> HIDE DEF c, sum
  <1> DEFINE T == {i \in 0 .. n : sum[i] \in Nat /\ c[i] = Saturated(sum[i])}
  <1>5. 0 \in T
    BY <1>1, <1>2, <1>3 DEF Saturated
  <1>6. ASSUME NEW i \in 1 .. n, i - 1 \in T PROVE i \in T
    <2>1. sum[i - 1] \in Nat /\ c[i - 1] = Saturated(sum[i - 1]) /\ q[i] \in 0 .. SizeMax
      BY <1>1, <1>6
    <2>2. sum[i] = sum[i - 1] + q[i] /\ c[i] = add_cost(c[i - 1], q[i])
      BY <1>2, <1>3
    <2>3. add_cost(Saturated(sum[i - 1]), q[i]) = Saturated(sum[i - 1] + q[i])
      BY <1>1, <2>1 DEF add_cost, Saturated
    <2> QED BY <1>1, <2>1, <2>2, <2>3
  <1>7. n \in T
    <2> HIDE DEF T
    <2>1. \A i \in 0 .. n : i \in T
      BY <1>1, <1>5, <1>6, UpTo
    <2> QED BY <1>1, <2>1
  <1> QED
    BY <1>1, <1>4, <1>7 DEF Saturated

\* The targets of a message are the messages it decodes through.
LEMMA TargetFacts ==
    ASSUME input \in FlattenInputs, NEW m \in Indices
    PROVE  /\ inlined_targets(m) \in Seq(Indices)
           /\ ToSet(inlined_targets(m)) = DecodesThrough(m)
           /\ own_arms(m) \in 0 .. SizeMax
  <1> DEFINE s == input.members[m]
             X == ToSet(s)
             S == {f \in ToSet(s) : f.kind \in InliningKinds /\ f.target \in Indices}
             t == Select(s, S)
  <1>1. /\ s \in Seq(X) /\ Len(s) \in 0 .. SizeMax
        /\ \A f \in X : /\ f.kind \in InliningKinds \cup {"scalar", "raw"}
                        /\ f.kind = "scalar" => f.target \notin Indices
    BY FlattenAssumption
  <1>2. t \in Seq(X) /\ ToSet(t) = X \cap S
    <2> HIDE DEF S, X, s
    <2>1. Select(s, S) \in Seq(X) /\ ToSet(Select(s, S)) = ToSet(s) \cap S
      BY <1>1, SelectFacts
    <2> QED BY <2>1 DEF X
  <1>3. inlined_targets(m) = [i \in DOMAIN t |-> t[i].target]
    BY DEF inlined_targets
  <1> HIDE DEF t
  <1>4. DOMAIN t = 1 .. Len(t) /\ Len(t) \in Nat /\ \A i \in 1 .. Len(t) : t[i] \in X
    BY <1>2
  <1>5. \A i \in 1 .. Len(t) : t[i] \in S
    <2> HIDE DEF S, X
    <2> QED BY <1>2, <1>4 DEF ToSet
  <1>6. \A i \in 1 .. Len(t) : t[i].target \in Indices
    BY <1>5
  <1>7. inlined_targets(m) \in Seq(Indices)
    <2>1. inlined_targets(m) \in [1 .. Len(t) -> Indices]
      BY <1>3, <1>4, <1>6
    <2> QED BY <1>4, <2>1
  <1>8. ToSet(inlined_targets(m)) = {t[i].target : i \in 1 .. Len(t)}
    BY <1>3, <1>4 DEF ToSet
  <1>9. {t[i].target : i \in 1 .. Len(t)} = {f.target : f \in S}
    <2>1. S = {t[i] : i \in 1 .. Len(t)}
      <3> HIDE DEF t
      <3>1. X \cap S = S
        OBVIOUS
      <3> HIDE DEF S, X
      <3> QED BY <1>2, <1>4, <3>1 DEF ToSet
    <2> HIDE DEF S
    <2> QED BY <2>1
  <1>10. {f.target : f \in S} = DecodesThrough(m)
    <2>1. ASSUME NEW f \in S PROVE f.target \in DecodesThrough(m)
      <3>1. f \in X /\ f.target \in Indices /\ f.kind # "raw"
        BY DEF InliningKinds
      <3>2. PICK i \in DOMAIN s : s[i] = f
        BY <3>1 DEF ToSet
      <3> QED BY <3>1, <3>2 DEF DecodesThrough
    <2>2. ASSUME NEW x \in DecodesThrough(m) PROVE \E f \in S : f.target = x
      <3>1. PICK i \in DOMAIN s : s[i].target = x /\ s[i].kind # "raw"
        BY DEF DecodesThrough
      <3>2. s[i] \in X /\ x \in Indices
        BY DEF ToSet, DecodesThrough
      <3>3. s[i].kind \in InliningKinds
        BY <1>1, <3>1, <3>2
      <3> QED BY <3>1, <3>2, <3>3
    <2> HIDE DEF S
    <2> QED BY <2>1, <2>2
  <1>11. own_arms(m) \in 0 .. SizeMax
    BY <1>1 DEF own_arms
  <1> QED
    BY <1>7, <1>8, <1>9, <1>10, <1>11

\* What m still inlines is what it expands; the costs added up for it are in range.
LEMMA InlinedFacts ==
    ASSUME input \in FlattenInputs, NEW m \in Indices, flatten_cost \in [Indices -> 0 .. SizeMax]
    PROVE  /\ StillInlined(m) \in Seq(Indices)
           /\ ToSet(StillInlined(m)) = Expands(m)
           /\ StillInlined(m) = <<>> <=> Expands(m) = {}
           /\ CostsInlined(m) \in Seq(0 .. SizeMax)
           /\ Cost(m) \in 0 .. SizeMax
           /\ Cost(m) = Saturated(Sum(Len(input.members[m]), CostsInlined(m)))
  <1> DEFINE s == inlined_targets(m)
             S == {t \in ToSet(s) : ~noinline_decode[t]}
             q == StillInlined(m)
  <1>1. s \in Seq(Indices) /\ ToSet(s) = DecodesThrough(m) /\ own_arms(m) \in 0 .. SizeMax
    BY TargetFacts
  <1>2. q \in Seq(Indices) /\ ToSet(q) = Expands(m)
    <2>1. q = Select(s, S)
      BY DEF StillInlined
    <2>2. ToSet(s) \cap S = Expands(m)
      BY <1>1 DEF Expands
    <2> HIDE DEF q, S, s
    <2> QED BY <1>1, <2>1, <2>2, SelectFacts
  <1> HIDE DEF q
  <1>3. DOMAIN q = 1 .. Len(q) /\ Len(q) \in Nat /\ \A i \in 1 .. Len(q) : q[i] \in Indices
    BY <1>2
  <1>4. q = <<>> <=> Expands(m) = {}
    <2>1. q = <<>> => ToSet(q) = {}
      BY DEF ToSet
    <2>2. q # <<>> => ToSet(q) # {}
      <3>1. q # <<>> => 1 \in DOMAIN q
        BY <1>2, <1>3, EmptySeq
      <3> QED BY <3>1 DEF ToSet
    <2> QED BY <1>2, <2>1, <2>2
  <1>5. CostsInlined(m) \in Seq(0 .. SizeMax)
    <2>1. CostsInlined(m) = [i \in DOMAIN q |-> flatten_cost[q[i]]]
      BY DEF CostsInlined, q
    <2> DEFINE V == 0 .. SizeMax
    <2> HIDE DEF V
    <2>2. CostsInlined(m) \in [1 .. Len(q) -> V]
      BY <1>3, <2>1 DEF V
    <2>3. CostsInlined(m) \in Seq(V)
      BY <1>3, <2>2
    <2> QED BY <2>3 DEF V
  <1>6. Cost(m) \in 0 .. SizeMax /\ Cost(m) = Saturated(Sum(own_arms(m), CostsInlined(m)))
    BY <1>1, <1>5, AccumulatedFacts DEF Cost
  <1> QED
    BY <1>2, <1>4, <1>5, <1>6 DEF own_arms, q

-----------------------------------------------------------------------------
-----------------------------------------------------------------------------
(* The inductive invariant.  What it says of the stack is said of any      *)
(* stack w, states s of the messages, marks c and targets d.               *)

Done(m) == seen[m] = "done"
Targets == [m \in Indices |-> DecodesThrough(m)]

FlattenTypes ==
    /\ input \in FlattenInputs
    /\ root \in 0 .. NumMessages
    /\ walk \in Seq(Indices \X BOOLEAN)
    /\ seen \in [Indices -> {"unvisited", "in_progress", "done"}]
    /\ flatten_cost \in [Indices -> 0 .. SizeMax]
    /\ noinline_decode \in [Indices -> BOOLEAN]

\* The messages in progress are the ones whose second entry is on the stack; none of them
\* occurs again above it, so what is found there unvisited or done is not an ancestor.
InProgress(w, s) ==
    /\ \A m \in Indices : s[m] = "in_progress" <=> \E i \in 1 .. Len(w) : w[i][2] /\ w[i][1] = m
    /\ \A i \in 1 .. Len(w) : w[i][2] => \A j \in (i + 1) .. Len(w) : w[j][1] # w[i][1]

\* Every entry but the first was queued by the nearest pending entry below it.
QueuedByNearest(w, d) ==
    \A j \in 2 .. Len(w) : \E i \in 1 .. (j - 1) :
        w[i][2] /\ w[j][1] \in d[w[i][1]] /\ \A k \in (i + 1) .. (j - 1) : ~w[k][2]

\* A target of a pending message is settled, marked, or still to come.
TargetsToCome(w, s, c, d) ==
    \A i \in 1 .. Len(w) : w[i][2] => \A t \in d[w[i][1]] :
        s[t] = "done" \/ c[t] \/ \E j \in (i + 1) .. Len(w) : w[j][1] = t

\* No root is forgotten.
RootsVisited(w, s, r) ==
    \A m \in 1 .. r : s[m] # "unvisited" \/ \E i \in 1 .. Len(w) : w[i][1] = m

OnWalk(w, s, c, d, r) ==
    InProgress(w, s) /\ QueuedByNearest(w, d) /\ TargetsToCome(w, s, c, d) /\ RootsVisited(w, s, r)

WalkInv == OnWalk(walk, seen, noinline_decode, Targets, root)

\* A target of a settled message is settled, or marked already.
SettledTargets == \A m \in Indices : Done(m) =>
    \A t \in DecodesThrough(m) : Done(t) \/ noinline_decode[t]

\* The settled messages expand in no circle.
SettledAcyclic == \A S \in SUBSET Indices :
    S # {} /\ (\A m \in S : Done(m)) => \E m \in S : Expands(m) \cap S = {}

\* The cost of a settled message is current and within the budget, unless the message is
\* marked or expands nothing.
SettledCosts == \A m \in Indices : Done(m) =>
    /\ flatten_cost[m] = Cost(m)
    /\ noinline_decode[m] \/ flatten_cost[m] <= input.budget \/ Expands(m) = {}

\* A mark has a reason.
MarksHaveReasons == \A m \in Indices : noinline_decode[m] =>
    OnCycle(m) \/ (Done(m) /\ flatten_cost[m] > input.budget /\ Expands(m) # {})

FlattenInv ==
    FlattenTypes /\ WalkInv /\ SettledTargets /\ SettledAcyclic /\ SettledCosts /\ MarksHaveReasons

-----------------------------------------------------------------------------
(* What taking an entry off the stack and putting entries on it does.      *)

\* The top entry of w, whose message m is settled by then, is taken off.
Pops(w, v, s, s2, c, c2, d, r, m) ==
    /\ Len(w) \in Nat \ {0} /\ Len(v) = Len(w) - 1
    /\ \A i \in 1 .. (Len(w) - 1) : v[i] = w[i]
    /\ w[Len(w)][1] = m /\ m \in Indices
    /\ \A x \in Indices : x # m => s2[x] = s[x]
    /\ s2[m] = "done" /\ (s[m] = "done" \/ w[Len(w)][2])
    /\ \A i \in 1 .. Len(w) : d[w[i][1]] \subseteq Indices
    /\ \A x \in Indices : c[x] => c2[x]
    /\ r \in Nat /\ 1 .. r \subseteq Indices

\* Taking off a settled entry keeps the facts of the stack.
LEMMA PopKeeps ==
    ASSUME NEW w, NEW v, NEW s, NEW s2, NEW c, NEW c2, NEW d, NEW r, NEW m,
           Pops(w, v, s, s2, c, c2, d, r, m), OnWalk(w, s, c, d, r)
    PROVE  OnWalk(v, s2, c2, d, r)
  <1> DEFINE n == Len(w)
  <1> SUFFICES
        ASSUME n \in Nat \ {0}, Len(v) = n - 1, \A i \in 1 .. (n - 1) : v[i] = w[i],
               w[n][1] = m, m \in Indices,
               \A x \in Indices : x # m => s2[x] = s[x], s2[m] = "done",
               s[m] = "done" \/ w[n][2],
               \A i \in 1 .. n : d[w[i][1]] \subseteq Indices,
               \A x \in Indices : c[x] => c2[x],
               r \in Nat, 1 .. r \subseteq Indices,
               InProgress(w, s), QueuedByNearest(w, d), TargetsToCome(w, s, c, d), RootsVisited(w, s, r)
        PROVE  OnWalk(v, s2, c2, d, r)
    BY DEF Pops, OnWalk
  <1>0. Len(w) = n
    OBVIOUS
  <1> HIDE DEF n
  <1>1. \A i : i \in 1 .. n <=> (i \in 1 .. (n - 1) \/ i = n)
    OBVIOUS
  <1>2. \A i \in 1 .. (n - 1) : n \in (i + 1) .. n
    OBVIOUS
  <1>3. \A i \in 1 .. (n - 1) : \A j \in (i + 1) .. (n - 1) : j \in 1 .. (n - 1) /\ j \in (i + 1) .. n
    OBVIOUS
  <1>4. \A i \in 1 .. (n - 1) : w[i][2] => w[i][1] # m
    BY <1>1, <1>2, <1>0 DEF InProgress
  <1>5. InProgress(v, s2)
    <2>1. ASSUME NEW x \in Indices
          PROVE  s2[x] = "in_progress" <=> \E i \in 1 .. (n - 1) : v[i][2] /\ v[i][1] = x
      <3>1. s[x] = "in_progress" <=> \E i \in 1 .. n : w[i][2] /\ w[i][1] = x
        BY <1>0 DEF InProgress
      <3>2. CASE x = m
        BY <1>4, <3>2
      <3>3. CASE x # m
        BY <1>1, <3>1, <3>3
      <3> QED BY <3>2, <3>3
    <2>2. ASSUME NEW i \in 1 .. (n - 1), v[i][2], NEW j \in (i + 1) .. (n - 1)
          PROVE  v[j][1] # v[i][1]
      <3>1. w[j][1] # w[i][1]
        BY <1>1, <1>3, <2>2, <1>0 DEF InProgress
      <3> QED BY <1>3, <3>1
    <2> QED BY <2>1, <2>2, <1>0 DEF InProgress
  <1>6. QueuedByNearest(v, d)
    <2>1. ASSUME NEW j \in 2 .. (n - 1)
          PROVE  \E i \in 1 .. (j - 1) :
                   v[i][2] /\ v[j][1] \in d[v[i][1]] /\ \A k \in (i + 1) .. (j - 1) : ~v[k][2]
      <3>1. j \in 2 .. n /\ j \in 1 .. (n - 1) /\ \A i \in 1 .. (j - 1) : i \in 1 .. (n - 1)
        OBVIOUS
      <3>2. PICK i \in 1 .. (j - 1) :
                   w[i][2] /\ w[j][1] \in d[w[i][1]] /\ \A k \in (i + 1) .. (j - 1) : ~w[k][2]
        BY <3>1, <1>0 DEF QueuedByNearest
      <3>3. \A k \in (i + 1) .. (j - 1) : k \in 1 .. (n - 1)
        OBVIOUS
      <3> QED BY <3>1, <3>2, <3>3
    <2> QED BY <2>1, <1>0 DEF QueuedByNearest
  <1>7. TargetsToCome(v, s2, c2, d)
    <2>1. ASSUME NEW i \in 1 .. (n - 1), v[i][2], NEW t \in d[v[i][1]]
          PROVE  s2[t] = "done" \/ c2[t] \/ \E j \in (i + 1) .. (n - 1) : v[j][1] = t
      <3>1. w[i][2] /\ t \in d[w[i][1]] /\ t \in Indices
        BY <1>1, <2>1
      <3>2. s[t] = "done" \/ c[t] \/ \E j \in (i + 1) .. n : w[j][1] = t
        BY <1>1, <3>1, <1>0 DEF TargetsToCome
      <3>3. \A j \in (i + 1) .. n : j = n \/ j \in (i + 1) .. (n - 1)
        OBVIOUS
      <3> QED BY <1>3, <3>1, <3>2, <3>3
    <2> QED BY <2>1, <1>0 DEF TargetsToCome
  <1>8. RootsVisited(v, s2, r)
    <2>1. ASSUME NEW x \in 1 .. r
          PROVE  s2[x] # "unvisited" \/ \E i \in 1 .. (n - 1) : v[i][1] = x
      <3>1. s[x] # "unvisited" \/ \E i \in 1 .. n : w[i][1] = x
        BY <1>0 DEF RootsVisited
      <3> QED BY <1>1, <3>1
    <2> QED BY <2>1, <1>0 DEF RootsVisited
  <1> QED BY <1>5, <1>6, <1>7, <1>8 DEF OnWalk

\* The top entry of w, the first one of m, is replaced by the second one of m and the targets
\* q of m that are unvisited; its targets in progress are marked.
Pushes(w, v, q, s, s2, c, c2, d, r, m) ==
    /\ Len(w) \in Nat \ {0} /\ Len(q) \in Nat /\ Len(v) = Len(w) + Len(q)
    /\ \A i \in 1 .. (Len(w) - 1) : v[i] = w[i]
    /\ w[Len(w)][1] = m /\ ~w[Len(w)][2] /\ v[Len(w)][1] = m /\ v[Len(w)][2]
    /\ \A i \in (Len(w) + 1) .. (Len(w) + Len(q)) : v[i][1] = q[i - Len(w)] /\ ~v[i][2]
    /\ m \in Indices /\ s[m] = "unvisited" /\ s2[m] = "in_progress"
    /\ \A x \in Indices : x # m => s2[x] = s[x]
    /\ \A i \in 1 .. Len(w) : w[i][1] \in Indices
    /\ \A x \in Indices : d[x] \subseteq Indices
    /\ \A x \in Indices : c[x] => c2[x]
    /\ \A x \in Indices : s2[x] \in {"unvisited", "in_progress", "done"}
    /\ \A x \in d[m] : s2[x] = "in_progress" => c2[x]
    /\ \A x \in Indices : (x \in d[m] /\ s2[x] = "unvisited") <=> \E i \in 1 .. Len(q) : q[i] = x
    /\ \A i \in 1 .. Len(q) : q[i] \in Indices
    /\ r \in Nat /\ 1 .. r \subseteq Indices

\* Putting the targets of m on the stack keeps the facts of the stack.
LEMMA PushKeeps ==
    ASSUME NEW w, NEW v, NEW q, NEW s, NEW s2, NEW c, NEW c2, NEW d, NEW r, NEW m,
           Pushes(w, v, q, s, s2, c, c2, d, r, m), OnWalk(w, s, c, d, r)
    PROVE  OnWalk(v, s2, c2, d, r)
  <1> DEFINE n == Len(w)
             k == Len(q)
  <1>a. \A i \in 1 .. n : w[i][2] => \A t \in d[w[i][1]] :
            s[t] = "done" \/ c[t] \/ \E j \in (i + 1) .. n : w[j][1] = t
    BY DEF OnWalk, TargetsToCome
  <1> SUFFICES
        ASSUME n \in Nat \ {0}, k \in Nat, Len(v) = n + k, \A i \in 1 .. (n - 1) : v[i] = w[i],
               w[n][1] = m, ~w[n][2], v[n][1] = m, v[n][2],
               \A i \in (n + 1) .. (n + k) : v[i][1] = q[i - n] /\ ~v[i][2],
               m \in Indices, \A x \in Indices : x # m => s2[x] = s[x],
               s[m] = "unvisited", s2[m] = "in_progress",
               \A i \in 1 .. n : w[i][1] \in Indices,
               \A x \in Indices : d[x] \subseteq Indices,
               \A x \in Indices : c[x] => c2[x],
               \A x \in Indices : s2[x] \in {"unvisited", "in_progress", "done"},
               \A x \in d[m] : s2[x] = "in_progress" => c2[x],
               \A x \in Indices : (x \in d[m] /\ s2[x] = "unvisited") <=> \E i \in 1 .. k : q[i] = x,
               \A i \in 1 .. k : q[i] \in Indices,
               r \in Nat, 1 .. r \subseteq Indices,
               InProgress(w, s), QueuedByNearest(w, d), RootsVisited(w, s, r)
        PROVE  OnWalk(v, s2, c2, d, r)
    BY DEF Pushes, OnWalk
  <1>0. Len(w) = n
    OBVIOUS
  <1> HIDE DEF n, k
  <1> DEFINE N == n + k
  <1>1. /\ N \in Nat /\ n \in 1 .. N
        /\ \A i : i \in 1 .. N <=> (i \in 1 .. (n - 1) \/ i = n \/ i \in (n + 1) .. N)
        /\ \A i : i \in 1 .. n <=> (i \in 1 .. (n - 1) \/ i = n)
    OBVIOUS
  <1>2. \A i \in (n + 1) .. N : i - n \in 1 .. k
    OBVIOUS
  <1>3. \A i \in (n + 1) .. N : /\ v[i][1] \in Indices /\ v[i][1] \in d[m] /\ s2[v[i][1]] = "unvisited"
                                /\ v[i][1] # m /\ s[v[i][1]] = "unvisited"
    BY <1>2
  <1>4. \A i \in 1 .. (n - 1) : /\ v[i][1] = w[i][1] /\ v[i][2] = w[i][2] /\ v[i][1] \in Indices
                                /\ (w[i][2] => w[i][1] # m /\ s[w[i][1]] = "in_progress")
    <2>1. ASSUME NEW i \in 1 .. (n - 1), w[i][2] PROVE s[w[i][1]] = "in_progress"
      BY <1>1, <2>1, <1>0 DEF InProgress
    <2> QED BY <1>1, <2>1
  <1>5. \A i \in 1 .. (n - 1) : \A j : j \in (i + 1) .. N =>
            j \in (i + 1) .. (n - 1) \/ j = n \/ j \in (n + 1) .. N
    OBVIOUS
  <1>6. \A i \in 1 .. (n - 1) : \A j \in (i + 1) .. (n - 1) : j \in 1 .. (n - 1) /\ j \in (i + 1) .. n
    OBVIOUS
  <1>7. InProgress(v, s2)
    <2>1. ASSUME NEW x \in Indices
          PROVE  s2[x] = "in_progress" <=> \E i \in 1 .. N : v[i][2] /\ v[i][1] = x
      <3>1. s[x] = "in_progress" <=> \E i \in 1 .. n : w[i][2] /\ w[i][1] = x
        BY <1>0 DEF InProgress
      <3>2. CASE x = m
        BY <1>1, <3>2
      <3>3. CASE x # m
        <4>1. s2[x] = "in_progress" <=> \E i \in 1 .. (n - 1) : w[i][2] /\ w[i][1] = x
          BY <1>1, <3>1, <3>3
        <4>2. (\E i \in 1 .. N : v[i][2] /\ v[i][1] = x) <=> \E i \in 1 .. (n - 1) : v[i][2] /\ v[i][1] = x
          BY <1>1, <3>3
        <4> HIDE DEF N
        <4> QED BY <1>4, <4>1, <4>2
      <3> QED BY <3>2, <3>3
    <2>2. ASSUME NEW i \in 1 .. N, v[i][2], NEW j \in (i + 1) .. N
          PROVE  v[j][1] # v[i][1]
      <3>1. CASE i \in 1 .. (n - 1)
        <4>1. ASSUME j \in (i + 1) .. (n - 1) PROVE w[j][1] # w[i][1]
          BY <1>1, <1>4, <1>6, <2>2, <3>1, <4>1, <1>0 DEF InProgress
        <4>2. j \in (i + 1) .. (n - 1) => v[j][1] # v[i][1]
          BY <1>4, <1>6, <3>1, <4>1
        <4>3. j = n => v[j][1] # v[i][1]
          BY <1>4, <2>2, <3>1
        <4>4. s[v[i][1]] = "in_progress"
          BY <1>4, <2>2, <3>1
        <4>5. j \in (n + 1) .. N => v[j][1] # v[i][1]
          BY <1>3, <4>4
        <4> QED BY <1>5, <3>1, <4>2, <4>3, <4>5
      <3>2. CASE i = n
        BY <1>3, <3>2
      <3> QED BY <1>1, <2>2, <3>1, <3>2
    <2> QED BY <2>1, <2>2, <1>0 DEF InProgress
  <1>8. QueuedByNearest(v, d)
    <2>1. ASSUME NEW j \in 2 .. N
          PROVE  \E i \in 1 .. (j - 1) :
                   v[i][2] /\ v[j][1] \in d[v[i][1]] /\ \A l \in (i + 1) .. (j - 1) : ~v[l][2]
      <3>1. CASE j <= n
        <4>1. j \in 2 .. n /\ \A i \in 1 .. (j - 1) : i \in 1 .. (n - 1)
          BY <3>1
        <4>2. PICK i \in 1 .. (j - 1) :
                   w[i][2] /\ w[j][1] \in d[w[i][1]] /\ \A l \in (i + 1) .. (j - 1) : ~w[l][2]
          BY <4>1, <1>0 DEF QueuedByNearest
        <4>3. \A l \in (i + 1) .. (j - 1) : l \in 1 .. (n - 1)
          BY <4>1
        <4>4. v[j][1] = w[j][1]
          BY <1>1, <1>4, <4>1
        <4> QED BY <1>4, <4>1, <4>2, <4>3, <4>4
      <3>2. CASE ~(j <= n)
        <4>1. n \in 1 .. (j - 1) /\ j \in (n + 1) .. N /\ \A l \in (n + 1) .. (j - 1) : l \in (n + 1) .. N
          BY <3>2
        <4> QED BY <1>3, <4>1
      <3> QED BY <3>1, <3>2
    <2> QED BY <2>1, <1>0 DEF QueuedByNearest
  <1>9. TargetsToCome(v, s2, c2, d)
    <2>1. ASSUME NEW i \in 1 .. N, v[i][2], NEW t \in d[v[i][1]]
          PROVE  s2[t] = "done" \/ c2[t] \/ \E j \in (i + 1) .. N : v[j][1] = t
      <3>1. CASE i \in 1 .. (n - 1)
        <4>1. w[i][2] /\ t \in d[w[i][1]] /\ t \in Indices /\ i \in 1 .. n
          BY <1>1, <1>4, <2>1, <3>1
        <4>2. s[t] = "done" \/ c[t] \/ \E j \in (i + 1) .. n : w[j][1] = t
          BY <1>a, <4>1
        <4>3. ASSUME NEW j \in (i + 1) .. n, w[j][1] = t PROVE j \in (i + 1) .. N /\ v[j][1] = t
          <5>1. j \in (i + 1) .. N /\ (j = n \/ j \in 1 .. (n - 1))
            OBVIOUS
          <5> QED BY <1>4, <4>3, <5>1
        <4>4. s[t] = "done" => s2[t] = "done"
          BY <4>1
        <4>5. (\E j \in (i + 1) .. n : w[j][1] = t) => \E j \in (i + 1) .. N : v[j][1] = t
          <5> HIDE DEF N
          <5> QED BY <4>3
        <4>6. c[t] => c2[t]
          BY <4>1
        <4> HIDE DEF N
        <4> QED BY <4>2, <4>4, <4>5, <4>6
      <3>2. CASE i = n
        <4>1. t \in d[m] /\ t \in Indices
          BY <2>1, <3>2
        <4>2. s2[t] = "unvisited" => \E j \in 1 .. k : q[j] = t
          BY <4>1
        <4>3. ASSUME NEW j \in 1 .. k PROVE j + n \in (n + 1) .. N /\ v[j + n][1] = q[j]
          <5>1. j + n \in (n + 1) .. N /\ (j + n) - n = j
            OBVIOUS
          <5> QED BY <5>1
        <4>4. s2[t] = "unvisited" => \E j \in (n + 1) .. N : v[j][1] = t
          <5> SUFFICES ASSUME s2[t] = "unvisited" PROVE \E j \in (n + 1) .. N : v[j][1] = t
            OBVIOUS
          <5>1. PICK j \in 1 .. k : q[j] = t
            BY <4>2
          <5>2. j + n \in (n + 1) .. N /\ v[j + n][1] = t
            BY <4>3, <5>1
          <5> HIDE DEF N
          <5> QED BY <5>2
        <4>5. s2[t] \in {"unvisited", "in_progress", "done"} /\ (s2[t] = "in_progress" => c2[t])
          BY <4>1
        <4> HIDE DEF N
        <4> QED BY <3>2, <4>4, <4>5
      <3> QED BY <1>1, <1>3, <2>1, <3>1, <3>2
    <2> QED BY <2>1, <1>0 DEF TargetsToCome
  <1>10. RootsVisited(v, s2, r)
    <2>1. ASSUME NEW x \in 1 .. r
          PROVE  s2[x] # "unvisited" \/ \E i \in 1 .. N : v[i][1] = x
      <3>1. s[x] # "unvisited" \/ \E i \in 1 .. n : w[i][1] = x
        BY <1>0 DEF RootsVisited
      <3>2. s[x] # "unvisited" => s2[x] # "unvisited"
        OBVIOUS
      <3> QED BY <1>1, <1>4, <3>1, <3>2
    <2> QED BY <2>1, <1>0 DEF RootsVisited
  <1> QED BY <1>7, <1>8, <1>9, <1>10 DEF OnWalk

\* What is above the pending entry i on the stack is reached from its targets.
LEMMA AboveIsReached ==
    ASSUME NEW w, NEW d, Len(w) \in Nat, QueuedByNearest(w, d), NEW i \in 1 .. Len(w), w[i][2],
           NEW C, d[w[i][1]] \subseteq C, \A x \in C : d[x] \subseteq C
    PROVE  \A j \in (i + 1) .. Len(w) : w[j][1] \in C
  <1> DEFINE T == {j \in (i + 1) .. Len(w) : w[j][1] \notin C}
  <1> SUFFICES ASSUME T # {} PROVE FALSE
    OBVIOUS
  <1>1. PICK j \in T : \A l \in T : j <= l
    <2>1. T \subseteq Nat
      OBVIOUS
    <2> HIDE DEF T
    <2> QED BY <2>1, LeastNat
  <1>2. j \in 2 .. Len(w) /\ j \in (i + 1) .. Len(w) /\ w[j][1] \notin C
    OBVIOUS
  <1>3. PICK p \in 1 .. (j - 1) :
            w[p][2] /\ w[j][1] \in d[w[p][1]] /\ \A l \in (p + 1) .. (j - 1) : ~w[l][2]
    BY <1>2 DEF QueuedByNearest
  <1>4. i <= p
    <2>1. p < i => i \in (p + 1) .. (j - 1)
      BY <1>2
    <2> QED BY <1>2, <1>3, <2>1
  <1>5. CASE p = i
    BY <1>2, <1>3, <1>5
  <1>6. CASE p # i
    <2>1. p \in (i + 1) .. Len(w) /\ ~(j <= p)
      BY <1>2, <1>4, <1>6
    <2>2. w[p][1] \in C
      BY <1>1, <2>1
    <2> QED BY <1>2, <1>3, <2>2
  <1> QED BY <1>5, <1>6

-----------------------------------------------------------------------------
(* What a step leaves alone.                                               *)

\* The expansion and the cost of a message depend only on the marks of its targets and the
\* costs of those it expands.
LEMMA SameExpansion ==
    ASSUME input \in FlattenInputs, input' = input, NEW m \in Indices,
           flatten_cost \in [Indices -> 0 .. SizeMax],
           \A t \in DecodesThrough(m) : noinline_decode'[t] = noinline_decode[t],
           \A t \in Expands(m) : flatten_cost'[t] = flatten_cost[t]
    PROVE  Expands(m)' = Expands(m) /\ Cost(m)' = Cost(m)
  <1>1. /\ inlined_targets(m)' = inlined_targets(m) /\ DecodesThrough(m)' = DecodesThrough(m)
        /\ own_arms(m)' = own_arms(m)
    BY DEF inlined_targets, DecodesThrough, own_arms
  <1>2. Expands(m)' = Expands(m)
    BY <1>1 DEF Expands
  <1> DEFINE s == inlined_targets(m)
             S == {t \in ToSet(s) : ~noinline_decode[t]}
             S1 == {t \in ToSet(s) : ~noinline_decode'[t]}
  <1>3. ToSet(s) = DecodesThrough(m)
    BY TargetFacts
  <1>4. S1 = S
    BY <1>3
  <1>5. StillInlined(m)' = StillInlined(m)
    <2>1. StillInlined(m) = Select(s, S)
      BY DEF StillInlined
    <2>2. StillInlined(m)' = Select(s, S1)
      BY <1>1 DEF StillInlined
    <2> HIDE DEF s, S, S1
    <2> QED BY <1>4, <2>1, <2>2
  <1>6. CostsInlined(m)' = CostsInlined(m)
    <2> DEFINE q == StillInlined(m)
    <2>1. q \in Seq(Indices) /\ ToSet(q) = Expands(m)
      BY InlinedFacts
    <2>2. CostsInlined(m) = [i \in DOMAIN q |-> flatten_cost[q[i]]]
      BY DEF CostsInlined
    <2>3. CostsInlined(m)' = [i \in DOMAIN q |-> flatten_cost'[q[i]]]
      BY <1>5 DEF CostsInlined
    <2> HIDE DEF q
    <2>4. \A i \in DOMAIN q : flatten_cost'[q[i]] = flatten_cost[q[i]]
      BY <2>1 DEF ToSet
    <2> QED BY <2>2, <2>3, <2>4
  <1>7. Cost(m)' = Cost(m)
    BY <1>1, <1>6 DEF Cost
  <1> QED
    BY <1>2, <1>7

\* The messages a message decodes through depend on the input alone.
LEMMA SameInput ==
    ASSUME input' = input
    PROVE  /\ \A m : DecodesThrough(m)' = DecodesThrough(m)
           /\ Targets' = Targets
           /\ \A m \in Indices : OnCycle(m)' = OnCycle(m)
  <1>1. \A m : DecodesThrough(m)' = DecodesThrough(m)
    BY DEF DecodesThrough
  <1> QED
    BY <1>1 DEF Targets, OnCycle

\* The stack facts that hold while the walk is not empty.
LEMMA WalkFacts ==
    ASSUME FlattenTypes, walk # <<>>
    PROVE  LET n == Len(walk)
           IN  /\ n \in Nat \ {0} /\ walk \in [1 .. n -> Indices \X BOOLEAN]
               /\ Last(walk) = walk[n] /\ walk[n][1] \in Indices
               /\ \A i \in 1 .. n : walk[i][1] \in Indices /\ walk[i][2] \in BOOLEAN
               /\ Popped \in Seq(Indices \X BOOLEAN) /\ Len(Popped) = n - 1
               /\ \A i \in 1 .. (n - 1) : Popped[i] = walk[i]
               /\ root \in Nat /\ 1 .. root \subseteq Indices
               /\ \A x \in Indices : Targets[x] = DecodesThrough(x) /\ Targets[x] \subseteq Indices
  <1> DEFINE n == Len(walk)
  <1>1. walk \in Seq(Indices \X BOOLEAN)
    BY DEF FlattenTypes
  <1>2. n \in Nat \ {0} /\ walk \in [1 .. n -> Indices \X BOOLEAN]
    BY <1>1, EmptySeq
  <1>3. \A i \in 1 .. n : walk[i][1] \in Indices /\ walk[i][2] \in BOOLEAN
    BY <1>2
  <1>4. Last(walk) = walk[n] /\ walk[n][1] \in Indices
    BY <1>2, <1>3 DEF Last
  <1>5. /\ Popped \in Seq(Indices \X BOOLEAN) /\ Len(Popped) = n - 1
        /\ \A i \in 1 .. (n - 1) : Popped[i] = walk[i]
    BY <1>1, FrontFacts DEF Popped
  <1>6. root \in Nat /\ 1 .. root \subseteq Indices
    BY FlattenAssumption DEF FlattenTypes, Indices
  <1>7. \A x \in Indices : Targets[x] = DecodesThrough(x) /\ Targets[x] \subseteq Indices
    BY DEF Targets, DecodesThrough
  <1> QED
    BY <1>2, <1>3, <1>4, <1>5, <1>6, <1>7

\* A step that leaves the marks, the costs and the settled messages alone keeps what the
\* invariant says of them.
LEMMA SettledKept ==
    ASSUME FlattenInv, UNCHANGED <<input, seen, flatten_cost, noinline_decode>>
    PROVE  SettledTargets' /\ SettledAcyclic' /\ SettledCosts' /\ MarksHaveReasons'
  <1>1. \A m : Done(m)' = Done(m) /\ DecodesThrough(m)' = DecodesThrough(m) /\ Expands(m)' = Expands(m)
    BY DEF Done, DecodesThrough, Expands
  <1>2. \A m \in Indices : Cost(m)' = Cost(m)
    BY SameExpansion DEF FlattenInv, FlattenTypes
  <1>3. \A m \in Indices : OnCycle(m)' = OnCycle(m)
    BY <1>1 DEF OnCycle
  <1> QED
    BY <1>1, <1>2, <1>3 DEF FlattenInv, SettledTargets, SettledAcyclic, SettledCosts, MarksHaveReasons

\* A step that marks messages only while they are in progress and keeps the costs of the
\* settled ones changes neither the expansion nor the cost of a settled message.
LEMMA SettledStable ==
    ASSUME FlattenInv, input' = input, NEW x \in Indices, Done(x),
           \A t \in Indices : Done(t) \/ noinline_decode[t] => noinline_decode'[t] = noinline_decode[t],
           \A t \in Indices : Done(t) => flatten_cost'[t] = flatten_cost[t]
    PROVE  /\ Expands(x)' = Expands(x) /\ Cost(x)' = Cost(x)
           /\ \A t \in Expands(x) : t \in Indices /\ Done(t)
  <1>1. \A t \in DecodesThrough(x) : t \in Indices /\ (Done(t) \/ noinline_decode[t])
    BY DEF FlattenInv, SettledTargets, DecodesThrough
  <1>2. \A t \in Expands(x) : t \in Indices /\ Done(t)
    BY <1>1 DEF Expands
  <1>3. Expands(x)' = Expands(x) /\ Cost(x)' = Cost(x)
    BY <1>1, <1>2, SameExpansion DEF FlattenInv, FlattenTypes
  <1> QED BY <1>2, <1>3

-----------------------------------------------------------------------------
(* One lemma per action.                                                   *)

\* The invariant holds before the first root.
LEMMA FlattenInitEstablishes == FlattenInit => FlattenInv
  <1> SUFFICES ASSUME FlattenInit PROVE FlattenInv
    OBVIOUS
  <1>1. NumMessages \in Nat /\ SizeMax \in Nat
    BY FlattenAssumption
  <1>2. /\ walk = <<>> /\ root = 0 /\ Len(walk) = 0
        /\ \A m \in Indices : seen[m] = "unvisited" /\ noinline_decode[m] = FALSE
    BY DEF FlattenInit
  <1>3. FlattenTypes
    BY <1>1, <1>2 DEF FlattenInit, FlattenTypes
  <1>4. WalkInv
    BY <1>2 DEF WalkInv, OnWalk, InProgress, QueuedByNearest, TargetsToCome, RootsVisited
  <1>5. SettledTargets /\ SettledAcyclic /\ SettledCosts
    BY <1>2 DEF SettledTargets, SettledAcyclic, SettledCosts, Done
  <1>6. MarksHaveReasons
    BY <1>2 DEF MarksHaveReasons
  <1> QED
    BY <1>3, <1>4, <1>5, <1>6 DEF FlattenInv

\* A root begins a walk of its own: nothing is in progress.
LEMMA NextRootKeeps ==
    ASSUME FlattenInv, NextRoot
    PROVE  FlattenInv'
  <1>1. /\ walk = <<>> /\ Len(walk) = 0 /\ root < NumMessages /\ root' = root + 1
        /\ UNCHANGED <<input, seen, flatten_cost, noinline_decode>>
        /\ \/ Fresh(root + 1) /\ walk' = << <<root + 1, FALSE>> >>
           \/ ~Fresh(root + 1) /\ walk' = <<>>
    BY DEF NextRoot, IsRoot
  <1>2. root \in Nat /\ root + 1 \in Indices /\ root + 1 \in 0 .. NumMessages
    BY <1>1, FlattenAssumption DEF FlattenInv, FlattenTypes, Indices
  <1>3. walk' \in Seq(Indices \X BOOLEAN)
    <2> DEFINE X == Indices \X BOOLEAN
    <2>1. <<root + 1, FALSE>> \in X
      BY <1>2
    <2> HIDE DEF X
    <2>2. << <<root + 1, FALSE>> >> \in Seq(X) /\ <<>> \in Seq(X)
      BY <2>1
    <2> QED BY <1>1, <2>2 DEF X
  <1>4. FlattenTypes'
    BY <1>1, <1>2, <1>3 DEF FlattenInv, FlattenTypes
  <1>5. \/ Fresh(root + 1) /\ Len(walk') = 1 /\ walk'[1][1] = root + 1 /\ walk'[1][2] = FALSE
        \/ ~Fresh(root + 1) /\ Len(walk') = 0
    <2> DEFINE e == <<root + 1, FALSE>>
    <2>1. e[1] = root + 1 /\ e[2] = FALSE
      OBVIOUS
    <2> HIDE DEF e
    <2>2. Len(<<e>>) = 1 /\ <<e>>[1] = e
      OBVIOUS
    <2>3. \/ Fresh(root + 1) /\ walk' = <<e>>
          \/ ~Fresh(root + 1) /\ walk' = <<>>
      BY <1>1 DEF e
    <2>4. CASE Fresh(root + 1)
      BY <2>1, <2>2, <2>3, <2>4
    <2>5. CASE ~Fresh(root + 1)
      BY <2>3, <2>5
    <2> QED BY <2>4, <2>5
  <1>6. /\ InProgress(walk', seen) /\ QueuedByNearest(walk', Targets)
        /\ TargetsToCome(walk', seen, noinline_decode, Targets)
    <2> DEFINE w == walk'
    <2>1. \A m \in Indices : seen[m] # "in_progress"
      BY <1>1 DEF FlattenInv, WalkInv, OnWalk, InProgress
    <2>2. (Len(w) = 1 /\ ~w[1][2]) \/ Len(w) = 0
      BY <1>5
    <2> HIDE DEF w
    <2>3. \A i \in 1 .. Len(w) : ~w[i][2]
      BY <2>2
    <2>4. \A j \in 2 .. Len(w) : FALSE
      BY <2>2
    <2>5. /\ InProgress(w, seen) /\ QueuedByNearest(w, Targets)
          /\ TargetsToCome(w, seen, noinline_decode, Targets)
      BY <2>1, <2>3, <2>4 DEF InProgress, QueuedByNearest, TargetsToCome
    <2> QED BY <2>5 DEF w
  <1>7. RootsVisited(walk', seen, root')
    <2>1. \A m \in 1 .. root : seen[m] # "unvisited"
      BY <1>1 DEF FlattenInv, WalkInv, OnWalk, RootsVisited
    <2>2. seen[root + 1] # "unvisited" \/ \E i \in 1 .. Len(walk') : walk'[i][1] = root + 1
      BY <1>5 DEF Fresh
    <2>3. \A m \in 1 .. root' : m \in 1 .. root \/ m = root + 1
      BY <1>1, <1>2
    <2> QED
      BY <2>1, <2>2, <2>3 DEF RootsVisited
  <1>8. WalkInv'
    BY <1>1, <1>6, <1>7, SameInput DEF WalkInv, OnWalk
  <1> QED
    BY <1>1, <1>4, <1>8, SettledKept DEF FlattenInv

\* An entry found settled: its message is done, not merely in progress.
LEMMA SkipKeeps ==
    ASSUME FlattenInv, Skip
    PROVE  FlattenInv'
  <1> DEFINE n == Len(walk)
             m == walk[n][1]
  <1>1. walk # <<>> /\ FlattenTypes /\ WalkInv
    BY DEF Skip, FlattenInv
  <1>2. /\ n \in Nat \ {0} /\ m \in Indices /\ Last(walk) = walk[n]
        /\ \A i \in 1 .. n : walk[i][1] \in Indices /\ walk[i][2] \in BOOLEAN
        /\ Popped \in Seq(Indices \X BOOLEAN) /\ Len(Popped) = n - 1
        /\ \A i \in 1 .. (n - 1) : Popped[i] = walk[i]
        /\ root \in Nat /\ 1 .. root \subseteq Indices
        /\ \A x \in Indices : Targets[x] \subseteq Indices
    BY <1>1, WalkFacts
  <1>3. /\ ~walk[n][2] /\ ~Fresh(m) /\ walk' = Popped
        /\ UNCHANGED <<input, root, seen, flatten_cost, noinline_decode>>
    BY <1>2 DEF Skip
  <1>4. seen[m] = "done"
    <2>1. \A i \in 1 .. n : walk[i][2] => walk[i][1] # m
      <3> SUFFICES ASSUME NEW i \in 1 .. n, walk[i][2] PROVE walk[i][1] # m
        OBVIOUS
      <3>1. n \in (i + 1) .. n
        <4>1. i # n /\ n \in Nat
          BY <1>2, <1>3
        <4> QED BY <4>1
      <3> QED BY <1>1, <3>1 DEF WalkInv, OnWalk, InProgress
    <2>2. seen[m] # "in_progress"
      BY <1>1, <1>2, <2>1 DEF WalkInv, OnWalk, InProgress
    <2>3. seen[m] \in {"unvisited", "in_progress", "done"}
      BY <1>1, <1>2 DEF FlattenTypes
    <2> QED BY <1>3, <2>2, <2>3 DEF Fresh
  <1>5. FlattenTypes'
    BY <1>1, <1>2, <1>3 DEF FlattenTypes
  <1>6. Pops(walk, Popped, seen, seen, noinline_decode, noinline_decode, Targets, root, m)
    BY <1>2, <1>4 DEF Pops
  <1>7. OnWalk(Popped, seen, noinline_decode, Targets, root)
    <2> HIDE DEF m
    <2> QED BY <1>1, <1>6, PopKeeps DEF WalkInv
  <1>8. WalkInv'
    BY <1>3, <1>7, SameInput DEF WalkInv
  <1> QED
    BY <1>3, <1>5, <1>8, SettledKept DEF FlattenInv

\* Everything a message decodes through is settled or marked when the message is settled, and
\* its own mark cannot matter to a message settled before: that one would have marked it.
LEMMA settleKeeps ==
    ASSUME FlattenInv, settle
    PROVE  FlattenInv'
  <1> DEFINE n == Len(walk)
  <1>1. walk # <<>> /\ FlattenTypes /\ WalkInv
    BY DEF settle, FlattenInv
  <1>m. PICK m \in Indices : m = walk[n][1]
    BY <1>1, WalkFacts
  <1>2. /\ n \in Nat \ {0} /\ m \in Indices /\ walk[n][1] = m /\ Last(walk) = walk[n]
        /\ \A i \in 1 .. n : walk[i][1] \in Indices /\ walk[i][2] \in BOOLEAN
        /\ Popped \in Seq(Indices \X BOOLEAN) /\ Len(Popped) = n - 1
        /\ \A i \in 1 .. (n - 1) : Popped[i] = walk[i]
        /\ root \in Nat /\ 1 .. root \subseteq Indices
        /\ \A x \in Indices : Targets[x] = DecodesThrough(x) /\ Targets[x] \subseteq Indices
    BY <1>1, <1>m, WalkFacts
  <1>3. /\ walk[n][2] /\ walk' = Popped
        /\ flatten_cost' = [flatten_cost EXCEPT ![m] = Cost(m)]
        /\ noinline_decode' = [noinline_decode EXCEPT ![m] = noinline_decode[m] \/ OverBudget(m)]
        /\ seen' = [seen EXCEPT ![m] = "done"]
        /\ UNCHANGED <<input, root>>
    BY <1>2 DEF settle
  <1>4. seen[m] = "in_progress" /\ ~Done(m)
    <2>1. n \in 1 .. Len(walk)
      BY <1>2
    <2>2. \E i \in 1 .. Len(walk) : walk[i][2] /\ walk[i][1] = m
      BY <1>2, <1>3, <2>1
    <2> HIDE DEF n
    <2> QED BY <1>1, <1>2, <2>2 DEF WalkInv, OnWalk, InProgress, Done
  <1>5. \A t \in DecodesThrough(m) : t \in Indices /\ (Done(t) \/ noinline_decode[t])
    <2>1. \A j \in (n + 1) .. n : FALSE
      BY <1>2
    <2>2. n \in 1 .. n /\ Targets[m] = DecodesThrough(m)
      BY <1>2
    <2>3. \A t \in Targets[m] : Done(t) \/ noinline_decode[t]
      <3>1. \A i \in 1 .. n : walk[i][2] => \A t \in Targets[walk[i][1]] :
                Done(t) \/ noinline_decode[t] \/ \E j \in (i + 1) .. n : walk[j][1] = t
        BY <1>1 DEF WalkInv, OnWalk, TargetsToCome, Done
      <3>2. walk[n][2] /\ walk[n][1] = m
        BY <1>2, <1>3
      <3> HIDE DEF n
      <3> QED BY <2>1, <2>2, <3>1, <3>2
    <2> QED BY <1>2, <2>2, <2>3
  <1>6. /\ input \in FlattenInputs /\ flatten_cost \in [Indices -> 0 .. SizeMax]
        /\ noinline_decode \in [Indices -> BOOLEAN]
        /\ seen \in [Indices -> {"unvisited", "in_progress", "done"}]
    BY <1>1 DEF FlattenTypes
  <1>7. /\ Cost(m) \in 0 .. SizeMax /\ (StillInlined(m) = <<>> <=> Expands(m) = {})
        /\ OverBudget(m) \in BOOLEAN
    <2> QED BY <1>2, <1>6, InlinedFacts DEF OverBudget
  <1>8. /\ flatten_cost'[m] = Cost(m)
        /\ noinline_decode'[m] = (noinline_decode[m] \/ OverBudget(m))
        /\ seen'[m] = "done"
        /\ \A x \in Indices : x # m => /\ flatten_cost'[x] = flatten_cost[x]
                                       /\ noinline_decode'[x] = noinline_decode[x]
                                       /\ seen'[x] = seen[x]
    BY <1>2, <1>3, <1>6
  <1>9. FlattenTypes'
    <2>1. /\ flatten_cost' \in [Indices -> 0 .. SizeMax]
          /\ seen' \in [Indices -> {"unvisited", "in_progress", "done"}]
      BY <1>2, <1>3, <1>6, <1>7
    <2>2. noinline_decode' \in [Indices -> BOOLEAN]
      BY <1>2, <1>3, <1>6, <1>7
    <2> QED BY <1>1, <1>2, <1>3, <2>1, <2>2 DEF FlattenTypes
  <1>10. WalkInv'
    <2>1. \A x \in Indices : noinline_decode[x] => noinline_decode'[x]
      BY <1>8
    <2>2. walk[n][1] = m
      BY <1>m
    <2>3. Pops(walk, Popped, seen, seen', noinline_decode, noinline_decode', Targets, root, m)
      BY <1>2, <1>3, <1>8, <2>1, <2>2 DEF Pops
    <2>4. OnWalk(Popped, seen', noinline_decode', Targets, root)
      BY <1>1, <2>3, PopKeeps DEF WalkInv
    <2> QED BY <1>3, <2>4, SameInput DEF WalkInv
  <1>11. \A x \in Indices : (Done(x)' <=> Done(x) \/ x = m)
    BY <1>8 DEF Done
  <1>12. /\ \A t \in Indices : Done(t) \/ noinline_decode[t] => noinline_decode'[t] = noinline_decode[t]
         /\ \A t \in Indices : Done(t) => flatten_cost'[t] = flatten_cost[t]
    BY <1>4, <1>6, <1>8
  <1>13. ASSUME NEW x \in Indices, Done(x)
         PROVE  /\ Expands(x)' = Expands(x) /\ Cost(x)' = Cost(x)
                /\ x # m /\ m \notin Expands(x)
    BY <1>3, <1>4, <1>12, <1>13, SettledStable
  <1>14. /\ Expands(m)' = Expands(m) /\ Cost(m)' = Cost(m)
         /\ m \notin Expands(m) /\ \A t \in Expands(m) : Done(t)
    <2>1. \A t \in Expands(m) : t \in Indices /\ Done(t)
      BY <1>5 DEF Expands
    <2> QED BY <1>2, <1>3, <1>4, <1>5, <1>6, <1>12, <2>1, SameExpansion
  <1>15. \A x : DecodesThrough(x)' = DecodesThrough(x)
    BY <1>3, SameInput
  <1>16. SettledTargets'
    <2>1. ASSUME NEW x \in Indices, Done(x)', NEW t \in DecodesThrough(x)
          PROVE  t \in Indices /\ (Done(t) \/ noinline_decode[t])
      <3>1. t \in Indices
        BY DEF DecodesThrough
      <3> QED BY <1>5, <1>11, <2>1, <3>1 DEF FlattenInv, SettledTargets
    <2>2. ASSUME NEW t \in Indices, Done(t) \/ noinline_decode[t] PROVE Done(t)' \/ noinline_decode'[t]
      BY <1>11, <1>12, <2>2
    <2> QED BY <1>15, <2>1, <2>2 DEF SettledTargets
  <1>17. SettledAcyclic'
    <2>1. ASSUME NEW S \in SUBSET Indices, S # {}, \A x \in S : Done(x)'
          PROVE  \E x \in S : Expands(x)' \cap S = {}
      <3>1. \A x \in S : x # m => Done(x)
        BY <1>11, <2>1
      <3> DEFINE R == S \ {m}
      <3>2. CASE R = {}
        <4>1. m \in S /\ \A x \in S : x = m
          BY <2>1, <3>2
        <4> QED BY <1>14, <4>1
      <3>3. CASE R # {}
        <4>1. R \in SUBSET Indices /\ \A x \in R : Done(x)
          BY <3>1
        <4>2. PICK x \in R : Expands(x) \cap R = {}
          <5> HIDE DEF R
          <5> QED BY <3>3, <4>1 DEF FlattenInv, SettledAcyclic
        <4>3. Expands(x)' = Expands(x) /\ m \notin Expands(x)
          BY <1>13, <4>1
        <4> QED BY <4>2, <4>3
      <3> QED BY <3>2, <3>3
    <2> QED BY <2>1 DEF SettledAcyclic
  <1>18. SettledCosts'
    <2>1. ASSUME NEW x \in Indices, Done(x)'
          PROVE  /\ flatten_cost'[x] = Cost(x)'
                 /\ noinline_decode'[x] \/ flatten_cost'[x] <= input.budget \/ Expands(x)' = {}
      <3>1. CASE x = m
        <4>1. noinline_decode'[m] \/ ~OverBudget(m)
          BY <1>8
        <4>2. input.budget \in Int /\ Cost(m) \in Int
          BY <1>6, <1>7, FlattenAssumption
        <4>3. ~OverBudget(m) => Cost(m) <= input.budget \/ Expands(m) = {}
          BY <1>7, <4>2 DEF OverBudget
        <4> QED BY <1>8, <1>14, <3>1, <4>1, <4>3
      <3>2. CASE x # m
        <4>1. Done(x)
          BY <1>11, <2>1, <3>2
        <4>2. /\ flatten_cost[x] = Cost(x)
              /\ noinline_decode[x] \/ flatten_cost[x] <= input.budget \/ Expands(x) = {}
          BY <4>1 DEF FlattenInv, SettledCosts
        <4> QED BY <1>8, <1>13, <3>2, <4>1, <4>2
      <3> QED BY <3>1, <3>2
    <2> QED BY <1>3, <2>1 DEF SettledCosts
  <1>19. MarksHaveReasons'
    <2>1. ASSUME NEW x \in Indices, noinline_decode'[x]
          PROVE  OnCycle(x) \/ (Done(x)' /\ flatten_cost'[x] > input.budget /\ Expands(x)' # {})
      <3>1. CASE noinline_decode[x]
        <4>1. OnCycle(x) \/ (Done(x) /\ flatten_cost[x] > input.budget /\ Expands(x) # {})
          BY <3>1 DEF FlattenInv, MarksHaveReasons
        <4> QED BY <1>8, <1>11, <1>13, <4>1
      <3>2. CASE ~noinline_decode[x]
        <4>1. x = m /\ OverBudget(m)
          BY <1>8, <2>1, <3>2
        <4> QED BY <1>7, <1>8, <1>11, <1>14, <4>1 DEF OverBudget
      <3> QED BY <3>1, <3>2
    <2>2. \A x \in Indices : OnCycle(x)' = OnCycle(x)
      BY <1>3, SameInput
    <2> QED BY <1>3, <2>1, <2>2 DEF MarksHaveReasons
  <1> QED
    BY <1>9, <1>10, <1>16, <1>17, <1>18, <1>19 DEF FlattenInv

\* A target found in progress is an ancestor, so it is on a cycle; nothing settled is marked.
LEMMA expandKeeps ==
    ASSUME FlattenInv, expand
    PROVE  FlattenInv'
  <1> DEFINE n == Len(walk)
  <1>1. walk # <<>> /\ FlattenTypes /\ WalkInv
    BY DEF expand, FlattenInv
  <1>m. PICK m \in Indices : m = walk[n][1]
    BY <1>1, WalkFacts
  <1>2. /\ n \in Nat \ {0} /\ walk[n][1] = m /\ Last(walk) = walk[n]
        /\ \A i \in 1 .. n : walk[i][1] \in Indices /\ walk[i][2] \in BOOLEAN
        /\ Popped \in Seq(Indices \X BOOLEAN) /\ Len(Popped) = n - 1
        /\ \A i \in 1 .. (n - 1) : Popped[i] = walk[i]
        /\ root \in Nat /\ 1 .. root \subseteq Indices
        /\ \A x \in Indices : Targets[x] = DecodesThrough(x) /\ Targets[x] \subseteq Indices
    BY <1>1, <1>m, WalkFacts
  <1> DEFINE t == inlined_targets(m)
             queued == Select(t, {x \in ToSet(t) : seen'[x] = "unvisited"})
             pushed == [i \in DOMAIN queued |-> <<queued[i], FALSE>>]
             w == Append(Popped, <<m, TRUE>>) \o pushed
  <1>3. /\ ~walk[n][2] /\ seen[m] = "unvisited"
        /\ seen' = [seen EXCEPT ![m] = "in_progress"]
        /\ noinline_decode' = [x \in Indices |->
              noinline_decode[x] \/ (\E i \in DOMAIN t : t[i] = x /\ seen'[x] = "in_progress")]
        /\ walk' = w
        /\ UNCHANGED <<input, root, flatten_cost>>
    BY <1>2 DEF expand, Fresh, Breaks
  <1>4. /\ input \in FlattenInputs /\ flatten_cost \in [Indices -> 0 .. SizeMax]
        /\ noinline_decode \in [Indices -> BOOLEAN]
        /\ seen \in [Indices -> {"unvisited", "in_progress", "done"}]
    BY <1>1 DEF FlattenTypes
  <1>5. t \in Seq(Indices) /\ ToSet(t) = DecodesThrough(m)
    BY <1>4, TargetFacts
  <1> HIDE DEF t
  <1>6. /\ seen' \in [Indices -> {"unvisited", "in_progress", "done"}]
        /\ seen'[m] = "in_progress" /\ \A x \in Indices : x # m => seen'[x] = seen[x]
    BY <1>3, <1>4
  <1>7. /\ noinline_decode' \in [Indices -> BOOLEAN]
        /\ \A x \in Indices :
             noinline_decode'[x] <=> noinline_decode[x] \/ (x \in DecodesThrough(m) /\ seen'[x] = "in_progress")
    <2>1. \A x : x \in DecodesThrough(m) <=> \E i \in DOMAIN t : t[i] = x
      BY <1>5 DEF ToSet
    <2> QED BY <1>3, <1>4, <2>1
  <1>8. queued \in Seq(Indices) /\ ToSet(queued) = {x \in DecodesThrough(m) : seen'[x] = "unvisited"}
    <2> DEFINE S == {x \in ToSet(t) : seen'[x] = "unvisited"}
    <2>1. ToSet(t) \cap S = {x \in DecodesThrough(m) : seen'[x] = "unvisited"}
      BY <1>5
    <2> HIDE DEF S
    <2>2. Select(t, S) \in Seq(Indices) /\ ToSet(Select(t, S)) = ToSet(t) \cap S
      BY <1>5, SelectFacts
    <2> QED BY <2>1, <2>2 DEF S
  <1> HIDE DEF queued
  <1> DEFINE k == Len(queued)
  <1>9. /\ k \in Nat /\ DOMAIN queued = 1 .. k /\ \A i \in 1 .. k : queued[i] \in Indices
        /\ \A x \in Indices : (x \in DecodesThrough(m) /\ seen'[x] = "unvisited") <=> \E i \in 1 .. k : queued[i] = x
    <2>1. k \in Nat /\ DOMAIN queued = 1 .. k /\ \A i \in 1 .. k : queued[i] \in Indices
      BY <1>8
    <2>2. \A x : x \in ToSet(queued) <=> \E i \in 1 .. k : queued[i] = x
      BY <2>1 DEF ToSet
    <2> QED BY <1>8, <2>1, <2>2
  <1>10. /\ w \in Seq(Indices \X BOOLEAN) /\ Len(w) = n + k
         /\ \A i \in 1 .. (n - 1) : w[i] = walk[i]
         /\ w[n][1] = m /\ w[n][2]
         /\ \A i \in (n + 1) .. (n + k) : w[i][1] = queued[i - n] /\ ~w[i][2]
    <2> DEFINE X == Indices \X BOOLEAN
               e == <<m, TRUE>>
               p == Append(Popped, e)
    <2>1. e \in X /\ e[1] = m /\ e[2] = TRUE /\ Popped \in Seq(X)
      BY <1>2
    <2>2. /\ pushed \in [1 .. k -> X]
          /\ \A i \in 1 .. k : pushed[i][1] = queued[i] /\ pushed[i][2] = FALSE
      BY <1>9
    <2> HIDE DEF X, e, pushed
    <2>3. pushed \in Seq(X) /\ Len(pushed) = k
      BY <1>9, <2>2
    <2>4. /\ p \in Seq(X) /\ Len(p) = n /\ p[n] = e /\ \A i \in 1 .. (n - 1) : p[i] = Popped[i]
      <3>1. /\ p \in Seq(X) /\ Len(p) = Len(Popped) + 1 /\ p[Len(Popped) + 1] = e
            /\ \A i \in 1 .. Len(Popped) : p[i] = Popped[i]
        BY <2>1, Appended
      <3>2. Len(Popped) = n - 1 /\ n \in Nat
        BY <1>2
      <3> HIDE DEF n, p
      <3>3. Len(Popped) + 1 = n
        BY <3>2
      <3> QED BY <3>1, <3>2, <3>3
    <2>5. w = p \o pushed
      BY DEF e
    <2> HIDE DEF p, w
    <2>6. /\ w \in Seq(X) /\ Len(w) = Len(p) + Len(pushed)
          /\ \A i \in 1 .. Len(p) + Len(pushed) :
                w[i] = IF i <= Len(p) THEN p[i] ELSE pushed[i - Len(p)]
      <3>1. p \in Seq(X) /\ pushed \in Seq(X)
        BY <2>3, <2>4
      <3> DEFINE z == p \o pushed
      <3>2. /\ z \in Seq(X) /\ Len(z) = Len(p) + Len(pushed)
            /\ \A i \in 1 .. Len(p) + Len(pushed) :
                  z[i] = IF i <= Len(p) THEN p[i] ELSE pushed[i - Len(p)]
        BY <3>1, ConcatProperties
      <3> HIDE DEF z
      <3>3. w = z
        BY <2>5 DEF z
      <3> QED BY <3>2, <3>3
    <2>7. n \in Nat \ {0} /\ k \in Nat
      BY <1>2, <1>9
    <2> HIDE DEF n, k
    <2>8. ASSUME NEW i \in 1 .. n PROVE w[i] = p[i]
      BY <2>3, <2>4, <2>6, <2>7
    <2>9. ASSUME NEW i \in (n + 1) .. (n + k) PROVE w[i] = pushed[i - n] /\ i - n \in 1 .. k
      BY <2>3, <2>4, <2>6, <2>7
    <2>10. n \in 1 .. n /\ \A i \in 1 .. (n - 1) : i \in 1 .. n
      BY <2>7
    <2>11. \A i \in 1 .. (n - 1) : w[i] = walk[i]
      BY <1>2, <2>4, <2>8, <2>10
    <2>12. w[n][1] = m /\ w[n][2]
      BY <2>1, <2>4, <2>8, <2>10
    <2>13. \A i \in (n + 1) .. (n + k) : w[i][1] = queued[i - n] /\ ~w[i][2]
      BY <2>2, <2>9
    <2> QED BY <2>3, <2>4, <2>6, <2>11, <2>12, <2>13 DEF X
  <1>11. FlattenTypes'
    BY <1>1, <1>3, <1>6, <1>7, <1>10 DEF FlattenTypes
  <1>12. OnWalk(walk', seen', noinline_decode', Targets, root)
    <2>1. Targets[m] = DecodesThrough(m)
      BY <1>2
    <2>2. \A x \in Indices : noinline_decode[x] => noinline_decode'[x]
      BY <1>7
    <2>3. \A x \in Targets[m] : seen'[x] = "in_progress" => noinline_decode'[x]
      BY <1>2, <1>7, <2>1
    <2>4. \A x \in Indices : seen'[x] \in {"unvisited", "in_progress", "done"}
      BY <1>6
    <2> HIDE DEF w
    <2>5. Pushes(walk, w, queued, seen, seen', noinline_decode, noinline_decode', Targets, root, m)
      <3>1. /\ Len(walk) \in Nat \ {0} /\ Len(queued) \in Nat /\ Len(w) = Len(walk) + Len(queued)
            /\ \A i \in 1 .. (Len(walk) - 1) : w[i] = walk[i]
            /\ walk[Len(walk)][1] = m /\ ~walk[Len(walk)][2] /\ w[Len(walk)][1] = m /\ w[Len(walk)][2]
            /\ \A i \in (Len(walk) + 1) .. (Len(walk) + Len(queued)) :
                 w[i][1] = queued[i - Len(walk)] /\ ~w[i][2]
        BY <1>2, <1>3, <1>9, <1>10
      <3>2. /\ \A x \in Indices : (x \in Targets[m] /\ seen'[x] = "unvisited")
                  <=> \E i \in 1 .. Len(queued) : queued[i] = x
            /\ \A i \in 1 .. Len(queued) : queued[i] \in Indices
        BY <1>9, <2>1
      <3>3. \A i \in 1 .. Len(walk) : walk[i][1] \in Indices
        BY <1>2
      <3>4. (\A x \in Indices : Targets[x] \subseteq Indices) /\ root \in Nat /\ 1 .. root \subseteq Indices
        BY <1>2
      <3>5. m \in Indices /\ seen[m] = "unvisited"
        BY <1>3
      <3> HIDE DEF n, k
      <3> QED BY <1>6, <2>2, <2>3, <2>4, <3>1, <3>2, <3>3, <3>4, <3>5 DEF Pushes
    <2>6. OnWalk(w, seen', noinline_decode', Targets, root)
      BY <1>1, <2>5, PushKeeps DEF WalkInv
    <2> QED BY <1>3, <2>6
  <1>13. WalkInv'
    BY <1>3, <1>12, SameInput DEF WalkInv
  <1>14. \A x \in Indices : Done(x)' <=> Done(x)
    BY <1>3, <1>6 DEF Done
  <1>15. /\ \A x \in Indices : Done(x) \/ noinline_decode[x] => noinline_decode'[x] = noinline_decode[x]
         /\ \A x \in Indices : Done(x) => flatten_cost'[x] = flatten_cost[x]
    <2>1. \A x \in Indices : Done(x) => seen'[x] # "in_progress"
      BY <1>3, <1>6 DEF Done
    <2> QED BY <1>3, <1>4, <1>7, <2>1
  <1>16. ASSUME NEW x \in Indices, Done(x)
         PROVE  Expands(x)' = Expands(x) /\ Cost(x)' = Cost(x)
    BY <1>3, <1>15, <1>16, SettledStable
  <1>17. \A x : DecodesThrough(x)' = DecodesThrough(x)
    BY <1>3, SameInput
  <1>18. SettledTargets'
    <2>1. ASSUME NEW x \in Indices, Done(x)', NEW y \in DecodesThrough(x)
          PROVE  Done(y)' \/ noinline_decode'[y]
      <3>1. y \in Indices
        BY DEF DecodesThrough
      <3>2. Done(y) \/ noinline_decode[y]
        BY <1>14, <2>1 DEF FlattenInv, SettledTargets
      <3> QED BY <1>7, <1>14, <3>1, <3>2
    <2> QED BY <1>17, <2>1 DEF SettledTargets
  <1>19. SettledAcyclic'
    <2>1. ASSUME NEW S \in SUBSET Indices, S # {}, \A x \in S : Done(x)'
          PROVE  \E x \in S : Expands(x)' \cap S = {}
      <3>1. \A x \in S : x \in Indices /\ Done(x)
        BY <1>14, <2>1
      <3>2. PICK x \in S : Expands(x) \cap S = {}
        BY <2>1, <3>1 DEF FlattenInv, SettledAcyclic
      <3> QED BY <1>16, <3>1, <3>2
    <2> QED BY <2>1 DEF SettledAcyclic
  <1>20. SettledCosts'
    <2>1. ASSUME NEW x \in Indices, Done(x)'
          PROVE  /\ flatten_cost'[x] = Cost(x)'
                 /\ noinline_decode'[x] \/ flatten_cost'[x] <= input.budget \/ Expands(x)' = {}
      <3>1. Done(x)
        BY <1>14, <2>1
      <3>2. /\ flatten_cost[x] = Cost(x)
            /\ noinline_decode[x] \/ flatten_cost[x] <= input.budget \/ Expands(x) = {}
        BY <3>1 DEF FlattenInv, SettledCosts
      <3> QED BY <1>3, <1>7, <1>16, <3>1, <3>2
    <2> QED BY <1>3, <2>1 DEF SettledCosts
  <1>21. ASSUME NEW x \in DecodesThrough(m), seen'[x] = "in_progress" PROVE OnCycle(x)
    <2> SUFFICES ASSUME NEW C \in SUBSET Indices, DecodesThrough(x) \subseteq C,
                        \A y \in C : DecodesThrough(y) \subseteq C
                 PROVE  x \in C
      BY DEF OnCycle
    <2> HIDE DEF w
    <2>1. x \in Indices /\ walk' = w /\ Len(w) = n + k /\ n \in Nat \ {0} /\ k \in Nat
      BY <1>2, <1>3, <1>9, <1>10 DEF DecodesThrough
    <2>2. InProgress(w, seen') /\ QueuedByNearest(w, Targets)
      BY <1>12, <2>1 DEF OnWalk
    <2>3. PICK i \in 1 .. Len(w) : w[i][2] /\ w[i][1] = x
      BY <1>21, <2>1, <2>2 DEF InProgress
    <2>4. Targets[w[i][1]] \subseteq C /\ \A y \in C : Targets[y] \subseteq C
      BY <1>2, <2>1, <2>3
    <2>5. \A j \in (i + 1) .. Len(w) : w[j][1] \in C
      <3>1. Len(w) \in Nat
        BY <2>1
      <3> QED BY <2>2, <2>3, <2>4, <3>1, AboveIsReached
    <2>6. i <= n
      <3>1. ~(i \in (n + 1) .. (n + k))
        BY <1>10, <2>3
      <3> HIDE DEF n, k
      <3> QED BY <2>1, <3>1
    <2>7. CASE i = n
      BY <1>10, <2>3, <2>7
    <2>8. CASE i # n
      <3>1. n \in (i + 1) .. Len(w)
        <4> HIDE DEF n, k
        <4> QED BY <2>1, <2>6, <2>8
      <3>2. m \in C
        BY <1>10, <2>5, <3>1
      <3> QED BY <3>2
    <2> QED BY <2>7, <2>8
  <1>22. MarksHaveReasons'
    <2>1. ASSUME NEW x \in Indices, noinline_decode'[x]
          PROVE  OnCycle(x) \/ (Done(x)' /\ flatten_cost'[x] > input.budget /\ Expands(x)' # {})
      <3>1. CASE noinline_decode[x]
        <4>1. OnCycle(x) \/ (Done(x) /\ flatten_cost[x] > input.budget /\ Expands(x) # {})
          BY <3>1 DEF FlattenInv, MarksHaveReasons
        <4> QED BY <1>3, <1>14, <1>16, <4>1
      <3>2. CASE ~noinline_decode[x]
        BY <1>7, <1>21, <2>1, <3>2
      <3> QED BY <3>1, <3>2
    <2>2. \A x \in Indices : OnCycle(x)' = OnCycle(x)
      BY <1>3, SameInput
    <2> QED BY <1>3, <2>1, <2>2 DEF MarksHaveReasons
  <1> QED
    BY <1>11, <1>13, <1>18, <1>19, <1>20, <1>22 DEF FlattenInv

-----------------------------------------------------------------------------
(* The theorems.                                                           *)

\* The invariant holds in every reachable state of the walk.
THEOREM FlattenInvariance == FlattenSpec => []FlattenInv
  <1>1. FlattenInv /\ [FlattenNext]_flatten_vars => FlattenInv'
    <2> SUFFICES ASSUME FlattenInv, [FlattenNext]_flatten_vars PROVE FlattenInv'
      OBVIOUS
    <2>1. CASE UNCHANGED flatten_vars
      <3>1. UNCHANGED <<input, root, walk, seen, flatten_cost, noinline_decode>>
        BY <2>1 DEF flatten_vars
      <3>2. FlattenTypes'
        BY <3>1 DEF FlattenInv, FlattenTypes
      <3>3. WalkInv'
        BY <3>1, SameInput DEF FlattenInv, WalkInv
      <3> QED BY <3>1, <3>2, <3>3, SettledKept DEF FlattenInv
    <2> QED
      BY <2>1, NextRootKeeps, SkipKeeps, settleKeeps, expandKeeps DEF FlattenNext
  <1> QED
    BY <1>1, FlattenInitEstablishes, PTL DEF FlattenSpec

\* What apply_flatten_budget leaves behind, for every set of messages, whatever their members
\* and the budget: no expansion goes round a cycle, no cost is stale, nothing unmarked is over
\* the budget, and every mark is earned.
THEOREM FlattenHonoursTheBudget == FlattenSpec => []BudgetHonoured
  <1>1. FlattenInv => BudgetHonoured
    <2> SUFFICES ASSUME FlattenInv PROVE BudgetHonoured
      OBVIOUS
    <2>1. ASSUME FlattenDone, input.budget # 0 PROVE \A m \in Indices : Done(m)
      <3>1. walk = <<>> /\ root = NumMessages /\ Len(walk) = 0
        BY <2>1 DEF FlattenDone
      <3>2. \A m \in Indices : seen[m] # "in_progress" /\ seen[m] # "unvisited"
        BY <3>1 DEF FlattenInv, WalkInv, OnWalk, InProgress, RootsVisited, Indices
      <3> QED BY <3>2 DEF FlattenInv, FlattenTypes, Done
    <2>2. CyclesBroken
      BY <2>1 DEF CyclesBroken, FlattenInv, SettledAcyclic
    <2>3. CostsAreFinal
      <3> SUFFICES ASSUME FlattenDone, input.budget # 0, NEW m \in Indices
                   PROVE  flatten_cost[m] = Saturated(Sum(Len(input.members[m]), CostsInlined(m)))
        BY DEF CostsAreFinal
      <3>1. flatten_cost[m] = Cost(m)
        BY <2>1 DEF FlattenInv, SettledCosts
      <3> QED BY <3>1, InlinedFacts DEF FlattenInv, FlattenTypes
    <2>4. MarksAreEarned
      BY DEF MarksAreEarned, FlattenInv, MarksHaveReasons
    <2>5. BudgetKept
      BY <2>1 DEF BudgetKept, FlattenInv, SettledCosts
    <2> QED
      BY <2>2, <2>3, <2>4, <2>5 DEF BudgetHonoured
  <1> QED
    BY <1>1, FlattenInvariance, PTL

-----------------------------------------------------------------------------
(* Field modes: the inductive invariant                                    *)

\* The lines of the profile, the entries and the names they can give, and the normalized
\* lines of an entry and of an unknown-fields name.
AllLines == ToSet(given.lines)
EntryOf(x) == [mode |-> x.directive, name |-> x.arg]
AllEntries == {EntryOf(x) : x \in AllLines}
AllNames == {x.arg : x \in AllLines}
EntryLine(e) == <<e.mode, e.name.fqn>>
UnknownLine(a) == <<"unknown", a.fqn>>

\* The first n elements of s.
Firsts(s, n) == {s[i] : i \in 1 .. n}

\* The types, relative to the profile that is read.
ModesTypes ==
    /\ given \in Profiles
    /\ line_no \in 0 .. Len(given.lines)
    /\ DOMAIN spec = {"profile_name", "entries", "unknowns"}
    /\ spec.entries \in Seq(AllEntries) /\ entry \in 0 .. Len(spec.entries)
    /\ spec.unknowns \in Seq(AllNames) /\ unknown \in 0 .. Len(spec.unknowns)
    /\ DOMAIN sel = {"chosen", "normalized"}
    /\ sel.normalized \in Seq({EntryLine(e) : e \in AllEntries})
    /\ unknown_lines \in Seq({UnknownLine(a) : a \in AllNames})
    /\ phase \in {"parse", "entries", "unknowns", "done"}

\* The lines read are well-formed, and are in the specification.
LinesRead ==
    LET read == Firsts(given.lines, line_no)
    IN  /\ \A x \in read : /\ x.single /\ x.directive \in {"name", "drop", "raw", "unknown-fields"}
                           /\ x.directive = "name" => x.identifier /\ x.arg.fqn = spec.profile_name
        /\ spec.profile_name = "" \/ \E x \in read : x.directive = "name" /\ x.arg.fqn = spec.profile_name
        /\ ToSet(spec.entries) = {EntryOf(x) : x \in {x \in read : x.directive \in {"drop", "raw"}}}
        /\ ToSet(spec.unknowns) = {x.arg : x \in {x \in read : x.directive = "unknown-fields"}}

\* An entry that may stand in a profile.
Valid(e) ==
    LET fqn == e.name.fqn
    IN  /\ fqn # "" /\ (IsType(fqn) \/ IsField(fqn))
        /\ ~(e.mode = "raw" /\ fqn \in Enums)
        /\ IsField(fqn) => field_entry_error(e.mode, fqn) = ""

\* The entries resolved are valid and are in the selection, each name with one mode.
EntriesApplied ==
    LET es == Firsts(spec.entries, entry)
    IN  /\ \A e \in es : /\ Valid(e) /\ <<e.name.fqn>> \in DOMAIN sel.chosen
                         /\ sel.chosen[<<e.name.fqn>>] = [mode |-> e.mode, fqn |-> e.name.fqn]
        /\ \A k \in DOMAIN sel.chosen : \E e \in es : k = <<e.name.fqn>>
        /\ ToSet(sel.normalized) = {EntryLine(e) : e \in es}
        /\ IsInjective(sel.normalized)

\* The modes are those the selection gives.
ModesApplied ==
    LET m(f) == IF FieldFirst(f) THEN Chosen(f) ELSE FromType(f)
    IN  modes = [f \in {f \in DOMAIN Fields : m(f) # {}} |-> CHOOSE x \in m(f) : TRUE]

\* The unknown-fields entries resolved name messages, and are noted.
UnknownsApplied ==
    LET us == Firsts(spec.unknowns, unknown)
    IN  /\ \A a \in us : a.fqn \in MessageTypes
        /\ phase # "done" => unknown_messages = {a.fqn : a \in us}
        /\ ToSet(unknown_lines) = {UnknownLine(a) : a \in us}
        /\ IsInjective(unknown_lines)

\* A pass begins when the one before is through.
InOrder ==
    /\ phase = "parse" => entry = 0
    /\ phase # "parse" => line_no = Len(given.lines)
    /\ phase \in {"parse", "entries"} => unknown = 0
    /\ phase \in {"unknowns", "done"} => entry = Len(spec.entries) /\ ModesApplied
    /\ phase = "done" => unknown = Len(spec.unknowns)

\* The inductive invariant: while nothing has failed, what the passes have read, checked and
\* noted is what the lines so far say; a failure is of a profile that is not sound.
ModesInv ==
    /\ ModesTypes
    /\ error = "" => LinesRead /\ EntriesApplied /\ UnknownsApplied /\ InOrder
    /\ error # "" => phase = "done" /\ ~Sound
    /\ IdentityDeterminesModes

-----------------------------------------------------------------------------
(* Field modes: sequences as sets                                          *)

\* An element more.
LEMMA AppendedSet ==
    ASSUME NEW S, NEW s \in Seq(S), NEW e \in S
    PROVE  /\ ToSet(Append(s, e)) = ToSet(s) \cup {e}
           /\ IsInjective(s) /\ e \notin ToSet(s) => IsInjective(Append(s, e))
  <1>1. PICK t : t = Append(s, e)
    OBVIOUS
  <1>2. PICK n : n = Len(s)
    OBVIOUS
  <1>3. n \in Nat /\ DOMAIN s = 1 .. n
    BY <1>2, LenProperties
  <1>4. t \in Seq(S) /\ Len(t) = n + 1 /\ t[n + 1] = e /\ \A i \in 1 .. n : t[i] = s[i]
    BY <1>1, <1>2, Appended
  <1>5. DOMAIN t = 1 .. (n + 1)
    BY <1>4, LenProperties
  <1>6. \A i \in DOMAIN t : (i \in DOMAIN s /\ t[i] = s[i]) \/ (i = n + 1 /\ t[i] = e)
    BY <1>3, <1>4, <1>5
  <1>7. DOMAIN s \subseteq DOMAIN t /\ n + 1 \in DOMAIN t
    BY <1>3, <1>5
  <1>8. ToSet(t) = ToSet(s) \cup {e}
    BY <1>3, <1>4, <1>6, <1>7 DEF ToSet
  <1>9. ASSUME IsInjective(s), e \notin ToSet(s) PROVE IsInjective(t)
    <2> SUFFICES ASSUME NEW i \in DOMAIN t, NEW j \in DOMAIN t, t[i] = t[j] PROVE i = j
      BY DEF IsInjective
    <2>1. CASE i \in DOMAIN s /\ t[i] = s[i] /\ j \in DOMAIN s /\ t[j] = s[j]
      BY <1>9, <2>1 DEF IsInjective
    <2>2. CASE i \in DOMAIN s /\ t[i] = s[i] /\ j = n + 1 /\ t[j] = e
      BY <1>9, <2>2 DEF ToSet
    <2>3. CASE j \in DOMAIN s /\ t[j] = s[j] /\ i = n + 1 /\ t[i] = e
      BY <1>9, <2>3 DEF ToSet
    <2> QED BY <1>6, <2>1, <2>2, <2>3
  <1> QED BY <1>1, <1>8, <1>9

\* The first elements: none, one more, all.
LEMMA FirstsFacts ==
    ASSUME NEW S, NEW s \in Seq(S)
    PROVE  /\ Firsts(s, 0) = {} /\ Firsts(s, Len(s)) = ToSet(s) /\ Len(s) \in Nat
           /\ \A n \in 0 .. Len(s) : Firsts(s, n) \subseteq ToSet(s) /\ Firsts(s, n) \subseteq S
           /\ \A n \in Nat : n < Len(s) =>
                /\ Firsts(s, n + 1) = Firsts(s, n) \cup {s[n + 1]}
                /\ s[n + 1] \in S /\ s[n + 1] \in ToSet(s) /\ n + 1 \in 0 .. Len(s)
  <1>1. Len(s) \in Nat /\ DOMAIN s = 1 .. Len(s) /\ \A i \in 1 .. Len(s) : s[i] \in S
    BY LenProperties
  <1>2. Firsts(s, 0) = {} /\ Firsts(s, Len(s)) = ToSet(s)
    BY <1>1 DEF Firsts, ToSet
  <1>3. \A n \in 0 .. Len(s) : Firsts(s, n) \subseteq ToSet(s) /\ Firsts(s, n) \subseteq S
    <2> SUFFICES ASSUME NEW n \in 0 .. Len(s), NEW i \in 1 .. n PROVE s[i] \in ToSet(s) /\ s[i] \in S
      BY DEF Firsts
    <2>1. i \in DOMAIN s
      BY <1>1
    <2> QED BY <1>1, <2>1 DEF ToSet
  <1>4. ASSUME NEW n \in Nat, n < Len(s)
        PROVE  /\ Firsts(s, n + 1) = Firsts(s, n) \cup {s[n + 1]}
               /\ s[n + 1] \in S /\ s[n + 1] \in ToSet(s) /\ n + 1 \in 0 .. Len(s)
    <2>1. n + 1 \in 1 .. Len(s) /\ n + 1 \in DOMAIN s
      BY <1>1, <1>4
    <2>2. \A i : i \in 1 .. (n + 1) <=> i \in 1 .. n \/ i = n + 1
      OBVIOUS
    <2>3. Firsts(s, n + 1) = Firsts(s, n) \cup {s[n + 1]}
      BY <2>2 DEF Firsts
    <2> QED BY <1>1, <2>1, <2>3 DEF ToSet
  <1> QED BY <1>1, <1>2, <1>3, <1>4

-----------------------------------------------------------------------------
(* Field modes: the steps                                                  *)

\* The lines of a profile.
LEMMA LinesFacts ==
    ASSUME given \in Profiles
    PROVE  /\ given.lines \in Seq(AllLines) /\ given.unknown_all \in BOOLEAN
           /\ \A x \in AllLines : /\ x.single \in BOOLEAN /\ x.identifier \in BOOLEAN
                                  /\ x.directive = "name" /\ x.identifier => x.arg.fqn # ""
  BY FieldModesAssumption DEF AllLines

\* Nothing has failed while a pass is under way.
LEMMA UnderWay ==
    ASSUME ModesInv, phase # "done"
    PROVE  error = "" /\ LinesRead /\ EntriesApplied /\ UnknownsApplied /\ InOrder /\ ModesTypes
  BY DEF ModesInv

\* A refusal, of a profile that is not sound.
LEMMA FailStep ==
    ASSUME ModesInv, phase # "done", NEW e, Fail(e), e # "", ~Sound,
           UNCHANGED <<given, spec, sel, unknown_lines>>, line_no' \in 0 .. Len(given.lines),
           entry' \in 0 .. Len(spec.entries), unknown' \in 0 .. Len(spec.unknowns)
    PROVE  ModesInv'
  <1>1. error' # "" /\ phase' = "done"
    BY DEF Fail
  <1>2. ModesTypes'
    BY <1>1 DEF ModesInv, ModesTypes, AllEntries, AllNames, AllLines
  <1>3. ~Sound'
    BY DEF Sound
  <1>4. IdentityDeterminesModes'
    BY <1>1 DEF IdentityDeterminesModes, Succeeded
  <1> QED
    BY <1>1, <1>2, <1>3, <1>4 DEF ModesInv

\* The first none.
LEMMA FirstsNone == ASSUME NEW s PROVE Firsts(s, 0) = {}
  BY DEF Firsts

\* parse_modes_file takes in a line or refuses it.
LEMMA ParseKeeps == ModesInv /\ ParseLine => ModesInv'
  <1> SUFFICES ASSUME ModesInv, ParseLine PROVE ModesInv'
    OBVIOUS
  <1>1. PICK x : x = Line
    OBVIOUS
  <1>2. /\ error = "" /\ LinesRead /\ EntriesApplied /\ UnknownsApplied /\ InOrder /\ ModesTypes
        /\ phase = "parse" /\ entry = 0 /\ unknown = 0
    BY UnderWay DEF InOrder, ParseLine
  <1>3. /\ given.lines \in Seq(AllLines)
        /\ \A y \in AllLines : y.directive = "name" /\ y.identifier => y.arg.fqn # ""
    BY <1>2, LinesFacts DEF ModesTypes
  <1>4. /\ Firsts(given.lines, line_no + 1) = Firsts(given.lines, line_no) \cup {x}
        /\ x \in AllLines /\ line_no + 1 \in 0 .. Len(given.lines)
        /\ Firsts(given.lines, line_no) \subseteq AllLines
    <2>1. line_no \in 0 .. Len(given.lines) /\ line_no < Len(given.lines)
      BY <1>2 DEF ModesTypes, ParseLine
    <2>2. Len(given.lines) \in Nat
      BY <1>3, LenProperties
    <2>3. line_no \in Nat
      BY <2>1, <2>2
    <2>4. PICK s \in Seq(AllLines) : s = given.lines
      BY <1>3
    <2>5. Firsts(s, line_no) \subseteq AllLines
      BY <2>1, <2>4, FirstsFacts
    <2>6. /\ Firsts(s, line_no + 1) = Firsts(s, line_no) \cup {s[line_no + 1]}
          /\ s[line_no + 1] \in AllLines /\ line_no + 1 \in 0 .. Len(s)
      <3>1. line_no < Len(s)
        BY <2>1, <2>4
      <3> QED BY <2>3, <3>1, FirstsFacts
    <2>7. x = s[line_no + 1]
      BY <1>1, <2>4 DEF Line
    <2> QED BY <2>4, <2>5, <2>6, <2>7
  <1> DEFINE read == Firsts(given.lines, line_no)
  <1>5. /\ UNCHANGED <<given, entry, sel, modes, unknown, unknown_messages, unknown_lines, profile>>
        /\ line_no' = line_no + 1
    BY DEF ParseLine
  <1>6. entry \in 0 .. Len(spec.entries) /\ unknown \in 0 .. Len(spec.unknowns)
    BY <1>2 DEF ModesTypes
  <1>7. ASSUME NEW e, Fail(e), e # "", UNCHANGED spec, ~Sound PROVE ModesInv'
    <2>1. UNCHANGED <<given, spec, sel, unknown_lines>> /\ line_no' \in 0 .. Len(given.lines)
      BY <1>4, <1>5, <1>7
    <2>2. entry' \in 0 .. Len(spec.entries) /\ unknown' \in 0 .. Len(spec.unknowns) /\ phase # "done"
      BY <1>2, <1>5, <1>6
    <2> QED BY <1>7, <2>1, <2>2, FailStep
  <1>8. ASSUME UNCHANGED <<phase, error>>, LinesRead',
               DOMAIN spec' = {"profile_name", "entries", "unknowns"},
               spec'.entries \in Seq(AllEntries), spec'.unknowns \in Seq(AllNames)
        PROVE  ModesInv'
    <2>1. 0 \in 0 .. Len(spec'.entries) /\ 0 \in 0 .. Len(spec'.unknowns)
      <3>1. PICK s \in Seq(AllEntries), u \in Seq(AllNames) : s = spec'.entries /\ u = spec'.unknowns
        BY <1>8
      <3>2. Len(s) \in Nat /\ Len(u) \in Nat
        BY LenProperties
      <3> QED BY <3>1, <3>2
    <2>2. ModesTypes'
      BY <1>2, <1>4, <1>5, <1>8, <2>1 DEF ModesTypes, AllLines, AllEntries, AllNames
    <2>3. Firsts(spec'.entries, 0) = {} /\ Firsts(spec'.unknowns, 0) = {}
           /\ Firsts(spec.entries, 0) = {} /\ Firsts(spec.unknowns, 0) = {}
      BY FirstsNone
    <2>4. EntriesApplied'
      BY <1>2, <1>5, <2>3 DEF EntriesApplied
    <2>5. UnknownsApplied'
      BY <1>2, <1>5, <1>8, <2>3 DEF UnknownsApplied
    <2>6. InOrder'
      BY <1>2, <1>5, <1>8 DEF InOrder
    <2>7. IdentityDeterminesModes'
      BY <1>2, <1>8 DEF IdentityDeterminesModes, Succeeded
    <2> QED BY <1>2, <1>8, <2>2, <2>4, <2>5, <2>6, <2>7 DEF ModesInv
  <1>9. /\ spec.entries \in Seq(AllEntries) /\ spec.unknowns \in Seq(AllNames)
        /\ DOMAIN spec = {"profile_name", "entries", "unknowns"}
    BY <1>2 DEF ModesTypes
  <1>10. /\ \A y \in read : /\ y.single /\ y.directive \in {"name", "drop", "raw", "unknown-fields"}
                            /\ y.directive = "name" => y.identifier /\ y.arg.fqn = spec.profile_name
         /\ spec.profile_name = "" \/ \E y \in read : y.directive = "name" /\ y.arg.fqn = spec.profile_name
         /\ ToSet(spec.entries) = {EntryOf(y) : y \in {y \in read : y.directive \in {"drop", "raw"}}}
         /\ ToSet(spec.unknowns) = {y.arg : y \in {y \in read : y.directive = "unknown-fields"}}
    BY <1>2 DEF LinesRead
  <1>11. Firsts(given'.lines, line_no') = read \cup {x}
    BY <1>4, <1>5
  <1>12. CASE ~x.single /\ Fail("expected a directive and an argument") /\ UNCHANGED spec
    <2>1. ~Sound
      BY <1>4, <1>12 DEF Sound, AllLines
    <2> QED BY <1>7, <1>12, <2>1
  <1>13. CASE /\ x.single /\ x.directive = "name"
              /\ IF ~x.identifier THEN Fail("not an identifier") /\ UNCHANGED spec
                 ELSE IF spec.profile_name \notin {"", x.arg.fqn}
                 THEN Fail("already named") /\ UNCHANGED spec
                 ELSE spec' = [spec EXCEPT !.profile_name = x.arg.fqn] /\ UNCHANGED <<phase, error>>
    <2>1. CASE ~x.identifier
      <3>1. ~Sound
        BY <1>4, <1>13, <2>1 DEF Sound, AllLines
      <3> QED BY <1>7, <1>13, <2>1, <3>1
    <2>2. CASE x.identifier /\ spec.profile_name \notin {"", x.arg.fqn}
      <3>1. PICK y \in read : y.directive = "name" /\ y.arg.fqn = spec.profile_name
        BY <1>10, <2>2
      <3>2. y \in AllLines /\ x.arg.fqn # y.arg.fqn
        BY <1>4, <2>2, <3>1
      <3>3. ~Sound
        BY <1>4, <1>13, <3>1, <3>2 DEF Sound, AllLines
      <3> QED BY <1>7, <1>13, <2>2, <3>3
    <2>3. CASE x.identifier /\ spec.profile_name \in {"", x.arg.fqn}
      <3>1. spec' = [spec EXCEPT !.profile_name = x.arg.fqn] /\ UNCHANGED <<phase, error>>
        BY <1>13, <2>3
      <3>2. /\ spec'.profile_name = x.arg.fqn /\ spec'.entries = spec.entries
            /\ spec'.unknowns = spec.unknowns /\ DOMAIN spec' = DOMAIN spec
        BY <1>9, <3>1
      <3>3. ASSUME NEW y \in read \cup {x}, y.directive = "name" PROVE y.identifier /\ y.arg.fqn = x.arg.fqn
        <4>1. CASE y = x
          BY <2>3, <4>1
        <4>2. CASE y \in read
          <5>1. y.identifier /\ y.arg.fqn = spec.profile_name /\ y \in AllLines
            BY <1>4, <1>10, <3>3, <4>2
          <5>2. y.arg.fqn # ""
            BY <1>3, <3>3, <5>1
          <5> QED BY <2>3, <5>1, <5>2
        <4> QED BY <4>1, <4>2
      <3>4. LinesRead'
        <4>1. {y \in read \cup {x} : y.directive \in {"drop", "raw"}} = {y \in read : y.directive \in {"drop", "raw"}}
          BY <1>13
        <4>2. {y \in read \cup {x} : y.directive = "unknown-fields"} = {y \in read : y.directive = "unknown-fields"}
          BY <1>13
        <4> QED
          BY <1>10, <1>11, <1>13, <3>2, <3>3, <4>1, <4>2 DEF LinesRead, EntryOf
      <3> QED BY <1>8, <1>9, <3>1, <3>2, <3>4
    <2> QED BY <2>1, <2>2, <2>3
  <1>14. CASE /\ x.single /\ x.directive \in {"drop", "raw"}
              /\ spec' = [spec EXCEPT !.entries = Append(@, [mode |-> x.directive, name |-> x.arg])]
              /\ UNCHANGED <<phase, error>>
    <2>1. EntryOf(x) \in AllEntries
      BY <1>4 DEF AllEntries
    <2>2. /\ spec'.profile_name = spec.profile_name /\ spec'.entries = Append(spec.entries, EntryOf(x))
          /\ spec'.unknowns = spec.unknowns /\ DOMAIN spec' = DOMAIN spec
      BY <1>9, <1>14 DEF EntryOf
    <2>3. spec'.entries \in Seq(AllEntries) /\ ToSet(spec'.entries) = ToSet(spec.entries) \cup {EntryOf(x)}
      BY <1>9, <2>1, <2>2, AppendedSet, AppendProperties
    <2>4. {y \in read \cup {x} : y.directive \in {"drop", "raw"}} = {y \in read : y.directive \in {"drop", "raw"}} \cup {x}
      BY <1>14
    <2>5. {y \in read \cup {x} : y.directive = "unknown-fields"} = {y \in read : y.directive = "unknown-fields"}
      BY <1>14
    <2>6. ToSet(spec'.entries) = {EntryOf(y) : y \in {y \in read \cup {x} : y.directive \in {"drop", "raw"}}}
      BY <1>10, <2>3, <2>4
    <2>7. LinesRead'
      BY <1>10, <1>11, <1>14, <2>2, <2>5, <2>6 DEF LinesRead, EntryOf
    <2> QED BY <1>8, <1>9, <1>14, <2>2, <2>3, <2>7
  <1>15. CASE /\ x.single /\ x.directive = "unknown-fields"
              /\ spec' = [spec EXCEPT !.unknowns = Append(@, x.arg)] /\ UNCHANGED <<phase, error>>
    <2>1. x.arg \in AllNames
      BY <1>4 DEF AllNames
    <2>2. /\ spec'.profile_name = spec.profile_name /\ spec'.entries = spec.entries
          /\ spec'.unknowns = Append(spec.unknowns, x.arg) /\ DOMAIN spec' = DOMAIN spec
      BY <1>9, <1>15
    <2>3. spec'.unknowns \in Seq(AllNames) /\ ToSet(spec'.unknowns) = ToSet(spec.unknowns) \cup {x.arg}
      BY <1>9, <2>1, <2>2, AppendedSet, AppendProperties
    <2>4. {y \in read \cup {x} : y.directive \in {"drop", "raw"}} = {y \in read : y.directive \in {"drop", "raw"}}
      BY <1>15
    <2>5. {y \in read \cup {x} : y.directive = "unknown-fields"} = {y \in read : y.directive = "unknown-fields"} \cup {x}
      BY <1>15
    <2>6. ToSet(spec'.unknowns) = {y.arg : y \in {y \in read \cup {x} : y.directive = "unknown-fields"}}
      BY <1>10, <2>3, <2>5
    <2>7. LinesRead'
      BY <1>10, <1>11, <1>15, <2>2, <2>4, <2>6 DEF LinesRead, EntryOf
    <2> QED BY <1>8, <1>9, <1>15, <2>2, <2>3, <2>7
  <1>16. CASE /\ x.single /\ x.directive \notin {"name", "drop", "raw", "unknown-fields"}
              /\ Fail("unknown directive") /\ UNCHANGED spec
    <2>1. ~Sound
      BY <1>4, <1>16 DEF Sound, AllLines
    <2> QED BY <1>7, <1>16, <2>1
  <1> QED
    BY <1>1, <1>12, <1>13, <1>14, <1>15, <1>16 DEF ParseLine

\* The lines are read: the pass over the entries begins.
LEMMA StartKeeps == ModesInv /\ StartEntries => ModesInv'
  <1> SUFFICES ASSUME ModesInv, StartEntries PROVE ModesInv'
    OBVIOUS
  <1>1. /\ error = "" /\ LinesRead /\ EntriesApplied /\ UnknownsApplied /\ InOrder /\ ModesTypes
        /\ phase = "parse" /\ phase' = "entries" /\ line_no = Len(given.lines) /\ error' = error
    BY UnderWay DEF StartEntries
  <1>2. UNCHANGED <<given, line_no, spec, entry, sel, modes, unknown, unknown_messages, unknown_lines>>
    BY DEF StartEntries
  <1>3. ModesTypes'
    BY <1>1, <1>2 DEF ModesTypes, AllLines, AllEntries, AllNames
  <1>4. LinesRead' /\ EntriesApplied' /\ UnknownsApplied' /\ InOrder'
    BY <1>1, <1>2 DEF LinesRead, EntriesApplied, UnknownsApplied, InOrder, Valid
  <1>5. IdentityDeterminesModes'
    BY <1>1 DEF IdentityDeterminesModes, Succeeded
  <1> QED BY <1>1, <1>3, <1>4, <1>5 DEF ModesInv

\* The entries of a sound profile are valid, and no two of one name differ.
LEMMA SoundEntries ==
    ASSUME Sound, NEW x \in AllLines, x.directive \in {"drop", "raw"}
    PROVE  /\ Valid(EntryOf(x))
           /\ \A y \in AllLines : y.directive \in {"drop", "raw"} /\ x.arg.fqn = y.arg.fqn
                                  => x.directive = y.directive
  <1> DEFINE fqn == x.arg.fqn
  <1>1. /\ IsType(fqn) \/ IsField(fqn)
        /\ \A y \in AllLines : y.directive \in {"drop", "raw"} /\ x.arg.fqn = y.arg.fqn
                               => x.directive = y.directive
        /\ IsField(fqn) => Fields[fqn].kind # "oneof"
        /\ x.directive = "raw" => fqn \notin Enums
        /\ x.directive = "raw" /\ IsField(fqn) => Fields[fqn].kind = "field" /\ Fields[fqn].type \in MessageTypes
        /\ x.directive = "drop" /\ IsField(fqn) => ~Fields[fqn].required
    BY DEF Sound, AllLines
  <1>2. EntryOf(x).mode = x.directive /\ EntryOf(x).name.fqn = fqn
    BY DEF EntryOf
  <1>3. fqn # ""
    BY <1>1, FieldModesAssumption DEF IsType, IsField
  <1>4. IsField(fqn) => field_entry_error(x.directive, fqn) = ""
    BY <1>1 DEF field_entry_error
  <1> QED
    BY <1>1, <1>2, <1>3, <1>4 DEF Valid

\* apply_entry takes an entry into the selection, finds it there or refuses it.
LEMMA EntryKeeps == ModesInv /\ apply_entry => ModesInv'
  <1> SUFFICES ASSUME ModesInv, apply_entry PROVE ModesInv'
    OBVIOUS
  <1>1. /\ error = "" /\ LinesRead /\ EntriesApplied /\ UnknownsApplied /\ InOrder /\ ModesTypes
        /\ phase = "entries" /\ unknown = 0 /\ line_no = Len(given.lines)
    BY UnderWay DEF InOrder, apply_entry
  <1>2. /\ UNCHANGED <<given, line_no, spec, modes, unknown, unknown_messages, unknown_lines, profile>>
        /\ entry' = entry + 1
    BY DEF apply_entry
  <1>3. PICK s \in Seq(AllEntries) : s = spec.entries
    BY <1>1 DEF ModesTypes
  <1>4. PICK e : e = s[entry + 1]
    OBVIOUS
  <1> DEFINE es == Firsts(s, entry)
             fqn == e.name.fqn
             key == <<fqn>>
             known == key \in DOMAIN sel.chosen
             line == <<e.mode, fqn>>
  <1>5. /\ Firsts(s, entry + 1) = es \cup {e} /\ e \in ToSet(s) /\ e \in AllEntries
        /\ entry + 1 \in 0 .. Len(s) /\ es \subseteq ToSet(s)
    <2>1. Len(s) \in Nat /\ entry \in 0 .. Len(s) /\ entry < Len(s)
      BY <1>1, <1>3, LenProperties DEF ModesTypes, apply_entry
    <2>2. entry \in Nat
      BY <2>1
    <2> QED BY <1>4, <2>1, <2>2, FirstsFacts
  <1>6. \A d \in ToSet(s) : \E x \in AllLines : x.directive \in {"drop", "raw"} /\ d = EntryOf(x)
    <2>1. given.lines \in Seq(AllLines)
      BY <1>1, LinesFacts DEF ModesTypes
    <2>2. Firsts(given.lines, line_no) \subseteq AllLines
      BY <1>1, <2>1, FirstsFacts DEF AllLines
    <2> QED BY <1>1, <1>3, <2>2 DEF LinesRead
  <1>7. Key(e.name) = key /\ normalize_name(e.name) = fqn
    BY DEF Key, normalize_name
  <1>8. /\ \A d \in es : /\ Valid(d) /\ <<d.name.fqn>> \in DOMAIN sel.chosen
                         /\ sel.chosen[<<d.name.fqn>>] = [mode |-> d.mode, fqn |-> d.name.fqn]
        /\ \A k \in DOMAIN sel.chosen : \E d \in es : k = <<d.name.fqn>>
        /\ ToSet(sel.normalized) = {EntryLine(d) : d \in es}
        /\ IsInjective(sel.normalized)
    BY <1>1, <1>3 DEF EntriesApplied
  <1>9. known => \E d \in es : /\ d.name.fqn = fqn
                               /\ sel.chosen[key] = [mode |-> d.mode, fqn |-> d.name.fqn]
    <2>1. SUFFICES ASSUME known PROVE \E d \in es : d.name.fqn = fqn /\ sel.chosen[key] = [mode |-> d.mode, fqn |-> d.name.fqn]
      OBVIOUS
    <2>2. PICK d \in es : key = <<d.name.fqn>>
      BY <1>8, <2>1
    <2>3. d.name.fqn = fqn
      BY <2>2
    <2> QED BY <1>8, <2>2, <2>3
  <1>10. EntryError(e) = "" <=> Valid(e) /\ (known => sel.chosen[key].mode = e.mode)
    <2>1. PICK x : x = field_entry_error(e.mode, fqn)
      OBVIOUS
    <2>2. PICK b \in BOOLEAN : b <=> known /\ sel.chosen[key].mode # e.mode
      OBVIOUS
    <2>3. EntryError(e) = IF fqn = "" THEN "empty name"
                          ELSE IF ~IsType(fqn) /\ ~IsField(fqn) THEN "unknown field or type"
                          ELSE IF IsType(fqn) /\ e.mode = "raw" /\ fqn \in Enums THEN "cannot keep enum raw"
                          ELSE IF IsField(fqn) /\ x # "" THEN x
                          ELSE IF b THEN "already has a mode" ELSE ""
      BY <1>7, <2>1, <2>2 DEF EntryError
    <2>4. Valid(e) <=> /\ fqn # "" /\ (IsType(fqn) \/ IsField(fqn))
                       /\ ~(e.mode = "raw" /\ fqn \in Enums) /\ (IsField(fqn) => x = "")
      BY <2>1 DEF Valid
    <2>5. fqn \in Enums => IsType(fqn)
      BY DEF IsType
    <2> HIDE DEF known, key
    <2> QED BY <2>2, <2>3, <2>4, <2>5
  <1>11. CASE EntryError(e) # ""
    <2>1. Fail(EntryError(e)) /\ UNCHANGED sel
      BY <1>3, <1>4, <1>11 DEF apply_entry
    <2>2. ASSUME Sound PROVE FALSE
      <3>1. PICK x \in AllLines : x.directive \in {"drop", "raw"} /\ e = EntryOf(x)
        BY <1>5, <1>6
      <3>2. Valid(e)
        BY <2>2, <3>1, SoundEntries
      <3>3. known /\ sel.chosen[key].mode # e.mode
        BY <1>10, <1>11, <3>2
      <3>4. PICK d \in es : d.name.fqn = fqn /\ sel.chosen[key] = [mode |-> d.mode, fqn |-> d.name.fqn]
        BY <1>9, <3>3
      <3>5. PICK y \in AllLines : y.directive \in {"drop", "raw"} /\ d = EntryOf(y)
        BY <1>5, <1>6
      <3>6. x.arg.fqn = y.arg.fqn /\ x.directive # y.directive
        BY <3>1, <3>3, <3>4, <3>5 DEF EntryOf
      <3> QED BY <2>2, <3>1, <3>5, <3>6, SoundEntries
    <2>3. line_no' \in 0 .. Len(given.lines) /\ unknown' \in 0 .. Len(spec.unknowns)
      BY <1>1, <1>2 DEF ModesTypes
    <2>4. entry' \in 0 .. Len(spec.entries)
      BY <1>2, <1>3, <1>5
    <2> QED BY <1>1, <1>2, <1>11, <2>1, <2>2, <2>3, <2>4, FailStep
  <1>12. CASE EntryError(e) = ""
    <2> DEFINE c == sel'.chosen
               n == sel'.normalized
    <2>1. /\ UNCHANGED <<phase, error>> /\ DOMAIN sel' = {"chosen", "normalized"}
          /\ c = IF known THEN sel.chosen
                 ELSE [k \in DOMAIN sel.chosen \cup {key} |->
                         IF k = key THEN [mode |-> e.mode, fqn |-> fqn] ELSE sel.chosen[k]]
          /\ n = IF ~known THEN Append(sel.normalized, line) ELSE sel.normalized
      <3>1. /\ UNCHANGED <<phase, error>>
            /\ sel' = [chosen |-> IF known THEN sel.chosen
                                  ELSE [k \in DOMAIN sel.chosen \cup {key} |->
                                          IF k = key THEN [mode |-> e.mode, fqn |-> <<e.mode, fqn>>[2]]
                                          ELSE sel.chosen[k]],
                       normalized |-> IF Noted(known) THEN Append(sel.normalized, line)
                                      ELSE sel.normalized]
        <4> HIDE DEF c, n
        <4> QED BY <1>3, <1>4, <1>7, <1>12 DEF apply_entry
      <3>2. <<e.mode, fqn>>[2] = fqn
        OBVIOUS
      <3> QED BY <3>1, <3>2 DEF Noted
    <2>2. Valid(e) /\ (known => sel.chosen[key].mode = e.mode)
      BY <1>10, <1>12
    <2>3. known => sel.chosen[key] = [mode |-> e.mode, fqn |-> fqn]
      <3>1. SUFFICES ASSUME known PROVE sel.chosen[key] = [mode |-> e.mode, fqn |-> fqn]
        OBVIOUS
      <3>2. PICK d \in es : d.name.fqn = fqn /\ sel.chosen[key] = [mode |-> d.mode, fqn |-> d.name.fqn]
        BY <1>9, <3>1
      <3>3. d.mode = e.mode
        BY <2>2, <3>1, <3>2
      <3> QED BY <3>2, <3>3
    <2>4. key \in DOMAIN c /\ c[key] = [mode |-> e.mode, fqn |-> fqn]
      BY <2>1, <2>3
    <2>5. \A d \in es : <<d.name.fqn>> \in DOMAIN c /\ c[<<d.name.fqn>>] = [mode |-> d.mode, fqn |-> d.name.fqn]
      BY <1>8, <2>1, <2>4
    <2>6. \A k \in DOMAIN c : \E d \in es \cup {e} : k = <<d.name.fqn>>
      BY <1>8, <2>1
    <2> DEFINE L == {EntryLine(d) : d \in AllEntries}
    <2>7. line = EntryLine(e) /\ line \in L /\ sel.normalized \in Seq(L)
      BY <1>1, <1>5 DEF EntryLine, ModesTypes
    <2>8. n \in Seq(L) /\ ToSet(n) = {EntryLine(d) : d \in es \cup {e}} /\ IsInjective(n)
      <3>1. CASE known
        <4>1. PICK d \in es : d.name.fqn = fqn /\ sel.chosen[key] = [mode |-> d.mode, fqn |-> d.name.fqn]
          BY <1>9, <3>1
        <4>2. EntryLine(d) = EntryLine(e)
          BY <2>3, <3>1, <4>1 DEF EntryLine
        <4> QED BY <1>8, <2>1, <2>7, <3>1, <4>2
      <3>2. CASE ~known
        <4>1. ASSUME NEW d \in es, EntryLine(d) = line PROVE FALSE
          <5>1. d.name.fqn = fqn
            BY <4>1 DEF EntryLine
          <5> QED BY <1>8, <3>2, <5>1
        <4>2. line \notin ToSet(sel.normalized)
          BY <1>8, <4>1
        <4>3. n = Append(sel.normalized, line)
          BY <2>1, <3>2
        <4> HIDE DEF L, line, n, known
        <4>4. n \in Seq(L) /\ ToSet(n) = ToSet(sel.normalized) \cup {line} /\ IsInjective(n)
          BY <1>8, <2>7, <4>2, <4>3, AppendedSet, AppendProperties
        <4> QED BY <1>8, <2>7, <4>4
      <3> QED BY <3>1, <3>2
    <2>9. ModesTypes'
      BY <1>1, <1>2, <1>3, <1>5, <2>1, <2>8 DEF ModesTypes, AllLines, AllEntries, AllNames
    <2>10. EntriesApplied'
      <3>1. Firsts(spec'.entries, entry') = es \cup {e}
        BY <1>2, <1>3, <1>5
      <3>2. \A d \in es \cup {e} : Valid(d)
        BY <1>8, <2>2
      <3> HIDE DEF c, n
      <3>3. EntriesApplied' <=>
              /\ \A d \in es \cup {e} : /\ Valid(d) /\ <<d.name.fqn>> \in DOMAIN c
                                        /\ c[<<d.name.fqn>>] = [mode |-> d.mode, fqn |-> d.name.fqn]
              /\ \A k \in DOMAIN c : \E d \in es \cup {e} : k = <<d.name.fqn>>
              /\ ToSet(n) = {EntryLine(d) : d \in es \cup {e}}
              /\ IsInjective(n)
        BY <3>1 DEF EntriesApplied, Valid, c, n
      <3> QED BY <2>4, <2>5, <2>6, <2>8, <3>2, <3>3
    <2>11. LinesRead' /\ UnknownsApplied' /\ InOrder'
      BY <1>1, <1>2, <2>1 DEF LinesRead, UnknownsApplied, InOrder
    <2>12. IdentityDeterminesModes'
      BY <1>1, <2>1 DEF IdentityDeterminesModes, Succeeded
    <2> QED BY <1>1, <2>1, <2>9, <2>10, <2>11, <2>12 DEF ModesInv
  <1> QED BY <1>11, <1>12

\* The fan-out of the selection over the fields.
LEMMA SelectionKeeps == ModesInv /\ apply_selection => ModesInv'
  <1> SUFFICES ASSUME ModesInv, apply_selection PROVE ModesInv'
    OBVIOUS
  <1>1. /\ error = "" /\ LinesRead /\ EntriesApplied /\ UnknownsApplied /\ InOrder /\ ModesTypes
        /\ phase = "entries" /\ phase' = "unknowns" /\ entry = Len(spec.entries) /\ error' = error
    BY UnderWay DEF apply_selection
  <1>2. UNCHANGED <<given, line_no, spec, entry, sel, unknown, unknown_messages, unknown_lines>>
    BY DEF apply_selection
  <1>3. ModesTypes'
    BY <1>1, <1>2 DEF ModesTypes, AllLines, AllEntries, AllNames
  <1>4. ModesApplied'
    BY <1>2 DEF apply_selection, ModesApplied, FieldFirst, Chosen, FromType
  <1>5. LinesRead' /\ EntriesApplied' /\ UnknownsApplied' /\ InOrder'
    BY <1>1, <1>2, <1>4 DEF LinesRead, EntriesApplied, UnknownsApplied, InOrder, Valid
  <1>6. IdentityDeterminesModes'
    BY <1>1 DEF IdentityDeterminesModes, Succeeded
  <1> QED BY <1>1, <1>3, <1>5, <1>6 DEF ModesInv

\* An unknown-fields entry is noted or refused.
LEMMA UnknownKeeps == ModesInv /\ apply_unknown_entry => ModesInv'
  <1> SUFFICES ASSUME ModesInv, apply_unknown_entry PROVE ModesInv'
    OBVIOUS
  <1>1. /\ error = "" /\ LinesRead /\ EntriesApplied /\ UnknownsApplied /\ InOrder /\ ModesTypes
        /\ phase = "unknowns" /\ line_no = Len(given.lines)
    BY UnderWay DEF InOrder, apply_unknown_entry
  <1>2. /\ UNCHANGED <<given, line_no, spec, entry, sel, modes, profile>>
        /\ unknown' = unknown + 1
    BY DEF apply_unknown_entry
  <1>3. PICK s \in Seq(AllNames) : s = spec.unknowns
    BY <1>1 DEF ModesTypes
  <1>4. PICK a : a = s[unknown + 1]
    OBVIOUS
  <1> DEFINE us == Firsts(s, unknown)
             line == UnknownLine(a)
             L == {UnknownLine(b) : b \in AllNames}
  <1>5. /\ Firsts(s, unknown + 1) = us \cup {a} /\ a \in ToSet(s) /\ a \in AllNames
        /\ unknown + 1 \in 0 .. Len(s)
    <2>1. Len(s) \in Nat /\ unknown \in 0 .. Len(s) /\ unknown < Len(s)
      BY <1>1, <1>3, LenProperties DEF ModesTypes, apply_unknown_entry
    <2>2. unknown \in Nat
      BY <2>1
    <2> QED BY <1>4, <2>1, <2>2, FirstsFacts
  <1>6. PICK x \in AllLines : x.directive = "unknown-fields" /\ a = x.arg
    <2>1. given.lines \in Seq(AllLines)
      BY <1>1, LinesFacts DEF ModesTypes
    <2>2. Firsts(given.lines, line_no) \subseteq AllLines
      BY <1>1, <2>1, FirstsFacts DEF AllLines
    <2> QED BY <1>1, <1>3, <1>5, <2>2 DEF LinesRead
  <1>7. /\ \A b \in us : b.fqn \in MessageTypes
        /\ unknown_messages = {b.fqn : b \in us}
        /\ ToSet(unknown_lines) = {UnknownLine(b) : b \in us}
        /\ IsInjective(unknown_lines) /\ unknown_lines \in Seq(L)
    BY <1>1, <1>3 DEF UnknownsApplied, ModesTypes
  <1>8. CASE a.fqn \notin MessageTypes
    <2>1. PICK e : e # "" /\ Fail(e) /\ UNCHANGED <<unknown_messages, unknown_lines>>
      <3>1. PICK e : e = IF a.fqn = "" THEN "empty name" ELSE IF a.fqn \in Enums THEN "is an enum"
                         ELSE IF IsField(a.fqn) THEN "is a field" ELSE "unknown message"
        OBVIOUS
      <3>2. e # ""
        BY <3>1
      <3>3. Fail(e) /\ UNCHANGED <<unknown_messages, unknown_lines>>
        BY <1>3, <1>4, <1>8, <3>1 DEF apply_unknown_entry, normalize_name
      <3> QED BY <3>2, <3>3
    <2>2. ~Sound
      BY <1>6, <1>8 DEF Sound, AllLines
    <2>3. line_no' \in 0 .. Len(given.lines) /\ entry' \in 0 .. Len(spec.entries)
      BY <1>1, <1>2 DEF ModesTypes
    <2>4. unknown' \in 0 .. Len(spec.unknowns)
      BY <1>2, <1>3, <1>5
    <2> QED BY <1>1, <1>2, <2>1, <2>2, <2>3, <2>4, FailStep
  <1>9. CASE a.fqn \in MessageTypes
    <2>1. /\ unknown_messages' = unknown_messages \cup {a.fqn}
          /\ unknown_lines' = IF a.fqn \in unknown_messages THEN unknown_lines ELSE Append(unknown_lines, line)
          /\ UNCHANGED <<phase, error>>
      BY <1>3, <1>4, <1>9 DEF apply_unknown_entry, normalize_name, UnknownLine
    <2>2. line \in L
      BY <1>5
    <2>3. /\ unknown_lines' \in Seq(L) /\ IsInjective(unknown_lines')
          /\ ToSet(unknown_lines') = {UnknownLine(b) : b \in us \cup {a}}
      <3>1. CASE a.fqn \in unknown_messages
        <4>1. PICK b \in us : b.fqn = a.fqn
          BY <1>7, <3>1
        <4>2. UnknownLine(b) = line
          BY <4>1 DEF UnknownLine
        <4> QED BY <1>7, <2>1, <3>1, <4>2
      <3>2. CASE a.fqn \notin unknown_messages
        <4>1. ASSUME NEW b \in us, UnknownLine(b) = line PROVE FALSE
          <5>1. b.fqn = a.fqn
            BY <4>1 DEF UnknownLine
          <5> QED BY <1>7, <3>2, <5>1
        <4>2. line \notin ToSet(unknown_lines)
          BY <1>7, <4>1
        <4>3. unknown_lines' = Append(unknown_lines, line)
          BY <2>1, <3>2
        <4> HIDE DEF L, line
        <4>4. /\ unknown_lines' \in Seq(L) /\ ToSet(unknown_lines') = ToSet(unknown_lines) \cup {line}
              /\ IsInjective(unknown_lines')
          BY <1>7, <2>2, <4>2, <4>3, AppendedSet, AppendProperties
        <4> QED BY <1>7, <2>2, <4>4 DEF line
      <3> QED BY <3>1, <3>2
    <2>4. ModesTypes'
      BY <1>1, <1>2, <1>3, <1>5, <2>1, <2>3 DEF ModesTypes, AllLines, AllEntries, AllNames
    <2>5. UnknownsApplied'
      <3>1. Firsts(spec'.unknowns, unknown') = us \cup {a}
        BY <1>2, <1>3, <1>5
      <3>2. unknown_messages' = {b.fqn : b \in us \cup {a}}
        BY <1>7, <2>1
      <3> QED BY <1>7, <1>9, <2>3, <3>1, <3>2 DEF UnknownsApplied
    <2>6. LinesRead' /\ EntriesApplied' /\ InOrder'
      <3>1. ModesApplied' <=> ModesApplied
        BY <1>2 DEF ModesApplied, FieldFirst, Chosen, FromType
      <3>2. LinesRead' /\ EntriesApplied'
        BY <1>1, <1>2 DEF LinesRead, EntriesApplied, Valid
      <3> QED BY <1>1, <1>2, <2>1, <3>1, <3>2 DEF InOrder
    <2>7. IdentityDeterminesModes'
      BY <1>1, <2>1 DEF IdentityDeterminesModes, Succeeded
    <2> QED BY <1>1, <2>1, <2>4, <2>5, <2>6, <2>7 DEF ModesInv
  <1> QED BY <1>8, <1>9

\* Two sequences without repetitions that share no element make one without repetitions.
LEMMA ConcatenatedSet ==
    ASSUME NEW S, NEW s \in Seq(S), NEW t \in Seq(S)
    PROVE  /\ s \o t \in Seq(S) /\ ToSet(s \o t) = ToSet(s) \cup ToSet(t)
           /\ IsInjective(s) /\ IsInjective(t) /\ ToSet(s) \cap ToSet(t) = {} => IsInjective(s \o t)
  <1>1. PICK u : u = s \o t
    OBVIOUS
  <1>2. PICK m, n : m = Len(s) /\ n = Len(t)
    OBVIOUS
  <1>3. /\ m \in Nat /\ n \in Nat /\ DOMAIN s = 1 .. m /\ DOMAIN t = 1 .. n
        /\ u \in Seq(S) /\ Len(u) = m + n
        /\ \A i \in 1 .. (m + n) : u[i] = IF i <= m THEN s[i] ELSE t[i - m]
    BY <1>1, <1>2, ConcatProperties, LenProperties
  <1>4. DOMAIN u = 1 .. (m + n)
    BY <1>3, LenProperties
  <1>5. \A i \in DOMAIN u : \/ i \in DOMAIN s /\ u[i] = s[i]
                            \/ i - m \in DOMAIN t /\ u[i] = t[i - m] /\ i > m
    BY <1>3, <1>4
  <1>6. /\ \A i \in DOMAIN s : i \in DOMAIN u /\ u[i] = s[i]
        /\ \A i \in DOMAIN t : m + i \in DOMAIN u /\ u[m + i] = t[i]
    <2>1. ASSUME NEW i \in DOMAIN s PROVE i \in DOMAIN u /\ u[i] = s[i]
      BY <1>3, <1>4
    <2>2. ASSUME NEW i \in DOMAIN t PROVE m + i \in DOMAIN u /\ u[m + i] = t[i]
      <3>1. m + i \in 1 .. (m + n) /\ ~(m + i <= m) /\ (m + i) - m = i
        BY <1>3
      <3> QED BY <1>3, <1>4, <3>1
    <2> QED BY <2>1, <2>2
  <1>7. ToSet(u) = ToSet(s) \cup ToSet(t)
    BY <1>5, <1>6 DEF ToSet
  <1>8. ASSUME IsInjective(s), IsInjective(t), ToSet(s) \cap ToSet(t) = {} PROVE IsInjective(u)
    <2> SUFFICES ASSUME NEW i \in DOMAIN u, NEW j \in DOMAIN u, u[i] = u[j] PROVE i = j
      BY DEF IsInjective
    <2>1. CASE i \in DOMAIN s /\ u[i] = s[i] /\ j \in DOMAIN s /\ u[j] = s[j]
      BY <1>8, <2>1 DEF IsInjective
    <2>2. CASE i - m \in DOMAIN t /\ u[i] = t[i - m] /\ j - m \in DOMAIN t /\ u[j] = t[j - m]
      <3>1. i - m = j - m
        BY <1>8, <2>2 DEF IsInjective
      <3> QED BY <1>3, <1>4, <3>1
    <2>3. CASE i \in DOMAIN s /\ u[i] = s[i] /\ j - m \in DOMAIN t /\ u[j] = t[j - m]
      <3>1. u[i] \in ToSet(s) /\ u[i] \in ToSet(t)
        BY <2>3 DEF ToSet
      <3> QED BY <1>8, <3>1
    <2>4. CASE j \in DOMAIN s /\ u[j] = s[j] /\ i - m \in DOMAIN t /\ u[i] = t[i - m]
      <3>1. u[i] \in ToSet(s) /\ u[i] \in ToSet(t)
        BY <2>4 DEF ToSet
      <3> QED BY <1>8, <3>1
    <2> QED BY <1>5, <2>1, <2>2, <2>3, <2>4
  <1> QED BY <1>1, <1>3, <1>7, <1>8

\* When all passes are through, the profile is sound and the selection is all that it asks for.
LEMMA PassesThrough ==
    ASSUME given \in Profiles, LinesRead, EntriesApplied, ModesTypes, UnknownsApplied,
           line_no = Len(given.lines), entry = Len(spec.entries), unknown = Len(spec.unknowns)
    PROVE  /\ Sound
           /\ ToSet(sel.normalized) = {<<x.directive, x.arg.fqn>> : x \in {x \in AllLines : x.directive \in {"drop", "raw"}}}
           /\ ToSet(unknown_lines) = {<<"unknown", x.arg.fqn>> : x \in {x \in AllLines : x.directive = "unknown-fields"}}
           /\ \A t, m : m \in Chosen(t) <=> <<m, t>> \in ToSet(sel.normalized)
           /\ \A t : \A m, n \in Chosen(t) : m = n
  <1>1. /\ given.lines \in Seq(AllLines) /\ spec.entries \in Seq(AllEntries) /\ spec.unknowns \in Seq(AllNames)
    BY LinesFacts DEF ModesTypes
  <1>2. /\ Firsts(given.lines, Len(given.lines)) = AllLines
        /\ Firsts(spec.entries, Len(spec.entries)) = ToSet(spec.entries)
        /\ Firsts(spec.unknowns, Len(spec.unknowns)) = ToSet(spec.unknowns)
    BY <1>1, FirstsFacts DEF AllLines
  <1> DEFINE E == {x \in AllLines : x.directive \in {"drop", "raw"}}
             U == {x \in AllLines : x.directive = "unknown-fields"}
  <1>3. /\ \A x \in AllLines : /\ x.single /\ x.directive \in {"name", "drop", "raw", "unknown-fields"}
                               /\ x.directive = "name" => x.identifier /\ x.arg.fqn = spec.profile_name
        /\ ToSet(spec.entries) = {EntryOf(x) : x \in E}
        /\ ToSet(spec.unknowns) = {x.arg : x \in U}
    BY <1>2 DEF LinesRead
  <1>4. /\ \A e \in ToSet(spec.entries) :
              /\ Valid(e) /\ <<e.name.fqn>> \in DOMAIN sel.chosen
              /\ sel.chosen[<<e.name.fqn>>] = [mode |-> e.mode, fqn |-> e.name.fqn]
        /\ \A k \in DOMAIN sel.chosen : \E e \in ToSet(spec.entries) : k = <<e.name.fqn>>
        /\ ToSet(sel.normalized) = {EntryLine(e) : e \in ToSet(spec.entries)}
    BY <1>2 DEF EntriesApplied
  <1>5. ASSUME NEW x \in E
        PROVE  /\ Valid(EntryOf(x)) /\ <<x.arg.fqn>> \in DOMAIN sel.chosen
               /\ sel.chosen[<<x.arg.fqn>>] = [mode |-> x.directive, fqn |-> x.arg.fqn]
    <2>1. EntryOf(x) \in ToSet(spec.entries) /\ EntryOf(x).mode = x.directive /\ EntryOf(x).name = x.arg
      BY <1>3 DEF EntryOf
    <2> QED BY <1>4, <2>1
  <1>6. \A k \in DOMAIN sel.chosen : \E x \in E : k = <<x.arg.fqn>>
    <2> SUFFICES ASSUME NEW k \in DOMAIN sel.chosen PROVE \E x \in E : k = <<x.arg.fqn>>
      OBVIOUS
    <2>1. PICK e \in ToSet(spec.entries) : k = <<e.name.fqn>>
      BY <1>4
    <2>2. PICK x \in E : e = EntryOf(x)
      BY <1>3
    <2>3. e.name = x.arg
      BY <2>2 DEF EntryOf
    <2> QED BY <2>1, <2>3
  <1>7. ToSet(sel.normalized) = {<<x.directive, x.arg.fqn>> : x \in E}
    <2>1. \A x \in E : EntryLine(EntryOf(x)) = <<x.directive, x.arg.fqn>>
      BY DEF EntryLine, EntryOf
    <2> QED BY <1>3, <1>4, <2>1
  <1>8. \A x \in U : x.arg.fqn \in MessageTypes
    BY <1>2, <1>3 DEF UnknownsApplied
  <1>9. ToSet(unknown_lines) = {<<"unknown", x.arg.fqn>> : x \in U}
    <2>1. ToSet(unknown_lines) = {UnknownLine(a) : a \in ToSet(spec.unknowns)}
      BY <1>2 DEF UnknownsApplied
    <2> QED BY <1>3, <2>1 DEF UnknownLine
  <1>10. ASSUME NEW x \in E, NEW y \in E, x.arg.fqn = y.arg.fqn PROVE x.directive = y.directive
    <2>1. [mode |-> x.directive, fqn |-> x.arg.fqn] = [mode |-> y.directive, fqn |-> y.arg.fqn]
      BY <1>5, <1>10
    <2> QED BY <2>1
  <1>11. Sound
    <2>1. \A x \in AllLines : x.single /\ x.directive \in {"name", "drop", "raw", "unknown-fields"}
      BY <1>3
    <2>2. \A x, y \in {x \in AllLines : x.directive = "name"} : x.identifier /\ x.arg.fqn = y.arg.fqn
      BY <1>3
    <2>3. ASSUME NEW x \in E
          PROVE  /\ IsType(x.arg.fqn) \/ IsField(x.arg.fqn)
                 /\ \A y \in E : x.arg.fqn = y.arg.fqn => x.directive = y.directive
                 /\ IsField(x.arg.fqn) => Fields[x.arg.fqn].kind # "oneof"
                 /\ x.directive = "raw" => x.arg.fqn \notin Enums
                 /\ x.directive = "raw" /\ IsField(x.arg.fqn) =>
                       Fields[x.arg.fqn].kind = "field" /\ Fields[x.arg.fqn].type \in MessageTypes
                 /\ x.directive = "drop" /\ IsField(x.arg.fqn) => ~Fields[x.arg.fqn].required
      <3>1. PICK f, d : f = x.arg.fqn /\ d = x.directive
        OBVIOUS
      <3>2. /\ IsType(f) \/ IsField(f)
            /\ ~(d = "raw" /\ f \in Enums)
            /\ IsField(f) => field_entry_error(d, f) = ""
        BY <1>5, <3>1 DEF Valid, EntryOf
      <3>3. ASSUME IsField(f)
            PROVE  /\ Fields[f].kind # "oneof"
                   /\ d = "raw" => Fields[f].kind = "field" /\ Fields[f].type \in MessageTypes
                   /\ d = "drop" => ~Fields[f].required
        <4>1. field_entry_error(d, f) = ""
          BY <3>2, <3>3
        <4>2. /\ Fields[f].kind # "oneof"
              /\ ~(d = "drop" /\ Fields[f].kind = "field" /\ Fields[f].required)
              /\ ~(d = "raw" /\ (Fields[f].kind = "map" \/ Fields[f].type \notin MessageTypes))
          BY <4>1 DEF field_entry_error
        <4>3. Fields[f].kind \in {"field", "map", "oneof"} /\ (Fields[f].required => Fields[f].kind = "field")
          BY <3>3, FieldModesAssumption DEF IsField
        <4> QED BY <4>2, <4>3
      <3> QED BY <1>10, <3>1, <3>2, <3>3
    <2>4. /\ \A x \in AllLines : x.directive \in {"drop", "raw"} => x \in E
          /\ \A x \in AllLines : x.directive = "unknown-fields" => x \in U
      OBVIOUS
    <2> HIDE DEF E, U
    <2>5. /\ \A x \in {x \in AllLines : x.directive = "drop"} \cup {x \in AllLines : x.directive = "raw"} :
               /\ IsType(x.arg.fqn) \/ IsField(x.arg.fqn)
               /\ \A y \in {y \in AllLines : y.directive = "drop"} \cup {y \in AllLines : y.directive = "raw"} :
                     x.arg.fqn = y.arg.fqn => x.directive = y.directive
               /\ IsField(x.arg.fqn) => Fields[x.arg.fqn].kind # "oneof"
          /\ \A x \in {x \in AllLines : x.directive = "raw"} : x.arg.fqn \notin Enums
               /\ (IsField(x.arg.fqn) => Fields[x.arg.fqn].kind = "field"
                                         /\ Fields[x.arg.fqn].type \in MessageTypes)
          /\ \A x \in {x \in AllLines : x.directive = "drop"} : IsField(x.arg.fqn) => ~Fields[x.arg.fqn].required
          /\ \A x \in {x \in AllLines : x.directive = "unknown-fields"} : x.arg.fqn \in MessageTypes
      BY <1>8, <2>3, <2>4
    <2> QED BY <2>1, <2>2, <2>5 DEF Sound, AllLines
  <1>12. ASSUME NEW t, NEW m PROVE m \in Chosen(t) <=> <<m, t>> \in ToSet(sel.normalized)
    <2>1. ASSUME m \in Chosen(t) PROVE <<m, t>> \in ToSet(sel.normalized)
      <3>1. PICK k \in DOMAIN sel.chosen : sel.chosen[k].fqn = t /\ m = sel.chosen[k].mode
        BY <2>1 DEF Chosen
      <3>2. PICK x \in E : k = <<x.arg.fqn>>
        BY <1>6
      <3>3. m = x.directive /\ t = x.arg.fqn
        <4>1. sel.chosen[k] = [mode |-> x.directive, fqn |-> x.arg.fqn]
          BY <1>5, <3>2
        <4> QED BY <3>1, <4>1
      <3> QED BY <1>7, <3>3
    <2>2. ASSUME <<m, t>> \in ToSet(sel.normalized) PROVE m \in Chosen(t)
      <3>1. PICK x \in E : <<m, t>> = <<x.directive, x.arg.fqn>>
        BY <1>7, <2>2
      <3>2. m = x.directive /\ t = x.arg.fqn
        BY <3>1
      <3>3. PICK k : k = <<t>>
        OBVIOUS
      <3>4. k \in DOMAIN sel.chosen /\ sel.chosen[k].mode = m /\ sel.chosen[k].fqn = t
        <4>1. k \in DOMAIN sel.chosen /\ sel.chosen[k] = [mode |-> x.directive, fqn |-> x.arg.fqn]
          BY <1>5, <3>2, <3>3
        <4> QED BY <3>2, <4>1
      <3> QED BY <3>4 DEF Chosen
    <2> QED BY <2>1, <2>2
  <1>13. ASSUME NEW t, NEW m \in Chosen(t), NEW n \in Chosen(t) PROVE m = n
    <2>1. PICK x \in E : <<m, t>> = <<x.directive, x.arg.fqn>>
      BY <1>7, <1>12
    <2>2. PICK y \in E : <<n, t>> = <<y.directive, y.arg.fqn>>
      BY <1>7, <1>12
    <2>3. m = x.directive /\ n = y.directive /\ x.arg.fqn = y.arg.fqn
      BY <2>1, <2>2
    <2> QED BY <1>10, <2>3
  <1> QED BY <1>7, <1>9, <1>11, <1>12, <1>13

\* The modes are those the lines of the selection ask for.
LEMMA ModesByLines ==
    ASSUME ModesApplied, NEW L,
           \A t, m : m \in Chosen(t) <=> m \in {"drop", "raw"} /\ <<m, t>> \in L,
           \A t : \A m, n \in Chosen(t) : m = n
    PROVE  \A f \in DOMAIN Fields :
              (IF f \in DOMAIN modes THEN modes[f] ELSE "materialize") = ModeBy(L, f)
  <1> SUFFICES ASSUME NEW f \in DOMAIN Fields
               PROVE  (IF f \in DOMAIN modes THEN modes[f] ELSE "materialize") = ModeBy(L, f)
    OBVIOUS
  <1> DEFINE m(g) == IF FieldFirst(g) THEN Chosen(g) ELSE FromType(g)
  <1>1. /\ f \in DOMAIN modes <=> m(f) # {}
        /\ f \in DOMAIN modes => modes[f] \in m(f)
    <2>1. modes = [g \in {g \in DOMAIN Fields : m(g) # {}} |-> CHOOSE x \in m(g) : TRUE]
      BY DEF ModesApplied
    <2> HIDE DEF m
    <2>2. f \in DOMAIN modes <=> m(f) # {}
      BY <2>1
    <2>3. f \in DOMAIN modes => modes[f] = CHOOSE x \in m(f) : TRUE
      BY <2>1
    <2> QED BY <2>2, <2>3
  <1>2. PICK d : d = Fields[f]
    OBVIOUS
  <1>3. d.kind \in {"field", "map", "oneof"} /\ d.required \in BOOLEAN /\ (d.required => d.kind = "field")
    BY <1>2, FieldModesAssumption
  <1>4. CASE Chosen(f) # {}
    <2>1. PICK x : x \in Chosen(f)
      BY <1>4
    <2>2. f \in DOMAIN modes /\ modes[f] = x
      BY <1>1, <1>4, <2>1 DEF FieldFirst
    <2>3. x \in {"drop", "raw"} /\ <<x, f>> \in L /\ \A y \in {"drop", "raw"} : <<y, f>> \in L => y = x
      BY <2>1
    <2>4. ModeBy(L, f) = x
      BY <2>3 DEF ModeBy
    <2> QED BY <2>2, <2>4
  <1>5. CASE Chosen(f) = {}
    <2>1. ~\E x \in {"drop", "raw"} : <<x, f>> \in L
      BY <1>5
    <2>2. ModeBy(L, f) = IF <<"drop", d.type>> \in L /\ d.kind # "oneof" /\ ~d.required THEN "drop"
                         ELSE IF <<"raw", d.type>> \in L /\ d.kind = "field" THEN "raw" ELSE "materialize"
      BY <1>2, <2>1 DEF ModeBy
    <2>3. \A x : x \in m(f) <=> /\ x \in Chosen(d.type) /\ d.kind # "oneof"
                                /\ ~(x = "drop" /\ d.kind = "field" /\ d.required)
                                /\ ~(x = "raw" /\ d.kind = "map")
      BY <1>2, <1>5 DEF FieldFirst, FromType
    <2>4. \A x : x \in Chosen(d.type) <=> x \in {"drop", "raw"} /\ <<x, d.type>> \in L
      OBVIOUS
    <2>5. \A x, y \in Chosen(d.type) : x = y
      OBVIOUS
    <2> HIDE DEF m
    <2>6. CASE <<"drop", d.type>> \in L
      <3>1. "drop" \in Chosen(d.type) /\ \A x \in Chosen(d.type) : x = "drop"
        BY <2>4, <2>5, <2>6
      <3>2. <<"raw", d.type>> \notin L
        BY <2>4, <3>1
      <3>3. CASE d.kind # "oneof" /\ ~d.required
        <4>1. "drop" \in m(f) /\ \A x \in m(f) : x = "drop"
          BY <2>3, <3>1, <3>3
        <4> QED BY <1>1, <2>2, <2>6, <3>3, <4>1
      <3>4. CASE ~(d.kind # "oneof" /\ ~d.required)
        <4>1. \A x : x \notin m(f)
          BY <1>3, <2>3, <3>1, <3>4
        <4> QED BY <1>1, <2>2, <3>2, <3>4, <4>1
      <3> QED BY <3>3, <3>4
    <2>7. CASE <<"drop", d.type>> \notin L /\ <<"raw", d.type>> \in L
      <3>1. "raw" \in Chosen(d.type) /\ \A x \in Chosen(d.type) : x = "raw"
        BY <2>4, <2>5, <2>7
      <3>2. CASE d.kind = "field"
        <4>1. "raw" \in m(f) /\ \A x \in m(f) : x = "raw"
          BY <2>3, <3>1, <3>2
        <4> QED BY <1>1, <2>2, <2>7, <3>2, <4>1
      <3>3. CASE d.kind # "field"
        <4>1. \A x : x \notin m(f)
          BY <1>3, <2>3, <3>1, <3>3
        <4> QED BY <1>1, <2>2, <2>7, <3>3, <4>1
      <3> QED BY <3>2, <3>3
    <2>8. CASE <<"drop", d.type>> \notin L /\ <<"raw", d.type>> \notin L
      <3>1. \A x : x \notin m(f)
        BY <2>3, <2>4, <2>8
      <3> QED BY <1>1, <2>2, <2>8, <3>1
    <2> QED BY <2>6, <2>7, <2>8
  <1> QED BY <1>4, <1>5

\* The identity is put together from the normalized lines.
LEMMA FinishKeeps == ModesInv /\ Finish => ModesInv'
  <1> SUFFICES ASSUME ModesInv, Finish PROVE ModesInv'
    OBVIOUS
  <1>1. /\ error = "" /\ LinesRead /\ EntriesApplied /\ UnknownsApplied /\ InOrder /\ ModesTypes
        /\ phase = "unknowns" /\ phase' = "done" /\ unknown = Len(spec.unknowns) /\ error' = error
        /\ given \in Profiles /\ line_no = Len(given.lines) /\ entry = Len(spec.entries) /\ ModesApplied
    BY UnderWay DEF Finish, InOrder, ModesTypes
  <1>2. UNCHANGED <<given, line_no, spec, entry, sel, modes, unknown, unknown_lines>>
    BY DEF Finish
  <1>3. ModesTypes'
    BY <1>1, <1>2 DEF ModesTypes, AllLines, AllEntries, AllNames
  <1>4. LinesRead' /\ EntriesApplied' /\ UnknownsApplied'
    BY <1>1, <1>2 DEF LinesRead, EntriesApplied, UnknownsApplied, Valid
  <1>5. InOrder'
    <2>1. ModesApplied' <=> ModesApplied
      BY <1>2 DEF ModesApplied, FieldFirst, Chosen, FromType
    <2> QED BY <1>1, <1>2, <2>1 DEF InOrder
  <1> DEFINE E == {x \in AllLines : x.directive \in {"drop", "raw"}}
             U == {x \in AllLines : x.directive = "unknown-fields"}
             all == << <<"unknown", "*">> >>
             tail == IF given.unknown_all THEN all ELSE unknown_lines
             u == IF given.unknown_all THEN MessageTypes ELSE unknown_messages
             lines == sel.normalized \o tail
             L == ToSet(lines)
  <1>6. /\ Sound
        /\ ToSet(sel.normalized) = {<<x.directive, x.arg.fqn>> : x \in E}
        /\ ToSet(unknown_lines) = {<<"unknown", x.arg.fqn>> : x \in U}
        /\ \A t, m : m \in Chosen(t) <=> <<m, t>> \in ToSet(sel.normalized)
        /\ \A t : \A m, n \in Chosen(t) : m = n
    BY <1>1, PassesThrough
  <1>7. /\ unknown_messages' = u
        /\ profile' = IF active(modes, u)
                      THEN <<spec.profile_name, [l \in L |-> Cardinality({i \in DOMAIN lines : lines[i] = l})]>>
                      ELSE NoProfile
    BY DEF Finish
  <1>8. /\ ToSet(tail) = IF given.unknown_all THEN {<<"unknown", "*">>} ELSE {<<"unknown", x.arg.fqn>> : x \in U}
        /\ IsInjective(tail)
    <2>1. ToSet(all) = {<<"unknown", "*">>} /\ IsInjective(all)
      BY DEF ToSet, IsInjective
    <2>2. IsInjective(unknown_lines)
      BY <1>1 DEF UnknownsApplied
    <2> QED BY <1>6, <2>1, <2>2
  <1>9. L = ToSet(sel.normalized) \cup ToSet(tail) /\ IsInjective(lines)
    <2> DEFINE S == {EntryLine(e) : e \in AllEntries} \cup {UnknownLine(a) : a \in AllNames} \cup {<<"unknown", "*">>}
    <2>1. sel.normalized \in Seq(S) /\ unknown_lines \in Seq(S) /\ all \in Seq(S)
      <3>1. sel.normalized \in Seq({EntryLine(e) : e \in AllEntries}) /\ unknown_lines \in Seq({UnknownLine(a) : a \in AllNames})
        BY <1>1 DEF ModesTypes
      <3>2. PICK A, B : A = {EntryLine(e) : e \in AllEntries} /\ B = {UnknownLine(a) : a \in AllNames}
        OBVIOUS
      <3>3. A \subseteq S /\ B \subseteq S /\ <<"unknown", "*">> \in S
        BY <3>2
      <3> HIDE DEF S
      <3>4. all \in Seq(S)
        BY <3>3
      <3>5. sel.normalized \in Seq(A) /\ unknown_lines \in Seq(B)
        BY <3>1, <3>2
      <3>6. sel.normalized \in Seq(S)
        BY <3>3, <3>5, SeqMonotonic
      <3>7. unknown_lines \in Seq(S)
        BY <3>3, <3>5, SeqMonotonic
      <3> QED BY <3>4, <3>6, <3>7
    <2>2. tail \in Seq(S)
      BY <2>1
    <2>3. IsInjective(sel.normalized)
      BY <1>1 DEF EntriesApplied
    <2>4. ASSUME NEW l \in ToSet(sel.normalized), l \in ToSet(tail) PROVE FALSE
      <3>1. PICK x \in E : l = <<x.directive, x.arg.fqn>>
        BY <1>6
      <3>2. PICK y : l = <<"unknown", y>>
        BY <1>8, <2>4
      <3>3. x.directive = "unknown"
        BY <3>1, <3>2
      <3> QED BY <3>3
    <2>5. ToSet(sel.normalized) \cap ToSet(tail) = {}
      BY <2>4
    <2> HIDE DEF S, tail
    <2> QED BY <1>8, <2>1, <2>2, <2>3, <2>5, ConcatenatedSet
  <1>10. L = Asked
    <2> DEFINE sets(d) == {<<d, x.arg.fqn>> : x \in {x \in AllLines : x.directive = d}}
    <2>0. /\ Asked = sets("drop") \cup sets("raw")
                     \cup (IF given.unknown_all THEN {<<"unknown", "*">>}
                           ELSE {<<"unknown", x[2]>> : x \in sets("unknown-fields")})
          /\ {<<"unknown", x[2]>> : x \in sets("unknown-fields")} = {<<"unknown", x.arg.fqn>> : x \in U}
      <3>1. Asked = sets("drop") \cup sets("raw")
                     \cup (IF given.unknown_all THEN {<<"unknown", "*">>}
                           ELSE {<<"unknown", x[2]>> : x \in sets("unknown-fields")})
        BY DEF Asked, AllLines
      <3>2. \A x \in U : <<"unknown-fields", x.arg.fqn>>[2] = x.arg.fqn
        OBVIOUS
      <3>3. {<<"unknown", x[2]>> : x \in sets("unknown-fields")} = {<<"unknown", x.arg.fqn>> : x \in U}
        BY <3>2
      <3> QED BY <3>1, <3>3
    <2>1. Asked = {<<"drop", x.arg.fqn>> : x \in {x \in AllLines : x.directive = "drop"}}
                  \cup {<<"raw", x.arg.fqn>> : x \in {x \in AllLines : x.directive = "raw"}}
                  \cup (IF given.unknown_all THEN {<<"unknown", "*">>}
                        ELSE {<<"unknown", x.arg.fqn>> : x \in U})
      BY <2>0
    <2>2. ToSet(sel.normalized) = {<<"drop", x.arg.fqn>> : x \in {x \in AllLines : x.directive = "drop"}}
                  \cup {<<"raw", x.arg.fqn>> : x \in {x \in AllLines : x.directive = "raw"}}
      BY <1>6
    <2> HIDE DEF lines, tail, U, E
    <2> QED BY <1>8, <1>9, <2>1, <2>2
  <1>11. \A l \in L : Cardinality({i \in DOMAIN lines : lines[i] = l}) = 1
    <2> HIDE DEF lines
    <2> SUFFICES ASSUME NEW l \in L PROVE Cardinality({i \in DOMAIN lines : lines[i] = l}) = 1
      OBVIOUS
    <2>1. PICK i \in DOMAIN lines : lines[i] = l
      BY DEF ToSet
    <2>2. {j \in DOMAIN lines : lines[j] = l} = {i}
      BY <1>9, <2>1 DEF IsInjective
    <2> QED BY <2>2, FS_Singleton
  <1>12. \A m \in MessageTypes : m # "*"
    BY FieldModesAssumption
  <1>13. u = {m \in MessageTypes : <<"unknown", m>> \in L \/ <<"unknown", "*">> \in L}
    <2>1. CASE given.unknown_all
      BY <1>8, <1>9, <2>1
    <2>2. CASE ~given.unknown_all
      <3>1. unknown_messages = {x.arg.fqn : x \in U} /\ \A x \in U : x.arg.fqn \in MessageTypes
        <4>1. spec.unknowns \in Seq(AllNames) /\ Firsts(spec.unknowns, Len(spec.unknowns)) = ToSet(spec.unknowns)
          BY <1>1, FirstsFacts DEF ModesTypes
        <4>2. given.lines \in Seq(AllLines) /\ Firsts(given.lines, Len(given.lines)) = AllLines
          BY <1>1, LinesFacts, FirstsFacts DEF AllLines
        <4>3. ToSet(spec.unknowns) = {x.arg : x \in U}
          BY <1>1, <4>2 DEF LinesRead
        <4>4. unknown_messages = {a.fqn : a \in ToSet(spec.unknowns)} /\ \A a \in ToSet(spec.unknowns) : a.fqn \in MessageTypes
          BY <1>1, <4>1 DEF UnknownsApplied
        <4> HIDE DEF U
        <4> QED BY <4>3, <4>4
      <3>2. ASSUME NEW t PROVE <<"unknown", t>> \in L <=> \E x \in U : t = x.arg.fqn
        <4>1. ASSUME <<"unknown", t>> \in L PROVE \E x \in U : t = x.arg.fqn
          <5>1. CASE <<"unknown", t>> \in ToSet(sel.normalized)
            <6>1. PICK x \in E : <<"unknown", t>> = <<x.directive, x.arg.fqn>>
              BY <1>6, <5>1
            <6>2. x.directive = "unknown"
              BY <6>1
            <6> QED BY <6>2
          <5>2. CASE <<"unknown", t>> \in ToSet(tail)
            <6>1. PICK x \in U : <<"unknown", t>> = <<"unknown", x.arg.fqn>>
              BY <1>8, <2>2, <5>2
            <6>2. t = x.arg.fqn
              BY <6>1
            <6> QED BY <6>2
          <5> HIDE DEF L, tail, U, E
          <5> QED BY <1>9, <4>1, <5>1, <5>2
        <4>2. ASSUME NEW x \in U, t = x.arg.fqn PROVE <<"unknown", t>> \in L
          <5>1. <<"unknown", t>> \in ToSet(tail)
            BY <1>8, <2>2, <4>2
          <5> HIDE DEF L, tail
          <5> QED BY <1>9, <5>1
        <4> HIDE DEF L, U
        <4> QED BY <4>1, <4>2
      <3>3. <<"unknown", "*">> \notin L
        <4> HIDE DEF L, U
        <4> QED BY <1>12, <3>1, <3>2
      <3>4. u = unknown_messages
        BY <2>2
      <3> HIDE DEF L, U, u
      <3> QED BY <3>1, <3>2, <3>3, <3>4
    <2> QED BY <2>1, <2>2
  <1>14. \A t, m : m \in Chosen(t) <=> m \in {"drop", "raw"} /\ <<m, t>> \in L
    <2> SUFFICES ASSUME NEW t, NEW m PROVE m \in Chosen(t) <=> m \in {"drop", "raw"} /\ <<m, t>> \in L
      OBVIOUS
    <2>1. ASSUME <<m, t>> \in ToSet(sel.normalized) PROVE m \in {"drop", "raw"}
      <3>1. PICK x \in E : <<m, t>> = <<x.directive, x.arg.fqn>>
        BY <1>6, <2>1
      <3>2. m = x.directive
        BY <3>1
      <3> QED BY <3>2
    <2>2. ASSUME <<m, t>> \in ToSet(tail) PROVE m \notin {"drop", "raw"}
      <3>1. PICK y : <<m, t>> = <<"unknown", y>>
        BY <1>8, <2>2
      <3>2. m = "unknown"
        BY <3>1
      <3> QED BY <3>2
    <2> HIDE DEF L, tail
    <2> QED BY <1>6, <1>9, <2>1, <2>2
  <1> HIDE DEF L, lines, tail, u, E, U
  <1>15. \A f \in DOMAIN Fields : (IF f \in DOMAIN modes THEN modes[f] ELSE "materialize") = ModeBy(L, f)
    BY <1>1, <1>6, <1>14, ModesByLines
  <1>16. IdentityDeterminesModes'
    <2>1. CASE active(modes, u)
      <3>1. PICK c : c = [l \in L |-> Cardinality({i \in DOMAIN lines : lines[i] = l})]
        OBVIOUS
      <3>2. profile' = <<spec.profile_name, c>>
        BY <1>7, <2>1, <3>1
      <3>3. profile' # NoProfile /\ profile'[2] = c /\ DOMAIN c = L
        BY <3>1, <3>2 DEF NoProfile
      <3>4. \A l \in L : c[l] = 1
        BY <1>11, <3>1
      <3>5. Asked' = Asked
        BY <1>2 DEF Asked
      <3>6. \A f \in DOMAIN Fields : (IF f \in DOMAIN modes' THEN modes'[f] ELSE "materialize") = ModeBy(L, f)
        BY <1>2, <1>15
      <3>7. unknown_messages' = {m \in MessageTypes : <<"unknown", m>> \in L \/ <<"unknown", "*">> \in L}
        BY <1>7, <1>13
      <3>8. (IF profile' = NoProfile THEN {} ELSE DOMAIN profile'[2]) = L
        BY <3>3
      <3> QED BY <1>10, <3>3, <3>4, <3>5, <3>6, <3>7, <3>8 DEF IdentityDeterminesModes
    <2>2. CASE ~active(modes, u)
      <3>1. profile' = NoProfile /\ modes = <<>> /\ u = {}
        BY <1>7, <2>2 DEF active
      <3>2. \A f : f \notin DOMAIN modes'
        BY <1>2, <3>1
      <3>3. \A f \in DOMAIN Fields : ModeBy({}, f) = "materialize"
        BY DEF ModeBy
      <3>4. unknown_messages' = {}
        BY <1>7, <3>1
      <3> QED BY <3>1, <3>2, <3>3, <3>4 DEF IdentityDeterminesModes
    <2> QED BY <2>1, <2>2
  <1> QED BY <1>1, <1>3, <1>4, <1>5, <1>16 DEF ModesInv

\* Before the first line.
LEMMA ModesInitEstablishes == ModesInit => ModesInv
  <1> SUFFICES ASSUME ModesInit PROVE ModesInv
    OBVIOUS
  <1>1. /\ given \in Profiles /\ line_no = 0 /\ entry = 0 /\ unknown = 0
        /\ spec.profile_name = "" /\ spec.entries = <<>> /\ spec.unknowns = <<>>
        /\ DOMAIN spec = {"profile_name", "entries", "unknowns"} /\ DOMAIN sel = {"chosen", "normalized"}
        /\ sel.chosen = <<>> /\ sel.normalized = <<>> /\ unknown_messages = {} /\ unknown_lines = <<>>
        /\ phase = "parse" /\ error = ""
    BY DEF ModesInit
  <1>2. Len(given.lines) \in Nat
    BY <1>1, LinesFacts, LenProperties
  <1>3. ToSet(<<>>) = {} /\ IsInjective(<<>>)
    BY DEF ToSet, IsInjective
  <1>4. ModesTypes
    <2>1. 0 \in 0 .. Len(given.lines)
      BY <1>2
    <2>2. \A S : <<>> \in Seq(S) /\ Len(<<>>) = 0 /\ 0 \in 0 .. Len(<<>>)
      BY EmptySeq
    <2> QED BY <1>1, <2>1, <2>2 DEF ModesTypes
  <1>5. /\ Firsts(given.lines, 0) = {} /\ Firsts(spec.entries, 0) = {} /\ Firsts(spec.unknowns, 0) = {}
    BY FirstsNone
  <1>6. LinesRead /\ EntriesApplied /\ UnknownsApplied
    <2>1. LinesRead
      BY <1>1, <1>3, <1>5 DEF LinesRead
    <2>2. DOMAIN <<>> = {}
      OBVIOUS
    <2>3. EntriesApplied
      BY <1>1, <1>3, <1>5, <2>2 DEF EntriesApplied
    <2>4. UnknownsApplied
      BY <1>1, <1>3, <1>5 DEF UnknownsApplied
    <2> QED BY <2>1, <2>3, <2>4
  <1>7. InOrder /\ IdentityDeterminesModes
    BY <1>1 DEF InOrder, IdentityDeterminesModes, Succeeded
  <1> QED BY <1>1, <1>4, <1>6, <1>7 DEF ModesInv

\* The passes of parse_modes_file and resolve_field_modes keep the account of what they have
\* read, checked and noted.
THEOREM ModesInvariance == ModesSpec => []ModesInv
  <1>1. ModesInv /\ [ModesNext]_modes_vars => ModesInv'
    <2> SUFFICES ASSUME ModesInv, [ModesNext]_modes_vars PROVE ModesInv'
      OBVIOUS
    <2>1. CASE UNCHANGED modes_vars
      <3>1. /\ UNCHANGED <<given, line_no, spec, entry, sel, modes, unknown, unknown_messages>>
            /\ UNCHANGED <<unknown_lines, profile, phase, error>>
        BY <2>1 DEF modes_vars
      <3>2. ModesTypes' <=> ModesTypes
        BY <3>1 DEF ModesTypes, AllLines, AllEntries, AllNames
      <3>3. (LinesRead' <=> LinesRead) /\ (EntriesApplied' <=> EntriesApplied) /\ (UnknownsApplied' <=> UnknownsApplied)
        BY <3>1 DEF LinesRead, EntriesApplied, UnknownsApplied, Valid
      <3>4. InOrder' <=> InOrder
        <4>1. ModesApplied' <=> ModesApplied
          BY <3>1 DEF ModesApplied, FieldFirst, Chosen, FromType
        <4> QED BY <3>1, <4>1 DEF InOrder
      <3>5. (Sound' <=> Sound) /\ (IdentityDeterminesModes' <=> IdentityDeterminesModes)
        <4>1. Sound' <=> Sound
          BY <3>1 DEF Sound
        <4>2. Asked' = Asked /\ (Succeeded' <=> Succeeded)
          BY <3>1 DEF Asked, Succeeded
        <4>3. IdentityDeterminesModes' <=> IdentityDeterminesModes
          BY <3>1, <4>2 DEF IdentityDeterminesModes
        <4> QED BY <4>1, <4>3
      <3> QED BY <3>1, <3>2, <3>3, <3>4, <3>5 DEF ModesInv
    <2> QED
      BY <2>1, ParseKeeps, StartKeeps, EntryKeeps, SelectionKeeps, UnknownKeeps, FinishKeeps DEF ModesNext
  <1> QED
    BY <1>1, ModesInitEstablishes, PTL DEF ModesSpec

\* A profile that is accepted is sound as a whole, and one that is refused is not.
THEOREM ProfilesAcceptedIfSound == ModesSpec => []AcceptsSoundProfiles
  <1>1. ModesInv => AcceptsSoundProfiles
    <2> SUFFICES ASSUME ModesInv, phase = "done" PROVE error = "" <=> Sound
      BY DEF AcceptsSoundProfiles
    <2>1. ASSUME error = "" PROVE Sound
      <3>1. LinesRead /\ EntriesApplied /\ UnknownsApplied /\ InOrder /\ ModesTypes
        BY <2>1 DEF ModesInv
      <3>2. /\ given \in Profiles /\ line_no = Len(given.lines) /\ entry = Len(spec.entries)
            /\ unknown = Len(spec.unknowns)
        BY <3>1 DEF InOrder, ModesTypes
      <3> QED BY <3>1, <3>2, PassesThrough
    <2> QED BY <2>1 DEF ModesInv
  <1> QED
    BY <1>1, ModesInvariance, PTL

\* The identity the generated code carries determines how every field is stored.
THEOREM IdentityIsTheSelection == ModesSpec => []IdentityDeterminesModes
  <1>1. ModesInv => IdentityDeterminesModes
    BY DEF ModesInv
  <1> QED
    BY <1>1, ModesInvariance, PTL

-----------------------------------------------------------------------------
(* Layout: slots                                                           *)

\* The alignments of stored values.
Aligns == {1, 2, 4, 8}
Sized(s) == s.size \in Nat \ {0} /\ s.align \in Aligns

\* A slot may be empty: the union of a oneof without members.
Slotted(s) == Sized(s) \/ (s.size = 0 /\ s.align = 1)
SlotOk(a) ==
    /\ a = Slot(a.id, a.size, a.align, a.tie, a.seq) /\ Slotted(a) /\ a.tie \in Nat /\ a.seq \in Nat

\* Slots that order_slots can order: no two have the same tiebreak and sequence number.
SlotSet(S) ==
    /\ IsFiniteSet(S) /\ \A a \in S : SlotOk(a)
    /\ \A a, b \in S : a.tie = b.tie /\ a.seq = b.seq => a = b

\* align_up gives the next multiple.
LEMMA NextMultiple ==
    ASSUME NEW n \in Nat, NEW a \in Aligns
    PROVE  align_up(n, a) \in Nat /\ align_up(n, a) >= n /\ align_up(n, a) % a = 0
  <1>1. CASE a = 1
    BY <1>1 DEF align_up
  <1>2. CASE a = 2
    BY <1>2 DEF align_up
  <1>3. CASE a = 4
    BY <1>3 DEF align_up
  <1>4. CASE a = 8
    BY <1>4 DEF align_up
  <1> QED BY <1>1, <1>2, <1>3, <1>4 DEF Aligns

\* The comparator of order_slots is a strict total order.
LEMMA SlotOrder ==
    ASSUME NEW S, SlotSet(S), NEW a \in S, NEW b \in S
    PROVE  /\ ~FirstSlot(a, a)
           /\ a # b => FirstSlot(a, b) \/ FirstSlot(b, a)
           /\ ~(FirstSlot(a, b) /\ FirstSlot(b, a))
           /\ \A c \in S : FirstSlot(a, b) /\ FirstSlot(b, c) => FirstSlot(a, c)
  <1>1. \A x \in S : x.size \in Nat /\ x.align \in Nat /\ x.tie \in Nat /\ x.seq \in Nat
    BY DEF SlotSet, SlotOk, Slotted, Sized, Aligns
  <1>2. a.tie = b.tie /\ a.seq = b.seq => a = b
    BY DEF SlotSet
  <1> QED BY <1>1, <1>2 DEF FirstSlot

\* The last of some slots.
LEMMA LastSlotFacts ==
    ASSUME NEW S, SlotSet(S), NEW some \in SUBSET S, some # {}
    PROVE  LastSlot(some) \in some /\ \A b \in some \ {LastSlot(some)} : FirstSlot(b, LastSlot(some))
  <1> DEFINE T == {s \in SUBSET S : s # {} => \E a \in s : \A b \in s \ {a} : FirstSlot(b, a)}
  <1>1. {} \in T
    OBVIOUS
  <1>2. ASSUME NEW s \in SUBSET S, s # {}, \A x \in s : s \ {x} \in T PROVE s \in T
    <2>1. PICK x \in s : TRUE
      BY <1>2
    <2>2. CASE s \ {x} = {}
      BY <2>2
    <2>3. CASE s \ {x} # {}
      <3>1. PICK a \in s \ {x} : \A b \in (s \ {x}) \ {a} : FirstSlot(b, a)
        BY <1>2, <2>3
      <3>2. CASE FirstSlot(x, a)
        BY <3>1, <3>2
      <3>3. CASE FirstSlot(a, x)
        <4>1. \A b \in s \ {x} : FirstSlot(b, x)
          BY <3>1, <3>3, SlotOrder
        <4> QED BY <4>1
      <3> QED BY <3>1, <3>2, <3>3, SlotOrder
    <2> QED BY <2>2, <2>3
  <1>3. some \in T
    <2>1. IsFiniteSet(S)
      BY DEF SlotSet
    <2> HIDE DEF T
    <2> QED BY <1>1, <1>2, <2>1, SubsetInduction
  <1> QED BY <1>3 DEF LastSlot

\* The cursor of order_slots after some of the slots.
Cursor(c, S) ==
    /\ c \in [SUBSET S -> Nat] /\ c[{}] = 0
    /\ \A some \in SUBSET S : some # {} =>
         c[some] = SlotOffset(c[some \ {LastSlot(some)}], LastSlot(some)) + LastSlot(some).size

\* The recursion of order_slots has such a cursor.
LEMMA CursorFacts ==
    ASSUME NEW S, SlotSet(S), NEW c,
           c = CHOOSE f : f = [some \in SUBSET S |->
                   IF some = {} THEN 0
                   ELSE SlotOffset(f[some \ {LastSlot(some)}], LastSlot(some)) + LastSlot(some).size]
    PROVE  Cursor(c, S)
  <1> DEFINE Body(f, some) == IF some = {} THEN 0
                   ELSE SlotOffset(f[some \ {LastSlot(some)}], LastSlot(some)) + LastSlot(some).size
             last == [some \in SUBSET S |-> LastSlot(some)]
             step == [a \in S |-> [n \in Nat |-> SlotOffset(n, a) + a.size]]
  <1>1. step \in [S -> [Nat -> Nat]]
    <2> SUFFICES ASSUME NEW a \in S, NEW n \in Nat PROVE SlotOffset(n, a) + a.size \in Nat
      OBVIOUS
    <2>1. a.size \in Nat /\ a.align \in Aligns
      BY DEF SlotSet, SlotOk, Slotted, Sized, Aligns
    <2> QED BY <2>1, NextMultiple DEF SlotOffset
  <1>2. \A some \in SUBSET S : some # {} => last[some] \in some
    BY LastSlotFacts
  <1>3. PICK g : SubsetFolds(g, S, Nat, 0, last, step)
    <2>1. IsFiniteSet(S) /\ 0 \in Nat
      BY DEF SlotSet
    <2> HIDE DEF last, step
    <2> QED BY <1>1, <1>2, <2>1, SubsetRecursion
  <1>4. ASSUME NEW some \in SUBSET S, some # {}
        PROVE  g[some] = SlotOffset(g[some \ {LastSlot(some)}], LastSlot(some)) + LastSlot(some).size
    <2>1. LastSlot(some) \in S /\ some \ {LastSlot(some)} \in SUBSET S
      BY <1>4, LastSlotFacts
    <2>2. g[some \ {LastSlot(some)}] \in Nat
      BY <1>3, <2>1 DEF SubsetFolds
    <2>3. last[some] = LastSlot(some)
      OBVIOUS
    <2>4. g[some] = step[LastSlot(some)][g[some \ {LastSlot(some)}]]
      BY <1>3, <1>4, <2>3 DEF SubsetFolds
    <2> QED BY <2>1, <2>2, <2>4
  <1>5. g \in [SUBSET S -> Nat] /\ g[{}] = 0
    BY <1>3 DEF SubsetFolds
  <1>6. g = [some \in SUBSET S |-> Body(g, some)]
    <2>1. ASSUME NEW some \in SUBSET S PROVE g[some] = Body(g, some)
      BY <1>4, <1>5
    <2> HIDE DEF Body
    <2> QED BY <1>5, <2>1
  <1>7. c = [some \in SUBSET S |-> Body(c, some)]
    <2>1. c = CHOOSE f : f = [some \in SUBSET S |-> Body(f, some)]
      OBVIOUS
    <2> HIDE DEF Body
    <2> QED BY <1>6, <2>1
  <1>8. ASSUME NEW some \in SUBSET S PROVE c[some] = Body(c, some)
    <2> HIDE DEF Body
    <2> QED BY <1>7
  <1> DEFINE T == {s \in SUBSET S : c[s] \in Nat}
  <1>9. {} \in T /\ c[{}] = 0
    <2>1. c[{}] = 0
      BY <1>8
    <2> QED BY <2>1
  <1>10. ASSUME NEW s \in SUBSET S, s # {}, \A x \in s : s \ {x} \in T PROVE s \in T
    <2>1. LastSlot(s) \in s
      BY <1>10, LastSlotFacts
    <2>2. c[s \ {LastSlot(s)}] \in Nat
      BY <1>10, <2>1
    <2>3. LastSlot(s).size \in Nat /\ LastSlot(s).align \in Aligns
      BY <2>1 DEF SlotSet, SlotOk, Slotted, Sized, Aligns
    <2>4. c[s] = SlotOffset(c[s \ {LastSlot(s)}], LastSlot(s)) + LastSlot(s).size
      BY <1>8, <1>10
    <2>5. SlotOffset(c[s \ {LastSlot(s)}], LastSlot(s)) \in Nat
      BY <2>2, <2>3, NextMultiple DEF SlotOffset
    <2> QED BY <2>3, <2>4, <2>5
  <1>11. \A s \in SUBSET S : c[s] \in Nat
    <2>1. IsFiniteSet(S)
      BY DEF SlotSet
    <2>2. \A s \in SUBSET S : s \in T
      <3> HIDE DEF T
      <3> QED BY <1>9, <1>10, <2>1, SubsetInduction
    <2> QED BY <2>2
  <1>12. c \in [SUBSET S -> Nat]
    <2> HIDE DEF Body
    <2> QED BY <1>7, <1>11
  <1>13. \A some \in SUBSET S : some # {} =>
           c[some] = SlotOffset(c[some \ {LastSlot(some)}], LastSlot(some)) + LastSlot(some).size
    BY <1>8
  <1> QED BY <1>9, <1>12, <1>13 DEF Cursor

\* The slots up to x, among some, end where x ends; and the cursor after all of these slots is not
\* before that.
LEMMA CursorHolds ==
    ASSUME NEW S, SlotSet(S), NEW c, Cursor(c, S), NEW some \in SUBSET S, NEW x \in some,
           NEW earlier, earlier = {y \in some : FirstSlot(y, x)}
    PROVE  /\ c[earlier \cup {x}] = SlotOffset(c[earlier], x) + x.size
           /\ c[some] >= c[earlier \cup {x}]
  <1> DEFINE E(s, z) == {y \in s : FirstSlot(y, z)}
             T == {s \in SUBSET S : \A z \in s : c[s] >= c[E(s, z) \cup {z}]}
  <1>1. ASSUME NEW s \in SUBSET S, NEW z \in s
        PROVE  c[E(s, z) \cup {z}] = SlotOffset(c[E(s, z)], z) + z.size
    <2>1. PICK u : u = E(s, z) \cup {z}
      OBVIOUS
    <2>2. u \in SUBSET S /\ u # {}
      BY <2>1
    <2>3. LastSlot(u) = z
      <3>1. LastSlot(u) \in u /\ \A b \in u \ {LastSlot(u)} : FirstSlot(b, LastSlot(u))
        BY <2>2, LastSlotFacts
      <3>2. CASE LastSlot(u) # z
        <4>1. FirstSlot(z, LastSlot(u)) /\ FirstSlot(LastSlot(u), z)
          BY <2>1, <3>1, <3>2
        <4> QED BY <2>2, <3>1, <4>1, SlotOrder
      <3> QED BY <3>2
    <2>4. u \ {z} = E(s, z)
      <3>1. z \notin E(s, z)
        BY SlotOrder
      <3> QED BY <2>1, <3>1
    <2> QED BY <2>1, <2>2, <2>3, <2>4 DEF Cursor
  <1>2. {} \in T
    OBVIOUS
  <1>3. ASSUME NEW s \in SUBSET S, s # {}, \A y \in s : s \ {y} \in T PROVE s \in T
    <2> SUFFICES ASSUME NEW z \in s PROVE c[s] >= c[E(s, z) \cup {z}]
      OBVIOUS
    <2>1. PICK l : l = LastSlot(s)
      OBVIOUS
    <2>2. l \in s /\ \A b \in s \ {l} : FirstSlot(b, l)
      BY <1>3, <2>1, LastSlotFacts
    <2>3. CASE z = l
      <3>1. E(s, z) \cup {z} = s
        BY <2>2, <2>3
      <3>2. c[s] \in Nat
        BY DEF Cursor
      <3> QED BY <3>1, <3>2
    <2>4. CASE z # l
      <3>1. PICK r : r = s \ {l}
        OBVIOUS
      <3>2. r \in SUBSET S /\ r \in T /\ z \in r
        BY <1>3, <2>2, <2>4, <3>1
      <3>3. E(s, z) = E(r, z)
        <4>1. ~FirstSlot(l, z)
          BY <2>2, <2>4, SlotOrder
        <4> QED BY <3>1, <4>1
      <3>4. c[r] >= c[E(s, z) \cup {z}]
        BY <3>2, <3>3
      <3>5. c[s] = SlotOffset(c[r], l) + l.size
        BY <1>3, <2>1, <3>1 DEF Cursor
      <3>6. c[r] \in Nat /\ c[E(s, z) \cup {z}] \in Nat
        <4>1. E(s, z) \cup {z} \in SUBSET S
          OBVIOUS
        <4> QED BY <3>2, <4>1 DEF Cursor
      <3>7. l.size \in Nat /\ l.align \in Aligns
        BY <2>2 DEF SlotSet, SlotOk, Slotted, Sized, Aligns
      <3>8. SlotOffset(c[r], l) \in Nat /\ SlotOffset(c[r], l) >= c[r]
        BY <3>6, <3>7, NextMultiple DEF SlotOffset
      <3> QED
        <4> HIDE DEF E
        <4> QED BY <3>4, <3>5, <3>6, <3>7, <3>8
    <2> QED BY <2>3, <2>4
  <1>4. some \in T
    <2>1. IsFiniteSet(S)
      BY DEF SlotSet
    <2> HIDE DEF T
    <2> QED BY <1>2, <1>3, <2>1, SubsetInduction
  <1> QED BY <1>1, <1>4

\* What order_slots returns.
LEMMA OrderedFacts ==
    ASSUME NEW S, SlotSet(S), NEW l, l = order_slots(S)
    PROVE  /\ Apart(l) /\ Sized(l)
           /\ \A a \in S : \E s \in l.placed : s.id = a.id /\ s.size = a.size /\ s.align = a.align
           /\ \A s \in l.placed : \E a \in S : s.id = a.id /\ s.size = a.size /\ s.align = a.align
  <1> DEFINE cursor[some \in SUBSET S] ==
                 IF some = {} THEN 0
                 ELSE LET a == LastSlot(some) IN SlotOffset(cursor[some \ {a}], a) + a.size
  <1>1. PICK c : c = cursor
    OBVIOUS
  <1> DEFINE offset(a) == SlotOffset(c[{b \in S : FirstSlot(b, a)}], a)
             align == Max({1} \cup {a.align : a \in S})
             end == c[S]
  <1>2. l = [placed |-> {[a EXCEPT !.off = offset(a)] : a \in S}, align |-> align,
             size |-> IF end = 0 THEN 1 ELSE align_up(end, align)]
    BY <1>1 DEF order_slots
  <1>3. Cursor(c, S)
    <2>1. c = CHOOSE f : f = [some \in SUBSET S |->
                   IF some = {} THEN 0
                   ELSE SlotOffset(f[some \ {LastSlot(some)}], LastSlot(some)) + LastSlot(some).size]
      BY <1>1
    <2> QED BY <2>1, CursorFacts
  <1> HIDE DEF cursor
  <1>4. \A a \in S : a.size \in Nat /\ a.align \in Aligns /\ (a.size = 0 => a.align = 1)
    BY DEF SlotSet, SlotOk, Slotted, Sized, Aligns
  <1>5. ASSUME NEW a \in S
        PROVE  /\ offset(a) \in Nat /\ offset(a) >= c[{b \in S : FirstSlot(b, a)}] /\ offset(a) % a.align = 0
               /\ c[{b \in S : FirstSlot(b, a)}] \in Nat /\ end \in Nat /\ offset(a) + a.size <= end
    <2>1. PICK E : E = {b \in S : FirstSlot(b, a)}
      OBVIOUS
    <2>2. c[E] \in Nat /\ end \in Nat
      BY <1>3, <2>1 DEF Cursor
    <2>3. offset(a) \in Nat /\ offset(a) >= c[E] /\ offset(a) % a.align = 0
      BY <1>4, <2>1, <2>2, NextMultiple DEF SlotOffset
    <2>4. S \in SUBSET S
      OBVIOUS
    <2>5. c[E \cup {a}] = SlotOffset(c[E], a) + a.size /\ c[S] >= c[E \cup {a}]
      BY <1>3, <2>1, <2>4, CursorHolds
    <2>6. offset(a) = SlotOffset(c[E], a)
      BY <2>1
    <2> HIDE DEF offset
    <2> QED BY <1>4, <2>1, <2>2, <2>3, <2>5, <2>6
  <1>6. ASSUME NEW a \in S, NEW b \in S, FirstSlot(a, b) PROVE offset(a) + a.size <= offset(b)
    <2>1. PICK E : E = {y \in S : FirstSlot(y, b)}
      OBVIOUS
    <2>2. E \in SUBSET S /\ a \in E
      BY <1>6, <2>1
    <2>3. {y \in E : FirstSlot(y, a)} = {y \in S : FirstSlot(y, a)}
      <3>1. \A y \in S : FirstSlot(y, a) => FirstSlot(y, b)
        BY <1>6, SlotOrder
      <3> QED BY <2>1, <3>1
    <2>4. PICK D : D = {y \in S : FirstSlot(y, a)}
      OBVIOUS
    <2>5. c[D \cup {a}] = SlotOffset(c[D], a) + a.size /\ c[E] >= c[D \cup {a}]
      BY <1>3, <2>2, <2>3, <2>4, CursorHolds
    <2>6. c[E] \in Nat /\ c[D \cup {a}] \in Nat
      <3>1. D \cup {a} \in SUBSET S
        BY <2>4
      <3> QED BY <1>3, <2>2, <3>1 DEF Cursor
    <2>7. offset(b) \in Nat /\ offset(b) >= c[E] /\ offset(a) = SlotOffset(c[D], a)
      BY <1>5, <2>1, <2>4
    <2>8. offset(a) + a.size <= c[E]
      BY <2>5, <2>6, <2>7
    <2>9. offset(a) \in Nat /\ a.size \in Nat
      BY <1>4, <1>5
    <2> HIDE DEF offset
    <2> QED BY <2>6, <2>7, <2>8, <2>9
  <1>7. align \in Aligns /\ \A a \in S : a.align <= align
    <2>1. PICK A : A = {1} \cup {a.align : a \in S}
      OBVIOUS
    <2>2. A \subseteq Aligns /\ A # {} /\ IsFiniteSet(A)
      <3>1. IsFiniteSet(Aligns)
        <4>0. PICK n \in Int : n = 8
          OBVIOUS
        <4>1. IsFiniteSet(0 .. n)
          BY FS_Interval
        <4>2. Aligns \in SUBSET (0 .. n)
          BY <4>0 DEF Aligns
        <4> QED BY <4>1, <4>2, FS_Subset
      <3>2. A \subseteq Aligns /\ A # {}
        BY <1>4, <2>1 DEF Aligns
      <3> QED BY <3>1, <3>2, FS_Subset
    <2>3. A \subseteq Nat
      BY <2>2 DEF Aligns
    <2>4. Max(A) \in A /\ \A x \in A : x <= Max(A)
      BY <2>2, <2>3, LargestFacts
    <2> QED BY <2>1, <2>2, <2>4
  <1>8. \A a \in S : align % a.align = 0
    <2> HIDE DEF align
    <2> QED BY <1>4, <1>7 DEF Aligns
  <1>9. end \in Nat /\ (end = 0 => align = 1)
    <2>1. end \in Nat
      BY <1>3 DEF Cursor
    <2>2. ASSUME end = 0, NEW a \in S PROVE a.align = 1
      <3>1. offset(a) \in Nat /\ end \in Nat /\ offset(a) + a.size <= end
        BY <1>5
      <3>2. a.size = 0
        <4> HIDE DEF offset, end
        <4> QED BY <1>4, <2>2, <3>1
      <3> QED BY <1>4, <3>2
    <2>3. ASSUME end = 0 PROVE align = 1
      <3>1. {1} \cup {a.align : a \in S} = {1}
        BY <2>2, <2>3
      <3>2. Max({1}) = 1
        BY DEF Max
      <3> QED BY <3>1, <3>2
    <2> QED BY <2>1, <2>3
  <1>10. l.size \in Nat \ {0} /\ l.align = align /\ l.size % l.align = 0 /\ end <= l.size
    <2> HIDE DEF end, align, offset
    <2>1. l.align = align /\ l.size = IF end = 0 THEN 1 ELSE align_up(end, align)
      BY <1>2
    <2>2. CASE end = 0
      BY <1>9, <2>1, <2>2
    <2>3. CASE end # 0
      BY <1>7, <1>9, <2>1, <2>3, NextMultiple
    <2> QED BY <2>2, <2>3
  <1>11. ASSUME NEW a \in S
         PROVE  LET s == [a EXCEPT !.off = offset(a)]
                IN  s.off = offset(a) /\ s.id = a.id /\ s.size = a.size /\ s.align = a.align
    <2>1. a = Slot(a.id, a.size, a.align, a.tie, a.seq)
      BY DEF SlotSet, SlotOk
    <2>2. DOMAIN a = {"id", "size", "align", "tie", "seq", "off"}
      BY <2>1 DEF Slot
    <2> HIDE DEF offset
    <2> QED BY <2>2
  <1>12. l.placed = {[a EXCEPT !.off = offset(a)] : a \in S}
    <2> HIDE DEF offset, end, align
    <2> QED BY <1>2
  <1>13. Apart(l)
    <2> HIDE DEF offset, end, align
    <2> SUFFICES ASSUME NEW s \in l.placed
                 PROVE  /\ s.off % s.align = 0 /\ l.align % s.align = 0
                        /\ s.off + s.size <= l.size
                        /\ \A t \in l.placed \ {s} : Bytes(s) \cap Bytes(t) = {}
      BY <1>10 DEF Apart
    <2>1. PICK a \in S : s = [a EXCEPT !.off = offset(a)]
      BY <1>12
    <2>2. s.off = offset(a) /\ s.id = a.id /\ s.size = a.size /\ s.align = a.align
      BY <1>11, <2>1
    <2>3. offset(a) \in Nat /\ offset(a) % a.align = 0 /\ end \in Nat /\ offset(a) + a.size <= end
      BY <1>5
    <2>4. s.off + s.size <= l.size
      BY <1>4, <1>10, <2>2, <2>3
    <2>5. ASSUME NEW t \in l.placed, t # s PROVE Bytes(s) \cap Bytes(t) = {}
      <3>1. PICK b \in S : t = [b EXCEPT !.off = offset(b)]
        BY <1>12
      <3>2. t.off = offset(b) /\ t.size = b.size
        BY <1>11, <3>1
      <3>3. a # b
        BY <2>1, <2>5, <3>1
      <3>4. offset(a) + a.size <= offset(b) \/ offset(b) + b.size <= offset(a)
        BY <1>6, <3>3, SlotOrder
      <3>5. offset(b) \in Nat /\ b.size \in Nat /\ a.size \in Nat
        BY <1>4, <1>5
      <3> QED BY <2>2, <2>3, <3>2, <3>4, <3>5 DEF Bytes
    <2> QED BY <1>8, <1>10, <2>2, <2>3, <2>4, <2>5
  <1>14. Sized(l)
    <2> HIDE DEF align, end, offset
    <2> QED BY <1>7, <1>10 DEF Sized
  <1>15. \A a \in S : \E s \in l.placed : s.id = a.id /\ s.size = a.size /\ s.align = a.align
    <2> HIDE DEF offset, align, end
    <2> QED BY <1>11, <1>12
  <1>16. \A s \in l.placed : \E a \in S : s.id = a.id /\ s.size = a.size /\ s.align = a.align
    <2> HIDE DEF offset, align, end
    <2> QED BY <1>11, <1>12
  <1> QED BY <1>13, <1>14, <1>15, <1>16

-----------------------------------------------------------------------------
(* Layout: flags                                                           *)

\* The bits of item i follow those of the items before it.
LEMMA BitFacts ==
    ASSUME NEW X, NEW plans \in Seq(X)
    PROVE  /\ FirstBit(plans, 1) = 0
           /\ \A i \in 1 .. Len(plans) :
                /\ FirstBit(plans, i) \in Nat
                /\ FirstBit(plans, i + 1) = FirstBit(plans, i) + BitsOf(plans[i])
           /\ FirstBit(plans, Len(plans) + 1) \in Nat
           /\ \A j \in 1 .. (Len(plans) + 1) : \A i \in 1 .. Len(plans) :
                i < j => FirstBit(plans, i) + BitsOf(plans[i]) <= FirstBit(plans, j)
  <1>1. PICK n : n = Len(plans)
    OBVIOUS
  <1>2. n \in Nat /\ DOMAIN plans = 1 .. n
    BY <1>1, LenProperties
  <1>3. PICK f : f = [j \in DOMAIN plans |-> BitsOf(plans[j])]
    OBVIOUS
  <1>4. \A i \in 1 .. n : f[i] = BitsOf(plans[i]) /\ f[i] \in Nat
    BY <1>2, <1>3 DEF BitsOf
  <1>5. ASSUME NEW i \in 0 .. n PROVE /\ IsFiniteSet(1 .. i) /\ \A x \in 1 .. i : f[x] \in Int
                                      /\ FirstBit(plans, i + 1) = SumFunctionOnSet(f, 1 .. i)
                                      /\ SumFunctionOnSet(f, 1 .. i) \in Int
    <2>1. i \in Int /\ i + 1 - 1 = i
      BY <1>2
    <2>2. IsFiniteSet(1 .. i)
      BY <2>1, FS_Interval
    <2>3. \A x \in 1 .. i : f[x] \in Int
      BY <1>2, <1>4
    <2>4. SumFunctionOnSet(f, 1 .. i) \in Int
      BY <2>2, <2>3, SumFacts
    <2>5. FirstBit(plans, i + 1) = SumFunctionOnSet(f, 1 .. i)
      BY <1>3, <2>1 DEF FirstBit
    <2> QED BY <2>2, <2>3, <2>4, <2>5
  <1>6. FirstBit(plans, 1) = 0
    <2>1. 0 \in 0 .. n /\ 1 .. 0 = {} /\ 0 + 1 = 1
      BY <1>2
    <2>2. PICK e : e = 1 .. 0
      OBVIOUS
    <2>3. IsFiniteSet(e) /\ \A x \in e : f[x] \in Int
      BY <1>5, <2>1, <2>2
    <2>4. SumFunctionOnSet(f, e) = 0
      BY <2>1, <2>2, <2>3, SumFacts
    <2> QED BY <1>5, <2>1, <2>2, <2>4
  <1>7. ASSUME NEW i \in 1 .. n
        PROVE  FirstBit(plans, i + 1) = FirstBit(plans, i) + f[i] /\ FirstBit(plans, i) \in Int
    <2>1. i \in 0 .. n /\ i - 1 \in 0 .. n /\ i - 1 + 1 = i /\ i \in 1 .. i /\ (1 .. i) \ {i} = 1 .. (i - 1)
      BY <1>2
    <2>2. PICK A, B : A = 1 .. i /\ B = 1 .. (i - 1) /\ A \ {i} = B
      BY <2>1
    <2>3. SumFunctionOnSet(f, A) = f[i] + SumFunctionOnSet(f, A \ {i})
      BY <1>5, <2>1, <2>2, SumFacts
    <2>4. FirstBit(plans, i + 1) = SumFunctionOnSet(f, A)
      BY <1>5, <2>1, <2>2
    <2>5. FirstBit(plans, i) = SumFunctionOnSet(f, B) /\ FirstBit(plans, i) \in Int
      BY <1>5, <2>1, <2>2
    <2>6. FirstBit(plans, i + 1) = f[i] + FirstBit(plans, i)
      BY <2>2, <2>3, <2>4, <2>5
    <2> QED BY <1>4, <2>5, <2>6
  <1> DEFINE T == {k \in 0 .. n : /\ FirstBit(plans, k + 1) \in Nat
                                  /\ \A i \in 1 .. n : i < k + 1 => FirstBit(plans, i) + f[i] <= FirstBit(plans, k + 1)}
  <1>8. 0 \in T
    BY <1>2, <1>6
  <1>9. ASSUME NEW k \in 1 .. n, k - 1 \in T PROVE k \in T
    <2>1. /\ FirstBit(plans, k) \in Nat
          /\ \A i \in 1 .. n : i < k => FirstBit(plans, i) + f[i] <= FirstBit(plans, k)
      <3>1. k - 1 + 1 = k
        OBVIOUS
      <3> QED BY <1>9, <3>1
    <2>2. FirstBit(plans, k + 1) = FirstBit(plans, k) + f[k] /\ f[k] \in Nat
      BY <1>4, <1>7
    <2>3. ASSUME NEW i \in 1 .. n, i < k + 1 PROVE FirstBit(plans, i) + f[i] <= FirstBit(plans, k + 1)
      <3>1. FirstBit(plans, i) \in Int /\ f[i] \in Nat
        BY <1>4, <1>7
      <3>2. CASE i = k
        BY <2>1, <2>2, <3>2
      <3>3. CASE i < k
        BY <2>1, <2>2, <3>1, <3>3
      <3> QED BY <2>3, <3>2, <3>3
    <2>4. k \in 0 .. n
      OBVIOUS
    <2> QED BY <2>1, <2>2, <2>3, <2>4
  <1>10. \A k \in 0 .. n : k \in T
    <2> HIDE DEF T
    <2> QED BY <1>2, <1>8, <1>9, UpTo
  <1>11. ASSUME NEW j \in 1 .. (n + 1)
         PROVE  /\ FirstBit(plans, j) \in Nat
                /\ \A i \in 1 .. n : i < j => FirstBit(plans, i) + f[i] <= FirstBit(plans, j)
    <2>1. j - 1 \in 0 .. n /\ j - 1 + 1 = j
      BY <1>2
    <2>2. j - 1 \in T
      BY <1>10, <2>1
    <2> QED BY <2>1, <2>2
  <1>12. n + 1 \in 1 .. (n + 1) /\ \A i \in 1 .. n : i \in 1 .. (n + 1)
    BY <1>2
  <1> QED BY <1>1, <1>4, <1>6, <1>7, <1>11, <1>12

\* The mask holds its bits.
LEMMA MaskFacts ==
    ASSUME NEW bits \in Nat, NEW mask, mask = MaskStore(bits)
    PROVE  /\ mask.size \in Nat /\ 8 * mask.size >= bits
           /\ mask.size # 0 => Sized(mask)
  <1>1. kBitsPerWord \in {8, 16, 32, 64}
    BY LayoutAssumption
  <1>2. CASE bits = 0
    BY <1>2 DEF MaskStore, Store
  <1>3. CASE bits # 0 /\ bits <= kBitsPerWord
    <2> DEFINE W == {b \in {1, 2, 4, 8} : b * 8 >= bits}
    <2>1. W \subseteq Nat /\ W # {}
      <3>1. 8 \in W
        BY <1>1, <1>3
      <3> QED BY <3>1
    <2>2. PICK b : b = Min(W)
      OBVIOUS
    <2>3. b \in W
      <3> HIDE DEF W
      <3> QED BY <2>1, <2>2, MinIsLeast
    <2>4. mask = Store("mask", b, b)
      BY <1>3, <2>2 DEF MaskStore
    <2>5. mask.size = b /\ mask.align = b
      BY <2>4 DEF Store
    <2> QED BY <2>3, <2>5 DEF Sized, Aligns
  <1>4. CASE bits # 0 /\ ~(bits <= kBitsPerWord)
    <2>1. /\ mask.size = (kBitsPerWord \div 8) * ((bits + kBitsPerWord - 1) \div kBitsPerWord)
          /\ mask.align = kBitsPerWord \div 8
      BY <1>4 DEF MaskStore, Store
    <2>2. CASE kBitsPerWord = 8
      BY <1>4, <2>1, <2>2 DEF Sized, Aligns
    <2>3. CASE kBitsPerWord = 16
      BY <1>4, <2>1, <2>3 DEF Sized, Aligns
    <2>4. CASE kBitsPerWord = 32
      BY <1>4, <2>1, <2>4 DEF Sized, Aligns
    <2>5. CASE kBitsPerWord = 64
      BY <1>4, <2>1, <2>5 DEF Sized, Aligns
    <2> QED BY <1>1, <2>2, <2>3, <2>4, <2>5
  <1> QED BY <1>2, <1>3, <1>4

-----------------------------------------------------------------------------
(* Layout: the slots of a message                                          *)

\* What every plan is: with a place of its own, or a bit in the mask; a map has an entry that is
\* laid out like a message.
PlanShape(p) ==
    /\ DOMAIN p = {"num", "kind", "size", "align", "oneof", "target", "presence", "is_bool", "entry",
                   "value", "presence_bit", "value_bit"}
    /\ p.num \in 0 .. (kMaskTiebreak - 1) /\ p.oneof \in Nat
    /\ (p.size = 0 /\ p.oneof = 0) \/ Sized(p)
    /\ Apart(p.entry)

\* The tiebreak of the mask.
LEMMA MaskTie == kMaskTiebreak \in Nat /\ kMaskTiebreak > 0
  BY SMT DEF kMaskTiebreak

\* The image of a finite set.
LEMMA ImageFinite ==
    ASSUME NEW S, IsFiniteSet(S), NEW h
    PROVE  IsFiniteSet({h[x] : x \in S})
  <1> DEFINE T == {h[x] : x \in S}
             k == [x \in S |-> h[x]]
  <1>1. k \in Surjection(S, T)
    BY DEF Surjection
  <1> HIDE DEF T, k
  <1>2. IsFiniteSet(T)
    BY <1>1, FS_Surjection
  <1> QED BY <1>2 DEF T

\* The number that stands for a oneof in the order of the slots.
Tie(plans, o) == IF MembersOf(plans, o) = {} THEN 0 ELSE plans[Min(MembersOf(plans, o))].num

\* The union of a oneof, and the number that stands for it.
LEMMA UnionFacts ==
    ASSUME NEW plans, IsSeq(plans), \A i \in DOMAIN plans : PlanShape(plans[i]),
           NEW o \in Nat \ {0}, NEW u, u = UnionStore(plans, o)
    PROVE  Slotted(u) /\ Tie(plans, o) \in 0 .. (kMaskTiebreak - 1)
  <1>1. PICK M : M = MembersOf(plans, o)
    OBVIOUS
  <1>2. Len(plans) \in Nat /\ DOMAIN plans = 1 .. Len(plans)
    BY SeqOfElements DEF IsSeq
  <1>3. M \in SUBSET DOMAIN plans /\ \A i \in M : plans[i].oneof = o
    BY <1>1 DEF MembersOf
  <1>4. M \subseteq Nat /\ IsFiniteSet(M)
    <2>1. IsFiniteSet(1 .. Len(plans))
      BY <1>2, FS_Interval
    <2>2. M \subseteq Nat
      BY <1>2, <1>3
    <2> QED BY <1>2, <1>3, <2>1, <2>2, FS_Subset
  <1>5. \A i \in M : Sized(plans[i]) /\ plans[i].num \in 0 .. (kMaskTiebreak - 1)
    BY <1>3 DEF PlanShape
  <1>6. Tie(plans, o) \in 0 .. (kMaskTiebreak - 1)
    <2>1. CASE M = {}
      <3>1. Tie(plans, o) = 0
        BY <1>1, <2>1 DEF Tie
      <3>2. 0 \in 0 .. (kMaskTiebreak - 1)
        BY MaskTie
      <3> QED BY <3>1, <3>2
    <2>2. CASE M # {}
      <3>1. Min(M) \in M
        BY <1>4, <2>2, MinIsLeast
      <3> QED BY <1>1, <1>5, <2>2, <3>1 DEF Tie
    <2> QED BY <2>1, <2>2
  <1>7. PICK sizes, aligns : /\ sizes = {plans[i].size : i \in M} /\ aligns = {plans[i].align : i \in M}
    OBVIOUS
  <1>8. IsFiniteSet({0} \cup sizes) /\ IsFiniteSet({1} \cup aligns)
    <2>1. PICK g : g = [i \in M |-> plans[i].size]
      OBVIOUS
    <2>2. PICK h : h = [i \in M |-> plans[i].align]
      OBVIOUS
    <2>3. sizes = {g[i] : i \in M} /\ aligns = {h[i] : i \in M}
      BY <1>7, <2>1, <2>2
    <2>4. IsFiniteSet(sizes) /\ IsFiniteSet(aligns)
      BY <1>4, <2>3, ImageFinite
    <2>5. IsFiniteSet({0}) /\ IsFiniteSet({1})
      BY FS_Singleton
    <2> QED BY <2>4, <2>5, FS_Union
  <1>9. sizes \subseteq Nat \ {0} /\ aligns \subseteq Aligns
    BY <1>5, <1>7 DEF Sized
  <1>10. PICK size, align : size = Max({0} \cup sizes) /\ align = Max({1} \cup aligns)
    OBVIOUS
  <1>11. /\ size \in {0} \cup sizes /\ \A x \in {0} \cup sizes : x <= size
         /\ align \in {1} \cup aligns
    <2>1. {0} \cup sizes \subseteq Nat /\ {1} \cup aligns \subseteq Nat
      BY <1>9 DEF Aligns
    <2> QED BY <1>8, <1>10, <2>1, LargestFacts
  <1>12. u.size = size /\ u.align = align
    BY <1>1, <1>7, <1>10 DEF UnionStore, Store
  <1>13. size = 0 => align = 1
    <2>1. ASSUME size = 0 PROVE sizes = {}
      BY <1>9, <1>11, <2>1
    <2>2. sizes = {} => aligns = {}
      BY <1>7
    <2> QED BY <1>11, <2>1, <2>2
  <1>14. Slotted(u)
    BY <1>9, <1>11, <1>12, <1>13 DEF Slotted, Sized, Aligns
  <1> QED BY <1>6, <1>14

\* Discriminants and unions of different oneofs have different sequence numbers.
LEMMA SeqNumbers ==
    ASSUME NEW n \in Nat, NEW o \in Nat, NEW q \in Nat
    PROVE  (n + 2 * o = n + 2 * q => o = q) /\ n + 2 * o # n + 2 * q + 1
  OBVIOUS

\* order_members gives order_slots slots that it can order.
LEMMA SlotsFormSet ==
    ASSUME NEW plans, IsSeq(plans), \A i \in DOMAIN plans : PlanShape(plans[i]),
           NEW oneofs \in Nat, NEW mask, mask.size \in Nat, mask.size # 0 => Sized(mask)
    PROVE  SlotSet(SlotsOf(plans, oneofs, mask))
  <1>1. PICK n : n = Len(plans)
    OBVIOUS
  <1>2. n \in Nat /\ DOMAIN plans = 1 .. n /\ IsFiniteSet(1 .. n)
    <2>1. n \in Nat /\ DOMAIN plans = 1 .. n
      BY <1>1, SeqOfElements DEF IsSeq
    <2> QED BY <2>1, FS_Interval
  <1> DEFINE bytes == {i \in DOMAIN plans : plans[i].oneof = 0 /\ plans[i].size > 0}
             tie(o) == Tie(plans, o)
             O == 1 .. oneofs
             gm == [i \in 1 .. n |-> Slot("member", plans[i].size, plans[i].align, plans[i].num, i)]
             gd == [o \in O |-> Slot("disc", 1, 1, tie(o), n + 2 * o)]
             gu == [o \in O |-> Slot("union", UnionStore(plans, o).size, UnionStore(plans, o).align,
                                     tie(o), n + 2 * o + 1)]
             A == {gm[i] : i \in bytes}
             B == {gd[o] : o \in O}
             C == {gu[o] : o \in O}
             D == IF mask.size = 0 THEN {} ELSE {Slot("mask", mask.size, mask.align, kMaskTiebreak, 0)}
  <1>3. SlotsOf(plans, oneofs, mask) = A \cup B \cup C \cup D
    <2>1. A = {Slot("member", plans[i].size, plans[i].align, plans[i].num, i) : i \in bytes}
      BY <1>2
    <2>2. B = {Slot("disc", 1, 1, tie(o), n + 2 * o) : o \in O}
      OBVIOUS
    <2>3. C = {Slot("union", UnionStore(plans, o).size, UnionStore(plans, o).align, tie(o), n + 2 * o + 1) : o \in O}
      OBVIOUS
    <2> HIDE DEF A, B, C, D, gm, gd, gu
    <2> QED BY <1>1, <2>1, <2>2, <2>3 DEF SlotsOf, Tie, D
  <1>4. \A i \in bytes : /\ Sized(plans[i]) /\ plans[i].num \in 0 .. (kMaskTiebreak - 1) /\ i \in 1 .. n
    BY <1>2 DEF PlanShape
  <1>5. \A o \in O : /\ o \in Nat \ {0} /\ Slotted(UnionStore(plans, o)) /\ tie(o) \in 0 .. (kMaskTiebreak - 1)
    BY UnionFacts
  <1>6. ASSUME NEW a \in A
        PROVE  /\ SlotOk(a) /\ a.tie < kMaskTiebreak /\ a.seq \in 1 .. n /\ a = gm[a.seq]
    <2>1. PICK i \in bytes : a = gm[i]
      OBVIOUS
    <2>2. a = Slot("member", plans[i].size, plans[i].align, plans[i].num, i)
      BY <1>4, <2>1
    <2>3. /\ a.id = "member" /\ a.size = plans[i].size /\ a.align = plans[i].align
          /\ a.tie = plans[i].num /\ a.seq = i
      BY <2>2 DEF Slot
    <2>4. Sized(plans[i]) /\ plans[i].num \in 0 .. (kMaskTiebreak - 1) /\ i \in 1 .. n
      BY <1>4
    <2>5. SlotOk(a)
      BY <2>2, <2>3, <2>4, MaskTie DEF SlotOk, Slotted, Sized
    <2>6. a.tie < kMaskTiebreak
      BY <2>3, <2>4, MaskTie
    <2> HIDE DEF gm
    <2> QED BY <2>1, <2>3, <2>4, <2>5, <2>6
  <1>7. ASSUME NEW b \in B
        PROVE  /\ SlotOk(b) /\ b.tie < kMaskTiebreak /\ \E o \in O : b.seq = n + 2 * o /\ b = gd[o]
    <2>1. PICK o \in O : b = gd[o]
      OBVIOUS
    <2>2. b = Slot("disc", 1, 1, tie(o), n + 2 * o)
      BY <2>1
    <2>3. b.id = "disc" /\ b.size = 1 /\ b.align = 1 /\ b.tie = tie(o) /\ b.seq = n + 2 * o
      BY <2>2 DEF Slot
    <2>4. o \in Nat /\ tie(o) \in 0 .. (kMaskTiebreak - 1)
      BY <1>5
    <2> HIDE DEF tie, gd
    <2>5. SlotOk(b)
      <3>1. b = Slot(b.id, b.size, b.align, b.tie, b.seq)
        BY <2>2, <2>3
      <3>2. b.tie \in Nat /\ b.seq \in Nat
        BY <1>2, <2>3, <2>4, MaskTie
      <3> QED BY <2>3, <3>1, <3>2 DEF SlotOk, Slotted, Sized, Aligns
    <2>6. b.tie < kMaskTiebreak
      BY <2>3, <2>4, MaskTie
    <2> QED BY <2>1, <2>3, <2>5, <2>6
  <1>8. ASSUME NEW c \in C
        PROVE  /\ SlotOk(c) /\ c.tie < kMaskTiebreak /\ \E o \in O : c.seq = n + 2 * o + 1 /\ c = gu[o]
    <2>1. PICK o \in O : c = gu[o]
      OBVIOUS
    <2>2. PICK u : u = UnionStore(plans, o)
      OBVIOUS
    <2>3. c = Slot("union", u.size, u.align, tie(o), n + 2 * o + 1)
      BY <2>1, <2>2
    <2>4. c.id = "union" /\ c.size = u.size /\ c.align = u.align /\ c.tie = tie(o) /\ c.seq = n + 2 * o + 1
      BY <2>3 DEF Slot
    <2>5. o \in Nat /\ tie(o) \in 0 .. (kMaskTiebreak - 1) /\ Slotted(u)
      BY <1>5, <2>2
    <2> HIDE DEF tie, gu
    <2>6. SlotOk(c)
      <3>1. c = Slot(c.id, c.size, c.align, c.tie, c.seq)
        BY <2>3, <2>4
      <3>2. c.tie \in Nat /\ c.seq \in Nat
        BY <1>2, <2>4, <2>5, MaskTie
      <3> QED BY <2>4, <2>5, <3>1, <3>2 DEF SlotOk, Slotted, Sized
    <2>7. c.tie < kMaskTiebreak
      BY <2>4, <2>5, MaskTie
    <2> QED BY <2>1, <2>4, <2>6, <2>7
  <1>9. ASSUME NEW d \in D
        PROVE  SlotOk(d) /\ d.tie = kMaskTiebreak /\ \A e \in D : e = d
    <2>1. mask.size # 0 /\ d = Slot("mask", mask.size, mask.align, kMaskTiebreak, 0)
      OBVIOUS
    <2>2. d.id = "mask" /\ d.size = mask.size /\ d.align = mask.align /\ d.tie = kMaskTiebreak /\ d.seq = 0
      BY <2>1 DEF Slot
    <2>4. SlotOk(d)
      BY <2>1, <2>2, MaskTie DEF SlotOk, Slotted, Sized
    <2> QED BY <2>2, <2>4
  <1>10. IsFiniteSet(A \cup B \cup C \cup D)
    <2>1. IsFiniteSet(bytes)
      BY <1>2, FS_Subset
    <2>2. IsFiniteSet(O)
      BY FS_Interval
    <2>3. IsFiniteSet(D)
      <3>1. \A x : IsFiniteSet({x})
        BY FS_Singleton
      <3> QED BY <3>1, FS_EmptySet
    <2> HIDE DEF gm, gd, gu, bytes, O, D
    <2>4. IsFiniteSet(A) /\ IsFiniteSet(B) /\ IsFiniteSet(C)
      BY <2>1, <2>2, ImageFinite
    <2> HIDE DEF A, B, C
    <2> QED BY <2>3, <2>4, FS_Union
  <1> HIDE DEF A, B, C, D, gm, gd, gu, O, bytes, tie
  <1>11. ASSUME NEW a \in A \cup B \cup C \cup D, NEW b \in A \cup B \cup C \cup D,
                a.tie = b.tie, a.seq = b.seq
         PROVE  a = b
    <2>1. kMaskTiebreak \in Nat /\ n \in Nat /\ \A o \in O : o \in Nat \ {0}
      BY <1>2, <1>5, MaskTie
    <2>2. ASSUME NEW x \in A \cup B \cup C PROVE x.tie < kMaskTiebreak /\ SlotOk(x)
      BY <1>6, <1>7, <1>8
    <2>3. CASE a \in D
      <3>1. b \in D
        <4>1. b \in A \cup B \cup C => b.tie # kMaskTiebreak
          BY <2>1, <2>2 DEF SlotOk
        <4> QED BY <1>9, <1>11, <2>3, <4>1
      <3> QED BY <1>9, <2>3, <3>1
    <2>4. CASE b \in D
      <3>1. a \in D
        <4>1. a \in A \cup B \cup C => a.tie # kMaskTiebreak
          BY <2>1, <2>2 DEF SlotOk
        <4> QED BY <1>9, <1>11, <2>4, <4>1
      <3> QED BY <1>9, <2>4, <3>1
    <2>5. CASE a \in A
      <3>1. a.seq \in 1 .. n /\ a = gm[a.seq]
        BY <1>6, <2>5
      <3>2. CASE b \in A
        BY <1>6, <1>11, <3>1, <3>2
      <3>3. CASE b \in B
        BY <1>7, <1>11, <2>1, <3>1, <3>3
      <3>4. CASE b \in C
        BY <1>8, <1>11, <2>1, <3>1, <3>4
      <3> QED BY <2>4, <3>2, <3>3, <3>4
    <2>6. CASE a \in B
      <3>1. PICK o \in O : a.seq = n + 2 * o /\ a = gd[o]
        BY <1>7, <2>6
      <3>2. o \in Nat /\ o > 0 /\ n \in Nat
        BY <2>1
      <3>3. CASE b \in A
        <4>1. b.seq \in 1 .. n
          BY <1>6, <3>3
        <4> QED BY <1>11, <3>1, <3>2, <4>1
      <3>4. CASE b \in B
        <4>1. PICK q \in O : b.seq = n + 2 * q /\ b = gd[q]
          BY <1>7, <3>4
        <4>2. q \in Nat
          BY <2>1
        <4>3. n + 2 * o = n + 2 * q
          BY <1>11, <3>1, <4>1
        <4>4. q = o
          BY <3>2, <4>2, <4>3, SeqNumbers
        <4> QED BY <3>1, <4>1, <4>4
      <3>5. CASE b \in C
        <4>1. PICK q \in O : b.seq = n + 2 * q + 1
          BY <1>8, <3>5
        <4>2. q \in Nat
          BY <2>1
        <4>3. n + 2 * o = n + 2 * q + 1
          BY <1>11, <3>1, <4>1
        <4> QED BY <3>2, <4>2, <4>3, SeqNumbers
      <3> QED BY <2>4, <3>3, <3>4, <3>5
    <2>7. CASE a \in C
      <3>1. PICK o \in O : a.seq = n + 2 * o + 1 /\ a = gu[o]
        BY <1>8, <2>7
      <3>2. o \in Nat /\ o > 0 /\ n \in Nat
        BY <2>1
      <3>3. CASE b \in A
        <4>1. b.seq \in 1 .. n
          BY <1>6, <3>3
        <4> QED BY <1>11, <3>1, <3>2, <4>1
      <3>4. CASE b \in B
        <4>1. PICK q \in O : b.seq = n + 2 * q
          BY <1>7, <3>4
        <4>2. q \in Nat
          BY <2>1
        <4>3. n + 2 * q = n + 2 * o + 1
          BY <1>11, <3>1, <4>1
        <4> QED BY <3>2, <4>2, <4>3, SeqNumbers
      <3>5. CASE b \in C
        <4>1. PICK q \in O : b.seq = n + 2 * q + 1 /\ b = gu[q]
          BY <1>8, <3>5
        <4>2. q \in Nat
          BY <2>1
        <4>3. n + 2 * o + 1 = n + 2 * q + 1
          BY <1>11, <3>1, <4>1
        <4>4. n + 2 * o = n + 2 * q
          BY <3>2, <4>2, <4>3
        <4>5. q = o
          BY <3>2, <4>2, <4>4, SeqNumbers
        <4> QED BY <3>1, <4>1, <4>5
      <3> QED BY <2>4, <3>3, <3>4, <3>5
    <2> QED BY <2>3, <2>5, <2>6, <2>7
  <1>12. \A a \in A \cup B \cup C \cup D : SlotOk(a)
    BY <1>6, <1>7, <1>8, <1>9
  <1> QED BY <1>3, <1>10, <1>11, <1>12 DEF SlotSet

-----------------------------------------------------------------------------
(* Layout: a whole message                                                 *)

\* What holds a sub-message by value: the member itself, or the value of a map's entry.
HeldAs(p) == IF p.kind = "inline" THEN p ELSE CHOOSE s \in p.entry.placed : s.id = "value"

\* A sub-message that plan p holds by value is laid out in memo, fixed and small, and takes
\* exactly the place it has there.
HeldRight(p, memo) ==
    p.kind = "inline" \/ p.value = "inline" =>
        /\ p.target \in DOMAIN memo
        /\ memo[p.target].fixed /\ memo[p.target].size <= inline_submsg_cutoff
        /\ HeldAs(p).size = memo[p.target].size /\ HeldAs(p).align = memo[p.target].align

\* A layout in which every member has memory of its own.
LayoutOk(l, memo) ==
    /\ Sized(l) /\ Apart(l) /\ FlagsApart(l)
    /\ \A i \in DOMAIN l.plans : Apart(l.plans[i].entry) /\ HeldRight(l.plans[i], memo)

\* allocate_bits changes only the bits of a plan.
LEMMA BitsGiven ==
    ASSUME NEW plans, IsSeq(plans), \A i \in DOMAIN plans : PlanShape(plans[i]), NEW i \in DOMAIN plans,
           NEW p, p = WithBits(plans)[i]
    PROVE  /\ DOMAIN WithBits(plans) = DOMAIN plans
           /\ p.presence_bit = IF needs_presence(plans[i]) THEN FirstBit(plans, i) ELSE None
           /\ p.value_bit = IF plans[i].is_bool THEN FirstBit(plans, i) + BitsOf(plans[i]) - 1 ELSE None
           /\ p.kind = plans[i].kind /\ p.value = plans[i].value /\ p.entry = plans[i].entry
           /\ p.target = plans[i].target /\ p.size = plans[i].size /\ p.align = plans[i].align
  <1> DEFINE pb == IF needs_presence(plans[i]) THEN FirstBit(plans, i) ELSE None
             vb == IF plans[i].is_bool THEN FirstBit(plans, i) + BitsOf(plans[i]) - 1 ELSE None
  <1>1. PICK q : q = plans[i]
    OBVIOUS
  <1>2. p = [[q EXCEPT !.presence_bit = pb] EXCEPT !.value_bit = vb]
    BY <1>1 DEF WithBits
  <1>3. DOMAIN q = {"num", "kind", "size", "align", "oneof", "target", "presence", "is_bool", "entry",
                    "value", "presence_bit", "value_bit"}
    BY <1>1 DEF PlanShape
  <1>4. DOMAIN WithBits(plans) = DOMAIN plans
    BY DEF WithBits
  <1> HIDE DEF pb, vb
  <1>5. /\ p.presence_bit = pb /\ p.value_bit = vb
        /\ p.kind = q.kind /\ p.value = q.value /\ p.entry = q.entry
        /\ p.target = q.target /\ p.size = q.size /\ p.align = q.align
    BY <1>2, <1>3
  <1> QED BY <1>1, <1>4, <1>5 DEF pb, vb

\* The bits of one plan, given the first of them.
LEMMA BitsOfFacts ==
    ASSUME NEW p
    PROVE  /\ BitsOf(p) \in 0 .. 2 /\ needs_presence(p) \in BOOLEAN
           /\ needs_presence(p) => BitsOf(p) \in 1 .. 2
           /\ p.is_bool => BitsOf(p) \in 1 .. 2
           /\ needs_presence(p) /\ p.is_bool => BitsOf(p) = 2
  BY DEF BitsOf, needs_presence

\* No two flags share a bit.
LEMMA FlagsFacts ==
    ASSUME NEW plans, IsSeq(plans), \A i \in DOMAIN plans : PlanShape(plans[i]),
           NEW oneofs, NEW keeps \in BOOLEAN, NEW l, l = LayoutOf(plans, oneofs, keeps)
    PROVE  FlagsApart(l)
  <1>1. PICK n : n = Len(plans)
    OBVIOUS
  <1>2. n \in Nat /\ DOMAIN plans = 1 .. n
    BY <1>1, SeqOfElements DEF IsSeq
  <1>3. PICK F : F = [i \in 1 .. (n + 1) |-> FirstBit(plans, i)]
    OBVIOUS
  <1>4. PICK G : G = [i \in 1 .. n |-> F[i] + BitsOf(plans[i])]
    OBVIOUS
  <1>5. /\ F[n + 1] \in Nat
        /\ \A i \in 1 .. n : F[i] \in Nat /\ G[i] \in Nat /\ G[i] <= F[n + 1]
        /\ \A i \in 1 .. n : \A j \in 1 .. n : i < j => G[i] <= F[j]
    <2>1. \A i \in 1 .. n : i \in 1 .. (n + 1) /\ F[i] = FirstBit(plans, i) /\ G[i] = F[i] + BitsOf(plans[i])
      BY <1>2, <1>3, <1>4
    <2>2. n + 1 \in 1 .. (n + 1) /\ F[n + 1] = FirstBit(plans, n + 1)
      BY <1>2, <1>3
    <2>3. /\ \A i \in 1 .. n : FirstBit(plans, i) \in Nat
          /\ FirstBit(plans, n + 1) \in Nat
          /\ \A j \in 1 .. (n + 1) : \A i \in 1 .. n :
                i < j => FirstBit(plans, i) + BitsOf(plans[i]) <= FirstBit(plans, j)
      BY <1>1, BitFacts DEF IsSeq
    <2>4. \A i \in 1 .. n : BitsOf(plans[i]) \in Nat
      BY BitsOfFacts
    <2>5. \A i \in 1 .. n : F[i] \in Nat /\ G[i] \in Nat
      BY <2>1, <2>3, <2>4
    <2>6. \A i \in 1 .. n : i < n + 1 /\ G[i] <= F[n + 1]
      BY <1>2, <2>1, <2>2, <2>3
    <2>7. \A i \in 1 .. n : \A j \in 1 .. n : i < j => G[i] <= F[j]
      BY <2>1, <2>3
    <2> QED BY <2>2, <2>3, <2>5, <2>6, <2>7
  <1>6. PICK mask : mask = MaskStore(F[n + 1] + (IF keeps THEN 1 ELSE 0))
    OBVIOUS
  <1>7. /\ l.plans = WithBits(plans) /\ l.mask_size = mask.size
        /\ l.unknown_bit = IF keeps THEN F[n + 1] ELSE None
    <2>1. F[n + 1] = FirstBit(plans, Len(plans) + 1)
      BY <1>1, <1>2, <1>3
    <2> QED BY <1>6, <2>1 DEF LayoutOf
  <1>8. /\ mask.size \in Nat /\ 8 * mask.size >= F[n + 1]
        /\ keeps => 8 * mask.size >= F[n + 1] + 1
    <2>1. PICK bits : bits = F[n + 1] + (IF keeps THEN 1 ELSE 0)
      OBVIOUS
    <2>2. bits \in Nat /\ bits >= F[n + 1] /\ (keeps => bits = F[n + 1] + 1)
      BY <1>5, <2>1
    <2>3. mask.size \in Nat /\ 8 * mask.size >= bits
      BY <1>6, <2>1, <2>2, MaskFacts
    <2> QED BY <1>5, <2>2, <2>3
  <1> DEFINE P == {i \in DOMAIN l.plans : l.plans[i].presence_bit # None}
             B == {i \in DOMAIN l.plans : l.plans[i].value_bit # None}
             uses == {<<i, "p">> : i \in P} \cup {<<i, "v">> : i \in B}
                     \cup (IF l.unknown_bit # None THEN {<<0, "u">>} ELSE {})
             bit(u) == IF u[2] = "p" THEN l.plans[u[1]].presence_bit
                       ELSE IF u[2] = "v" THEN l.plans[u[1]].value_bit ELSE l.unknown_bit
  <1>9. DOMAIN l.plans = 1 .. n
    BY <1>2, <1>7 DEF WithBits
  <1>10. ASSUME NEW i \in 1 .. n
         PROVE  /\ l.plans[i].presence_bit = IF needs_presence(plans[i]) THEN F[i] ELSE None
                /\ l.plans[i].value_bit = IF plans[i].is_bool THEN G[i] - 1 ELSE None
                /\ G[i] = F[i] + BitsOf(plans[i])
    <2>1. i \in 1 .. (n + 1) /\ F[i] = FirstBit(plans, i) /\ G[i] = F[i] + BitsOf(plans[i])
      BY <1>2, <1>3, <1>4
    <2>2. PICK p : p = WithBits(plans)[i]
      OBVIOUS
    <2>3. /\ p.presence_bit = IF needs_presence(plans[i]) THEN FirstBit(plans, i) ELSE None
          /\ p.value_bit = IF plans[i].is_bool THEN FirstBit(plans, i) + BitsOf(plans[i]) - 1 ELSE None
      BY <1>2, <2>2, BitsGiven
    <2>4. l.plans[i] = p
      BY <1>7, <2>2
    <2>5. p.presence_bit = IF needs_presence(plans[i]) THEN F[i] ELSE None
      BY <2>1, <2>3
    <2>6. p.value_bit = IF plans[i].is_bool THEN G[i] - 1 ELSE None
      <3>1. F[i] \in Nat /\ BitsOf(plans[i]) \in 0 .. 2
        BY <1>5, BitsOfFacts
      <3>2. FirstBit(plans, i) + BitsOf(plans[i]) - 1 = G[i] - 1
        BY <2>1, <3>1
      <3> QED BY <2>3, <3>2
    <2> QED BY <2>1, <2>4, <2>5, <2>6
  <1>11. \A i \in P : /\ i \in 1 .. n /\ needs_presence(plans[i]) /\ l.plans[i].presence_bit = F[i]
                      /\ F[i] < G[i]
    <2>1. ASSUME NEW i \in P PROVE i \in 1 .. n /\ needs_presence(plans[i]) /\ l.plans[i].presence_bit = F[i]
      BY <1>9, <1>10
    <2>2. ASSUME NEW i \in P PROVE F[i] < G[i]
      <3>1. BitsOf(plans[i]) \in 1 .. 2 /\ i \in 1 .. n
        BY <2>1, BitsOfFacts
      <3>2. F[i] \in Nat /\ G[i] = F[i] + BitsOf(plans[i])
        BY <1>5, <1>10, <3>1
      <3> QED BY <3>1, <3>2
    <2> QED BY <2>1, <2>2
  <1>12. \A i \in B : /\ i \in 1 .. n /\ plans[i].is_bool /\ l.plans[i].value_bit = G[i] - 1
                      /\ F[i] < G[i] /\ (i \in P => F[i] < G[i] - 1)
    <2>1. ASSUME NEW i \in B PROVE i \in 1 .. n /\ plans[i].is_bool /\ l.plans[i].value_bit = G[i] - 1
      BY <1>9, <1>10
    <2>2. ASSUME NEW i \in B PROVE F[i] < G[i] /\ (i \in P => F[i] < G[i] - 1)
      <3>1. BitsOf(plans[i]) \in 1 .. 2 /\ i \in 1 .. n /\ (i \in P => BitsOf(plans[i]) = 2)
        BY <1>11, <2>1, BitsOfFacts
      <3>2. F[i] \in Nat /\ G[i] = F[i] + BitsOf(plans[i])
        BY <1>5, <1>10, <3>1
      <3> QED BY <3>1, <3>2
    <2> QED BY <2>1, <2>2
  <1>13. l.unknown_bit # None => keeps /\ l.unknown_bit = F[n + 1]
    BY <1>7
  <1> HIDE DEF P, B
  <1>14. ASSUME NEW u \in uses
         PROVE  \/ \E i \in P : u = <<i, "p">> /\ bit(u) = F[i]
                \/ \E i \in B : u = <<i, "v">> /\ bit(u) = G[i] - 1
                \/ u = <<0, "u">> /\ bit(u) = F[n + 1] /\ keeps
    <2>1. CASE u \in {<<i, "p">> : i \in P}
      BY <1>11, <2>1
    <2>2. CASE u \in {<<i, "v">> : i \in B}
      BY <1>12, <2>2
    <2>3. CASE u = <<0, "u">> /\ l.unknown_bit # None
      BY <1>13, <2>3
    <2> QED BY <2>1, <2>2, <2>3
  <1> HIDE DEF uses, bit
  <1>15. ASSUME NEW u \in uses PROVE bit(u) \in 0 .. (8 * l.mask_size - 1)
    <2>1. CASE \E i \in P : u = <<i, "p">> /\ bit(u) = F[i]
      BY <1>5, <1>7, <1>8, <1>11, <2>1
    <2>2. CASE \E i \in B : u = <<i, "v">> /\ bit(u) = G[i] - 1
      BY <1>5, <1>7, <1>8, <1>12, <2>2
    <2>3. CASE bit(u) = F[n + 1] /\ keeps
      BY <1>5, <1>7, <1>8, <2>3
    <2> QED BY <1>14, <2>1, <2>2, <2>3
  <1>16. ASSUME NEW i \in 1 .. n, NEW j \in 1 .. n, NEW x \in Nat, F[i] <= x, x < G[i], F[j] <= x, x < G[j]
         PROVE  i = j
    <2>1. ~(i < j) /\ ~(j < i)
      BY <1>5, <1>16
    <2> QED BY <2>1
  <1>17. ASSUME NEW u \in uses, NEW v \in uses, bit(u) = bit(v) PROVE u = v
    <2>1. CASE \E i \in P : u = <<i, "p">> /\ bit(u) = F[i]
      <3>1. PICK i \in P : u = <<i, "p">> /\ bit(u) = F[i]
        BY <2>1
      <3>2. i \in 1 .. n /\ F[i] \in Nat /\ G[i] \in Nat /\ F[i] < G[i] /\ G[i] <= F[n + 1] /\ F[n + 1] \in Nat
        BY <1>5, <1>11
      <3>3. CASE \E j \in P : v = <<j, "p">> /\ bit(v) = F[j]
        <4>1. PICK j \in P : v = <<j, "p">> /\ bit(v) = F[j]
          BY <3>3
        <4>2. i = j
          BY <1>5, <1>11, <1>16, <1>17, <3>1, <3>2, <4>1
        <4> QED BY <3>1, <4>1, <4>2
      <3>4. CASE \E j \in B : v = <<j, "v">> /\ bit(v) = G[j] - 1
        <4>1. PICK j \in B : v = <<j, "v">> /\ bit(v) = G[j] - 1
          BY <3>4
        <4>2. j \in 1 .. n /\ F[j] \in Nat /\ G[j] \in Nat /\ F[j] < G[j] /\ (j \in P => F[j] < G[j] - 1)
          BY <1>5, <1>12
        <4>3. F[i] = G[j] - 1
          BY <1>17, <3>1, <4>1
        <4>4. F[j] <= F[i] /\ F[i] < G[j]
          BY <3>2, <4>2, <4>3
        <4>5. i = j
          BY <1>16, <3>2, <4>2, <4>4
        <4> QED BY <3>2, <4>2, <4>3, <4>5
      <3>5. CASE bit(v) = F[n + 1]
        <4>1. F[i] = F[n + 1]
          BY <1>17, <3>1, <3>5
        <4> QED BY <3>2, <4>1
      <3> QED BY <1>14, <3>3, <3>4, <3>5
    <2>2. CASE \E i \in B : u = <<i, "v">> /\ bit(u) = G[i] - 1
      <3>1. PICK i \in B : u = <<i, "v">> /\ bit(u) = G[i] - 1
        BY <2>2
      <3>2. /\ i \in 1 .. n /\ F[i] \in Nat /\ G[i] \in Nat /\ F[i] < G[i] /\ G[i] <= F[n + 1]
            /\ F[n + 1] \in Nat /\ (i \in P => F[i] < G[i] - 1)
        BY <1>5, <1>12
      <3>3. CASE \E j \in P : v = <<j, "p">> /\ bit(v) = F[j]
        <4>1. PICK j \in P : v = <<j, "p">> /\ bit(v) = F[j]
          BY <3>3
        <4>2. j \in 1 .. n /\ F[j] \in Nat /\ G[j] \in Nat /\ F[j] < G[j]
          BY <1>5, <1>11
        <4>3. F[j] = G[i] - 1
          BY <1>17, <3>1, <4>1
        <4>4. F[i] <= F[j] /\ F[j] < G[i]
          BY <3>2, <4>2, <4>3
        <4>5. i = j
          BY <1>16, <3>2, <4>2, <4>4
        <4> QED BY <3>2, <4>2, <4>3, <4>5
      <3>4. CASE \E j \in B : v = <<j, "v">> /\ bit(v) = G[j] - 1
        <4>1. PICK j \in B : v = <<j, "v">> /\ bit(v) = G[j] - 1
          BY <3>4
        <4>2. j \in 1 .. n /\ F[j] \in Nat /\ G[j] \in Nat /\ F[j] < G[j]
          BY <1>5, <1>12
        <4>3. PICK x : x = G[i] - 1
          OBVIOUS
        <4>4. x = G[j] - 1
          BY <1>17, <3>1, <4>1, <4>3
        <4>5. x \in Nat /\ F[i] <= x /\ x < G[i] /\ F[j] <= x /\ x < G[j]
          BY <3>2, <4>2, <4>3, <4>4
        <4>6. i = j
          BY <1>16, <3>2, <4>2, <4>5
        <4> QED BY <3>1, <4>1, <4>6
      <3>5. CASE bit(v) = F[n + 1]
        <4>1. G[i] - 1 = F[n + 1]
          BY <1>17, <3>1, <3>5
        <4> QED BY <3>2, <4>1
      <3> QED BY <1>14, <3>3, <3>4, <3>5
    <2>3. CASE u = <<0, "u">> /\ bit(u) = F[n + 1]
      <3>1. CASE \E j \in P : v = <<j, "p">> /\ bit(v) = F[j]
        <4>1. PICK j \in P : bit(v) = F[j]
          BY <3>1
        <4>2. j \in 1 .. n /\ F[j] \in Nat /\ G[j] \in Nat /\ F[j] < G[j] /\ G[j] <= F[n + 1] /\ F[n + 1] \in Nat
          BY <1>5, <1>11
        <4>3. F[n + 1] = F[j]
          BY <1>17, <2>3, <4>1
        <4> QED BY <4>2, <4>3
      <3>2. CASE \E j \in B : v = <<j, "v">> /\ bit(v) = G[j] - 1
        <4>1. PICK j \in B : bit(v) = G[j] - 1
          BY <3>2
        <4>2. j \in 1 .. n /\ F[j] \in Nat /\ G[j] \in Nat /\ F[j] < G[j] /\ G[j] <= F[n + 1] /\ F[n + 1] \in Nat
          BY <1>5, <1>12
        <4>3. F[n + 1] = G[j] - 1
          BY <1>17, <2>3, <4>1
        <4> QED BY <4>2, <4>3
      <3>3. CASE v = <<0, "u">>
        BY <2>3, <3>3
      <3> QED BY <1>14, <3>1, <3>2, <3>3
    <2> QED BY <1>14, <2>1, <2>2, <2>3
  <1> QED BY <1>15, <1>17 DEF FlagsApart, uses, bit, P, B

\* The layout of a message whose items are planned.
LEMMA LaidOutOk ==
    ASSUME NEW memo, NEW plans, IsSeq(plans),
           \A i \in DOMAIN plans : PlanShape(plans[i]) /\ HeldRight(plans[i], memo),
           NEW oneofs \in Nat, NEW keeps \in BOOLEAN, NEW l, l = LayoutOf(plans, oneofs, keeps)
    PROVE  LayoutOk(l, memo)
  <1>1. FlagsApart(l)
    BY FlagsFacts
  <1>2. PICK bits : bits = FirstBit(plans, Len(plans) + 1) + (IF keeps THEN 1 ELSE 0)
    OBVIOUS
  <1>3. bits \in Nat
    <2>1. FirstBit(plans, Len(plans) + 1) \in Nat
      BY BitFacts DEF IsSeq
    <2> QED BY <1>2, <2>1
  <1>4. PICK mask : mask = MaskStore(bits)
    OBVIOUS
  <1>5. mask.size \in Nat /\ (mask.size # 0 => Sized(mask))
    BY <1>3, <1>4, MaskFacts
  <1>6. SlotSet(SlotsOf(plans, oneofs, mask))
    BY <1>5, SlotsFormSet
  <1>7. PICK ext : ext = order_slots(SlotsOf(plans, oneofs, mask))
    OBVIOUS
  <1>8. Apart(ext) /\ Sized(ext)
    BY <1>6, <1>7, OrderedFacts
  <1>9. l.plans = WithBits(plans) /\ l.placed = ext.placed /\ l.size = ext.size /\ l.align = ext.align
    BY <1>2, <1>4, <1>7 DEF LayoutOf
  <1>10. Apart(l) /\ Sized(l)
    BY <1>8, <1>9 DEF Apart, Sized
  <1>11. ASSUME NEW i \in DOMAIN l.plans
         PROVE  Apart(l.plans[i].entry) /\ HeldRight(l.plans[i], memo)
    <2>1. i \in DOMAIN plans
      BY <1>9 DEF WithBits
    <2>2. PICK p : p = WithBits(plans)[i]
      OBVIOUS
    <2>3. /\ p.kind = plans[i].kind /\ p.value = plans[i].value /\ p.entry = plans[i].entry
          /\ p.target = plans[i].target /\ p.size = plans[i].size /\ p.align = plans[i].align
      BY <2>1, <2>2, BitsGiven
    <2>4. p.kind = "inline" \/ p.value = "inline" =>
            HeldAs(p).size = HeldAs(plans[i]).size /\ HeldAs(p).align = HeldAs(plans[i]).align
      BY <2>3 DEF HeldAs
    <2>5. PlanShape(plans[i]) /\ HeldRight(plans[i], memo)
      BY <2>1
    <2>6. HeldRight(p, memo)
      BY <2>3, <2>4, <2>5 DEF HeldRight
    <2>7. Apart(p.entry)
      BY <2>3, <2>5 DEF PlanShape
    <2> QED BY <1>9, <2>2, <2>6, <2>7
  <1> QED BY <1>1, <1>10, <1>11 DEF LayoutOk

-----------------------------------------------------------------------------
(* Layout: the plan of one item                                            *)

\* The layouts there are have a size, and one that may be inspected is there.
Inspectable(t) ==
    /\ \A m \in DOMAIN m_memo : Sized(m_memo[m])
    /\ t \in Messages /\ MayInspect(t) => t \in DOMAIN m_memo

\* A scalar is no message.
LEMMA ScalarFacts ==
    ASSUME NEW t \in ScalarTypes, NEW s, s = ByteStore(t)
    PROVE  Sized(s) /\ s.kind # "inline"
  <1>1. t \notin Messages
    BY LayoutAssumption
  <1>2. s = ScalarStore[t]
    BY <1>1 DEF ByteStore
  <1>3. t \in {"int32", "int64", "bool", "enum", "string"}
    BY DEF ScalarTypes
  <1>4. s \in {Store("scalar", 4, 4), Store("scalar", 8, 8), Store("scalar", 1, 1), Store("enum", 4, 4),
               View("string")}
    BY <1>2, <1>3 DEF ScalarStore
  <1> QED BY <1>4 DEF Store, View, Sized, Aligns

\* classify_byte_member: what it stores has a size, and is right about the message it inlines.
LEMMA ByteStoreFacts ==
    ASSUME NEW t \in Messages \cup ScalarTypes, Inspectable(t), NEW s, s = ByteStore(t)
    PROVE  /\ Sized(s)
           /\ s.kind = "inline" =>
                /\ t \in DOMAIN m_memo /\ m_memo[t].fixed /\ m_memo[t].size <= inline_submsg_cutoff
                /\ s.size = m_memo[t].size /\ s.align = m_memo[t].align
  <1>1. CASE t \in ScalarTypes
    BY <1>1, ScalarFacts
  <1>2. CASE t \in Messages /\ MayInspect(t) /\ Inlinable(m_memo[t])
    <2>1. s = Store("inline", m_memo[t].size, m_memo[t].align)
      BY <1>2 DEF ByteStore, classify_message
    <2>2. t \in DOMAIN m_memo /\ Sized(m_memo[t])
      BY <1>2 DEF Inspectable
    <2>3. s.size = m_memo[t].size /\ s.align = m_memo[t].align
      BY <2>1 DEF Store
    <2> QED BY <1>2, <2>2, <2>3 DEF Sized, Inlinable
  <1>3. CASE t \in Messages /\ ~(MayInspect(t) /\ Inlinable(m_memo[t]))
    <2>1. s = Store("pointer", 8, 8)
      BY <1>3 DEF ByteStore, classify_message, Pointer
    <2> QED BY <2>1 DEF Store, Sized, Aligns
  <1> QED BY <1>1, <1>2, <1>3

\* The entry of a map: its two slots are apart, and the value has the size of its storage.
LEMMA EntryFacts ==
    ASSUME NEW f, f.key \in ScalarTypes, f.type \in Messages \cup ScalarTypes, Inspectable(f.type),
           NEW l, l = build_entry(f), NEW v, v = ByteStore(f.type)
    PROVE  /\ Apart(l)
           /\ \E s \in l.placed : s.id = "value"
           /\ \A s \in l.placed : s.id = "value" => s.size = v.size /\ s.align = v.align
  <1>1. PICK k : k = ByteStore(f.key)
    OBVIOUS
  <1>2. Sized(k) /\ Sized(v)
    BY <1>1, ScalarFacts, ByteStoreFacts
  <1>3. PICK a : a = Slot("key", k.size, k.align, 0, 0)
    OBVIOUS
  <1>4. PICK b : b = Slot("value", v.size, v.align, 1, 1)
    OBVIOUS
  <1>5. l = order_slots({a, b})
    BY <1>1, <1>3, <1>4 DEF build_entry
  <1>6. /\ a.id = "key" /\ a.size = k.size /\ a.align = k.align /\ a.tie = 0 /\ a.seq = 0
        /\ b.id = "value" /\ b.size = v.size /\ b.align = v.align /\ b.tie = 1 /\ b.seq = 1
    BY <1>3, <1>4 DEF Slot
  <1>7. SlotOk(a) /\ SlotOk(b)
    BY <1>2, <1>3, <1>4, <1>6 DEF SlotOk, Slotted, Sized
  <1>8. SlotSet({a, b})
    <2>1. IsFiniteSet({a, b})
      <3>1. IsFiniteSet({a}) /\ IsFiniteSet({b})
        BY FS_Singleton
      <3>2. {a, b} = {a} \cup {b}
        OBVIOUS
      <3> QED BY <3>1, <3>2, FS_Union
    <2>2. a.tie # b.tie
      BY <1>6
    <2> QED BY <1>7, <2>1, <2>2 DEF SlotSet
  <1>9. /\ Apart(l)
        /\ \A x \in {a, b} : \E s \in l.placed : s.id = x.id /\ s.size = x.size /\ s.align = x.align
        /\ \A s \in l.placed : \E x \in {a, b} : s.id = x.id /\ s.size = x.size /\ s.align = x.align
    BY <1>5, <1>8, OrderedFacts
  <1>10. a.id # b.id
    BY <1>6
  <1> QED BY <1>6, <1>9, <1>10

\* The items that reach the planner.
ItemOk(f) ==
    /\ f.type \in Messages \cup ScalarTypes /\ f.key \in {""} \cup ScalarTypes
    /\ f.num \in 0 .. (kMaskTiebreak - 1) /\ f.oneof \in Nat
    /\ f.key # "" => f.mode # "raw"
    /\ f.oneof # 0 => f.mode = "materialize" /\ ~f.rep

\* What the planner decides for an item whose type is laid out, if it asks.
LEMMA PlanFacts ==
    ASSUME NEW f, ItemOk(f), \A m \in DOMAIN m_memo : Sized(m_memo[m]),
           Asks(f) => ~MayInspect(f.type) \/ f.type \in DOMAIN m_memo,
           NEW p, p = Plan(f)
    PROVE  PlanShape(p) /\ HeldRight(p, m_memo)
  <1>1. PICK s : s = IF IsMap(f) THEN View("map") ELSE IF InOneof(f) THEN ByteStore(f.type) ELSE FieldStore(f)
    OBVIOUS
  <1> DEFINE isBool == s.kind = "scalar" /\ s.size = 0
             e == IF IsMap(f) THEN build_entry(f) ELSE NoEntry
             w == IF IsMap(f) THEN ByteStore(f.type).kind ELSE ""
  <1>2. p = [num |-> f.num, kind |-> s.kind, size |-> s.size, align |-> s.align, oneof |-> f.oneof,
             target |-> f.type, presence |-> f.presence, is_bool |-> isBool, entry |-> e, value |-> w,
             presence_bit |-> None, value_bit |-> None]
    BY <1>1 DEF Plan
  <1> HIDE DEF isBool, e, w
  <1>3. /\ DOMAIN p = {"num", "kind", "size", "align", "oneof", "target", "presence", "is_bool", "entry",
                       "value", "presence_bit", "value_bit"}
        /\ p.num = f.num /\ p.kind = s.kind /\ p.size = s.size /\ p.align = s.align /\ p.oneof = f.oneof
        /\ p.target = f.type /\ p.entry = e /\ p.value = w
    BY <1>2
  <1>4. Asks(f) => Inspectable(f.type)
    BY DEF Inspectable
  <1>5. f.type \in ScalarTypes => Inspectable(f.type)
    BY LayoutAssumption DEF Inspectable
  <1>6. CASE IsMap(f)
    <2>1. f.key \in ScalarTypes /\ f.type \in Messages \cup ScalarTypes /\ Inspectable(f.type)
      BY <1>4, <1>5, <1>6 DEF IsMap, Asks, ItemOk
    <2>2. s = View("map")
      BY <1>1, <1>6
    <2>3. s.kind = "map" /\ Sized(s)
      BY <2>2 DEF View, Store, Sized, Aligns
    <2>4. PICK l : l = build_entry(f)
      OBVIOUS
    <2>5. PICK v : v = ByteStore(f.type)
      OBVIOUS
    <2>6. /\ Apart(l)
          /\ \E x \in l.placed : x.id = "value"
          /\ \A x \in l.placed : x.id = "value" => x.size = v.size /\ x.align = v.align
      BY <2>1, <2>4, <2>5, EntryFacts
    <2>7. p.entry = l /\ p.value = v.kind /\ p.kind = "map"
      BY <1>3, <1>6, <2>3, <2>4, <2>5 DEF e, w
    <2>8. PICK h : h = CHOOSE x \in l.placed : x.id = "value"
      OBVIOUS
    <2>9. HeldAs(p) = h
      BY <2>7, <2>8 DEF HeldAs
    <2>10. h \in l.placed /\ h.id = "value"
      BY <2>6, <2>8
    <2>11. HeldAs(p).size = v.size /\ HeldAs(p).align = v.align
      BY <2>6, <2>9, <2>10
    <2>12. v.kind = "inline" =>
                /\ f.type \in DOMAIN m_memo /\ m_memo[f.type].fixed
                /\ m_memo[f.type].size <= inline_submsg_cutoff
                /\ v.size = m_memo[f.type].size /\ v.align = m_memo[f.type].align
      BY <2>1, <2>5, ByteStoreFacts
    <2>13. HeldRight(p, m_memo)
      BY <1>3, <2>7, <2>11, <2>12 DEF HeldRight
    <2>14. PlanShape(p)
      BY <1>3, <2>3, <2>6, <2>7 DEF PlanShape, ItemOk, Sized
    <2> QED BY <2>13, <2>14
  <1>7. CASE ~IsMap(f)
    <2>1. p.entry = NoEntry /\ p.value = ""
      BY <1>3, <1>7 DEF e, w
    <2>2. Apart(p.entry)
      <3>1. NoEntry.size = 1 /\ NoEntry.align = 1 /\ NoEntry.placed = {}
        BY DEF NoEntry
      <3>2. 1 % 1 = 0
        OBVIOUS
      <3>3. Apart(NoEntry)
        BY <3>1, <3>2 DEF Apart
      <3> QED BY <2>1, <3>3
    <2>3. HeldAs(p) = p \/ p.kind # "inline"
      BY DEF HeldAs
    <2>4. SUFFICES /\ (s.size = 0 /\ f.oneof = 0) \/ Sized(s)
                   /\ s.kind = "inline" =>
                        /\ f.type \in DOMAIN m_memo /\ m_memo[f.type].fixed
                        /\ m_memo[f.type].size <= inline_submsg_cutoff
                        /\ s.size = m_memo[f.type].size /\ s.align = m_memo[f.type].align
      <3>1. PlanShape(p)
        BY <1>3, <2>2, <2>4 DEF PlanShape, ItemOk, Sized
      <3>2. HeldRight(p, m_memo)
        BY <1>3, <2>1, <2>3, <2>4 DEF HeldRight
      <3> QED BY <3>1, <3>2
    <2>5. CASE s = ByteStore(f.type) /\ f.mode # "raw" /\ ~f.rep
      <3>1. Inspectable(f.type) /\ f.type \in Messages \cup ScalarTypes
        BY <1>4, <1>5, <2>5 DEF Asks, ItemOk
      <3> QED BY <2>5, <3>1, ByteStoreFacts
    <2>6. CASE s \in {View("raw"), View("repeated")}
      BY <2>6 DEF View, Store, Sized, Aligns
    <2>7. CASE s = Store("scalar", 0, 0) /\ f.oneof = 0
      BY <2>7 DEF Store
    <2>8. CASE InOneof(f)
      <3>1. s = ByteStore(f.type) /\ f.mode # "raw" /\ ~f.rep
        BY <1>1, <1>7, <2>8 DEF InOneof, ItemOk
      <3> QED BY <2>5, <3>1
    <2>9. CASE ~InOneof(f)
      <3>1. s = FieldStore(f) /\ f.oneof = 0
        BY <1>1, <1>7, <2>9 DEF InOneof
      <3>2. \/ s = ByteStore(f.type) /\ f.mode # "raw" /\ ~f.rep
            \/ s \in {View("raw"), View("repeated")}
            \/ s = Store("scalar", 0, 0)
        BY <3>1 DEF FieldStore
      <3> QED BY <2>5, <2>6, <2>7, <3>1, <3>2
    <2> QED BY <2>8, <2>9
  <1> QED BY <1>6, <1>7

\* Every item of a message is an item of the input.
LEMMA ItemFacts ==
    ASSUME schema \in Schemas, NEW m \in Messages, NEW k \in Nat, k < Len(ItemsOf(m))
    PROVE  ItemOk(ItemsOf(m)[k + 1])
  <1>1. PICK s : s = schema.items[m]
    OBVIOUS
  <1>2. s \in Seq(ToSet(s)) /\ \A f \in ToSet(s) : ItemOk(f)
    <2>1. s \in Seq(ToSet(s))
      BY <1>1, LayoutAssumption
    <2>2. PICK bound : bound = schema.oneofs[m]
      OBVIOUS
    <2>3. bound \in Nat
      <3>1. schema.oneofs \in [Messages -> Nat]
        BY LayoutAssumption
      <3> QED BY <2>2, <3>1
    <2>4. ASSUME NEW f \in ToSet(s) PROVE ItemOk(f)
      <3>1. /\ f.type \in Messages \cup ScalarTypes /\ f.key \in {""} \cup ScalarTypes
            /\ f.num \in 0 .. (kMaskTiebreak - 1) /\ f.oneof \in 0 .. bound
            /\ f.key # "" => f.mode # "raw"
            /\ f.oneof # 0 => f.mode = "materialize" /\ ~f.rep
        BY <1>1, <2>2, LayoutAssumption
      <3>2. 0 .. bound \subseteq Nat
        BY <2>3
      <3>3. f.oneof \in Nat
        BY <3>1, <3>2, Zenon
      <3> QED BY <3>1, <3>3 DEF ItemOk
    <2> QED BY <2>1, <2>4
  <1>3. PICK S : S = {f \in ToSet(schema.items[m]) : f.mode # "drop"}
    OBVIOUS
  <1>4. PICK r : r = Select(s, S)
    OBVIOUS
  <1>5. ItemsOf(m) = r
    BY <1>1, <1>3, <1>4 DEF ItemsOf
  <1>6. r \in Seq(ToSet(s))
    BY <1>2, <1>4, SelectFacts
  <1>7. Len(r) \in Nat /\ k + 1 \in 1 .. Len(r)
    <2>1. Len(r) \in Nat
      BY <1>6, LenProperties
    <2> QED BY <1>5, <2>1
  <1>8. r[k + 1] \in ToSet(s)
    BY <1>6, <1>7, ElementOfSeq
  <1> QED BY <1>2, <1>5, <1>8

-----------------------------------------------------------------------------
(* Layout: the inductive invariant                                         *)

\* A message under way: its items so far are planned, from layouts that are there to stay.
FrameOk(frame, memo) ==
    /\ frame = [fqn |-> frame.fqn, plans |-> frame.plans]
    /\ frame.fqn \in Messages \ DOMAIN memo /\ IsSeq(frame.plans)
    /\ \A i \in DOMAIN frame.plans : PlanShape(frame.plans[i]) /\ HeldRight(frame.plans[i], memo)

\* The messages under way are different ones, and none of them is laid out yet.
StackOk(frames, memo) ==
    /\ IsSeq(frames)
    /\ \A i \in DOMAIN frames : FrameOk(frames[i], memo)
    /\ \A i, j \in DOMAIN frames : frames[i].fqn = frames[j].fqn => i = j

\* Every layout is right, also about the messages it holds by value.
MemoOk(memo) == \A m \in DOMAIN memo : LayoutOk(memo[m], memo)

LayoutInv ==
    /\ schema \in Schemas /\ walked \in Nat
    /\ StackOk(stack, m_memo) /\ MemoOk(m_memo)

\* A layout that is there stays right when others are added.
LEMMA HeldStays ==
    ASSUME NEW memo, NEW memo2, DOMAIN memo \subseteq DOMAIN memo2,
           \A m \in DOMAIN memo : memo2[m] = memo[m], NEW p, HeldRight(p, memo)
    PROVE  HeldRight(p, memo2)
  BY DEF HeldRight

\* A message is started: layout_for() of one that is neither laid out nor under way.
LEMMA StartedKeeps ==
    ASSUME NEW memo, NEW frames, StackOk(frames, memo), NEW m \in Messages, m \notin DOMAIN memo,
           \A i \in DOMAIN frames : frames[i].fqn # m,
           NEW new, new = Append(frames, [fqn |-> m, plans |-> <<>>])
    PROVE  StackOk(new, memo)
  <1>1. PICK e : e = [fqn |-> m, plans |-> <<>>]
    OBVIOUS
  <1>2. PICK X : X = ToSet(frames) \cup {e}
    OBVIOUS
  <1>3. PICK n : n = Len(frames)
    OBVIOUS
  <1>4. frames \in Seq(X) /\ n \in Nat /\ DOMAIN frames = 1 .. n
    <2>1. frames \in Seq(ToSet(frames)) /\ ToSet(frames) \subseteq X
      BY <1>2 DEF StackOk, IsSeq
    <2>2. frames \in Seq(X)
      BY <2>1
    <2> QED BY <1>3, <2>2, LenProperties
  <1>5. new \in Seq(X) /\ Len(new) = n + 1 /\ new[n + 1] = e /\ \A i \in 1 .. n : new[i] = frames[i]
    BY <1>1, <1>2, <1>3, <1>4, Appended
  <1>6. IsSeq(new) /\ DOMAIN new = 1 .. (n + 1)
    BY <1>5, SeqOfElements
  <1>7. FrameOk(e, memo)
    <2>1. e.fqn = m /\ e.plans = <<>> /\ e = [fqn |-> e.fqn, plans |-> e.plans]
      BY <1>1
    <2>2. IsSeq(<<>>) /\ DOMAIN <<>> = {}
      BY DEF IsSeq
    <2> QED BY <2>1, <2>2 DEF FrameOk
  <1>8. \A i \in 1 .. (n + 1) : i = n + 1 \/ i \in 1 .. n
    BY <1>4
  <1>9. \A i \in 1 .. (n + 1) : FrameOk(new[i], memo)
    BY <1>4, <1>5, <1>7, <1>8 DEF StackOk
  <1>10. \A i, j \in 1 .. (n + 1) : new[i].fqn = new[j].fqn => i = j
    <2>1. e.fqn = m
      BY <1>1
    <2> QED BY <1>4, <1>5, <1>8, <2>1 DEF StackOk
  <1> QED BY <1>6, <1>9, <1>10 DEF StackOk

\* The message on top of the stack.
LEMMA TopFacts ==
    ASSUME StackOk(stack, m_memo), stack # <<>>
    PROVE  /\ Len(stack) \in Nat \ {0} /\ DOMAIN stack = 1 .. Len(stack)
           /\ Top = stack[Len(stack)] /\ FrameOk(Top, m_memo)
           /\ Len(Top.plans) \in Nat /\ Top.fqn \in Messages
  <1>1. stack \in Seq(ToSet(stack))
    BY DEF StackOk, IsSeq
  <1>2. Len(stack) \in Nat \ {0} /\ DOMAIN stack = 1 .. Len(stack)
    <2>1. Len(stack) \in Nat /\ DOMAIN stack = 1 .. Len(stack)
      BY <1>1, LenProperties
    <2>2. Len(stack) # 0
      BY <1>1, EmptySeq
    <2> QED BY <2>1, <2>2
  <1>3. Top = stack[Len(stack)]
    BY DEF Top, Last
  <1>4. FrameOk(Top, m_memo)
    <2>1. Len(stack) \in DOMAIN stack
      BY <1>2
    <2> QED BY <1>3, <2>1 DEF StackOk
  <1>5. Len(Top.plans) \in Nat /\ Top.fqn \in Messages
    BY <1>4, SeqOfElements DEF FrameOk, IsSeq
  <1> QED BY <1>2, <1>3, <1>4, <1>5

\* The next item of the message on top.
LEMMA NextItemFacts ==
    ASSUME LayoutInv, HasItem
    PROVE  ItemOk(Item)
  <1>1. Len(Top.plans) \in Nat /\ Top.fqn \in Messages
    BY TopFacts DEF LayoutInv, HasItem
  <1>2. schema \in Schemas /\ Len(Top.plans) < Len(ItemsOf(Top.fqn))
    BY DEF LayoutInv, HasItem
  <1>3. PICK m \in Messages : m = Top.fqn
    BY <1>1
  <1>4. PICK k \in Nat : k = Len(Top.plans)
    BY <1>1
  <1>5. ItemOk(ItemsOf(m)[k + 1])
    BY <1>2, <1>3, <1>4, ItemFacts
  <1> QED BY <1>3, <1>4, <1>5 DEF Item

\* Initially nothing is under way or laid out.
LEMMA LayoutInitEstablishes == LayoutInit => LayoutInv
  <1> SUFFICES ASSUME LayoutInit PROVE LayoutInv
    OBVIOUS
  <1>1. schema \in Schemas /\ walked = 0 /\ stack = <<>> /\ m_memo = <<>>
    BY DEF LayoutInit
  <1>2. DOMAIN m_memo = {} /\ DOMAIN stack = {} /\ IsSeq(stack)
    BY <1>1 DEF IsSeq
  <1> QED BY <1>1, <1>2 DEF LayoutInv, StackOk, MemoOk

\* plan_layouts keeps the invariant.
LEMMA NextMessageKeeps == LayoutInv /\ NextMessage => LayoutInv'
  <1> SUFFICES ASSUME LayoutInv, NextMessage PROVE LayoutInv'
    OBVIOUS
  <1>1. /\ schema \in Schemas /\ walked \in Nat /\ StackOk(stack, m_memo) /\ MemoOk(m_memo)
        /\ stack = <<>> /\ walked < Len(schema.order) /\ walked' = walked + 1
        /\ schema' = schema /\ m_memo' = m_memo
    BY DEF LayoutInv, NextMessage
  <1>2. PICK m : m = schema.order[walked + 1]
    OBVIOUS
  <1>3. m \in Messages
    <2>1. schema.order \in Seq(Messages)
      BY <1>1, LayoutAssumption
    <2>2. PICK s \in Seq(Messages) : s = schema.order
      BY <2>1
    <2>3. Len(s) \in Nat
      BY LenProperties
    <2>4. walked + 1 \in 1 .. Len(s)
      BY <1>1, <2>2, <2>3
    <2> QED BY <1>2, <2>2, <2>4, ElementOfSeq
  <1>4. stack' = IF Planned(m) THEN stack ELSE Append(stack, [fqn |-> m, plans |-> <<>>])
    BY <1>2 DEF NextMessage, Started
  <1>5. StackOk(stack', m_memo)
    <2>1. CASE Planned(m)
      BY <1>1, <1>4, <2>1
    <2>2. CASE ~Planned(m)
      <3>1. m \notin DOMAIN m_memo /\ DOMAIN stack = {}
        BY <1>1, <2>2 DEF Planned
      <3> QED BY <1>1, <1>3, <1>4, <2>2, <3>1, StartedKeeps
    <2> QED BY <2>1, <2>2
  <1> QED BY <1>1, <1>5 DEF LayoutInv

\* Descending into a sub-message keeps the invariant.
LEMMA DescendKeeps == LayoutInv /\ Descend => LayoutInv'
  <1> SUFFICES ASSUME LayoutInv, Descend PROVE LayoutInv'
    OBVIOUS
  <1>1. /\ schema \in Schemas /\ walked \in Nat /\ StackOk(stack, m_memo) /\ MemoOk(m_memo)
        /\ walked' = walked /\ schema' = schema /\ m_memo' = m_memo
    BY DEF LayoutInv, Descend
  <1>2. PICK m : m = Item.type
    OBVIOUS
  <1>3. m \in Messages /\ m \notin DOMAIN m_memo /\ m \notin m_visiting
    BY <1>2 DEF Descend, Asks, MayInspect
  <1>4. stack' = Append(stack, [fqn |-> m, plans |-> <<>>])
    BY <1>2 DEF Descend, Started
  <1>5. \A i \in DOMAIN stack : stack[i].fqn # m
    BY <1>3 DEF m_visiting
  <1>6. StackOk(stack', m_memo)
    BY <1>1, <1>3, <1>4, <1>5, StartedKeeps
  <1> QED BY <1>1, <1>6 DEF LayoutInv

\* Planning an item keeps the invariant.
LEMMA ClassifyKeeps == LayoutInv /\ Classify => LayoutInv'
  <1> SUFFICES ASSUME LayoutInv, Classify PROVE LayoutInv'
    OBVIOUS
  <1>1. /\ schema \in Schemas /\ walked \in Nat /\ StackOk(stack, m_memo) /\ MemoOk(m_memo)
        /\ walked' = walked /\ schema' = schema /\ m_memo' = m_memo /\ HasItem /\ stack # <<>>
    BY DEF LayoutInv, Classify, HasItem
  <1>2. PICK n : n = Len(stack)
    OBVIOUS
  <1>3. /\ n \in Nat \ {0} /\ DOMAIN stack = 1 .. n /\ Top = stack[n] /\ FrameOk(Top, m_memo)
    BY <1>1, <1>2, TopFacts
  <1>4. PICK p : p = Plan(Item)
    OBVIOUS
  <1>5. PlanShape(p) /\ HeldRight(p, m_memo)
    <2>1. ItemOk(Item)
      BY <1>1, NextItemFacts
    <2>2. \A m \in DOMAIN m_memo : Sized(m_memo[m])
      BY <1>1 DEF MemoOk, LayoutOk
    <2>3. Asks(Item) => ~MayInspect(Item.type) \/ Item.type \in DOMAIN m_memo
      BY DEF Classify
    <2>4. PICK f : f = Item
      OBVIOUS
    <2> QED BY <1>4, <2>1, <2>2, <2>3, <2>4, PlanFacts
  <1>6. PICK ps : ps = Append(Top.plans, p)
    OBVIOUS
  <1>7. IsSeq(ps) /\ \A i \in DOMAIN ps : PlanShape(ps[i]) /\ HeldRight(ps[i], m_memo)
    <2>1. PICK old : old = Top.plans
      OBVIOUS
    <2>2. PICK X : X = ToSet(old) \cup {p}
      OBVIOUS
    <2>3. PICK k : k = Len(old)
      OBVIOUS
    <2>4. IsSeq(old) /\ \A i \in DOMAIN old : PlanShape(old[i]) /\ HeldRight(old[i], m_memo)
      BY <1>3, <2>1 DEF FrameOk
    <2>5. old \in Seq(X)
      <3>1. old \in Seq(ToSet(old)) /\ ToSet(old) \subseteq X
        BY <2>2, <2>4 DEF IsSeq
      <3> QED BY <3>1
    <2>6. k \in Nat /\ DOMAIN old = 1 .. k
      BY <2>3, <2>5, LenProperties
    <2>7. ps \in Seq(X) /\ Len(ps) = k + 1 /\ ps[k + 1] = p /\ \A i \in 1 .. k : ps[i] = old[i]
      BY <1>6, <2>1, <2>2, <2>3, <2>5, Appended
    <2>8. IsSeq(ps) /\ DOMAIN ps = 1 .. (k + 1)
      BY <2>7, SeqOfElements
    <2>9. \A i \in 1 .. (k + 1) : i = k + 1 \/ i \in 1 .. k
      BY <2>6
    <2> QED BY <1>5, <2>4, <2>6, <2>7, <2>8, <2>9
  <1>8. PICK e : e = [fqn |-> Top.fqn, plans |-> ps]
    OBVIOUS
  <1>9. FrameOk(e, m_memo) /\ e.fqn = Top.fqn
    <2>1. e.fqn = Top.fqn /\ e.plans = ps /\ e = [fqn |-> e.fqn, plans |-> e.plans]
      BY <1>8
    <2> QED BY <1>3, <1>7, <2>1 DEF FrameOk
  <1>10. stack' = [stack EXCEPT ![n] = e]
    <2>1. stack' = [stack EXCEPT ![n] = [stack[n] EXCEPT !.plans = ps]]
      BY <1>2, <1>3, <1>4, <1>6 DEF Classify
    <2>2. Top = [fqn |-> Top.fqn, plans |-> Top.plans]
      BY <1>3 DEF FrameOk
    <2>3. [stack[n] EXCEPT !.plans = ps] = e
      BY <1>3, <1>8, <2>2
    <2> QED BY <2>1, <2>3
  <1>11. DOMAIN stack' = 1 .. n /\ stack'[n] = e /\ \A i \in 1 .. n : i # n => stack'[i] = stack[i]
    BY <1>3, <1>10
  <1>12. IsSeq(stack')
    <2>1. stack \in [1 .. n -> ToSet(stack)]
      BY <1>1, <1>2, LenProperties DEF StackOk, IsSeq
    <2>2. PICK X : X = ToSet(stack) \cup {e}
      OBVIOUS
    <2>3. stack' \in [1 .. n -> X]
      BY <1>10, <2>1, <2>2
    <2>4. stack' \in Seq(X)
      BY <1>3, <2>3, SeqDef
    <2> QED BY <2>4, SeqOfElements
  <1>13. \A i \in 1 .. n : FrameOk(stack'[i], m_memo) /\ stack'[i].fqn = stack[i].fqn
    BY <1>1, <1>3, <1>9, <1>11 DEF StackOk
  <1>14. StackOk(stack', m_memo)
    BY <1>1, <1>3, <1>11, <1>12, <1>13 DEF StackOk
  <1> QED BY <1>1, <1>14 DEF LayoutInv

\* compute() returning keeps the invariant.
LEMMA CompleteKeeps == LayoutInv /\ Complete => LayoutInv'
  <1> SUFFICES ASSUME LayoutInv, Complete PROVE LayoutInv'
    OBVIOUS
  <1>1. /\ schema \in Schemas /\ walked \in Nat /\ StackOk(stack, m_memo) /\ MemoOk(m_memo)
        /\ walked' = walked /\ schema' = schema /\ stack # <<>> /\ stack' = Front(stack)
    BY DEF LayoutInv, Complete
  <1>2. PICK n : n = Len(stack)
    OBVIOUS
  <1>3. n \in Nat \ {0} /\ DOMAIN stack = 1 .. n /\ Top = stack[n] /\ FrameOk(Top, m_memo)
    BY <1>1, <1>2, TopFacts
  <1>4. PICK t : t = Top.fqn
    OBVIOUS
  <1>5. PICK keeps : keeps = (t \in schema.unknown)
    OBVIOUS
  <1>6. PICK l : l = LayoutOf(Top.plans, schema.oneofs[t], keeps)
    OBVIOUS
  <1>7. LayoutOk(l, m_memo)
    <2>1. IsSeq(Top.plans) /\ \A i \in DOMAIN Top.plans : PlanShape(Top.plans[i]) /\ HeldRight(Top.plans[i], m_memo)
      BY <1>3 DEF FrameOk
    <2>2. keeps \in BOOLEAN
      BY <1>5
    <2>3. schema.oneofs[t] \in Nat
      <3>1. t \in Messages
        BY <1>3, <1>4 DEF FrameOk
      <3>2. schema.oneofs \in [Messages -> Nat]
        BY <1>1, LayoutAssumption
      <3> QED BY <3>1, <3>2
    <2> QED BY <1>6, <2>1, <2>2, <2>3, LaidOutOk
  <1>8. t \notin DOMAIN m_memo
    BY <1>3, <1>4 DEF FrameOk
  <1>9. PICK memo : memo = m_memo'
    OBVIOUS
  <1>10. /\ DOMAIN memo = DOMAIN m_memo \cup {t} /\ memo[t] = l
         /\ \A m \in DOMAIN m_memo : memo[m] = m_memo[m]
    <2>1. memo = [m \in DOMAIN m_memo \cup {t} |->
                     IF m = t THEN LayoutOf(Top.plans, schema.oneofs[m], m \in schema.unknown)
                     ELSE m_memo[m]]
      BY <1>4, <1>9 DEF Complete
    <2> QED BY <1>5, <1>6, <1>8, <2>1
  <1>11. ASSUME NEW p, HeldRight(p, m_memo) PROVE HeldRight(p, memo)
    BY <1>10, <1>11, HeldStays
  <1>12. MemoOk(memo)
    <2>1. ASSUME NEW k, LayoutOk(k, m_memo) PROVE LayoutOk(k, memo)
      BY <1>11, <2>1 DEF LayoutOk
    <2> QED BY <1>1, <1>7, <1>10, <2>1 DEF MemoOk
  <1>13. PICK front : front = Front(stack)
    OBVIOUS
  <1>14. /\ IsSeq(front) /\ DOMAIN front = 1 .. (n - 1)
         /\ \A i \in 1 .. (n - 1) : front[i] = stack[i] /\ i \in 1 .. n /\ i # n
    <2>1. stack \in Seq(ToSet(stack))
      BY <1>1 DEF StackOk, IsSeq
    <2>2. front \in Seq(ToSet(stack)) /\ Len(front) = n - 1 /\ \A i \in 1 .. (n - 1) : front[i] = stack[i]
      BY <1>1, <1>2, <1>13, <2>1, FrontFacts
    <2>3. IsSeq(front) /\ DOMAIN front = 1 .. (n - 1)
      BY <2>2, SeqOfElements
    <2>4. \A i \in 1 .. (n - 1) : i \in 1 .. n /\ i # n
      BY <1>3
    <2> QED BY <2>2, <2>3, <2>4
  <1>15. \A i \in 1 .. (n - 1) : stack[i].fqn # t
    <2>1. n \in 1 .. n
      BY <1>3
    <2> QED BY <1>1, <1>3, <1>4, <1>14, <2>1 DEF StackOk
  <1>16. \A i \in 1 .. (n - 1) : FrameOk(front[i], memo)
    <2>1. ASSUME NEW i \in 1 .. (n - 1) PROVE FrameOk(front[i], memo)
      <3>1. FrameOk(stack[i], m_memo) /\ stack[i].fqn # t /\ front[i] = stack[i]
        BY <1>1, <1>3, <1>14, <1>15 DEF StackOk
      <3>2. stack[i].fqn \notin DOMAIN memo
        BY <1>10, <3>1 DEF FrameOk
      <3> QED BY <1>11, <3>1, <3>2 DEF FrameOk
    <2> QED BY <2>1
  <1>17. StackOk(front, memo)
    <2>1. \A i, j \in 1 .. (n - 1) : front[i].fqn = front[j].fqn => i = j
      BY <1>1, <1>3, <1>14 DEF StackOk
    <2> QED BY <1>14, <1>16, <2>1 DEF StackOk
  <1> QED BY <1>1, <1>9, <1>12, <1>13, <1>17 DEF LayoutInv

\* The invariant holds in every reachable state of the planner.
THEOREM LayoutInvariance == LayoutSpec => []LayoutInv
  <1>1. LayoutInv /\ [LayoutNext]_layout_vars => LayoutInv'
    <2> SUFFICES ASSUME LayoutInv, [LayoutNext]_layout_vars PROVE LayoutInv'
      OBVIOUS
    <2>1. CASE UNCHANGED layout_vars
      BY <2>1 DEF layout_vars, LayoutInv
    <2> QED
      BY <2>1, NextMessageKeeps, DescendKeeps, ClassifyKeeps, CompleteKeeps DEF LayoutNext
  <1> QED
    BY <1>1, LayoutInitEstablishes, PTL DEF LayoutSpec

\* Every member of every message has memory of its own, whatever the messages refer to and in
\* whatever order they are planned: slots, unions, masks and map entries are aligned, inside
\* their struct and apart, no two flags share a bit, and a message held by value takes exactly
\* the place its own layout has.
THEOREM LayoutKeepsMembersApart == LayoutSpec => []MembersApart
  <1>1. LayoutInv => MembersApart
    <2> SUFFICES ASSUME LayoutInv PROVE MembersApart
      OBVIOUS
    <2>1. \A m \in DOMAIN m_memo : LayoutOk(m_memo[m], m_memo)
      BY DEF LayoutInv, MemoOk
    <2>2. SlotsApart
      BY <2>1 DEF SlotsApart, LaidOut, LayoutOk
    <2>3. BitsApart
      BY <2>1 DEF BitsApart, LaidOut, LayoutOk
    <2>4. InlinedAsLaidOut
      <3> SUFFICES ASSUME NEW m \in DOMAIN m_memo, NEW p \in ByValue(m)
                   PROVE  /\ p.target \in DOMAIN m_memo
                          /\ LET t == m_memo[p.target]
                                 s == IF p.kind = "inline" THEN p
                                      ELSE CHOOSE s \in p.entry.placed : s.id = "value"
                             IN  /\ t.fixed /\ t.size <= inline_submsg_cutoff
                                 /\ s.size = t.size /\ s.align = t.align
        BY DEF InlinedAsLaidOut, LaidOut
      <3>1. (p.kind = "inline" \/ p.value = "inline") /\ HeldRight(p, m_memo)
        BY <2>1 DEF ByValue, LayoutOk
      <3> QED BY <3>1 DEF HeldRight, HeldAs
    <2> QED BY <2>2, <2>3, <2>4 DEF MembersApart
  <1> QED
    BY <1>1, LayoutInvariance, PTL

=============================================================================
