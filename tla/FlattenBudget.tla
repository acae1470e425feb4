---------------------------- MODULE FlattenBudget ----------------------------
(***************************************************************************)
(* The flatten budget of src/arenagen/layout.cpp: every decoder inlines    *)
(* the decoders of its sub-messages, transitively; the pass marks          *)
(* (noinline_decode) the messages where that must stop, so that no         *)
(* expansion goes round a cycle and none exceeds the budget.               *)
(*                                                                         *)
(* The iterative post-order walk of apply_flatten_budget is one action per *)
(* popped stack entry.  Messages are their indices into layouts.layouts.   *)
(***************************************************************************)
EXTENDS Integers, Sequences, FiniteSets, SequencesExt, SeqSelect

CONSTANTS
    NumMessages,
    FlattenInputs,  \* candidate inputs: [members: message -> sequence, budget]
    SizeMax         \* the largest value of std::size_t

VARIABLES
    input,
    root,           \* the root the walk is at
    walk,           \* entries <<index, settled>>
    seen,           \* message -> "unvisited", "in_progress", "done"
    flatten_cost,
    noinline_decode

flatten_vars == <<input, root, walk, seen, flatten_cost, noinline_decode>>

Indices == 1 .. NumMessages

\* The members that decode through another message's decoder; a raw payload does not.
InliningKinds == {"inline", "pointer", "repeated", "map", "oneof"}

\* A scalar member holds no message; what the others hold may be a message or an enum.
ASSUME FlattenAssumption ==
    /\ NumMessages \in Nat /\ SizeMax \in Nat
    /\ \A i \in FlattenInputs :
         /\ DOMAIN i.members = Indices /\ i.budget \in 0 .. SizeMax
         /\ \A m \in Indices :
              /\ i.members[m] \in Seq(ToSet(i.members[m])) /\ Len(i.members[m]) <= SizeMax
              /\ \A f \in ToSet(i.members[m]) :
                   /\ f.kind \in InliningKinds \cup {"scalar", "raw"}
                   /\ f.kind = "scalar" => f.target \notin Indices

-----------------------------------------------------------------------------
\* A decode arm for every member, the members of oneofs included.
own_arms(m) == Len(input.members[m])

\* The messages m would inline, once for every occurrence.  The target may also be an enum,
\* which is no layout.
inlined_targets(m) ==
    LET members == input.members[m]
        in == Select(members, {f \in ToSet(members) : f.kind \in InliningKinds /\ f.target \in Indices})
    IN  [i \in DOMAIN in |-> in[i].target]

add_cost(cost, more) == IF cost > SizeMax - more THEN SizeMax ELSE cost + more

\* The targets that are still inlined.
StillInlined(m) ==
    Select(inlined_targets(m), {t \in ToSet(inlined_targets(m)) : ~noinline_decode[t]})

\* The costs of q added to `arms`, as settle adds them up.
Accumulated(arms, q) ==
    LET c[i \in 0 .. Len(q)] == IF i = 0 THEN arms ELSE add_cost(c[i - 1], q[i])
    IN  c[Len(q)]

CostsInlined(m) == [i \in DOMAIN StillInlined(m) |-> flatten_cost[StillInlined(m)[i]]]

\* The cost of m: its arms and the closure of everything it still inlines.
Cost(m) == Accumulated(own_arms(m), CostsInlined(m))

OverBudget(m) == Cost(m) > input.budget /\ StillInlined(m) # <<>>

Popped == Front(walk)

\* A settled entry: everything m inlines has been settled.
settle ==
    /\ walk # <<>> /\ Last(walk)[2]
    /\ LET m == Last(walk)[1]
       IN  /\ flatten_cost' = [flatten_cost EXCEPT ![m] = Cost(m)]
           /\ noinline_decode' = [noinline_decode EXCEPT ![m] = @ \/ OverBudget(m)]
           /\ seen' = [seen EXCEPT ![m] = "done"]
    /\ walk' = Popped
    /\ UNCHANGED <<input, root>>

\* Mutant: any target seen before is taken for an ancestor.
BreaksSeen(s, m, t) == s[t] # "unvisited"

\* Target t of m is an ancestor on the current path (m itself included).
Breaks(s, m, t) == s[t] = "in_progress"

Fresh(m) == seen[m] = "unvisited"

\* An entry not expanded yet: queue its unvisited targets, mark the ones it closes a cycle with.
expand ==
    /\ walk # <<>> /\ ~Last(walk)[2] /\ Fresh(Last(walk)[1])
    /\ LET m == Last(walk)[1]
           s == [seen EXCEPT ![m] = "in_progress"]
           t == inlined_targets(m)
           queued == Select(t, {x \in ToSet(t) : s[x] = "unvisited"})
       IN  /\ seen' = s
           /\ noinline_decode' = [x \in Indices |->
                 noinline_decode[x] \/ (\E i \in DOMAIN t : t[i] = x /\ Breaks(s, m, x))]
           /\ walk' = Append(Popped, <<m, TRUE>>) \o [i \in DOMAIN queued |-> <<queued[i], FALSE>>]
    /\ UNCHANGED <<input, root, flatten_cost>>

\* An entry that another path has settled meanwhile.
Skip ==
    /\ walk # <<>> /\ ~Last(walk)[2] /\ ~Fresh(Last(walk)[1])
    /\ walk' = Popped
    /\ UNCHANGED <<input, root, seen, flatten_cost, noinline_decode>>

IsRoot(m) == Fresh(m)

\* The next root; budget 0 disables the pass.
NextRoot ==
    /\ walk = <<>> /\ root < NumMessages /\ input.budget # 0
    /\ root' = root + 1
    /\ walk' = IF IsRoot(root') THEN << <<root', FALSE>> >> ELSE <<>>
    /\ UNCHANGED <<input, seen, flatten_cost, noinline_decode>>

FlattenInit ==
    /\ input \in FlattenInputs
    /\ root = 0 /\ walk = <<>>
    /\ seen = [m \in Indices |-> "unvisited"]
    /\ flatten_cost = [m \in Indices |-> 0]
    /\ noinline_decode = [m \in Indices |-> FALSE]

FlattenNext == NextRoot \/ expand \/ Skip \/ settle

FlattenSpec == FlattenInit /\ [][FlattenNext]_flatten_vars /\ WF_flatten_vars(FlattenNext)

FlattenDone == walk = <<>> /\ (root = NumMessages \/ input.budget = 0)

-----------------------------------------------------------------------------
(* Properties                                                              *)

\* Every member that holds a message and is not a raw payload makes the decoder of m call,
\* or absorb, the decoder of that message.
DecodesThrough(m) ==
    {t \in Indices : \E i \in DOMAIN input.members[m] :
        input.members[m][i].target = t /\ input.members[m][i].kind # "raw"}

\* What the compiler would expand: the bodies that are not behind a marked call.
Expands(m) == {t \in DecodesThrough(m) : ~noinline_decode[t]}

\* When the pass is over no expansion goes round a cycle: some message of any set of
\* messages expands nothing of the set.
CyclesBroken ==
    (FlattenDone /\ input.budget # 0) =>
        \A S \in SUBSET Indices : S # {} => \E m \in S : Expands(m) \cap S = {}

\* The sum without a limit, and what a std::size_t holds of it at most.
Sum(arms, q) ==
    LET sum[i \in 0 .. Len(q)] == IF i = 0 THEN arms ELSE sum[i - 1] + q[i]
    IN  sum[Len(q)]
Saturated(n) == IF n > SizeMax THEN SizeMax ELSE n

\* No cost is stale: when the pass is over, the cost of every message is what the final
\* marks and the final costs of its targets make it, although messages are settled one by
\* one and marked by their descendants; the sum saturates instead of wrapping.
CostsAreFinal ==
    (FlattenDone /\ input.budget # 0) => \A m \in Indices :
        flatten_cost[m] = Saturated(Sum(Len(input.members[m]), CostsInlined(m)))

\* m is reached from the messages it decodes through: it is in every set that has these and
\* is closed under decoding through.
OnCycle(m) ==
    \A C \in SUBSET Indices :
        DecodesThrough(m) \subseteq C /\ (\A x \in C : DecodesThrough(x) \subseteq C) => m \in C

\* A call is paid for only where it bounds something: a marked message is on a cycle, or is
\* over the budget and would have expanded another message.
MarksAreEarned ==
    FlattenDone => \A m \in Indices : noinline_decode[m] =>
        OnCycle(m) \/ (flatten_cost[m] > input.budget /\ Expands(m) # {})

\* What is left unmarked is within the budget, unless it expands nothing at all.
BudgetKept ==
    (FlattenDone /\ input.budget # 0) => \A m \in Indices :
        ~noinline_decode[m] => flatten_cost[m] <= input.budget \/ Expands(m) = {}

\* The marks are right: no expansion goes round a cycle, no cost they were decided by is stale,
\* nothing unmarked is over the budget, and nothing is marked without need.
BudgetHonoured == CyclesBroken /\ CostsAreFinal /\ MarksAreEarned /\ BudgetKept

\* The walk ends and settles every message.
EverySettled == <>(FlattenDone /\ (input.budget # 0 => \A m \in Indices : seen[m] = "done"))
=============================================================================
