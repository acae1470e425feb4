----------------------------- MODULE ArenaReuse -----------------------------
(***************************************************************************)
(* One arena serving many decodes, as docs/arena.md and docs/osm-pbf.md    *)
(* tell their readers to use it: reset(), decode, reset(), decode, ...     *)
(* A decode is the list of requests its generated code makes; each request *)
(* is an allocation and the size it is trimmed to afterwards (shrink_last, *)
(* for packed varints).  The host never fails here and places chunks at    *)
(* the lowest free address; that it is asked at all is the question.       *)
(***************************************************************************)
EXTENDS Arena

CONSTANTS
    Decodes,        \* the workloads: sequences of [bytes, align, keep]
    MallocBudget    \* how many chunks the arena may ever hold

ASSUME ReuseAssumption ==
    \A d \in Decodes : \A i \in DOMAIN d : 1 <= d[i].keep /\ d[i].keep <= d[i].bytes

VARIABLES
    decode,         \* the workload being decoded
    step,           \* the requests made so far
    untrimmed,      \* the last request is still to be trimmed
    previous        \* the workload decoded before this one, <<>> at first

reuse_vars == <<arena_vars, decode, step, untrimmed, previous>>

ReuseInit ==
    /\ ArenaInit
    /\ decode \in Decodes
    /\ step = 0 /\ untrimmed = FALSE
    /\ previous = <<>>

\* The host's choice: the lowest free address.
LowestBase == \A i \in DOMAIN chunks' :
    (\A j \in DOMAIN chunks : chunks[j] # chunks'[i]) =>
        \A b \in HostBases(chunks'[i].limit - chunks'[i].base) : chunks'[i].base <= b

\* The next request of the decode.
Request ==
    /\ ~untrimmed /\ step < Len(decode)
    /\ LET r == decode[step + 1]
       IN  /\ AllocSucceeds(r.bytes, r.align, r.bytes)
           /\ LowestBase
           /\ untrimmed' = (r.keep < r.bytes)
    /\ step' = step + 1
    /\ UNCHANGED <<decode, previous>>

\* The trim after a packed fill: the array is the last block allocated.
Trim ==
    /\ untrimmed
    /\ \E b \in live : b.ptr + b.size = m_cur /\ ShrinkLast(b, b.size, decode[step].keep)
    /\ untrimmed' = FALSE
    /\ UNCHANGED <<decode, step, previous>>

\* The application is done with the tree and decodes the next buffer.
NextDecode ==
    /\ ~untrimmed /\ step = Len(decode)
    /\ Reset
    /\ decode' \in Decodes
    /\ previous' = decode
    /\ step' = 0
    /\ UNCHANGED untrimmed

ReuseNext == Request \/ Trim \/ NextDecode

ReuseSpec == ReuseInit /\ [][ReuseNext]_reuse_vars

-----------------------------------------------------------------------------
\* Decoding the same workload again right after a reset() asks the host for
\* nothing: the chunks the first pass moved through are found again in order.
ReplayNeverGrows == [][decode = previous => chunks' = chunks]_reuse_vars

\* "no malloc after warm-up": whatever the order of the workloads, the number of
\* times the arena ever goes to the host stays within a fixed budget, which no
\* bound of the model enforces (the host has room for twice as many chunks).
WarmUpBounded == Len(chunks) <= MallocBudget

=============================================================================
