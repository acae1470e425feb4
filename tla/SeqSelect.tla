----------------------------- MODULE SeqSelect -----------------------------
(***************************************************************************)
(* The loops that keep some elements of a vector, as a function of the     *)
(* vector: a conditional push_back per element.                            *)
(***************************************************************************)
EXTENDS Integers, Sequences

\* The elements of s that are in S, in their order.
Select(s, S) ==
    LET r[i \in 0 .. Len(s)] ==
            IF i = 0 THEN <<>>
            ELSE IF s[i] \in S THEN Append(r[i - 1], s[i]) ELSE r[i - 1]
    IN  r[Len(s)]
=============================================================================
