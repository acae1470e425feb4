----------------------------- MODULE Combinators -----------------------------
(***************************************************************************)
(* The parser combinators of include/rapidproto/combinators.hpp, which the *)
(* lexer runs over characters and the parser over tokens.                  *)
(*                                                                         *)
(* A grammar is data: an expression is a record, nt(name) stands for the   *)
(* expression G[name] (the functions through which the C++ grammar         *)
(* recurses). Run interprets an expression the way the combinators do:     *)
(* alternatives in order, the first that matches wins, and `cut` turns a   *)
(* failure into one that no alternative, option or repetition may swallow. *)
(*                                                                         *)
(* A result is [ok, at, val], `at` being what is left of the input, or     *)
(* [ok, off, fatal, why], `off` being RELATIVE to where the expression     *)
(* started: whoever runs a part further on has to lift it. The value of    *)
(* one(_) is the position of the element, that of map(f, _) is a node f.   *)
(***************************************************************************)
EXTENDS Integers, Sequences, FiniteSets, SequencesExt

one(K) == [op |-> "one", kinds |-> K]
seq(ps) == [op |-> "seq", ps |-> ps]
alt(ps) == [op |-> "alt", ps |-> ps]
cut(p) == [op |-> "cut", p |-> p]
opt(p) == [op |-> "opt", p |-> p]
many(p) == [op |-> "many", p |-> p]
map(f, p) == [op |-> "map", f |-> f, p |-> p]
recognize(p) == [op |-> "recognize", p |-> p]
take_while(K) == [op |-> "take_while", kinds |-> K, least |-> 0]
take_while1(K) == [op |-> "take_while", kinds |-> K, least |-> 1]
tag(text) == [op |-> "tag", text |-> text]
take_until(needle) == [op |-> "take_until", needle |-> needle]
preceded(pre, p) == [op |-> "pick", n |-> 2, p |-> seq(<<pre, p>>)]
delimited(pre, p, suf) == [op |-> "pick", n |-> 2, p |-> seq(<<pre, p, suf>>)]
separated_list(item, sep) == [op |-> "list", item |-> item, sep |-> sep]
nt(name) == [op |-> "nt", name |-> name]

(* Three more that only the grammar of the parser needs.                    *)
deeper(max, p) == [op |-> "deeper", max |-> max, p |-> p]       \* under a DepthGuard
refuse(K, p) == [op |-> "refuse", kinds |-> K, p |-> p]         \* a committed error on K
balanced(open, close) == [op |-> "balanced", open |-> open, close |-> close]

Ok(at, val) == [ok |-> TRUE, at |-> at, val |-> val]
Err(off, why) == [ok |-> FALSE, off |-> off, fatal |-> FALSE, why |-> why]
Fatal(e) == [e EXCEPT !.fatal = TRUE]
\* Mutant: the error keeps the offset its own part gave it.
LiftNot(e, base) == e

\* A part that started `base` elements further on reports its error from there.
Lift(e, base) == [e EXCEPT !.off = @ + base]

RECURSIVE Run(_, _, _, _, _)

RECURSIVE alt_run(_, _, _, _, _)
alt_run(G, ps, in, i, d) ==
    LET r == Run(G, Head(ps), in, i, d)
        rest == alt_run(G, Tail(ps), in, i, d)
    IN  IF r.ok \/ r.fatal \/ Len(ps) = 1 THEN r
        ELSE IF rest.ok \/ rest.fatal THEN rest
        ELSE IF r.off >= rest.off THEN r ELSE rest

RECURSIVE seq_run(_, _, _, _, _, _, _)
seq_run(G, ps, in, i, base, acc, d) ==
    LET r == Run(G, Head(ps), in, i, d)
    IN  IF ~r.ok THEN Lift(r, base)
        ELSE IF Len(ps) = 1 THEN Ok(r.at, Append(acc, r.val))
        ELSE seq_run(G, Tail(ps), in, r.at, base + (r.at - i), Append(acc, r.val), d)

\* An iteration that consumes nothing would never end: it is an error of the grammar.
RECURSIVE many_run(_, _, _, _, _, _, _)
many_run(G, p, in, rest, base, out, d) ==
    LET r == Run(G, p, in, rest, d)
    IN  IF ~r.ok THEN IF r.fatal THEN Lift(r, base) ELSE Ok(rest, out)
        ELSE IF r.at = rest THEN Err(base, "no progress")
        ELSE many_run(G, p, in, r.at, base + (r.at - rest), Append(out, r.val), d)

\* After a separator that consumed something there has to be an item.
RECURSIVE list_run(_, _, _, _, _, _, _)
list_run(G, p, in, rest, base, out, d) ==
    LET s == Run(G, p.sep, in, rest, d)
        r == Run(G, p.item, in, s.at, d)
    IN  IF ~s.ok THEN IF s.fatal THEN Lift(s, base) ELSE Ok(rest, out)
        ELSE IF ~r.ok THEN IF ~r.fatal /\ s.at = rest THEN Ok(rest, out)
                           ELSE Lift(r, base + (s.at - rest))
        ELSE IF r.at = rest THEN Ok(rest, out)
        ELSE list_run(G, p, in, r.at, base + (r.at - rest), Append(out, r.val), d)

separated_list_run(G, p, in, i, d) ==
    LET r == Run(G, p.item, in, i, d)
    IN  IF r.ok THEN list_run(G, p, in, r.at, r.at - i, <<r.val>>, d)
        ELSE IF r.fatal THEN r ELSE Ok(i, <<>>)

\* The end of the longest stretch of elements of K from i.
WhileEnd(K, in, i) ==
    CHOOSE j \in i .. (Len(in) + 1) :
        /\ \A l \in i .. (j - 1) : in[l] \in K
        /\ j = Len(in) + 1 \/ in[j] \notin K

take_while_run(p, in, i) ==
    LET j == WhileEnd(p.kinds, in, i)
    IN  IF j - i < p.least THEN Err(0, "input") ELSE Ok(j, <<i, j>>)

Begins(in, i, s) == i + Len(s) - 1 <= Len(in) /\ SubSeq(in, i, i + Len(s) - 1) = s

tag_run(p, in, i) ==
    LET j == i + Len(p.text) IN IF Begins(in, i, p.text) THEN Ok(j, <<i, j>>) ELSE Err(0, "input")

take_until_run(p, in, i) ==
    LET found == {j \in i .. Len(in) : Begins(in, j, p.needle)}
        first == CHOOSE j \in found : \A l \in found : j <= l
    IN  IF found = {} THEN Err(Len(in) + 1 - i, "unterminated") ELSE Ok(first, <<i, first>>)

\* balanced_braces of the parser: up to the brace that closes the first one.
balanced_run(p, in, i) ==
    LET count(e, j) == Cardinality({l \in i .. j : in[l] = e})
        closes == {j \in i .. Len(in) : in[j] = p.close /\ count(p.close, j) = count(p.open, j)}
        first == CHOOSE j \in closes : \A l \in closes : j <= l
    IN  IF i > Len(in) \/ in[i] # p.open THEN Err(0, "input")
        ELSE IF closes = {} THEN Err(Len(in) + 1 - i, "unterminated")
        ELSE Ok(first + 1, <<i, first>>)

Run(G, p, in, i, d) ==
    LET r == Run(G, p.p, in, i, d)              \* where there is one part
    IN  CASE p.op = "one" ->
                IF i <= Len(in) /\ in[i] \in p.kinds THEN Ok(i + 1, i) ELSE Err(0, "input")
          [] p.op = "seq" -> seq_run(G, p.ps, in, i, 0, <<>>, d)
          [] p.op = "alt" -> alt_run(G, p.ps, in, i, d)
          [] p.op = "cut" -> IF r.ok THEN r ELSE Fatal(r)
          [] p.op = "opt" -> IF r.ok THEN Ok(r.at, <<r.val>>) ELSE IF r.fatal THEN r ELSE Ok(i, <<>>)
          [] p.op = "many" -> many_run(G, p.p, in, i, 0, <<>>, d)
          [] p.op = "map" -> IF r.ok THEN Ok(r.at, [node |-> p.f, from |-> i, kid |-> r.val]) ELSE r
          [] p.op = "recognize" -> IF r.ok THEN Ok(r.at, <<i, r.at>>) ELSE r
          [] p.op = "pick" -> IF r.ok THEN Ok(r.at, r.val[p.n]) ELSE r
          [] p.op = "list" -> separated_list_run(G, p, in, i, d)
          [] p.op = "take_while" -> take_while_run(p, in, i)
          [] p.op = "tag" -> tag_run(p, in, i)
          [] p.op = "take_until" -> take_until_run(p, in, i)
          [] p.op = "balanced" -> balanced_run(p, in, i)
          [] p.op = "refuse" ->
                IF i <= Len(in) /\ in[i] \in p.kinds THEN Fatal(Err(0, "refused")) ELSE r
          [] p.op = "deeper" ->
                IF d + 1 > p.max THEN Fatal(Err(0, "deep")) ELSE Run(G, p.p, in, i, d + 1)
          [] p.op = "nt" -> Run(G, G[p.name], in, i, d)

all_consuming(G, p, in) ==
    LET r == Run(G, p, in, 1, 0)
    IN  IF r.ok /\ r.at # Len(in) + 1 THEN Err(r.at - 1, "trailing") ELSE r

-----------------------------------------------------------------------------
(* The reference: what the same expressions derive when they are read as a *)
(* grammar, every alternative and every number of repetitions possible and *)
(* `cut` without a meaning. Ends is the set of positions at which a match  *)
(* that starts at i may end; Open is among them when the input stops in    *)
(* the middle of one. but(p, K) is the subtraction of grammars: p, when it *)
(* does not begin with the sequences K.                                    *)

but(p, K) == [op |-> "but", p |-> p, starts |-> K]
Open == -1

RECURSIVE Ends(_, _, _, _, _)

RECURSIVE SeqEnds(_, _, _, _, _)
SeqEnds(G, ps, in, S, d) ==
    IF ps = <<>> \/ S = {} THEN S
    ELSE LET next == UNION {Ends(G, Head(ps), in, j, d) : j \in S \ {Open}}
         IN  (S \cap {Open}) \cup (next \cap {Open}) \cup SeqEnds(G, Tail(ps), in, next \ {Open}, d)

RECURSIVE ManyEnds(_, _, _, _, _)
ManyEnds(G, p, in, S, d) ==
    LET more == UNION {Ends(G, p, in, j, d) : j \in S \ {Open}}
    IN  IF more \subseteq S THEN S ELSE ManyEnds(G, p, in, S \cup more, d)

Ends(G, p, in, i, d) ==
    CASE p.op = "one" -> IF i > Len(in) THEN {Open} ELSE IF in[i] \in p.kinds THEN {i + 1} ELSE {}
      [] p.op = "seq" -> SeqEnds(G, p.ps, in, {i}, d)
      [] p.op = "alt" -> UNION {Ends(G, p.ps[k], in, i, d) : k \in DOMAIN p.ps}
      [] p.op \in {"cut", "map", "recognize", "pick"} -> Ends(G, p.p, in, i, d)
      [] p.op = "opt" -> {i} \cup Ends(G, p.p, in, i, d)
      [] p.op = "many" -> ManyEnds(G, p.p, in, {i}, d)
      [] p.op = "list" -> {i} \cup SeqEnds(G, <<p.item, many(seq(<<p.sep, p.item>>))>>, in, {i}, d)
      [] p.op = "take_while" ->
            {j \in (i + p.least) .. (Len(in) + 1) : \A l \in i .. (j - 1) : in[l] \in p.kinds}
            \cup (IF WhileEnd(p.kinds, in, i) > Len(in) THEN {Open} ELSE {})
      [] p.op = "tag" ->
            IF Begins(in, i, p.text) THEN {i + Len(p.text)}
            ELSE IF Len(in) + 1 - i < Len(p.text) /\ IsPrefix(SubSeq(in, i, Len(in)), p.text) THEN {Open} ELSE {}
      [] p.op = "take_until" ->
            {j \in i .. Len(in) : Begins(in, j, p.needle) /\ \A l \in i .. (j - 1) : ~Begins(in, l, p.needle)}
            \cup {Open}
      [] p.op = "balanced" ->
            IF i > Len(in) THEN {Open} ELSE IF in[i] # p.open THEN {}
            ELSE LET r == balanced_run(p, in, i) IN IF r.ok THEN {r.at} ELSE {Open}
      [] p.op = "refuse" -> IF i <= Len(in) /\ in[i] \in p.kinds THEN {} ELSE Ends(G, p.p, in, i, d)
      [] p.op = "deeper" -> IF i <= Len(in) /\ d + 1 > p.max THEN {} ELSE Ends(G, p.p, in, i, d + 1)
      [] p.op = "but" -> IF \E s \in p.starts : Begins(in, i, s) THEN {} ELSE Ends(G, p.p, in, i, d)
      [] p.op = "nt" -> Ends(G, G[p.name], in, i, d)

\* The whole input is a sentence; the input is the beginning of one.
Derives(G, p, in, d) == (Len(in) + 1) \in Ends(G, p, in, 1, d)
Viable(G, p, in) == Ends(G, p, in, 1, 0) \cap {Open, Len(in) + 1} # {}
=============================================================================
