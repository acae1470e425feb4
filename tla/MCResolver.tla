----------------------------- MODULE MCResolver -----------------------------
(* Two families of inputs. Every import graph over three files with up to two *)
(* imports each: cycles, self-imports, diamonds, repeated and differently     *)
(* spelled imports, missing files, batches that list a file twice. And lookup *)
(* and failure: include paths that shadow one another, an unreadable file     *)
(* with a readable and an embedded copy behind it, a malformed file, an entry *)
(* outside every include path, chains at the depth cap.                       *)
EXTENDS Resolver
CONSTANTS a, b, c, missing, dot_b, fa, fb, fc,
          x, y, z, u, w, p, sub_x, out, fx, fx2, fy, fz, fu, fu2, fp, eu, ew, fo

MCKeys == {a, b, c, missing, x, y, z, u, w, p, sub_x, out}
MCFiles == {fa, fb, fc, fx, fx2, fy, fz, fu, fu2, fp, eu, ew, fo}
MCSpellings == MCKeys \cup {dot_b}
MCCanon == (dot_b :> b) @@ [k \in MCKeys |-> k]
MCEmbedded == (u :> eu) @@ (w :> ew)
MCGiven == [f \in MCFiles |-> out]

\* -I one -I two: two/x.proto is shadowed by one/x.proto, two/u.proto by an unreadable file.
Shadowing ==
    <<(x :> fx) @@ (y :> fy) @@ (u :> fu) @@ (p :> fp) @@ (a :> fa) @@ (b :> fb) @@ (c :> fc),
      (x :> fx2) @@ (z :> fz) @@ (u :> fu2)>>
\* -I root -I root/sub: root/sub/x.proto is both sub/x.proto and x.proto.
Nested == <<(sub_x :> fx) @@ (y :> fy), (x :> fx)>>

Lists(S, n) == UNION {[1 .. i -> S] : i \in 0 .. n}
Whole(graph) == graph @@ [f \in MCFiles |-> <<>>]

Graphs ==
    LET lists == Lists({a, b, c, missing, dot_b}, 2)
        plain == Lists({a, b, c, missing}, 2)
    IN  [graphs |-> {Whole((fa :> la) @@ (fb :> lb) @@ (fc :> lc)) : la \in lists, lb \in plain, lc \in plain},
         lists |-> {<<fa>>, <<fb, fa, fb>>}]

Graph(lx, ly, lz, lo) == Whole((fx :> lx) @@ (fx2 :> lx) @@ (fy :> ly) @@ (fz :> lz) @@ (fo :> lo))
Lookups ==
    [graphs |-> {Graph(lx, ly, lz, lo) : lx \in Lists({w, p}, 1), ly \in Lists({x, u, w, p}, 2),
                                         lz \in Lists({x, y}, 1) \cup {<<y, x>>}, lo \in Lists({z, y, out}, 2)},
     lists |-> {<<fo>>, <<fo, fy>>, <<fz, fo>>, <<fy, fu>>}]
MCInputs == {Graphs, Lookups}

\* One importer of x.proto, next to the file itself as an entry.
Small(lists) == {[graphs |-> {Graph(<<>>, ly, <<>>, <<>>) : ly \in Lists({x, w}, 2)}, lists |-> lists]}
NestedInputs == Small({<<fy, fx>>, <<fx, fy>>})
ShadowedInputs == Small({<<fx2, fy>>, <<fy, fx2>>})
=============================================================================
