-------------------------------- MODULE Naming --------------------------------
(***************************************************************************)
(* C++ names for proto names, build_cpp_names of src/codegen/naming.cpp.   *)
(* Names that C++ or the generated code reserves take a trailing `_`, and  *)
(* a name taken by another takes more of them; which of two contenders     *)
(* moves must not depend on the order of the files.                        *)
(*                                                                         *)
(* Two runs of the generator are modelled, one after the other, over the   *)
(* same files in any two orders: the code of both is linked together.      *)
(*                                                                         *)
(* A proto name is a word and a number of trailing underscores.            *)
(***************************************************************************)
EXTENDS Integers, Sequences, FiniteSets, SequencesExt, TLC

CONSTANTS
    Words,          \* the words, in the order of their spelling
    Keywords,       \* words that are no C++ name at all, `std` included
    MemberWords,    \* names of generated members
    Macros,         \* words that expand as a macro
    Internal,       \* words that begin with the generator's own prefix, rp_
    InternalMacros, \* and with that of its macros, RP_
    Underscored,    \* words that begin with an underscore
    RefusedWords,   \* words no component of a prefix may be: __x, _X, rapidproto
    NamingRuns      \* candidate inputs: [files, prefix], the prefix a sequence of names

VARIABLES
    prefix,         \* the --namespace-prefix
    named,          \* the files, in the order of this run
    run,            \* 1 or 2
    naming_phase,   \* "prefix", "refused", "packages", "literals", "blocked", "escapes", "index", "done"
    named_files,    \* files dealt with in this phase
    todo,           \* top-level types still to be claimed
    blocked,        \* literals that found their name taken by a package
    taken,          \* dedup scopes: namespace -> names in use
    claimed,        \* top-level type -> its name
    unnamed,        \* messages whose members are still to be named
    local,          \* node -> its name
    absolute,       \* type -> its full name; for a message, of its enums' namespace too
    earlier         \* `local` at the end of the first run

naming_vars == <<prefix, named, run, naming_phase, named_files, todo, blocked, taken, claimed, unnamed,
                 local, absolute, earlier>>

-----------------------------------------------------------------------------
(* Names                                                                   *)

Plus(n, k) == [n EXCEPT !.u = @ + k]

cpp_reserved(n) == n.u = 0 /\ n.w \in Keywords
member_reserved(n) == n.u = 0 /\ n.w \in MemberWords
expands_as_macro(n) == n.w \in InternalMacros \/ (n.u = 0 /\ n.w \in Macros)

\* A name of the reserved sets, or any name that begins with an internal prefix.
sanitize(n) ==
    IF n.w \in Internal \/ cpp_reserved(n) \/ member_reserved(n) \/ expands_as_macro(n)
    THEN Plus(n, 1) ELSE n

\* A component of a prefix: the names of members are ordinary namespaces.
sanitize_prefix_component(n) ==
    IF n.w \in Internal \/ cpp_reserved(n) \/ expands_as_macro(n) THEN Plus(n, 1) ELSE n

effective_ns_prefix(p) == [i \in DOMAIN p |-> sanitize_prefix_component(p[i])]

\* Why the command line refuses a component: reserved words, the generator's own prefixes,
\* macros, names reserved to the compiler and the runtime, a leading underscore where it would
\* be a global name.
ns_prefix_component_problem(n, first) ==
    \/ cpp_reserved(n) \/ n.w \in Internal \cup InternalMacros \/ expands_as_macro(n)
    \/ n.w \in RefusedWords /\ (n.u = 0 \/ n.w # "rapidproto")
    \/ first /\ n.w \in Underscored

namespace_of(package) == [i \in DOMAIN package |-> sanitize(package[i])]

\* Mutant: one `_` is taken to be enough.
FirstFreeOnce(n, used) == IF n \in used THEN Plus(n, 1) ELSE n

\* Append `_` until the name is free.
FirstFree(n, used) == Plus(n, CHOOSE k \in 0 .. Cardinality(used) :
                                Plus(n, k) \notin used /\ \A j \in 0 .. (k - 1) : Plus(n, j) \in used)

\* The order of fully qualified names as strings: '.' sorts before '_'.
Rank(n) == <<CHOOSE i \in DOMAIN Words : Words[i] = n.w, n.u>>
Less(a, b) ==
    \/ a # b /\ IsPrefix(a, b)
    \/ \E i \in 1 .. (IF Len(a) < Len(b) THEN Len(a) ELSE Len(b)) :
          /\ SubSeq(a, 1, i - 1) = SubSeq(b, 1, i - 1)
          /\ \/ Rank(a[i])[1] < Rank(b[i])[1]
             \/ Rank(a[i])[1] = Rank(b[i])[1] /\ Rank(a[i])[2] < Rank(b[i])[2]

\* Node t of a file: its fully qualified name.
NodeFqn(f, t) ==
    LET fqn[i \in 0 .. Len(f.nodes)] ==
            IF i = 0 THEN f.package ELSE Append(fqn[f.nodes[i].parent], f.nodes[i].name)
    IN  fqn[t]

\* Mutant: the contenders in the order of the files.
LeastByFile(S) ==
    LET file(x) == CHOOSE i \in DOMAIN named : \E t \in DOMAIN named[i].nodes : NodeFqn(named[i], t) = x.fqn
    IN  CHOOSE x \in S : \A y \in S : x # y => file(x) < file(y) \/ (file(x) = file(y) /\ Less(x.fqn, y.fqn))

\* The contender whose fully qualified name is first.
Least(S) == CHOOSE x \in S : \A y \in S : x # y => Less(x.fqn, y.fqn)

-----------------------------------------------------------------------------
(* claim_toplevel_ids                                                      *)

TakenIn(ns) == IF ns \in DOMAIN taken THEN taken[ns] ELSE {}
Take(ns, id) == taken' = (ns :> (TakenIn(ns) \cup {id})) @@ taken

Components(p) == DOMAIN p

\* The command line checks the prefix, and refuses an empty one, before anything is generated.
CheckPrefix ==
    /\ naming_phase = "prefix"
    /\ naming_phase' = IF prefix = <<>> \/ \E i \in DOMAIN prefix : ns_prefix_component_problem(prefix[i], i = 1)
                THEN "refused" ELSE "packages"
    /\ UNCHANGED <<prefix, named, run, named_files, todo, blocked, taken, claimed, unnamed, local, absolute, earlier>>

\* Group 1: every component of a package, in the scope of its parent package.
claim_package_components ==
    /\ naming_phase = "packages" /\ named_files < Len(named)
    /\ named_files' = named_files + 1
    /\ LET p == named[named_files + 1].package
           parent(k) == namespace_of(SubSeq(p, 1, k - 1))
           new == [ns \in {parent(k) : k \in Components(p)} |->
                     TakenIn(ns) \cup {sanitize(p[k]) : k \in {k \in Components(p) : parent(k) = ns}}]
       IN  taken' = new @@ taken
    /\ UNCHANGED <<prefix, named, run, naming_phase, todo, blocked, claimed, unnamed, local, absolute, earlier>>

TopLevel(f) == {i \in DOMAIN f.nodes : f.nodes[i].parent = 0}

\* Every top-level type, to be claimed in the scope of its package.
CollectClaimants ==
    /\ naming_phase = "packages" /\ named_files = Len(named)
    /\ todo' = UNION {{[fqn |-> NodeFqn(named[i], t), raw |-> named[i].nodes[t].name,
                        ns |-> namespace_of(named[i].package)] : t \in TopLevel(named[i])} :
                      i \in DOMAIN named}
    /\ naming_phase' = "literals"
    /\ UNCHANGED <<prefix, named, run, named_files, blocked, taken, claimed, unnamed, local, absolute, earlier>>

Literals == {x \in todo : sanitize(x.raw) = x.raw}
Claim(x, id) == Take(x.ns, id) /\ claimed' = (x.fqn :> id) @@ claimed

\* Group 2, the literals, in the order of their names: as spelled, or blocked.
LiteralsFirst == Literals

ClaimLiteral ==
    /\ naming_phase = "literals" /\ LiteralsFirst # {}
    /\ LET x == Least(LiteralsFirst)
       IN  /\ todo' = todo \ {x}
           /\ IF x.raw \in TakenIn(x.ns)
              THEN blocked' = blocked \cup {x} /\ UNCHANGED <<taken, claimed>>
              ELSE Claim(x, x.raw) /\ UNCHANGED blocked
    /\ UNCHANGED <<prefix, named, run, naming_phase, named_files, unnamed, local, absolute, earlier>>

StartEscalating ==
    /\ naming_phase = "literals" /\ LiteralsFirst = {}
    /\ naming_phase' = "blocked"
    /\ UNCHANGED <<prefix, named, run, named_files, todo, blocked, taken, claimed, unnamed, local, absolute, earlier>>

\* Groups 3 and 4: blocked literals, then escapes, from the sanitized name until one is free.
Escalate ==
    /\ naming_phase = "blocked" /\ blocked \cup todo # {}
    /\ LET x == IF blocked # {} THEN Least(blocked) ELSE Least(todo)
       IN  /\ Claim(x, FirstFree(sanitize(x.raw), TakenIn(x.ns)))
           /\ blocked' = blocked \ {x} /\ todo' = todo \ {x}
    /\ UNCHANGED <<prefix, named, run, naming_phase, named_files, unnamed, local, absolute, earlier>>

StartIndexing ==
    /\ naming_phase = "blocked" /\ blocked \cup todo = {}
    /\ naming_phase' = "index" /\ named_files' = 0
    /\ UNCHANGED <<prefix, named, run, todo, blocked, taken, claimed, unnamed, local, absolute, earlier>>

-----------------------------------------------------------------------------
(* index_file, index_message                                               *)

ChildrenOf(f, t) == SelectSeq([i \in DOMAIN f.nodes |-> i], LAMBDA i : f.nodes[i].parent = t)

\* The full name of a message and of the mirror of its enums; of an enum, of itself.
Absolute(kind, msg, enum) ==
    IF kind = "message" THEN [type |-> msg, mirror |-> enum] ELSE [type |-> enum, mirror |-> enum]

\* The top-level types of a file keep what they claimed; their members come next.
index_file ==
    /\ naming_phase = "index" /\ unnamed = <<>> /\ named_files < Len(named)
    /\ named_files' = named_files + 1
    /\ LET f == named[named_files + 1]
           ns == namespace_of(f.package)
           tops == ChildrenOf(f, 0)
           id(t) == claimed[NodeFqn(f, t)]
           names == {NodeFqn(f, tops[i]) : i \in DOMAIN tops}
           node(n) == CHOOSE t \in DOMAIN f.nodes : NodeFqn(f, t) = n
       IN  /\ local' = [n \in names |-> id(node(n))] @@ local
           /\ absolute' = [n \in names |-> Absolute(f.nodes[node(n)].kind,
                              <<"model">> \o ns \o <<id(node(n))>>,
                              <<"common">> \o ns \o <<id(node(n))>>)] @@ absolute
           /\ unnamed' = SelectSeq(tops, LAMBDA t : f.nodes[t].kind = "message")
    /\ UNCHANGED <<prefix, named, run, naming_phase, todo, blocked, taken, claimed, earlier>>

\* The names in use before the members of a class are named.
Seed(id) == {id}

\* The members of a class in the order nested enums, nested messages, fields and oneofs, maps;
\* each takes the first name that is free.
index_message ==
    /\ naming_phase = "index" /\ unnamed # <<>>
    /\ LET f == named[named_files]
           t == Head(unnamed)
           own == NodeFqn(f, t)
           of(kind) == SelectSeq(ChildrenOf(f, t), LAMBDA i : f.nodes[i].kind = kind)
           members == of("enum") \o of("message") \o of("field")
           used[i \in 0 .. Len(members)] ==
               IF i = 0 THEN Seed(local[own])
               ELSE used[i - 1] \cup {FirstFree(sanitize(f.nodes[members[i]].name), used[i - 1])}
           id(i) == FirstFree(sanitize(f.nodes[members[i]].name), used[i - 1])
           index(n) == CHOOSE i \in DOMAIN members : NodeFqn(f, members[i]) = n
           types == {NodeFqn(f, members[i]) : i \in {i \in DOMAIN members : f.nodes[members[i]].kind # "field"}}
       IN  /\ local' = [n \in {NodeFqn(f, members[i]) : i \in DOMAIN members} |-> id(index(n))] @@ local
           /\ absolute' = [n \in types |->
                  Absolute(f.nodes[members[index(n)]].kind,
                           Append(absolute[own].type, id(index(n))),
                           Append(absolute[own].mirror, id(index(n))))] @@ absolute
           /\ unnamed' = Tail(unnamed) \o of("message")
    /\ UNCHANGED <<prefix, named, run, naming_phase, named_files, todo, blocked, taken, claimed, earlier>>

\* The end of a run; the second one is given the files in any order.
Finish ==
    /\ naming_phase = "index" /\ unnamed = <<>> /\ named_files = Len(named)
    /\ \/ /\ run = 1 /\ run' = 2 /\ naming_phase' = "packages" /\ named_files' = 0
          /\ \E p \in Permutations(DOMAIN named) : named' = [i \in DOMAIN named |-> named[p[i]]]
          /\ earlier' = local
          /\ taken' = <<>> /\ claimed' = <<>> /\ local' = <<>> /\ absolute' = <<>>
       \/ /\ run = 2 /\ naming_phase' = "done"
          /\ UNCHANGED <<prefix, named, run, named_files, taken, claimed, local, absolute, earlier>>
    /\ UNCHANGED <<prefix, todo, blocked, unnamed>>

NamingInit ==
    /\ \E i \in NamingRuns : named = i.files /\ prefix = i.prefix
    /\ run = 1 /\ naming_phase = "prefix" /\ named_files = 0 /\ todo = {} /\ blocked = {} /\ taken = <<>>
    /\ claimed = <<>> /\ unnamed = <<>> /\ local = <<>> /\ absolute = <<>> /\ earlier = <<>>

NamingNext ==
    \/ CheckPrefix \/ claim_package_components \/ CollectClaimants \/ ClaimLiteral \/ StartEscalating
    \/ Escalate \/ StartIndexing \/ index_file \/ index_message \/ Finish

NamingSpec == NamingInit /\ [][NamingNext]_naming_vars

-----------------------------------------------------------------------------
(* Properties                                                              *)

Indexed == naming_phase = "index" /\ unnamed = <<>> /\ named_files = Len(named)

\* All nodes of the input: [fqn, parent, top, package, kind].
Nodes ==
    UNION {{[fqn |-> NodeFqn(named[i], t), parent |-> NodeFqn(named[i], named[i].nodes[t].parent),
             top |-> named[i].nodes[t].parent = 0, ns |-> namespace_of(named[i].package),
             raw |-> named[i].nodes[t].name, kind |-> named[i].nodes[t].kind] :
                t \in DOMAIN named[i].nodes} : i \in DOMAIN named}

\* The namespaces the packages open inside namespace ns.
OpenedIn(ns) ==
    {n \in UNION {ToSet(namespace_of(named[i].package)) : i \in DOMAIN named} :
        \E i \in DOMAIN named : IsPrefix(Append(ns, n), namespace_of(named[i].package))}

\* Nothing in the generated code is declared twice in a scope: top-level types of all files
\* of a C++ namespace and the namespaces inside it, the members of a class and the class.
NoClash ==
    Indexed => \A x, y \in Nodes : x # y =>
        /\ (x.top /\ y.top /\ x.ns = y.ns) => local[x.fqn] # local[y.fqn]
        /\ (~x.top /\ ~y.top /\ x.parent = y.parent) => local[x.fqn] # local[y.fqn]
        /\ (~y.top /\ y.parent = x.fqn) => local[x.fqn] # local[y.fqn]
        /\ x.top => local[x.fqn] \notin OpenedIn(x.ns)

\* The full names of two types never agree, although messages and the mirrors of their
\* enums follow the same path under different roots.
TypeNamesUnique ==
    Indexed => \A m, n \in DOMAIN absolute : m # n =>
        absolute[m].type # absolute[n].type /\ absolute[m].type # absolute[n].mirror

\* The prefix is an instruction: what is not refused is what the code is generated into, as
\* it was asked for, and a name that C++ cannot have as a namespace is always refused.
PrefixAsAsked ==
    naming_phase \notin {"prefix", "refused"} =>
        /\ effective_ns_prefix(prefix) = prefix
        /\ \A i \in DOMAIN prefix : prefix[i].u = 0 => prefix[i].w \notin Keywords \cup Macros
        /\ prefix # <<>>

\* Every run gives the same names, whatever the order of the files.
SameNamesInEveryRun == (Indexed /\ run = 2) => local = earlier

\* A name the user chose is kept, unless a package of that name is in the way, or the same
\* name in a package that C++ cannot tell apart.
SpellingKept ==
    Indexed => \A x \in {x \in Nodes : x.top /\ sanitize(x.raw) = x.raw} :
        \/ local[x.fqn] = x.raw
        \/ x.raw \in OpenedIn(x.ns)
        \/ \E y \in Nodes : y.top /\ y.fqn # x.fqn /\ y.ns = x.ns /\ y.raw = x.raw

\* Two declarations never get the same C++ name, neither in their scope nor in full.
NamesApart == NoClash /\ TypeNamesUnique

\* The names are those the user can rely on: the same in every run, as they are spelled in the
\* files where that is possible, and in the namespace that was asked for.
NamesAsExpected == SameNamesInEveryRun /\ SpellingKept /\ PrefixAsAsked
=============================================================================
