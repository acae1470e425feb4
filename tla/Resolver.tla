------------------------------ MODULE Resolver ------------------------------
(***************************************************************************)
(* The import resolver, src/resolver.cpp: a depth-first walk over the      *)
(* import graph with white/gray/black colours, include-path lookup, a      *)
(* depth cap, and the post-order list that later passes take as the        *)
(* topological order.  The recursion of visit() is the stack of frames     *)
(* m_stack: each frame is a gray file and how many of its imports it has   *)
(* dealt with.                                                             *)
(*                                                                         *)
(* A Key is a canonical import path, the identity of a file for every      *)
(* later pass.  A File is a file on disk (or an embedded well-known type). *)
(***************************************************************************)
EXTENDS Naturals, Sequences, FiniteSets, SequencesExt

CONSTANTS
    Keys, Files,
    Spellings,          \* import statements as written, several per key
    Canon,              \* canonical_import_path: Spellings -> Keys
    Includes,           \* the include paths, each a function from some keys to files
    Embedded,           \* wellknown_source: a function from some keys to files
    Given,              \* the name of an entry under no include path: Files -> Keys
    Unreadable,         \* files that exist and cannot be opened
    Malformed,          \* files with a lex or parse error
    Inputs,             \* candidate inputs: [graphs, lists], the import statements of every file
                        \* and the files of the command line
    kMaxImportDepth,
    NoFile              \* std::nullopt

\* The files a path names; the embedded texts are compiled in, and are not among them.
OnDisk == Files \ {Embedded[k] : k \in DOMAIN Embedded}

ASSUME ResolverAssumption ==
    /\ Canon \in [Spellings -> Keys]
    /\ Len(Includes) \in Nat /\ DOMAIN Includes = 1 .. Len(Includes)
    /\ \A i \in DOMAIN Includes :
         /\ DOMAIN Includes[i] \subseteq Keys /\ IsInjective(Includes[i])
         /\ \A k \in DOMAIN Includes[i] : Includes[i][k] \in OnDisk
    /\ DOMAIN Embedded \subseteq Keys
    /\ \A k \in DOMAIN Embedded : Embedded[k] \in Files \ Unreadable
    /\ Given \in [Files -> Keys]
    /\ \A x \in Inputs :
         /\ \A g \in x.graphs : g \in [Files -> Seq(Spellings)]
         /\ x.lists \subseteq Seq(OnDisk)
    /\ kMaxImportDepth \in Nat \ {0}
    /\ NoFile \notin Files

VARIABLES
    imports,            \* the import statements of every file (input)
    entries,            \* the entry files (input)
    entry,              \* how many entries run() has dealt with
    m_color,            \* key -> "gray" or "black"; white keys are not in the domain
    m_parsed,           \* key -> the file parsed under it
    m_stack,            \* frames [key, done]
    m_order,
    m_sources,          \* the SourceRegistry: names in registration order
    result              \* [kind, key, path]

vars == <<imports, entries, entry, m_color, m_parsed, m_stack, m_order, m_sources, result>>
inputs == <<imports, entries>>

Running == [kind |-> "running", key |-> NoFile, path |-> <<>>]
Fail(kind, key, path) == [kind |-> kind, key |-> key, path |-> path]

-----------------------------------------------------------------------------
\* read_import: the first include path that has the key owns it; an unreadable
\* file does not fall through to a shadowed copy or to the embedded types.
IncludeOf(k) == SelectInSeq(Includes, LAMBDA inc : k \in DOMAIN inc)

Lookup(k) ==
    LET i == IncludeOf(k)
    IN  IF i # 0 THEN Includes[i][k]
        ELSE IF k \in DOMAIN Embedded THEN Embedded[k] ELSE NoFile

\* Mutant: an unreadable file falls through to the copies behind it.
ReadNextCopy(k) ==
    LET i == SelectInSeq(Includes, LAMBDA inc : k \in DOMAIN inc /\ inc[k] \notin Unreadable)
    IN  IF i # 0 THEN Includes[i][k]
        ELSE IF k \in DOMAIN Embedded THEN Embedded[k] ELSE NoFile

read_import(k) == IF Lookup(k) \in Unreadable THEN NoFile ELSE Lookup(k)

\* canonical_entry_name: the key of the file under the first include path that
\* contains it, else the path as given.
canonical_entry_name(f) ==
    LET i == SelectInSeq(Includes, LAMBDA inc : \E k \in DOMAIN inc : inc[k] = f)
    IN  IF i = 0 THEN Given[f] ELSE CHOOSE k \in DOMAIN Includes[i] : Includes[i][k] = f

StackKeys == [i \in DOMAIN m_stack |-> m_stack[i].key]

\* Mutant: the whole stack is taken for the cycle.
CycleWholeStack(k) == StackKeys \o <<k>>

\* render_cycle: the gray path from the imported key back to itself.
Cycle(k) ==
    LET start == SelectInSeq(StackKeys, LAMBDA x : x = k)
    IN  SubSeq(StackKeys, start, Len(StackKeys)) \o <<k>>

-----------------------------------------------------------------------------
\* m[k] = v of a std::map.
With(m, k, v) == [x \in DOMAIN m \cup {k} |-> IF x = k THEN v ELSE m[x]]

TooDeep(below) == Len(below) >= kMaxImportDepth

Registered(k, f) == Append(m_sources, k)

\* The first part of visit(name, source), up to its loop over the imports: the
\* depth check, the gray mark, the registration of the source, the parse.
\* `below` is the stack of the callers, the importing frame already advanced.
Visit(k, f, below) ==
    IF TooDeep(below)
    THEN /\ result' = Fail("depth", k, StackKeys)
         /\ UNCHANGED <<m_color, m_parsed, m_stack, m_sources>>
    ELSE /\ m_color' = With(m_color, k, "gray")
         /\ m_stack' = Append(below, [key |-> k, done |-> 0])
         /\ m_sources' = Registered(k, f)
         /\ IF f \in Malformed
            THEN result' = Fail("parse", k, <<>>) /\ UNCHANGED m_parsed
            ELSE m_parsed' = With(m_parsed, k, f) /\ UNCHANGED result

Parsed == DOMAIN m_parsed

\* Mutant: only the first entry is visited.
EntryDoneAfterFirst(k) == Parsed # {}

\* An earlier entry, or one of its imports, has resolved this key.
EntryDone(k) == k \in Parsed

\* run(): the next entry, once the walk from the one before has returned.
NextEntry ==
    /\ result = Running /\ m_stack = <<>> /\ entry < Len(entries)
    /\ LET f == entries[entry + 1]
           k == canonical_entry_name(f)
       IN  IF EntryDone(k)
           THEN UNCHANGED <<m_color, m_parsed, m_stack, m_sources, result>>
           ELSE IF f \in Unreadable
           THEN /\ result' = Fail("entry", k, <<>>)
                /\ UNCHANGED <<m_color, m_parsed, m_stack, m_sources>>
           ELSE Visit(k, f, <<>>)
    /\ entry' = entry + 1
    /\ UNCHANGED <<inputs, m_order>>

Top == Last(m_stack)
ImportsOf(k) == imports[m_parsed[k]]

\* Mutant: a resolved import is not passed over.
AdvancedNot == m_stack

\* The stack with one more import of its top frame dealt with.
Advanced == [m_stack EXCEPT ![Len(m_stack)].done = @ + 1]

\* Mutant: a gray import counts as resolved.
GrayIsResolved(k) == FALSE

IsGray(k) == m_color[k] = "gray"

\* visit(): one turn of the loop over the imports of the top frame.
NextImport ==
    /\ result = Running /\ m_stack # <<>>
    /\ Top.done < Len(ImportsOf(Top.key))
    /\ LET k == Canon[ImportsOf(Top.key)[Top.done + 1]]
       IN  \/ /\ k \in DOMAIN m_color /\ IsGray(k)
              /\ result' = Fail("cycle", k, Cycle(k))
              /\ UNCHANGED <<m_color, m_parsed, m_stack, m_sources>>
           \/ /\ k \in DOMAIN m_color /\ ~IsGray(k)
              /\ m_stack' = Advanced
              /\ UNCHANGED <<m_color, m_parsed, m_sources, result>>
           \/ /\ k \notin DOMAIN m_color /\ read_import(k) = NoFile
              /\ result' = Fail("missing", k, <<Top.key>>)
              /\ UNCHANGED <<m_color, m_parsed, m_stack, m_sources>>
           \/ /\ k \notin DOMAIN m_color /\ read_import(k) # NoFile
              /\ Visit(k, read_import(k), Advanced)
    /\ UNCHANGED <<inputs, entry, m_order>>

\* Mutant: the file stays gray.
BlackenedNot == m_color

Blackened == [m_color EXCEPT ![Top.key] = "black"]

\* visit(): every import is resolved, the file turns black.
Finish ==
    /\ result = Running /\ m_stack # <<>>
    /\ Top.done = Len(ImportsOf(Top.key))
    /\ m_color' = Blackened
    /\ m_stack' = Front(m_stack)
    /\ m_order' = Append(m_order, Top.key)
    /\ UNCHANGED <<inputs, entry, m_parsed, m_sources, result>>

\* run(): the files in topological order.
Deliver ==
    /\ result = Running /\ m_stack = <<>> /\ entry = Len(entries)
    /\ result' = [kind |-> "ok", key |-> NoFile, path |-> m_order]
    /\ UNCHANGED <<inputs, entry, m_color, m_parsed, m_stack, m_order, m_sources>>

Init ==
    /\ \E x \in Inputs : imports \in x.graphs /\ entries \in x.lists
    /\ entry = 0
    /\ m_color = <<>> /\ m_parsed = <<>>
    /\ m_stack = <<>> /\ m_order = <<>> /\ m_sources = <<>>
    /\ result = Running

Next == NextEntry \/ NextImport \/ Finish \/ Deliver

\* The resolver is a sequential program: it takes its next step until it returns.
Spec == Init /\ [][Next]_vars /\ WF_vars(Next)

-----------------------------------------------------------------------------
(* The import graph over the keys parsed so far.                           *)

Edge(a, b) == a \in Parsed /\ \E i \in DOMAIN ImportsOf(a) : Canon[ImportsOf(a)[i]] = b

-----------------------------------------------------------------------------
(* Properties                                                              *)

\* The gray files are exactly the chain of visits under way, each imported by the
\* one below it: what makes a gray hit a cycle and the diagnostic a real path. The
\* chain, which is the recursion of visit(), never holds more than kMaxImportDepth files.
GrayIsTheStack ==
    /\ Len(m_stack) <= kMaxImportDepth
    /\ {k \in DOMAIN m_color : m_color[k] = "gray"} = ToSet(StackKeys)
    /\ IsInjective(StackKeys)
    /\ \A i \in 1 .. (Len(m_stack) - 1) : Edge(m_stack[i].key, m_stack[i + 1].key)

\* The list the later passes walk is topological at every moment: no file twice,
\* and the imports of a file are before it, across all entries of a batch.
OrderIsTopological ==
    /\ IsInjective(m_order)
    /\ \A i \in DOMAIN m_order, k \in Keys :
         Edge(m_order[i], k) => \E j \in 1 .. (i - 1) : m_order[j] = k

\* Of the include paths that have key k, the first has f for it.
FirstCopy(k, f) ==
    \A i \in DOMAIN Includes : k \in DOMAIN Includes[i] =>
        \E j \in 1 .. i : k \in DOMAIN Includes[j] /\ Includes[j][k] = f

\* Success means the whole closure of the entries: every entry and every import of
\* a delivered file is delivered, and nothing else is. And what is parsed is an entry, or
\* the first copy on the include paths: a later copy, or the embedded copy of a well-known
\* type, never stands in for it, not even when the first copy is unreadable.
DeliversTheClosure ==
    /\ result.kind = "ok" =>
         /\ ToSet(result.path) = Parsed
         /\ \A i \in DOMAIN entries : canonical_entry_name(entries[i]) \in Parsed
         /\ \A k \in Parsed : \/ \E i \in DOMAIN entries : k = canonical_entry_name(entries[i])
                              \/ \E a \in Parsed : Edge(a, k)
    /\ \A k \in Parsed :
         \/ FirstCopy(k, m_parsed[k])
         \/ \E i \in DOMAIN entries : canonical_entry_name(entries[i]) = k /\ entries[i] = m_parsed[k]

\* An error is never spurious: a cycle is a path of the graph that closes, a missing
\* import is imported by the file named and neither an include path nor the embedded
\* types can supply it, the depth error has a chain of kMaxImportDepth files behind it;
\* and the sources it points into are there "even on failure": the file of a parse error
\* is the last one registered, and every parsed file is registered exactly once.
ErrorsAreReal ==
    /\ result.kind = "parse" => Last(m_sources) = result.key
    /\ IsInjective(m_sources) /\ Parsed \subseteq ToSet(m_sources)
    /\ result.kind = "cycle" =>
         /\ Len(result.path) >= 2 /\ Head(result.path) = Last(result.path)
         /\ \A i \in 1 .. (Len(result.path) - 1) : Edge(result.path[i], result.path[i + 1])
    /\ result.kind = "missing" =>
         /\ Edge(result.path[1], result.key)
         /\ \A i \in DOMAIN Includes : result.key \in DOMAIN Includes[i] =>
               \E j \in 1 .. i : /\ result.key \in DOMAIN Includes[j]
                                 /\ Includes[j][result.key] \in Unreadable
         /\ result.key \in DOMAIN Embedded => IncludeOf(result.key) # 0
    /\ result.kind = "depth" =>
         Len(result.path) = kMaxImportDepth /\ Edge(Last(result.path), result.key)

\* The walk returns on every import graph, cyclic ones included.
Terminates == <>(result # Running)

-----------------------------------------------------------------------------
(* What the comments of the resolver say, and the code does not keep.      *)

\* "so an entry that is also imported maps to the same key": one file on disk is
\* parsed under one key.
OneKeyPerFile == \A a, b \in Parsed : m_parsed[a] = m_parsed[b] => a = b

\* "The first include path that has the file owns it": an imported key stands for
\* the file that the include paths, searched in order, hold for it.
FirstIncludeOwns ==
    \A a \in Parsed, k \in Parsed :
        Edge(a, k) /\ Lookup(k) # NoFile => m_parsed[k] = Lookup(k)

=============================================================================
