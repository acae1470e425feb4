--------------------------- MODULE ResolverProofs ---------------------------
(***************************************************************************)
(* Proofs about the import resolver, and about type resolution, which      *)
(* works on the files in the order that the resolver puts them in.         *)
(***************************************************************************)
EXTENDS Resolver, TypeResolver, InductionLemmas

-----------------------------------------------------------------------------
(* The inductive invariant.                                                *)

Frames == [key : Keys, done : Nat]

StateTypes ==
    /\ imports \in [Files -> Seq(Spellings)]
    /\ entries \in Seq(OnDisk)
    /\ entry \in 0 .. Len(entries)
    /\ DOMAIN m_color \subseteq Keys
    /\ m_color \in [DOMAIN m_color -> {"gray", "black"}]
    /\ Parsed \subseteq Keys
    /\ m_parsed \in [Parsed -> Files]
    /\ m_stack \in Seq(Frames)
    /\ m_order \in Seq(Keys)
    /\ m_sources \in Seq(Keys)

\* The key that import number j of the file parsed under k names.
Target(k, j) == Canon[ImportsOf(k)[j]]

\* Every marked key is a registered source; all of them are parsed, except the one
\* the parser rejected.
MarkedIsParsed ==
    /\ Parsed \subseteq DOMAIN m_color
    /\ result.kind # "parse" => Parsed = DOMAIN m_color
    /\ DOMAIN m_color = ToSet(m_sources)
    /\ IsInjective(m_sources)

\* The frames are the gray keys, each once, and no more than the cap allows.
StackIsGray ==
    /\ Len(m_stack) <= kMaxImportDepth
    /\ \A i \in 1 .. Len(m_stack) : m_stack[i].key \in DOMAIN m_color /\ m_color[m_stack[i].key] = "gray"
    /\ \A k \in DOMAIN m_color : m_color[k] = "gray" => \E i \in 1 .. Len(m_stack) : m_stack[i].key = k
    /\ \A i, j \in 1 .. Len(m_stack) : m_stack[i].key = m_stack[j].key => i = j

\* Every frame but the top one is parsed and waits for the import that is the frame above.
StackIsChain ==
    \A i \in 1 .. (Len(m_stack) - 1) :
        /\ m_stack[i].key \in Parsed
        /\ m_stack[i].done \in 1 .. Len(ImportsOf(m_stack[i].key))
        /\ Target(m_stack[i].key, m_stack[i].done) = m_stack[i + 1].key

\* The imports a frame has dealt with are black, up to the one it waits for.
DealtIsBlack ==
    \A i \in 1 .. Len(m_stack) : m_stack[i].key \in Parsed =>
        /\ m_stack[i].done <= Len(ImportsOf(m_stack[i].key))
        /\ \A j \in 1 .. m_stack[i].done :
             \/ i < Len(m_stack) /\ j = m_stack[i].done
             \/ \E n \in 1 .. Len(m_order) : m_order[n] = Target(m_stack[i].key, j)

\* The order lists the black keys, each once, after everything it imports.
OrderIsBlack ==
    /\ \A n \in 1 .. Len(m_order) : m_order[n] \in Parsed /\ m_color[m_order[n]] = "black"
    /\ \A k \in DOMAIN m_color : m_color[k] = "black" => \E n \in 1 .. Len(m_order) : m_order[n] = k
    /\ \A n, p \in 1 .. Len(m_order) : m_order[n] = m_order[p] => n = p
    /\ \A n \in 1 .. Len(m_order) : \A j \in 1 .. Len(ImportsOf(m_order[n])) :
         \E p \in 1 .. (n - 1) : m_order[p] = Target(m_order[n], j)

\* What was parsed was asked for; what was asked for is parsed.
ParsedIsReached ==
    /\ \A k \in Parsed : \/ \E i \in DOMAIN entries : k = canonical_entry_name(entries[i])
                         \/ \E a \in Parsed : Edge(a, k)
    /\ result.kind \in {"running", "ok"} =>
         \A i \in 1 .. entry : canonical_entry_name(entries[i]) \in Parsed
    /\ \A k \in Parsed :
         \/ FirstCopy(k, m_parsed[k])
         \/ \E i \in DOMAIN entries : canonical_entry_name(entries[i]) = k /\ entries[i] = m_parsed[k]

\* What a result says.
ResultIsTrue ==
    /\ result.kind = "running" => result = Running
    /\ result.kind = "ok" => result.path = m_order /\ m_stack = <<>> /\ entry = Len(entries)
    /\ result.kind = "parse" => Len(m_sources) > 0 /\ m_sources[Len(m_sources)] = result.key

IInv ==
    /\ StateTypes /\ MarkedIsParsed /\ StackIsGray /\ StackIsChain /\ DealtIsBlack
    /\ OrderIsBlack /\ ParsedIsReached /\ ResultIsTrue /\ ErrorsAreReal

-----------------------------------------------------------------------------
(* Facts about the operators of the model.                                 *)

\* Marking a key, or recording its file, leaves the others as they were.
LEMMA WithFacts ==
    ASSUME NEW m, NEW k, NEW S, NEW v \in S, \A x \in DOMAIN m : m[x] \in S
    PROVE  LET w == With(m, k, v)
           IN  /\ DOMAIN w = DOMAIN m \cup {k}
               /\ w[k] = v
               /\ \A x \in DOMAIN m : x # k => w[x] = m[x]
               /\ w \in [DOMAIN w -> S]
  BY DEF With

\* The stack with its top frame advanced.
LEMMA AdvancedFacts ==
    ASSUME m_stack \in Seq(Frames), m_stack # <<>>
    PROVE  LET n == Len(m_stack)
           IN  /\ Advanced \in Seq(Frames)
               /\ Len(Advanced) = n /\ n > 0 /\ n \in Nat
               /\ \A i \in 1 .. n : Advanced[i].key = m_stack[i].key
               /\ \A i \in 1 .. (n - 1) : Advanced[i] = m_stack[i]
               /\ Advanced[n].done = m_stack[n].done + 1
               /\ Top = m_stack[n] /\ Top \in Frames
  <1> DEFINE n == Len(m_stack)
  <1>1. n \in Nat \ {0} /\ m_stack \in [1 .. n -> Frames]
    BY EmptySeq
  <1>2. m_stack[n] \in Frames
    BY <1>1
  <1>3. [m_stack[n] EXCEPT !.done = @ + 1] = [key |-> m_stack[n].key, done |-> m_stack[n].done + 1]
    BY <1>2 DEF Frames
  <1>4. Advanced = [m_stack EXCEPT ![n] = [m_stack[n] EXCEPT !.done = @ + 1]]
    BY <1>1 DEF Advanced
  <1>5. Advanced \in [1 .. n -> Frames]
    BY <1>1, <1>2, <1>3, <1>4 DEF Frames
  <1>6. Advanced \in Seq(Frames) /\ Len(Advanced) = n
    BY <1>1, <1>5
  <1>7. \A i \in 1 .. (n - 1) : Advanced[i] = m_stack[i]
    BY <1>1, <1>4
  <1>8. Advanced[n].key = m_stack[n].key /\ Advanced[n].done = m_stack[n].done + 1
    BY <1>1, <1>3, <1>4
  <1>9. Top = m_stack[n]
    BY DEF Top, Last
  <1> QED
    BY <1>1, <1>2, <1>6, <1>7, <1>8, <1>9
\* read_import looks in the first include path that has the key.
LEMMA IncludeOfFacts ==
    ASSUME NEW k
    PROVE  LET i == IncludeOf(k)
           IN  \/ i = 0 /\ \A j \in DOMAIN Includes : k \notin DOMAIN Includes[j]
               \/ /\ i \in DOMAIN Includes /\ i # 0 /\ k \in DOMAIN Includes[i]
                  /\ \A j \in DOMAIN Includes : k \in DOMAIN Includes[j] => i <= j
  <1> DEFINE I == {i \in 1 .. Len(Includes) : k \in DOMAIN Includes[i]}
  <1>1. IncludeOf(k) = IF I # {} THEN Min(I) ELSE 0
    BY DEF IncludeOf, SelectInSeq
  <1>2. I # {} => Min(I) \in I /\ \A j \in I : Min(I) <= j
    <2>1. I \subseteq Nat
      OBVIOUS
    <2> HIDE DEF I
    <2> QED BY <2>1, MinIsLeast
  <1> QED
    BY <1>1, <1>2, ResolverAssumption

\* What read_import returns: a file, the first copy that the include paths have, if any;
\* and nothing only where there is nothing readable to return.
LEMMA ReadFacts ==
    ASSUME NEW k \in Keys
    PROVE  /\ read_import(k) # NoFile =>
                 read_import(k) \in Files /\ FirstCopy(k, read_import(k))
           /\ read_import(k) = NoFile =>
                 /\ \A i \in DOMAIN Includes : k \in DOMAIN Includes[i] =>
                       \E j \in 1 .. i : /\ k \in DOMAIN Includes[j]
                                         /\ Includes[j][k] \in Unreadable
                 /\ k \in DOMAIN Embedded => IncludeOf(k) # 0
  <1> DEFINE n == IncludeOf(k)
  <1>1. CASE n = 0 /\ \A j \in DOMAIN Includes : k \notin DOMAIN Includes[j]
    BY <1>1, ResolverAssumption DEF read_import, Lookup, FirstCopy
  <1>2. CASE /\ n \in DOMAIN Includes /\ n # 0 /\ k \in DOMAIN Includes[n]
             /\ \A j \in DOMAIN Includes : k \in DOMAIN Includes[j] => n <= j
    <2>1. Lookup(k) = Includes[n][k] /\ Lookup(k) \in OnDisk /\ Lookup(k) # NoFile
      BY <1>2, ResolverAssumption DEF Lookup, OnDisk
    <2>2. Lookup(k) \in Files
      BY <2>1 DEF OnDisk
    <2>3. read_import(k) = NoFile => Includes[n][k] \in Unreadable
      BY <2>1 DEF read_import
    <2>4. ASSUME NEW i \in DOMAIN Includes, k \in DOMAIN Includes[i], read_import(k) = NoFile
          PROVE  \E j \in 1 .. i : k \in DOMAIN Includes[j] /\ Includes[j][k] \in Unreadable
      <3>1. n \in 1 .. i
        BY <1>2, <2>4, ResolverAssumption
      <3> QED BY <1>2, <2>3, <2>4, <3>1
    <2>5. read_import(k) # NoFile => read_import(k) = Lookup(k)
      BY DEF read_import
    <2>6. FirstCopy(k, Lookup(k))
      <3>1. \A i \in DOMAIN Includes : k \in DOMAIN Includes[i] => n \in 1 .. i
        BY <1>2, ResolverAssumption
      <3> HIDE DEF n
      <3> QED BY <1>2, <2>1, <3>1 DEF FirstCopy
    <2> QED
      BY <1>2, <2>2, <2>4, <2>5, <2>6
  <1> QED
    BY <1>1, <1>2, IncludeOfFacts

\* An entry file has a key.
LEMMA EntryKey ==
    ASSUME NEW f \in Files
    PROVE  canonical_entry_name(f) \in Keys
  <1> DEFINE I == {i \in 1 .. Len(Includes) : \E k \in DOMAIN Includes[i] : Includes[i][k] = f}
  <1>1. canonical_entry_name(f) =
          LET i == IF I # {} THEN Min(I) ELSE 0
          IN  IF i = 0 THEN Given[f] ELSE CHOOSE k \in DOMAIN Includes[i] : Includes[i][k] = f
    BY DEF canonical_entry_name, SelectInSeq
  <1>2. I # {} => Min(I) \in I
    <2>1. I \subseteq Nat
      OBVIOUS
    <2> HIDE DEF I
    <2> QED BY <2>1, MinIsLeast
  <1>3. CASE I = {}
    BY <1>1, <1>3, ResolverAssumption
  <1>4. CASE I # {}
    <2> DEFINE i == Min(I)
    <2>1. i \in 1 .. Len(Includes) /\ \E k \in DOMAIN Includes[i] : Includes[i][k] = f
      BY <1>2, <1>4
    <2>2. canonical_entry_name(f) = CHOOSE k \in DOMAIN Includes[i] : Includes[i][k] = f
      <3>1. i # 0
        BY <2>1, ResolverAssumption
      <3> HIDE DEF I
      <3> QED BY <1>1, <1>4, <3>1
    <2> HIDE DEF i
    <2>3. canonical_entry_name(f) \in DOMAIN Includes[i]
      BY <2>1, <2>2
    <2> QED
      BY <2>1, <2>3, ResolverAssumption
  <1> QED
    BY <1>3, <1>4
-----------------------------------------------------------------------------
(* visit(): the invariant is kept, whether the file is an entry or an      *)
(* import.                                                                 *)

\* What holds where visit(k, f) is called with the callers' stack `below`: k is white,
\* `below` is the stack with the importing frame advanced to the import k.
VisitContext(k, f, below) ==
    /\ k \in Keys /\ f \in Files /\ k \notin DOMAIN m_color
    /\ result = Running
    /\ below \in Seq(Frames) /\ Len(below) = Len(m_stack)
    /\ \A i \in 1 .. Len(m_stack) : below[i].key = m_stack[i].key
    /\ \A i \in 1 .. (Len(m_stack) - 1) : below[i].done = m_stack[i].done
    /\ Len(m_stack) > 0 =>
         LET n == Len(m_stack)
         IN  /\ below[n].done = m_stack[n].done + 1
             /\ below[n].done <= Len(ImportsOf(m_stack[n].key))
             /\ Target(m_stack[n].key, below[n].done) = k
    /\ FirstCopy(k, f) \/ (Len(m_stack) = 0 /\ f = entries[entry + 1])
    /\ Len(m_stack) = 0 =>
         entry < Len(entries) /\ k = canonical_entry_name(entries[entry + 1])

\* What visit() does to the state besides its own assignments.
VisitFrame ==
    /\ UNCHANGED <<imports, entries, m_order>>
    /\ entry' = IF Len(m_stack) = 0 THEN entry + 1 ELSE entry

\* The depth error leaves the walk as it is, with a full stack behind it.
LEMMA VisitTooDeep ==
    ASSUME IInv, NEW k, NEW f, NEW below, VisitContext(k, f, below), VisitFrame,
           Visit(k, f, below), TooDeep(below)
    PROVE  IInv'
  <1> DEFINE n == Len(m_stack)
  <1>1. /\ result' = Fail("depth", k, StackKeys)
        /\ UNCHANGED <<m_color, m_parsed, m_stack, m_sources, imports, entries, m_order>>
    BY DEF Visit, VisitFrame
  <1>2. n \in Nat /\ n = kMaxImportDepth /\ n > 0 /\ m_stack \in [1 .. n -> Frames]
    BY ResolverAssumption DEF IInv, StateTypes, StackIsGray, TooDeep, VisitContext
  <1>3. entry' = entry
    BY <1>2 DEF VisitFrame
  <1>4. result'.kind = "depth" /\ result'.key = k /\ result'.path = StackKeys
    BY <1>1 DEF Fail
  <1>5. DOMAIN StackKeys = 1 .. n /\ Len(StackKeys) = n /\ Last(StackKeys) = m_stack[n].key
    BY <1>2 DEF StackKeys, Last, Frames
  <1>6. result.kind = "running"
    BY DEF VisitContext, Running
  <1>7. m_stack[n].key \in Parsed
    BY <1>2, <1>6 DEF IInv, StackIsGray, MarkedIsParsed
  <1>8. Edge(m_stack[n].key, k)
    <2>1. m_stack[n].done + 1 \in 1 .. Len(ImportsOf(m_stack[n].key))
      BY <1>2 DEF VisitContext, Frames
    <2>2. ImportsOf(m_stack[n].key) \in Seq(Spellings)
      BY <1>7 DEF IInv, StateTypes, ImportsOf
    <2>3. DOMAIN ImportsOf(m_stack[n].key) = 1 .. Len(ImportsOf(m_stack[n].key))
      BY <2>2
    <2>4. Target(m_stack[n].key, m_stack[n].done + 1) = k
      BY <1>2 DEF VisitContext
    <2> QED
      BY <1>7, <2>1, <2>3, <2>4 DEF Edge, Target
  <1>9. StateTypes' /\ StackIsGray' /\ StackIsChain' /\ DealtIsBlack' /\ OrderIsBlack'
    BY <1>1, <1>3 DEF IInv, StateTypes, StackIsGray, StackIsChain, DealtIsBlack, OrderIsBlack,
                      Target, ImportsOf, Parsed
  <1>10. MarkedIsParsed' /\ ParsedIsReached' /\ ResultIsTrue'
    BY <1>1, <1>3, <1>4, <1>6 DEF IInv, MarkedIsParsed, ParsedIsReached, ResultIsTrue, Edge, ImportsOf, Parsed
  <1>11. ErrorsAreReal'
    BY <1>1, <1>2, <1>4, <1>5, <1>8 DEF IInv, ErrorsAreReal, Edge, ImportsOf, Parsed
  <1> QED
    BY <1>9, <1>10, <1>11 DEF IInv
\* Below the cap, the key becomes gray, the top of the stack and the last source; its
\* file is recorded if the parser accepts it.
LEMMA VisitMarks ==
    ASSUME IInv, NEW k, NEW f, NEW below, VisitContext(k, f, below), VisitFrame,
           Visit(k, f, below), ~TooDeep(below)
    PROVE  IInv'
  <1> DEFINE n == Len(m_stack)
  <1>1. /\ m_color' = With(m_color, k, "gray")
        /\ m_stack' = Append(below, [key |-> k, done |-> 0])
        /\ m_sources' = Append(m_sources, k)
        /\ UNCHANGED <<imports, entries, m_order>>
        /\ \/ f \in Malformed /\ result' = Fail("parse", k, <<>>) /\ m_parsed' = m_parsed
           \/ f \notin Malformed /\ result' = result /\ m_parsed' = With(m_parsed, k, f)
    BY DEF Visit, VisitFrame, Registered
  <1>2. /\ n \in Nat /\ m_stack \in [1 .. n -> Frames] /\ result.kind = "running"
        /\ Parsed = DOMAIN m_color /\ k \notin Parsed /\ k \in Keys /\ f \in Files
        /\ n < kMaxImportDepth /\ kMaxImportDepth \in Nat
    BY ResolverAssumption DEF IInv, StateTypes, VisitContext, MarkedIsParsed, Running, TooDeep
  <1>3. /\ DOMAIN m_color' = DOMAIN m_color \cup {k} /\ m_color'[k] = "gray"
        /\ \A x \in DOMAIN m_color : m_color'[x] = m_color[x]
        /\ m_color' \in [DOMAIN m_color' -> {"gray", "black"}]
    <2> DEFINE S == {"gray", "black"}
    <2>1. (\A x \in DOMAIN m_color : m_color[x] \in S) /\ "gray" \in S
      BY DEF IInv, StateTypes
    <2>2. k \notin DOMAIN m_color /\ m_color' = With(m_color, k, "gray")
      BY <1>1, <1>2
    <2> HIDE DEF S
    <2>3. m_color' \in [DOMAIN m_color' -> S]
      BY <2>1, <2>2, WithFacts
    <2>4. /\ DOMAIN m_color' = DOMAIN m_color \cup {k} /\ m_color'[k] = "gray"
          /\ \A x \in DOMAIN m_color : x # k => m_color'[x] = m_color[x]
      BY <2>2 DEF With
    <2>5. \A x \in DOMAIN m_color : m_color'[x] = m_color[x]
      BY <2>2, <2>4
    <2> QED BY <2>3, <2>4, <2>5 DEF S
  <1>4. /\ m_stack' \in Seq(Frames) /\ Len(m_stack') = n + 1
        /\ m_stack'[n + 1] = [key |-> k, done |-> 0]
        /\ \A i \in 1 .. n : m_stack'[i] = below[i]
    <2>1. [key |-> k, done |-> 0] \in Frames /\ below \in Seq(Frames) /\ Len(below) = n
      BY <1>2 DEF Frames, VisitContext
    <2> QED BY <1>1, <2>1, Appended
  <1>5. /\ m_sources' \in Seq(Keys) /\ Len(m_sources') = Len(m_sources) + 1
        /\ m_sources'[Len(m_sources) + 1] = k /\ Len(m_sources) \in Nat
        /\ \A i \in 1 .. Len(m_sources) : m_sources'[i] = m_sources[i]
    <2>1. m_sources \in Seq(Keys)
      BY DEF IInv, StateTypes
    <2> QED BY <1>1, <1>2, <2>1, Appended
  <1>6. /\ Parsed \subseteq Parsed' /\ Parsed' \subseteq Parsed \cup {k}
        /\ k \in Parsed' => m_parsed'[k] = f /\ result' = result
        /\ k \notin Parsed' => result' = Fail("parse", k, <<>>)
        /\ \A x \in Parsed : m_parsed'[x] = m_parsed[x]
        /\ m_parsed' \in [Parsed' -> Files]
    <2>1. CASE m_parsed' = m_parsed /\ result' = Fail("parse", k, <<>>)
      BY <1>2, <2>1 DEF IInv, StateTypes, Parsed
    <2>2. CASE m_parsed' = With(m_parsed, k, f) /\ result' = result
      <3>1. \A x \in DOMAIN m_parsed : m_parsed[x] \in Files
        BY DEF IInv, StateTypes, Parsed
      <3>2. k \notin DOMAIN m_parsed /\ f \in Files
        BY <1>2 DEF Parsed
      <3>3. /\ DOMAIN m_parsed' = DOMAIN m_parsed \cup {k} /\ m_parsed'[k] = f
            /\ \A x \in DOMAIN m_parsed : x # k => m_parsed'[x] = m_parsed[x]
            /\ m_parsed' \in [DOMAIN m_parsed' -> Files]
        BY <2>2, <3>1, <3>2 DEF With
      <3>4. \A x \in DOMAIN m_parsed : m_parsed'[x] = m_parsed[x]
        BY <3>2, <3>3
      <3> QED BY <2>2, <3>3, <3>4 DEF Parsed
    <2> QED BY <1>1, <2>1, <2>2
  <1> DEFINE Imp(x) == imports'[m_parsed'[x]]
             Tgt(x, j) == Canon[Imp(x)[j]]
  <1>7. ASSUME NEW x \in Parsed
        PROVE  /\ Imp(x) = ImportsOf(x) /\ x \in Parsed'
               /\ \A j : Tgt(x, j) = Target(x, j)
               /\ \A b : Edge(x, b)' <=> Edge(x, b)
    <2>1. Imp(x) = ImportsOf(x) /\ x \in Parsed'
      BY <1>1, <1>6 DEF ImportsOf
    <2> QED BY <2>1 DEF Target, Edge, ImportsOf
  <1>8. ASSUME NEW i \in 1 .. n
        PROVE  m_stack[i].key \in Parsed /\ m_stack'[i].key = m_stack[i].key /\ m_stack[i].key # k
    <2>1. m_stack[i].key \in DOMAIN m_color
      BY DEF IInv, StackIsGray
    <2>2. below[i].key = m_stack[i].key
      BY DEF VisitContext
    <2> QED BY <1>2, <1>4, <2>1, <2>2
  <1>9. n > 0 => Edge(m_stack[n].key, k)
    <2> HAVE n > 0
    <2>1. m_stack[n].done + 1 \in 1 .. Len(ImportsOf(m_stack[n].key))
      BY <1>2 DEF VisitContext, Frames
    <2>2. m_stack[n].key \in Parsed
      BY <1>2, <1>8
    <2>3. ImportsOf(m_stack[n].key) \in Seq(Spellings)
      BY <2>2 DEF IInv, StateTypes, ImportsOf
    <2>4. DOMAIN ImportsOf(m_stack[n].key) = 1 .. Len(ImportsOf(m_stack[n].key))
      BY <2>3
    <2>5. Target(m_stack[n].key, m_stack[n].done + 1) = k
      BY <1>2 DEF VisitContext
    <2> QED
      BY <2>1, <2>2, <2>4, <2>5 DEF Edge, Target
  <1>10. StateTypes'
    <2>1. entry' \in 0 .. Len(entries)
      BY <1>2 DEF IInv, StateTypes, VisitFrame, VisitContext
    <2> QED
      BY <1>1, <1>2, <1>3, <1>4, <1>5, <1>6, <2>1 DEF IInv, StateTypes
  <1>11. MarkedIsParsed'
    <2>1. Parsed' \subseteq DOMAIN m_color' /\ (result'.kind # "parse" => Parsed' = DOMAIN m_color')
      BY <1>2, <1>3, <1>6 DEF Fail
    <2>2. ToSet(m_sources') = ToSet(m_sources) \cup {k}
      BY <1>5 DEF ToSet
    <2>3. ToSet(m_sources) = DOMAIN m_color /\ IsInjective(m_sources) /\ m_sources \in Seq(Keys)
      BY DEF IInv, StateTypes, MarkedIsParsed
    <2>4. \A i \in 1 .. Len(m_sources) : m_sources[i] # k
      BY <1>2, <2>3 DEF ToSet
    <2>5. IsInjective(m_sources')
      BY <1>5, <2>3, <2>4 DEF IsInjective
    <2> QED
      BY <1>3, <2>1, <2>2, <2>3, <2>5 DEF MarkedIsParsed
  <1>12. StackIsGray'
    <2>1. Len(m_stack') <= kMaxImportDepth
      BY <1>2, <1>4
    <2>2. \A i \in 1 .. Len(m_stack') : m_stack'[i].key \in DOMAIN m_color' /\ m_color'[m_stack'[i].key] = "gray"
      BY <1>2, <1>3, <1>4, <1>8 DEF IInv, StackIsGray
    <2>3. ASSUME NEW x \in DOMAIN m_color', m_color'[x] = "gray"
          PROVE  \E i \in 1 .. Len(m_stack') : m_stack'[i].key = x
      <3>1. CASE x = k
        BY <1>2, <1>4, <3>1
      <3>2. CASE x # k
        <4>1. PICK i \in 1 .. n : m_stack[i].key = x
          BY <1>3, <2>3, <3>2 DEF IInv, StackIsGray
        <4> QED BY <1>2, <1>4, <1>8, <4>1
      <3> QED BY <3>1, <3>2
    <2>4. \A i, j \in 1 .. Len(m_stack') : m_stack'[i].key = m_stack'[j].key => i = j
      BY <1>2, <1>4, <1>8 DEF IInv, StackIsGray
    <2> QED
      BY <2>1, <2>2, <2>3, <2>4 DEF StackIsGray
  <1>13. StackIsChain'
    <2> SUFFICES ASSUME NEW i \in 1 .. n
                 PROVE  /\ m_stack'[i].key \in Parsed'
                        /\ m_stack'[i].done \in 1 .. Len(ImportsOf(m_stack[i].key))
                        /\ Target(m_stack[i].key, m_stack'[i].done) = m_stack'[i + 1].key
      <3>1. ASSUME NEW i \in 1 .. n
            PROVE  /\ Imp(m_stack'[i].key) = ImportsOf(m_stack[i].key)
                   /\ Tgt(m_stack'[i].key, m_stack'[i].done) = Target(m_stack[i].key, m_stack'[i].done)
        BY <1>7, <1>8
      <3>2. 1 .. (Len(m_stack') - 1) = 1 .. n
        BY <1>2, <1>4
      <3>3. \A i \in 1 .. (Len(m_stack') - 1) :
              /\ m_stack'[i].key \in Parsed'
              /\ m_stack'[i].done \in 1 .. Len(Imp(m_stack'[i].key))
              /\ Tgt(m_stack'[i].key, m_stack'[i].done) = m_stack'[i + 1].key
        BY <3>1, <3>2
      <3> QED BY <3>3 DEF StackIsChain, Target, ImportsOf
    <2>1. m_stack'[i].key \in Parsed'
      BY <1>6, <1>8
    <2>2. CASE i = n
      <3>1. m_stack'[n].done = m_stack[n].done + 1 /\ m_stack[n].done \in Nat
        BY <1>2, <1>4, <2>2 DEF VisitContext, Frames
      <3> QED BY <1>2, <1>4, <2>1, <2>2, <3>1 DEF VisitContext
    <2>3. CASE i # n
      <3>1. i \in 1 .. (n - 1) /\ i + 1 \in 1 .. n
        <4>1. n \in Nat
          BY <1>2
        <4> QED BY <2>3, <4>1
      <3>2. m_stack'[i].done = m_stack[i].done /\ m_stack'[i + 1].key = m_stack[i + 1].key
        BY <1>4, <1>8, <3>1 DEF VisitContext
      <3> QED BY <2>1, <3>1, <3>2 DEF IInv, StackIsChain
    <2> QED BY <2>2, <2>3
  <1>14. DealtIsBlack'
    <2> DEFINE Dealt(i, j) == \/ i < n + 1 /\ j = m_stack'[i].done
                              \/ \E q \in 1 .. Len(m_order) : m_order[q] = Tgt(m_stack'[i].key, j)
    <2>1. ASSUME m_stack'[n + 1].key \in Parsed'
          PROVE  /\ m_stack'[n + 1].done <= Len(Imp(m_stack'[n + 1].key))
                 /\ \A j \in 1 .. m_stack'[n + 1].done : Dealt(n + 1, j)
      <3>1. m_stack'[n + 1].done = 0 /\ m_stack'[n + 1].key = k
        BY <1>4
      <3>2. Imp(k) \in Seq(Spellings)
        BY <1>10, <2>1, <3>1 DEF StateTypes
      <3>3. Len(Imp(k)) \in Nat
        BY <3>2
      <3> HIDE DEF Imp, Dealt
      <3> QED BY <3>1, <3>3
    <2>2. ASSUME NEW i \in 1 .. n
          PROVE  /\ m_stack'[i].done <= Len(Imp(m_stack'[i].key))
                 /\ \A j \in 1 .. m_stack'[i].done : Dealt(i, j)
      <3> DEFINE key == m_stack[i].key
      <3>1. /\ Imp(m_stack'[i].key) = ImportsOf(key)
            /\ \A j : Tgt(m_stack'[i].key, j) = Target(key, j)
        BY <1>7, <1>8
      <3>2. /\ m_stack[i].done <= Len(ImportsOf(key))
            /\ \A j \in 1 .. m_stack[i].done :
                 \/ i < n /\ j = m_stack[i].done
                 \/ \E q \in 1 .. Len(m_order) : m_order[q] = Target(key, j)
        BY <1>8 DEF IInv, DealtIsBlack
      <3>3. i \in Nat /\ n \in Nat /\ i < n + 1
        BY <1>2
      <3>4. CASE i = n
        <4>1. /\ m_stack'[i].done = m_stack[i].done + 1 /\ m_stack[i].done \in Nat
              /\ m_stack'[i].done <= Len(ImportsOf(key))
          BY <1>2, <1>4, <3>4 DEF VisitContext, Frames
        <4>2. \A j \in 1 .. m_stack'[i].done : j = m_stack'[i].done \/ j \in 1 .. m_stack[i].done
          BY <4>1
        <4> HIDE DEF Imp, Tgt, key
        <4> QED BY <3>1, <3>2, <3>3, <3>4, <4>1, <4>2
      <3>5. CASE i # n
        <4>1. i \in 1 .. (n - 1)
          BY <3>3, <3>5
        <4>2. m_stack'[i].done = m_stack[i].done
          BY <1>4, <4>1 DEF VisitContext
        <4> HIDE DEF Imp, Tgt, key
        <4> QED BY <3>1, <3>2, <3>3, <4>2
      <3> QED BY <3>4, <3>5
    <2>3. ASSUME NEW i \in 1 .. n + 1, m_stack'[i].key \in Parsed'
          PROVE  /\ m_stack'[i].done <= Len(Imp(m_stack'[i].key))
                 /\ \A j \in 1 .. m_stack'[i].done : Dealt(i, j)
      <3>1. i = n + 1 \/ i \in 1 .. n
        BY <1>2
      <3> HIDE DEF Imp, Dealt
      <3> QED BY <2>1, <2>2, <2>3, <3>1
    <2>4. m_order' = m_order /\ Len(m_stack') = n + 1
      BY <1>1, <1>4
    <2> HIDE DEF n
    <2> QED BY <2>3, <2>4 DEF DealtIsBlack, Target, ImportsOf
  <1>15. OrderIsBlack'
    <2>1. \A q \in 1 .. Len(m_order) : m_order[q] \in Parsed /\ m_color[m_order[q]] = "black"
      BY DEF IInv, OrderIsBlack
    <2>2. \A q \in 1 .. Len(m_order) : m_order[q] \in Parsed' /\ m_color'[m_order[q]] = "black"
      BY <1>2, <1>3, <1>6, <2>1
    <2>3. \A x \in DOMAIN m_color' : m_color'[x] = "black" => \E q \in 1 .. Len(m_order) : m_order[q] = x
      BY <1>3 DEF IInv, OrderIsBlack
    <2>4. ASSUME NEW q \in 1 .. Len(m_order), NEW j \in 1 .. Len(Imp(m_order[q]))
          PROVE  \E r \in 1 .. (q - 1) : m_order[r] = Tgt(m_order[q], j)
      <3>1. Imp(m_order[q]) = ImportsOf(m_order[q]) /\ Tgt(m_order[q], j) = Target(m_order[q], j)
        BY <1>7, <2>1
      <3>2. \A i \in 1 .. Len(ImportsOf(m_order[q])) :
              \E r \in 1 .. (q - 1) : m_order[r] = Target(m_order[q], i)
        BY DEF IInv, OrderIsBlack
      <3> HIDE DEF Imp, Tgt
      <3> QED BY <3>1, <3>2
    <2>5. \A q, r \in 1 .. Len(m_order) : m_order[q] = m_order[r] => q = r
      BY DEF IInv, OrderIsBlack
    <2>6. m_order' = m_order
      BY <1>1
    <2>7. \A q \in 1 .. Len(m_order') : \A j \in 1 .. Len(ImportsOf(m_order[q])') :
            \E r \in 1 .. (q - 1) : m_order'[r] = Target(m_order[q], j)'
      BY <2>4, <2>6 DEF Target, ImportsOf
    <2>8. /\ \A q \in 1 .. Len(m_order') : m_order'[q] \in Parsed' /\ m_color'[m_order'[q]] = "black"
          /\ \A x \in DOMAIN m_color' : m_color'[x] = "black" => \E q \in 1 .. Len(m_order') : m_order'[q] = x
          /\ \A q, r \in 1 .. Len(m_order') : m_order'[q] = m_order'[r] => q = r
      BY <2>2, <2>3, <2>5, <2>6
    <2> QED
      BY <2>7, <2>8 DEF OrderIsBlack
  <1>16. ParsedIsReached'
    <2>1. ASSUME NEW x \in Parsed'
          PROVE  \/ \E i \in DOMAIN entries : x = canonical_entry_name(entries[i])
                 \/ \E a \in Parsed' : Edge(a, x)'
      <3>1. CASE x \in Parsed
        BY <1>6, <1>7, <3>1 DEF IInv, ParsedIsReached
      <3>2. CASE x = k /\ n = 0
        <4>1. entry + 1 \in DOMAIN entries /\ x = canonical_entry_name(entries[entry + 1])
          BY <3>2 DEF IInv, StateTypes, VisitContext
        <4> QED BY <4>1
      <3>3. CASE x = k /\ n > 0
        <4>1. m_stack[n].key \in Parsed /\ Edge(m_stack[n].key, x)
          BY <1>2, <1>8, <1>9, <3>3
        <4> QED BY <1>6, <1>7, <4>1
      <3> QED BY <1>2, <1>6, <3>1, <3>2, <3>3
    <2>2. ASSUME result'.kind \in {"running", "ok"}, NEW i \in 1 .. entry'
          PROVE  canonical_entry_name(entries[i]) \in Parsed'
      <3>1. k \in Parsed' /\ result'.kind = "running"
        BY <1>2, <1>6, <2>2 DEF Fail
      <3>2. entry \in Nat /\ \A j \in 1 .. entry : canonical_entry_name(entries[j]) \in Parsed
        BY <1>2 DEF IInv, StateTypes, ParsedIsReached
      <3>3. CASE i \in 1 .. entry
        BY <1>6, <3>2, <3>3
      <3>4. CASE i \notin 1 .. entry
        <4>1. n = 0 /\ i = entry + 1
          BY <1>2, <2>2, <3>2, <3>4 DEF VisitFrame
        <4> QED BY <3>1, <4>1 DEF VisitContext
      <3> QED BY <3>3, <3>4
    <2>3. ASSUME NEW x \in Parsed'
          PROVE  \/ FirstCopy(x, m_parsed'[x])
                 \/ \E i \in DOMAIN entries : canonical_entry_name(entries[i]) = x /\ entries[i] = m_parsed'[x]
      <3>1. CASE x \in Parsed /\ x # k
        <4>1. m_parsed'[x] = m_parsed[x]
          BY <1>6, <3>1
        <4> QED BY <3>1, <4>1 DEF IInv, ParsedIsReached
      <3>2. CASE x = k
        <4>1. m_parsed'[x] = f
          BY <1>6, <2>3, <3>2
        <4>2. CASE FirstCopy(k, f)
          BY <3>2, <4>1, <4>2
        <4>3. CASE Len(m_stack) = 0 /\ f = entries[entry + 1]
          <5>1. entry + 1 \in DOMAIN entries
            BY <4>3 DEF IInv, StateTypes, VisitContext
          <5>2. canonical_entry_name(entries[entry + 1]) = x
            BY <3>2, <4>3 DEF VisitContext
          <5> QED BY <4>1, <4>3, <5>1, <5>2
        <4> QED BY <4>2, <4>3 DEF VisitContext
      <3> QED BY <1>6, <3>1, <3>2
    <2>4. entries' = entries
      BY <1>1
    <2> QED
      BY <2>1, <2>2, <2>3, <2>4 DEF ParsedIsReached
  <1>17. ResultIsTrue' /\ ErrorsAreReal'
    <2>1. IsInjective(m_sources') /\ Parsed' \subseteq ToSet(m_sources')
      BY <1>11 DEF MarkedIsParsed
    <2>2. CASE k \in Parsed'
      <3>1. result' = Running /\ result'.kind = "running"
        BY <1>6, <2>2 DEF VisitContext, Running
      <3> QED BY <2>1, <3>1 DEF ResultIsTrue, ErrorsAreReal
    <2>3. CASE k \notin Parsed'
      <3>1. result'.kind = "parse" /\ result'.key = k
        BY <1>6, <2>3 DEF Fail
      <3>2. Len(m_sources') > 0 /\ m_sources'[Len(m_sources')] = result'.key
        BY <1>5, <3>1
      <3> QED BY <2>1, <3>1, <3>2 DEF ResultIsTrue, ErrorsAreReal, Last
    <2> QED BY <2>2, <2>3
  <1> QED
    BY <1>10, <1>11, <1>12, <1>13, <1>14, <1>15, <1>16, <1>17 DEF IInv
\* visit() keeps the invariant.
LEMMA VisitKeeps ==
    ASSUME IInv, NEW k, NEW f, NEW below, VisitContext(k, f, below), VisitFrame, Visit(k, f, below)
    PROVE  IInv'
  BY VisitTooDeep, VisitMarks

-----------------------------------------------------------------------------
(* One lemma per action.                                                   *)

\* Before the first entry is visited the invariant holds.
LEMMA InitEstablishes == Init => IInv
  <1> SUFFICES ASSUME Init PROVE IInv
    OBVIOUS
  <1>1. imports \in [Files -> Seq(Spellings)] /\ entries \in Seq(OnDisk) /\ Len(entries) \in Nat
    BY ResolverAssumption DEF Init
  <1>2. /\ m_color = <<>> /\ m_parsed = <<>> /\ m_stack = <<>> /\ m_order = <<>> /\ m_sources = <<>>
        /\ entry = 0 /\ result = Running /\ result.kind = "running"
    BY DEF Init, Running
  <1>3. DOMAIN m_color = {} /\ DOMAIN m_parsed = {} /\ ToSet(m_sources) = {} /\ DOMAIN m_sources = {}
    BY <1>2 DEF ToSet
  <1>4. StateTypes
    <2>1. \A S : <<>> \in [{} -> S]
      OBVIOUS
    <2> QED
      BY <1>1, <1>2, <1>3, <2>1 DEF StateTypes, Parsed
  <1>5. MarkedIsParsed /\ IsInjective(m_sources)
    BY <1>2, <1>3 DEF MarkedIsParsed, Parsed, IsInjective
  <1>6. StackIsGray /\ StackIsChain /\ DealtIsBlack /\ OrderIsBlack
    BY <1>2, <1>3, ResolverAssumption DEF StackIsGray, StackIsChain, DealtIsBlack, OrderIsBlack
  <1>7. ParsedIsReached /\ ResultIsTrue /\ ErrorsAreReal
    BY <1>2, <1>3, <1>5 DEF ParsedIsReached, ResultIsTrue, ErrorsAreReal, Parsed
  <1> QED
    BY <1>4, <1>5, <1>6, <1>7 DEF IInv

\* run(): the next entry.
LEMMA NextEntryKeeps ==
    ASSUME IInv, NextEntry
    PROVE  IInv'
  <1> DEFINE f == entries[entry + 1]
             k == canonical_entry_name(f)
  <1>1. /\ result = Running /\ result.kind = "running" /\ m_stack = <<>> /\ entry < Len(entries)
        /\ entry' = entry + 1 /\ UNCHANGED <<imports, entries, m_order>>
    BY DEF NextEntry, Running, inputs
  <1>2. entry \in Nat /\ entry + 1 \in 1 .. Len(entries) /\ f \in OnDisk /\ f \in Files
    BY <1>1 DEF IInv, StateTypes, OnDisk
  <1>3. k \in Keys
    BY <1>2, EntryKey
  <1>4. ASSUME UNCHANGED <<m_color, m_parsed, m_stack, m_sources>>,
               \/ result' = result /\ k \in Parsed
               \/ result'.kind = "entry"
        PROVE  IInv'
    <2>1. entry' \in 0 .. Len(entries)
      BY <1>1, <1>2
    <2>2. StateTypes' /\ StackIsGray' /\ StackIsChain' /\ DealtIsBlack' /\ OrderIsBlack'
      BY <1>1, <1>4, <2>1 DEF IInv, StateTypes, StackIsGray, StackIsChain, DealtIsBlack, OrderIsBlack,
                         Target, ImportsOf, Parsed
    <2>3. MarkedIsParsed' /\ ResultIsTrue'
      BY <1>1, <1>4 DEF IInv, MarkedIsParsed, ResultIsTrue, Parsed
    <2>4. ErrorsAreReal'
      BY <1>1, <1>4 DEF IInv, ErrorsAreReal, Edge, ImportsOf, Parsed
    <2>5. Parsed' = Parsed /\ \A a, b : Edge(a, b)' <=> Edge(a, b)
      BY <1>1, <1>4 DEF Edge, ImportsOf, Parsed
    <2>6. result'.kind \in {"running", "ok"} =>
            \A i \in 1 .. entry' : canonical_entry_name(entries[i]) \in Parsed
      <3>1. \A i \in 1 .. entry : canonical_entry_name(entries[i]) \in Parsed
        BY <1>1 DEF IInv, ParsedIsReached
      <3>2. \A i \in 1 .. entry' : i \in 1 .. entry \/ i = entry + 1
        BY <1>1, <1>2
      <3> QED BY <1>4, <3>1, <3>2
    <2>7. ParsedIsReached'
      BY <1>1, <1>4, <2>5, <2>6 DEF IInv, ParsedIsReached
    <2> QED
      BY <2>2, <2>3, <2>4, <2>7 DEF IInv
  <1>5. CASE EntryDone(k)
    BY <1>4, <1>5 DEF NextEntry, EntryDone
  <1>6. CASE ~EntryDone(k) /\ f \in Unreadable
    BY <1>4, <1>6 DEF NextEntry, Fail
  <1>7. CASE ~EntryDone(k) /\ f \notin Unreadable
    <2>1. Visit(k, f, <<>>)
      BY <1>7 DEF NextEntry
    <2>2. k \notin DOMAIN m_color
      BY <1>1, <1>7 DEF IInv, MarkedIsParsed, EntryDone
    <2>3. Len(m_stack) = 0 /\ <<>> \in Seq(Frames)
      BY <1>1
    <2>5. VisitContext(k, f, <<>>)
      BY <1>1, <1>2, <1>3, <2>2, <2>3 DEF VisitContext
    <2>6. VisitFrame
      BY <1>1, <2>3 DEF VisitFrame
    <2> HIDE DEF k, f
    <2> QED BY <2>1, <2>5, <2>6, VisitKeeps
  <1> QED
    BY <1>5, <1>6, <1>7
\* A step that only sets the result keeps what the invariant says of the walk.
LEMMA FailureKeeps ==
    ASSUME IInv, result.kind = "running", result'.kind \notin {"running", "ok", "parse"},
           UNCHANGED <<imports, entries, entry, m_color, m_parsed, m_stack, m_order, m_sources>>,
           ErrorsAreReal'
    PROVE  IInv'
  <1>1. StateTypes' /\ StackIsGray' /\ StackIsChain' /\ DealtIsBlack' /\ OrderIsBlack'
    BY DEF IInv, StateTypes, StackIsGray, StackIsChain, DealtIsBlack, OrderIsBlack, Target, ImportsOf, Parsed
  <1>2. MarkedIsParsed' /\ ResultIsTrue'
    BY DEF IInv, MarkedIsParsed, ResultIsTrue, Parsed
  <1>3. ParsedIsReached'
    BY DEF IInv, ParsedIsReached, Edge, ImportsOf, Parsed
  <1> QED
    BY <1>1, <1>2, <1>3 DEF IInv

\* What the loop over the imports of the top frame has in hand.
LEMMA TopFacts ==
    ASSUME IInv, result = Running, m_stack # <<>>
    PROVE  LET n == Len(m_stack)
           IN  /\ n \in Nat \ {0} /\ m_stack \in [1 .. n -> Frames] /\ Top = m_stack[n]
               /\ Top.key \in Keys /\ Top.done \in Nat
               /\ Parsed = DOMAIN m_color /\ Top.key \in Parsed /\ m_color[Top.key] = "gray"
               /\ ImportsOf(Top.key) \in Seq(Spellings)
               /\ DOMAIN ImportsOf(Top.key) = 1 .. Len(ImportsOf(Top.key))
               /\ Len(ImportsOf(Top.key)) \in Nat
  <1> DEFINE n == Len(m_stack)
  <1>1. n \in Nat \ {0} /\ m_stack \in [1 .. n -> Frames] /\ Top = m_stack[n]
    <2>1. m_stack \in Seq(Frames)
      BY DEF IInv, StateTypes
    <2> QED BY <2>1, AdvancedFacts
  <1>2. Top.key \in Keys /\ Top.done \in Nat
    BY <1>1 DEF Frames
  <1>3. Parsed = DOMAIN m_color
    BY DEF IInv, MarkedIsParsed, Running
  <1>4. Top.key \in Parsed /\ m_color[Top.key] = "gray"
    BY <1>1, <1>3 DEF IInv, StackIsGray
  <1>5. ImportsOf(Top.key) \in Seq(Spellings)
    BY <1>4 DEF IInv, StateTypes, ImportsOf
  <1>6. DOMAIN ImportsOf(Top.key) = 1 .. Len(ImportsOf(Top.key)) /\ Len(ImportsOf(Top.key)) \in Nat
    BY <1>5
  <1> QED
    BY <1>1, <1>2, <1>3, <1>4, <1>5, <1>6

\* render_cycle: for a gray key it is a path of the graph that closes.
LEMMA CycleFacts ==
    ASSUME IInv, result = Running, m_stack # <<>>, NEW k \in DOMAIN m_color, m_color[k] = "gray",
           Edge(Top.key, k)
    PROVE  LET path == Cycle(k)
           IN  /\ Len(path) >= 2 /\ Head(path) = Last(path)
               /\ \A i \in 1 .. (Len(path) - 1) : Edge(path[i], path[i + 1])
  <1> DEFINE n == Len(m_stack)
             I == {i \in 1 .. Len(StackKeys) : StackKeys[i] = k}
             s == Min(I)
             path == SubSeq(StackKeys, s, n) \o <<k>>
  <1>1. n \in Nat \ {0} /\ m_stack \in [1 .. n -> Frames] /\ Top = m_stack[n]
    BY TopFacts
  <1>2. /\ StackKeys \in [1 .. n -> Keys] /\ StackKeys \in Seq(Keys) /\ Len(StackKeys) = n
        /\ \A i \in 1 .. n : StackKeys[i] = m_stack[i].key
    BY <1>1 DEF StackKeys, Frames
  <1>3. I # {}
    BY <1>1, <1>2 DEF IInv, StackIsGray
  <1>4. s \in I
    <2>1. I \subseteq Nat
      OBVIOUS
    <2> HIDE DEF I
    <2> QED BY <1>3, <2>1, MinIsLeast
  <1>5. s \in 1 .. n /\ m_stack[s].key = k /\ StackKeys[s] = k
    BY <1>2, <1>4
  <1>6. Cycle(k) = path
    <2>1. SelectInSeq(StackKeys, LAMBDA x : x = k) = s
      BY <1>3 DEF SelectInSeq
    <2> HIDE DEF s, I
    <2> QED BY <1>2, <2>1 DEF Cycle
  <1> HIDE DEF s, I
  <1> DEFINE p == SubSeq(StackKeys, s, n)
  <1>7. /\ p \in Seq(Keys) /\ Len(p) = n - s + 1
        /\ \A i \in 1 .. (n - s + 1) : p[i] = m_stack[s + i - 1].key
    <2>1. \A i \in s .. n : StackKeys[i] \in Keys
      BY <1>1, <1>2, <1>5
    <2>2. s \in Int /\ n \in Int /\ s <= n
      BY <1>1, <1>5
    <2> HIDE DEF n
    <2>3. /\ SubSeq(StackKeys, s, n) \in Seq(Keys)
          /\ Len(SubSeq(StackKeys, s, n)) = IF s <= n THEN n - s + 1 ELSE 0
          /\ \A i \in 1 .. n - s + 1 : SubSeq(StackKeys, s, n)[i] = StackKeys[s + i - 1]
      BY <2>1, <2>2, SubSeqProperties
    <2> HIDE DEF p
    <2>4. /\ p \in Seq(Keys) /\ Len(p) = IF s <= n THEN n - s + 1 ELSE 0
          /\ \A i \in 1 .. n - s + 1 : p[i] = StackKeys[s + i - 1]
      BY <2>3 DEF p
    <2>5. \A i \in 1 .. (n - s + 1) : s + i - 1 \in 1 .. n
      BY <1>1, <1>5, <2>2
    <2> QED BY <1>2, <2>2, <2>4, <2>5
  <1>8. path = Append(p, k) /\ k \in Keys
    <2>1. k \in Keys
      BY DEF IInv, StateTypes
    <2> HIDE DEF p
    <2>2. p \o <<k>> = Append(p, k)
      BY <1>7, <2>1, AppendIsConcat
    <2> QED BY <2>1, <2>2 DEF p
  <1> HIDE DEF path, p
  <1>9. /\ Len(path) = n - s + 2 /\ path \in Seq(Keys)
        /\ path[n - s + 2] = k
        /\ \A i \in 1 .. (n - s + 1) : path[i] = m_stack[s + i - 1].key
    <2>1. /\ Append(p, k) \in Seq(Keys) /\ Len(Append(p, k)) = Len(p) + 1
          /\ Append(p, k)[Len(p) + 1] = k
          /\ \A i \in 1 .. Len(p) : Append(p, k)[i] = p[i]
      BY <1>7, <1>8, Appended
    <2> HIDE DEF n
    <2> QED BY <1>1, <1>5, <1>7, <1>8, <2>1
  <1>10. Len(path) >= 2 /\ path[1] = k /\ Last(path) = k
    <2>1. n - s + 2 >= 2 /\ 1 \in 1 .. (n - s + 1) /\ s + 1 - 1 = s
      BY <1>1, <1>5
    <2>2. path[1] = m_stack[s + 1 - 1].key
      BY <1>9, <2>1
    <2> HIDE DEF n
    <2> QED BY <1>5, <1>9, <2>1, <2>2 DEF Last
  <1>11. Head(path) = k
    BY <1>9, <1>10
  <1>12. ASSUME NEW i \in 1 .. (Len(path) - 1) PROVE Edge(path[i], path[i + 1])
    <2>1. i \in 1 .. (n - s + 1) /\ path[i] = m_stack[s + i - 1].key
      <3>1. s \in Int /\ n \in Int
        BY <1>1, <1>5
      <3>2. Len(path) - 1 = n - s + 1
        BY <1>9, <3>1
      <3> QED BY <1>9, <3>2
    <2>2. CASE i = n - s + 1
      <3>1. s + i - 1 = n /\ i + 1 = n - s + 2
        BY <1>1, <1>5, <2>2
      <3>2. path[i] = Top.key
        BY <1>1, <2>1, <3>1
      <3>3. path[i + 1] = k
        BY <1>9, <3>1
      <3> QED BY <3>2, <3>3
    <2>3. CASE i # n - s + 1
      <3> DEFINE j == s + i - 1
      <3>1. i + 1 \in 1 .. (n - s + 1) /\ j \in 1 .. (n - 1) /\ s + (i + 1) - 1 = j + 1
        BY <1>1, <1>5, <2>1, <2>3
      <3>2. path[i + 1] = m_stack[j + 1].key
        BY <1>9, <3>1
      <3>3. /\ m_stack[j].key \in Parsed
            /\ m_stack[j].done \in 1 .. Len(ImportsOf(m_stack[j].key))
            /\ Target(m_stack[j].key, m_stack[j].done) = m_stack[j + 1].key
        BY <3>1 DEF IInv, StackIsChain
      <3>4. DOMAIN ImportsOf(m_stack[j].key) = 1 .. Len(ImportsOf(m_stack[j].key))
        <4>1. ImportsOf(m_stack[j].key) \in Seq(Spellings)
          BY <3>3 DEF IInv, StateTypes, ImportsOf
        <4> QED BY <4>1
      <3>5. Edge(m_stack[j].key, m_stack[j + 1].key)
        BY <3>3, <3>4 DEF Edge, Target
      <3> QED BY <2>1, <3>2, <3>5
    <2> QED BY <2>2, <2>3
  <1> QED
    BY <1>6, <1>10, <1>11, <1>12
\* visit(): one turn of the loop over the imports.
LEMMA NextImportKeeps ==
    ASSUME IInv, NextImport
    PROVE  IInv'
  <1> DEFINE n == Len(m_stack)
             k == Canon[ImportsOf(Top.key)[Top.done + 1]]
  <1>1. /\ result = Running /\ result.kind = "running" /\ m_stack # <<>>
        /\ Top.done < Len(ImportsOf(Top.key))
        /\ UNCHANGED <<imports, entries, entry, m_order>>
    BY DEF NextImport, Running, inputs
  <1>2. /\ n \in Nat \ {0} /\ m_stack \in [1 .. n -> Frames] /\ Top = m_stack[n]
        /\ Top.key \in Keys /\ Top.done \in Nat
        /\ Parsed = DOMAIN m_color /\ Top.key \in Parsed
        /\ ImportsOf(Top.key) \in Seq(Spellings)
        /\ DOMAIN ImportsOf(Top.key) = 1 .. Len(ImportsOf(Top.key))
        /\ Len(ImportsOf(Top.key)) \in Nat
    BY <1>1, TopFacts
  <1>3. Top.done + 1 \in 1 .. Len(ImportsOf(Top.key)) /\ Target(Top.key, Top.done + 1) = k
    BY <1>1, <1>2 DEF Target
  <1>4. k \in Keys
    BY <1>2, <1>3, ResolverAssumption
  <1>5. Edge(Top.key, k)
    BY <1>2, <1>3 DEF Edge
  <1>6. IsInjective(m_sources) /\ Parsed \subseteq ToSet(m_sources)
    BY DEF IInv, ErrorsAreReal
  <1>7. CASE k \in DOMAIN m_color /\ IsGray(k)
    <2>1. result' = Fail("cycle", k, Cycle(k)) /\ UNCHANGED <<m_color, m_parsed, m_stack, m_sources>>
      BY <1>7 DEF NextImport
    <2>2. /\ Len(Cycle(k)) >= 2 /\ Head(Cycle(k)) = Last(Cycle(k))
          /\ \A i \in 1 .. (Len(Cycle(k)) - 1) : Edge(Cycle(k)[i], Cycle(k)[i + 1])
      <3> HIDE DEF k
      <3> QED BY <1>1, <1>5, <1>7, CycleFacts DEF IsGray
    <2>3. result'.kind = "cycle" /\ result'.path = Cycle(k)
      BY <2>1 DEF Fail
    <2>4. Parsed' = Parsed /\ \A a, b : Edge(a, b)' <=> Edge(a, b)
      BY <1>1, <2>1 DEF Edge, ImportsOf, Parsed
    <2>5. ErrorsAreReal'
      <3> HIDE DEF k
      <3> QED BY <1>6, <2>1, <2>2, <2>3, <2>4 DEF ErrorsAreReal
    <2> QED
      BY <1>1, <2>1, <2>3, <2>5, FailureKeeps
  <1>8. CASE k \notin DOMAIN m_color /\ read_import(k) = NoFile
    <2>1. result' = Fail("missing", k, <<Top.key>>) /\ UNCHANGED <<m_color, m_parsed, m_stack, m_sources>>
      BY <1>8 DEF NextImport
    <2>2. result'.kind = "missing" /\ result'.key = k /\ result'.path = <<Top.key>>
      BY <2>1 DEF Fail
    <2>3. result'.path[1] = Top.key
      BY <2>2
    <2>4. Parsed' = Parsed /\ \A a, b : Edge(a, b)' <=> Edge(a, b)
      BY <1>1, <2>1 DEF Edge, ImportsOf, Parsed
    <2>5. /\ \A i \in DOMAIN Includes : k \in DOMAIN Includes[i] =>
                \E j \in 1 .. i : k \in DOMAIN Includes[j] /\ Includes[j][k] \in Unreadable
          /\ k \in DOMAIN Embedded => IncludeOf(k) # 0
      <3> HIDE DEF k
      <3> QED BY <1>4, <1>8, ReadFacts
    <2>6. ErrorsAreReal'
      <3> HIDE DEF k
      <3> QED BY <1>5, <1>6, <2>1, <2>2, <2>3, <2>4, <2>5 DEF ErrorsAreReal
    <2> QED
      BY <1>1, <2>1, <2>2, <2>6, FailureKeeps
  <1>9. CASE k \notin DOMAIN m_color /\ read_import(k) # NoFile
    <2>1. Visit(k, read_import(k), Advanced)
      BY <1>9 DEF NextImport
    <2>2. /\ Advanced \in Seq(Frames) /\ Len(Advanced) = n
          /\ \A i \in 1 .. n : Advanced[i].key = m_stack[i].key
          /\ \A i \in 1 .. (n - 1) : Advanced[i] = m_stack[i]
          /\ Advanced[n].done = m_stack[n].done + 1
      <3>1. m_stack \in Seq(Frames)
        BY DEF IInv, StateTypes
      <3> QED BY <1>1, <3>1, AdvancedFacts
    <2>3. VisitContext(k, read_import(k), Advanced)
      <3>1. /\ read_import(k) \in Files
            /\ FirstCopy(k, read_import(k))
        <4> HIDE DEF k
        <4> QED BY <1>4, <1>9, ReadFacts
      <3>2. Advanced[n].done <= Len(ImportsOf(m_stack[n].key)) /\ Target(m_stack[n].key, Advanced[n].done) = k
        BY <1>2, <1>3, <2>2
      <3> HIDE DEF k
      <3> QED BY <1>1, <1>2, <1>4, <1>9, <2>2, <3>1, <3>2 DEF VisitContext
    <2>4. VisitFrame
      BY <1>1, <1>2 DEF VisitFrame
    <2> HIDE DEF k
    <2> QED BY <2>1, <2>3, <2>4, VisitKeeps
  <1>10. CASE k \in DOMAIN m_color /\ ~IsGray(k)
    <2>1. m_stack' = Advanced /\ UNCHANGED <<m_color, m_parsed, m_sources, result>>
      BY <1>10 DEF NextImport
    <2>2. /\ m_stack' \in Seq(Frames) /\ Len(m_stack') = n
          /\ \A i \in 1 .. n : m_stack'[i].key = m_stack[i].key
          /\ \A i \in 1 .. (n - 1) : m_stack'[i] = m_stack[i]
          /\ m_stack'[n].done = m_stack[n].done + 1
      <3>1. m_stack \in Seq(Frames)
        BY DEF IInv, StateTypes
      <3> QED BY <1>1, <2>1, <3>1, AdvancedFacts
    <2>3. PICK q \in 1 .. Len(m_order) : m_order[q] = k
      <3>1. m_color[k] = "black"
        BY <1>10 DEF IInv, StateTypes, IsGray
      <3> HIDE DEF k
      <3> QED BY <1>10, <3>1 DEF IInv, OrderIsBlack
    <2>4. Parsed' = Parsed /\ (\A x : ImportsOf(x)' = ImportsOf(x)) /\ (\A a, b : Edge(a, b)' <=> Edge(a, b))
      BY <1>1, <2>1 DEF Edge, ImportsOf, Parsed
    <2>5. StateTypes'
      BY <1>1, <2>1, <2>2 DEF IInv, StateTypes, Parsed
    <2>6. MarkedIsParsed' /\ ResultIsTrue' /\ OrderIsBlack' /\ ErrorsAreReal'
      BY <1>1, <2>1 DEF IInv, MarkedIsParsed, ResultIsTrue, OrderIsBlack, ErrorsAreReal,
                        Edge, Target, ImportsOf, Parsed
    <2>7. ParsedIsReached'
      BY <1>1, <2>1, <2>4 DEF IInv, ParsedIsReached
    <2>8. StackIsGray'
      <3>1. /\ n <= kMaxImportDepth
            /\ \A i \in 1 .. n : m_stack[i].key \in DOMAIN m_color /\ m_color[m_stack[i].key] = "gray"
            /\ \A x \in DOMAIN m_color : m_color[x] = "gray" => \E i \in 1 .. n : m_stack[i].key = x
            /\ \A i, j \in 1 .. n : m_stack[i].key = m_stack[j].key => i = j
        BY DEF IInv, StackIsGray
      <3>2. m_color' = m_color /\ Len(m_stack') = n /\ \A i \in 1 .. n : m_stack'[i].key = m_stack[i].key
        BY <2>1, <2>2
      <3> HIDE DEF n, k
      <3> QED BY <3>1, <3>2 DEF StackIsGray
    <2>9. StackIsChain'
      <3>1. ASSUME NEW i \in 1 .. (n - 1)
            PROVE  m_stack'[i] = m_stack[i] /\ m_stack'[i + 1].key = m_stack[i + 1].key
        BY <1>2, <2>2
      <3> QED BY <1>1, <2>1, <2>2, <3>1 DEF IInv, StackIsChain, Target, ImportsOf, Parsed
    <2>10. DealtIsBlack'
      <3>1. ASSUME NEW i \in 1 .. n, m_stack[i].key \in Parsed
            PROVE  /\ m_stack'[i].done <= Len(ImportsOf(m_stack[i].key))
                   /\ \A j \in 1 .. m_stack'[i].done :
                        \/ i < n /\ j = m_stack'[i].done
                        \/ \E r \in 1 .. Len(m_order) : m_order[r] = Target(m_stack[i].key, j)
        <4>1. /\ m_stack[i].done <= Len(ImportsOf(m_stack[i].key))
              /\ \A j \in 1 .. m_stack[i].done :
                   \/ i < n /\ j = m_stack[i].done
                   \/ \E r \in 1 .. Len(m_order) : m_order[r] = Target(m_stack[i].key, j)
          BY <3>1 DEF IInv, DealtIsBlack
        <4>2. CASE i = n
          <5>1. m_stack'[i].done = Top.done + 1 /\ m_stack[i] = Top
            BY <1>2, <2>2, <4>2
          <5>2. \A j \in 1 .. (Top.done + 1) : j \in 1 .. Top.done \/ j = Top.done + 1
            BY <1>2
          <5>3. m_order[q] = Target(Top.key, Top.done + 1)
            BY <1>3, <2>3
          <5>4. n \in Nat /\ ~(n < n)
            BY <1>2
          <5> HIDE DEF k, n
          <5> QED BY <1>3, <4>1, <4>2, <5>1, <5>2, <5>3, <5>4
        <4>3. CASE i # n
          <5>1. n \in Nat
            BY <1>2
          <5>2. i \in 1 .. (n - 1)
            BY <4>3, <5>1
          <5> QED BY <2>2, <4>1, <5>2
        <4> QED BY <4>2, <4>3
      <3>2. \A i \in 1 .. n : m_stack'[i].key = m_stack[i].key
        BY <2>2
      <3>3. /\ Len(m_stack') = n /\ imports' = imports /\ m_parsed' = m_parsed /\ m_order' = m_order
        BY <1>1, <2>1, <2>2
      <3> HIDE DEF n, k
      <3> QED BY <3>1, <3>2, <3>3 DEF DealtIsBlack, Target, ImportsOf, Parsed
    <2> QED
      BY <2>5, <2>6, <2>7, <2>8, <2>9, <2>10 DEF IInv
  <1> QED
    BY <1>7, <1>8, <1>9, <1>10
\* visit(): the top file turns black and joins the order.
LEMMA FinishKeeps ==
    ASSUME IInv, Finish
    PROVE  IInv'
  <1> DEFINE n == Len(m_stack)
             k == Top.key
             len == Len(m_order)
  <1>1. /\ result = Running /\ result.kind = "running" /\ m_stack # <<>>
        /\ Top.done = Len(ImportsOf(k))
        /\ m_color' = Blackened /\ m_stack' = Front(m_stack) /\ m_order' = Append(m_order, k)
        /\ UNCHANGED <<imports, entries, entry, m_parsed, m_sources, result>>
    BY DEF Finish, Running, inputs
  <1>2. /\ n \in Nat \ {0} /\ m_stack \in [1 .. n -> Frames] /\ Top = m_stack[n]
        /\ k \in Keys /\ Parsed = DOMAIN m_color /\ k \in Parsed /\ m_color[k] = "gray"
    BY <1>1, TopFacts
  <1>3. /\ m_stack' \in Seq(Frames) /\ Len(m_stack') = n - 1
        /\ \A i \in 1 .. (n - 1) : m_stack'[i] = m_stack[i]
    <2>1. m_stack \in Seq(Frames)
      BY DEF IInv, StateTypes
    <2> QED BY <1>1, <2>1, FrontFacts
  <1>4. /\ m_order' \in Seq(Keys) /\ Len(m_order') = len + 1 /\ len \in Nat
        /\ m_order'[len + 1] = k
        /\ \A i \in 1 .. len : m_order'[i] = m_order[i]
    <2>1. m_order \in Seq(Keys)
      BY DEF IInv, StateTypes
    <2> QED BY <1>1, <1>2, <2>1, Appended
  <1>5. /\ DOMAIN m_color' = DOMAIN m_color /\ m_color'[k] = "black"
        /\ \A x \in DOMAIN m_color : x # k => m_color'[x] = m_color[x]
        /\ m_color' \in [DOMAIN m_color' -> {"gray", "black"}]
    BY <1>1, <1>2 DEF IInv, StateTypes, Blackened
  <1>6. Parsed' = Parsed /\ (\A x : ImportsOf(x)' = ImportsOf(x)) /\ (\A a, b : Edge(a, b)' <=> Edge(a, b))
    BY <1>1 DEF Edge, ImportsOf, Parsed
  <1>7. ASSUME NEW i \in 1 .. (n - 1)
        PROVE  m_stack[i].key # k /\ i \in 1 .. n
    <2>1. n \in Nat /\ n > 0
      BY <1>2
    <2>2. i \in 1 .. n /\ n \in 1 .. n /\ i # n
      BY <2>1
    <2> QED BY <1>2, <2>2 DEF IInv, StackIsGray
  <1>8. StateTypes'
    BY <1>1, <1>3, <1>4, <1>5, <1>6 DEF IInv, StateTypes
  <1>9. MarkedIsParsed' /\ ResultIsTrue' /\ ErrorsAreReal'
    BY <1>1, <1>5, <1>6 DEF IInv, MarkedIsParsed, ResultIsTrue, ErrorsAreReal
  <1>10. ParsedIsReached'
    BY <1>1, <1>6 DEF IInv, ParsedIsReached
  <1>11. StackIsGray'
    <2>1. /\ n <= kMaxImportDepth /\ kMaxImportDepth \in Nat
          /\ \A i \in 1 .. n : m_stack[i].key \in DOMAIN m_color /\ m_color[m_stack[i].key] = "gray"
          /\ \A x \in DOMAIN m_color : m_color[x] = "gray" => \E i \in 1 .. n : m_stack[i].key = x
          /\ \A i, j \in 1 .. n : m_stack[i].key = m_stack[j].key => i = j
      BY ResolverAssumption DEF IInv, StackIsGray
    <2>2. Len(m_stack') <= kMaxImportDepth
      BY <1>2, <1>3, <2>1
    <2>3. \A i \in 1 .. (n - 1) : m_stack'[i].key \in DOMAIN m_color' /\ m_color'[m_stack'[i].key] = "gray"
      BY <1>3, <1>5, <1>7, <2>1
    <2>4. ASSUME NEW x \in DOMAIN m_color', m_color'[x] = "gray"
          PROVE  \E i \in 1 .. (n - 1) : m_stack'[i].key = x
      <3>1. x # k /\ m_color[x] = "gray" /\ x \in DOMAIN m_color
        BY <1>5, <2>4
      <3>2. PICK i \in 1 .. n : m_stack[i].key = x
        BY <2>1, <3>1
      <3>3. i # n
        BY <1>2, <3>1, <3>2
      <3>4. i \in 1 .. (n - 1)
        <4>1. n \in Nat
          BY <1>2
        <4> QED BY <3>3, <4>1
      <3> QED BY <1>3, <3>2, <3>4
    <2>5. \A i, j \in 1 .. (n - 1) : m_stack'[i].key = m_stack'[j].key => i = j
      BY <1>3, <1>7, <2>1
    <2> QED
      BY <1>3, <2>2, <2>3, <2>4, <2>5 DEF StackIsGray
  <1>12. StackIsChain'
    <2>1. ASSUME NEW i \in 1 .. (n - 2)
          PROVE  m_stack'[i] = m_stack[i] /\ m_stack'[i + 1] = m_stack[i + 1] /\ i \in 1 .. (n - 1)
      <3>1. n \in Nat
        BY <1>2
      <3>2. i \in 1 .. (n - 1) /\ i + 1 \in 1 .. (n - 1)
        BY <3>1
      <3> QED BY <1>3, <3>2
    <2>2. Len(m_stack') - 1 = n - 2
      BY <1>2, <1>3
    <2>3. imports' = imports /\ m_parsed' = m_parsed
      BY <1>1
    <2>4. ASSUME NEW i \in 1 .. (n - 2)
          PROVE  /\ m_stack'[i].key \in Parsed'
                 /\ m_stack'[i].done \in 1 .. Len(ImportsOf(m_stack[i].key))
                 /\ Target(m_stack[i].key, m_stack[i].done) = m_stack'[i + 1].key
      BY <1>6, <2>1 DEF IInv, StackIsChain
    <2> QED
      BY <2>1, <2>2, <2>3, <2>4 DEF StackIsChain, Target, ImportsOf
  <1>13. DealtIsBlack'
    <2>1. ASSUME NEW i \in 1 .. (n - 1), m_stack[i].key \in Parsed
          PROVE  /\ m_stack[i].done <= Len(ImportsOf(m_stack[i].key))
                 /\ \A j \in 1 .. m_stack[i].done :
                      \/ i < n - 1 /\ j = m_stack[i].done
                      \/ \E q \in 1 .. (len + 1) : m_order'[q] = Target(m_stack[i].key, j)
      <3>1. /\ m_stack[i].done <= Len(ImportsOf(m_stack[i].key))
            /\ \A j \in 1 .. m_stack[i].done :
                 \/ i < n /\ j = m_stack[i].done
                 \/ \E q \in 1 .. len : m_order[q] = Target(m_stack[i].key, j)
        BY <1>7, <2>1 DEF IInv, DealtIsBlack
      <3>2. Target(m_stack[i].key, m_stack[i].done) = m_stack[i + 1].key
        BY DEF IInv, StackIsChain
      <3>3. i = n - 1 => m_order'[len + 1] = Target(m_stack[i].key, m_stack[i].done) /\ len + 1 \in 1 .. (len + 1)
        BY <1>2, <1>4, <3>2
      <3>4. i < n - 1 \/ i = n - 1
        <4>1. n \in Nat
          BY <1>2
        <4> QED BY <4>1
      <3>5. \A q \in 1 .. len : q \in 1 .. (len + 1) /\ m_order'[q] = m_order[q]
        BY <1>4
      <3> HIDE DEF n, len, k
      <3> QED BY <3>1, <3>3, <3>4, <3>5
    <2>2. \A i \in 1 .. (n - 1) : m_stack'[i] = m_stack[i]
      BY <1>3
    <2>3. /\ Len(m_stack') = n - 1 /\ Len(m_order') = len + 1
          /\ imports' = imports /\ m_parsed' = m_parsed
      BY <1>1, <1>3, <1>4
    <2> HIDE DEF n, len, k
    <2> QED
      BY <2>1, <2>2, <2>3 DEF DealtIsBlack, Target, ImportsOf, Parsed
  <1>14. OrderIsBlack'
    <2>1. \A q \in 1 .. len : m_order[q] \in Parsed /\ m_color[m_order[q]] = "black"
      BY DEF IInv, OrderIsBlack
    <2>2. \A q \in 1 .. len : m_order[q] # k
      BY <1>2, <2>1
    <2>3. \A q \in 1 .. (len + 1) : q = len + 1 \/ q \in 1 .. len
      BY <1>4
    <2>4. \A q \in 1 .. (len + 1) : m_order'[q] \in Parsed' /\ m_color'[m_order'[q]] = "black"
      <3> HIDE DEF len, k
      <3> QED BY <1>2, <1>4, <1>5, <1>6, <2>1, <2>2, <2>3
    <2>5. ASSUME NEW x \in DOMAIN m_color', m_color'[x] = "black"
          PROVE  \E q \in 1 .. (len + 1) : m_order'[q] = x
      <3>1. CASE x = k
        BY <1>4, <3>1
      <3>2. CASE x # k
        <4>1. PICK q \in 1 .. len : m_order[q] = x
          BY <1>5, <2>5, <3>2 DEF IInv, OrderIsBlack
        <4>2. q \in 1 .. (len + 1)
          BY <1>4
        <4> QED BY <1>4, <4>1, <4>2
      <3> QED BY <3>1, <3>2
    <2>6. \A q, r \in 1 .. (len + 1) : m_order'[q] = m_order'[r] => q = r
      <3>1. \A q, r \in 1 .. len : m_order[q] = m_order[r] => q = r
        BY DEF IInv, OrderIsBlack
      <3> HIDE DEF len, k
      <3> QED BY <1>4, <2>2, <2>3, <3>1
    <2>7. ASSUME NEW q \in 1 .. (len + 1), NEW j \in 1 .. Len(ImportsOf(m_order'[q]))
          PROVE  \E r \in 1 .. (q - 1) : m_order'[r] = Target(m_order'[q], j)
      <3>1. CASE q \in 1 .. len
        <4>1. m_order'[q] = m_order[q]
          BY <1>4, <3>1
        <4>2. PICK r \in 1 .. (q - 1) : m_order[r] = Target(m_order[q], j)
          BY <2>7, <3>1, <4>1 DEF IInv, OrderIsBlack
        <4>3. r \in 1 .. len
          BY <1>4, <3>1
        <4> QED BY <1>4, <4>1, <4>2, <4>3
      <3>2. CASE q = len + 1
        <4>1. m_order'[q] = k /\ q - 1 = len /\ j \in 1 .. Top.done
          BY <1>1, <1>4, <3>2
        <4>2. PICK r \in 1 .. len : m_order[r] = Target(k, j)
          <5>1. n \in 1 .. n /\ ~(n < n) /\ m_stack[n] = Top
            BY <1>2
          <5> QED BY <1>2, <4>1, <5>1 DEF IInv, DealtIsBlack
        <4> QED BY <1>4, <4>1, <4>2
      <3> QED BY <2>3, <3>1, <3>2
    <2>8. Len(m_order') = len + 1 /\ imports' = imports /\ m_parsed' = m_parsed
      BY <1>1, <1>4
    <2> HIDE DEF len, k, n
    <2> QED
      BY <2>4, <2>5, <2>6, <2>7, <2>8 DEF OrderIsBlack, Target, ImportsOf
  <1> QED
    BY <1>8, <1>9, <1>10, <1>11, <1>12, <1>13, <1>14 DEF IInv

\* run(): the order is returned.
LEMMA DeliverKeeps ==
    ASSUME IInv, Deliver
    PROVE  IInv'
  <1>1. /\ result = Running /\ result.kind = "running" /\ m_stack = <<>> /\ entry = Len(entries)
        /\ result'.kind = "ok" /\ result'.path = m_order
        /\ UNCHANGED <<imports, entries, entry, m_color, m_parsed, m_stack, m_order, m_sources>>
    BY DEF Deliver, Running, inputs
  <1>2. StateTypes' /\ StackIsGray' /\ StackIsChain' /\ DealtIsBlack' /\ OrderIsBlack'
    BY <1>1 DEF IInv, StateTypes, StackIsGray, StackIsChain, DealtIsBlack, OrderIsBlack, Target, ImportsOf, Parsed
  <1>3. MarkedIsParsed' /\ ResultIsTrue'
    BY <1>1 DEF IInv, MarkedIsParsed, ResultIsTrue, Parsed
  <1>4. ParsedIsReached' /\ ErrorsAreReal'
    BY <1>1 DEF IInv, ParsedIsReached, ErrorsAreReal, Edge, ImportsOf, Parsed
  <1> QED
    BY <1>2, <1>3, <1>4 DEF IInv

\* A step that changes nothing keeps the invariant.
LEMMA StutterKeeps ==
    ASSUME IInv, UNCHANGED vars
    PROVE  IInv'
  BY DEF IInv, vars, StateTypes, MarkedIsParsed, StackIsGray, StackIsChain, DealtIsBlack, OrderIsBlack,
         ParsedIsReached, ResultIsTrue, ErrorsAreReal, Edge, Target, ImportsOf, Parsed
-----------------------------------------------------------------------------
(* The theorems.                                                           *)

\* The inductive invariant holds in every state of the resolver.
THEOREM Invariance == Spec => []IInv
  <1>1. IInv /\ [Next]_vars => IInv'
    BY NextEntryKeeps, NextImportKeeps, FinishKeeps, DeliverKeeps, StutterKeeps DEF Next
  <1> QED
    BY <1>1, InitEstablishes, PTL DEF Spec

\* Whatever the import graph, the include paths and the batch: the gray files are the
\* chain of visits under way, each imported by the one below it, no more than the cap.
THEOREM GrayFilesAreTheChain == Spec => []GrayIsTheStack
  <1>1. IInv => GrayIsTheStack
    <2> SUFFICES ASSUME IInv PROVE GrayIsTheStack
      OBVIOUS
    <2> DEFINE n == Len(m_stack)
    <2>1. /\ n \in Nat /\ n <= kMaxImportDepth /\ DOMAIN m_stack = 1 .. n
          /\ DOMAIN StackKeys = 1 .. n /\ \A i \in 1 .. n : StackKeys[i] = m_stack[i].key
      BY DEF IInv, StateTypes, StackIsGray, StackKeys
    <2>2. {k \in DOMAIN m_color : m_color[k] = "gray"} = ToSet(StackKeys)
      BY <2>1 DEF IInv, StackIsGray, ToSet
    <2>3. IsInjective(StackKeys)
      BY <2>1 DEF IInv, StackIsGray, IsInjective
    <2>4. ASSUME NEW i \in 1 .. (n - 1) PROVE Edge(m_stack[i].key, m_stack[i + 1].key)
      <3>1. /\ m_stack[i].key \in Parsed
            /\ m_stack[i].done \in 1 .. Len(ImportsOf(m_stack[i].key))
            /\ Target(m_stack[i].key, m_stack[i].done) = m_stack[i + 1].key
        BY DEF IInv, StackIsChain
      <3>2. ImportsOf(m_stack[i].key) \in Seq(Spellings)
        BY <3>1 DEF IInv, StateTypes, ImportsOf
      <3>3. DOMAIN ImportsOf(m_stack[i].key) = 1 .. Len(ImportsOf(m_stack[i].key))
        BY <3>2
      <3> QED BY <3>1, <3>3 DEF Edge, Target
    <2> QED
      BY <2>1, <2>2, <2>3, <2>4 DEF GrayIsTheStack
  <1> QED
    BY <1>1, Invariance, PTL

\* m_order is topological at every moment, for every batch and every import graph.
THEOREM TopologicalOrder == Spec => []OrderIsTopological
  <1>1. IInv => OrderIsTopological
    <2> SUFFICES ASSUME IInv PROVE OrderIsTopological
      OBVIOUS
    <2>1. DOMAIN m_order = 1 .. Len(m_order)
      BY DEF IInv, StateTypes
    <2>2. IsInjective(m_order)
      BY <2>1 DEF IInv, OrderIsBlack, IsInjective
    <2>3. ASSUME NEW i \in DOMAIN m_order, NEW k \in Keys, Edge(m_order[i], k)
          PROVE  \E j \in 1 .. (i - 1) : m_order[j] = k
      <3>1. m_order[i] \in Parsed
        BY <2>1 DEF IInv, OrderIsBlack
      <3>2. ImportsOf(m_order[i]) \in Seq(Spellings)
        BY <3>1 DEF IInv, StateTypes, ImportsOf
      <3>3. PICK j \in 1 .. Len(ImportsOf(m_order[i])) : Target(m_order[i], j) = k
        BY <2>3, <3>2 DEF Edge, Target
      <3> QED BY <2>1, <3>3 DEF IInv, OrderIsBlack
    <2> QED
      BY <2>2, <2>3 DEF OrderIsTopological
  <1> QED
    BY <1>1, Invariance, PTL

\* What run() delivers is the closure of the entries, and what it parses for an import is
\* the first copy on the include paths, readable or not.
THEOREM ClosureDelivered == Spec => []DeliversTheClosure
  <1>1. IInv => DeliversTheClosure
    <2> SUFFICES ASSUME IInv PROVE DeliversTheClosure
      OBVIOUS
    <2>1. ASSUME result.kind = "ok" PROVE ToSet(result.path) = Parsed
      <3>1. result.path = m_order /\ m_stack = <<>> /\ Parsed = DOMAIN m_color
        BY <2>1 DEF IInv, ResultIsTrue, MarkedIsParsed
      <3>2. DOMAIN m_order = 1 .. Len(m_order) /\ \A k \in DOMAIN m_color : m_color[k] \in {"gray", "black"}
        BY DEF IInv, StateTypes
      <3>3. \A k \in Parsed : m_color[k] = "black"
        BY <3>1, <3>2 DEF IInv, StackIsGray
      <3>4. /\ \A q \in 1 .. Len(m_order) : m_order[q] \in Parsed
            /\ \A k \in Parsed : \E q \in 1 .. Len(m_order) : m_order[q] = k
        BY <3>1, <3>3 DEF IInv, OrderIsBlack
      <3>5. ToSet(m_order) = Parsed
        BY <3>2, <3>4 DEF ToSet
      <3> QED BY <3>1, <3>5
    <2>2. ASSUME result.kind = "ok", NEW i \in DOMAIN entries
          PROVE  canonical_entry_name(entries[i]) \in Parsed
      <3>1. i \in 1 .. entry
        BY <2>2 DEF IInv, StateTypes, ResultIsTrue
      <3> QED BY <2>2, <3>1 DEF IInv, ParsedIsReached
    <2> QED
      BY <2>1, <2>2 DEF IInv, ParsedIsReached, DeliversTheClosure
  <1> QED
    BY <1>1, Invariance, PTL

\* Every diagnostic of the resolver is true of the graph it has walked, and points into
\* a registered source.
THEOREM DiagnosticsAreTrue == Spec => []ErrorsAreReal
  <1>1. IInv => ErrorsAreReal
    BY DEF IInv
  <1> QED
    BY <1>1, Invariance, PTL

-----------------------------------------------------------------------------
(* Type resolution: names                                                  *)

\* The input as the resolver gets it.
LEMMA FileFacts ==
    ASSUME files \in FileSets, NEW f \in DOMAIN files
    PROVE  /\ Len(files) \in Nat \ {0} /\ DOMAIN files = 1 .. Len(files)
           /\ IsSeq(files[f].package) /\ IsSeq(Types(f)) /\ IsSeq(files[f].imports) /\ IsSeq(files[f].extends)
           /\ \A m \in ToSet(files[f].imports) :
                m.file \in DOMAIN files /\ m.kind \in {"standard", "public", "weak", "option"}
           /\ \A i \in DOMAIN files[f].extends : IsSeq(files[f].extends[i].fields)
           /\ Len(Types(f)) \in Nat /\ DOMAIN Types(f) = 1 .. Len(Types(f))
           /\ \A t \in DOMAIN Types(f) :
                /\ Types(f)[t].parent \in 0 .. (t - 1) /\ Types(f)[t].kind \in {"message", "enum"}
                /\ Types(f)[t].parent # 0 => Types(f)[Types(f)[t].parent].kind = "message"
                /\ Types(f)[t].kind = "enum" =>
                     Types(f)[t].fields = <<>> /\ Types(f)[t].maps = <<>> /\ Types(f)[t].extends = <<>>
                /\ IsSeq(Types(f)[t].fields) /\ IsSeq(Types(f)[t].maps) /\ IsSeq(Types(f)[t].extends)
                /\ \A i \in DOMAIN Types(f)[t].extends : IsSeq(Types(f)[t].extends[i].fields)
  <1>1. PICK s \in FileSets : s = files
    OBVIOUS
  <1>2. IsSeq(s) /\ s # <<>>
    BY FileSetsAssumption DEF IsSeq
  <1>3. Len(s) \in Nat /\ DOMAIN s = 1 .. Len(s)
    BY <1>2, SeqFacts
  <1>4. Len(s) # 0
    BY <1>2, EmptySeq DEF IsSeq
  <1>5. /\ IsSeq(s[f].package) /\ IsSeq(s[f].types) /\ IsSeq(s[f].imports) /\ IsSeq(s[f].extends)
        /\ \A m \in ToSet(s[f].imports) :
             m.file \in DOMAIN s /\ m.kind \in {"standard", "public", "weak", "option"}
        /\ \A i \in DOMAIN s[f].extends : IsSeq(s[f].extends[i].fields)
        /\ \A t \in DOMAIN s[f].types :
             /\ s[f].types[t].parent \in 0 .. (t - 1) /\ s[f].types[t].kind \in {"message", "enum"}
             /\ s[f].types[t].parent # 0 => s[f].types[s[f].types[t].parent].kind = "message"
             /\ s[f].types[t].kind = "enum" =>
                  s[f].types[t].fields = <<>> /\ s[f].types[t].maps = <<>> /\ s[f].types[t].extends = <<>>
             /\ IsSeq(s[f].types[t].fields) /\ IsSeq(s[f].types[t].maps) /\ IsSeq(s[f].types[t].extends)
             /\ \A i \in DOMAIN s[f].types[t].extends : IsSeq(s[f].types[t].extends[i].fields)
    BY <1>1, FileSetsAssumption DEF IsSeq
  <1>6. Len(s[f].types) \in Nat /\ DOMAIN s[f].types = 1 .. Len(s[f].types)
    BY <1>5, SeqFacts
  <1> QED BY <1>1, <1>3, <1>4, <1>5, <1>6 DEF Types

\* compute_fqns gives every type, and the file itself, a name.
LEMMA FqnFacts ==
    ASSUME files \in FileSets, NEW f \in DOMAIN files, NEW t \in 0 .. Len(Types(f))
    PROVE  IsSeq(Fqn(f, t)) /\ Len(Fqn(f, t)) \in Nat
  <1> DEFINE n == Len(Types(f))
             par(i) == Types(f)[i].parent
             nam(i) == Types(f)[i].name
             pkg == files[f].package
             X == ToSet(pkg) \cup {nam(i) : i \in 1 .. n}
             V == [0 .. n -> Seq(X)]
             a == [i \in 0 .. n |-> pkg]
             step == [i \in 1 .. n |-> [v \in V |-> [v EXCEPT ![i] = Append(v[par(i)], nam(i))]]]
             Body(d, i) == IF i = 0 THEN pkg ELSE Append(d[par(i)], nam(i))
             r == CHOOSE d : d = [i \in 0 .. n |-> Body(d, i)]
  <1>1. n \in Nat /\ pkg \in Seq(X) /\ \A i \in 1 .. n : par(i) \in 0 .. (i - 1) /\ nam(i) \in X
    <2>1. n \in Nat /\ DOMAIN Types(f) = 1 .. n /\ \A i \in 1 .. n : par(i) \in 0 .. (i - 1)
      BY FileFacts
    <2>2. pkg \in Seq(ToSet(pkg))
      BY FileFacts DEF IsSeq
    <2>3. pkg \in Seq(X)
      <3> HIDE DEF pkg, nam
      <3> QED BY <2>2
    <2> QED BY <2>1, <2>3
  <1> HIDE DEF par, nam, pkg, n, X
  <1>2. \A i \in 1 .. n : i \in 0 .. n /\ par(i) \in 0 .. n /\ i - 1 \in 0 .. n
    BY <1>1
  <1>3. a \in V
    BY <1>1
  <1>4. step \in [1 .. n -> [V -> V]]
    <2>1. ASSUME NEW i \in 1 .. n, NEW v \in V PROVE [v EXCEPT ![i] = Append(v[par(i)], nam(i))] \in V
      <3>1. v[par(i)] \in Seq(X) /\ nam(i) \in X
        BY <1>1, <1>2
      <3>2. Append(v[par(i)], nam(i)) \in Seq(X)
        BY <3>1, AppendProperties
      <3> QED BY <1>2, <3>2
    <2> HIDE DEF V
    <2> QED BY <2>1
  <1>5. PICK g : g \in [0 .. n -> V] /\ g[0] = a /\ \A i \in 1 .. n : g[i] = step[i][g[i - 1]]
    <2> HIDE DEF step, V, a
    <2>1. \E g : Iterates(g, n, V, a, step)
      BY <1>1, <1>3, <1>4, RecursionExists
    <2> QED BY <2>1 DEF Iterates
  <1>6. ASSUME NEW i \in 1 .. n
        PROVE  /\ g[i] = [g[i - 1] EXCEPT ![i] = Append(g[i - 1][par(i)], nam(i))]
               /\ DOMAIN g[i - 1] = 0 .. n
    <2>1. g[i - 1] \in V
      BY <1>2, <1>5
    <2>2. DOMAIN g[i - 1] = 0 .. n
      BY <2>1
    <2>3. g[i] = step[i][g[i - 1]]
      BY <1>5
    <2> HIDE DEF V
    <2> QED BY <2>1, <2>2, <2>3
  <1> DEFINE T == {j \in 0 .. n : \A i \in 0 .. j : g[j][i] = g[i][i]}
  <1>7. \A j \in 0 .. n : j \in T
    <2>1. 0 \in T
      BY <1>1
    <2>2. ASSUME NEW j \in 1 .. n, j - 1 \in T PROVE j \in T
      <3>1. ASSUME NEW i \in 0 .. j, i # j PROVE g[j][i] = g[i][i]
        <4>1. i \in 0 .. (j - 1) /\ i \in 0 .. n
          BY <1>1, <3>1
        <4>2. g[j - 1][i] = g[i][i]
          BY <2>2, <4>1
        <4>3. g[j][i] = g[j - 1][i]
          BY <1>6, <3>1, <4>1
        <4> QED BY <4>2, <4>3
      <3> QED BY <1>2, <3>1
    <2> HIDE DEF T
    <2> QED BY <1>1, <2>1, <2>2, UpTo
  <1>8. PICK d : d = [i \in 0 .. n |-> g[i][i]]
    OBVIOUS
  <1>9. d = [i \in 0 .. n |-> Body(d, i)]
    <2>1. ASSUME NEW i \in 0 .. n PROVE d[i] = Body(d, i)
      <3>1. CASE i = 0
        BY <1>5, <1>8, <3>1
      <3>2. CASE i # 0
        <4>1. i \in 1 .. n /\ par(i) \in 0 .. (i - 1) /\ par(i) \in 0 .. n /\ i - 1 \in 0 .. n
          BY <1>1, <1>2, <3>2
        <4>2. g[i][i] = Append(g[i - 1][par(i)], nam(i))
          BY <1>6, <4>1
        <4>3. g[i - 1][par(i)] = g[par(i)][par(i)]
          BY <1>7, <4>1
        <4>4. d[i] = g[i][i] /\ d[par(i)] = g[par(i)][par(i)]
          BY <1>8, <4>1
        <4> QED BY <3>2, <4>2, <4>3, <4>4
      <3> QED BY <3>1, <3>2
    <2> HIDE DEF Body
    <2> QED BY <1>8, <2>1
  <1>10. r = [i \in 0 .. n |-> Body(r, i)]
    <2> HIDE DEF Body
    <2> QED BY <1>9
  <1>11. Fqn(f, t) = r[t]
    BY DEF Fqn, n, par, nam, pkg
  <1> HIDE DEF r
  <1>12. r[0] = pkg /\ \A i \in 1 .. n : r[i] = Append(r[par(i)], nam(i))
    <2>1. \A i \in 0 .. n : r[i] = Body(r, i)
      <3> HIDE DEF Body
      <3> QED BY <1>10
    <2>2. 0 \in 0 .. n /\ \A i \in 1 .. n : i \in 0 .. n /\ i # 0
      BY <1>1
    <2> QED BY <2>1, <2>2
  <1> DEFINE U == {j \in 0 .. n : \A i \in 0 .. j : r[i] \in Seq(X)}
  <1>13. \A j \in 0 .. n : j \in U
    <2>1. 0 \in U
      <3>1. \A i \in 0 .. 0 : i = 0
        OBVIOUS
      <3> QED BY <1>1, <1>12, <3>1
    <2>2. ASSUME NEW j \in 1 .. n, j - 1 \in U PROVE j \in U
      <3>1. \A i \in 0 .. (j - 1) : r[i] \in Seq(X)
        BY <2>2
      <3>2. r[par(j)] \in Seq(X) /\ nam(j) \in X
        BY <1>1, <3>1
      <3>3. r[j] \in Seq(X)
        BY <1>12, <3>2, AppendProperties
      <3>4. \A i \in 0 .. j : i = j \/ i \in 0 .. (j - 1)
        BY <1>1
      <3> QED BY <1>2, <3>1, <3>3, <3>4
    <2> HIDE DEF U
    <2> QED BY <1>1, <2>1, <2>2, UpTo
  <1>14. t \in 0 .. n /\ t \in 0 .. t
    BY <1>1 DEF n
  <1>15. r[t] \in Seq(X)
    BY <1>13, <1>14
  <1> QED BY <1>11, <1>15, SeqOfElements

\* What the declarations of the input mean does not change while it is resolved.
LEMMA SameFiles ==
    ASSUME files' = files
    PROVE  /\ \A f : Types(f)' = Types(f) /\ Scopes(f)' = Scopes(f) /\ MayName(f)' = MayName(f)
           /\ \A f, t : Fqn(f, t)' = Fqn(f, t) /\ ExtendsOf(f, t)' = ExtendsOf(f, t)
           /\ \A f, S : ClosedFor(f, S)' = ClosedFor(f, S)
           /\ \A f, kinds : ImportedBy(f, kinds)' = ImportedBy(f, kinds)
           /\ \A f, scope, name : Meaning(f, scope, name)' = Meaning(f, scope, name)
           /\ \A f, t, i : Extendee(f, t, i)' = Extendee(f, t, i)
           /\ \A f, t, d : (FieldOk(f, t, d)' <=> FieldOk(f, t, d)) /\ (MapOk(f, t, d)' <=> MapOk(f, t, d))
           /\ \A q : IsMessage(q)' <=> IsMessage(q)
           /\ NamesUnique' <=> NamesUnique
           /\ Sound' <=> Sound
           /\ \A S : Declared(S)' = Declared(S)
  <1>1. \A f : Types(f)' = Types(f) /\ Scopes(f)' = Scopes(f)
    BY DEF Types, Scopes
  <1>2. \A f, t : Fqn(f, t)' = Fqn(f, t)
    BY <1>1 DEF Fqn
  <1>3. \A S : Declared(S)' = Declared(S)
    BY <1>1, <1>2 DEF Declared
  <1>4. \A f, kinds : ImportedBy(f, kinds)' = ImportedBy(f, kinds)
    BY DEF ImportedBy
  <1>5. \A f, S : ClosedFor(f, S)' = ClosedFor(f, S)
    BY <1>4 DEF ClosedFor
  <1>6. \A f : MayName(f)' = MayName(f)
    BY <1>5 DEF MayName
  <1>7. \A f, t : ExtendsOf(f, t)' = ExtendsOf(f, t)
    BY <1>1 DEF ExtendsOf
  <1>8. ASSUME NEW f, NEW scope, NEW name PROVE Meaning(f, scope, name)' = Meaning(f, scope, name)
    <2>1. PICK D : D = Declared(MayName(f))
      OBVIOUS
    <2>2. Declared(MayName(f))' = D
      BY <1>3, <1>6, <2>1
    <2>3. PICK r : r = Readings(name, scope)
      OBVIOUS
    <2>4. Readings(name, scope)' = r
      BY <2>3 DEF Readings
    <2>5. PICK there : there = {i \in DOMAIN r : r[i] \in D}
      OBVIOUS
    <2>6. Meaning(f, scope, name) = IF there = {} THEN Unresolved ELSE r[Min(there)]
      BY <2>1, <2>3, <2>5 DEF Meaning
    <2>7. Meaning(f, scope, name)' = IF there = {} THEN Unresolved ELSE r[Min(there)]
      BY <2>2, <2>4, <2>5 DEF Meaning
    <2> QED BY <2>6, <2>7
  <1>9. \A f, t, i : Extendee(f, t, i)' = Extendee(f, t, i)
    BY <1>2, <1>7, <1>8 DEF Extendee
  <1>10. \A f, t, d : FieldOk(f, t, d)' <=> FieldOk(f, t, d)
    BY <1>2, <1>8 DEF FieldOk
  <1>11. \A f, t, d : MapOk(f, t, d)' <=> MapOk(f, t, d)
    BY <1>10 DEF MapOk
  <1>12. \A q : IsMessage(q)' <=> IsMessage(q)
    BY <1>1, <1>2 DEF IsMessage
  <1>13. \A f, t, i : BlockOk(f, t, i)' <=> BlockOk(f, t, i)
    BY <1>7, <1>9, <1>10, <1>12 DEF BlockOk
  <1>14. NamesUnique' <=> NamesUnique
    BY <1>1, <1>2 DEF NamesUnique
  <1>15. NumbersUnique' <=> NumbersUnique
    BY <1>1, <1>7, <1>9 DEF NumbersUnique
  <1>16. Sound' <=> Sound
    BY <1>1, <1>7, <1>10, <1>11, <1>13, <1>14, <1>15 DEF Sound
  <1> QED BY <1>1, <1>2, <1>3, <1>4, <1>5, <1>6, <1>7, <1>8, <1>9, <1>10, <1>11, <1>12, <1>14, <1>16

\* The types nested in t, by their places in the file.
LEMMA ChildrenFacts ==
    ASSUME files \in FileSets, NEW f \in DOMAIN files, NEW t, NEW kind
    PROVE  /\ IsSeq(Children(f, t, kind)) /\ NoRepeat(Children(f, t, kind))
           /\ ToSet(Children(f, t, kind)) = {i \in DOMAIN Types(f) : Types(f)[i].parent = t /\ Types(f)[i].kind = kind}
  <1>1. PICK n : n = Len(Types(f))
    OBVIOUS
  <1>2. n \in Nat /\ DOMAIN Types(f) = 1 .. n
    BY <1>1, FileFacts
  <1>3. PICK s : s = [i \in 1 .. n |-> i]
    OBVIOUS
  <1>4. s \in Seq(1 .. n) /\ ToSet(s) = 1 .. n /\ NoRepeat(s)
    <2>1. s \in [1 .. n -> 1 .. n] /\ DOMAIN s = 1 .. n /\ \A i \in 1 .. n : s[i] = i
      BY <1>3
    <2>2. s \in Seq(1 .. n)
      BY <1>2, <2>1, SeqDef
    <2>3. NoRepeat(s)
      BY <2>1 DEF NoRepeat
    <2> QED BY <2>1, <2>2, <2>3 DEF ToSet
  <1>5. PICK S : S = {i \in 1 .. n : Types(f)[i].parent = t /\ Types(f)[i].kind = kind}
    OBVIOUS
  <1>6. Children(f, t, kind) = Select(s, S)
    BY <1>2, <1>3, <1>5 DEF Children
  <1>7. Select(s, S) \in Seq(1 .. n) /\ ToSet(Select(s, S)) = ToSet(s) \cap S /\ NoRepeat(Select(s, S))
    BY <1>4, SelectFacts
  <1>8. IsSeq(Select(s, S))
    BY <1>7, SeqOfElements
  <1>9. (1 .. n) \cap S = S
    BY <1>5
  <1> QED BY <1>2, <1>4, <1>5, <1>6, <1>7, <1>8, <1>9

\* The places of a sequence, in order.
LEMMA PlacesFacts ==
    ASSUME NEW s, IsSeq(s)
    PROVE  IsSeq(Places(s)) /\ NoRepeat(Places(s)) /\ ToSet(Places(s)) = DOMAIN s
  <1>1. PICK n : n = Len(s)
    OBVIOUS
  <1>2. n \in Nat /\ DOMAIN s = 1 .. n
    BY <1>1, SeqFacts
  <1>3. PICK p : p = Places(s)
    OBVIOUS
  <1>4. p = [i \in 1 .. n |-> i]
    BY <1>2, <1>3 DEF Places
  <1>5. p \in [1 .. n -> 1 .. n] /\ DOMAIN p = 1 .. n /\ \A i \in 1 .. n : p[i] = i
    BY <1>4
  <1>6. IsSeq(p)
    BY <1>2, <1>5, FunctionIsSeq
  <1>7. NoRepeat(p) /\ ToSet(p) = 1 .. n
    BY <1>5 DEF NoRepeat, ToSet
  <1> QED BY <1>2, <1>3, <1>6, <1>7

\* The extend blocks of a message or of a file.
LEMMA ExtendsFacts ==
    ASSUME files \in FileSets, NEW f \in DOMAIN files, NEW t \in Scopes(f)
    PROVE  /\ IsSeq(ExtendsOf(f, t))
           /\ \A i \in DOMAIN ExtendsOf(f, t) : IsSeq(ExtendsOf(f, t)[i].fields)
  <1>1. CASE t = 0
    BY <1>1, FileFacts DEF ExtendsOf
  <1>2. CASE t # 0
    <2>1. t \in DOMAIN Types(f)
      BY <1>2, FileFacts DEF Scopes
    <2> QED BY <1>2, <2>1, FileFacts DEF ExtendsOf
  <1> QED BY <1>1, <1>2

\* A work list for a sequence of arguments.
LEMMA TasksFacts ==
    ASSUME NEW op, NEW scope, NEW args, IsSeq(args)
    PROVE  /\ IsSeq(Tasks(op, scope, args))
           /\ NoRepeat(args) => NoRepeat(Tasks(op, scope, args))
           /\ ToSet(Tasks(op, scope, args)) = {Task(op, scope, a) : a \in ToSet(args)}
  <1>1. PICK n : n = Len(args)
    OBVIOUS
  <1>2. n \in Nat /\ DOMAIN args = 1 .. n
    BY <1>1, SeqFacts
  <1>3. PICK s : s = Tasks(op, scope, args)
    OBVIOUS
  <1>4. s = [i \in 1 .. n |-> Task(op, scope, args[i])]
    BY <1>2, <1>3 DEF Tasks
  <1>5. IsSeq(s)
    <2>1. s \in [1 .. n -> ToSet(s)]
      BY <1>4 DEF ToSet
    <2> QED BY <1>2, <2>1, FunctionIsSeq
  <1>6. ToSet(s) = {Task(op, scope, a) : a \in ToSet(args)}
    BY <1>2, <1>4 DEF ToSet
  <1>7. ASSUME NoRepeat(args) PROVE NoRepeat(s)
    <2>1. \A i \in 1 .. n : s[i].arg = args[i]
      BY <1>4 DEF Task
    <2>2. DOMAIN s = 1 .. n
      BY <1>4
    <2> QED BY <1>2, <1>7, <2>1, <2>2 DEF NoRepeat
  <1> QED BY <1>3, <1>5, <1>6, <1>7

-----------------------------------------------------------------------------
(* Type resolution: the innermost type of a name                           *)

\* Type t of file f is in the table, as it is declared.
Recorded(f, t) ==
    /\ Fqn(f, t) \in DOMAIN m_symbols
    /\ m_symbols[Fqn(f, t)].file = f /\ m_symbols[Fqn(f, t)].kind = Types(f)[t].kind

\* The table has all types of the files, and nothing else.
TableComplete ==
    /\ \A f \in DOMAIN files : \A t \in DOMAIN Types(f) : Recorded(f, t)
    /\ \A q \in DOMAIN m_symbols : \E f \in DOMAIN files : \E t \in DOMAIN Types(f) : q = Fqn(f, t)

\* With a complete table, what resolve_name can see is what the file may name.
LEMMA SeenIsDeclared ==
    ASSUME TableComplete, visible = MayName(current), MayName(current) \subseteq DOMAIN files, NEW q
    PROVE  is_visible(q) <=> q \in Declared(MayName(current))
  <1>1. ASSUME is_visible(q) PROVE q \in Declared(MayName(current))
    <2>1. q \in DOMAIN m_symbols /\ m_symbols[q].file \in visible
      BY <1>1 DEF is_visible
    <2>2. PICK f \in DOMAIN files : \E t \in DOMAIN Types(f) : q = Fqn(f, t)
      BY <2>1 DEF TableComplete
    <2>3. PICK t \in DOMAIN Types(f) : q = Fqn(f, t)
      BY <2>2
    <2>4. m_symbols[q].file = f
      BY <2>3 DEF TableComplete, Recorded
    <2> QED BY <2>1, <2>3, <2>4 DEF Declared
  <1>2. ASSUME q \in Declared(MayName(current)) PROVE is_visible(q)
    <2>1. PICK f \in MayName(current) : \E t \in DOMAIN Types(f) : q = Fqn(f, t)
      BY <1>2 DEF Declared
    <2>2. PICK t \in DOMAIN Types(f) : q = Fqn(f, t)
      BY <2>1
    <2>3. q \in DOMAIN m_symbols /\ m_symbols[q].file = f
      BY <2>2 DEF TableComplete, Recorded
    <2> QED BY <2>3 DEF is_visible
  <1> QED BY <1>1, <1>2 DEF is_visible

\* resolve_name finds what the reference means.
LEMMA MeaningFacts ==
    ASSUME TableComplete, visible = MayName(current), MayName(current) \subseteq DOMAIN files,
           NEW name, NEW scope, Len(scope) \in Nat
    PROVE  /\ resolve_name(name, scope) = Meaning(current, scope, name)
           /\ resolve_name(name, scope) # Unresolved => is_visible(resolve_name(name, scope))
  <1>1. PICK to : to = resolve_name(name, scope)
    OBVIOUS
  <1>2. PICK D : D = Declared(MayName(current))
    OBVIOUS
  <1>3. \A q : is_visible(q) <=> q \in D
    BY <1>2, SeenIsDeclared
  <1>4. PICK r : r = Readings(name, scope)
    OBVIOUS
  <1>5. PICK there : there = {i \in DOMAIN r : r[i] \in D}
    OBVIOUS
  <1>6. SUFFICES /\ to = IF there = {} THEN Unresolved ELSE r[Min(there)]
                 /\ to # Unresolved => to \in D
    BY <1>1, <1>2, <1>3, <1>4, <1>5 DEF Meaning
  <1>7. CASE name.absolute
    <2>1. r = <<name.path>>
      BY <1>4, <1>7 DEF Readings
    <2>2. DOMAIN r = {1} /\ r[1] = name.path
      BY <2>1
    <2>3. to = IF name.path \in D THEN name.path ELSE Unresolved
      BY <1>1, <1>3, <1>7 DEF resolve_name
    <2>4. CASE name.path \in D
      <3>1. there = {1}
        BY <1>5, <2>2, <2>4
      <3>2. Min(there) = 1
        BY <3>1, MinIsLeast
      <3> QED BY <2>2, <2>3, <2>4, <3>1, <3>2
    <2>5. CASE name.path \notin D
      <3>1. there = {}
        BY <1>5, <2>2, <2>5
      <3> QED BY <2>3, <2>5, <3>1
    <2> QED BY <2>4, <2>5
  <1>8. CASE ~name.absolute
    <2>1. PICK n \in Nat : n = Len(scope)
      OBVIOUS
    <2>2. PICK at : at = [k \in 0 .. n |-> SubSeq(scope, 1, k) \o name.path]
      OBVIOUS
    <2>3. PICK depths : depths = {k \in 0 .. n : at[k] \in D}
      OBVIOUS
    <2>4. depths = {k \in 0 .. Len(scope) : is_visible(SubSeq(scope, 1, k) \o name.path)}
      BY <1>3, <2>1, <2>2, <2>3
    <2>5. CASE depths = {}
      <3>1. to = Unresolved
        BY <1>1, <1>8, <2>4, <2>5 DEF resolve_name
      <3>2. r = [i \in 1 .. (n + 1) |-> SubSeq(scope, 1, n + 1 - i) \o name.path]
        BY <1>4, <1>8, <2>1 DEF Readings
      <3>3. ASSUME NEW i \in 1 .. (n + 1) PROVE r[i] \notin D
        <4>1. n + 1 - i \in 0 .. n
          OBVIOUS
        <4>2. r[i] = at[n + 1 - i]
          BY <2>2, <3>2, <4>1
        <4> QED BY <2>3, <2>5, <4>1, <4>2
      <3>4. there = {}
        BY <1>5, <3>2, <3>3
      <3> QED BY <3>1, <3>4
    <2>6. CASE depths # {}
      <3>1. to = SubSeq(scope, 1, Max(depths)) \o name.path
        BY <1>1, <1>8, <2>4, <2>6 DEF resolve_name
      <3>2. PICK k : k = Max(depths)
        OBVIOUS
      <3>3. k \in depths /\ \A x \in depths : x <= k
        <4>1. IsFiniteSet(0 .. n)
          BY FS_Interval
        <4>2. depths \subseteq 0 .. n /\ depths \subseteq Nat
          BY <2>3
        <4>3. IsFiniteSet(depths)
          BY <4>1, <4>2, FS_Subset
        <4> QED BY <2>6, <3>1, <3>2, <4>2, <4>3, LargestFacts
      <3>4. k \in 0 .. n /\ at[k] \in D /\ to = at[k]
        BY <2>2, <2>3, <3>1, <3>2, <3>3
      <3>5. r = [i \in 1 .. (n + 1) |-> SubSeq(scope, 1, n + 1 - i) \o name.path]
        BY <1>4, <1>8, <2>1 DEF Readings
      <3>6. ASSUME NEW i \in 1 .. (n + 1) PROVE n + 1 - i \in 0 .. n /\ r[i] = at[n + 1 - i]
        <4>1. n + 1 - i \in 0 .. n
          OBVIOUS
        <4> QED BY <2>2, <3>5, <4>1
      <3>7. DOMAIN r = 1 .. (n + 1)
        BY <3>5
      <3>8. PICK j : j = n + 1 - k
        OBVIOUS
      <3>9. j \in 1 .. (n + 1) /\ n + 1 - j = k
        BY <3>4, <3>8
      <3>10. j \in there /\ r[j] = to
        BY <1>5, <3>4, <3>6, <3>7, <3>9
      <3>11. \A i \in there : i \in Nat /\ j <= i
        <4>1. ASSUME NEW i \in there PROVE i \in Nat /\ j <= i
          <5>1. i \in 1 .. (n + 1) /\ r[i] \in D
            BY <1>5, <3>7
          <5>2. n + 1 - i \in depths
            BY <2>3, <3>6, <5>1
          <5>3. n + 1 - i <= k
            BY <3>3, <5>2
          <5> QED BY <3>4, <3>8, <5>1, <5>3
        <4> QED BY <4>1
      <3>12. Min(there) = j
        <4>1. there \subseteq Nat /\ there # {}
          BY <3>10, <3>11
        <4>2. PICK m : m = Min(there)
          OBVIOUS
        <4>3. m \in there /\ m <= j
          BY <3>10, <4>1, <4>2, MinIsLeast
        <4>4. m \in Nat /\ j <= m /\ j \in Nat
          BY <3>10, <3>11, <4>3
        <4> QED BY <4>2, <4>3, <4>4
      <3> QED BY <3>4, <3>10, <3>12
    <2> QED BY <2>5, <2>6
  <1> QED BY <1>7, <1>8

-----------------------------------------------------------------------------
(* Type resolution: the two walks over a file                              *)

\* collect_symbols visits the types of a file; a task is under the one for the type it is nested in.
CollectNodes(f) == {Task(Types(f)[t].kind, Types(f)[t].parent, t) : t \in DOMAIN Types(f)}
CollectRoots(f) == {x \in CollectNodes(f) : x.scope = 0}
CollectBelow(f) == [x \in CollectNodes(f) |-> {y \in CollectNodes(f) : y.scope = x.arg}]

\* The tasks of the resolution of a file.
MessageNodes(f) ==
    {Task("message", Types(f)[t].parent, t) : t \in {t \in DOMAIN Types(f) : Types(f)[t].kind = "message"}}
FieldNodes(f) == UNION {{Task("field", t, i) : i \in DOMAIN Types(f)[t].fields} : t \in DOMAIN Types(f)}
MapNodes(f) == UNION {{Task("map", t, i) : i \in DOMAIN Types(f)[t].maps} : t \in DOMAIN Types(f)}
ExtendNodes(f) == UNION {{Task("extend", t, i) : i \in DOMAIN ExtendsOf(f, t)} : t \in Scopes(f)}
BlockNodes(f, t, i) ==
    {Task("extension", t, [block |-> i, field |-> j, extendee |-> Extendee(f, t, i)]) :
        j \in DOMAIN ExtendsOf(f, t)[i].fields}
ScopeNodes(f, t) == UNION {BlockNodes(f, t, i) : i \in DOMAIN ExtendsOf(f, t)}
ExtensionNodes(f) == UNION {ScopeNodes(f, t) : t \in Scopes(f)}
ResolveNodes(f) == MessageNodes(f) \cup FieldNodes(f) \cup MapNodes(f) \cup ExtendNodes(f) \cup ExtensionNodes(f)

\* Task y is under task x.
Under(y, x) ==
    \/ x.op = "message" /\ y.op # "extension" /\ y.scope = x.arg
    \/ x.op = "extend" /\ y.op = "extension" /\ y.scope = x.scope /\ y.arg.block = x.arg
ResolveRoots(f) == {x \in ResolveNodes(f) : x.op # "extension" /\ x.scope = 0}
ResolveBelow(f) == [x \in ResolveNodes(f) |-> {y \in ResolveNodes(f) : Under(y, x)}]

\* A task by its parts.
LEMMA TaskFacts ==
    ASSUME NEW op, NEW scope, NEW arg
    PROVE  Task(op, scope, arg).op = op /\ Task(op, scope, arg).scope = scope /\ Task(op, scope, arg).arg = arg
  BY DEF Task

\* A type of the file by its task.
LEMMA CollectNodeFacts ==
    ASSUME NEW f, NEW x \in CollectNodes(f)
    PROVE  /\ x.arg \in DOMAIN Types(f) /\ x.op = Types(f)[x.arg].kind /\ x.scope = Types(f)[x.arg].parent
           /\ x = Task(Types(f)[x.arg].kind, Types(f)[x.arg].parent, x.arg)
  <1>1. PICK t \in DOMAIN Types(f) : x = Task(Types(f)[t].kind, Types(f)[t].parent, t)
    BY DEF CollectNodes
  <1>2. x.arg = t /\ x.op = Types(f)[t].kind /\ x.scope = Types(f)[t].parent
    BY <1>1, TaskFacts
  <1> QED BY <1>1, <1>2

\* The types of a file form a forest, and each is after the one it is nested in.
LEMMA CollectForest ==
    ASSUME files \in FileSets, NEW f \in DOMAIN files
    PROVE  /\ Forest(CollectNodes(f), CollectRoots(f), CollectBelow(f))
           /\ \A S : Walked(<<>>, S, CollectNodes(f), CollectRoots(f), CollectBelow(f)) => S = CollectNodes(f)
  <1>1. PICK N : N = CollectNodes(f)
    OBVIOUS
  <1>2. PICK R : R = {x \in N : x.scope = 0}
    OBVIOUS
  <1>3. PICK K : K = [x \in N |-> {y \in N : y.scope = x.arg}]
    OBVIOUS
  <1>4. R = CollectRoots(f) /\ K = CollectBelow(f)
    BY <1>1, <1>2, <1>3 DEF CollectRoots, CollectBelow
  <1>5. Len(Types(f)) \in Nat /\ DOMAIN Types(f) = 1 .. Len(Types(f))
    BY FileFacts
  <1>6. ASSUME NEW x \in N
        PROVE  /\ x.arg \in 1 .. Len(Types(f)) /\ x.scope = Types(f)[x.arg].parent /\ x.scope \in 0 .. (x.arg - 1)
               /\ x = Task(Types(f)[x.arg].kind, Types(f)[x.arg].parent, x.arg)
    <2>1. /\ x.arg \in DOMAIN Types(f) /\ x.scope = Types(f)[x.arg].parent
          /\ x = Task(Types(f)[x.arg].kind, Types(f)[x.arg].parent, x.arg)
      BY <1>1, CollectNodeFacts
    <2> QED BY <1>5, <2>1, FileFacts
  <1>7. \A x, y \in N : x.arg = y.arg => x = y
    BY <1>6
  <1>8. Forest(N, R, K)
    <2>1. R \subseteq N /\ \A x \in N : K[x] \subseteq N
      BY <1>2, <1>3
    <2>2. \A x \in N : K[x] \cap R = {}
      <3>1. \A x \in N : x.arg # 0
        BY <1>5, <1>6
      <3> QED BY <1>2, <1>3, <3>1
    <2>3. \A x, y \in N : x # y => K[x] \cap K[y] = {}
      BY <1>3, <1>7
    <2> QED BY <2>1, <2>2, <2>3 DEF Forest
  <1>9. PICK rank : rank = [x \in N |-> x.arg]
    OBVIOUS
  <1>10. \A x \in N : rank[x] \in Nat
    BY <1>5, <1>6, <1>9
  <1>11. ASSUME NEW x \in N, x \notin R PROVE \E y \in N : x \in K[y] /\ rank[y] < rank[x]
    <2>1. PICK t : t = x.scope
      OBVIOUS
    <2>2. t \in DOMAIN Types(f) /\ t < x.arg
      BY <1>2, <1>5, <1>6, <1>11, <2>1
    <2>3. PICK y : y = Task(Types(f)[t].kind, Types(f)[t].parent, t)
      OBVIOUS
    <2>4. y \in N /\ y.arg = t
      BY <1>1, <2>2, <2>3, TaskFacts DEF CollectNodes
    <2>5. x \in K[y] /\ rank[y] < rank[x]
      BY <1>3, <1>9, <2>1, <2>2, <2>4
    <2> QED BY <2>4, <2>5
  <1>12. \A S : Walked(<<>>, S, N, R, K) => S = N
    BY <1>10, <1>11, WalkEnds
  <1> QED BY <1>1, <1>4, <1>8, <1>12

\* CollectTasks are the tasks directly under t.
LEMMA CollectTasksFacts ==
    ASSUME files \in FileSets, NEW f \in DOMAIN files, NEW t
    PROVE  /\ IsSeq(CollectTasks(f, t)) /\ NoRepeat(CollectTasks(f, t))
           /\ ToSet(CollectTasks(f, t)) = {x \in CollectNodes(f) : x.scope = t}
  <1>1. PICK a : a = Children(f, t, "message")
    OBVIOUS
  <1>2. PICK b : b = Children(f, t, "enum")
    OBVIOUS
  <1>3. /\ IsSeq(a) /\ ToSet(a) = {i \in DOMAIN Types(f) : Types(f)[i].parent = t /\ Types(f)[i].kind = "message"}
        /\ IsSeq(b) /\ ToSet(b) = {i \in DOMAIN Types(f) : Types(f)[i].parent = t /\ Types(f)[i].kind = "enum"}
        /\ NoRepeat(a) /\ NoRepeat(b)
    BY <1>1, <1>2, ChildrenFacts
  <1>4. PICK p : p = Tasks("message", t, a)
    OBVIOUS
  <1>5. PICK q : q = Tasks("enum", t, b)
    OBVIOUS
  <1>6. IsSeq(p) /\ NoRepeat(p) /\ ToSet(p) = {Task("message", t, x) : x \in ToSet(a)}
    BY <1>3, <1>4, TasksFacts
  <1>7. IsSeq(q) /\ NoRepeat(q) /\ ToSet(q) = {Task("enum", t, x) : x \in ToSet(b)}
    BY <1>3, <1>5, TasksFacts
  <1>8. CollectTasks(f, t) = p \o q
    BY <1>1, <1>2, <1>4, <1>5 DEF CollectTasks
  <1>9. IsSeq(p \o q) /\ ToSet(p \o q) = ToSet(p) \cup ToSet(q)
    BY <1>6, <1>7, JoinFacts
  <1>10. NoRepeat(p \o q)
    <2>1. (\A x \in ToSet(p) : x.op = "message") /\ (\A x \in ToSet(q) : x.op = "enum")
      BY <1>6, <1>7, TaskFacts
    <2>2. ToSet(p) \cap ToSet(q) = {}
      BY <2>1
    <2> QED BY <1>6, <1>7, <2>2, JoinApart
  <1>11. ASSUME NEW x \in ToSet(p) \cup ToSet(q) PROVE x \in CollectNodes(f) /\ x.scope = t
    <2>1. PICK i \in DOMAIN Types(f) : Types(f)[i].parent = t /\ x = Task(Types(f)[i].kind, t, i)
      BY <1>3, <1>6, <1>7, <1>11
    <2> QED BY <2>1, TaskFacts DEF CollectNodes
  <1>12. ASSUME NEW x \in CollectNodes(f), x.scope = t PROVE x \in ToSet(p) \cup ToSet(q)
    <2>1. PICK i \in DOMAIN Types(f) : i = x.arg /\ Types(f)[i].parent = t /\ x = Task(Types(f)[i].kind, t, i)
      BY <1>12, CollectNodeFacts
    <2>2. Types(f)[i].kind \in {"message", "enum"}
      BY FileFacts
    <2> QED BY <1>3, <1>6, <1>7, <2>1, <2>2
  <1>13. ToSet(p \o q) = {x \in CollectNodes(f) : x.scope = t}
    BY <1>9, <1>11, <1>12
  <1> QED BY <1>8, <1>9, <1>10, <1>13

\* A task of the resolution by its parts.
LEMMA NodeFacts ==
    ASSUME files \in FileSets, NEW f \in DOMAIN files, NEW x \in ResolveNodes(f)
    PROVE  /\ x.scope \in Scopes(f) /\ x.op \in {"message", "field", "map", "extend", "extension"}
           /\ x.op = "message" => /\ x.arg \in DOMAIN Types(f) /\ Types(f)[x.arg].kind = "message"
                                  /\ x = Task("message", Types(f)[x.arg].parent, x.arg)
                                  /\ x.scope = Types(f)[x.arg].parent
           /\ x.op = "field" => /\ x.scope \in DOMAIN Types(f) /\ x.arg \in DOMAIN Types(f)[x.scope].fields
                                /\ x = Task("field", x.scope, x.arg)
           /\ x.op = "map" => /\ x.scope \in DOMAIN Types(f) /\ x.arg \in DOMAIN Types(f)[x.scope].maps
                              /\ x = Task("map", x.scope, x.arg)
           /\ x.op = "extend" => x.arg \in DOMAIN ExtendsOf(f, x.scope) /\ x = Task("extend", x.scope, x.arg)
           /\ x.op = "extension" =>
                /\ x.arg.block \in DOMAIN ExtendsOf(f, x.scope)
                /\ x.arg.field \in DOMAIN ExtendsOf(f, x.scope)[x.arg.block].fields
                /\ x.arg.extendee = Extendee(f, x.scope, x.arg.block)
                /\ x = Task("extension", x.scope, [block |-> x.arg.block, field |-> x.arg.field,
                                                   extendee |-> Extendee(f, x.scope, x.arg.block)])
  <1>1. /\ Len(Types(f)) \in Nat /\ DOMAIN Types(f) = 1 .. Len(Types(f))
        /\ \A t \in DOMAIN Types(f) : Types(f)[t].parent \in 0 .. (t - 1)
    BY FileFacts
  <1>2. \A t \in DOMAIN Types(f) : t \in Scopes(f) /\ Types(f)[t].parent \in Scopes(f)
    BY <1>1 DEF Scopes
  <1>3. CASE x \in MessageNodes(f)
    <2>1. PICK t \in DOMAIN Types(f) : Types(f)[t].kind = "message" /\ x = Task("message", Types(f)[t].parent, t)
      BY <1>3 DEF MessageNodes
    <2>2. x.op = "message" /\ x.scope = Types(f)[t].parent /\ x.arg = t
      BY <2>1, TaskFacts
    <2> QED BY <1>2, <2>1, <2>2
  <1>4. CASE x \in FieldNodes(f)
    <2>1. PICK t \in DOMAIN Types(f) : \E i \in DOMAIN Types(f)[t].fields : x = Task("field", t, i)
      BY <1>4 DEF FieldNodes
    <2>2. PICK i \in DOMAIN Types(f)[t].fields : x = Task("field", t, i)
      BY <2>1
    <2>3. x.op = "field" /\ x.scope = t /\ x.arg = i
      BY <2>2, TaskFacts
    <2> QED BY <1>2, <2>2, <2>3
  <1>5. CASE x \in MapNodes(f)
    <2>1. PICK t \in DOMAIN Types(f) : \E i \in DOMAIN Types(f)[t].maps : x = Task("map", t, i)
      BY <1>5 DEF MapNodes
    <2>2. PICK i \in DOMAIN Types(f)[t].maps : x = Task("map", t, i)
      BY <2>1
    <2>3. x.op = "map" /\ x.scope = t /\ x.arg = i
      BY <2>2, TaskFacts
    <2> QED BY <1>2, <2>2, <2>3
  <1>6. CASE x \in ExtendNodes(f)
    <2>1. PICK t \in Scopes(f) : \E i \in DOMAIN ExtendsOf(f, t) : x = Task("extend", t, i)
      BY <1>6 DEF ExtendNodes
    <2>2. PICK i \in DOMAIN ExtendsOf(f, t) : x = Task("extend", t, i)
      BY <2>1
    <2>3. x.op = "extend" /\ x.scope = t /\ x.arg = i
      BY <2>2, TaskFacts
    <2> QED BY <2>2, <2>3
  <1>7. CASE x \in ExtensionNodes(f)
    <2>1. PICK t \in Scopes(f) : \E i \in DOMAIN ExtendsOf(f, t) : \E j \in DOMAIN ExtendsOf(f, t)[i].fields :
            x = Task("extension", t, [block |-> i, field |-> j, extendee |-> Extendee(f, t, i)])
      BY <1>7 DEF ExtensionNodes, ScopeNodes, BlockNodes
    <2>2. PICK i \in DOMAIN ExtendsOf(f, t) : \E j \in DOMAIN ExtendsOf(f, t)[i].fields :
            x = Task("extension", t, [block |-> i, field |-> j, extendee |-> Extendee(f, t, i)])
      BY <2>1
    <2>3. PICK j \in DOMAIN ExtendsOf(f, t)[i].fields :
            x = Task("extension", t, [block |-> i, field |-> j, extendee |-> Extendee(f, t, i)])
      BY <2>2
    <2>4. /\ x.op = "extension" /\ x.scope = t
          /\ x.arg = [block |-> i, field |-> j, extendee |-> Extendee(f, t, i)]
      BY <2>3, TaskFacts
    <2>5. x.arg.block = i /\ x.arg.field = j /\ x.arg.extendee = Extendee(f, t, i)
      BY <2>4
    <2> QED BY <2>3, <2>4, <2>5
  <1> QED BY <1>3, <1>4, <1>5, <1>6, <1>7 DEF ResolveNodes

\* Every declaration has its task.
LEMMA NodesThere ==
    ASSUME NEW f
    PROVE  /\ \A t \in DOMAIN Types(f) :
                /\ Types(f)[t].kind = "message" => Task("message", Types(f)[t].parent, t) \in ResolveNodes(f)
                /\ \A i \in DOMAIN Types(f)[t].fields : Task("field", t, i) \in ResolveNodes(f)
                /\ \A i \in DOMAIN Types(f)[t].maps : Task("map", t, i) \in ResolveNodes(f)
           /\ \A t \in Scopes(f) : \A i \in DOMAIN ExtendsOf(f, t) :
                /\ Task("extend", t, i) \in ResolveNodes(f)
                /\ \A j \in DOMAIN ExtendsOf(f, t)[i].fields :
                     Task("extension", t, [block |-> i, field |-> j, extendee |-> Extendee(f, t, i)])
                       \in ResolveNodes(f)
  <1>1. ASSUME NEW t \in DOMAIN Types(f), Types(f)[t].kind = "message"
        PROVE  Task("message", Types(f)[t].parent, t) \in MessageNodes(f)
    BY <1>1 DEF MessageNodes
  <1>2. ASSUME NEW t \in DOMAIN Types(f), NEW i \in DOMAIN Types(f)[t].fields
        PROVE  Task("field", t, i) \in FieldNodes(f)
    BY DEF FieldNodes
  <1>3. ASSUME NEW t \in DOMAIN Types(f), NEW i \in DOMAIN Types(f)[t].maps
        PROVE  Task("map", t, i) \in MapNodes(f)
    BY DEF MapNodes
  <1>4. ASSUME NEW t \in Scopes(f), NEW i \in DOMAIN ExtendsOf(f, t)
        PROVE  Task("extend", t, i) \in ExtendNodes(f)
    BY DEF ExtendNodes
  <1>5. ASSUME NEW t \in Scopes(f), NEW i \in DOMAIN ExtendsOf(f, t), NEW j \in DOMAIN ExtendsOf(f, t)[i].fields
        PROVE  Task("extension", t, [block |-> i, field |-> j, extendee |-> Extendee(f, t, i)]) \in ExtensionNodes(f)
    BY DEF ExtensionNodes, ScopeNodes, BlockNodes
  <1> QED BY <1>1, <1>2, <1>3, <1>4, <1>5 DEF ResolveNodes

\* The tasks of a file form a forest, and the walk reaches all of them.
LEMMA ResolveForest ==
    ASSUME files \in FileSets, NEW f \in DOMAIN files
    PROVE  /\ Forest(ResolveNodes(f), ResolveRoots(f), ResolveBelow(f))
           /\ \A S : Walked(<<>>, S, ResolveNodes(f), ResolveRoots(f), ResolveBelow(f)) => S = ResolveNodes(f)
  <1>1. PICK N : N = ResolveNodes(f)
    OBVIOUS
  <1>2. PICK R : R = {x \in N : x.op # "extension" /\ x.scope = 0}
    OBVIOUS
  <1>3. PICK K : K = [x \in N |-> {y \in N : Under(y, x)}]
    OBVIOUS
  <1>4. R = ResolveRoots(f) /\ K = ResolveBelow(f)
    BY <1>1, <1>2, <1>3 DEF ResolveRoots, ResolveBelow
  <1>5. PICK n : n = Len(Types(f))
    OBVIOUS
  <1>6. /\ n \in Nat /\ DOMAIN Types(f) = 1 .. n
        /\ \A t \in DOMAIN Types(f) :
             /\ Types(f)[t].parent \in 0 .. (t - 1)
             /\ Types(f)[t].parent # 0 => Types(f)[Types(f)[t].parent].kind = "message"
             /\ Types(f)[t].kind \in {"message", "enum"}
             /\ Types(f)[t].kind = "enum" =>
                  Types(f)[t].fields = <<>> /\ Types(f)[t].maps = <<>> /\ Types(f)[t].extends = <<>>
    BY <1>5, FileFacts
  <1>7. \A x, y \in N : x.op = "message" /\ y.op = "message" /\ x.arg = y.arg => x = y
    <2>1. ASSUME NEW x \in N, x.op = "message" PROVE x = Task("message", Types(f)[x.arg].parent, x.arg)
      BY <1>1, <2>1, NodeFacts
    <2> QED BY <2>1
  <1>8. \A x, y \in N : x.op = "extend" /\ y.op = "extend" /\ x.scope = y.scope /\ x.arg = y.arg => x = y
    <2>1. ASSUME NEW x \in N, x.op = "extend" PROVE x = Task("extend", x.scope, x.arg)
      BY <1>1, <2>1, NodeFacts
    <2> QED BY <2>1
  <1>9. \A x \in N : x.op = "message" => x.arg \in 1 .. n
    BY <1>1, <1>6, NodeFacts
  <1>10. Forest(N, R, K)
    <2>1. R \subseteq N /\ \A x \in N : K[x] \subseteq N
      BY <1>2, <1>3
    <2>2. ASSUME NEW x \in N, NEW y \in N, Under(y, x) PROVE y \notin R
      <3>1. x.op = "message" => x.arg # 0
        BY <1>6, <1>9
      <3> QED BY <1>2, <2>2, <3>1 DEF Under
    <2>3. \A x \in N : K[x] \cap R = {}
      BY <1>3, <2>2
    <2>4. ASSUME NEW x \in N, NEW y \in N, NEW z \in N, Under(z, x), Under(z, y) PROVE x = y
      BY <1>7, <1>8, <2>4 DEF Under
    <2>5. \A x, y \in N : x # y => K[x] \cap K[y] = {}
      BY <1>3, <2>4
    <2> QED BY <2>1, <2>3, <2>5 DEF Forest
  <1>11. PICK rank : rank = [x \in N |-> IF x.op = "message" THEN x.arg
                                         ELSE IF x.op = "extension" THEN n + 2 ELSE n + 1]
    OBVIOUS
  <1>12. \A x \in N : rank[x] \in Nat
    BY <1>6, <1>9, <1>11
  <1>13. ASSUME NEW t \in DOMAIN Types(f), Types(f)[t].kind = "message",
                NEW x \in N, x.op # "extension", x.scope = t, t < rank[x]
         PROVE  \E y \in N : x \in K[y] /\ rank[y] < rank[x]
    <2>1. PICK y : y = Task("message", Types(f)[t].parent, t)
      OBVIOUS
    <2>2. y \in N /\ y.op = "message" /\ y.arg = t
      BY <1>1, <1>13, <2>1, TaskFacts, NodesThere
    <2>3. Under(x, y)
      BY <1>13, <2>2 DEF Under
    <2>4. x \in K[y] /\ rank[y] < rank[x]
      BY <1>3, <1>11, <1>13, <2>2, <2>3
    <2> QED BY <2>2, <2>4
  <1>14. ASSUME NEW x \in N, x \notin R PROVE \E y \in N : x \in K[y] /\ rank[y] < rank[x]
    <2>1. CASE x.op = "extension"
      <3>1. PICK y : y = Task("extend", x.scope, x.arg.block)
        OBVIOUS
      <3>2. y \in N /\ y.op = "extend" /\ y.scope = x.scope /\ y.arg = x.arg.block
        <4>1. x.scope \in Scopes(f) /\ x.arg.block \in DOMAIN ExtendsOf(f, x.scope)
          BY <1>1, <2>1, NodeFacts
        <4>2. y \in N
          BY <1>1, <3>1, <4>1, NodesThere
        <4> QED BY <3>1, <4>2, TaskFacts
      <3>3. Under(x, y)
        BY <2>1, <3>2 DEF Under
      <3>4. rank[y] = n + 1 /\ rank[x] = n + 2
        BY <1>11, <2>1, <3>2
      <3>5. x \in K[y] /\ rank[y] < rank[x]
        BY <1>3, <1>6, <3>2, <3>3, <3>4
      <3> QED BY <3>2, <3>5
    <2>2. CASE x.op = "message"
      <3>1. x.arg \in DOMAIN Types(f) /\ x.scope = Types(f)[x.arg].parent /\ x.scope # 0
        BY <1>1, <1>2, <1>14, <2>2, NodeFacts
      <3>2. x.scope \in DOMAIN Types(f) /\ x.scope < x.arg /\ Types(f)[x.scope].kind = "message"
        BY <1>6, <3>1
      <3>3. rank[x] = x.arg
        BY <1>11, <2>2
      <3> QED BY <1>13, <2>2, <3>2, <3>3
    <2>3. CASE x.op \in {"field", "map", "extend"}
      <3>1. x.scope # 0 /\ x.scope \in 0 .. n
        BY <1>1, <1>2, <1>5, <1>14, <2>3, NodeFacts DEF Scopes
      <3>2. x.scope \in DOMAIN Types(f) /\ x.scope < n + 1
        BY <1>6, <3>1
      <3>3. rank[x] = n + 1
        BY <1>11, <2>3
      <3>4. Types(f)[x.scope].kind # "enum"
        <4>1. \/ x.arg \in DOMAIN Types(f)[x.scope].fields
              \/ x.arg \in DOMAIN Types(f)[x.scope].maps
              \/ x.arg \in DOMAIN ExtendsOf(f, x.scope)
          BY <1>1, <2>3, NodeFacts
        <4>2. ExtendsOf(f, x.scope) = Types(f)[x.scope].extends
          BY <3>1 DEF ExtendsOf
        <4>3. DOMAIN <<>> = {}
          OBVIOUS
        <4> QED BY <1>6, <3>2, <4>1, <4>2, <4>3
      <3>5. Types(f)[x.scope].kind = "message" /\ x.op # "extension"
        BY <1>6, <2>3, <3>2, <3>4
      <3> QED BY <1>13, <3>2, <3>3, <3>5
    <2> QED BY <1>1, <2>1, <2>2, <2>3, NodeFacts
  <1>15. \A S : Walked(<<>>, S, N, R, K) => S = N
    BY <1>12, <1>14, WalkEnds
  <1> QED BY <1>1, <1>4, <1>10, <1>15

-----------------------------------------------------------------------------
(* Type resolution: the inductive invariant                                *)

\* The tasks visited so far, by file: all of the files before k, and S of file k.
Collected(k, S) == [f \in DOMAIN files |-> IF f < k THEN CollectNodes(f) ELSE IF f = k THEN S ELSE {}]
Resolved(k, S) == [f \in DOMAIN files |-> IF f < k THEN ResolveNodes(f) ELSE IF f = k THEN S ELSE {}]

\* The table has the names of the types visited, Z[f] of file f, and no name twice.
SymbolsOf(Z) ==
    /\ \A f \in DOMAIN files : \A x \in Z[f] : Recorded(f, x.arg)
    /\ \A q \in DOMAIN m_symbols : \E f \in DOMAIN files : \E x \in Z[f] : q = Fqn(f, x.arg)
    /\ \A f, g \in DOMAIN files : \A x \in Z[f], y \in Z[g] : Fqn(f, x.arg) = Fqn(g, y.arg) => f = g /\ x = y

CollectInv ==
    \E S \in SUBSET CollectNodes(current) :
        /\ Walked(work, S, CollectNodes(current), CollectRoots(current), CollectBelow(current))
        /\ SymbolsOf(Collected(current, S))

\* The files that the imports of the current file still to be added give.
StillImported == {m.file : m \in {m \in ToSet(imports_left) : m.kind # "option"}}

\* Between two steps of visible_files: nothing is visible that should not be, and what is missing
\* comes from an import still to be added or from a file on the stack of add_public_closure.
VisibleInv ==
    /\ IsSeq(imports_left) /\ ToSet(imports_left) \subseteq ToSet(files[current].imports)
    /\ IsSeq(closure) /\ ToSet(closure) \subseteq visible
    /\ visible \subseteq DOMAIN files /\ current \in visible
    /\ \A S \in SUBSET DOMAIN files : ClosedFor(current, S) => visible \subseteq S \cup {current}
    /\ ImportedBy(current, {"standard", "public", "weak"}) \subseteq visible \cup StillImported
    /\ \A g \in visible : g = current \/ g \in ToSet(closure) \/ ImportedBy(g, {"public"}) \subseteq visible

\* What a task looked at is sound.
NodeOk(f, x) ==
    /\ x.op = "field" => FieldOk(f, x.scope, Types(f)[x.scope].fields[x.arg])
    /\ x.op = "map" => MapOk(f, x.scope, Types(f)[x.scope].maps[x.arg])
    /\ x.op = "extend" => Extendee(f, x.scope, x.arg) # Unresolved /\ IsMessage(Extendee(f, x.scope, x.arg))
    /\ x.op = "extension" => FieldOk(f, x.scope, ExtendsOf(f, x.scope)[x.arg.block].fields[x.arg.field])

\* The extendee and the number of an extension.
NumberOf(f, x) == <<x.arg.extendee, ExtendsOf(f, x.scope)[x.arg.block].fields[x.arg.field].number>>

\* Everything visited is sound, and e has the numbers of the extensions visited, each of one.
TasksDone(Z, e) ==
    /\ \A f \in DOMAIN files : \A x \in Z[f] : NodeOk(f, x) /\ (x.op = "extension" => NumberOf(f, x) \in e)
    /\ \A k \in e : \E f \in DOMAIN files : \E x \in Z[f] : x.op = "extension" /\ NumberOf(f, x) = k
    /\ \A f, g \in DOMAIN files : \A x \in Z[f], y \in Z[g] :
         x.op = "extension" /\ y.op = "extension" /\ NumberOf(f, x) = NumberOf(g, y) => f = g /\ x = y

ResolvingInv ==
    /\ visible = MayName(current)
    /\ \E S \in SUBSET ResolveNodes(current) :
         /\ Walked(work, S, ResolveNodes(current), ResolveRoots(current), ResolveBelow(current))
         /\ TasksDone(Resolved(current, S), extensions)

TypesInv ==
    /\ files \in FileSets /\ current \in DOMAIN files
    /\ phase \in {"collect", "visible", "resolve", "done"}
    /\ phase # "done" => error = ""
    /\ phase \in {"collect", "resolve"} => closure = <<>>
    /\ phase = "collect" => CollectInv /\ extensions = {}
    /\ phase \in {"visible", "resolve"} => TableComplete /\ NamesUnique
    /\ phase = "visible" => VisibleInv /\ TasksDone(Resolved(current, {}), extensions)
    /\ phase = "resolve" => ResolvingInv
    /\ BindsNearest /\ AcceptsExactlySound

\* What BindsNearest says of one reference.
Nearest(b) ==
    LET r == Readings(b.name, b.scope)
        there == {i \in DOMAIN r : r[i] \in Declared(MayName(b.file))}
    IN  there # {} /\ b.to = r[Min(there)]

\* A reference with a meaning is bound to it.
LEMMA NearestFacts ==
    ASSUME NEW b, b.to = Meaning(b.file, b.scope, b.name), b.to # Unresolved
    PROVE  Nearest(b)
  <1>1. PICK r : r = Readings(b.name, b.scope)
    OBVIOUS
  <1>2. PICK there : there = {i \in DOMAIN r : r[i] \in Declared(MayName(b.file))}
    OBVIOUS
  <1>3. b.to = IF there = {} THEN Unresolved ELSE r[Min(there)]
    BY <1>1, <1>2 DEF Meaning
  <1> QED BY <1>1, <1>2, <1>3 DEF Nearest

\* The tasks of a file do not change while it is resolved.
LEMMA SameNodes ==
    ASSUME files' = files
    PROVE  /\ \A f : /\ CollectNodes(f)' = CollectNodes(f) /\ CollectRoots(f)' = CollectRoots(f)
                     /\ CollectBelow(f)' = CollectBelow(f)
                     /\ ResolveNodes(f)' = ResolveNodes(f) /\ ResolveRoots(f)' = ResolveRoots(f)
                     /\ ResolveBelow(f)' = ResolveBelow(f)
           /\ \A k, S : Collected(k, S)' = Collected(k, S) /\ Resolved(k, S)' = Resolved(k, S)
           /\ \A Z, e : TasksDone(Z, e)' <=> TasksDone(Z, e)
  <1>1. \A f : CollectNodes(f)' = CollectNodes(f)
    BY SameFiles DEF CollectNodes
  <1>2. \A f : CollectRoots(f)' = CollectRoots(f) /\ CollectBelow(f)' = CollectBelow(f)
    BY <1>1 DEF CollectRoots, CollectBelow
  <1>3. \A f : /\ MessageNodes(f)' = MessageNodes(f) /\ FieldNodes(f)' = FieldNodes(f)
               /\ MapNodes(f)' = MapNodes(f)
    BY SameFiles DEF MessageNodes, FieldNodes, MapNodes
  <1>4. \A f : ExtendNodes(f)' = ExtendNodes(f)
    BY SameFiles DEF ExtendNodes
  <1>5. ASSUME NEW f PROVE ExtensionNodes(f)' = ExtensionNodes(f)
    <2>1. /\ Scopes(f)' = Scopes(f)
          /\ \A t : ExtendsOf(f, t)' = ExtendsOf(f, t) /\ \A i : Extendee(f, t, i)' = Extendee(f, t, i)
      BY SameFiles
    <2>2. \A t, i : BlockNodes(f, t, i)' = BlockNodes(f, t, i)
      BY <2>1 DEF BlockNodes
    <2>3. \A t : ScopeNodes(f, t)' = ScopeNodes(f, t)
      BY <2>1, <2>2 DEF ScopeNodes
    <2> QED BY <2>1, <2>3 DEF ExtensionNodes
  <1>6. \A f : ResolveNodes(f)' = ResolveNodes(f)
    BY <1>3, <1>4, <1>5 DEF ResolveNodes
  <1>7. \A f : ResolveRoots(f)' = ResolveRoots(f) /\ ResolveBelow(f)' = ResolveBelow(f)
    BY <1>6 DEF ResolveRoots, ResolveBelow
  <1>8. \A k, S : Collected(k, S)' = Collected(k, S) /\ Resolved(k, S)' = Resolved(k, S)
    BY <1>1, <1>6 DEF Collected, Resolved
  <1>9. \A f, x : (NodeOk(f, x)' <=> NodeOk(f, x)) /\ NumberOf(f, x)' = NumberOf(f, x)
    BY SameFiles DEF NodeOk, NumberOf
  <1>10. \A Z, e : TasksDone(Z, e)' <=> TasksDone(Z, e)
    BY <1>9 DEF TasksDone
  <1> QED BY <1>1, <1>2, <1>6, <1>7, <1>8, <1>10

\* The table stays right when nothing is added to it.
LEMMA SymbolsStay ==
    ASSUME files' = files, m_symbols' = m_symbols
    PROVE  /\ \A f, t : Recorded(f, t)' <=> Recorded(f, t)
           /\ TableComplete' <=> TableComplete
           /\ \A Z : SymbolsOf(Z)' <=> SymbolsOf(Z)
  <1>1. \A f, t : Recorded(f, t)' <=> Recorded(f, t)
    BY SameFiles DEF Recorded
  <1>2. TableComplete' <=> TableComplete
    BY <1>1, SameFiles DEF TableComplete
  <1>3. \A Z : SymbolsOf(Z)' <=> SymbolsOf(Z)
    BY <1>1, SameFiles DEF SymbolsOf
  <1> QED BY <1>1, <1>2, <1>3

\* A reference that is resolved stays resolved.
LEMMA NearestStays ==
    ASSUME files' = files
    PROVE  /\ BindsNearest <=> \A b \in bound : Nearest(b)
           /\ BindsNearest' <=> \A b \in bound' : Nearest(b)
  <1>1. BindsNearest <=> \A b \in bound : Nearest(b)
    BY DEF BindsNearest, Nearest
  <1>2. \A f : Declared(MayName(f))' = Declared(MayName(f))
    BY SameFiles
  <1>3. ASSUME NEW b PROVE Nearest(b)' <=> Nearest(b)
    <2>1. PICK D : D = Declared(MayName(b.file))
      OBVIOUS
    <2>2. Declared(MayName(b.file))' = D
      BY <1>2, <2>1
    <2>3. PICK r : r = Readings(b.name, b.scope)
      OBVIOUS
    <2>4. Readings(b.name, b.scope)' = r
      BY <2>3 DEF Readings
    <2>5. Nearest(b) <=> {i \in DOMAIN r : r[i] \in D} # {} /\ b.to = r[Min({i \in DOMAIN r : r[i] \in D})]
      BY <2>1, <2>3 DEF Nearest
    <2>6. Nearest(b)' <=> {i \in DOMAIN r : r[i] \in D} # {} /\ b.to = r[Min({i \in DOMAIN r : r[i] \in D})]
      BY <2>2, <2>4 DEF Nearest
    <2> QED BY <2>5, <2>6
  <1>4. BindsNearest' <=> \A b \in bound' : Nearest(b)'
    BY DEF BindsNearest, Nearest
  <1> QED BY <1>1, <1>3, <1>4

-----------------------------------------------------------------------------
(* Type resolution: what the visited tasks say of the input                *)

\* What is visited of file c does not concern the others.
LEMMA OneMore ==
    ASSUME files \in FileSets, NEW c \in DOMAIN files, NEW S
    PROVE  /\ Collected(c, S)[c] = S /\ Resolved(c, S)[c] = S
           /\ \A T : \A f \in DOMAIN files : f # c => Collected(c, T)[f] = Collected(c, S)[f]
                                                  /\ Resolved(c, T)[f] = Resolved(c, S)[f]
  <1>1. ~(c < c)
    BY FileFacts
  <1> QED BY <1>1 DEF Collected, Resolved

\* One more task is done.
LEMMA TasksDoneStep ==
    ASSUME files \in FileSets, NEW c \in DOMAIN files, NEW S, NEW h, h \notin S, NodeOk(c, h),
           NEW e, TasksDone(Resolved(c, S), e), NEW e2,
           \/ h.op # "extension" /\ e2 = e
           \/ h.op = "extension" /\ NumberOf(c, h) \notin e /\ e2 = e \cup {NumberOf(c, h)}
    PROVE  TasksDone(Resolved(c, S \cup {h}), e2)
  <1>1. PICK Z : Z = Resolved(c, S)
    OBVIOUS
  <1>2. PICK Y : Y = Resolved(c, S \cup {h})
    OBVIOUS
  <1>3. Y[c] = Z[c] \cup {h} /\ \A f \in DOMAIN files : f # c => Y[f] = Z[f]
    <2>1. PICK T : T = S \cup {h}
      OBVIOUS
    <2>2. Resolved(c, T)[c] = T /\ Resolved(c, S)[c] = S
      BY OneMore
    <2>3. \A f \in DOMAIN files : f # c => Resolved(c, T)[f] = Resolved(c, S)[f]
      BY OneMore
    <2> QED BY <1>1, <1>2, <2>1, <2>2, <2>3
  <1>4. \A f \in DOMAIN files : \A x \in Y[f] : x \in Z[f] \/ (f = c /\ x = h)
    BY <1>3
  <1>5. \A f \in DOMAIN files : Z[f] \subseteq Y[f]
    BY <1>3
  <1>6. /\ \A f \in DOMAIN files : \A x \in Z[f] : NodeOk(f, x) /\ (x.op = "extension" => NumberOf(f, x) \in e)
        /\ \A k \in e : \E f \in DOMAIN files : \E x \in Z[f] : x.op = "extension" /\ NumberOf(f, x) = k
        /\ \A f, g \in DOMAIN files : \A x \in Z[f], y \in Z[g] :
             x.op = "extension" /\ y.op = "extension" /\ NumberOf(f, x) = NumberOf(g, y) => f = g /\ x = y
    BY <1>1 DEF TasksDone
  <1>7. ASSUME NEW f \in DOMAIN files, NEW x \in Y[f]
        PROVE  NodeOk(f, x) /\ (x.op = "extension" => NumberOf(f, x) \in e2)
    BY <1>4, <1>6
  <1>8. ASSUME NEW k \in e2
        PROVE  \E f \in DOMAIN files : \E x \in Y[f] : x.op = "extension" /\ NumberOf(f, x) = k
    <2>1. CASE k \in e
      BY <1>5, <1>6, <2>1
    <2>2. CASE h.op = "extension" /\ k = NumberOf(c, h)
      BY <1>3, <2>2
    <2> QED BY <2>1, <2>2
  <1>9. ASSUME NEW f \in DOMAIN files, NEW g \in DOMAIN files, NEW x \in Y[f], NEW y \in Y[g],
               x.op = "extension", y.op = "extension", NumberOf(f, x) = NumberOf(g, y)
        PROVE  f = g /\ x = y
    <2>1. CASE x \in Z[f] /\ y \in Z[g]
      BY <1>6, <1>9, <2>1
    <2>2. CASE x \in Z[f] /\ g = c /\ y = h
      BY <1>6, <1>9, <2>2
    <2>3. CASE f = c /\ x = h /\ y \in Z[g]
      BY <1>6, <1>9, <2>3
    <2>4. CASE f = c /\ x = h /\ g = c /\ y = h
      BY <2>4
    <2> QED BY <1>4, <2>1, <2>2, <2>3, <2>4
  <1>10. \A f \in DOMAIN files : \A x \in Y[f] : NodeOk(f, x) /\ (x.op = "extension" => NumberOf(f, x) \in e2)
    BY <1>7
  <1>11. \A k \in e2 : \E f \in DOMAIN files : \E x \in Y[f] : x.op = "extension" /\ NumberOf(f, x) = k
    BY <1>8
  <1>12. \A f, g \in DOMAIN files : \A x \in Y[f], y \in Y[g] :
           x.op = "extension" /\ y.op = "extension" /\ NumberOf(f, x) = NumberOf(g, y) => f = g /\ x = y
    BY <1>9
  <1>13. TasksDone(Y, e2)
    BY <1>10, <1>11, <1>12 DEF TasksDone
  <1> QED BY <1>2, <1>13

\* A number that is taken when an extension is visited makes the input unsound.
LEMMA DuplicateNumber ==
    ASSUME files \in FileSets, NEW c \in DOMAIN files, NEW S, S \subseteq ResolveNodes(c),
           NEW h \in ResolveNodes(c), h \notin S, h.op = "extension",
           NEW e, TasksDone(Resolved(c, S), e), NumberOf(c, h) \in e
    PROVE  ~Sound
  <1>1. PICK f \in DOMAIN files : \E x \in Resolved(c, S)[f] : x.op = "extension" /\ NumberOf(f, x) = NumberOf(c, h)
    BY DEF TasksDone
  <1>2. PICK x \in Resolved(c, S)[f] : x.op = "extension" /\ NumberOf(f, x) = NumberOf(c, h)
    BY <1>1
  <1>3. x \in ResolveNodes(f) /\ ~(f = c /\ x = h)
    <2>1. Resolved(c, S)[c] = S
      BY OneMore
    <2> QED BY <1>2, <2>1 DEF Resolved
  <1>4. PICK t, i, j : t = x.scope /\ i = x.arg.block /\ j = x.arg.field
    OBVIOUS
  <1>5. PICK u, k, l : u = h.scope /\ k = h.arg.block /\ l = h.arg.field
    OBVIOUS
  <1>6. /\ t \in Scopes(f) /\ i \in DOMAIN ExtendsOf(f, t) /\ j \in DOMAIN ExtendsOf(f, t)[i].fields
        /\ x.arg.extendee = Extendee(f, t, i)
        /\ x = Task("extension", t, [block |-> i, field |-> j, extendee |-> Extendee(f, t, i)])
    BY <1>2, <1>3, <1>4, NodeFacts
  <1>7. /\ u \in Scopes(c) /\ k \in DOMAIN ExtendsOf(c, u) /\ l \in DOMAIN ExtendsOf(c, u)[k].fields
        /\ h.arg.extendee = Extendee(c, u, k)
        /\ h = Task("extension", u, [block |-> k, field |-> l, extendee |-> Extendee(c, u, k)])
    BY <1>5, NodeFacts
  <1>8. /\ NumberOf(f, x) = <<Extendee(f, t, i), ExtendsOf(f, t)[i].fields[j].number>>
        /\ NumberOf(c, h) = <<Extendee(c, u, k), ExtendsOf(c, u)[k].fields[l].number>>
    BY <1>4, <1>5, <1>6, <1>7 DEF NumberOf
  <1>9. /\ Extendee(f, t, i) = Extendee(c, u, k)
        /\ ExtendsOf(f, t)[i].fields[j].number = ExtendsOf(c, u)[k].fields[l].number
    <2>1. \A a, b, p, q : <<a, b>> = <<p, q>> => a = p /\ b = q
      OBVIOUS
    <2>2. <<Extendee(f, t, i), ExtendsOf(f, t)[i].fields[j].number>>
            = <<Extendee(c, u, k), ExtendsOf(c, u)[k].fields[l].number>>
      BY <1>2, <1>8
    <2> QED BY <2>1, <2>2, Zenon
  <1>10. ~(f = c /\ t = u /\ i = k /\ j = l)
    BY <1>3, <1>6, <1>7
  <1>11. ~NumbersUnique
    BY <1>6, <1>7, <1>9, <1>10 DEF NumbersUnique
  <1> QED BY <1>11 DEF Sound

\* A task that finds something wrong makes the input unsound.
LEMMA UnsoundNode ==
    ASSUME files \in FileSets, NEW f \in DOMAIN files, NEW h \in ResolveNodes(f), ~NodeOk(f, h)
    PROVE  ~Sound
  <1>1. CASE h.op = "field"
    <2>1. h.scope \in DOMAIN Types(f) /\ h.arg \in DOMAIN Types(f)[h.scope].fields
      BY <1>1, NodeFacts
    <2>2. ~FieldOk(f, h.scope, Types(f)[h.scope].fields[h.arg])
      BY <1>1 DEF NodeOk
    <2> QED BY <2>1, <2>2 DEF Sound
  <1>2. CASE h.op = "map"
    <2>1. h.scope \in DOMAIN Types(f) /\ h.arg \in DOMAIN Types(f)[h.scope].maps
      BY <1>2, NodeFacts
    <2>2. ~MapOk(f, h.scope, Types(f)[h.scope].maps[h.arg])
      BY <1>2 DEF NodeOk
    <2> QED BY <2>1, <2>2 DEF Sound
  <1>3. CASE h.op = "extend"
    <2>1. h.scope \in Scopes(f) /\ h.arg \in DOMAIN ExtendsOf(f, h.scope)
      BY <1>3, NodeFacts
    <2>2. ~BlockOk(f, h.scope, h.arg)
      BY <1>3 DEF NodeOk, BlockOk
    <2> QED BY <2>1, <2>2 DEF Sound
  <1>4. CASE h.op = "extension"
    <2>1. /\ h.scope \in Scopes(f) /\ h.arg.block \in DOMAIN ExtendsOf(f, h.scope)
          /\ h.arg.field \in DOMAIN ExtendsOf(f, h.scope)[h.arg.block].fields
      BY <1>4, NodeFacts
    <2>2. ~BlockOk(f, h.scope, h.arg.block)
      BY <1>4, <2>1 DEF NodeOk, BlockOk
    <2> QED BY <2>1, <2>2 DEF Sound
  <1>5. CASE h.op = "message"
    BY <1>5 DEF NodeOk
  <1> QED BY <1>1, <1>2, <1>3, <1>4, <1>5, NodeFacts

\* When all tasks of all files are done the input is sound.
LEMMA SoundAtTheEnd ==
    ASSUME files \in FileSets, NamesUnique, NEW Z, NEW e, TasksDone(Z, e),
           \A f \in DOMAIN files : Z[f] = ResolveNodes(f)
    PROVE  Sound
  <1>1. ASSUME NEW f \in DOMAIN files, NEW x \in ResolveNodes(f) PROVE NodeOk(f, x)
    BY DEF TasksDone
  <1>2. ASSUME NEW f \in DOMAIN files, NEW t \in DOMAIN Types(f), NEW i \in DOMAIN Types(f)[t].fields
        PROVE  FieldOk(f, t, Types(f)[t].fields[i])
    <2>1. PICK x : x = Task("field", t, i)
      OBVIOUS
    <2>2. NodeOk(f, x) /\ x.op = "field" /\ x.scope = t /\ x.arg = i
      BY <1>1, <2>1, NodesThere, TaskFacts
    <2> QED BY <2>2 DEF NodeOk
  <1>3. ASSUME NEW f \in DOMAIN files, NEW t \in DOMAIN Types(f), NEW i \in DOMAIN Types(f)[t].maps
        PROVE  MapOk(f, t, Types(f)[t].maps[i])
    <2>1. PICK x : x = Task("map", t, i)
      OBVIOUS
    <2>2. NodeOk(f, x) /\ x.op = "map" /\ x.scope = t /\ x.arg = i
      BY <1>1, <2>1, NodesThere, TaskFacts
    <2> QED BY <2>2 DEF NodeOk
  <1>4. ASSUME NEW f \in DOMAIN files, NEW t \in Scopes(f), NEW i \in DOMAIN ExtendsOf(f, t),
               NEW j \in DOMAIN ExtendsOf(f, t)[i].fields, NEW x,
               x = Task("extension", t, [block |-> i, field |-> j, extendee |-> Extendee(f, t, i)])
        PROVE  /\ x \in ResolveNodes(f) /\ x.op = "extension" /\ x.scope = t
               /\ x.arg.block = i /\ x.arg.field = j /\ x.arg.extendee = Extendee(f, t, i)
    <2>1. x \in ResolveNodes(f)
      BY <1>4, NodesThere
    <2>2. /\ x.op = "extension" /\ x.scope = t
          /\ x.arg = [block |-> i, field |-> j, extendee |-> Extendee(f, t, i)]
      BY <1>4, TaskFacts
    <2> QED BY <2>1, <2>2
  <1>5. ASSUME NEW f \in DOMAIN files, NEW t \in Scopes(f), NEW i \in DOMAIN ExtendsOf(f, t)
        PROVE  BlockOk(f, t, i)
    <2>1. PICK x : x = Task("extend", t, i)
      OBVIOUS
    <2>2. NodeOk(f, x) /\ x.op = "extend" /\ x.scope = t /\ x.arg = i
      BY <1>1, <2>1, NodesThere, TaskFacts
    <2>3. Extendee(f, t, i) # Unresolved /\ IsMessage(Extendee(f, t, i))
      BY <2>2 DEF NodeOk
    <2>4. ASSUME NEW j \in DOMAIN ExtendsOf(f, t)[i].fields PROVE FieldOk(f, t, ExtendsOf(f, t)[i].fields[j])
      <3>1. PICK y : y = Task("extension", t, [block |-> i, field |-> j, extendee |-> Extendee(f, t, i)])
        OBVIOUS
      <3>2. NodeOk(f, y) /\ y.op = "extension" /\ y.scope = t /\ y.arg.block = i /\ y.arg.field = j
        BY <1>1, <1>4, <3>1
      <3> QED BY <3>2 DEF NodeOk
    <2> QED BY <2>3, <2>4 DEF BlockOk
  <1>6. NumbersUnique
    <2>1. SUFFICES ASSUME NEW f \in DOMAIN files, NEW g \in DOMAIN files, NEW t \in Scopes(f), NEW u \in Scopes(g),
                          NEW i \in DOMAIN ExtendsOf(f, t), NEW k \in DOMAIN ExtendsOf(g, u),
                          NEW j \in DOMAIN ExtendsOf(f, t)[i].fields, NEW l \in DOMAIN ExtendsOf(g, u)[k].fields,
                          Extendee(f, t, i) = Extendee(g, u, k),
                          ExtendsOf(f, t)[i].fields[j].number = ExtendsOf(g, u)[k].fields[l].number
                   PROVE  f = g /\ t = u /\ i = k /\ j = l
      BY DEF NumbersUnique
    <2>2. PICK x : x = Task("extension", t, [block |-> i, field |-> j, extendee |-> Extendee(f, t, i)])
      OBVIOUS
    <2>3. PICK y : y = Task("extension", u, [block |-> k, field |-> l, extendee |-> Extendee(g, u, k)])
      OBVIOUS
    <2>4. /\ x \in ResolveNodes(f) /\ x.op = "extension" /\ x.scope = t
          /\ x.arg.block = i /\ x.arg.field = j /\ x.arg.extendee = Extendee(f, t, i)
      BY <1>4, <2>2
    <2>5. /\ y \in ResolveNodes(g) /\ y.op = "extension" /\ y.scope = u
          /\ y.arg.block = k /\ y.arg.field = l /\ y.arg.extendee = Extendee(g, u, k)
      BY <1>4, <2>3
    <2>6. NumberOf(f, x) = NumberOf(g, y)
      BY <2>1, <2>4, <2>5 DEF NumberOf
    <2>7. f = g /\ x = y
      BY <2>4, <2>5, <2>6 DEF TasksDone
    <2> QED BY <2>4, <2>5, <2>7
  <1> QED BY <1>2, <1>3, <1>5, <1>6 DEF Sound

-----------------------------------------------------------------------------
(* Type resolution: the steps                                              *)

\* A rejection ends the run; it is right if the input is not sound.
LEMMA RejectStep ==
    ASSUME TypesInv, files' = files, current' = current, bound' = bound, phase' = "done", error' # "", ~Sound
    PROVE  TypesInv'
  <1>1. BindsNearest'
    BY NearestStays DEF TypesInv
  <1>2. AcceptsExactlySound'
    BY SameFiles DEF AcceptsExactlySound
  <1> QED BY <1>1, <1>2 DEF TypesInv

\* The first pending node is one of the walk's, and was not visited.
LEMMA WalkHead ==
    ASSUME NEW N, NEW R, NEW K, Forest(N, R, K), NEW w, NEW Z, Walked(w, Z, N, R, K), w # <<>>
    PROVE  Head(w) \in N /\ Head(w) \notin Z
  <1>1. IsSeq(w) /\ Z \subseteq N /\ ToSet(w) \cap Z = {} /\ ToSet(w) \cup Z = R \cup UNION {K[x] : x \in Z}
    BY DEF Walked
  <1>2. Head(w) \in ToSet(w)
    BY <1>1, TailFacts
  <1>3. R \subseteq N /\ \A x \in N : K[x] \subseteq N
    BY DEF Forest
  <1> QED BY <1>1, <1>2, <1>3

\* The first task of the list, and what resolve_name finds for a name in its scope.
LEMMA HeadFacts ==
    ASSUME TypesInv, phase = "resolve", work # <<>>
    PROVE  /\ files \in FileSets /\ current \in DOMAIN files /\ Head1 \in ResolveNodes(current)
           /\ \A name : /\ resolve_name(name, Scope) = Meaning(current, Fqn(current, Head1.scope), name)
                        /\ resolve_name(name, Scope) # Unresolved => resolve_name(name, Scope) \in DOMAIN m_symbols
  <1>1. /\ files \in FileSets /\ current \in DOMAIN files /\ ResolvingInv
        /\ TableComplete /\ visible = MayName(current)
    BY DEF TypesInv, ResolvingInv
  <1>2. PICK S \in SUBSET ResolveNodes(current) :
          Walked(work, S, ResolveNodes(current), ResolveRoots(current), ResolveBelow(current))
    BY <1>1 DEF ResolvingInv
  <1>3. Head1 \in ResolveNodes(current)
    BY <1>1, <1>2, ResolveForest, WalkHead DEF Head1
  <1>4. Head1.scope \in 0 .. Len(Types(current))
    BY <1>1, <1>3, NodeFacts DEF Scopes
  <1>5. PICK scope : scope = Fqn(current, Head1.scope)
    OBVIOUS
  <1>6. Scope = scope /\ Len(scope) \in Nat
    BY <1>1, <1>4, <1>5, FqnFacts DEF Scope
  <1>7. MayName(current) \subseteq DOMAIN files
    BY <1>1 DEF MayName
  <1>8. ASSUME NEW name
        PROVE  /\ resolve_name(name, scope) = Meaning(current, scope, name)
               /\ resolve_name(name, scope) # Unresolved => resolve_name(name, scope) \in DOMAIN m_symbols
    BY <1>1, <1>6, <1>7, MeaningFacts DEF is_visible
  <1> QED BY <1>1, <1>3, <1>5, <1>6, <1>8

\* A reference that is resolved is bound to the innermost type.
LEMMA BindStep ==
    ASSUME TypesInv, phase = "resolve", work # <<>>, NEW name, NEW to, to = resolve_name(name, Scope),
           to # Unresolved, Bind(name, to)
    PROVE  \E b : Nearest(b) /\ bound' = bound \cup {b}
  <1>1. PICK b : b = [file |-> current, scope |-> Scope, name |-> name, to |-> to]
    OBVIOUS
  <1>2. b.file = current /\ b.scope = Scope /\ b.name = name /\ b.to = to
    BY <1>1
  <1>3. to = Meaning(current, Fqn(current, Head1.scope), name)
    BY HeadFacts
  <1>4. b.to = Meaning(b.file, b.scope, b.name)
    BY <1>2, <1>3 DEF Scope
  <1>5. Nearest(b)
    BY <1>2, <1>4, NearestFacts
  <1>6. bound' = bound \cup {b}
    BY <1>1 DEF Bind
  <1> QED BY <1>5, <1>6

\* A task that is in order: it is done, and what is below it becomes pending.
LEMMA ResolveStep ==
    ASSUME TypesInv, phase = "resolve", work # <<>>, NodeOk(current, Head1),
           NEW kids, IsSeq(kids), NoRepeat(kids), ToSet(kids) = ResolveBelow(current)[Head1],
           work' = kids \o Tail(work),
           files' = files, current' = current, phase' = phase, m_symbols' = m_symbols, closure' = closure,
           visible' = visible, error' = error,
           bound' = bound \/ \E b : Nearest(b) /\ bound' = bound \cup {b},
           \/ Head1.op # "extension" /\ extensions' = extensions
           \/ /\ Head1.op = "extension" /\ NumberOf(current, Head1) \notin extensions
              /\ extensions' = extensions \cup {NumberOf(current, Head1)}
    PROVE  TypesInv'
  <1>1. /\ files \in FileSets /\ current \in DOMAIN files /\ ResolvingInv /\ TableComplete /\ NamesUnique
        /\ visible = MayName(current) /\ closure = <<>> /\ error = ""
    BY DEF TypesInv, ResolvingInv
  <1>2. PICK S \in SUBSET ResolveNodes(current) :
          /\ Walked(work, S, ResolveNodes(current), ResolveRoots(current), ResolveBelow(current))
          /\ TasksDone(Resolved(current, S), extensions)
    BY <1>1 DEF ResolvingInv
  <1>3. PICK h : h = Head1
    OBVIOUS
  <1>4. PICK T : T = S \cup {h}
    OBVIOUS
  <1>5. /\ h \in ResolveNodes(current) /\ h \notin S
        /\ Walked(work', T, ResolveNodes(current), ResolveRoots(current), ResolveBelow(current))
    BY <1>1, <1>2, <1>3, <1>4, ResolveForest, WalkStep DEF Head1
  <1>6. TasksDone(Resolved(current, T), extensions')
    BY <1>1, <1>2, <1>3, <1>4, <1>5, TasksDoneStep
  <1>7. T \in SUBSET ResolveNodes(current)
    BY <1>4, <1>5
  <1>8. ResolvingInv'
    <2>1. visible' = MayName(current)'
      BY <1>1, SameFiles
    <2>2. /\ Walked(work, T, ResolveNodes(current), ResolveRoots(current), ResolveBelow(current))'
          /\ T \in SUBSET ResolveNodes(current)'
      <3>1. /\ ResolveNodes(current)' = ResolveNodes(current) /\ ResolveRoots(current)' = ResolveRoots(current)
            /\ ResolveBelow(current)' = ResolveBelow(current)
        BY SameNodes
      <3> QED BY <1>5, <1>7, <3>1
    <2>3. TasksDone(Resolved(current, T), extensions)'
      BY <1>6, SameNodes
    <2> QED BY <2>1, <2>2, <2>3 DEF ResolvingInv
  <1>9. TableComplete' /\ NamesUnique'
    BY <1>1, SameFiles, SymbolsStay
  <1>10. BindsNearest'
    BY NearestStays DEF TypesInv
  <1>11. AcceptsExactlySound'
    BY DEF AcceptsExactlySound
  <1> QED BY <1>1, <1>8, <1>9, <1>10, <1>11 DEF TypesInv

\* Nothing is below a field, a map or an extension.
LEMMA LeafFacts ==
    ASSUME NEW f, NEW x \in ResolveNodes(f), x.op \in {"field", "map", "extension"}
    PROVE  ResolveBelow(f)[x] = {}
  <1>1. \A y : ~Under(y, x)
    BY DEF Under
  <1> QED BY <1>1 DEF ResolveBelow

\* A task without others below it.
LEMMA LeafStep ==
    ASSUME TypesInv, phase = "resolve", work # <<>>, NodeOk(current, Head1),
           Head1.op \in {"field", "map", "extension"}, work' = Tail(work),
           files' = files, current' = current, phase' = phase, m_symbols' = m_symbols, closure' = closure,
           visible' = visible, error' = error,
           bound' = bound \/ \E b : Nearest(b) /\ bound' = bound \cup {b},
           \/ Head1.op # "extension" /\ extensions' = extensions
           \/ /\ Head1.op = "extension" /\ NumberOf(current, Head1) \notin extensions
              /\ extensions' = extensions \cup {NumberOf(current, Head1)}
    PROVE  TypesInv'
  <1>1. PICK kids : kids = <<>>
    OBVIOUS
  <1>2. ToSet(kids) = {} /\ NoRepeat(kids)
    BY <1>1 DEF ToSet, NoRepeat
  <1>3. IsSeq(kids)
    BY <1>1, <1>2, EmptySeq DEF IsSeq
  <1>4. ToSet(kids) = ResolveBelow(current)[Head1]
    BY <1>2, HeadFacts, LeafFacts
  <1>5. kids \o Tail(work) = Tail(work)
    <2>1. IsSeq(work)
      BY DEF TypesInv, ResolvingInv, Walked
    <2>2. IsSeq(Tail(work))
      BY <2>1, TailFacts
    <2> QED BY <1>1, <2>2, ConcatEmptySeq DEF IsSeq
  <1> QED BY <1>2, <1>3, <1>4, <1>5, ResolveStep

\* resolve_field keeps the invariant.
LEMMA ResolveFieldKeeps ==
    ASSUME TypesInv, resolve_field
    PROVE  TypesInv'
  <1>1. /\ phase = "resolve" /\ work # <<>> /\ Head1.op = "field" /\ files' = files
        /\ current' = current /\ closure' = closure /\ visible' = visible
    BY DEF resolve_field, HasTask, Unmoved
  <1>2. PICK d : d = Types(current)[Head1.scope].fields[Head1.arg]
    OBVIOUS
  <1>3. PICK to : to = resolve_name(d.type, Scope)
    OBVIOUS
  <1>4. /\ files \in FileSets /\ current \in DOMAIN files /\ Head1 \in ResolveNodes(current)
        /\ to = Meaning(current, Fqn(current, Head1.scope), d.type)
    BY <1>1, <1>3, HeadFacts
  <1>5. NodeOk(current, Head1) <=> d.scalar \/ to # Unresolved
    BY <1>1, <1>2, <1>4 DEF NodeOk, FieldOk
  <1>6. CASE /\ d.scalar \/ to # Unresolved
             /\ bound' = bound \/ (to # Unresolved /\ Bind(d.type, to))
             /\ work' = Tail(work) /\ phase' = phase /\ m_symbols' = m_symbols /\ error' = error
             /\ extensions' = extensions
    <2>1. bound' = bound \/ \E b : Nearest(b) /\ bound' = bound \cup {b}
      BY <1>1, <1>3, <1>6, BindStep
    <2> QED BY <1>1, <1>5, <1>6, <2>1, LeafStep
  <1>7. CASE ~d.scalar /\ to = Unresolved /\ Reject("unresolved type")
    <2>1. ~Sound
      BY <1>4, <1>5, <1>7, UnsoundNode
    <2> QED BY <1>1, <1>7, <2>1, RejectStep DEF Reject
  <1> QED BY <1>2, <1>3, <1>6, <1>7 DEF resolve_field

\* resolve_map keeps the invariant.
LEMMA ResolveMapKeeps ==
    ASSUME TypesInv, resolve_map
    PROVE  TypesInv'
  <1>1. /\ phase = "resolve" /\ work # <<>> /\ Head1.op = "map" /\ files' = files
        /\ current' = current /\ closure' = closure /\ visible' = visible
    BY DEF resolve_map, HasTask, Unmoved
  <1>2. PICK d : d = Types(current)[Head1.scope].maps[Head1.arg]
    OBVIOUS
  <1>3. PICK to : to = resolve_name(d.type, Scope)
    OBVIOUS
  <1>4. /\ files \in FileSets /\ current \in DOMAIN files /\ Head1 \in ResolveNodes(current)
        /\ to = Meaning(current, Fqn(current, Head1.scope), d.type)
    BY <1>1, <1>3, HeadFacts
  <1>5. NodeOk(current, Head1) <=> d.integral_key /\ (d.scalar \/ to # Unresolved)
    BY <1>1, <1>2, <1>4 DEF NodeOk, MapOk, FieldOk
  <1>6. CASE /\ d.integral_key /\ (d.scalar \/ to # Unresolved)
             /\ bound' = bound \/ (to # Unresolved /\ Bind(d.type, to))
             /\ work' = Tail(work) /\ phase' = phase /\ m_symbols' = m_symbols /\ error' = error
             /\ extensions' = extensions
    <2>1. bound' = bound \/ \E b : Nearest(b) /\ bound' = bound \cup {b}
      BY <1>1, <1>3, <1>6, BindStep
    <2> QED BY <1>1, <1>5, <1>6, <2>1, LeafStep
  <1>7. CASE /\ ~d.integral_key \/ (~d.scalar /\ to = Unresolved)
             /\ Reject("map key type") \/ Reject("unresolved map value type")
    <2>1. ~Sound
      BY <1>4, <1>5, <1>7, UnsoundNode
    <2> QED BY <1>1, <1>7, <2>1, RejectStep DEF Reject
  <1> QED BY <1>2, <1>3, <1>6, <1>7 DEF resolve_map

\* resolve_extension keeps the invariant.
LEMMA ResolveExtensionKeeps ==
    ASSUME TypesInv, resolve_extension
    PROVE  TypesInv'
  <1>1. /\ phase = "resolve" /\ work # <<>> /\ Head1.op = "extension" /\ files' = files
        /\ current' = current /\ closure' = closure /\ visible' = visible
    BY DEF resolve_extension, HasTask, Unmoved
  <1>2. PICK x : x = Head1.arg
    OBVIOUS
  <1>3. PICK block : block = ExtendsOf(current, Head1.scope)[x.block]
    OBVIOUS
  <1>4. PICK d : d = block.fields[x.field]
    OBVIOUS
  <1>5. PICK to : to = resolve_name(d.type, Scope)
    OBVIOUS
  <1>6. PICK key : key = <<x.extendee, d.number>>
    OBVIOUS
  <1>7. /\ files \in FileSets /\ current \in DOMAIN files /\ Head1 \in ResolveNodes(current)
        /\ to = Meaning(current, Fqn(current, Head1.scope), d.type)
    BY <1>1, <1>5, HeadFacts
  <1>8. NodeOk(current, Head1) <=> d.scalar \/ to # Unresolved
    BY <1>1, <1>2, <1>3, <1>4, <1>7 DEF NodeOk, FieldOk
  <1>9. key = NumberOf(current, Head1)
    BY <1>2, <1>3, <1>4, <1>6 DEF NumberOf
  <1>10. CASE /\ d.scalar \/ to # Unresolved
              /\ key \notin extensions /\ extensions' = extensions \cup {key}
              /\ bound' = bound \/ (to # Unresolved /\ Bind(d.type, to))
              /\ work' = Tail(work) /\ phase' = phase /\ m_symbols' = m_symbols /\ error' = error
    <2>1. bound' = bound \/ \E b : Nearest(b) /\ bound' = bound \cup {b}
      BY <1>1, <1>5, <1>10, BindStep
    <2> QED BY <1>1, <1>8, <1>9, <1>10, <2>1, LeafStep
  <1>11. CASE ~d.scalar /\ to = Unresolved /\ Reject("unresolved type")
    <2>1. ~Sound
      BY <1>7, <1>8, <1>11, UnsoundNode
    <2> QED BY <1>1, <1>11, <2>1, RejectStep DEF Reject
  <1>12. CASE key \in extensions /\ Reject("duplicate extension number")
    <2>1. PICK S \in SUBSET ResolveNodes(current) :
            /\ Walked(work, S, ResolveNodes(current), ResolveRoots(current), ResolveBelow(current))
            /\ TasksDone(Resolved(current, S), extensions)
      BY <1>1 DEF TypesInv, ResolvingInv
    <2>2. Head1 \notin S
      BY <1>1, <1>7, <2>1, ResolveForest, WalkHead DEF Head1
    <2>3. ~Sound
      BY <1>1, <1>7, <1>9, <1>12, <2>1, <2>2, DuplicateNumber
    <2> QED BY <1>1, <1>12, <2>3, RejectStep DEF Reject
  <1> QED BY <1>2, <1>3, <1>4, <1>5, <1>6, <1>10, <1>11, <1>12 DEF resolve_extension, ExtensionKey

\* The table knows which names are those of messages.
LEMMA KindFacts ==
    ASSUME TableComplete, NEW q \in DOMAIN m_symbols
    PROVE  m_symbols[q].kind = "message" <=> IsMessage(q)
  <1>1. PICK f \in DOMAIN files : \E t \in DOMAIN Types(f) : q = Fqn(f, t)
    BY DEF TableComplete
  <1>2. PICK t \in DOMAIN Types(f) : q = Fqn(f, t)
    BY <1>1
  <1>3. m_symbols[q].kind = Types(f)[t].kind
    BY <1>2 DEF TableComplete, Recorded
  <1>4. ASSUME IsMessage(q) PROVE m_symbols[q].kind = "message"
    <2>1. PICK g \in DOMAIN files : \E u \in DOMAIN Types(g) : Fqn(g, u) = q /\ Types(g)[u].kind = "message"
      BY <1>4 DEF IsMessage
    <2> QED BY <2>1 DEF TableComplete, Recorded
  <1> QED BY <1>2, <1>3, <1>4 DEF IsMessage

\* What is below an extend block: its fields, with the extendee that its name means.
LEMMA ExtendBelow ==
    ASSUME files \in FileSets, NEW f \in DOMAIN files, NEW x \in ResolveNodes(f), x.op = "extend"
    PROVE  ResolveBelow(f)[x] = BlockNodes(f, x.scope, x.arg)
  <1>1. PICK t, i : t = x.scope /\ i = x.arg
    OBVIOUS
  <1>2. t \in Scopes(f) /\ i \in DOMAIN ExtendsOf(f, t)
    BY <1>1, NodeFacts
  <1>3. ASSUME NEW y \in ResolveNodes(f), Under(y, x) PROVE y \in BlockNodes(f, t, i)
    <2>1. y.op = "extension" /\ y.scope = t /\ y.arg.block = i
      BY <1>1, <1>3 DEF Under
    <2>2. PICK j : j = y.arg.field
      OBVIOUS
    <2>3. /\ j \in DOMAIN ExtendsOf(f, t)[i].fields
          /\ y = Task("extension", t, [block |-> i, field |-> j, extendee |-> Extendee(f, t, i)])
      BY <2>1, <2>2, NodeFacts
    <2> QED BY <2>3 DEF BlockNodes
  <1>4. ASSUME NEW y \in BlockNodes(f, t, i) PROVE y \in ResolveNodes(f) /\ Under(y, x)
    <2>1. PICK j \in DOMAIN ExtendsOf(f, t)[i].fields :
            y = Task("extension", t, [block |-> i, field |-> j, extendee |-> Extendee(f, t, i)])
      BY DEF BlockNodes
    <2>2. y.op = "extension" /\ y.scope = t /\ y.arg = [block |-> i, field |-> j, extendee |-> Extendee(f, t, i)]
      BY <2>1, TaskFacts
    <2>3. y.arg.block = i
      BY <2>2
    <2>4. y \in ResolveNodes(f)
      BY <1>2, <2>1, NodesThere
    <2> QED BY <1>1, <2>2, <2>3, <2>4 DEF Under
  <1>5. ResolveBelow(f)[x] = {y \in ResolveNodes(f) : Under(y, x)}
    BY DEF ResolveBelow
  <1> QED BY <1>1, <1>3, <1>4, <1>5

\* resolve_extend keeps the invariant.
LEMMA ResolveExtendKeeps ==
    ASSUME TypesInv, resolve_extend
    PROVE  TypesInv'
  <1>1. /\ phase = "resolve" /\ work # <<>> /\ Head1.op = "extend" /\ files' = files
        /\ current' = current /\ closure' = closure /\ visible' = visible /\ TableComplete
    BY DEF resolve_extend, HasTask, Unmoved, TypesInv
  <1>2. PICK t, k : t = Head1.scope /\ k = Head1.arg
    OBVIOUS
  <1>3. PICK e : e = ExtendsOf(current, t)[k]
    OBVIOUS
  <1>4. PICK to : to = resolve_name(e.extendee, Scope)
    OBVIOUS
  <1>5. /\ files \in FileSets /\ current \in DOMAIN files /\ Head1 \in ResolveNodes(current)
        /\ to = Meaning(current, Fqn(current, Head1.scope), e.extendee)
        /\ to # Unresolved => to \in DOMAIN m_symbols
    BY <1>1, <1>4, HeadFacts
  <1>6. to = Extendee(current, t, k)
    BY <1>2, <1>3, <1>5 DEF Extendee
  <1>7. to # Unresolved => (m_symbols[to].kind = "message" <=> IsMessage(to))
    BY <1>1, <1>5, KindFacts
  <1>8. NodeOk(current, Head1) <=> to # Unresolved /\ m_symbols[to].kind = "message"
    BY <1>1, <1>2, <1>6, <1>7 DEF NodeOk
  <1>9. PICK kids : kids = [i \in DOMAIN e.fields |->
                              Task("extension", t, [block |-> k, field |-> i, extendee |-> to])]
    OBVIOUS
  <1>10. CASE /\ to # Unresolved /\ m_symbols[to].kind = "message" /\ Bind(e.extendee, to)
              /\ work' = kids \o Tail(work)
              /\ phase' = phase /\ m_symbols' = m_symbols /\ extensions' = extensions /\ error' = error
    <2>1. PICK n : n = Len(e.fields)
      OBVIOUS
    <2>2. n \in Nat /\ DOMAIN e.fields = 1 .. n
      <3>1. t \in Scopes(current) /\ k \in DOMAIN ExtendsOf(current, t)
        BY <1>1, <1>2, <1>5, NodeFacts
      <3>2. IsSeq(e.fields)
        BY <1>3, <1>5, <3>1, ExtendsFacts
      <3> QED BY <2>1, <3>2, SeqFacts
    <2>3. DOMAIN kids = 1 .. n /\ \A i \in 1 .. n :
            kids[i] = Task("extension", t, [block |-> k, field |-> i, extendee |-> to])
      BY <1>9, <2>2
    <2>4. IsSeq(kids)
      <3>1. kids \in [1 .. n -> ToSet(kids)]
        BY <1>9, <2>2 DEF ToSet
      <3> QED BY <2>2, <3>1, FunctionIsSeq
    <2>5. NoRepeat(kids)
      <3>1. ASSUME NEW i \in 1 .. n PROVE kids[i].arg.field = i
        <4>1. kids[i].arg = [block |-> k, field |-> i, extendee |-> to]
          BY <2>3, TaskFacts
        <4> QED BY <4>1
      <3> QED BY <2>3, <3>1 DEF NoRepeat
    <2>6. ToSet(kids) = BlockNodes(current, t, k)
      BY <1>3, <1>6, <2>2, <2>3 DEF ToSet, BlockNodes
    <2>7. ToSet(kids) = ResolveBelow(current)[Head1]
      BY <1>1, <1>2, <1>5, <2>6, ExtendBelow
    <2>8. \E b : Nearest(b) /\ bound' = bound \cup {b}
      BY <1>1, <1>4, <1>10, BindStep
    <2> QED BY <1>1, <1>8, <1>10, <2>4, <2>5, <2>7, <2>8, ResolveStep
  <1>11. CASE /\ to = Unresolved \/ m_symbols[to].kind # "message"
              /\ Reject("unresolved extendee") \/ Reject("extendee is not a message")
    <2>1. ~Sound
      BY <1>5, <1>8, <1>11, UnsoundNode
    <2> QED BY <1>1, <1>11, <2>1, RejectStep DEF Reject
  <1> QED BY <1>2, <1>3, <1>4, <1>9, <1>10, <1>11 DEF resolve_extend

\* The tasks of a scope, and those of one kind for given arguments.
InScope(f, t) == {y \in ResolveNodes(f) : y.op # "extension" /\ y.scope = t}
TasksOf(op, t, args) == {Task(op, t, a) : a \in args}

\* The tasks of a scope: its messages and extend blocks, and for a message its fields and maps.
LEMMA ScopeTasks ==
    ASSUME files \in FileSets, NEW f \in DOMAIN files, NEW t \in Scopes(f), NEW F, NEW M,
           t = 0 => F = {} /\ M = {},
           t # 0 => F = DOMAIN Types(f)[t].fields /\ M = DOMAIN Types(f)[t].maps
    PROVE  InScope(f, t) = TasksOf("field", t, F) \cup TasksOf("map", t, M)
                           \cup TasksOf("message", t, ToSet(Children(f, t, "message")))
                           \cup TasksOf("extend", t, DOMAIN ExtendsOf(f, t))
  <1>1. PICK C : C = ToSet(Children(f, t, "message"))
    OBVIOUS
  <1>2. C = {u \in DOMAIN Types(f) : Types(f)[u].parent = t /\ Types(f)[u].kind = "message"}
    BY <1>1, ChildrenFacts
  <1>3. PICK A : A = {Task("field", t, i) : i \in F} \cup {Task("map", t, i) : i \in M}
                     \cup {Task("message", t, u) : u \in C} \cup {Task("extend", t, i) : i \in DOMAIN ExtendsOf(f, t)}
    OBVIOUS
  <1>4. Len(Types(f)) \in Nat /\ DOMAIN Types(f) = 1 .. Len(Types(f))
    BY FileFacts
  <1>5. t # 0 => t \in DOMAIN Types(f)
    BY <1>4 DEF Scopes
  <1>6. ASSUME NEW y \in ResolveNodes(f), y.op # "extension", y.scope = t PROVE y \in A
    <2>1. CASE y.op = "field"
      <3>1. t \in DOMAIN Types(f) /\ y.arg \in DOMAIN Types(f)[t].fields /\ y = Task("field", t, y.arg)
        BY <1>6, <2>1, NodeFacts
      <3>2. t # 0
        BY <1>4, <3>1
      <3> QED BY <1>3, <3>1, <3>2
    <2>2. CASE y.op = "map"
      <3>1. t \in DOMAIN Types(f) /\ y.arg \in DOMAIN Types(f)[t].maps /\ y = Task("map", t, y.arg)
        BY <1>6, <2>2, NodeFacts
      <3>2. t # 0
        BY <1>4, <3>1
      <3> QED BY <1>3, <3>1, <3>2
    <2>3. CASE y.op = "message"
      <3>1. /\ y.arg \in DOMAIN Types(f) /\ Types(f)[y.arg].kind = "message" /\ Types(f)[y.arg].parent = t
            /\ y = Task("message", t, y.arg)
        BY <1>6, <2>3, NodeFacts
      <3> QED BY <1>2, <1>3, <3>1
    <2>4. CASE y.op = "extend"
      <3>1. y.arg \in DOMAIN ExtendsOf(f, t) /\ y = Task("extend", t, y.arg)
        BY <1>6, <2>4, NodeFacts
      <3> QED BY <1>3, <3>1
    <2> QED BY <1>6, <2>1, <2>2, <2>3, <2>4, NodeFacts
  <1>7. ASSUME NEW y \in A PROVE y \in ResolveNodes(f) /\ y.op # "extension" /\ y.scope = t
    <2>1. CASE y \in {Task("field", t, i) : i \in F}
      <3>1. PICK i \in F : y = Task("field", t, i)
        BY <2>1
      <3>2. y \in ResolveNodes(f)
        BY <1>5, <3>1, NodesThere
      <3> QED BY <3>1, <3>2, TaskFacts
    <2>2. CASE y \in {Task("map", t, i) : i \in M}
      <3>1. PICK i \in M : y = Task("map", t, i)
        BY <2>2
      <3>2. y \in ResolveNodes(f)
        BY <1>5, <3>1, NodesThere
      <3> QED BY <3>1, <3>2, TaskFacts
    <2>3. CASE y \in {Task("message", t, u) : u \in C}
      <3>1. PICK u \in C : y = Task("message", t, u)
        BY <2>3
      <3>2. y \in ResolveNodes(f)
        BY <1>2, <3>1, NodesThere
      <3> QED BY <3>1, <3>2, TaskFacts
    <2>4. CASE y \in {Task("extend", t, i) : i \in DOMAIN ExtendsOf(f, t)}
      <3>1. PICK i \in DOMAIN ExtendsOf(f, t) : y = Task("extend", t, i)
        BY <2>4
      <3>2. y \in ResolveNodes(f)
        BY <3>1, NodesThere
      <3> QED BY <3>1, <3>2, TaskFacts
    <2> QED BY <1>3, <2>1, <2>2, <2>3, <2>4
  <1>8. InScope(f, t) = A
    BY <1>6, <1>7 DEF InScope
  <1>9. A = TasksOf("field", t, F) \cup TasksOf("map", t, M) \cup TasksOf("message", t, C)
            \cup TasksOf("extend", t, DOMAIN ExtendsOf(f, t))
    BY <1>3 DEF TasksOf
  <1> QED BY <1>1, <1>8, <1>9

\* The messages and the extend blocks of a scope, as they are put on the list.
LEMMA MemberTasks ==
    ASSUME files \in FileSets, NEW f \in DOMAIN files, NEW t \in Scopes(f), NEW p, NEW q,
           p = Tasks("message", t, Children(f, t, "message")), q = Tasks("extend", t, Places(ExtendsOf(f, t)))
    PROVE  /\ IsSeq(p) /\ NoRepeat(p) /\ ToSet(p) = TasksOf("message", t, ToSet(Children(f, t, "message")))
           /\ IsSeq(q) /\ NoRepeat(q) /\ ToSet(q) = TasksOf("extend", t, DOMAIN ExtendsOf(f, t))
           /\ (\A x \in ToSet(p) : x.op = "message") /\ (\A x \in ToSet(q) : x.op = "extend")
  <1>1. PICK c : c = Children(f, t, "message")
    OBVIOUS
  <1>2. IsSeq(c) /\ NoRepeat(c)
    BY <1>1, ChildrenFacts
  <1>3. IsSeq(p) /\ NoRepeat(p) /\ ToSet(p) = TasksOf("message", t, ToSet(c))
    BY <1>1, <1>2, TasksFacts DEF TasksOf
  <1>4. PICK s : s = Places(ExtendsOf(f, t))
    OBVIOUS
  <1>5. IsSeq(s) /\ NoRepeat(s) /\ ToSet(s) = DOMAIN ExtendsOf(f, t)
    BY <1>4, ExtendsFacts, PlacesFacts
  <1>6. IsSeq(q) /\ NoRepeat(q) /\ ToSet(q) = TasksOf("extend", t, ToSet(s))
    BY <1>4, <1>5, TasksFacts DEF TasksOf
  <1>7. (\A x \in ToSet(p) : x.op = "message") /\ (\A x \in ToSet(q) : x.op = "extend")
    BY <1>3, <1>6, TaskFacts DEF TasksOf
  <1> QED BY <1>1, <1>3, <1>5, <1>6, <1>7

\* resolve_message keeps the invariant.
LEMMA ResolveMessageKeeps ==
    ASSUME TypesInv, resolve_message
    PROVE  TypesInv'
  <1>1. /\ phase = "resolve" /\ work # <<>> /\ Head1.op = "message" /\ phase' = phase /\ files' = files
        /\ current' = current /\ m_symbols' = m_symbols /\ closure' = closure /\ visible' = visible
        /\ bound' = bound /\ extensions' = extensions /\ error' = error
    BY DEF resolve_message, HasTask, Unmoved
  <1>2. PICK t : t = Head1.arg
    OBVIOUS
  <1>3. files \in FileSets /\ current \in DOMAIN files /\ Head1 \in ResolveNodes(current)
    BY <1>1, HeadFacts
  <1>4. t \in DOMAIN Types(current) /\ t \in Scopes(current) /\ t # 0
    <2>1. t \in DOMAIN Types(current)
      BY <1>1, <1>2, <1>3, NodeFacts
    <2>2. Len(Types(current)) \in Nat /\ DOMAIN Types(current) = 1 .. Len(Types(current))
      BY <1>3, FileFacts
    <2> QED BY <2>1, <2>2 DEF Scopes
  <1>5. PICK m : m = Types(current)[t]
    OBVIOUS
  <1>6. IsSeq(m.fields) /\ IsSeq(m.maps)
    BY <1>3, <1>4, <1>5, FileFacts
  <1>7. PICK a : a = Tasks("field", t, Places(m.fields))
    OBVIOUS
  <1>8. PICK b : b = Tasks("map", t, Places(m.maps))
    OBVIOUS
  <1>9. PICK c : c = Tasks("message", t, Children(current, t, "message"))
    OBVIOUS
  <1>10. PICK d : d = Tasks("extend", t, Places(ExtendsOf(current, t)))
    OBVIOUS
  <1>11. work' = a \o b \o c \o d \o Tail(work)
    BY <1>2, <1>5, <1>7, <1>8, <1>9, <1>10 DEF resolve_message
  <1>12. /\ IsSeq(a) /\ NoRepeat(a) /\ ToSet(a) = TasksOf("field", t, DOMAIN m.fields)
         /\ \A x \in ToSet(a) : x.op = "field"
    <2>1. PICK s : s = Places(m.fields)
      OBVIOUS
    <2>2. IsSeq(s) /\ NoRepeat(s) /\ ToSet(s) = DOMAIN m.fields
      BY <1>6, <2>1, PlacesFacts
    <2>3. IsSeq(a) /\ NoRepeat(a) /\ ToSet(a) = TasksOf("field", t, ToSet(s))
      BY <1>7, <2>1, <2>2, TasksFacts DEF TasksOf
    <2> QED BY <2>2, <2>3, TaskFacts DEF TasksOf
  <1>13. /\ IsSeq(b) /\ NoRepeat(b) /\ ToSet(b) = TasksOf("map", t, DOMAIN m.maps)
         /\ \A x \in ToSet(b) : x.op = "map"
    <2>1. PICK s : s = Places(m.maps)
      OBVIOUS
    <2>2. IsSeq(s) /\ NoRepeat(s) /\ ToSet(s) = DOMAIN m.maps
      BY <1>6, <2>1, PlacesFacts
    <2>3. IsSeq(b) /\ NoRepeat(b) /\ ToSet(b) = TasksOf("map", t, ToSet(s))
      BY <1>8, <2>1, <2>2, TasksFacts DEF TasksOf
    <2> QED BY <2>2, <2>3, TaskFacts DEF TasksOf
  <1>14. /\ IsSeq(c) /\ NoRepeat(c) /\ ToSet(c) = TasksOf("message", t, ToSet(Children(current, t, "message")))
         /\ IsSeq(d) /\ NoRepeat(d) /\ ToSet(d) = TasksOf("extend", t, DOMAIN ExtendsOf(current, t))
         /\ (\A x \in ToSet(c) : x.op = "message") /\ (\A x \in ToSet(d) : x.op = "extend")
    BY <1>3, <1>4, <1>9, <1>10, MemberTasks
  <1>15. PICK ab : ab = a \o b
    OBVIOUS
  <1>16. IsSeq(ab) /\ ToSet(ab) = ToSet(a) \cup ToSet(b) /\ NoRepeat(ab)
    <2>1. ToSet(a) \cap ToSet(b) = {}
      BY <1>12, <1>13
    <2> QED BY <1>12, <1>13, <1>15, <2>1, JoinFacts, JoinApart
  <1>17. PICK abc : abc = ab \o c
    OBVIOUS
  <1>18. IsSeq(abc) /\ ToSet(abc) = ToSet(ab) \cup ToSet(c) /\ NoRepeat(abc)
    <2>1. ToSet(ab) \cap ToSet(c) = {}
      BY <1>12, <1>13, <1>14, <1>16
    <2> QED BY <1>14, <1>16, <1>17, <2>1, JoinFacts, JoinApart
  <1>19. PICK kids : kids = abc \o d
    OBVIOUS
  <1>20. IsSeq(kids) /\ ToSet(kids) = ToSet(abc) \cup ToSet(d) /\ NoRepeat(kids)
    <2>1. ToSet(abc) \cap ToSet(d) = {}
      BY <1>12, <1>13, <1>14, <1>16, <1>18
    <2> QED BY <1>14, <1>18, <1>19, <2>1, JoinFacts, JoinApart
  <1>21. ToSet(kids) = ResolveBelow(current)[Head1]
    <2>1. \A y : Under(y, Head1) <=> y.op # "extension" /\ y.scope = t
      BY <1>1, <1>2 DEF Under
    <2>2. ResolveBelow(current)[Head1] = InScope(current, t)
      BY <1>3, <2>1 DEF ResolveBelow, InScope
    <2>3. InScope(current, t) = TasksOf("field", t, DOMAIN m.fields) \cup TasksOf("map", t, DOMAIN m.maps)
                                \cup TasksOf("message", t, ToSet(Children(current, t, "message")))
                                \cup TasksOf("extend", t, DOMAIN ExtendsOf(current, t))
      BY <1>3, <1>4, <1>5, ScopeTasks
    <2>4. ToSet(kids) = ToSet(a) \cup ToSet(b) \cup ToSet(c) \cup ToSet(d)
      BY <1>16, <1>18, <1>20
    <2> QED BY <1>12, <1>13, <1>14, <2>2, <2>3, <2>4
  <1>22. NodeOk(current, Head1)
    BY <1>1 DEF NodeOk
  <1>23. work' = kids \o Tail(work)
    BY <1>11, <1>15, <1>17, <1>19
  <1> QED BY <1>1, <1>20, <1>21, <1>22, <1>23, ResolveStep

\* When nothing is left to add, exactly the files that may be named are visible.
LEMMA VisibleIsMayName ==
    ASSUME VisibleInv, closure = <<>>, imports_left = <<>>
    PROVE  visible = MayName(current)
  <1>1. PICK c : c = current
    OBVIOUS
  <1>2. ToSet(closure) = {} /\ StillImported = {}
    BY DEF ToSet, StillImported
  <1>3. /\ visible \subseteq DOMAIN files /\ c \in visible
        /\ \A S \in SUBSET DOMAIN files : ClosedFor(c, S) => visible \subseteq S \cup {c}
        /\ ImportedBy(c, {"standard", "public", "weak"}) \subseteq visible
        /\ \A g \in visible : g = c \/ ImportedBy(g, {"public"}) \subseteq visible
    BY <1>1, <1>2 DEF VisibleInv
  <1>4. ImportedBy(c, {"public"}) \subseteq ImportedBy(c, {"standard", "public", "weak"})
    BY DEF ImportedBy
  <1>5. ClosedFor(c, visible)
    BY <1>3, <1>4 DEF ClosedFor
  <1>6. visible \subseteq MayName(c)
    BY <1>3 DEF MayName
  <1>7. MayName(c) \subseteq visible
    BY <1>3, <1>5 DEF MayName
  <1> QED BY <1>1, <1>6, <1>7

\* The start of the resolution of a file keeps the invariant: the list has the roots of its tasks.
LEMMA StartResolvingKeeps ==
    ASSUME TypesInv, StartResolving
    PROVE  TypesInv'
  <1>1. /\ phase = "visible" /\ closure = <<>> /\ imports_left = <<>> /\ phase' = "resolve"
        /\ files' = files /\ current' = current /\ m_symbols' = m_symbols /\ closure' = closure
        /\ visible' = visible /\ bound' = bound /\ extensions' = extensions /\ error' = error
        /\ files \in FileSets /\ current \in DOMAIN files /\ VisibleInv /\ error = ""
        /\ TableComplete /\ NamesUnique /\ TasksDone(Resolved(current, {}), extensions)
    BY DEF StartResolving, TypesInv
  <1>2. PICK p : p = Tasks("message", 0, Children(current, 0, "message"))
    OBVIOUS
  <1>3. PICK q : q = Tasks("extend", 0, Places(ExtendsOf(current, 0)))
    OBVIOUS
  <1>4. work' = p \o q
    BY <1>2, <1>3 DEF StartResolving
  <1>5. 0 \in Scopes(current)
    <2>1. Len(Types(current)) \in Nat
      BY <1>1, FileFacts
    <2> QED BY <2>1 DEF Scopes
  <1>6. /\ IsSeq(p) /\ NoRepeat(p) /\ ToSet(p) = TasksOf("message", 0, ToSet(Children(current, 0, "message")))
        /\ IsSeq(q) /\ NoRepeat(q) /\ ToSet(q) = TasksOf("extend", 0, DOMAIN ExtendsOf(current, 0))
        /\ (\A x \in ToSet(p) : x.op = "message") /\ (\A x \in ToSet(q) : x.op = "extend")
    BY <1>1, <1>2, <1>3, <1>5, MemberTasks
  <1>7. IsSeq(work') /\ ToSet(work') = ToSet(p) \cup ToSet(q) /\ NoRepeat(work')
    <2>1. ToSet(p) \cap ToSet(q) = {}
      BY <1>6
    <2> QED BY <1>4, <1>6, <2>1, JoinFacts, JoinApart
  <1>8. ToSet(work') = ResolveRoots(current)
    <2>1. PICK F : F = {}
      OBVIOUS
    <2>2. InScope(current, 0) = TasksOf("field", 0, F) \cup TasksOf("map", 0, F)
                                \cup TasksOf("message", 0, ToSet(Children(current, 0, "message")))
                                \cup TasksOf("extend", 0, DOMAIN ExtendsOf(current, 0))
      BY <1>1, <1>5, <2>1, ScopeTasks
    <2>3. TasksOf("field", 0, F) = {} /\ TasksOf("map", 0, F) = {}
      BY <2>1 DEF TasksOf
    <2>4. InScope(current, 0) = ResolveRoots(current)
      BY DEF InScope, ResolveRoots
    <2> QED BY <1>6, <1>7, <2>2, <2>3, <2>4
  <1>9. ResolvingInv'
    <2>1. visible' = MayName(current)'
      BY <1>1, VisibleIsMayName, SameFiles
    <2>2. Walked(work', {}, ResolveNodes(current), ResolveRoots(current), ResolveBelow(current))
      BY <1>7, <1>8, WalkStart
    <2>3. /\ ResolveNodes(current)' = ResolveNodes(current) /\ ResolveRoots(current)' = ResolveRoots(current)
          /\ ResolveBelow(current)' = ResolveBelow(current)
      BY <1>1, SameNodes
    <2>4. Walked(work, {}, ResolveNodes(current), ResolveRoots(current), ResolveBelow(current))'
      BY <2>2, <2>3
    <2>5. TasksDone(Resolved(current, {}), extensions)'
      BY <1>1, SameNodes
    <2> QED BY <2>1, <2>4, <2>5 DEF ResolvingInv
  <1>10. TableComplete' /\ NamesUnique' /\ BindsNearest'
    BY <1>1, SymbolsStay, NearestStays, SameFiles DEF TypesInv
  <1>11. AcceptsExactlySound'
    BY <1>1 DEF AcceptsExactlySound
  <1> QED BY <1>1, <1>9, <1>10, <1>11 DEF TypesInv

\* One more type is in the table.
LEMMA SymbolsStep ==
    ASSUME files \in FileSets, files' = files, NEW c \in DOMAIN files, NEW S, NEW h \in CollectNodes(c),
           SymbolsOf(Collected(c, S)), NEW q, q = Fqn(c, h.arg), q \notin DOMAIN m_symbols,
           m_symbols' = [n \in DOMAIN m_symbols \cup {q} |->
                           IF n = q THEN [kind |-> h.op, file |-> c] ELSE m_symbols[n]]
    PROVE  SymbolsOf(Collected(c, S \cup {h}))'
  <1>1. PICK Z : Z = Collected(c, S)
    OBVIOUS
  <1>2. PICK T : T = S \cup {h}
    OBVIOUS
  <1>3. PICK Y : Y = Collected(c, T)
    OBVIOUS
  <1>4. Y[c] = Z[c] \cup {h} /\ \A f \in DOMAIN files : f # c => Y[f] = Z[f]
    <2>1. Collected(c, T)[c] = T /\ Collected(c, S)[c] = S
      BY OneMore
    <2>2. \A f \in DOMAIN files : f # c => Collected(c, T)[f] = Collected(c, S)[f]
      BY OneMore
    <2> QED BY <1>1, <1>2, <1>3, <2>1, <2>2
  <1>5. \A f \in DOMAIN files : \A x \in Y[f] : x \in Z[f] \/ (f = c /\ x = h)
    BY <1>4
  <1>6. /\ \A f \in DOMAIN files : \A x \in Z[f] : Recorded(f, x.arg)
        /\ \A n \in DOMAIN m_symbols : \E f \in DOMAIN files : \E x \in Z[f] : n = Fqn(f, x.arg)
        /\ \A f, g \in DOMAIN files : \A x \in Z[f], y \in Z[g] : Fqn(f, x.arg) = Fqn(g, y.arg) => f = g /\ x = y
    BY <1>1 DEF SymbolsOf
  <1>7. \A f \in DOMAIN files : \A x \in Z[f] : Fqn(f, x.arg) # q
    BY <1>6 DEF Recorded
  <1>8. /\ DOMAIN m_symbols' = DOMAIN m_symbols \cup {q}
        /\ m_symbols'[q].file = c /\ m_symbols'[q].kind = h.op
        /\ \A n \in DOMAIN m_symbols : m_symbols'[n] = m_symbols[n]
    <2>1. q \in DOMAIN m_symbols \cup {q}
      OBVIOUS
    <2>2. m_symbols'[q] = [kind |-> h.op, file |-> c]
      BY <2>1
    <2>3. m_symbols'[q].file = c /\ m_symbols'[q].kind = h.op
      BY <2>2
    <2> QED BY <2>3
  <1>9. \A f, t : Fqn(f, t)' = Fqn(f, t) /\ Types(f)' = Types(f)
    BY SameFiles
  <1>10. \A f, t : Recorded(f, t) => Recorded(f, t)'
    BY <1>8, <1>9 DEF Recorded
  <1>11. Recorded(c, h.arg)'
    <2>1. h.op = Types(c)[h.arg].kind
      BY CollectNodeFacts
    <2> QED BY <1>8, <1>9, <2>1 DEF Recorded
  <1>12. \A f \in DOMAIN files : \A x \in Y[f] : Recorded(f, x.arg)'
    BY <1>5, <1>6, <1>10, <1>11
  <1>13. \A n \in DOMAIN m_symbols' : \E f \in DOMAIN files : \E x \in Y[f] : n = Fqn(f, x.arg)
    <2>1. \A f \in DOMAIN files : Z[f] \subseteq Y[f]
      BY <1>4
    <2> QED BY <1>4, <1>6, <1>8, <2>1
  <1>14. ASSUME NEW f \in DOMAIN files, NEW g \in DOMAIN files, NEW x \in Y[f], NEW y \in Y[g],
                Fqn(f, x.arg) = Fqn(g, y.arg)
         PROVE  f = g /\ x = y
    BY <1>5, <1>6, <1>7, <1>14
  <1>15. SymbolsOf(Y)'
    BY <1>9, <1>12, <1>13, <1>14 DEF SymbolsOf
  <1>16. Collected(c, T)' = Y
    BY <1>3, SameNodes
  <1>17. SymbolsOf(Collected(c, T))'
    BY <1>15, <1>16
  <1> QED BY <1>2, <1>17

\* A name that is taken when a type is visited makes the input unsound.
LEMMA DuplicateName ==
    ASSUME files \in FileSets, NEW c \in DOMAIN files, NEW S \in SUBSET CollectNodes(c),
           NEW h \in CollectNodes(c), h \notin S, SymbolsOf(Collected(c, S)), Fqn(c, h.arg) \in DOMAIN m_symbols
    PROVE  ~Sound
  <1>1. PICK f \in DOMAIN files : \E x \in Collected(c, S)[f] : Fqn(c, h.arg) = Fqn(f, x.arg)
    BY DEF SymbolsOf
  <1>2. PICK x \in Collected(c, S)[f] : Fqn(c, h.arg) = Fqn(f, x.arg)
    BY <1>1
  <1>3. x \in CollectNodes(f) /\ ~(f = c /\ x = h)
    <2>1. Collected(c, S)[c] = S
      BY OneMore
    <2> QED BY <1>2, <2>1 DEF Collected
  <1>4. x.arg \in DOMAIN Types(f) /\ x = Task(Types(f)[x.arg].kind, Types(f)[x.arg].parent, x.arg)
    BY <1>3, CollectNodeFacts
  <1>5. h.arg \in DOMAIN Types(c) /\ h = Task(Types(c)[h.arg].kind, Types(c)[h.arg].parent, h.arg)
    BY CollectNodeFacts
  <1>6. ~(f = c /\ x.arg = h.arg)
    BY <1>3, <1>4, <1>5
  <1>7. ~NamesUnique
    BY <1>2, <1>4, <1>5, <1>6 DEF NamesUnique
  <1> QED BY <1>7 DEF Sound

\* collect_message and record keep the invariant.
LEMMA CollectKeeps ==
    ASSUME TypesInv, Collect
    PROVE  TypesInv'
  <1>1. /\ phase = "collect" /\ work # <<>> /\ files' = files /\ current' = current /\ closure' = closure
        /\ files \in FileSets /\ current \in DOMAIN files /\ closure = <<>> /\ CollectInv /\ extensions = {}
        /\ error = ""
    BY DEF Collect, TypesInv
  <1>2. PICK c \in DOMAIN files : c = current
    BY <1>1
  <1>3. PICK h : h = Head1
    OBVIOUS
  <1>4. PICK q : q = Fqn(c, h.arg)
    OBVIOUS
  <1>5. PICK S \in SUBSET CollectNodes(c) :
          /\ Walked(work, S, CollectNodes(c), CollectRoots(c), CollectBelow(c))
          /\ SymbolsOf(Collected(c, S))
    BY <1>1, <1>2 DEF CollectInv
  <1>6. h \in CollectNodes(c) /\ h \notin S
    BY <1>1, <1>2, <1>3, <1>5, CollectForest, WalkHead DEF Head1
  <1>7. CASE q \in DOMAIN m_symbols /\ Reject("duplicate type")
    <2>1. ~Sound
      BY <1>1, <1>4, <1>5, <1>6, <1>7, DuplicateName
    <2> QED BY <1>1, <1>7, <2>1, RejectStep DEF Reject
  <1>8. CASE /\ q \notin DOMAIN m_symbols
             /\ m_symbols' = [n \in DOMAIN m_symbols \cup {q} |->
                                IF n = q THEN [kind |-> h.op, file |-> c] ELSE m_symbols[n]]
             /\ work' = CollectTasks(c, h.arg) \o Tail(work)
             /\ phase' = phase /\ bound' = bound /\ extensions' = extensions /\ error' = error
    <2>1. PICK kids : kids = CollectTasks(c, h.arg)
      OBVIOUS
    <2>2. IsSeq(kids) /\ NoRepeat(kids) /\ ToSet(kids) = {x \in CollectNodes(c) : x.scope = h.arg}
      BY <1>1, <2>1, CollectTasksFacts
    <2>3. ToSet(kids) = CollectBelow(c)[Head(work)]
      BY <1>3, <1>6, <2>2 DEF CollectBelow, Head1
    <2>4. PICK T : T = S \cup {h}
      OBVIOUS
    <2>5. Walked(work', T, CollectNodes(c), CollectRoots(c), CollectBelow(c))
      <3>1. PICK N, R, K : N = CollectNodes(c) /\ R = CollectRoots(c) /\ K = CollectBelow(c)
        OBVIOUS
      <3>2. Forest(N, R, K) /\ Walked(work, S, N, R, K) /\ ToSet(kids) = K[Head(work)]
        BY <1>1, <1>5, <2>3, <3>1, CollectForest
      <3>3. Walked(kids \o Tail(work), S \cup {Head(work)}, N, R, K)
        BY <1>1, <2>2, <3>2, WalkStep
      <3> QED BY <1>3, <1>8, <2>1, <2>4, <3>1, <3>3 DEF Head1
    <2>6. SymbolsOf(Collected(c, T))'
      BY <1>1, <1>4, <1>5, <1>6, <1>8, <2>4, SymbolsStep
    <2>7. CollectInv'
      <3>1. /\ CollectNodes(c)' = CollectNodes(c) /\ CollectRoots(c)' = CollectRoots(c)
            /\ CollectBelow(c)' = CollectBelow(c)
        BY <1>1, SameNodes
      <3>2. /\ Walked(work, T, CollectNodes(c), CollectRoots(c), CollectBelow(c))'
            /\ T \in SUBSET CollectNodes(c)'
        BY <1>6, <2>4, <2>5, <3>1
      <3> QED BY <1>1, <1>2, <2>6, <3>2 DEF CollectInv
    <2>8. BindsNearest'
      BY <1>1, <1>8, NearestStays DEF TypesInv
    <2>9. AcceptsExactlySound'
      BY <1>1, <1>8 DEF AcceptsExactlySound
    <2> QED BY <1>1, <1>8, <2>7, <2>8, <2>9 DEF TypesInv
  <1> QED BY <1>2, <1>3, <1>4, <1>7, <1>8 DEF Collect, Taken

\* All of file c is visited: the next one is at its start.
LEMMA FileDone ==
    ASSUME files \in FileSets, NEW c \in DOMAIN files
    PROVE  /\ c + 1 \in DOMAIN files => /\ Collected(c + 1, {}) = Collected(c, CollectNodes(c))
                                        /\ Resolved(c + 1, {}) = Resolved(c, ResolveNodes(c))
           /\ ~(c < Len(files)) => \A f \in DOMAIN files : /\ Collected(c, CollectNodes(c))[f] = CollectNodes(f)
                                                           /\ Resolved(c, ResolveNodes(c))[f] = ResolveNodes(f)
           /\ 1 \in DOMAIN files /\ \A f \in DOMAIN files : Collected(1, {})[f] = {} /\ Resolved(1, {})[f] = {}
  <1>1. Len(files) \in Nat \ {0} /\ DOMAIN files = 1 .. Len(files)
    BY FileFacts
  <1>2. \A f \in DOMAIN files : (f < c + 1 <=> f < c \/ f = c) /\ (f = c + 1 => ~(f < c) /\ f # c)
    BY <1>1
  <1>3. /\ Collected(c + 1, {}) = Collected(c, CollectNodes(c))
        /\ Resolved(c + 1, {}) = Resolved(c, ResolveNodes(c))
    BY <1>2 DEF Collected, Resolved
  <1>4. ~(c < Len(files)) => \A f \in DOMAIN files : f < c \/ f = c
    BY <1>1
  <1>5. ~(c < Len(files)) => \A f \in DOMAIN files : /\ Collected(c, CollectNodes(c))[f] = CollectNodes(f)
                                                     /\ Resolved(c, ResolveNodes(c))[f] = ResolveNodes(f)
    BY <1>4 DEF Collected, Resolved
  <1>6. 1 \in DOMAIN files /\ \A f \in DOMAIN files : ~(f < 1)
    BY <1>1
  <1>7. \A f \in DOMAIN files : Collected(1, {})[f] = {} /\ Resolved(1, {})[f] = {}
    BY <1>6 DEF Collected, Resolved
  <1> QED BY <1>3, <1>5, <1>6, <1>7

\* When the types of all files are visited the table is complete, and no name is there twice.
LEMMA TableAtTheEnd ==
    ASSUME files \in FileSets, NEW Z, SymbolsOf(Z), \A f \in DOMAIN files : Z[f] = CollectNodes(f)
    PROVE  TableComplete /\ NamesUnique
  <1>1. ASSUME NEW f \in DOMAIN files, NEW t \in DOMAIN Types(f)
        PROVE  \E x \in Z[f] : x.arg = t
    <2>1. PICK x : x = Task(Types(f)[t].kind, Types(f)[t].parent, t)
      OBVIOUS
    <2>2. x \in CollectNodes(f) /\ x.arg = t
      BY <2>1, TaskFacts DEF CollectNodes
    <2> QED BY <2>2
  <1>2. \A f \in DOMAIN files : \A t \in DOMAIN Types(f) : Recorded(f, t)
    BY <1>1 DEF SymbolsOf
  <1>3. \A f \in DOMAIN files : \A x \in Z[f] : x.arg \in DOMAIN Types(f)
    BY CollectNodeFacts
  <1>4. \A q \in DOMAIN m_symbols : \E f \in DOMAIN files : \E t \in DOMAIN Types(f) : q = Fqn(f, t)
    BY <1>3 DEF SymbolsOf
  <1>5. ASSUME NEW f \in DOMAIN files, NEW g \in DOMAIN files, NEW t \in DOMAIN Types(f), NEW u \in DOMAIN Types(g),
               Fqn(f, t) = Fqn(g, u)
        PROVE  f = g /\ t = u
    <2>1. PICK x \in Z[f] : x.arg = t
      BY <1>1
    <2>2. PICK y \in Z[g] : y.arg = u
      BY <1>1
    <2> QED BY <1>5, <2>1, <2>2 DEF SymbolsOf
  <1> QED BY <1>2, <1>4, <1>5 DEF TableComplete, NamesUnique

\* visible_files starts with the file itself.
LEMMA VisibleStart ==
    ASSUME files \in FileSets, files' = files, current' \in DOMAIN files,
           imports_left' = files[current'].imports, visible' = {current'}, closure' = <<>>
    PROVE  VisibleInv'
  <1>1. PICK c \in DOMAIN files : c = current'
    OBVIOUS
  <1>2. PICK m : m = files[c].imports
    OBVIOUS
  <1>3. IsSeq(m) /\ \A x \in ToSet(m) : x.kind \in {"standard", "public", "weak", "option"}
    BY <1>2, FileFacts
  <1>4. IsSeq(closure') /\ ToSet(closure') = {}
    <2>1. ToSet(<<>>) = {}
      BY DEF ToSet
    <2> QED BY <2>1, EmptySeq DEF IsSeq
  <1>5. ImportedBy(c, {"standard", "public", "weak"}) \subseteq StillImported'
    <2>1. StillImported' = {x.file : x \in {x \in ToSet(m) : x.kind # "option"}}
      BY <1>1, <1>2 DEF StillImported
    <2>2. ASSUME NEW g \in ImportedBy(c, {"standard", "public", "weak"}) PROVE g \in StillImported'
      <3>1. PICK i \in DOMAIN m : m[i].kind \in {"standard", "public", "weak"} /\ g = m[i].file
        BY <1>2 DEF ImportedBy
      <3>2. m[i] \in ToSet(m) /\ m[i].kind # "option"
        BY <3>1 DEF ToSet
      <3> QED BY <2>1, <3>1, <3>2
    <2> QED BY <2>2
  <1>6. /\ \A f, kinds : ImportedBy(f, kinds)' = ImportedBy(f, kinds)
        /\ \A f, S : ClosedFor(f, S)' = ClosedFor(f, S)
    BY SameFiles
  <1> QED BY <1>1, <1>2, <1>3, <1>4, <1>5, <1>6 DEF VisibleInv

\* The next file to collect, or the start of the second pass.
LEMMA CollectNextFileKeeps ==
    ASSUME TypesInv, CollectNextFile
    PROVE  TypesInv'
  <1>1. /\ phase = "collect" /\ work = <<>> /\ files' = files /\ m_symbols' = m_symbols /\ closure' = closure
        /\ bound' = bound /\ extensions' = extensions /\ error' = error /\ extensions = {} /\ error = ""
        /\ files \in FileSets /\ current \in DOMAIN files /\ closure = <<>> /\ CollectInv
    BY DEF CollectNextFile, TypesInv
  <1>2. BindsNearest'
    BY <1>1, NearestStays DEF TypesInv
  <1>3. Len(files) \in Nat \ {0} /\ DOMAIN files = 1 .. Len(files)
    BY <1>1, FileFacts
  <1>4. PICK c \in DOMAIN files : c = current
    BY <1>1
  <1>5. SymbolsOf(Collected(c, CollectNodes(c)))
    <2>1. PICK S \in SUBSET CollectNodes(c) :
            /\ Walked(<<>>, S, CollectNodes(c), CollectRoots(c), CollectBelow(c))
            /\ SymbolsOf(Collected(c, S))
      BY <1>1, <1>4 DEF CollectInv
    <2>2. S = CollectNodes(c)
      BY <1>1, <2>1, CollectForest
    <2> QED BY <2>1, <2>2
  <1>6. CASE current < Len(files)
    <2>1. PICK d : d = c + 1
      OBVIOUS
    <2>2. d \in DOMAIN files
      BY <1>3, <1>4, <1>6, <2>1
    <2>3. current' = d /\ work' = CollectTasks(d, 0) /\ phase' = phase
      BY <1>1, <1>4, <1>6, <2>1 DEF CollectNextFile
    <2>5. IsSeq(work') /\ NoRepeat(work') /\ ToSet(work') = {x \in CollectNodes(d) : x.scope = 0}
      BY <1>1, <2>2, <2>3, CollectTasksFacts
    <2>6. ToSet(work') = CollectRoots(d)
      BY <2>5 DEF CollectRoots
    <2>7. Walked(work', {}, CollectNodes(d), CollectRoots(d), CollectBelow(d))
      BY <2>5, <2>6, WalkStart
    <2>8. SymbolsOf(Collected(d, {}))'
      <3>1. SymbolsOf(Collected(d, {}))
        BY <1>1, <1>5, <2>1, <2>2, FileDone
      <3>2. Collected(d, {})' = Collected(d, {})
        BY <1>1, SameNodes
      <3> QED BY <1>1, <3>1, <3>2, SymbolsStay
    <2>9. CollectInv'
      <3>1. /\ CollectNodes(d)' = CollectNodes(d) /\ CollectRoots(d)' = CollectRoots(d)
            /\ CollectBelow(d)' = CollectBelow(d)
        BY <1>1, SameNodes
      <3>2. /\ Walked(work, {}, CollectNodes(d), CollectRoots(d), CollectBelow(d))'
            /\ {} \in SUBSET CollectNodes(d)'
        BY <2>7, <3>1
      <3> QED BY <2>3, <2>8, <3>2 DEF CollectInv
    <2>10. AcceptsExactlySound'
      BY <1>1, <2>3 DEF AcceptsExactlySound
    <2> QED BY <1>1, <1>2, <2>2, <2>3, <2>9, <2>10 DEF TypesInv
  <1>7. CASE ~(current < Len(files))
    <2>1. current' = 1 /\ phase' = "visible" /\ imports_left' = files[1].imports /\ visible' = {1}
      BY <1>7 DEF CollectNextFile
    <2>2. 1 \in DOMAIN files
      BY <1>3
    <2>3. VisibleInv'
      BY <1>1, <2>1, <2>2, VisibleStart
    <2>4. TableComplete /\ NamesUnique
      <3>1. \A f \in DOMAIN files : Collected(c, CollectNodes(c))[f] = CollectNodes(f)
        BY <1>1, <1>4, <1>7, FileDone
      <3> QED BY <1>1, <1>5, <3>1, TableAtTheEnd
    <2>5. TableComplete' /\ NamesUnique'
      BY <1>1, <2>4, SymbolsStay, SameFiles
    <2>6. TasksDone(Resolved(1, {}), {})
      <3>1. PICK Z : Z = Resolved(1, {})
        OBVIOUS
      <3>2. \A f \in DOMAIN files : Z[f] = {}
        BY <1>1, <1>4, <3>1, FileDone
      <3>3. TasksDone(Z, {})
        BY <3>2 DEF TasksDone
      <3> QED BY <3>1, <3>3
    <2>7. TasksDone(Resolved(current, {}), extensions)'
      BY <1>1, <2>1, <2>6, SameNodes
    <2>8. AcceptsExactlySound'
      BY <2>1 DEF AcceptsExactlySound
    <2> QED BY <1>1, <1>2, <2>1, <2>2, <2>3, <2>5, <2>7, <2>8 DEF TypesInv
  <1> QED BY <1>6, <1>7

\* The next file of run(), or the end: then every file was visited and found sound.
LEMMA NextFileKeeps ==
    ASSUME TypesInv, NextFile
    PROVE  TypesInv'
  <1>1. /\ phase = "resolve" /\ work = <<>> /\ files' = files /\ m_symbols' = m_symbols /\ closure' = closure
        /\ bound' = bound /\ extensions' = extensions /\ error' = error /\ error = ""
        /\ files \in FileSets /\ current \in DOMAIN files /\ closure = <<>> /\ ResolvingInv
        /\ TableComplete /\ NamesUnique
    BY DEF NextFile, TypesInv
  <1>2. PICK c \in DOMAIN files : c = current
    BY <1>1
  <1>3. TasksDone(Resolved(c, ResolveNodes(c)), extensions)
    <2>1. PICK S \in SUBSET ResolveNodes(c) :
            /\ Walked(<<>>, S, ResolveNodes(c), ResolveRoots(c), ResolveBelow(c))
            /\ TasksDone(Resolved(c, S), extensions)
      BY <1>1, <1>2 DEF ResolvingInv
    <2>2. S = ResolveNodes(c)
      BY <1>1, <2>1, ResolveForest
    <2> QED BY <2>1, <2>2
  <1>4. BindsNearest' /\ TableComplete' /\ NamesUnique'
    BY <1>1, NearestStays, SymbolsStay, SameFiles DEF TypesInv
  <1>5. CASE current < Len(files)
    <2>1. Len(files) \in Nat /\ DOMAIN files = 1 .. Len(files)
      BY <1>1, FileFacts
    <2>2. PICK d : d = c + 1
      OBVIOUS
    <2>3. d \in DOMAIN files
      BY <1>2, <1>5, <2>1, <2>2
    <2>4. current' = d /\ phase' = "visible" /\ imports_left' = files[d].imports /\ visible' = {d}
      BY <1>1, <1>2, <1>5, <2>2 DEF NextFile
    <2>5. VisibleInv'
      BY <1>1, <2>3, <2>4, VisibleStart
    <2>6. TasksDone(Resolved(d, {}), extensions)
      BY <1>1, <1>3, <2>2, <2>3, FileDone
    <2>7. TasksDone(Resolved(current, {}), extensions)'
      BY <1>1, <2>4, <2>6, SameNodes
    <2>8. AcceptsExactlySound'
      BY <2>4 DEF AcceptsExactlySound
    <2> QED BY <1>1, <1>4, <2>3, <2>4, <2>5, <2>7, <2>8 DEF TypesInv
  <1>6. CASE ~(current < Len(files))
    <2>1. phase' = "done" /\ current' = current
      BY <1>6 DEF NextFile
    <2>2. \A f \in DOMAIN files : Resolved(c, ResolveNodes(c))[f] = ResolveNodes(f)
      BY <1>1, <1>2, <1>6, FileDone
    <2>3. Sound
      BY <1>1, <1>3, <2>2, SoundAtTheEnd
    <2>4. AcceptsExactlySound'
      BY <1>1, <2>3, SameFiles DEF AcceptsExactlySound
    <2> QED BY <1>1, <1>4, <2>1, <2>4 DEF TypesInv
  <1> QED BY <1>5, <1>6

\* A step of visible_files leaves the rest alone.
LEMMA VisibleStep ==
    ASSUME TypesInv, phase = "visible", files' = files, phase' = phase, current' = current,
           m_symbols' = m_symbols, bound' = bound, extensions' = extensions, error' = error, VisibleInv'
    PROVE  TypesInv'
  <1>1. /\ files \in FileSets /\ current \in DOMAIN files /\ error = ""
        /\ TableComplete /\ NamesUnique /\ TasksDone(Resolved(current, {}), extensions)
    BY DEF TypesInv
  <1>2. BindsNearest' /\ TableComplete' /\ NamesUnique'
    BY <1>1, NearestStays, SymbolsStay, SameFiles DEF TypesInv
  <1>3. TasksDone(Resolved(current, {}), extensions)'
    BY <1>1, SameNodes
  <1>4. AcceptsExactlySound'
    BY DEF AcceptsExactlySound
  <1> QED BY <1>1, <1>2, <1>3, <1>4 DEF TypesInv

\* A direct import keeps the invariant.
LEMMA AddDirectKeeps ==
    ASSUME TypesInv, AddDirect
    PROVE  TypesInv'
  <1>1. /\ phase = "visible" /\ closure = <<>> /\ imports_left # <<>> /\ imports_left' = Tail(imports_left)
        /\ files' = files /\ phase' = phase /\ current' = current /\ m_symbols' = m_symbols /\ bound' = bound
        /\ extensions' = extensions /\ error' = error /\ error = ""
        /\ files \in FileSets /\ current \in DOMAIN files /\ VisibleInv
        /\ TableComplete /\ NamesUnique /\ TasksDone(Resolved(current, {}), extensions)
    BY DEF AddDirect, TypesInv
  <1>2. PICK c : c = current
    OBVIOUS
  <1>3. PICK m : m = Head(imports_left)
    OBVIOUS
  <1>4. PICK rest : rest = Tail(imports_left)
    OBVIOUS
  <1>5. IsSeq(rest) /\ ToSet(imports_left) = {m} \cup ToSet(rest)
    BY <1>1, <1>3, <1>4, TailFacts DEF VisibleInv
  <1>6. ToSet(rest) \subseteq ToSet(files[c].imports) /\ m \in ToSet(files[c].imports)
    BY <1>1, <1>2, <1>5 DEF VisibleInv
  <1>7. /\ \A f, kinds : ImportedBy(f, kinds)' = ImportedBy(f, kinds)
        /\ \A f, S : ClosedFor(f, S)' = ClosedFor(f, S)
    BY <1>1, SameFiles
  <1>8. m.file \in DOMAIN files /\ m.kind \in {"standard", "public", "weak", "option"}
    BY <1>1, <1>2, <1>6, FileFacts
  <1>9. PICK K : K = {x.file : x \in {x \in ToSet(rest) : x.kind # "option"}}
    OBVIOUS
  <1>10. StillImported' = K
    BY <1>1, <1>4, <1>9 DEF StillImported
  <1>11. ToSet(closure) = {}
    <2>1. closure = <<>>
      BY <1>1
    <2> QED BY <2>1 DEF ToSet
  <1>12. /\ visible \subseteq DOMAIN files /\ c \in visible
         /\ \A S \in SUBSET DOMAIN files : ClosedFor(c, S) => visible \subseteq S \cup {c}
         /\ ImportedBy(c, {"standard", "public", "weak"}) \subseteq visible \cup StillImported
         /\ \A g \in visible : g = c \/ ImportedBy(g, {"public"}) \subseteq visible
    BY <1>1, <1>2, <1>11 DEF VisibleInv
  <1>14. SUFFICES VisibleInv'
    BY <1>1, VisibleStep
  <1>15. CASE m.kind = "option"
    <2>1. visible' = visible /\ closure' = <<>>
      BY <1>3, <1>15 DEF AddDirect, AddsTypes
    <2>2. StillImported = K
      BY <1>5, <1>9, <1>15 DEF StillImported
    <2>3. IsSeq(closure') /\ ToSet(closure') = {}
      BY <1>1, <1>11, <2>1 DEF VisibleInv
    <2> QED BY <1>1, <1>2, <1>4, <1>5, <1>6, <1>7, <1>10, <1>12, <2>1, <2>2, <2>3 DEF VisibleInv
  <1>16. CASE m.kind # "option"
    <2>1. visible' = visible \cup {m.file} /\ closure' = <<m.file>>
      BY <1>3, <1>16 DEF AddDirect, AddsTypes
    <2>2. StillImported = K \cup {m.file}
      BY <1>5, <1>9, <1>16 DEF StillImported
    <2>3. IsSeq(closure') /\ ToSet(closure') = {m.file}
      <3>1. <<m.file>> \in Seq({m.file})
        OBVIOUS
      <3>2. ToSet(<<m.file>>) = {m.file}
        BY DEF ToSet
      <3> QED BY <2>1, <3>1, <3>2 DEF IsSeq
    <2>4. m.file \in ImportedBy(c, {"standard", "public", "weak"})
      <3>1. PICK i \in DOMAIN files[c].imports : m = files[c].imports[i]
        BY <1>6 DEF ToSet
      <3>2. files[c].imports[i].kind \in {"standard", "public", "weak"}
        BY <1>8, <1>16, <3>1
      <3> QED BY <3>1, <3>2 DEF ImportedBy
    <2>5. \A S \in SUBSET DOMAIN files : ClosedFor(c, S) => m.file \in S
      BY <2>4 DEF ClosedFor
    <2>6. PICK v : v = visible \cup {m.file}
      OBVIOUS
    <2>7. /\ v \subseteq DOMAIN files /\ c \in v
          /\ \A S \in SUBSET DOMAIN files : ClosedFor(c, S) => v \subseteq S \cup {c}
          /\ ImportedBy(c, {"standard", "public", "weak"}) \subseteq v \cup K
          /\ \A g \in v : g = c \/ g \in {m.file} \/ ImportedBy(g, {"public"}) \subseteq v
      BY <1>8, <1>12, <2>2, <2>5, <2>6
    <2> QED BY <1>1, <1>2, <1>4, <1>5, <1>6, <1>7, <1>10, <2>1, <2>3, <2>6, <2>7 DEF VisibleInv
  <1> QED BY <1>15, <1>16

\* A round of add_public_closure keeps the invariant: the file that leaves the stack has all its
\* public imports visible by then.
LEMMA PublicClosureKeeps ==
    ASSUME TypesInv, PublicClosure
    PROVE  TypesInv'
  <1>1. /\ phase = "visible" /\ closure # <<>> /\ imports_left' = imports_left
        /\ files' = files /\ phase' = phase /\ current' = current /\ m_symbols' = m_symbols /\ bound' = bound
        /\ extensions' = extensions /\ error' = error
        /\ files \in FileSets /\ current \in DOMAIN files /\ VisibleInv
    BY DEF PublicClosure, TypesInv
  <1>2. PICK c : c = current
    OBVIOUS
  <1>3. PICK l : l = Last(closure)
    OBVIOUS
  <1>4. PICK im : im = files[l].imports
    OBVIOUS
  <1>5. PICK public : public = {i \in DOMAIN im : im[i].kind = "public"}
    OBVIOUS
  <1>6. PICK added : added = {i \in public : /\ im[i].file \notin visible
                                              /\ \A j \in public : j < i => im[j].file # im[i].file}
    OBVIOUS
  <1>7. PICK places, new : places = Select(Places(im), added) /\ new = [i \in DOMAIN places |-> im[places[i]].file]
    OBVIOUS
  <1>8. visible' = visible \cup ToSet(new) /\ closure' = Front(closure) \o new
    <2> DEFINE im0 == files[Last(closure)].imports
               public0 == {i \in DOMAIN im0 : im0[i].kind = "public"}
               added0 == {i \in public0 : /\ im0[i].file \notin visible
                                           /\ \A j \in public0 : j < i => im0[j].file # im0[i].file}
               places0 == Select(Places(im0), added0)
               new0 == [i \in DOMAIN places0 |-> im0[places0[i]].file]
    <2>1. visible' = visible \cup ToSet(new0) /\ closure' = Front(closure) \o new0
      BY DEF PublicClosure
    <2>2. im0 = im
      BY <1>3, <1>4
    <2> HIDE DEF im0
    <2>3. public0 = public
      BY <1>5, <2>2
    <2> HIDE DEF public0
    <2>4. added0 = added
      BY <1>6, <2>2, <2>3
    <2> HIDE DEF added0
    <2>5. places0 = places
      BY <1>7, <2>2, <2>4
    <2> HIDE DEF places0
    <2>6. new0 = new
      BY <1>7, <2>2, <2>5
    <2> QED BY <2>1, <2>6
  <1>9. /\ IsSeq(closure) /\ ToSet(closure) \subseteq visible
        /\ visible \subseteq DOMAIN files /\ c \in visible
        /\ \A S \in SUBSET DOMAIN files : ClosedFor(c, S) => visible \subseteq S \cup {c}
        /\ ImportedBy(c, {"standard", "public", "weak"}) \subseteq visible \cup StillImported
        /\ \A g \in visible : g = c \/ g \in ToSet(closure) \/ ImportedBy(g, {"public"}) \subseteq visible
    BY <1>1, <1>2 DEF VisibleInv
  <1>10. PICK fr : fr = Front(closure)
    OBVIOUS
  <1>11. IsSeq(fr) /\ ToSet(closure) = ToSet(fr) \cup {l}
    <2>1. PICK X : X = ToSet(closure)
      OBVIOUS
    <2>2. closure \in Seq(X)
      BY <1>9, <2>1 DEF IsSeq
    <2>3. /\ fr \in Seq(X) /\ Len(fr) = Len(closure) - 1
          /\ \A i \in 1 .. (Len(closure) - 1) : fr[i] = closure[i]
          /\ Len(closure) \in Nat /\ Len(closure) > 0
      BY <1>1, <1>10, <2>2, FrontFacts
    <2>4. IsSeq(fr) /\ DOMAIN fr = 1 .. (Len(closure) - 1) /\ DOMAIN closure = 1 .. Len(closure)
      BY <1>9, <2>3, SeqOfElements, SeqFacts
    <2>5. l = closure[Len(closure)]
      BY <1>3 DEF Last
    <2>6. \A i \in 1 .. Len(closure) : i = Len(closure) \/ i \in 1 .. (Len(closure) - 1)
      BY <2>3
    <2>7. /\ Len(closure) \in 1 .. Len(closure)
          /\ \A i \in 1 .. (Len(closure) - 1) : i \in 1 .. Len(closure)
      BY <2>3
    <2>8. ToSet(closure) = ToSet(fr) \cup {l}
      BY <2>3, <2>4, <2>5, <2>6, <2>7 DEF ToSet
    <2> QED BY <2>4, <2>8
  <1>12. l \in visible /\ l \in DOMAIN files
    BY <1>9, <1>11
  <1>13. IsSeq(im) /\ \A m \in ToSet(im) : m.file \in DOMAIN files
    BY <1>1, <1>4, <1>12, FileFacts
  <1>14. IsSeq(places) /\ ToSet(places) = added
    <2>1. PICK s, X : s = Places(im) /\ X = DOMAIN im
      OBVIOUS
    <2>2. IsSeq(s) /\ ToSet(s) = X
      BY <1>13, <2>1, PlacesFacts
    <2>3. s \in Seq(X)
      BY <2>2 DEF IsSeq
    <2>4. places \in Seq(X) /\ ToSet(places) = ToSet(s) \cap added
      BY <1>7, <2>1, <2>3, SelectFacts
    <2>5. X \cap added = added
      BY <1>5, <1>6, <2>1
    <2> QED BY <2>2, <2>4, <2>5, SeqOfElements
  <1>15. IsSeq(new) /\ ToSet(new) = {im[i].file : i \in added}
    <2>1. PICK n : n = Len(places)
      OBVIOUS
    <2>2. n \in Nat /\ DOMAIN places = 1 .. n
      BY <1>14, <2>1, SeqFacts
    <2>3. new = [i \in 1 .. n |-> im[places[i]].file]
      BY <1>7, <2>2
    <2>4. new \in [1 .. n -> ToSet(new)]
      BY <2>3 DEF ToSet
    <2>5. IsSeq(new)
      BY <2>2, <2>4, FunctionIsSeq
    <2>6. ToSet(new) = {im[i].file : i \in ToSet(places)}
      BY <2>2, <2>3 DEF ToSet
    <2> QED BY <1>14, <2>5, <2>6
  <1>16. PICK N : N = ToSet(new)
    OBVIOUS
  <1>17. IsSeq(closure') /\ ToSet(closure') = ToSet(fr) \cup N
    BY <1>8, <1>10, <1>11, <1>15, <1>16, JoinFacts
  <1>18. N \subseteq ImportedBy(l, {"public"}) /\ ImportedBy(l, {"public"}) \subseteq visible \cup N
    <2>1. ASSUME NEW g \in N PROVE g \in ImportedBy(l, {"public"})
      <3>1. PICK i \in added : g = im[i].file
        BY <1>15, <1>16
      <3>2. i \in DOMAIN im /\ im[i].kind = "public"
        BY <1>5, <1>6
      <3> QED BY <1>4, <3>1, <3>2 DEF ImportedBy
    <2>2. ASSUME NEW g \in ImportedBy(l, {"public"}), g \notin visible PROVE g \in N
      <3>1. PICK W : W = {i \in public : im[i].file = g}
        OBVIOUS
      <3>2. W # {}
        BY <1>4, <1>5, <2>2, <3>1 DEF ImportedBy
      <3>3. W \subseteq Nat
        <4>1. Len(im) \in Nat /\ DOMAIN im = 1 .. Len(im)
          BY <1>13, SeqFacts
        <4> QED BY <1>5, <3>1, <4>1
      <3>4. PICK i \in W : \A j \in W : i <= j
        BY <3>2, <3>3, LeastNat
      <3>5. \A j \in public : j < i => im[j].file # g
        <4>1. ASSUME NEW j \in public, j < i, im[j].file = g PROVE FALSE
          <5>1. j \in W
            BY <3>1, <4>1
          <5>2. i <= j /\ i \in Nat /\ j \in Nat
            BY <3>3, <3>4, <5>1
          <5> QED BY <4>1, <5>2
        <4> QED BY <4>1
      <3>6. i \in added /\ im[i].file = g
        BY <1>6, <2>2, <3>1, <3>4, <3>5
      <3> QED BY <1>15, <1>16, <3>6
    <2> QED BY <2>1, <2>2
  <1>19. N \subseteq DOMAIN files
    <2>1. ASSUME NEW i \in added PROVE im[i].file \in DOMAIN files
      <3>1. im[i] \in ToSet(im)
        BY <1>5, <1>6 DEF ToSet
      <3> QED BY <1>13, <3>1
    <2> QED BY <1>15, <1>16, <2>1
  <1>20. ASSUME NEW S \in SUBSET DOMAIN files, ClosedFor(c, S) PROVE N \subseteq S
    <2>1. ImportedBy(l, {"public"}) \subseteq S
      <3>1. CASE l \in S
        BY <1>20, <3>1 DEF ClosedFor
      <3>2. CASE l = c
        <4>1. ImportedBy(c, {"public"}) \subseteq ImportedBy(c, {"standard", "public", "weak"})
          BY DEF ImportedBy
        <4> QED BY <1>20, <3>2, <4>1 DEF ClosedFor
      <3> QED BY <1>9, <1>12, <1>20, <3>1, <3>2
    <2> QED BY <1>18, <2>1
  <1>21. PICK v : v = visible \cup N
    OBVIOUS
  <1>22. /\ v \subseteq DOMAIN files /\ c \in v /\ ToSet(fr) \cup N \subseteq v
         /\ \A S \in SUBSET DOMAIN files : ClosedFor(c, S) => v \subseteq S \cup {c}
         /\ ImportedBy(c, {"standard", "public", "weak"}) \subseteq v \cup StillImported
    BY <1>9, <1>11, <1>19, <1>20, <1>21
  <1>23. \A g \in v : g = c \/ g \in ToSet(fr) \cup N \/ ImportedBy(g, {"public"}) \subseteq v
    BY <1>9, <1>11, <1>18, <1>21
  <1>24. /\ \A f, kinds : ImportedBy(f, kinds)' = ImportedBy(f, kinds)
         /\ \A f, S : ClosedFor(f, S)' = ClosedFor(f, S)
    BY <1>1, SameFiles
  <1>25. StillImported' = StillImported /\ visible' = v
    BY <1>1, <1>8, <1>16, <1>21 DEF StillImported
  <1>26. VisibleInv'
    <2>1. IsSeq(imports_left) /\ ToSet(imports_left) \subseteq ToSet(files[c].imports)
      BY <1>1, <1>2 DEF VisibleInv
    <2> QED BY <1>1, <1>2, <1>17, <1>22, <1>23, <1>24, <1>25, <2>1 DEF VisibleInv
  <1> QED BY <1>1, <1>26, VisibleStep

\* The invariant holds before the first type is collected.
LEMMA TypesInitially ==
    ASSUME ResolveInit
    PROVE  TypesInv
  <1>1. /\ files \in FileSets /\ phase = "collect" /\ current = 1 /\ work = CollectTasks(1, 0)
        /\ m_symbols = <<>> /\ closure = <<>> /\ bound = {} /\ extensions = {} /\ error = ""
    BY DEF ResolveInit
  <1>2. 1 \in DOMAIN files
    <2>1. PICK s \in FileSets : s = files
      BY <1>1
    <2>2. IsSeq(s) /\ s # <<>>
      BY FileSetsAssumption DEF IsSeq
    <2>3. Len(s) \in Nat /\ DOMAIN s = 1 .. Len(s)
      BY <2>2, SeqFacts
    <2>4. Len(s) # 0
      BY <2>2, EmptySeq DEF IsSeq
    <2> QED BY <2>1, <2>3, <2>4
  <1>3. BindsNearest /\ AcceptsExactlySound
    BY <1>1 DEF BindsNearest, AcceptsExactlySound
  <1>4. CollectInv
    <2>1. IsSeq(work) /\ NoRepeat(work) /\ ToSet(work) = {x \in CollectNodes(1) : x.scope = 0}
      BY <1>1, <1>2, CollectTasksFacts
    <2>2. ToSet(work) = CollectRoots(1)
      BY <2>1 DEF CollectRoots
    <2>3. Walked(work, {}, CollectNodes(1), CollectRoots(1), CollectBelow(1))
      BY <2>1, <2>2, WalkStart
    <2>4. PICK Z : Z = Collected(1, {})
      OBVIOUS
    <2>5. \A f \in DOMAIN files : Z[f] = {}
      BY <1>1, <1>2, <2>4, FileDone
    <2>6. DOMAIN m_symbols = {}
      <3>1. m_symbols = <<>>
        BY <1>1
      <3> QED BY <3>1
    <2>7. SymbolsOf(Z)
      BY <2>5, <2>6 DEF SymbolsOf
    <2> QED BY <1>1, <2>3, <2>4, <2>7 DEF CollectInv
  <1> QED BY <1>1, <1>2, <1>3, <1>4 DEF TypesInv

\* The inductive invariant of type resolution: the table, the work list and the visible files.
THEOREM TypesInvariance == ResolveSpec => []TypesInv
  <1>1. ResolveInit => TypesInv
    BY TypesInitially
  <1>2. TypesInv /\ [ResolveNext]_resolve_vars => TypesInv'
    <2> SUFFICES ASSUME TypesInv, [ResolveNext]_resolve_vars PROVE TypesInv'
      OBVIOUS
    <2>1. CASE Collect
      BY <2>1, CollectKeeps
    <2>2. CASE CollectNextFile
      BY <2>2, CollectNextFileKeeps
    <2>3. CASE AddDirect
      BY <2>3, AddDirectKeeps
    <2>4. CASE PublicClosure
      BY <2>4, PublicClosureKeeps
    <2>5. CASE StartResolving
      BY <2>5, StartResolvingKeeps
    <2>6. CASE resolve_message
      BY <2>6, ResolveMessageKeeps
    <2>7. CASE resolve_field
      BY <2>7, ResolveFieldKeeps
    <2>8. CASE resolve_map
      BY <2>8, ResolveMapKeeps
    <2>9. CASE resolve_extend
      BY <2>9, ResolveExtendKeeps
    <2>10. CASE resolve_extension
      BY <2>10, ResolveExtensionKeeps
    <2>11. CASE NextFile
      BY <2>11, NextFileKeeps
    <2>12. CASE UNCHANGED resolve_vars
      <3>1. /\ files' = files /\ phase' = phase /\ current' = current /\ work' = work /\ m_symbols' = m_symbols
            /\ imports_left' = imports_left /\ closure' = closure /\ visible' = visible /\ bound' = bound
            /\ extensions' = extensions /\ error' = error
        BY <2>12 DEF resolve_vars
      <3>2. /\ BindsNearest' /\ (TableComplete => TableComplete') /\ (NamesUnique => NamesUnique')
            /\ (AcceptsExactlySound => AcceptsExactlySound')
        BY <3>1, SymbolsStay, NearestStays, SameFiles DEF TypesInv, AcceptsExactlySound
      <3>3. TasksDone(Resolved(current, {}), extensions) => TasksDone(Resolved(current, {}), extensions)'
        BY <3>1, SameNodes
      <3>4. CollectInv => CollectInv'
        <4>1. PICK c : c = current
          OBVIOUS
        <4>2. /\ CollectNodes(c)' = CollectNodes(c) /\ CollectRoots(c)' = CollectRoots(c)
              /\ CollectBelow(c)' = CollectBelow(c) /\ \A S : Collected(c, S)' = Collected(c, S)
          BY <3>1, SameNodes
        <4>3. \A Z : SymbolsOf(Z)' <=> SymbolsOf(Z)
          BY <3>1, SymbolsStay
        <4>4. \A S : SymbolsOf(Collected(c, S))' <=> SymbolsOf(Collected(c, S))
          BY <4>2, <4>3
        <4> QED BY <3>1, <4>1, <4>2, <4>4 DEF CollectInv
      <3>5. VisibleInv => VisibleInv'
        BY <3>1, SameFiles DEF VisibleInv, StillImported
      <3>6. ResolvingInv => ResolvingInv'
        <4>1. PICK c : c = current
          OBVIOUS
        <4>2. /\ ResolveNodes(c)' = ResolveNodes(c) /\ ResolveRoots(c)' = ResolveRoots(c)
              /\ ResolveBelow(c)' = ResolveBelow(c) /\ MayName(c)' = MayName(c)
          BY <3>1, SameNodes, SameFiles
        <4>3. \A S : TasksDone(Resolved(c, S), extensions)' <=> TasksDone(Resolved(c, S), extensions)
          BY <3>1, SameNodes
        <4> QED BY <3>1, <4>1, <4>2, <4>3 DEF ResolvingInv
      <3> QED BY <3>1, <3>2, <3>3, <3>4, <3>5, <3>6 DEF TypesInv
    <2> QED BY <2>1, <2>2, <2>3, <2>4, <2>5, <2>6, <2>7, <2>8, <2>9, <2>10, <2>11, <2>12 DEF ResolveNext
  <1> QED BY <1>1, <1>2, PTL DEF ResolveSpec

\* For every input: a reference is bound to the innermost type of its name among those that its
\* file may name.
THEOREM ReferencesBindNearest == ResolveSpec => []BindsNearest
  <1>1. TypesInv => BindsNearest
    BY DEF TypesInv
  <1> QED BY <1>1, TypesInvariance, PTL


\* For every input: the files are accepted if and only if they are sound as a whole. No defect is
\* missed because of the file it is in, of how deep it is nested or of the way a name is written,
\* and no sound input is refused.
THEOREM SoundFilesAccepted == ResolveSpec => []AcceptsExactlySound
  <1>1. TypesInv => AcceptsExactlySound
    BY DEF TypesInv
  <1> QED BY <1>1, TypesInvariance, PTL

=============================================================================
