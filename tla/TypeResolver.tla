----------------------------- MODULE TypeResolver -----------------------------
(***************************************************************************)
(* Type resolution, src/resolve.cpp: compute_fqns, and class TypeResolver, *)
(* which collects the type names of all files, works out for each file     *)
(* which files' types it may name, and resolves its references.  The       *)
(* recursion over nested messages is a list of pending work, the stack of  *)
(* the C++ calls.                                                          *)
(*                                                                         *)
(* A name is the sequence of its components.  The types of a file are      *)
(* listed parents first; `parent` is 0 at the top level.  The members of   *)
(* oneofs follow the other fields of a message, as the walk visits them.   *)
(***************************************************************************)
EXTENDS Integers, Sequences, FiniteSets, SequencesExt, SeqSelect

CONSTANT FileSets       \* candidate file sets, each a sequence of files in dependency order

\* What the parser and the import resolver deliver: a file at least, imports that were found,
\* and types that are listed after the messages they are nested in; an enum has no members here.
ASSUME FileSetsAssumption ==
    \A s \in FileSets :
        /\ s \in Seq(ToSet(s)) /\ s # <<>>
        /\ \A f \in DOMAIN s :
             /\ s[f].package \in Seq(ToSet(s[f].package)) /\ s[f].types \in Seq(ToSet(s[f].types))
             /\ s[f].imports \in Seq(ToSet(s[f].imports)) /\ s[f].extends \in Seq(ToSet(s[f].extends))
             /\ \A m \in ToSet(s[f].imports) :
                  m.file \in DOMAIN s /\ m.kind \in {"standard", "public", "weak", "option"}
             /\ \A i \in DOMAIN s[f].extends : s[f].extends[i].fields \in Seq(ToSet(s[f].extends[i].fields))
             /\ \A t \in DOMAIN s[f].types :
                  LET d == s[f].types[t]
                  IN  /\ d.parent \in 0 .. (t - 1) /\ d.kind \in {"message", "enum"}
                      /\ d.parent # 0 => s[f].types[d.parent].kind = "message"
                      /\ d.kind = "enum" => d.fields = <<>> /\ d.maps = <<>> /\ d.extends = <<>>
                      /\ d.fields \in Seq(ToSet(d.fields)) /\ d.maps \in Seq(ToSet(d.maps))
                      /\ d.extends \in Seq(ToSet(d.extends))
                      /\ \A i \in DOMAIN d.extends : d.extends[i].fields \in Seq(ToSet(d.extends[i].fields))

VARIABLES
    files,              \* the input
    phase,              \* "collect", "visible", "resolve", "done"
    current,            \* index of the file under way
    work,               \* pending work of that file
    m_symbols,          \* fully qualified name -> [kind, file]
    imports_left,       \* visible_files: direct imports still to be added
    closure,            \* the stack of add_public_closure
    visible,            \* the files whose types the current file may name
    extensions,         \* m_table.extensions: {<<extendee, number>>}
    bound,              \* the references resolved so far: [file, scope, name, to]
    error

resolve_vars == <<files, phase, current, work, m_symbols, imports_left, closure, visible,
                  extensions, bound, error>>

Types(f) == files[f].types

\* compute_fqns: the name of type t of file f; t = 0 is the file's own scope.
Fqn(f, t) ==
    LET fqn[i \in 0 .. Len(Types(f))] ==
            IF i = 0 THEN files[f].package ELSE Append(fqn[Types(f)[i].parent], Types(f)[i].name)
    IN  fqn[t]

Children(f, t, kind) ==
    Select([i \in DOMAIN Types(f) |-> i],
           {i \in DOMAIN Types(f) : Types(f)[i].parent = t /\ Types(f)[i].kind = kind})

\* The extend blocks of type t; those of the file itself for t = 0.
ExtendsOf(f, t) == IF t = 0 THEN files[f].extends ELSE Types(f)[t].extends

Task(op, scope, arg) == [op |-> op, scope |-> scope, arg |-> arg]
Tasks(op, scope, args) == [i \in DOMAIN args |-> Task(op, scope, args[i])]
Places(s) == [i \in DOMAIN s |-> i]
Head1 == Head(work)

Reject(e) == error' = e /\ phase' = "done" /\ UNCHANGED <<work, m_symbols, extensions, bound>>

-----------------------------------------------------------------------------
(* collect_symbols                                                         *)

CollectTasks(f, t) ==
    Tasks("message", t, Children(f, t, "message")) \o Tasks("enum", t, Children(f, t, "enum"))

Taken(fqn) == fqn \in DOMAIN m_symbols

\* collect_message and record: a message, then its nested messages, then its enums.
Collect ==
    /\ phase = "collect" /\ work # <<>>
    /\ LET t == Head1.arg
           fqn == Fqn(current, t)
       IN  \/ /\ Taken(fqn)
              /\ Reject("duplicate type")
           \/ /\ ~Taken(fqn)
              /\ m_symbols' = [n \in DOMAIN m_symbols \cup {fqn} |->
                                  IF n = fqn THEN [kind |-> Head1.op, file |-> current] ELSE m_symbols[n]]
              /\ work' = CollectTasks(current, t) \o Tail(work)
              /\ UNCHANGED <<phase, extensions, bound, error>>
    /\ UNCHANGED <<files, current, imports_left, closure, visible>>

\* The next file, or back to the first one for resolution.
CollectNextFile ==
    /\ phase = "collect" /\ work = <<>>
    /\ IF current < Len(files)
       THEN /\ current' = current + 1
            /\ work' = CollectTasks(current', 0)
            /\ UNCHANGED <<phase, imports_left, visible>>
       ELSE /\ current' = 1 /\ phase' = "visible"
            /\ imports_left' = files[1].imports /\ visible' = {1}
            /\ UNCHANGED work
    /\ UNCHANGED <<files, m_symbols, closure, extensions, bound, error>>

-----------------------------------------------------------------------------
(* visible_files                                                           *)

AddsTypes(import) == import.kind # "option"

\* A direct import; the closure over its public imports starts from it.
AddDirect ==
    /\ phase = "visible" /\ closure = <<>> /\ imports_left # <<>>
    /\ LET import == Head(imports_left)
       IN  /\ visible' = IF AddsTypes(import) THEN visible \cup {import.file} ELSE visible
           /\ closure' = IF AddsTypes(import) THEN <<import.file>> ELSE <<>>
    /\ imports_left' = Tail(imports_left)
    /\ UNCHANGED <<files, phase, current, work, m_symbols, extensions, bound, error>>

\* One round of add_public_closure: what is visible already is not followed again, nor is a
\* file that is imported twice.
PublicClosure ==
    /\ phase = "visible" /\ closure # <<>>
    /\ LET imports == files[Last(closure)].imports
           public == {i \in DOMAIN imports : imports[i].kind = "public"}
           added == {i \in public : /\ imports[i].file \notin visible
                                   /\ \A j \in public : j < i => imports[j].file # imports[i].file}
           places == Select(Places(imports), added)
           new == [i \in DOMAIN places |-> imports[places[i]].file]
       IN  /\ visible' = visible \cup ToSet(new)
           /\ closure' = Front(closure) \o new
    /\ UNCHANGED <<files, phase, current, work, m_symbols, imports_left, extensions, bound, error>>

\* Everything visible is known: the messages of the file, then its extend blocks.
StartResolving ==
    /\ phase = "visible" /\ closure = <<>> /\ imports_left = <<>>
    /\ phase' = "resolve"
    /\ work' = Tasks("message", 0, Children(current, 0, "message"))
               \o Tasks("extend", 0, Places(ExtendsOf(current, 0)))
    /\ UNCHANGED <<files, current, m_symbols, imports_left, closure, visible, extensions,
                   bound, error>>

-----------------------------------------------------------------------------
(* Resolution of references                                                *)

\* Mutant: any file's types can be named.
is_visibleAny(fqn) == fqn \in DOMAIN m_symbols

is_visible(fqn) == fqn \in DOMAIN m_symbols /\ m_symbols[fqn].file \in visible

Unresolved == <<>>      \* no type has the empty name

\* An absolute name as it is, any other in the innermost scope that has it.
resolve_name(name, scope) ==
    IF name.absolute THEN IF is_visible(name.path) THEN name.path ELSE Unresolved
    ELSE LET depths == {k \in 0 .. Len(scope) : is_visible(SubSeq(scope, 1, k) \o name.path)}
         IN  IF depths = {} THEN Unresolved ELSE SubSeq(scope, 1, Max(depths)) \o name.path

Scope == Fqn(current, Head1.scope)
Bind(name, to) ==
    bound' = bound \cup {[file |-> current, scope |-> Scope, name |-> name, to |-> to]}

HasTask(op) == phase = "resolve" /\ work # <<>> /\ Head1.op = op
Unmoved == UNCHANGED <<files, current, imports_left, closure, visible>>

\* resolve_message: fields, members of oneofs, maps, nested messages, extend blocks.
resolve_message ==
    /\ HasTask("message")
    /\ LET t == Head1.arg
           m == Types(current)[t]
       IN  work' = Tasks("field", t, Places(m.fields)) \o Tasks("map", t, Places(m.maps))
                   \o Tasks("message", t, Children(current, t, "message"))
                   \o Tasks("extend", t, Places(ExtendsOf(current, t))) \o Tail(work)
    /\ UNCHANGED <<phase, m_symbols, extensions, bound, error>>
    /\ Unmoved

resolve_field ==
    /\ HasTask("field")
    /\ LET f == Types(current)[Head1.scope].fields[Head1.arg]
           to == resolve_name(f.type, Scope)
       IN  \/ /\ f.scalar
              /\ work' = Tail(work)
              /\ UNCHANGED <<phase, bound, error, m_symbols, extensions>>
           \/ /\ ~f.scalar /\ to = Unresolved
              /\ Reject("unresolved type")
           \/ /\ ~f.scalar /\ to # Unresolved
              /\ Bind(f.type, to) /\ work' = Tail(work)
              /\ UNCHANGED <<phase, error, m_symbols, extensions>>
    /\ Unmoved

\* The key of a map is checked before its value is looked up.
resolve_map ==
    /\ HasTask("map")
    /\ LET f == Types(current)[Head1.scope].maps[Head1.arg]
           to == resolve_name(f.type, Scope)
       IN  \/ /\ ~f.integral_key
              /\ Reject("map key type")
           \/ /\ f.integral_key /\ f.scalar
              /\ work' = Tail(work)
              /\ UNCHANGED <<phase, bound, error, m_symbols, extensions>>
           \/ /\ f.integral_key /\ ~f.scalar /\ to = Unresolved
              /\ Reject("unresolved map value type")
           \/ /\ f.integral_key /\ ~f.scalar /\ to # Unresolved
              /\ Bind(f.type, to) /\ work' = Tail(work)
              /\ UNCHANGED <<phase, error, m_symbols, extensions>>
    /\ Unmoved

\* The extendee, which must be a message; its fields are next.
resolve_extend ==
    /\ HasTask("extend")
    /\ LET e == ExtendsOf(current, Head1.scope)[Head1.arg]
           to == resolve_name(e.extendee, Scope)
       IN  \/ /\ to = Unresolved
              /\ Reject("unresolved extendee")
           \/ /\ to # Unresolved /\ m_symbols[to].kind # "message"
              /\ Reject("extendee is not a message")
           \/ /\ to # Unresolved /\ m_symbols[to].kind = "message"
              /\ Bind(e.extendee, to)
              /\ work' = [i \in DOMAIN e.fields |->
                            Task("extension", Head1.scope,
                                 [block |-> Head1.arg, field |-> i, extendee |-> to])] \o Tail(work)
              /\ UNCHANGED <<phase, m_symbols, extensions, error>>
    /\ Unmoved

\* Mutant: the number must be unique among the extensions of the name as it is written.
ExtensionKeyAsWritten(extendee, block, field) == <<block.extendee.path, field.number>>

ExtensionKey(extendee, block, field) == <<extendee, field.number>>

\* A field of an extend block: its type, then its number.
resolve_extension ==
    /\ HasTask("extension")
    /\ LET x == Head1.arg
           block == ExtendsOf(current, Head1.scope)[x.block]
           f == block.fields[x.field]
           to == resolve_name(f.type, Scope)
           key == ExtensionKey(x.extendee, block, f)
           lost == ~f.scalar /\ to = Unresolved
       IN  \/ /\ lost
              /\ Reject("unresolved type")
           \/ /\ ~lost /\ key \in extensions
              /\ Reject("duplicate extension number")
           \/ /\ ~lost /\ key \notin extensions
              /\ extensions' = extensions \cup {key}
              /\ IF f.scalar THEN UNCHANGED bound ELSE Bind(f.type, to)
              /\ work' = Tail(work)
              /\ UNCHANGED <<phase, m_symbols, error>>
    /\ Unmoved

\* The next file of run(), or the end.
NextFile ==
    /\ phase = "resolve" /\ work = <<>>
    /\ IF current < Len(files)
       THEN /\ current' = current + 1 /\ phase' = "visible"
            /\ imports_left' = files[current'].imports /\ visible' = {current'}
       ELSE /\ phase' = "done"
            /\ UNCHANGED <<current, imports_left, visible>>
    /\ UNCHANGED <<files, work, m_symbols, closure, extensions, bound, error>>

ResolveInit ==
    /\ files \in FileSets
    /\ phase = "collect" /\ current = 1 /\ work = CollectTasks(1, 0)
    /\ m_symbols = <<>> /\ imports_left = <<>> /\ closure = <<>> /\ visible = {}
    /\ extensions = {} /\ bound = {} /\ error = ""

ResolveNext ==
    \/ Collect \/ CollectNextFile
    \/ AddDirect \/ PublicClosure \/ StartResolving
    \/ resolve_message \/ resolve_field \/ resolve_map \/ resolve_extend \/ resolve_extension
    \/ NextFile

ResolveSpec == ResolveInit /\ [][ResolveNext]_resolve_vars

-----------------------------------------------------------------------------
(* Properties                                                              *)

ImportedBy(f, kinds) ==
    {files[f].imports[i].file : i \in {i \in DOMAIN files[f].imports :
                                          files[f].imports[i].kind \in kinds}}

\* S has what file f imports, but for options, and with a file what that one imports publicly.
ClosedFor(f, S) ==
    /\ ImportedBy(f, {"standard", "public", "weak"}) \subseteq S
    /\ \A g \in S : ImportedBy(g, {"public"}) \subseteq S

\* The files whose types file f may name: itself, and the least set of that kind.
MayName(f) ==
    {f} \cup {g \in DOMAIN files : \A S \in SUBSET DOMAIN files : ClosedFor(f, S) => g \in S}

\* The types declared by the files of S, by name.
Declared(S) == UNION {{Fqn(f, t) : t \in DOMAIN Types(f)} : f \in S}

\* The names a reference could mean, innermost scope first.
Readings(name, scope) ==
    IF name.absolute THEN <<name.path>>
    ELSE [i \in 1 .. (Len(scope) + 1) |-> SubSeq(scope, 1, Len(scope) + 1 - i) \o name.path]

\* A reference is bound to the innermost type of that name that its file may name: never to
\* a type of a file it does not import, even if that one is nearer.
BindsNearest ==
    \A b \in bound :
        LET r == Readings(b.name, b.scope)
            there == {i \in DOMAIN r : r[i] \in Declared(MayName(b.file))}
        IN  there # {} /\ b.to = r[Min(there)]

\* What a reference means: the innermost type, if there is one.
Meaning(f, scope, name) ==
    LET r == Readings(name, scope)
        there == {i \in DOMAIN r : r[i] \in Declared(MayName(f))}
    IN  IF there = {} THEN Unresolved ELSE r[Min(there)]

Scopes(f) == 0 .. Len(Types(f))
Extendee(f, t, i) == Meaning(f, Fqn(f, t), ExtendsOf(f, t)[i].extendee)
IsMessage(fqn) ==
    \E f \in DOMAIN files : \E t \in DOMAIN Types(f) : Fqn(f, t) = fqn /\ Types(f)[t].kind = "message"

NamesUnique ==
    \A f, g \in DOMAIN files : \A t \in DOMAIN Types(f), u \in DOMAIN Types(g) :
        Fqn(f, t) = Fqn(g, u) => f = g /\ t = u

FieldOk(f, t, d) == d.scalar \/ Meaning(f, Fqn(f, t), d.type) # Unresolved
MapOk(f, t, d) == d.integral_key /\ FieldOk(f, t, d)
BlockOk(f, t, i) ==
    /\ Extendee(f, t, i) # Unresolved /\ IsMessage(Extendee(f, t, i))
    /\ \A j \in DOMAIN ExtendsOf(f, t)[i].fields : FieldOk(f, t, ExtendsOf(f, t)[i].fields[j])

\* Two fields of extend blocks, in two places, do not give one number to one message.
NumbersUnique ==
    \A f, g \in DOMAIN files : \A t \in Scopes(f), u \in Scopes(g) :
        \A i \in DOMAIN ExtendsOf(f, t), k \in DOMAIN ExtendsOf(g, u) :
            \A j \in DOMAIN ExtendsOf(f, t)[i].fields, l \in DOMAIN ExtendsOf(g, u)[k].fields :
                (/\ Extendee(f, t, i) = Extendee(g, u, k)
                 /\ ExtendsOf(f, t)[i].fields[j].number = ExtendsOf(g, u)[k].fields[l].number)
                => f = g /\ t = u /\ i = k /\ j = l

\* The input is sound: type names are unique, references have a meaning, keys are
\* integral, extendees are messages and their extension numbers unique.
Sound ==
    /\ NamesUnique
    /\ \A f \in DOMAIN files :
         /\ \A t \in DOMAIN Types(f) :
              /\ \A i \in DOMAIN Types(f)[t].fields : FieldOk(f, t, Types(f)[t].fields[i])
              /\ \A i \in DOMAIN Types(f)[t].maps : MapOk(f, t, Types(f)[t].maps[i])
         /\ \A t \in Scopes(f) : \A i \in DOMAIN ExtendsOf(f, t) : BlockOk(f, t, i)
    /\ NumbersUnique

\* Files are accepted exactly if they are sound as a whole: no defect is missed because of
\* the file it is in or the way a name is written, and no sound input is refused.
AcceptsExactlySound == phase = "done" => (error = "" <=> Sound)

=============================================================================
