------------------------------ MODULE FieldModes ------------------------------
(***************************************************************************)
(* Arena field modes, src/arenagen/modes.cpp: a profile says which fields  *)
(* are dropped or kept raw and which messages report unknown fields.       *)
(* parse_modes_file reads its lines, resolve_field_modes checks the        *)
(* entries, fans those of types out to the fields of that type, and gives  *)
(* the profile its identity, which the generated code carries so that two  *)
(* different selections cannot be linked together.                         *)
(*                                                                         *)
(* A name as written is [dot, fqn]: with or without the leading dot.       *)
(***************************************************************************)
EXTENDS Integers, Sequences, FiniteSets, SequencesExt

CONSTANTS
    MessageTypes, Enums, \* the types of the schema
    Fields,             \* the fields: name -> [parent, type, kind, required]
    Profiles            \* candidate profiles: [lines, unknown_all]

VARIABLES
    given,              \* the input
    line_no,            \* lines of the profile read
    spec,               \* FieldModesSpec: [profile_name, entries, unknowns]
    entry,              \* entries resolved
    sel,                \* Selection: [chosen (all its maps), normalized]
    modes,              \* FieldModes::fields and maps: field -> mode
    unknown,            \* entries of spec.unknowns resolved
    unknown_messages,
    unknown_lines,
    profile,            \* the identity: <<name, normalized lines>>, or NoProfile
    phase,              \* "parse", "entries", "unknowns", "done"
    error

modes_vars == <<given, line_no, spec, entry, sel, modes, unknown, unknown_messages, unknown_lines,
                profile, phase, error>>

\* A name is never both a type and a field ("one namespace per message scope", as the comment
\* of apply_entry has it), only plain fields are required, and an identifier is not empty.
ASSUME FieldModesAssumption ==
    /\ MessageTypes \cap Enums = {} /\ DOMAIN Fields \cap (MessageTypes \cup Enums) = {}
    /\ {"", "*"} \cap (DOMAIN Fields \cup MessageTypes \cup Enums) = {}
    /\ \A f \in DOMAIN Fields :
         /\ Fields[f].kind \in {"field", "map", "oneof"} /\ Fields[f].required \in BOOLEAN
         /\ Fields[f].required => Fields[f].kind = "field"
    /\ \A g \in Profiles :
         /\ g.unknown_all \in BOOLEAN /\ g.lines \in Seq(ToSet(g.lines))
         /\ \A x \in ToSet(g.lines) :
              /\ x.single \in BOOLEAN /\ x.identifier \in BOOLEAN
              /\ x.directive = "name" /\ x.identifier => x.arg.fqn # ""

NoProfile == <<>>
Fail(e) == error' = e /\ phase' = "done"

-----------------------------------------------------------------------------
(* parse_modes_file                                                        *)

Line == given.lines[line_no + 1]

\* A line without comment and blanks: a directive with one argument.  A second name must be
\* the first one again.
ParseLine ==
    /\ phase = "parse" /\ line_no < Len(given.lines)
    /\ line_no' = line_no + 1
    /\ \/ /\ ~Line.single /\ Fail("expected a directive and an argument")
          /\ UNCHANGED spec
       \/ /\ Line.single /\ Line.directive = "name"
          /\ IF ~Line.identifier THEN Fail("not an identifier") /\ UNCHANGED spec
             ELSE IF spec.profile_name \notin {"", Line.arg.fqn}
             THEN Fail("already named") /\ UNCHANGED spec
             ELSE spec' = [spec EXCEPT !.profile_name = Line.arg.fqn] /\ UNCHANGED <<phase, error>>
       \/ /\ Line.single /\ Line.directive \in {"drop", "raw"}
          /\ spec' = [spec EXCEPT !.entries = Append(@, [mode |-> Line.directive, name |-> Line.arg])]
          /\ UNCHANGED <<phase, error>>
       \/ /\ Line.single /\ Line.directive = "unknown-fields"
          /\ spec' = [spec EXCEPT !.unknowns = Append(@, Line.arg)]
          /\ UNCHANGED <<phase, error>>
       \/ /\ Line.single /\ Line.directive \notin {"name", "drop", "raw", "unknown-fields"}
          /\ Fail("unknown directive") /\ UNCHANGED spec
    /\ UNCHANGED <<given, entry, sel, modes, unknown, unknown_messages, unknown_lines, profile>>

StartEntries ==
    /\ phase = "parse" /\ line_no = Len(given.lines)
    /\ phase' = "entries"
    /\ UNCHANGED <<given, line_no, spec, entry, sel, modes, unknown, unknown_messages,
                   unknown_lines, profile, error>>

-----------------------------------------------------------------------------
(* Pass 1: entries                                                         *)

normalize_name(name) == name.fqn
IsType(fqn) == fqn \in MessageTypes \cup Enums
IsField(fqn) == fqn \in DOMAIN Fields

field_entry_error(mode, f) ==
    LET d == Fields[f]
    IN  IF d.kind = "oneof" THEN "oneof member"
        ELSE IF mode = "drop" /\ d.kind = "field" /\ d.required THEN "cannot drop required"
        ELSE IF mode = "raw" /\ (d.kind = "map" \/ d.type \notin MessageTypes) THEN "cannot keep raw"
        ELSE ""

\* Mutant: the entries are told apart by the name as it is written.
KeyAsWritten(name) == <<name.fqn, name.dot>>

\* The key of an entry in type_modes, field_modes and map_modes.
Key(name) == <<normalize_name(name)>>

\* Only an entry that was inserted is noted.
Noted(known) == ~known

\* apply_entry: what entry e does to the selection, or why it is refused.
EntryError(e) ==
    LET fqn == normalize_name(e.name)
        key == Key(e.name)
        known == key \in DOMAIN sel.chosen
    IN  IF fqn = "" THEN "empty name"
        ELSE IF ~IsType(fqn) /\ ~IsField(fqn) THEN "unknown field or type"
        ELSE IF IsType(fqn) /\ e.mode = "raw" /\ fqn \in Enums THEN "cannot keep enum raw"
        ELSE IF IsField(fqn) /\ field_entry_error(e.mode, fqn) # "" THEN field_entry_error(e.mode, fqn)
        ELSE IF known /\ sel.chosen[key].mode # e.mode THEN "already has a mode"
        ELSE ""

apply_entry ==
    /\ phase = "entries" /\ entry < Len(spec.entries)
    /\ entry' = entry + 1
    /\ LET e == spec.entries[entry + 1]
           key == Key(e.name)
           known == key \in DOMAIN sel.chosen
           line == <<e.mode, normalize_name(e.name)>>
       IN  IF EntryError(e) # "" THEN Fail(EntryError(e)) /\ UNCHANGED sel
           ELSE /\ sel' = [chosen |-> IF known THEN sel.chosen
                                      ELSE [k \in DOMAIN sel.chosen \cup {key} |->
                                              IF k = key THEN [mode |-> e.mode, fqn |-> line[2]]
                                              ELSE sel.chosen[k]],
                           normalized |-> IF Noted(known) THEN Append(sel.normalized, line)
                                          ELSE sel.normalized]
                /\ UNCHANGED <<phase, error>>
    /\ UNCHANGED <<given, line_no, spec, modes, unknown, unknown_messages, unknown_lines, profile>>

-----------------------------------------------------------------------------
(* Pass 2: fields                                                          *)

Chosen(fqn) == {sel.chosen[k].mode : k \in {k \in DOMAIN sel.chosen : sel.chosen[k].fqn = fqn}}

\* Mutant: what is said of the type wins.
TypeFirst(f) == Chosen(f) # {} /\ Chosen(Fields[f].type) = {}

\* An entry for the field itself wins over one for its type.
FieldFirst(f) == Chosen(f) # {}

\* The mode the type of field f asks for, unless the field must stay: members of oneofs,
\* required fields that would be dropped, maps that would be raw.
FromType(f) ==
    {m \in Chosen(Fields[f].type) :
        /\ Fields[f].kind # "oneof"
        /\ ~(m = "drop" /\ Fields[f].kind = "field" /\ Fields[f].required)
        /\ ~(m = "raw" /\ Fields[f].kind = "map")}

\* apply_selection, over all messages: the fields that get a mode, and it.
apply_selection ==
    /\ phase = "entries" /\ entry = Len(spec.entries)
    /\ modes' = LET m(f) == IF FieldFirst(f) THEN Chosen(f) ELSE FromType(f)
                IN  [f \in {f \in DOMAIN Fields : m(f) # {}} |-> CHOOSE x \in m(f) : TRUE]
    /\ phase' = "unknowns"
    /\ UNCHANGED <<given, line_no, spec, entry, sel, unknown, unknown_messages, unknown_lines,
                   profile, error>>

-----------------------------------------------------------------------------
(* Unknown fields, and the identity                                        *)

apply_unknown_entry ==
    /\ phase = "unknowns" /\ unknown < Len(spec.unknowns)
    /\ unknown' = unknown + 1
    /\ LET fqn == normalize_name(spec.unknowns[unknown + 1])
       IN  \/ /\ fqn \in MessageTypes
              /\ unknown_messages' = unknown_messages \cup {fqn}
              /\ unknown_lines' = IF fqn \in unknown_messages THEN unknown_lines
                                  ELSE Append(unknown_lines, <<"unknown", fqn>>)
              /\ UNCHANGED <<phase, error>>
           \/ /\ fqn \notin MessageTypes
              /\ Fail(IF fqn = "" THEN "empty name" ELSE IF fqn \in Enums THEN "is an enum"
                      ELSE IF IsField(fqn) THEN "is a field" ELSE "unknown message")
              /\ UNCHANGED <<unknown_messages, unknown_lines>>
    /\ UNCHANGED <<given, line_no, spec, entry, sel, modes, profile>>

active(m, u) == m # <<>> \/ u # {}

\* The end of resolve_field_modes: the flag for all messages stands for their own lines; a
\* profile that changes nothing has no identity.
Finish ==
    /\ phase = "unknowns" /\ unknown = Len(spec.unknowns)
    /\ LET u == IF given.unknown_all THEN MessageTypes ELSE unknown_messages
           lines == sel.normalized \o (IF given.unknown_all THEN << <<"unknown", "*">> >>
                                       ELSE unknown_lines)
       IN  /\ unknown_messages' = u
           /\ profile' = IF active(modes, u)
                         THEN <<spec.profile_name, [l \in ToSet(lines) |->
                                    Cardinality({i \in DOMAIN lines : lines[i] = l})]>>
                         ELSE NoProfile
    /\ phase' = "done"
    /\ UNCHANGED <<given, line_no, spec, entry, sel, modes, unknown, unknown_lines, error>>

ModesInit ==
    /\ given \in Profiles
    /\ line_no = 0 /\ spec = [profile_name |-> "", entries |-> <<>>, unknowns |-> <<>>]
    /\ entry = 0 /\ sel = [chosen |-> <<>>, normalized |-> <<>>] /\ modes = <<>>
    /\ unknown = 0 /\ unknown_messages = {} /\ unknown_lines = <<>>
    /\ profile = NoProfile /\ phase = "parse" /\ error = ""

ModesNext == ParseLine \/ StartEntries \/ apply_entry \/ apply_selection \/ apply_unknown_entry \/ Finish

ModesSpec == ModesInit /\ [][ModesNext]_modes_vars

-----------------------------------------------------------------------------
(* Properties                                                              *)

Succeeded == phase = "done" /\ error = ""

\* What the profile asks for, as a set: order, repetition and spelling do not count.
Asked ==
    LET l == ToSet(given.lines)
        sets(d) == {<<d, x.arg.fqn>> : x \in {x \in l : x.directive = d}}
    IN  sets("drop") \cup sets("raw")
        \cup (IF given.unknown_all THEN {<<"unknown", "*">>}
              ELSE {<<"unknown", x[2]>> : x \in sets("unknown-fields")})

\* Reference: the mode a set of lines gives to field f.
ModeBy(lines, f) ==
    LET d == Fields[f]
    IN  IF \E m \in {"drop", "raw"} : <<m, f>> \in lines
        THEN CHOOSE m \in {"drop", "raw"} : <<m, f>> \in lines
        ELSE IF <<"drop", d.type>> \in lines /\ d.kind # "oneof" /\ ~d.required THEN "drop"
        ELSE IF <<"raw", d.type>> \in lines /\ d.kind = "field" THEN "raw"
        ELSE "materialize"

\* The identity of a profile is the selection, every line once, and determines every mode: two
\* profiles that lay out a message differently never have the same identity, and the same
\* selection has one whatever the order and the spelling of the entries.
IdentityDeterminesModes ==
    Succeeded =>
        LET lines == IF profile = NoProfile THEN {} ELSE DOMAIN profile[2]
        IN  /\ \A f \in DOMAIN Fields :
                  (IF f \in DOMAIN modes THEN modes[f] ELSE "materialize") = ModeBy(lines, f)
            /\ unknown_messages = {m \in MessageTypes : <<"unknown", m>> \in lines
                                                    \/ <<"unknown", "*">> \in lines}
            /\ profile # NoProfile => lines = Asked /\ \A l \in Asked : profile[2][l] = 1

\* The profile is sound as a whole, entry by entry and against each other.
Sound ==
    LET l == ToSet(given.lines)
        of(d) == {x \in l : x.directive = d}
        known(x) == IsType(x.arg.fqn) \/ IsField(x.arg.fqn)
    IN  /\ \A x \in l : x.single /\ x.directive \in {"name", "drop", "raw", "unknown-fields"}
        /\ \A x \in of("name") : x.identifier
        /\ \A x, y \in of("name") : x.arg.fqn = y.arg.fqn
        /\ \A x \in of("drop") \cup of("raw") :
             /\ known(x)
             /\ \A y \in of("drop") \cup of("raw") :
                   x.arg.fqn = y.arg.fqn => x.directive = y.directive
             /\ IsField(x.arg.fqn) => Fields[x.arg.fqn].kind # "oneof"
        /\ \A x \in of("raw") : x.arg.fqn \notin Enums
             /\ (IsField(x.arg.fqn) => Fields[x.arg.fqn].kind = "field"
                                       /\ Fields[x.arg.fqn].type \in MessageTypes)
        /\ \A x \in of("drop") : IsField(x.arg.fqn) => ~Fields[x.arg.fqn].required
        /\ \A x \in of("unknown-fields") : x.arg.fqn \in MessageTypes

\* A profile is accepted exactly if it is sound: nothing is ignored silently, and two entries
\* that contradict each other are refused in either order and in any spelling.
AcceptsSoundProfiles == phase = "done" => (error = "" <=> Sound)

=============================================================================
