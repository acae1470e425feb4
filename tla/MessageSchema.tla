--------------------------- MODULE MessageSchema ---------------------------
(***************************************************************************)
(* What the arena generator knows of a message type when it emits the      *)
(* decoder, and the records that a decoder meets on the wire.              *)
(*                                                                         *)
(* A body is a sequence of records [num, wire, val]: the field number and  *)
(* wire type of the tag, and the value.  The value of a VARINT or I32      *)
(* record is an element of Values; that of a LEN record is a sequence: the *)
(* elements of a packed span, or the records of a sub-message or map entry. *)
(* Bad stands where the readers of runtime.hpp fail: as a value (truncated,*)
(* overlong, longer than the body), as an element of a packed span, or as  *)
(* the wire type of a malformed tag.                                       *)
(***************************************************************************)
EXTENDS Naturals, Sequences, SequencesExt

CONSTANTS
    Schema,           \* message type -> field number -> field
    Inputs,           \* message type -> the bodies its decode() is called on
    kMaxDecodeDepth,
    Bad, Absent

(***************************************************************************)
(* A field is [kind, wire, type, oneof, required, bit].                    *)
(*   kind      scalar           singular scalar, enum, bool, string        *)
(*             inline, pointer  singular sub-message by storage            *)
(*             elements         repeated scalar, enum or string            *)
(*             messages, map    repeated sub-message, map entries          *)
(*             raw, raws        sub-message kept as bytes, and repeated    *)
(*             dropped          no storage                                 *)
(*   wire      the wire type its tag carries, an element's when repeated   *)
(*   type      the message or entry type, Absent if none                   *)
(*   oneof     the storage it shares: the lowest number of its oneof, or 0 *)
(*   required  proto2 required: its place among the required fields of the *)
(*             message in the order of their declarations, or 0            *)
(*   bit       has a bit in the presence mask or in rp_req                 *)
(***************************************************************************)

MessageKinds == {"inline", "pointer", "messages", "map"}
SingularMessageKinds == {"inline", "pointer", "raw"}
RepeatedKinds == {"elements", "messages", "map", "raws"}

\* The calls of decode().
Calls == UNION {[type : {t}, body : Inputs[t]] : t \in DOMAIN Inputs}

Known(t, r) == r.num \in DOMAIN Schema[t]

\* The wire-type guard of a field's arm, for one value or element ...
TakesOne(f, r) == f.kind # "dropped" /\ r.wire = f.wire

\* ... and for a packed span; strings and messages do not pack.
TakesPacked(f, r) == f.kind = "elements" /\ f.wire \notin {"Len", "SGroup"} /\ r.wire = "Len"

\* The record belongs to field n of type t; every other record is skipped.
Belongs(t, n, r) ==
    /\ r.num = n /\ n \in DOMAIN Schema[t]
    /\ TakesOne(Schema[t][n], r) \/ TakesPacked(Schema[t][n], r)

\* The members that hold the fields of a message: a oneof has one, by its lowest number.
Storage(t, n) == IF Schema[t][n].oneof # 0 THEN Schema[t][n].oneof ELSE n
Members(t) == {Storage(t, n) : n \in {m \in DOMAIN Schema[t] : Schema[t][m].kind # "dropped"}}

ASSUME SchemaAssumption ==
    /\ DOMAIN Inputs \subseteq DOMAIN Schema
    /\ kMaxDecodeDepth \in Nat
    /\ \A t \in DOMAIN Schema : \A n \in DOMAIN Schema[t] :
          LET f == Schema[t][n]
          IN  /\ n \in Nat \ {0}
              /\ f.kind \in MessageKinds => f.type \in DOMAIN Schema
              /\ f.oneof # 0 => f.oneof \in DOMAIN Schema[t]
              /\ f.required \in Nat
              /\ f.required # 0 => f.bit /\ f.kind \in {"scalar", "inline", "pointer", "raw"}
              \* A required or inline sub-message has a bit to tell a second occurrence by.
              /\ f.kind = "inline" /\ f.oneof = 0 => f.bit

=============================================================================
