-------------------------------- MODULE Wire --------------------------------
(***************************************************************************)
(* The wire readers of include/rapidproto/runtime.hpp (namespace wire):    *)
(* varints, tags, fixed-width values and length-delimited payloads, read   *)
(* from untrusted bytes.                                                   *)
(*                                                                         *)
(* A buffer is a sequence s of bytes and a cursor p the number of bytes    *)
(* before it, so *p is s[p + 1] and `end` is Len(s).  A reader returns     *)
(* [err, next, val]; err # None is the nullptr return.  Bytes carry 7 bits *)
(* of a varint in the code (Radix 128), a varint has at most 10 bytes and  *)
(* fixed values 4 and 8: the constants scale these down.                   *)
(***************************************************************************)
EXTENDS Integers, Sequences, SequencesExt, FiniteSets, FiniteSetsExt

CONSTANTS
    Radix,              \* 128: a byte below it ends a varint
    VarintBytes,        \* 10: its last byte may only contribute one bit
    I32Bytes, I64Bytes, \* 4 and 8
    kMaxFieldNumber,
    SizeTMax            \* numeric_limits<size_t>::max(), small on a 32-bit host

ASSUME WireAssumption ==
    /\ Radix \in Nat \ {0} /\ Radix % 8 = 0
    /\ VarintBytes \in Nat /\ VarintBytes >= 3
    /\ I32Bytes \in Nat \ {0} /\ I64Bytes \in Nat \ {0}
    /\ kMaxFieldNumber \in Nat /\ SizeTMax \in Nat
    /\ (Radix * Radix) \div 8 <= kMaxFieldNumber + 1   \* two-byte tags are in range

Byte == 0 .. (2 * Radix - 1)

\* WireType
Varint == 0
I64 == 1
LenType == 2
SGroup == 3
EGroup == 4
I32 == 5
Reserved == {6, 7}

None == "None"
Ok(next, val) == [err |-> None, next |-> next, val |-> val]
Err(err) == [err |-> err, next |-> 0, val |-> 0]

-----------------------------------------------------------------------------
\* What bit 0 of byte k + 1 of a varint stands for: a shift by 7 bits for each byte before it.
Weight(k) ==
    LET w[i \in 0 .. k] == IF i = 0 THEN 1 ELSE Radix * w[i - 1]
    IN  w[k]

\* The values of std::uint64_t.
WordSize == 2 * Weight(VarintBytes - 1)

\* The last byte a varint may have contributes one bit only.
LastByteFits(n, b) == n = VarintBytes => b <= 1

\* The n bytes at p are a varint: only the last one lacks the continuation bit.
IsVarint(s, p, n) ==
    /\ p + n <= Len(s)
    /\ \A i \in 1 .. (n - 1) : s[p + i] >= Radix
    /\ s[p + n] < Radix
    /\ LastByteFits(n, s[p + n])

VarintValue(s, p, n) ==
    LET v[i \in 0 .. n] == IF i = 0 THEN 0 ELSE v[i - 1] + (s[p + i] % Radix) * Weight(i - 1)
    IN  v[n]

Overlong(s, p) ==
    p + VarintBytes <= Len(s) /\ \A i \in 1 .. (VarintBytes - 1) : s[p + i] >= Radix

read_varint(s, p) ==
    IF \E n \in 1 .. VarintBytes : IsVarint(s, p, n)
    THEN LET n == CHOOSE n \in 1 .. VarintBytes : IsVarint(s, p, n)
         IN  Ok(p + n, VarintValue(s, p, n))
    ELSE IF Overlong(s, p) THEN Err("VarintOverflow") ELSE Err("TruncatedVarint")

-----------------------------------------------------------------------------
TagOf(raw) == [field |-> raw \div 8, wire |-> raw % 8]

\* The fused one-byte tag shared by read_tag and read_tag_or_end.
OneByteTag(s, p) ==
    /\ s[p + 1] < Radix
    /\ TagOf(s[p + 1]).field # 0 /\ TagOf(s[p + 1]).wire \notin Reserved

\* The checks on a tag read as a full varint, in their order.
CheckedTag(raw, next) ==
    IF TagOf(raw).field = 0 THEN Err("InvalidFieldNumber")
    ELSE IF TagOf(raw).field > kMaxFieldNumber THEN Err("FieldNumberRange")
    ELSE IF TagOf(raw).wire \in Reserved THEN Err("ReservedWireType")
    ELSE Ok(next, TagOf(raw))

read_tag(s, p) ==
    IF p < Len(s) /\ OneByteTag(s, p) THEN Ok(p + 1, TagOf(s[p + 1]))
    ELSE LET v == read_varint(s, p)
         IN  IF v.err # None THEN v ELSE CheckedTag(v.val, v.next)

\* Mutant: the second byte of a fused two-byte tag may be zero.
SecondByteTerminates(b) == b < Radix

\* p[1] - 1U < 0x7F: the second byte ends the tag and is not zero.
EndsTwoByteTag(b) == (b - 1) % (2 * Radix) < Radix - 1

TwoByteRaw(s, p) == (s[p + 1] % Radix) + Radix * s[p + 2]

TwoByteTag(s, p) ==
    /\ s[p + 1] >= Radix /\ Len(s) - p >= 2
    /\ EndsTwoByteTag(s[p + 2])
    /\ TagOf(TwoByteRaw(s, p)).wire \notin Reserved

\* The tag of the next field, or err "End" at a clean end of the buffer.
read_tag_or_end(s, p) ==
    IF p >= Len(s) THEN Err("End")
    ELSE IF OneByteTag(s, p) THEN Ok(p + 1, TagOf(s[p + 1]))
    ELSE IF TwoByteTag(s, p) THEN Ok(p + 2, TagOf(TwoByteRaw(s, p)))
    ELSE read_tag(s, p)

-----------------------------------------------------------------------------
\* A view of the buffer: where it begins and ends.  No reader branches on the bytes
\* of a fixed-width value, which are given by their place as well.
View(lo, hi) == [lo |-> lo, hi |-> hi]

read_fixed(s, p, width, err) ==
    IF Len(s) - p < width THEN Err(err) ELSE Ok(p + width, View(p, p + width))

read_fixed32(s, p) == read_fixed(s, p, I32Bytes, "TruncatedI32")
read_fixed64(s, p) == read_fixed(s, p, I64Bytes, "TruncatedI64")

\* Mutant: one byte of the payload may lie past the buffer.
LengthExceedsByOne(len, avail) == len > avail + 1

LengthExceeds(len, avail) == len > avail

read_length_delimited(s, p) ==
    LET v == read_varint(s, p)
    IN  IF v.err # None THEN v
        ELSE IF v.val > SizeTMax THEN Err("LengthTooLarge")
        ELSE IF LengthExceeds(v.val, Len(s) - v.next) THEN Err("LengthExceedsBuffer")
        ELSE Ok(v.next + v.val, View(v.next, v.next + v.val))

\* skip_value of a field that is not a group.
SkipLeaf(s, p, wire) ==
    CASE wire = Varint -> read_varint(s, p)
      [] wire = I64 -> read_fixed64(s, p)
      [] wire = I32 -> read_fixed32(s, p)
      [] wire = LenType -> read_length_delimited(s, p)

IsLeaf(wire) == wire \in {Varint, I64, I32, LenType}

=============================================================================
