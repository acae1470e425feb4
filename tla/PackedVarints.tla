---------------------------- MODULE PackedVarints ----------------------------
(***************************************************************************)
(* decode_packed_varints of include/rapidproto/runtime.hpp: a packed span  *)
(* of varints, decoded word by word with one of five kernels, chosen from  *)
(* the first window of the span, and a validating byte loop for the rest.  *)
(* One action is one turn of a kernel's loop.                              *)
(*                                                                         *)
(* A word is eight bytes, as in the code; a byte carries Radix values of a *)
(* varint, so the words fit the numbers of a small Radix.  A word is the   *)
(* sequence of its bytes, a mask of terminators the set of their places.   *)
(***************************************************************************)
EXTENDS Wire

CONSTANTS
    PackedSpans,            \* the packed spans
    Beyond,                 \* the byte a load past the end of the span would see
    kPackedKernelMinSpan,   \* 256
    Window,                 \* 64, the bytes one stopmask covers
    ReclassifyMin,          \* 512
    Traction                \* 4096

WordBytes == 8

ASSUME PackedAssumption ==
    /\ PackedSpans \subseteq Seq(Byte) /\ Beyond \in Byte
    /\ VarintBytes = WordBytes + 2
    /\ Window \in Nat /\ Window > VarintBytes
    /\ kPackedKernelMinSpan \in Nat /\ kPackedKernelMinSpan >= Window + WordBytes
    /\ ReclassifyMin \in Nat /\ ReclassifyMin >= kPackedKernelMinSpan
    /\ Traction \in Nat \ {0}

VARIABLES
    span,
    q,              \* the cursor
    q_start,        \* where the kernel began
    kern,           \* the kernel at work, or "Classify", "Tail", "Done"
    width,          \* of the Fixed kernel
    t, start,       \* Struct: terminators of the block to come, start of the next varint
    n, out,         \* what the sink got
    err, fail_off,
    read_to         \* history: the end of the bytes the last step has loaded

packed_vars == <<span, q, q_start, kern, width, t, start, n, out, err, fail_off, read_to>>

Left == Len(span) - q
At(p) == IF p <= Len(span) THEN span[p] ELSE Beyond
Continues(p) == At(p) >= Radix

-----------------------------------------------------------------------------
(* Word arithmetic                                                         *)

\* load64(p) with all but its first len bytes and all continuation bits masked off.
Lanes(p, len) == [i \in 1 .. WordBytes |-> IF i <= len THEN At(p + i) % Radix ELSE 0]

\* One compaction round: neighbouring lanes of `base` values each become one.
Compacted(x, base) == [i \in 1 .. (Len(x) \div 2) |-> x[2 * i - 1] + base * x[2 * i]]

compact7(x) == Compacted(Compacted(Compacted(x, Weight(1)), Weight(2)), Weight(4))[1]

\* The terminators among the len bytes at p (stopmask64, or ~w & kMSB of one word).
Stops(p, len) == {i \in 0 .. (len - 1) : ~Continues(p + i + 1)}

\* Mutant: only the last two bytes of the pattern are compared.
EndsLikeOne(p, w) == ~Continues(p + w) /\ Continues(p + w - 1)

\* The w bytes at p are exactly one varint: the compare with kOneVarint.
IsOne(p, w) == ~Continues(p + w) /\ \A i \in 1 .. (w - 1) : Continues(p + i)

\* One element; at least a word is readable at p.
read_varint_packed(p) ==
    LET stop == Stops(p, WordBytes)
        len == Min(stop) + 1
    IN  IF ~Continues(p + 1) THEN Ok(p + 1, At(p + 1))
        ELSE IF stop = {} THEN read_varint(span, p)
        ELSE Ok(p + len, compact7(Lanes(p, len)))

-----------------------------------------------------------------------------
(* packed_strategy                                                         *)

WidthsOf(stop) == {b - Max({-1} \cup {a \in stop : a < b}) : b \in stop}

FirstWidth(stop) == Min(stop) + 1

\* Wider than a varint can be: for the byte loop to reject.
HasKernel(w) == w \in 3 .. VarintBytes

Strategy(stop) ==
    IF stop = {} THEN "ByteLoop"
    ELSE IF WidthsOf(stop) # {FirstWidth(stop)}
         THEN IF Max(WidthsOf(stop)) <= 5 THEN "Struct" ELSE "Swar"
    ELSE IF FirstWidth(stop) = 1 THEN "Bulk1"
    ELSE IF FirstWidth(stop) = 2 THEN "Bulk2"
    ELSE IF HasKernel(FirstWidth(stop)) THEN "Fixed" ELSE "ByteLoop"

Classify ==
    /\ kern = "Classify"
    /\ q_start' = q
    /\ IF Left < kPackedKernelMinSpan
       THEN kern' = "ByteLoop" /\ width' = 0 /\ UNCHANGED read_to
       ELSE LET stop == Stops(q, Window)
            IN  /\ kern' = Strategy(stop)
                /\ width' = IF kern' = "Fixed" THEN FirstWidth(stop) ELSE 0
                /\ read_to' = q + Window
    /\ UNCHANGED <<span, q, t, start, n, out, err, fail_off>>

-----------------------------------------------------------------------------
(* The kernels                                                             *)

\* `count` values go to the sink and the cursor to next; the word or window they
\* came from ends at read_end.
Store(vals, count, next, read_end) ==
    /\ n' = n + count
    /\ out' = out \o vals
    /\ q' = next
    /\ read_to' = read_end
    /\ UNCHANGED <<span, q_start, kern, width, t, start, err, fail_off>>

\* A malformed varint at p: SIZE_MAX is returned.
FailAt(e, p) ==
    /\ kern' = "Done" /\ err' = e /\ fail_off' = p
    /\ UNCHANGED <<span, q, q_start, width, t, start, n, out, read_to>>

\* One element from v, the reading of it at p.
StoreOne(v, p, read_end) ==
    IF v.err # None THEN FailAt(v.err, p) ELSE Store(<<v.val>>, 1, v.next, read_end)

Bulk1Fits == Left >= Window /\ \A i \in 1 .. Window : ~Continues(q + i)

\* Mutant: a window is stored and only its first word is passed.
StrideOfAWord == WordBytes

Bulk1Stride == Window

Bulk1 ==
    /\ kern = "Bulk1" /\ Bulk1Fits
    /\ Store([i \in 1 .. Window |-> At(q + i)], Window, q + Bulk1Stride, q + Window)

\* Four two-byte varints in one word.
Bulk2Fits == Left >= WordBytes /\ \A i \in 0 .. 3 : IsOne(q + 2 * i, 2)

Bulk2 ==
    /\ kern = "Bulk2" /\ Bulk2Fits
    /\ Store(Compacted(Lanes(q, WordBytes), Weight(1)), 4, q + WordBytes, q + WordBytes)

\* fixed_fill<width>: one varint a word, or two when both fit.
FixedFits == Left >= WordBytes /\ IsOne(q, width)
FixedTwo == 2 * width <= WordBytes /\ IsOne(q + width, width)

FixedFill ==
    /\ kern = "Fixed" /\ width <= WordBytes /\ FixedFits
    /\ LET first == compact7(Lanes(q, width))
           second == compact7(Lanes(q + width, width))
       IN  IF FixedTwo
           THEN Store(<<first, second>>, 2, q + 2 * width, q + WordBytes)
           ELSE Store(<<first>>, 1, q + width, q + WordBytes)

\* fixed_fill_wide<9> and <10>: the bytes behind the first word carry the top.
FixedWideFits ==
    /\ Left >= width /\ IsOne(q, width)
    /\ LastByteFits(width, At(q + width))

FixedWideValue ==
    compact7(Lanes(q, WordBytes))
    + Weight(WordBytes) * (At(q + 9) % Radix)
    + IF width = 10 THEN Weight(WordBytes + 1) * At(q + 10) ELSE 0

FixedFillWide ==
    /\ kern = "Fixed" /\ width > WordBytes /\ FixedWideFits
    /\ Store(<<FixedWideValue>>, 1, q + width, q + width)

\* Mutant: room for the window, none for the word loaded at its last byte.
StructRoomWindow == Left >= Window

\* 72 bytes: the window, and a word that begins at its last byte.
StructRoom == Left >= Window + WordBytes

\* The stopmask of the next block.
StructFits == StructRoom /\ Stops(q, Window) # {}

StructBlock ==
    /\ kern = "Struct" /\ t = {} /\ StructFits
    /\ t' = Stops(q, Window)
    /\ start' = 0
    /\ read_to' = q + Window
    /\ UNCHANGED <<span, q, q_start, kern, width, n, out, err, fail_off>>

\* One varint of the block, up to its terminator b.  Behind the last one the cursor
\* moves past the block's varints.
StructVarint ==
    /\ kern = "Struct" /\ t # {}
    /\ LET b == Min(t)
           len == b - start + 1
           v == IF len <= WordBytes
                THEN Ok(q + b + 1, compact7(Lanes(q + start, len)))
                ELSE read_varint_packed(q + start)
       IN  IF v.err # None
           THEN FailAt(v.err, q + start)
           ELSE /\ n' = n + 1
                /\ out' = Append(out, v.val)
                /\ t' = t \ {b}
                /\ start' = IF t' = {} THEN 0 ELSE b + 1
                /\ q' = IF t' = {} THEN q + b + 1 ELSE q
                /\ read_to' = q + start + WordBytes
                /\ UNCHANGED <<span, q_start, kern, width, err, fail_off>>

SwarFits == Left >= WordBytes

Swar ==
    /\ kern = "Swar" /\ SwarFits
    /\ StoreOne(read_varint_packed(q), q, q + WordBytes)

Fits ==
    CASE kern = "Bulk1" -> Bulk1Fits
      [] kern = "Bulk2" -> Bulk2Fits
      [] kern = "Fixed" -> IF width <= WordBytes THEN FixedFits ELSE FixedWideFits
      [] kern = "Struct" -> t # {} \/ StructFits
      [] kern = "Swar" -> SwarFits
      [] OTHER -> FALSE

\* Mutant: the traction test is left out.
WorthAnotherAnyway == Left >= ReclassifyMin

\* Much is left and the kernel got far: another kernel may suit what follows.
WorthAnother == Left >= ReclassifyMin /\ q - q_start >= Traction

\* The loop of the kernel ends.
Leave ==
    /\ kern \in {"ByteLoop", "Bulk1", "Bulk2", "Fixed", "Struct", "Swar"} /\ ~Fits
    /\ kern' = IF WorthAnother THEN "Classify" ELSE "Tail"
    /\ UNCHANGED <<span, q, q_start, width, t, start, n, out, err, fail_off, read_to>>

\* The validating byte loop.
ByteLoop ==
    /\ kern = "Tail" /\ q < Len(span)
    /\ StoreOne(read_varint(span, q), q, read_to)

Finish ==
    /\ kern = "Tail" /\ q >= Len(span)
    /\ kern' = "Done"
    /\ UNCHANGED <<span, q, q_start, width, t, start, n, out, err, fail_off, read_to>>

PackedInit ==
    /\ span \in PackedSpans
    /\ q = 0 /\ q_start = 0 /\ n = 0 /\ out = <<>>
    /\ kern = IF Len(span) >= kPackedKernelMinSpan THEN "Classify" ELSE "Tail"
    /\ width = 0 /\ t = {} /\ start = 0
    /\ err = None /\ fail_off = 0 /\ read_to = 0

PackedNext ==
    \/ Classify \/ Bulk1 \/ Bulk2 \/ FixedFill \/ FixedFillWide
    \/ StructBlock \/ StructVarint \/ Swar \/ Leave \/ ByteLoop \/ Finish

\* The decode of a span is one call that runs until it returns.
PackedSpec == PackedInit /\ [][PackedNext]_packed_vars /\ WF_packed_vars(PackedNext)

-----------------------------------------------------------------------------
(* The byte loop that small spans take, over the places of the span: at    *)
(* the place where the next varint begins it is read.                      *)

AtPlace(d, s, p) ==
    LET v == read_varint(s, p)
    IN  IF p # d.next \/ d.err # None THEN d
        ELSE IF v.err # None THEN [d EXCEPT !.err = v.err, !.fail_off = p]
        ELSE [d EXCEPT !.vals = Append(@, v.val), !.next = v.next]

decode_packed_varints_small(s) ==
    LET d[k \in 0 .. Len(s)] ==
            IF k = 0 THEN [vals |-> <<>>, next |-> 0, err |-> None, fail_off |-> 0]
            ELSE AtPlace(d[k - 1], s, k - 1)
    IN  d[Len(s)]

-----------------------------------------------------------------------------
(* Properties                                                              *)

\* Types, and the range of the width a fixed-stride kernel is instantiated for.
PackedTypeOK ==
    /\ span \in Seq(Byte) /\ q \in 0 .. Len(span) /\ q_start \in 0 .. q
    /\ kern \in {"Classify", "ByteLoop", "Bulk1", "Bulk2", "Fixed", "Struct", "Swar",
                 "Tail", "Done"}
    /\ kern = "Fixed" => width \in 3 .. VarintBytes
    /\ t \subseteq 0 .. (Window - 1) /\ start \in 0 .. Window
    /\ n \in Nat

\* "A wrong guess is only slower, never incorrect": whatever kernel the first window
\* selects and wherever widths change, the elements, or the error with its offset,
\* are those of the byte loop.
KernelsMatchTheByteLoop ==
    kern = "Done" =>
        LET d == decode_packed_varints_small(span)
        IN  /\ err = d.err /\ fail_off = d.fail_off
            /\ err = None => out = d.vals /\ n = Len(d.vals)

\* No word and no window is loaded beyond the end of the span: the kernels need no
\* readable slack behind it.
LoadsInSpan == read_to <= Len(span)

\* The kernels store at most one element per byte of the span passed, so the array
\* the caller has sized to the span's length is never overrun, not even before a
\* malformed varint is noticed.
StoresFit == n <= q + start /\ n <= Len(span)

\* Re-classification ends: a decode returns on every span.
Terminates == <>(kern = "Done")

=============================================================================
