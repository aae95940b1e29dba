------------------------------ MODULE Bipatch ------------------------------
(***************************************************************************)
(* The bipatch format: its bytes as make_patch.cpp writes them, and the    *)
(* push reader of core/inflate.cpp that takes them one at a time.          *)
(***************************************************************************)
EXTENDS Integers, Sequences

CONSTANTS
    Radix,    \* 128: what seven bits of a varint count; a byte is below twice that
    Word      \* 2^64: the values of uint64_t

Base == 2 * Radix

ASSUME RadixAssumption == Radix \in Nat \ {0, 1}
ASSUME WordAssumption == Word \in Nat \ {0}

-----------------------------------------------------------------------------
(***************************************************************************)
(* The writer.                                                             *)
(***************************************************************************)
uvarint[v \in Nat] ==
    IF v < Radix THEN <<v>> ELSE <<(v % Radix) + Radix>> \o uvarint[v \div Radix]
emit_uvarint(v) == uvarint[v]

(* Zigzag. *)
emit_svarint(v) == emit_uvarint(IF v >= 0 THEN 2 * v ELSE -2 * v - 1)

(* kHeader: its eight bytes stand here as two. *)
Header == <<Base - 1, Radix>>

emit_loop(e) ==
    emit_uvarint(Len(e.add)) \o e.add \o emit_uvarint(Len(e.copy)) \o e.copy \o emit_svarint(e.seek)

(* The header and the entries one after the other. *)
Body(entries) ==
    LET first[n \in Nat] == IF n = 0 THEN Header ELSE first[n - 1] \o emit_loop(entries[n])
    IN  first[Len(entries)]

-----------------------------------------------------------------------------
(***************************************************************************)
(* The reader: BipatchReader, with base_ as its bytes and a position.      *)
(***************************************************************************)
NewReader ==
    [stage |-> "ReadHeader", target |-> "AddLen", had_error |-> FALSE, undefined |-> FALSE,
     hdr |-> <<>>, acc |-> 0, weight |-> 1, remaining |-> 0, pos |-> 0, out |-> <<>>]

Fail(r) == [r EXCEPT !.had_error = TRUE]

(* The base library's read and seek refuse to leave the file. *)
SeekBy(r, base, offset) ==
    IF r.pos + offset \in 0 .. Len(base)
    THEN [r EXCEPT !.pos = @ + offset, !.target = "AddLen"] ELSE Fail(r)

(* Mistake checked for: odd values are halved like even ones. *)
UnzigzagHalves(v) == IF v % 2 = 0 THEN v \div 2 ELSE -(v \div 2)

Unzigzag(v) == IF v % 2 = 0 THEN v \div 2 ELSE -(v \div 2) - 1

on_varint(r, base, v) ==
    LET done == [r EXCEPT !.acc = 0, !.weight = 1]
    IN  CASE r.target = "Seek" -> SeekBy(done, base, Unzigzag(v))
          [] r.target = "AddLen" ->
                IF v = 0 THEN [done EXCEPT !.target = "CopyLen"]
                ELSE [done EXCEPT !.stage = "DoAdd", !.remaining = v]
          [] r.target = "CopyLen" ->
                IF v = 0 THEN [done EXCEPT !.target = "Seek"]
                ELSE [done EXCEPT !.stage = "DoCopy", !.remaining = v]

ReadHeader(r, b) ==
    LET hdr == Append(r.hdr, b)
    IN  IF Len(hdr) < Len(Header) THEN [r EXCEPT !.hdr = hdr]
        ELSE IF hdr = Header THEN [r EXCEPT !.hdr = hdr, !.stage = "ReadVarint"]
        ELSE Fail(r)

(* A shift by the width of the word or more is undefined. *)
ReadVarint(r, base, b) ==
    LET acc == (r.acc + (b % Radix) * r.weight) % Word
    IN  IF r.weight >= Word THEN [r EXCEPT !.undefined = TRUE]
        ELSE IF b < Radix THEN on_varint(r, base, acc)
        ELSE [r EXCEPT !.acc = acc, !.weight = @ * Radix]

Write(r, b, next) ==
    [r EXCEPT !.out = Append(@, b), !.remaining = @ - 1,
              !.stage = IF r.remaining = 1 THEN "ReadVarint" ELSE @,
              !.target = IF r.remaining = 1 THEN next ELSE @]

(* Adding to a byte wraps; a base that is too short is an error. *)
DoAdd(r, base, b) ==
    IF r.pos >= Len(base) THEN Fail(r)
    ELSE Write([r EXCEPT !.pos = @ + 1], (base[r.pos + 1] + b) % Base, "CopyLen")

feed(r, base, b) ==
    IF r.had_error \/ r.undefined THEN r
    ELSE CASE r.stage = "ReadHeader" -> ReadHeader(r, b)
           [] r.stage = "ReadVarint" -> ReadVarint(r, base, b)
           [] r.stage = "DoAdd"      -> DoAdd(r, base, b)
           [] r.stage = "DoCopy"     -> Write(r, b, "Seek")

(* The end of a stream: only where a next entry would begin, also inside its first number. *)
finalize(r) == ~r.had_error /\ r.stage = "ReadVarint" /\ r.target = "AddLen"

(* feed for each byte of a stream, in order. *)
Read(base, stream) ==
    LET after[n \in Nat] == IF n = 0 THEN NewReader ELSE feed(after[n - 1], base, stream[n])
    IN  after[Len(stream)]

=============================================================================
