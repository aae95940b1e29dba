----------------------------- MODULE MakePatch -----------------------------
(***************************************************************************)
(* make_patch of patch/src/make_patch.cpp: bsdiff over a suffix array of   *)
(* the old file, giving the entries of a patch.  One iteration of a loop   *)
(* is one step; indices are those of the code, from 0.                     *)
(*                                                                         *)
(* out and cursor follow what inflate does with the entries so far: the    *)
(* bytes it has written and its place in the old file.  The bytes of an    *)
(* entry are the business of Bipatch.                                      *)
(***************************************************************************)
EXTENDS Bipatch, FiniteSets

CONSTANTS
    Data,     \* the bytes the two files are made of
    MaxOld,   \* bounds: the length of the old file
    MaxNew,   \* and of the new one
    Slack     \* 8: a match must beat the old alignment by more than this

Bytes == 0 .. Base - 1

ASSUME DataAssumption == Data \subseteq Bytes
ASSUME BoundsAssumption == {MaxOld, MaxNew, Slack} \subseteq Nat

VARIABLES
    older, newer,  \* the two files
    sa,            \* the suffix array of older
    mk,            \* the local variables of make_patch, and where it is
    patch,         \* the entries emitted so far
    out, cursor    \* what a reader of these entries has written, and its place in older

mvars == <<older, newer, sa, mk, patch, out, cursor>>

Files(n) == UNION {[1 .. k -> Data] : k \in 0 .. n}

(* Byte i of file, and the lengths, as in the code. *)
At(file, i) == file[i + 1]
old_size == Len(older)
new_size == Len(newer)

Least(a, b) == IF a <= b THEN a ELSE b

(* Arithmetic of uint8_t. *)
Minus(a, b) == IF a >= b THEN a - b ELSE a - b + Base
(* Mistake checked for: the sum is not cut to a byte. *)
PlusUncut(a, b) == a + b

Plus(a, b) == IF a + b < Base THEN a + b ELSE a + b - Base

-----------------------------------------------------------------------------
(***************************************************************************)
(* The suffix array and the search in it.                                  *)
(***************************************************************************)
(* n is the length of the common prefix of a from i on and b from j on. *)
IsMatchLen(n, a, i, b, j) ==
    /\ n <= Len(a) - i /\ n <= Len(b) - j
    /\ \A k \in 0 .. n - 1 : At(a, i + k) = At(b, j + k)
    /\ n < Len(a) - i /\ n < Len(b) - j => At(a, i + n) # At(b, j + n)

(* memcmp over the common length, below zero. *)
Below(a, i, b, j) ==
    \E n \in 0 .. Least(Len(a) - i, Len(b) - j) - 1 :
        IsMatchLen(n, a, i, b, j) /\ At(a, i + n) < At(b, j + n)

(* Suffix i of file sorts before suffix j. *)
SuffixLess(file, i, j) == Below(file, i, file, j) \/ (~Below(file, j, file, i) /\ i > j)

SuffixArrays(file) ==
    {s \in [0 .. Len(file) - 1 -> 0 .. Len(file) - 1] :
        \A i, j \in DOMAIN s : i < j => SuffixLess(file, s[i], s[j])}

(* The old byte that lines up with new byte i under the last offset is equal to it. *)
Aligned(i, offset) ==
    /\ i + offset < old_size
    /\ At(older, i + offset) = At(newer, i)

-----------------------------------------------------------------------------
(***************************************************************************)
(* One entry of the patch.                                                 *)
(***************************************************************************)
(* The index at which a loop "if (score > best)" ends up, from index 0 on. *)
IsFirstBest(k, score) ==
    \A i \in DOMAIN score : score[i] < score[k] \/ (score[i] = score[k] /\ k <= i)

(* How many of the n bytes of newer from i on are those of older from j on. *)
Hits(i, j, n) == Cardinality({k \in 0 .. n - 1 : At(newer, i + k) = At(older, j + k)})

(* 2 * matches - span of the bytes after (last_scan, last_pos), and before (scan, pos). *)
ForwardScore ==
    [i \in 0 .. Least(mk.scan - mk.last_scan, old_size - mk.last_pos) |->
        2 * Hits(mk.last_scan, mk.last_pos, i) - i]

BackwardScore ==
    [i \in 0 .. IF mk.scan < new_size THEN Least(mk.scan - mk.last_scan, mk.pos) ELSE 0 |->
        2 * Hits(mk.scan - i, mk.pos - i, i) - i]

Overlap(f, b) ==
    IF mk.last_scan + f > mk.scan - b THEN mk.last_scan + f - (mk.scan - b) ELSE 0

(* Bytes the forward window gains over the backward one in the first i of their overlap. *)
SplitScore(f, b) ==
    [i \in 0 .. Overlap(f, b) |->
        Hits(mk.scan - b, mk.last_pos + f - Overlap(f, b), i) - Hits(mk.scan - b, mk.pos - b, i)]

(* emit_loop: lenf bytes as differences, the gap up to scan - lenb verbatim, a seek. *)
Entry(lenf, lenb) ==
    [add  |-> [i \in 1 .. lenf |-> Minus(At(newer, mk.last_scan + i - 1),
                                         At(older, mk.last_pos + i - 1))],
     copy |-> SubSeq(newer, mk.last_scan + lenf + 1, mk.scan - lenb),
     seek |-> (mk.pos - lenb) - (mk.last_pos + lenf)]

(* inflate on one entry: add_byte on each difference, write_byte on the rest, the seek. *)
Rebuild(e) ==
    /\ out' = out \o [i \in 1 .. Len(e.add) |-> Plus(At(older, cursor + i - 1), e.add[i])]
                  \o e.copy
    /\ cursor' = cursor + Len(e.add) + e.seek

-----------------------------------------------------------------------------
Idle == [pc |-> "start", scan |-> 0, len |-> 0, pos |-> 0, last_scan |-> 0, last_pos |-> 0,
         last_offset |-> 0, oldscore |-> 0, scsc |-> 0, st |-> 0, en |-> 0]

MakeInit ==
    /\ older \in Files(MaxOld) /\ sa \in SuffixArrays(older)
    /\ newer \in Files(MaxNew)
    /\ mk = Idle
    /\ patch = <<>> /\ out = <<>> /\ cursor = 0

(* An empty new file is a patch without entries, an empty old one a single copy. *)
Start ==
    /\ mk.pc = "start"
    /\ \/ /\ new_size = 0
          /\ mk' = [mk EXCEPT !.pc = "done"]
          /\ UNCHANGED <<patch, out, cursor>>
       \/ /\ new_size > 0 /\ old_size = 0
          /\ LET e == [add |-> <<>>, copy |-> newer, seek |-> 0]
             IN  patch' = <<e>> /\ Rebuild(e)
          /\ mk' = [mk EXCEPT !.pc = "done"]
       \/ /\ new_size > 0 /\ old_size > 0
          /\ mk' = [mk EXCEPT !.pc = "round"]
          /\ UNCHANGED <<patch, out, cursor>>
    /\ UNCHANGED <<older, newer, sa>>

(* The head of the inner loop: one more byte to look up, or none is left. *)
Lookup(m) ==
    IF m.scan < new_size THEN [m EXCEPT !.pc = "search", !.st = 0, !.en = old_size - 1]
                         ELSE [m EXCEPT !.pc = "emit"]

Round ==
    /\ mk.pc = "round"
    /\ mk' = IF mk.scan < new_size
             THEN Lookup([mk EXCEPT !.scan = @ + mk.len, !.scsc = mk.scan + mk.len, !.oldscore = 0])
             ELSE [mk EXCEPT !.pc = "done"]
    /\ UNCHANGED <<older, newer, sa, patch, out, cursor>>

(* The binary search halves [st, en]. *)
Halve ==
    /\ mk.pc = "search" /\ mk.en - mk.st >= 2
    /\ LET mid == mk.st + (mk.en - mk.st) \div 2
       IN  mk' = IF Below(older, sa[mid], newer, mk.scan) THEN [mk EXCEPT !.st = mid]
                                                          ELSE [mk EXCEPT !.en = mid]
    /\ UNCHANGED <<older, newer, sa, patch, out, cursor>>

(* Mistake checked for: a match of no bytes counts as an aligned one. *)
GoodEnoughAtZero(len, oldscore) == len = oldscore \/ len > oldscore + Slack

(* The match found is the alignment already in use, or clearly better than it. *)
GoodEnough(len, oldscore) == (len = oldscore /\ len # 0) \/ len > oldscore + Slack

(* Mistake checked for: the byte scan leaves is not taken off the score. *)
LeaveByteUncounted(m) == [m EXCEPT !.scan = @ + 1]

LeaveByte(m) ==
    [m EXCEPT !.scan = @ + 1,
              !.oldscore = IF Aligned(m.scan, m.last_offset) THEN @ - 1 ELSE @]

(* The longer of the two matches at the ends; the score of the bytes it covers. *)
Match ==
    /\ mk.pc = "search" /\ mk.en - mk.st < 2
    /\ \E x, y \in 0 .. new_size - mk.scan :
        /\ IsMatchLen(x, older, sa[mk.st], newer, mk.scan)
        /\ IsMatchLen(y, older, sa[mk.en], newer, mk.scan)
        /\ LET len == IF x > y THEN x ELSE y
               covered == {i \in mk.scsc .. mk.scan + len - 1 : Aligned(i, mk.last_offset)}
               m == [mk EXCEPT !.len = len,
                               !.pos = IF x > y THEN sa[mk.st] ELSE sa[mk.en],
                               !.oldscore = @ + Cardinality(covered),
                               !.scsc = IF mk.scan + len > @ THEN mk.scan + len ELSE @]
           IN  mk' = IF GoodEnough(len, m.oldscore) THEN [m EXCEPT !.pc = "emit"]
                                                    ELSE Lookup(LeaveByte(m))
    /\ UNCHANGED <<older, newer, sa, patch, out, cursor>>

(* The same alignment goes on: no entry. *)
Continue ==
    /\ mk.pc = "emit"
    /\ mk.len = mk.oldscore /\ mk.scan # new_size
    /\ mk' = [mk EXCEPT !.pc = "round"]
    /\ UNCHANGED <<older, newer, sa, patch, out, cursor>>

(* Mistake checked for: the split of an overlap is kept on the backward side. *)
SplitKept(f, b, split) == [lenf |-> f + split - Overlap(f, b), lenb |-> b]

(* The windows after the overlap is split: its first bytes go forward, the rest backward. *)
Split(f, b, split) == [lenf |-> f + split - Overlap(f, b), lenb |-> b - split]

Emit ==
    /\ mk.pc = "emit"
    /\ mk.len # mk.oldscore \/ mk.scan = new_size
    /\ \E f \in DOMAIN ForwardScore, b \in DOMAIN BackwardScore :
        /\ IsFirstBest(f, ForwardScore) /\ IsFirstBest(b, BackwardScore)
        /\ \E split \in DOMAIN SplitScore(f, b) :
            /\ IsFirstBest(split, SplitScore(f, b))
            /\ LET w == Split(f, b, split)
               IN  /\ patch' = Append(patch, Entry(w.lenf, w.lenb))
                   /\ Rebuild(Entry(w.lenf, w.lenb))
                   /\ mk' = [mk EXCEPT !.pc = "round", !.last_scan = mk.scan - w.lenb,
                                       !.last_pos = mk.pos - w.lenb,
                                       !.last_offset = mk.pos - mk.scan]
    /\ UNCHANGED <<older, newer, sa>>

MakeNext == Start \/ Round \/ Halve \/ Match \/ Continue \/ Emit

MakeSpec == MakeInit /\ [][MakeNext]_mvars

-----------------------------------------------------------------------------
Locals ==
    [pc : {"start", "round", "search", "emit", "done"},
     scan : 0 .. new_size, len : 0 .. new_size, pos : Nat, last_scan : 0 .. new_size,
     last_pos : Nat, last_offset : Int, oldscore : Int, scsc : 0 .. new_size, st : Nat, en : Int]

(* Types and ranges of the locals: the ends of what the code reads are inside their file. *)
MakeTypeOK ==
    /\ older \in Seq(Bytes) /\ newer \in Seq(Bytes)
    /\ sa \in [0 .. old_size - 1 -> 0 .. old_size - 1]
    /\ mk \in Locals
    /\ out \in Seq(Bytes) /\ cursor \in Nat

(***************************************************************************)
(* The patch rebuilds the new file: at every entry the reader has written  *)
(* exactly the bytes of newer up to last_scan and stands at last_pos, and  *)
(* at the end it has written all of newer (make_patch.cpp:249-261, the     *)
(* promise of patch.h: "when applied to older, yields newer").             *)
(***************************************************************************)
PatchRebuilds ==
    /\ mk.pc \in {"round", "search", "emit"} => out = SubSeq(newer, 1, mk.last_scan)
                                                /\ cursor = mk.last_pos
    /\ mk.pc = "done" => out = newer /\ cursor <= old_size

(***************************************************************************)
(* oldscore counts the bytes of [scan, scsc) the last alignment gets       *)
(* right: it is kept by additions ahead and subtractions behind, and is    *)
(* never negative (make_patch.cpp:190-204).                                *)
(***************************************************************************)
ScoreIsWindow ==
    mk.pc = "search" =>
        mk.oldscore = Cardinality({i \in mk.scan .. mk.scsc - 1 : Aligned(i, mk.last_offset)})

(* A bound on the steps to come: for each byte left one look-up, at most old_size halvings. *)
StepsLeft ==
    LET perByte == old_size + 3
        bytes == (new_size - mk.scan) * perByte
    IN  CASE mk.pc = "start"  -> bytes + perByte + 2
          [] mk.pc = "round"  -> bytes + 1 + (IF mk.len = 0 /\ mk.scan < new_size THEN perByte ELSE 0)
          [] mk.pc = "emit"   -> bytes + 2
          [] mk.pc = "search" -> bytes + 3 + mk.en - mk.st
          [] mk.pc = "done"   -> 0

(***************************************************************************)
(* Every step gets further: the outer loop advances by len alone, which is *)
(* 0 only in its first round, so none goes on without a match of at least  *)
(* one byte (make_patch.cpp:178-204).                                      *)
(***************************************************************************)
EveryStepAdvances == [][StepsLeft' \in 0 .. StepsLeft - 1]_mvars

=============================================================================
