------------------------------ MODULE Transfer ------------------------------
(***************************************************************************)
(* How one patch file reaches the disk: steps 4 to 6 of update_internal in *)
(* core/updater.cpp with real_download_to_path of net/network.cpp, item by *)
(* item.  Updater knows a download as absent, partial or whole; here it is *)
(* the items on disk, and a resumed transfer appends at a real offset.     *)
(*                                                                         *)
(* The published file is a zstd frame: item 0 is its header, items 1, 2    *)
(* ... its blocks.  The server and zstd are external, and so is the system *)
(* that may clear code_cache_dir, where the download is, at any time.      *)
(***************************************************************************)
EXTENDS Integers, Sequences

CONSTANT Unknown   \* no length told: std::nullopt
ASSUME UnknownAssumption == Unknown \notin Nat

VARIABLES
    size,   \* items of the published file; 0 before it is published
    file,   \* the items in dlc.patch on disk
    rec,    \* the state of the patch in its JSON file
    up,     \* update(): where it is, its offset, the answer's first and next item, the length told
    there,  \* TRUE if dlc.patch has a name on disk; without one, what is written is nowhere
    fault,  \* TRUE if the file on disk, or the disk, is not what the server published
    lost    \* TRUE if the file went while an update() was using it

tvars == <<size, file, rec, up, there, fault, lost>>

Waiting == [pc |-> "idle", from |-> 0, first |-> 0, next |-> 0, total |-> Unknown]

TransferInit ==
    /\ size = 0 /\ file = <<>> /\ rec = "none" /\ up = Waiting
    /\ there = FALSE /\ fault = FALSE /\ lost = FALSE

(* The server has the file, of n items. *)
PublishFrame(n) ==
    /\ size = 0 /\ size' = n
    /\ UNCHANGED <<file, rec, up, there, fault, lost>>

(* Android clears code_cache_dir. *)
LoseFile ==
    /\ there /\ there' = FALSE /\ file' = <<>>
    /\ lost' = (lost \/ up.pc # "idle")
    /\ UNCHANGED <<size, rec, up, fault>>

(* Mistake checked for: what is there of a download is taken for all of it. *)
PlanTakesPartial(sameUrl) ==
    /\ up.pc = "idle" /\ size > 0
    /\ \/ /\ rec \in {"downloading", "downloaded"} /\ sameUrl /\ there
          /\ up' = [Waiting EXCEPT !.pc = "inflate"]
          /\ UNCHANGED rec
       \/ /\ rec = "none" \/ (rec \in {"downloading", "downloaded"} /\ ~(sameUrl /\ there))
          /\ up' = [Waiting EXCEPT !.pc = "open"]
          /\ rec' = "downloading"
    /\ UNCHANGED <<size, file, there, fault, lost>>

(***************************************************************************)
(* decide_start and record_download_started: a download of the same URL    *)
(* goes on where the file ends; any other, and one whose file has gone,    *)
(* starts again.                                                           *)
(***************************************************************************)
Plan(sameUrl) ==
    /\ up.pc = "idle" /\ size > 0
    /\ \/ /\ rec = "downloaded" /\ sameUrl /\ there
          /\ up' = [Waiting EXCEPT !.pc = "inflate"]
          /\ UNCHANGED rec
       \/ /\ rec = "none" \/ (rec \in {"downloading", "downloaded"} /\ ~(sameUrl /\ there))
          /\ up' = [Waiting EXCEPT !.pc = "open"]
          /\ rec' = "downloading"
       \/ /\ rec = "downloading" /\ sameUrl /\ there
          /\ up' = [Waiting EXCEPT !.pc = "open", !.from = Len(file)]
          /\ UNCHANGED rec
    /\ UNCHANGED <<size, file, there, fault, lost>>

(* A fresh download truncates the file, a resumed one appends to it; either makes one. *)
Open ==
    /\ up.pc = "open"
    /\ there' = TRUE
    /\ IF up.from = 0
       THEN file' = <<>> /\ fault' = FALSE /\ lost' = FALSE
       ELSE UNCHANGED <<file, fault, lost>>
    /\ up' = [up EXCEPT !.pc = "answer"]
    /\ UNCHANGED <<size, rec>>

(* Mistake checked for: a 200 answer to a Range request is written after what is there. *)
AnswerWholeAppends ==
    /\ up.pc = "answer"
    /\ \E total \in IF up.from = 0 THEN {size, Unknown} ELSE {Unknown} :
          up' = [up EXCEPT !.pc = "receive", !.total = total]
    /\ UNCHANGED <<size, file, rec, there, fault, lost>>

(***************************************************************************)
(* 200: the whole file.  After a Range request the file is opened again,   *)
(* truncated or made anew, and the length told is not read.                *)
(***************************************************************************)
AnswerWhole ==
    /\ up.pc = "answer"
    /\ IF up.from = 0
       THEN /\ \E total \in {size, Unknown} : up' = [up EXCEPT !.pc = "receive", !.total = total]
            /\ UNCHANGED <<file, there, fault, lost>>
       ELSE /\ up' = [up EXCEPT !.pc = "receive"]
            /\ file' = <<>> /\ there' = TRUE /\ fault' = FALSE /\ lost' = FALSE
    /\ UNCHANGED <<size, rec>>

(* 206: the rest.  The length told, if Content-Range can be read, is that of the whole file. *)
AnswerRest ==
    /\ up.pc = "answer" /\ up.from > 0 /\ up.from < size
    /\ \E total \in {size, Unknown} :
          up' = [up EXCEPT !.pc = "receive", !.first = up.from, !.next = up.from, !.total = total]
    /\ UNCHANGED <<size, file, rec, there, fault, lost>>

(* What comes is written at the end of the file, under whatever offset it was asked for. *)
ReceiveItem ==
    /\ up.pc = "receive" /\ up.next < size
    /\ file' = IF there THEN Append(file, up.next) ELSE file
    /\ up' = [up EXCEPT !.next = @ + 1]
    /\ UNCHANGED <<size, rec, there, fault, lost>>

(* The body ends.  A connection cut early looks the same if its answer had no Content-Length. *)
EndOfBody ==
    /\ up.pc = "receive"
    /\ \/ up.next = size /\ UNCHANGED fault
       \/ /\ up.next < size /\ (up.total = Unknown \/ up.first > 0)
          /\ fault' = TRUE
    /\ up' = [up EXCEPT !.pc = "check"]
    /\ UNCHANGED <<size, file, rec, there, lost>>

(* The bytes still buffered when the stream is closed cannot be written: nobody looks. *)
FlushFails ==
    /\ up.pc = "receive" /\ up.next = size /\ file # <<>>
    /\ file' = SubSeq(file, 1, Len(file) - 1) /\ fault' = TRUE
    /\ up' = [up EXCEPT !.pc = "check"]
    /\ UNCHANGED <<size, rec, there, lost>>

(***************************************************************************)
(* Refused, cut, or the process killed: file and record stay.  Bytes still *)
(* buffered at a kill are as if they had not come.                         *)
(***************************************************************************)
Abandon ==
    /\ up.pc # "idle"
    /\ up' = Waiting
    /\ UNCHANGED <<size, file, rec, there, fault, lost>>

(* The length told against total_bytes, the bytes of this answer. *)
CheckLength ==
    /\ up.pc = "check"
    /\ IF up.total \notin {Unknown, up.next - up.first}
       THEN /\ rec' = "none" /\ up' = Waiting
            /\ file' = <<>> /\ there' = FALSE /\ fault' = FALSE /\ lost' = FALSE
       ELSE /\ rec' = "downloaded" /\ up' = [Waiting EXCEPT !.pc = "inflate"]
            /\ UNCHANGED <<file, there, fault, lost>>
    /\ UNCHANGED size

(* inflate_patch and check_inflated_hash: installed, or a tombstone; the download goes. *)
InflateEnds(good) ==
    /\ up.pc = "inflate"
    /\ rec' = IF good THEN "installed" ELSE "bad"
    /\ file' = <<>> /\ there' = FALSE
    /\ up' = Waiting
    /\ UNCHANGED <<size, lost>>

TransferNext ==
    \/ \E n \in Nat \ {0} : PublishFrame(n)
    \/ \E sameUrl \in BOOLEAN : Plan(sameUrl)
    \/ Open \/ AnswerWhole \/ AnswerRest \/ ReceiveItem \/ EndOfBody \/ FlushFails
    \/ Abandon \/ CheckLength \/ LoseFile
    \/ \E good \in BOOLEAN : InflateEnds(good) /\ fault' \in {fault, TRUE}

TransferSpec == TransferInit /\ [][TransferNext]_tvars

-----------------------------------------------------------------------------
TransferTypeOK ==
    /\ size \in Nat /\ file \in Seq(Nat) /\ {there, fault, lost} \subseteq BOOLEAN
    /\ rec \in {"none", "downloading", "downloaded", "installed", "bad"}
    /\ up \in [pc : {"idle", "open", "answer", "receive", "check", "inflate"},
               from : Nat, first : Nat, next : Nat, total : Nat \cup {Unknown}]

(***************************************************************************)
(* The file on disk is the beginning of the published one, whatever        *)
(* sequence of transfers cut, resumed and started again wrote it, unless   *)
(* it went while an update() was using it: an append then makes an empty   *)
(* file for the rest (network.cpp:155-158).  A download recorded as        *)
(* complete is all of it unless, besides, the connection was cut with no   *)
(* length to tell (updater.cpp:136-166).  So a file lost between two       *)
(* updates is a download begun again, as engine.h:39-41 says.              *)
(***************************************************************************)
IsBeginning(f) == Len(f) <= size /\ \A i \in 1 .. Len(f) : f[i] = i - 1

FileIsPrefix ==
    /\ IsBeginning(file) \/ lost
    /\ rec = "downloaded" /\ there => Len(file) = size \/ fault \/ lost

=============================================================================
