------------------------------ MODULE Delivery ------------------------------
(***************************************************************************)
(* A patch from the two files it is made of to the device that applies it: *)
(* make_patch, the transfer of its bytes, and inflate with the hash check. *)
(***************************************************************************)
EXTENDS MakePatch, Transfer

CONSTANT MaxShipped   \* bound: the bytes of a patch whose transfer is followed
ASSUME ShippedAssumption == MaxShipped \in Nat

dvars == <<mvars, tvars>>

DeliveryTypeOK == MakeTypeOK /\ TransferTypeOK

DeliveryInit == MakeInit /\ TransferInit

Make == MakeNext /\ UNCHANGED tvars

(* The finished patch is uploaded: a zstd frame with a block for every byte. *)
Publish ==
    /\ mk.pc = "done" /\ Len(Body(patch)) \in 0 .. MaxShipped
    /\ PublishFrame(Len(Body(patch)) + 1)
    /\ UNCHANGED mvars

(* What zstd gives for a file that may end early: the bytes of its blocks, after the header. *)
Decompress(f) ==
    LET blocks == SubSeq(f, 2, Len(f))
        body == Body(patch)
    IN  [i \in DOMAIN blocks |-> body[blocks[i]]]

(***************************************************************************)
(* A file that is not there, or does not begin with a frame header, is     *)
(* refused; what undefined behaviour writes is not known.                  *)
(***************************************************************************)
HasHeader(f) == f # <<>> /\ f[1] = 0

Verdicts(f, stream) ==
    LET r == Read(older, stream)
    IN  IF ~HasHeader(f) THEN {FALSE}
        ELSE IF r.undefined THEN BOOLEAN
        ELSE {finalize(r) /\ r.out = newer}

Inflate ==
    /\ up.pc = "inflate"
    /\ \E good \in Verdicts(file, Decompress(file)) : InflateEnds(good)
    /\ UNCHANGED <<mvars, fault>>

(* One byte is not the one published. *)
InflateDamaged ==
    /\ up.pc = "inflate"
    /\ LET stream == Decompress(file)
       IN  \E k \in DOMAIN stream : \E b \in Bytes \ {stream[k]} :
              \E good \in Verdicts(file, [stream EXCEPT ![k] = b]) : InflateEnds(good)
    /\ fault' = TRUE
    /\ UNCHANGED mvars

(* The output cannot be written. *)
InflateFails ==
    /\ InflateEnds(FALSE)
    /\ fault' = TRUE
    /\ UNCHANGED mvars

Download ==
    /\ \/ \E sameUrl \in BOOLEAN : Plan(sameUrl)
       \/ Open \/ AnswerWhole \/ AnswerRest \/ ReceiveItem \/ EndOfBody \/ FlushFails
       \/ Abandon \/ CheckLength \/ LoseFile
    /\ UNCHANGED mvars

DeliveryNext == Make \/ Publish \/ Download \/ Inflate \/ InflateDamaged \/ InflateFails

(* make_patch runs to its end once called. *)
DeliverySpec == DeliveryInit /\ [][DeliveryNext]_dvars /\ WF_dvars(Make)

-----------------------------------------------------------------------------
(***************************************************************************)
(* The bytes of a patch, read whole, give the new file: no error, no read  *)
(* or seek outside the old file, no shift that is undefined, and the end   *)
(* is where the reader accepts one (make_patch.cpp against inflate.cpp).   *)
(***************************************************************************)
RoundTrip ==
    mk.pc = "done" /\ size = 0 =>
        LET r == Read(older, Body(patch))
        IN  finalize(r) /\ ~r.undefined /\ r.out = newer /\ r.pos = cursor

(***************************************************************************)
(* A good patch is given up only for a cause: its bytes were damaged or    *)
(* cut without notice, its output could not be written, or its download    *)
(* went while the update() that was to inflate it was running.  One lost   *)
(* at any other time costs no more than another download                   *)
(* (updater.cpp:182-187, inflate.cpp:201-214).                             *)
(***************************************************************************)
TombstoneHasCause == rec = "bad" => fault \/ lost

(* make_patch ends: every round of its loop gets further (make_patch.cpp:178). *)
MakerEnds == <>(mk.pc = "done")

=============================================================================
