------------------------------ MODULE Updater ------------------------------
(***************************************************************************)
(* The device-side updater of core/updater.cpp over the patch store of     *)
(* PatchLifecycle: the engine's boot calls, the update() callers behind    *)
(* the try-lock, the unlocked check_for_downloadable_update(), process     *)
(* death at any point, and a patch server that publishes and rolls back.   *)
(*                                                                         *)
(* One with_state section (load the state from disk, apply, save) is one   *)
(* step; what is not a section (the network transfer, the inflate) is cut  *)
(* into steps of its own.  A kill may also strike inside a section and     *)
(* leave one of its cuts.                                                  *)
(***************************************************************************)
EXTENDS PatchLifecycle

CONSTANTS
    Updaters,        \* callers of update(): the engine's thread, Dart
    RangeAnswers,    \* how the file server answers a Range request
    ConcurrentBoot,  \* TRUE: updates may run while a patch is being booted
    KillInSection,   \* TRUE: a kill may strike inside a with_state section
    Damage,          \* TRUE: an installed artifact may be damaged on disk
    CacheCleared     \* TRUE: the system may clear the download directory

ASSUME FlagsAssumption == {ConcurrentBoot, KillInSection, Damage, CacheCleared} \subseteq BOOLEAN
ASSUME RangeAssumption == RangeAnswers \subseteq {"200", "206"}

VARIABLES
    disk,    \* the patch store on disk, see PatchLifecycle
    eng,     \* the host process: where its boot has got to, and running_patch
    upd,     \* per caller of update(): where it is, and the response it holds
    chk,     \* the rollbacks check_for_downloadable_update() is about to apply
    server   \* what is published on this release's channel and rolled back

vars == <<disk, eng, upd, chk, server>>

EnginePcs == {"down", "up", "validated", "launching", "running", "failed"}
UpdatePcs == {"idle", "rollback", "decide", "record_fresh", "record_resume",
              "open_fresh", "open_resume", "receive_fresh", "receive_resume",
              "mismatch", "record_complete", "inflate", "check_full", "check_bad",
              "bad_bytes", "bad_hash", "install"}

Idle == [pc |-> "idle", patch |-> None, url |-> None, rolled |-> {}]
Down == [pc |-> "down", run |-> None]

TypeOK ==
    /\ disk \in Disks
    /\ eng \in [pc : EnginePcs, run : OptPatch]
    /\ upd \in [Updaters -> [pc : UpdatePcs, patch : OptPatch, url : Urls \cup {None},
                             rolled : SUBSET Patches]]
    /\ chk \in SUBSET Patches
    /\ server \in [pub : SUBSET Patches, rolled : SUBSET Patches]

Init ==
    /\ disk = EmptyDisk
    /\ eng = Down
    /\ upd = [u \in Updaters |-> Idle]
    /\ chk = {}
    /\ server = [pub |-> {}, rolled |-> {}]

-----------------------------------------------------------------------------
(***************************************************************************)
(* The patch server: numbers only grow, the newest patch that is not       *)
(* rolled back is offered, and every rollback stays listed.                *)
(***************************************************************************)
Live == server.pub \ server.rolled

Offered == {n \in Live : \A m \in Live : m <= n}

Publish(n) ==
    /\ \A m \in server.pub : m < n
    /\ server' = [server EXCEPT !.pub = @ \cup {n}]
    /\ UNCHANGED <<disk, eng, upd, chk>>

RollBack(n) ==
    /\ n \in Live
    /\ server' = [server EXCEPT !.rolled = @ \cup {n}]
    /\ UNCHANGED <<disk, eng, upd, chk>>

-----------------------------------------------------------------------------
(***************************************************************************)
(* The engine.                                                             *)
(***************************************************************************)
Up == eng.pc # "down"

(* init(): handle_prior_boot_failure_if_necessary. *)
Start ==
    /\ eng.pc = "down"
    /\ eng' = [pc |-> "up", run |-> None]
    /\ disk' = DetectBootCrash(disk)
    /\ UNCHANGED <<upd, chk, server>>

ValidateNextBootPatch ==
    /\ eng.pc = "up"
    /\ eng' = [eng EXCEPT !.pc = "validated"]
    /\ disk' = ValidateNextBoot(disk)
    /\ UNCHANGED <<upd, chk, server>>

(* running_patch is set before record_boot_start, which may throw. *)
ReportLaunchStart ==
    /\ eng.pc \in {"up", "validated"}
    /\ eng' = [pc |-> "launching", run |-> disk.ptr.next]
    /\ disk' = IF CanRecordBootStart(disk, disk.ptr.next)
               THEN RecordBootStart(disk, disk.ptr.next) ELSE disk
    /\ UNCHANGED <<upd, chk, server>>

ReportLaunchSuccess ==
    /\ eng.pc = "launching"
    /\ eng' = [eng EXCEPT !.pc = "running"]
    /\ disk' = IF disk.ptr.booting = None THEN disk ELSE RecordBootSuccess(disk)
    /\ UNCHANGED <<upd, chk, server>>

ReportLaunchFailure ==
    /\ eng.pc = "launching"
    /\ eng' = [eng EXCEPT !.pc = "failed"]
    /\ disk' = IF disk.ptr.booting = None THEN disk
               ELSE RecordBootFailure(disk, disk.ptr.booting)
    /\ UNCHANGED <<upd, chk, server>>

-----------------------------------------------------------------------------
(***************************************************************************)
(* update_internal, under with_updater_thread_lock.                        *)
(***************************************************************************)
(* Mistake checked for: update() runs without its lock. *)
LockAlwaysFree == TRUE

(* No update() holds the try-lock. *)
Lock == \A u \in Updaters : upd[u].pc = "idle"

MayUpdate == Up /\ (ConcurrentBoot \/ eng.pc \in {"running", "failed"})

Goto(u, pc) == upd' = [upd EXCEPT ![u].pc = pc]

(* Mistake checked for: an update() that ends keeps the lock. *)
ReturnKeepsLock(u) == upd' = [upd EXCEPT ![u] = [Idle EXCEPT !.pc = "failed"]]

Return(u) == upd' = [upd EXCEPT ![u] = Idle]

(* The patch check: the response is the server's view now, used from here on. *)
CheckForPatch(u, patch) ==
    /\ MayUpdate /\ Lock
    /\ \E url \in Urls :
          upd' = [upd EXCEPT ![u] = [pc |-> "rollback", patch |-> patch,
                                     url |-> IF patch = None THEN None ELSE url,
                                     rolled |-> server.rolled]]
    /\ UNCHANGED <<disk, eng, chk, server>>

ApplyRollbacks(u) ==
    /\ upd[u].pc = "rollback"
    /\ disk' = Uninstall(disk, upd[u].rolled)
    /\ IF upd[u].patch = None THEN Return(u) ELSE Goto(u, "decide")
    /\ UNCHANGED <<eng, chk, server>>

(* Resuming from offset 0 is a fresh download. *)
PlanDownload(u) ==
    /\ upd[u].pc = "decide"
    /\ LET action == DecideStart(disk, upd[u].patch, upd[u].url)
           offset0 == disk.dl[upd[u].patch] = "empty"
       IN  \/ action \in {"KnownBad", "AlreadyInstalled"} /\ Return(u)
           \/ action = "Complete" /\ Goto(u, "inflate")
           \/ (action = "Fresh" \/ (action = "Resume" /\ offset0)) /\ Goto(u, "record_fresh")
           \/ action = "Resume" /\ ~offset0 /\ Goto(u, "record_resume")
    /\ UNCHANGED <<disk, eng, chk, server>>

RecordStarted(u) ==
    /\ upd[u].pc \in {"record_fresh", "record_resume"}
    /\ disk' = RecordDownloadStarted(disk, upd[u].patch, upd[u].url)
    /\ Goto(u, IF upd[u].pc = "record_fresh" THEN "open_fresh" ELSE "open_resume")
    /\ UNCHANGED <<eng, chk, server>>

(* A fresh download truncates the file; a resumed one appends, creating it if need be. *)
OpenDownload(u) ==
    /\ upd[u].pc \in {"open_fresh", "open_resume"}
    /\ LET n == upd[u].patch
           emptied == upd[u].pc = "open_fresh" \/ disk.dl[n] = "absent"
       IN  disk' = IF emptied THEN [disk EXCEPT !.dl[n] = "empty"] ELSE disk
    /\ Goto(u, IF upd[u].pc = "open_fresh" THEN "receive_fresh" ELSE "receive_resume")
    /\ UNCHANGED <<eng, chk, server>>

(* Bytes written to a file that was unlinked meanwhile are lost with it. *)
Received(u, content) ==
    IF disk.dl[upd[u].patch] = "absent" THEN disk
    ELSE [disk EXCEPT !.dl[upd[u].patch] = content]

(* A whole body arrives: a 200 answer, which starts a resumed file again. *)
WholeBody(u) ==
    \/ upd[u].pc = "receive_fresh"
    \/ upd[u].pc = "receive_resume" /\ "200" \in RangeAnswers

(* The rest of the file arrives: a 206 answer. *)
RestOfBody(u) == upd[u].pc = "receive_resume" /\ "206" \in RangeAnswers

(* The rest, written to a file created anew, is no part of the download. *)
ReceiveSome(u) ==
    /\ \/ WholeBody(u) /\ disk.dl[upd[u].patch] # "partial" /\ disk' = Received(u, "partial")
       \/ RestOfBody(u) /\ disk.dl[upd[u].patch] = "empty" /\ disk' = Received(u, "corrupt")
    /\ UNCHANGED <<eng, upd, chk, server>>

ReceiveWhole(u, content) ==
    /\ WholeBody(u)
    /\ disk' = Received(u, content)
    /\ Goto(u, "record_complete")
    /\ UNCHANGED <<eng, chk, server>>

(***************************************************************************)
(* A 206 answer completes the file.  Its length check compares the size of *)
(* the whole file, from Content-Range, with the bytes of this response     *)
(* alone, so it passes only when Content-Range cannot be read.             *)
(***************************************************************************)
ReceiveRest(u) ==
    /\ RestOfBody(u) /\ disk.dl[upd[u].patch] # "full"
    /\ \E content \in {"full", "corrupt"} :
          /\ content = "full" => disk.dl[upd[u].patch] = "partial"
          /\ disk' = Received(u, content)
    /\ Goto(u, "mismatch") \/ Goto(u, "record_complete")
    /\ UNCHANGED <<eng, chk, server>>

(* Refused (404, 416, 5xx), broken, or no file to write to: throws, the file stays. *)
ReceiveFails(u) ==
    /\ upd[u].pc \in {"open_fresh", "open_resume", "receive_fresh", "receive_resume"}
    /\ Return(u)
    /\ UNCHANGED <<disk, eng, chk, server>>

SizeMismatch(u) ==
    /\ upd[u].pc = "mismatch"
    /\ disk' = Uninstall(disk, {upd[u].patch})
    /\ Return(u)
    /\ UNCHANGED <<eng, chk, server>>

RecordComplete(u) ==
    /\ upd[u].pc = "record_complete"
    /\ IF CanCompleteDownload(disk, upd[u].patch)
       THEN disk' = RecordDownloadComplete(disk, upd[u].patch) /\ Goto(u, "inflate")
       ELSE UNCHANGED disk /\ Return(u)
    /\ UNCHANGED <<eng, chk, server>>

(* The base library cannot be opened: throws before anything is touched. *)
BaseMissing(u) ==
    /\ upd[u].pc = "inflate"
    /\ Return(u)
    /\ UNCHANGED <<disk, eng, chk, server>>

(* inflate_patch opens the download and truncates dlc.vmcode; either may fail. *)
InflateBegin(u) ==
    /\ upd[u].pc = "inflate"
    /\ LET n == upd[u].patch
       IN  \/ UNCHANGED disk /\ Goto(u, "bad_bytes")
           \/ /\ disk.dl[n] # "absent"
              /\ disk' = [disk EXCEPT !.art[n] = "torn"]
              /\ Goto(u, IF disk.dl[n] = "full" THEN "check_full" ELSE "check_bad")
    /\ UNCHANGED <<eng, chk, server>>

(* The output is written, which may fail, and hashed: a missing file is a mismatch. *)
InflateEnd(u) ==
    /\ upd[u].pc \in {"check_full", "check_bad"}
    /\ LET good == upd[u].pc = "check_full" /\ disk.art[upd[u].patch] # "absent"
       IN  \/ /\ good
              /\ disk' = [disk EXCEPT !.art[upd[u].patch] = "whole"]
              /\ Goto(u, "install")
           \/ ~good /\ UNCHANGED disk /\ Goto(u, "bad_hash")
           \/ UNCHANGED disk /\ Goto(u, "bad_bytes")
    /\ UNCHANGED <<eng, chk, server>>

Reason(pc) == IF pc = "bad_bytes" THEN "InvalidPatchBytes" ELSE "InstallHashMismatch"

RejectPatch(u) ==
    /\ upd[u].pc \in {"bad_bytes", "bad_hash"}
    /\ disk' = MarkBadAndRecompute(disk, upd[u].patch, Reason(upd[u].pc))
    /\ Return(u)
    /\ UNCHANGED <<eng, chk, server>>

InstallPatch(u) ==
    /\ upd[u].pc = "install"
    /\ LET n == upd[u].patch
       IN  disk' = IF disk.art[n] # "absent" /\ CanCompleteInstall(disk, n)
                   THEN Install(disk, n) ELSE disk
    /\ Return(u)
    /\ UNCHANGED <<eng, chk, server>>

UpdateStep(u) ==
    \/ \E patch \in Offered \cup {None} : CheckForPatch(u, patch)
    \/ \E content \in {"full", "corrupt"} : ReceiveWhole(u, content)
    \/ ApplyRollbacks(u) \/ PlanDownload(u)
    \/ RecordStarted(u)  \/ OpenDownload(u)   \/ ReceiveSome(u)
    \/ ReceiveRest(u)    \/ ReceiveFails(u)   \/ SizeMismatch(u)
    \/ RecordComplete(u) \/ BaseMissing(u)    \/ InflateBegin(u)
    \/ InflateEnd(u)     \/ RejectPatch(u)    \/ InstallPatch(u)

-----------------------------------------------------------------------------
(***************************************************************************)
(* check_for_downloadable_update: no lock.  Its answer changes nothing;    *)
(* the rollbacks of its response are applied in a later section.           *)
(***************************************************************************)
CheckAsk ==
    /\ MayUpdate /\ chk = {}
    /\ chk' = server.rolled
    /\ UNCHANGED <<disk, eng, upd, server>>

CheckApplyRollbacks ==
    /\ chk # {}
    /\ disk' = Uninstall(disk, chk)
    /\ chk' = {}
    /\ UNCHANGED <<eng, upd, server>>

-----------------------------------------------------------------------------
(***************************************************************************)
(* Process death.                                                          *)
(***************************************************************************)
EngineCuts ==
    CASE eng.pc = "up" -> ValidateNextBootCuts(disk)
      [] eng.pc = "launching" /\ disk.ptr.booting # None ->
            RecordBootSuccessCuts(disk) \cup RecordBootFailureCuts(disk, disk.ptr.booting)
      [] OTHER -> {}

UpdateCuts(u) ==
    LET n == upd[u].patch
    IN  CASE upd[u].pc = "rollback" -> UninstallCuts(disk, upd[u].rolled)
          [] upd[u].pc = "mismatch" -> UninstallCuts(disk, {n})
          [] upd[u].pc \in {"bad_bytes", "bad_hash"} -> MarkBadCuts(disk, n, Reason(upd[u].pc))
          [] upd[u].pc = "install" /\ CanCompleteInstall(disk, n) -> InstallCuts(disk, n)
          [] OTHER -> {}

Cuts == IF KillInSection
        THEN EngineCuts \cup UninstallCuts(disk, chk) \cup UNION {UpdateCuts(u) : u \in Updaters}
        ELSE {}

Kill ==
    /\ Up
    /\ disk' \in {disk} \cup Cuts
    /\ eng' = Down
    /\ upd' = [u \in Updaters |-> Idle]
    /\ chk' = {}
    /\ UNCHANGED server

(* Killed again inside init(). *)
KillInInit ==
    /\ KillInSection /\ eng.pc = "down"
    /\ disk' \in DetectBootCrashCuts(disk)
    /\ UNCHANGED <<eng, upd, chk, server>>

(* Storage damage between two runs of the application. *)
DamageArtifact(n) ==
    /\ Damage /\ eng.pc = "down" /\ Bootable(disk, n)
    /\ \E a \in {"absent", "torn"} : disk' = [disk EXCEPT !.art[n] = a]
    /\ UNCHANGED <<eng, upd, chk, server>>

(* code_cache_dir may be cleared by the system at any time. *)
LoseDownload(n) ==
    /\ CacheCleared /\ disk.dl[n] # "absent"
    /\ disk' = [disk EXCEPT !.dl[n] = "absent"]
    /\ UNCHANGED <<eng, upd, chk, server>>

EngineStep ==
    \/ Start \/ ValidateNextBootPatch \/ ReportLaunchStart
    \/ ReportLaunchSuccess \/ ReportLaunchFailure

Next ==
    \/ \E n \in Patches : Publish(n) \/ RollBack(n) \/ DamageArtifact(n) \/ LoseDownload(n)
    \/ EngineStep
    \/ \E u \in Updaters : UpdateStep(u)
    \/ CheckAsk \/ CheckApplyRollbacks
    \/ Kill \/ KillInInit

Spec == Init /\ [][Next]_vars

(***************************************************************************)
(* A running update() is a thread and runs on; the application calls it    *)
(* again and again; a patch offered again and again is eventually seen,    *)
(* and what is retried again and again (a transfer, a file to open)        *)
(* eventually succeeds.                                                    *)
(***************************************************************************)
Fairness ==
    \A u \in Updaters :
        /\ WF_vars(UpdateStep(u))
        /\ SF_vars(\E patch \in Offered : CheckForPatch(u, patch))
        /\ SF_vars(OpenDownload(u))
        /\ SF_vars(ReceiveWhole(u, "full"))
        /\ SF_vars(ReceiveRest(u))
        /\ SF_vars(InflateBegin(u))

FairSpec == Spec /\ Fairness

-----------------------------------------------------------------------------
(***************************************************************************)
(* Properties.                                                             *)
(***************************************************************************)

(* A tombstone is for the life of the release: decide_start and every      *)
(* later section of update() must leave a Bad patch Bad.                   *)
TombstonePermanent == [][\A n \in Patches : IsBad(disk, n) => IsBad(disk', n)]_vars

(* The last patch that booted stays available as the fallback: nothing but *)
(* a server rollback removes it (a tombstone keeps its state).             *)
FallbackKept ==
    disk.ptr.last \in Patches \ server.rolled => ~IsKind(disk, disk.ptr.last, "Unknown")

(* Once the engine has validated, what it is told to boot is Installed.    *)
ValidatedNextInstalled ==
    eng.pc = "validated" /\ disk.ptr.next # None => IsInstalled(disk, disk.ptr.next)

(* Why the above hold when boots and updates do not overlap: the engine's  *)
(* marker is set only while it launches an Installed patch; updates run    *)
(* only after that, one at a time, never past decide_start for a patch     *)
(* that is Installed or Bad, and remove only what the server rolled back.  *)
Working(u) == upd[u].pc \notin {"idle", "rollback", "decide"}

BootsAreOver == eng.pc \in {"running", "failed"}

UpdatesAfterBoot ==
    /\ \A u \in Updaters :
          /\ upd[u].pc # "idle" => BootsAreOver /\ upd[u].rolled \subseteq server.rolled
          /\ Working(u) => ~IsInstalled(disk, upd[u].patch) /\ ~IsBad(disk, upd[u].patch)
    /\ chk \subseteq server.rolled /\ (chk # {} => BootsAreOver)

OneUpdate == \A u, v \in Updaters : upd[u].pc # "idle" /\ upd[v].pc # "idle" => u = v

BootMarker ==
    disk.ptr.booting # None =>
        eng.pc = "down" \/ (eng.pc = "launching" /\ IsInstalled(disk, disk.ptr.booting))

FallbackSettled ==
    disk.ptr.last \in Patches \ server.rolled =>
        IsInstalled(disk, disk.ptr.last) \/ IsBad(disk, disk.ptr.last)

SerialInv ==
    UpdatesAfterBoot /\ OneUpdate /\ BootMarker /\ FallbackSettled /\ ValidatedNextInstalled

(* No pointer schedules a tombstoned patch: whatever marks a patch bad     *)
(* also moves next_boot_patch off it.                                      *)
NextNotTombstoned == ~IsBad(disk, disk.ptr.next)

(* An Installed patch can still be booted: it is the next or the fallback. *)
InstalledReachable ==
    \A n \in Patches : IsInstalled(disk, n) => n \in {disk.ptr.next, disk.ptr.last}

(* An artifact recorded as Installed is the whole file that was hashed:    *)
(* no second update() may be inflating over it.                            *)
InstalledIsWhole ==
    \A n \in Patches : IsInstalled(disk, n) => disk.art[n] = "whole"

(* DASHPOD_NO_UPDATE for an offered patch means it is the next to boot.    *)
NoUpdateMeansCurrent ==
    \A u \in Updaters :
        LET n == upd[u].patch
        IN  upd[u].pc = "decide" /\ DecideStart(disk, n, upd[u].url) = "AlreadyInstalled"
                => n = disk.ptr.next

(* The process stays up with its boot over. *)
StaysUp == <>[](eng.pc \in {"running", "failed"})

(* A patch that stays on offer to a process that stays up is eventually    *)
(* installed, or tombstoned as bad: no patch is retried for ever.          *)
OfferResolved ==
    \A n \in Patches :
        StaysUp /\ <>[](Offered = {n}) => <>(IsInstalled(disk, n) \/ IsBad(disk, n))

(* A rolled back patch eventually stops being the next to boot, whatever   *)
(* update was in flight with an older response.                            *)
RollbackTakesEffect ==
    \A n \in Patches :
        StaysUp /\ <>(n \in server.rolled) => <>[](disk.ptr.next # n)

(* What the engine can rely on, see BootContract: files, threads and the   *)
(* server are hidden behind the status of each patch.                      *)
Status == [n \in Patches |-> CASE IsBad(disk, n)       -> "bad"
                               [] IsInstalled(disk, n) -> "ready"
                               [] OTHER                -> "none"]

Contract == INSTANCE BootContract WITH
    status <- Status, booting <- disk.ptr.booting, last <- disk.ptr.last,
    withdrawn <- server.rolled

ImplementsContract == Contract!Spec

=============================================================================
