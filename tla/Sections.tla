------------------------------ MODULE Sections ------------------------------
(***************************************************************************)
(* Updater takes a with_state section of core/updater.cpp as one step.  It *)
(* is none: pointers.json is loaded when the section begins, changed in    *)
(* memory and saved by the operation, and no lock is held in between; and  *)
(* a section that uninstalls patches reads the state of each before it     *)
(* removes it, so that a tombstone written in between is removed too.      *)
(* Here a section is Load and its operation, and one that uninstalls       *)
(* patches is Load and then, for each of them, Look and Remove.            *)
(*                                                                         *)
(* The other operations read and write the state of a patch in one step:   *)
(* they belong to the engine, alone at that time, or to the one update(),  *)
(* on the patch it works on, which nothing but Remove writes beside it.    *)
(* Sections that leave the pointers alone stay the steps of Updater.       *)
(***************************************************************************)
EXTENDS Updater

VARIABLES
    mem,   \* per thread: the pointers its open section has loaded, or None
    left,  \* per thread: the patches its section has still to uninstall
    seen   \* per thread: the patch cleanup is at, and whether it read a tombstone

svars == <<vars, mem, left, seen>>

Threads == Updaters \cup {"engine", "check"}

ASSUME ThreadsAssumption == {"engine", "check"} \cap Updaters = {}

Looks == [patch : Patches, bad : BOOLEAN]

SectionsTypeOK ==
    /\ TypeOK
    /\ mem \in [Threads -> Pointers \cup {None}]
    /\ left \in [Threads -> SUBSET Patches]
    /\ seen \in [Threads -> Looks \cup {None}]

NoMem  == [t \in Threads |-> None]
NoLeft == [t \in Threads |-> {}]
NoSeen == [t \in Threads |-> None]

SectionsInit == Init /\ mem = NoMem /\ left = NoLeft /\ seen = NoSeen

(* Thread t is about to open a section that works on the pointers. *)
AtSection(t) ==
    CASE t = "engine" -> eng.pc \in {"up", "validated", "launching"}
      [] t = "check"  -> chk # {}
      [] OTHER        -> \/ upd[t].pc = "rollback" /\ upd[t].rolled # {}
                         \/ upd[t].pc \in {"mismatch", "bad_bytes", "bad_hash", "install"}

(* The patches that section uninstalls: the rolled back ones, or one of a wrong size. *)
Doomed(t) ==
    CASE t = "check"                            -> chk
      [] t \in Updaters /\ upd[t].pc = "rollback" -> upd[t].rolled
      [] t \in Updaters /\ upd[t].pc = "mismatch" -> {upd[t].patch}
      [] OTHER                                  -> {}

Load(t) ==
    /\ AtSection(t) /\ mem[t] = None
    /\ mem' = [mem EXCEPT ![t] = disk.ptr]
    /\ left' = [left EXCEPT ![t] = Doomed(t)]
    /\ UNCHANGED <<vars, seen>>

InSection(t) == mem[t] # None

(* The disk as the section of t sees it. *)
View(t) == [disk EXCEPT !.ptr = mem[t]]

(* The section of t ends with the disk d; its pointers are written only if saved. *)
Close(t, d, saved) ==
    /\ disk' = IF saved THEN d ELSE [d EXCEPT !.ptr = disk.ptr]
    /\ mem' = [mem EXCEPT ![t] = None]
    /\ UNCHANGED <<left, seen>>

(* recompute_next_boot saves the pointers only when it has changed them. *)
CloseDirty(t, d) == Close(t, d, d.ptr # mem[t])

-----------------------------------------------------------------------------
(***************************************************************************)
(* uninstall_patch(n), once for each patch of the section: cleanup reads   *)
(* the state (Look), then deletes the files or the whole directory by what *)
(* it read, and next_boot_patch is recomputed (Remove).                    *)
(***************************************************************************)
Look(t) ==
    /\ InSection(t) /\ seen[t] = None
    /\ \E n \in left[t] :
          /\ left' = [left EXCEPT ![t] = @ \ {n}]
          /\ seen' = [seen EXCEPT ![t] = [patch |-> n, bad |-> IsBad(disk, n)]]
    /\ UNCHANGED <<vars, mem>>

DeleteArtifactFiles(d, n) == [d EXCEPT !.art[n] = "absent", !.dl[n] = "absent"]

ForgetDir(d, n) == WriteState(DeleteArtifactFiles(d, n), n, Unknown)

(* Mistake checked for: cleanup forgets tombstones as well. *)
CleanedForgetsBad(d, look) == ForgetDir(d, look.patch)

Cleaned(d, look) ==
    IF look.bad THEN DeleteArtifactFiles(d, look.patch) ELSE ForgetDir(d, look.patch)

(* Mistake checked for: the pointers are not recomputed. *)
UninstalledKeepsPointers(t) == Cleaned(View(t), seen[t])

(* The disk as the section of t sees it after uninstall_patch. *)
Uninstalled(t) == RecomputeNextBoot(Cleaned(View(t), seen[t]))

(* The section ends with the last patch it had to uninstall. *)
Remove(t) ==
    /\ InSection(t) /\ seen[t] # None
    /\ LET d == Uninstalled(t)
       IN  /\ disk' = IF d.ptr # mem[t] THEN d ELSE [d EXCEPT !.ptr = disk.ptr]
           /\ mem' = [mem EXCEPT ![t] = IF left[t] = {} THEN None ELSE d.ptr]
    /\ seen' = [seen EXCEPT ![t] = None]
    /\ UNCHANGED left

-----------------------------------------------------------------------------
(***************************************************************************)
(* The engine's sections.                                                  *)
(***************************************************************************)
SplitValidate ==
    /\ eng.pc = "up" /\ InSection("engine")
    /\ CloseDirty("engine", ValidateNextBoot(View("engine")))
    /\ eng' = [eng EXCEPT !.pc = "validated"]
    /\ UNCHANGED <<upd, chk, server>>

SplitLaunchStart ==
    /\ eng.pc \in {"up", "validated"} /\ InSection("engine")
    /\ LET next == mem["engine"].next
           can  == CanRecordBootStart(View("engine"), next)
       IN  /\ Close("engine", IF can THEN RecordBootStart(View("engine"), next) ELSE disk, can)
           /\ eng' = [pc |-> "launching", run |-> next]
    /\ UNCHANGED <<upd, chk, server>>

SplitLaunchSuccess ==
    /\ eng.pc = "launching" /\ InSection("engine")
    /\ IF mem["engine"].booting = None
       THEN Close("engine", disk, FALSE)
       ELSE Close("engine", RecordBootSuccess(View("engine")), TRUE)
    /\ eng' = [eng EXCEPT !.pc = "running"]
    /\ UNCHANGED <<upd, chk, server>>

SplitLaunchFailure ==
    /\ eng.pc = "launching" /\ InSection("engine")
    /\ LET booting == mem["engine"].booting
       IN  IF booting = None
           THEN Close("engine", disk, FALSE)
           ELSE Close("engine", RecordBootFailure(View("engine"), booting), TRUE)
    /\ eng' = [eng EXCEPT !.pc = "failed"]
    /\ UNCHANGED <<upd, chk, server>>

-----------------------------------------------------------------------------
(***************************************************************************)
(* The sections of update() and of check_for_downloadable_update().        *)
(***************************************************************************)
AfterRollbacks(u) == IF upd[u].patch = None THEN Return(u) ELSE Goto(u, "decide")

(* With nothing rolled back, there is nothing to uninstall. *)
NoRollbacks(u) ==
    /\ upd[u].pc = "rollback" /\ upd[u].rolled = {}
    /\ AfterRollbacks(u)
    /\ UNCHANGED <<disk, eng, chk, server, mem, left, seen>>

SplitApplyRollbacks(u) ==
    /\ upd[u].pc = "rollback"
    /\ Remove(u)
    /\ IF left[u] = {} THEN AfterRollbacks(u) ELSE UNCHANGED upd
    /\ UNCHANGED <<eng, chk, server>>

SplitSizeMismatch(u) ==
    /\ upd[u].pc = "mismatch"
    /\ Remove(u) /\ Return(u)
    /\ UNCHANGED <<eng, chk, server>>

SplitRejectPatch(u) ==
    /\ upd[u].pc \in {"bad_bytes", "bad_hash"} /\ InSection(u)
    /\ CloseDirty(u, MarkBadAndRecompute(View(u), upd[u].patch, Reason(upd[u].pc)))
    /\ Return(u)
    /\ UNCHANGED <<eng, chk, server>>

SplitInstallPatch(u) ==
    /\ upd[u].pc = "install" /\ InSection(u)
    /\ LET n   == upd[u].patch
           can == disk.art[n] # "absent" /\ CanCompleteInstall(disk, n)
       IN  Close(u, IF can THEN Install(View(u), n) ELSE disk, can)
    /\ Return(u)
    /\ UNCHANGED <<eng, chk, server>>

SplitCheckRollbacks ==
    /\ Remove("check")
    /\ chk' = IF left["check"] = {} THEN {} ELSE chk
    /\ UNCHANGED <<eng, upd, server>>

-----------------------------------------------------------------------------
(* The steps of update() that are no section, or leave the pointers alone. *)
UnsplitUpdateStep(u) ==
    \/ \E patch \in Offered \cup {None} : CheckForPatch(u, patch)
    \/ \E content \in {"full", "corrupt"} : ReceiveWhole(u, content)
    \/ PlanDownload(u) \/ RecordStarted(u)  \/ OpenDownload(u)
    \/ ReceiveSome(u)  \/ ReceiveRest(u)    \/ ReceiveFails(u)
    \/ BaseMissing(u)  \/ RecordComplete(u) \/ InflateBegin(u) \/ InflateEnd(u)

SplitUpdateStep(u) ==
    \/ UnsplitUpdateStep(u) /\ UNCHANGED <<mem, left, seen>>
    \/ Load(u) \/ Look(u) \/ NoRollbacks(u)
    \/ SplitApplyRollbacks(u) \/ SplitSizeMismatch(u)
    \/ SplitRejectPatch(u)    \/ SplitInstallPatch(u)

CheckSection == Load("check") \/ Look("check") \/ SplitCheckRollbacks

SplitCheckStep == (CheckAsk /\ UNCHANGED <<mem, left, seen>>) \/ CheckSection

SplitEngineStep ==
    \/ Start /\ UNCHANGED <<mem, left, seen>>
    \/ Load("engine")
    \/ SplitValidate \/ SplitLaunchStart \/ SplitLaunchSuccess \/ SplitLaunchFailure

SplitKill ==
    /\ Kill
    /\ mem' = NoMem /\ left' = NoLeft /\ seen' = NoSeen

SectionsNext ==
    \/ (\E n \in Patches : Publish(n) \/ RollBack(n)) /\ UNCHANGED <<mem, left, seen>>
    \/ SplitEngineStep
    \/ \E u \in Updaters : SplitUpdateStep(u)
    \/ SplitCheckStep
    \/ SplitKill

SectionsSpec == SectionsInit /\ [][SectionsNext]_svars

(* A thread inside update() or inside a check runs on, and update() is called again. *)
SectionsFairSpec ==
    /\ SectionsSpec
    /\ \A u \in Updaters : WF_svars(SplitUpdateStep(u))
    /\ WF_svars(CheckSection)

-----------------------------------------------------------------------------
(***************************************************************************)
(* Properties.                                                             *)
(***************************************************************************)

(* While sections overlap, a tombstone is lost in one way only: the server *)
(* rolled the patch back, and a cleanup that read its state before it was  *)
(* tombstoned removes the directory after.                                 *)
TombstoneKept ==
    [][\A n \in Patches :
          IsBad(disk, n) =>
              \/ IsBad(disk', n)
              \/ n \in server.rolled /\ \E t \in Threads : seen[t] = [patch |-> n, bad |-> FALSE]
      ]_svars

=============================================================================
