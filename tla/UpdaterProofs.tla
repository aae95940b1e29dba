--------------------------- MODULE UpdaterProofs ---------------------------
(***************************************************************************)
(* Proofs about Updater for any set of patches, URLs and update() callers. *)
(***************************************************************************)
EXTENDS Updater, TLAPS

-----------------------------------------------------------------------------
(***************************************************************************)
(* Every operation of the patch store maps a disk to a disk, and every cut *)
(* of it is a disk too.                                                    *)
(***************************************************************************)
LEMMA DiskFields ==
    ASSUME NEW d \in Disks
    PROVE  /\ d.state \in [Patches -> PatchStates] /\ d.art \in [Patches -> Artifacts]
           /\ d.dl \in [Patches -> Downloads] /\ d.ptr \in Pointers
           /\ d = [state |-> d.state, art |-> d.art, dl |-> d.dl, ptr |-> d.ptr]
BY DEF Disks

LEMMA PointerFields ==
    ASSUME NEW d \in Disks
    PROVE  d.ptr.next \in OptPatch /\ d.ptr.last \in OptPatch /\ d.ptr.booting \in OptPatch
BY DEF Disks, Pointers

LEMMA WriteStateType ==
    ASSUME NEW d \in Disks, NEW n, NEW s \in PatchStates
    PROVE  WriteState(d, n, s) \in Disks
BY DEF Disks, WriteState

LEMMA CleanSetType ==
    ASSUME NEW d \in Disks, NEW K
    PROVE  CleanSet(d, K) \in Disks
BY DEF Disks, CleanSet, PatchStates, Artifacts, Downloads

LEMMA RecomputeType ==
    ASSUME NEW d \in Disks
    PROVE  RecomputeNextBoot(d) \in Disks
BY DEF Disks, Pointers, OptPatch, RecomputeNextBoot

LEMMA BadIsState == ASSUME NEW r \in BadReasons PROVE Bad(r) \in PatchStates
BY DEF PatchStates

LEMMA MarkBadType ==
    ASSUME NEW d \in Disks, NEW n, NEW r \in BadReasons
    PROVE  MarkBad(d, n, r) \in Disks
BY BadIsState, WriteStateType, CleanSetType DEF MarkBad, Cleanup

LEMMA CleanupCutsType ==
    ASSUME NEW d \in Disks, NEW n \in Patches, NEW e \in CleanupCuts(d, n)
    PROVE  e \in Disks
<1>1. Cleanup(d, n).state[n] \in PatchStates
  BY CleanSetType, DiskFields DEF Cleanup
<1>2. PICK s \in {d.state[n], Cleanup(d, n).state[n]}, a \in {d.art[n], "absent"} :
        e = [d EXCEPT !.state[n] = s, !.art[n] = a]
  BY DEF CleanupCuts
<1>3. s \in PatchStates /\ a \in Artifacts
  BY <1>1, DiskFields DEF Artifacts
<1>4. QED BY <1>2, <1>3 DEF Disks

LEMMA MarkBadCutsType ==
    ASSUME NEW d \in Disks, NEW n \in Patches, NEW r \in BadReasons
    PROVE  MarkBadCuts(d, n, r) \subseteq Disks
<1>1. WriteState(d, n, Bad(r)) \in Disks /\ MarkBad(d, n, r) \in Disks
  BY BadIsState, WriteStateType, MarkBadType
<1>2. QED BY <1>1, CleanupCutsType DEF MarkBadCuts

LEMMA MarkBadAndRecomputeType ==
    ASSUME NEW d \in Disks, NEW n, NEW r \in BadReasons
    PROVE  MarkBadAndRecompute(d, n, r) \in Disks
BY MarkBadType, RecomputeType DEF MarkBadAndRecompute

LEMMA UninstallType ==
    ASSUME NEW d \in Disks, NEW K
    PROVE  Uninstall(d, K) \in Disks
BY CleanSetType, RecomputeType DEF Uninstall

LEMMA UninstallCutsType ==
    ASSUME NEW d \in Disks, NEW K \in SUBSET Patches
    PROVE  UninstallCuts(d, K) \subseteq Disks
<1> SUFFICES ASSUME NEW e \in UninstallCuts(d, K) PROVE e \in Disks
  OBVIOUS
<1>1. PICK J \in SUBSET K, n \in K :
        e \in {Uninstall(d, J), Cleanup(Uninstall(d, J), n)} \cup CleanupCuts(Uninstall(d, J), n)
  BY DEF UninstallCuts
<1>2. QED BY <1>1, UninstallType, CleanSetType, CleanupCutsType DEF Cleanup

LEMMA InstallType ==
    ASSUME NEW d \in Disks, NEW n \in Patches
    PROVE  /\ RecordInstallComplete(d, n) \in Disks
           /\ Install(d, n) \in Disks
           /\ InstallCuts(d, n) \subseteq Disks
<1> DEFINE i == RecordInstallComplete(d, n)
<1>1. WriteState(d, n, Installed) \in Disks
  BY WriteStateType DEF PatchStates
<1>2. i \in Disks
  BY <1>1 DEF RecordInstallComplete, Disks, Downloads
<1> HIDE DEF i
<1>3. CleanSet(i, Displaced(i, n)) \in Disks
  BY <1>2, CleanSetType
<1>4. PromoteToNextBoot(i, n) \in Disks
  BY <1>3 DEF PromoteToNextBoot, Disks, Pointers, OptPatch
<1>5. Displaced(i, n) \subseteq Patches
  BY <1>2, PointerFields DEF Displaced, OptPatch
<1>6. \A m \in Displaced(i, n) : CleanupCuts(i, m) \subseteq Disks
  BY <1>2, <1>5, CleanupCutsType
<1>7. InstallCuts(d, n) \subseteq Disks
  BY <1>1, <1>2, <1>3, <1>6 DEF InstallCuts, i
<1>8. QED BY <1>2, <1>4, <1>7 DEF Install, i

LEMMA BootSuccessType ==
    ASSUME NEW d \in Disks, d.ptr.booting # None
    PROVE  /\ RecordBootSuccess(d) \in Disks
           /\ RecordBootSuccessCuts(d) \subseteq Disks
<1> DEFINE b == BootedOk(d)  n == d.ptr.booting
<1>1. b \in Disks
  BY DEF BootedOk, Disks, Pointers, OptPatch
<1> HIDE DEF b
<1>2. \A K : CleanSet(b, K) \in Disks
  BY <1>1, CleanSetType
<1>3. RecordBootSuccess(d) \in Disks
  <2>1. CleanSet(b, OlderThan(n)) \in Disks
    BY <1>2
  <2>2. ASSUME NEW c \in Disks PROVE CleanupOrphanDownloads(c) \in Disks
    BY DEF CleanupOrphanDownloads, Disks, Downloads
  <2>3. QED BY <2>1, <2>2 DEF RecordBootSuccess, CleanupOlderThan, b
<1>4. ASSUME NEW e \in CleanupOlderThanCuts(b, n) PROVE e \in Disks
  BY <1>2, <1>4, CleanupCutsType DEF CleanupOlderThanCuts, OlderThan
<1>5. QED BY <1>1, <1>3, <1>4 DEF RecordBootSuccessCuts, b

LEMMA BootFailureType ==
    ASSUME NEW d \in Disks, NEW n \in Patches
    PROVE  /\ BootCleared(d, n) \in Disks
           /\ RecordBootFailure(d, n) \in Disks
           /\ RecordBootFailureCuts(d, n) \subseteq Disks
<1>0. "BootCrash" \in BadReasons
  BY DEF BadReasons
<1>1. MarkBad(d, n, "BootCrash") \in Disks
  BY <1>0, MarkBadType
<1>2. BootCleared(d, n) \in Disks
  BY <1>1 DEF BootCleared, Disks, Pointers, OptPatch
<1>3. QED
  BY <1>0, <1>2, RecomputeType, MarkBadCutsType DEF RecordBootFailure, RecordBootFailureCuts

LEMMA DetectBootCrashType ==
    ASSUME NEW d \in Disks
    PROVE  DetectBootCrash(d) \in Disks /\ DetectBootCrashCuts(d) \subseteq Disks
BY PointerFields, BootFailureType DEF DetectBootCrash, DetectBootCrashCuts, OptPatch

LEMMA ValidateType ==
    ASSUME NEW d \in Disks
    PROVE  ValidateNextBoot(d) \in Disks /\ ValidateNextBootCuts(d) \subseteq Disks
BY PointerFields, MarkBadAndRecomputeType, MarkBadCutsType
DEF ValidateNextBoot, ValidateNextBootCuts, OptPatch, BadReasons

-----------------------------------------------------------------------------
(***************************************************************************)
(* Type correctness.  A caller past its response holds a patch and its URL *)
(* (without that, what it records need not be a state of the store).       *)
(***************************************************************************)
Callers == [pc : UpdatePcs, patch : OptPatch, url : Urls \cup {None}, rolled : SUBSET Patches]

CallersOK ==
    /\ upd \in [Updaters -> Callers]
    /\ \A u \in Updaters :
          /\ upd[u].pc \notin {"idle", "rollback"} => upd[u].patch \in Patches
          /\ upd[u].patch # None => upd[u].url \in Urls

TypeInv == TypeOK /\ CallersOK

LEMMA GotoOK ==
    ASSUME CallersOK, NEW u \in Updaters, NEW pc \in UpdatePcs, upd[u].patch \in Patches,
           Goto(u, pc)
    PROVE  CallersOK'
<1>1. upd' \in [Updaters -> Callers]
  BY DEF CallersOK, Callers, Goto
<1>2. \A v \in Updaters : upd'[v].patch = upd[v].patch /\ upd'[v].url = upd[v].url
  BY DEF CallersOK, Callers, Goto
<1>3. \A v \in Updaters \ {u} : upd'[v] = upd[v]
  BY DEF CallersOK, Goto
<1>4. QED BY <1>1, <1>2, <1>3 DEF CallersOK

LEMMA IdleIsCaller == Idle \in Callers
BY DEF Idle, Callers, UpdatePcs, OptPatch

LEMMA ReturnOK ==
    ASSUME CallersOK, NEW u \in Updaters, Return(u)
    PROVE  CallersOK'
<1>1. upd' \in [Updaters -> Callers]
  BY IdleIsCaller DEF CallersOK, Return
<1>2. \A v \in Updaters \ {u} : upd'[v] = upd[v]
  BY DEF CallersOK, Return
<1>3. upd'[u] = Idle
  BY DEF CallersOK, Return
<1>4. QED BY <1>1, <1>2, <1>3 DEF CallersOK, Idle

LEMMA InitType == Init => TypeInv
BY DEF Init, TypeInv, TypeOK, CallersOK, Callers, EmptyDisk, Idle, Down, Disks, Pointers,
       OptPatch, PatchStates, Artifacts, Downloads, EnginePcs, UpdatePcs

(* Marking an artifact or a download file keeps the disk a disk. *)
LEMMA FileType ==
    ASSUME NEW d \in Disks, NEW n, NEW a \in Artifacts, NEW f \in Downloads
    PROVE  [d EXCEPT !.art[n] = a] \in Disks /\ [d EXCEPT !.dl[n] = f] \in Disks
BY DEF Disks

LEMMA RecordedUrl ==
    ASSUME NEW s \in PatchStates, s.kind \in {"Downloading", "Downloaded"}
    PROVE  s.url \in Urls
BY DEF PatchStates, Unknown, Downloading, Downloaded, Installed, Bad

LEMMA EngineStepType ==
    ASSUME TypeInv, EngineStep
    PROVE  TypeInv'
<1>1. disk \in Disks /\ eng \in [pc : EnginePcs, run : OptPatch] /\ OptPatch = Patches \cup {None}
  BY DEF TypeInv, TypeOK, OptPatch
<1>2. UNCHANGED <<upd, chk, server>>
  BY DEF EngineStep, Start, ValidateNextBootPatch, ReportLaunchStart, ReportLaunchSuccess,
         ReportLaunchFailure
<1>3. CallersOK'
  BY <1>2 DEF TypeInv, CallersOK
<1>4. disk' \in Disks /\ eng' \in [pc : EnginePcs, run : OptPatch]
  <2>1. CASE Start
    BY <1>1, <2>1, DetectBootCrashType DEF Start, EnginePcs
  <2>2. CASE ValidateNextBootPatch
    BY <1>1, <2>2, ValidateType DEF ValidateNextBootPatch, EnginePcs
  <2>3. CASE ReportLaunchStart
    <3>1. disk.ptr.next \in OptPatch
      BY <1>1, PointerFields
    <3>2. RecordBootStart(disk, disk.ptr.next) \in Disks
      BY <1>1, <3>1 DEF RecordBootStart, Disks, Pointers
    <3>3. QED BY <1>1, <2>3, <3>1, <3>2 DEF ReportLaunchStart, EnginePcs
  <2>4. CASE ReportLaunchSuccess
    BY <1>1, <2>4, BootSuccessType DEF ReportLaunchSuccess, EnginePcs
  <2>5. CASE ReportLaunchFailure
    <3>1. disk.ptr.booting # None => disk.ptr.booting \in Patches
      BY <1>1, PointerFields
    <3>2. QED BY <1>1, <2>5, <3>1, BootFailureType DEF ReportLaunchFailure, EnginePcs
  <2>6. QED BY <2>1, <2>2, <2>3, <2>4, <2>5 DEF EngineStep
<1>5. QED BY <1>2, <1>3, <1>4 DEF TypeInv, TypeOK

(* Every step of update() leaves the engine and the server alone. *)
LEMMA UpdateStepFrame ==
    ASSUME NEW u \in Updaters, UpdateStep(u)
    PROVE  UNCHANGED <<eng, chk, server>>
BY DEF UpdateStep, CheckForPatch, ApplyRollbacks, PlanDownload, RecordStarted, OpenDownload,
       ReceiveSome, ReceiveWhole, ReceiveRest, ReceiveFails, SizeMismatch, RecordComplete,
       BaseMissing, InflateBegin, InflateEnd, RejectPatch, InstallPatch

LEMMA UpdateStepCallers ==
    ASSUME TypeInv, NEW u \in Updaters, UpdateStep(u)
    PROVE  CallersOK'
<1> USE DEF TypeInv
<1>0. /\ CallersOK
      /\ upd[u].pc \notin {"idle", "rollback"} => upd[u].patch \in Patches
      /\ upd[u].patch # None => upd[u].patch \in Patches
  BY DEF CallersOK, Callers, OptPatch
<1>a. ASSUME Return(u) PROVE CallersOK'
  BY <1>0, <1>a, ReturnOK
<1>b. ASSUME NEW pc \in UpdatePcs, upd[u].patch \in Patches, Goto(u, pc) PROVE CallersOK'
  BY <1>0, <1>b, GotoOK
<1>c. ASSUME UNCHANGED upd PROVE CallersOK'
  BY <1>0, <1>c DEF CallersOK
<1>1. ASSUME NEW patch \in Offered \cup {None}, CheckForPatch(u, patch) PROVE CallersOK'
  <2>1. PICK url \in Urls :
          upd' = [upd EXCEPT ![u] = [pc |-> "rollback", patch |-> patch,
                                     url |-> IF patch = None THEN None ELSE url,
                                     rolled |-> server.rolled]]
    BY <1>1 DEF CheckForPatch
  <2>2. patch \in OptPatch /\ server.rolled \in SUBSET Patches
    BY DEF TypeOK, Offered, Live, OptPatch
  <2>3. upd' \in [Updaters -> Callers]
    BY <1>0, <2>1, <2>2 DEF CallersOK, Callers, UpdatePcs
  <2>4. \A v \in Updaters \ {u} : upd'[v] = upd[v]
    BY <1>0, <2>1 DEF CallersOK
  <2>5. /\ upd'[u].pc = "rollback" /\ upd'[u].patch = patch
        /\ upd'[u].url = IF patch = None THEN None ELSE url
    BY <1>0, <2>1 DEF CallersOK
  <2>6. QED BY <1>0, <2>3, <2>4, <2>5 DEF CallersOK
<1>2. ASSUME NEW content, ReceiveWhole(u, content) PROVE CallersOK'
  BY <1>0, <1>2, <1>b DEF ReceiveWhole, WholeBody, UpdatePcs
<1>3. CASE ApplyRollbacks(u)
  BY <1>0, <1>3, <1>a, <1>b DEF ApplyRollbacks, UpdatePcs
<1>4. CASE PlanDownload(u)
  BY <1>0, <1>4, <1>a, <1>b DEF PlanDownload, UpdatePcs
<1>5. CASE RecordStarted(u)
  BY <1>0, <1>5, <1>b DEF RecordStarted, UpdatePcs
<1>6. CASE OpenDownload(u)
  BY <1>0, <1>6, <1>b DEF OpenDownload, UpdatePcs
<1>7. CASE ReceiveSome(u)
  BY <1>7, <1>c DEF ReceiveSome
<1>8. CASE ReceiveRest(u)
  BY <1>0, <1>8, <1>b DEF ReceiveRest, RestOfBody, UpdatePcs
<1>9. CASE ReceiveFails(u) \/ SizeMismatch(u) \/ BaseMissing(u) \/ RejectPatch(u) \/ InstallPatch(u)
  BY <1>9, <1>a DEF ReceiveFails, SizeMismatch, BaseMissing, RejectPatch, InstallPatch
<1>10. CASE RecordComplete(u)
  BY <1>0, <1>10, <1>a, <1>b DEF RecordComplete, UpdatePcs
<1>11. CASE InflateBegin(u)
  BY <1>0, <1>11, <1>b DEF InflateBegin, UpdatePcs
<1>12. CASE InflateEnd(u)
  BY <1>0, <1>12, <1>b DEF InflateEnd, UpdatePcs
<1>13. QED
  BY <1>1, <1>2, <1>3, <1>4, <1>5, <1>6, <1>7, <1>8, <1>9, <1>10, <1>11, <1>12 DEF UpdateStep

LEMMA UpdateStepDisk ==
    ASSUME TypeInv, NEW u \in Updaters, UpdateStep(u)
    PROVE  disk' \in Disks
<1> DEFINE n == upd[u].patch
<1>0. /\ disk \in Disks
      /\ upd[u].pc \notin {"idle", "rollback"} => n \in Patches /\ upd[u].url \in Urls
  BY NoneAssumption DEF TypeInv, TypeOK, CallersOK
<1>1. ASSUME NEW content \in Downloads PROVE Received(u, content) \in Disks
  BY <1>0, FileType DEF Received, Artifacts
<1>2. ASSUME NEW patch, CheckForPatch(u, patch) PROVE disk' \in Disks
  BY <1>0, <1>2 DEF CheckForPatch
<1>3. ASSUME NEW content \in {"full", "corrupt"}, ReceiveWhole(u, content) PROVE disk' \in Disks
  BY <1>1, <1>3 DEF ReceiveWhole, Downloads
<1>4. CASE ApplyRollbacks(u)
  BY <1>0, <1>4, UninstallType DEF ApplyRollbacks
<1>5. CASE PlanDownload(u) \/ ReceiveFails(u) \/ BaseMissing(u)
  BY <1>0, <1>5 DEF PlanDownload, ReceiveFails, BaseMissing
<1>6. CASE RecordStarted(u)
  <2>1. Downloading(upd[u].url) \in PatchStates
    BY <1>0, <1>6 DEF RecordStarted, PatchStates
  <2>2. QED BY <1>0, <1>6, <2>1, WriteStateType DEF RecordStarted, RecordDownloadStarted
<1>7. CASE OpenDownload(u)
  <2>1. [disk EXCEPT !.dl[n] = "empty"] \in Disks
    BY <1>0, FileType DEF Downloads, Artifacts
  <2>2. QED BY <1>0, <1>7, <2>1 DEF OpenDownload
<1>8. CASE ReceiveSome(u) \/ ReceiveRest(u)
  BY <1>1, <1>8 DEF ReceiveSome, ReceiveRest, Downloads
<1>9. CASE SizeMismatch(u)
  BY <1>0, <1>9, UninstallType DEF SizeMismatch
<1>10. CASE RecordComplete(u)
  <2>1. CASE CanCompleteDownload(disk, n)
    <3>1. disk.state[n] \in PatchStates
      BY <1>0, <1>10, DiskFields DEF RecordComplete
    <3>2. Downloaded(disk.state[n].url) \in PatchStates
      BY <2>1, <3>1, RecordedUrl DEF CanCompleteDownload, PatchStates
    <3>3. QED BY <1>0, <1>10, <2>1, <3>2, WriteStateType DEF RecordComplete, RecordDownloadComplete
  <2>2. QED BY <1>0, <1>10, <2>1 DEF RecordComplete
<1>11. CASE InflateBegin(u)
  <2>1. [disk EXCEPT !.art[n] = "torn"] \in Disks
    BY <1>0, FileType DEF Artifacts, Downloads
  <2>2. QED BY <1>0, <1>11, <2>1 DEF InflateBegin
<1>12. CASE InflateEnd(u)
  <2>1. [disk EXCEPT !.art[n] = "whole"] \in Disks
    BY <1>0, FileType DEF Artifacts, Downloads
  <2>2. QED BY <1>0, <1>12, <2>1 DEF InflateEnd
<1>13. CASE RejectPatch(u)
  BY <1>0, <1>13, MarkBadAndRecomputeType DEF RejectPatch, Reason, BadReasons
<1>14. CASE InstallPatch(u)
  BY <1>0, <1>14, InstallType DEF InstallPatch
<1>15. QED
  BY <1>2, <1>3, <1>4, <1>5, <1>6, <1>7, <1>8, <1>9, <1>10, <1>11, <1>12, <1>13, <1>14
  DEF UpdateStep

(* Whatever a kill leaves behind is a disk. *)
LEMMA CutsType == ASSUME TypeInv PROVE Cuts \subseteq Disks
<1>0. disk \in Disks /\ chk \in SUBSET Patches /\ CallersOK
  BY DEF TypeInv, TypeOK
<1>1. EngineCuts \subseteq Disks
  <2>1. disk.ptr.booting # None => disk.ptr.booting \in Patches
    BY <1>0, PointerFields DEF OptPatch
  <2>2. QED BY <1>0, <2>1, ValidateType, BootSuccessType, BootFailureType DEF EngineCuts
<1>2. UninstallCuts(disk, chk) \subseteq Disks
  BY <1>0, UninstallCutsType
<1>3. ASSUME NEW u \in Updaters PROVE UpdateCuts(u) \subseteq Disks
  <2>1. /\ upd[u].rolled \in SUBSET Patches
        /\ upd[u].pc \notin {"idle", "rollback"} => upd[u].patch \in Patches
    BY <1>0, <1>3 DEF CallersOK, Callers
  <2>2. Reason(upd[u].pc) \in BadReasons
    BY DEF Reason, BadReasons
  <2>3. CASE upd[u].pc = "rollback"
    BY <1>0, <2>1, <2>3, UninstallCutsType DEF UpdateCuts
  <2>4. CASE upd[u].pc = "mismatch"
    BY <1>0, <2>1, <2>4, UninstallCutsType DEF UpdateCuts
  <2>5. CASE upd[u].pc \in {"bad_bytes", "bad_hash"}
    BY <1>0, <2>1, <2>2, <2>5, MarkBadCutsType DEF UpdateCuts
  <2>6. CASE upd[u].pc = "install"
    BY <1>0, <2>1, <2>6, InstallType DEF UpdateCuts
  <2>7. QED BY <2>3, <2>4, <2>5, <2>6 DEF UpdateCuts
<1>4. QED BY <1>1, <1>2, <1>3 DEF Cuts

LEMMA StepType == TypeInv /\ [Next]_vars => TypeInv'
<1> SUFFICES ASSUME TypeInv, [Next]_vars PROVE TypeInv'
  OBVIOUS
<1>0. /\ disk \in Disks /\ eng \in [pc : EnginePcs, run : OptPatch] /\ chk \in SUBSET Patches
      /\ server \in [pub : SUBSET Patches, rolled : SUBSET Patches] /\ CallersOK
  BY DEF TypeInv, TypeOK
<1> DEFINE Rest == /\ disk' \in Disks /\ eng' \in [pc : EnginePcs, run : OptPatch]
                   /\ chk' \in SUBSET Patches
                   /\ server' \in [pub : SUBSET Patches, rolled : SUBSET Patches]
<1>a. ASSUME Rest, CallersOK' PROVE TypeInv'
  BY <1>a DEF TypeInv, TypeOK, CallersOK, Callers
<1>b. ASSUME UNCHANGED upd PROVE CallersOK'
  BY <1>0, <1>b DEF CallersOK
<1>1. ASSUME NEW n \in Patches, Publish(n) \/ RollBack(n) PROVE TypeInv'
  <2>1. Rest
    BY <1>0, <1>1 DEF Publish, RollBack, Live
  <2>2. QED BY <1>1, <1>a, <1>b, <2>1 DEF Publish, RollBack
<1>2. ASSUME NEW n \in Patches, DamageArtifact(n) \/ LoseDownload(n) PROVE TypeInv'
  <2>1. /\ \A a \in {"absent", "torn"} : [disk EXCEPT !.art[n] = a] \in Disks
        /\ [disk EXCEPT !.dl[n] = "absent"] \in Disks
    BY <1>0, FileType DEF Artifacts, Downloads
  <2>2. QED BY <1>0, <1>2, <1>a, <1>b, <2>1 DEF DamageArtifact, LoseDownload
<1>3. CASE EngineStep
  BY <1>3, EngineStepType
<1>4. ASSUME NEW u \in Updaters, UpdateStep(u) PROVE TypeInv'
  BY <1>0, <1>4, <1>a, UpdateStepFrame, UpdateStepCallers, UpdateStepDisk
<1>5. CASE CheckAsk \/ CheckApplyRollbacks
  BY <1>0, <1>5, <1>a, <1>b, UninstallType DEF CheckAsk, CheckApplyRollbacks
<1>6. CASE Kill
  <2>1. CallersOK'
    BY <1>6, IdleIsCaller DEF Kill, CallersOK, Idle
  <2>2. Rest
    BY <1>0, <1>6, CutsType DEF Kill, Down, EnginePcs, OptPatch
  <2>3. QED BY <1>a, <2>1, <2>2
<1>7. CASE KillInInit
  BY <1>0, <1>7, <1>a, <1>b, DetectBootCrashType DEF KillInInit
<1>8. CASE UNCHANGED vars
  BY <1>0, <1>8, <1>a, <1>b DEF vars
<1>9. QED BY <1>1, <1>2, <1>3, <1>4, <1>5, <1>6, <1>7, <1>8 DEF Next

(* In every reachable state, in either regime and with kills at any point, *)
(* the files hold one of the states of lifecycle.h and the pointers name   *)
(* patches of the release.                                                 *)
THEOREM TypeCorrect == Spec => []TypeOK
<1>1. TypeInv => TypeOK
  BY DEF TypeInv
<1>2. QED BY InitType, StepType, <1>1, PTL DEF Spec

=============================================================================
