---------------------------- MODULE SafetyProofs ----------------------------
(***************************************************************************)
(* The safety of Updater when boots and updates do not overlap, for any    *)
(* set of patches, URLs and callers, with kills inside sections and with   *)
(* damaged artifacts: SerialInv is inductive, and from it tombstones are   *)
(* permanent, the fallback is kept and what was validated stays Installed; *)
(* and Updater implements BootContract.                                    *)
(***************************************************************************)
EXTENDS UpdaterProofs

-----------------------------------------------------------------------------
(***************************************************************************)
(* What an operation of the patch store may do to the states.              *)
(***************************************************************************)
(* Only patches of K are forgotten, and no tombstone among them. *)
Forgets(d, e, K) ==
    \A m \in Patches : \/ e.state[m] = d.state[m]
                       \/ m \in K /\ ~IsBad(d, m) /\ e.state[m] = Unknown

(* Only n changes, to a tombstone. *)
Marks(d, e, n) ==
    /\ \A m \in Patches \ {n} : e.state[m] = d.state[m]
    /\ n \in Patches => IsBad(e, n)

(* The fallback stays, or is given up because there is nothing left of it. *)
LastKept(d, e) ==
    \/ e.ptr.last = d.ptr.last
    \/ e.ptr.last = None /\ ~IsInstalled(e, d.ptr.last) /\ ~IsBad(e, d.ptr.last)

LEMMA CleanSetForgets ==
    ASSUME NEW d \in Disks, NEW K
    PROVE  Forgets(d, CleanSet(d, K), K) /\ CleanSet(d, K).ptr = d.ptr
BY DEF Disks, CleanSet, Forgets

LEMMA RecomputeEffect ==
    ASSUME NEW d \in Disks
    PROVE  LET e == RecomputeNextBoot(d)
           IN  /\ e.state = d.state /\ e.ptr.booting = d.ptr.booting /\ LastKept(d, e)
               /\ e.ptr.next # None => IsInstalled(e, e.ptr.next)
BY DEF Disks, Pointers, RecomputeNextBoot, LastKept, IsInstalled, IsBad, IsKind

LEMMA CleanupCutsForget ==
    ASSUME NEW d \in Disks, NEW n \in Patches, NEW e \in CleanupCuts(d, n)
    PROVE  Forgets(d, e, {n}) /\ e.ptr = d.ptr
<1>1. PICK s \in {d.state[n], Cleanup(d, n).state[n]}, a \in {d.art[n], "absent"} :
        e = [d EXCEPT !.state[n] = s, !.art[n] = a]
  BY DEF CleanupCuts
<1>2. e.ptr = d.ptr /\ e.state = [d.state EXCEPT ![n] = s]
  BY <1>1 DEF Disks
<1>3. s = d.state[n] \/ (~IsBad(d, n) /\ s = Unknown)
  BY CleanSetForgets DEF Cleanup, Forgets
<1>4. d.state \in [Patches -> PatchStates]
  BY DEF Disks
<1>5. QED BY <1>2, <1>3, <1>4 DEF Forgets

LEMMA MarkBadMarks ==
    ASSUME NEW d \in Disks, NEW n \in Patches, NEW r \in BadReasons
    PROVE  /\ Marks(d, MarkBad(d, n, r), n) /\ MarkBad(d, n, r).ptr = d.ptr
           /\ \A e \in MarkBadCuts(d, n, r) : Marks(d, e, n) /\ e.ptr = d.ptr
<1> DEFINE w == WriteState(d, n, Bad(r))
<1>1. w \in Disks
  BY BadIsState, WriteStateType
<1>2. w.ptr = d.ptr /\ Marks(d, w, n)
  BY DEF WriteState, Disks, Marks, IsBad, IsKind, Bad
<1>3. ASSUME NEW e, Forgets(w, e, {n}) PROVE Marks(d, e, n)
  BY <1>2, <1>3 DEF Forgets, Marks, IsBad, IsKind
<1> HIDE DEF w
<1>4. Forgets(w, CleanSet(w, {n}), {n}) /\ CleanSet(w, {n}).ptr = w.ptr
  BY <1>1, CleanSetForgets
<1>5. Marks(d, MarkBad(d, n, r), n) /\ MarkBad(d, n, r).ptr = d.ptr
  BY <1>2, <1>3, <1>4 DEF MarkBad, Cleanup, w
<1>6. ASSUME NEW e \in CleanupCuts(w, n) PROVE Marks(d, e, n) /\ e.ptr = d.ptr
  BY <1>1, <1>2, <1>3, <1>6, CleanupCutsForget
<1>7. QED BY <1>5, <1>6 DEF MarkBadCuts, w

LEMMA MarkBadAndRecomputeMarks ==
    ASSUME NEW d \in Disks, NEW n \in Patches, NEW r \in BadReasons
    PROVE  LET e == MarkBadAndRecompute(d, n, r)
           IN  /\ Marks(d, e, n) /\ LastKept(d, e) /\ e.ptr.booting = d.ptr.booting
               /\ e.ptr.next # None => IsInstalled(e, e.ptr.next)
<1> DEFINE w == MarkBad(d, n, r)
<1>1. w \in Disks /\ Marks(d, w, n) /\ w.ptr = d.ptr
  BY MarkBadType, MarkBadMarks
<1> HIDE DEF w
<1>2. QED
  BY <1>1, RecomputeEffect DEF MarkBadAndRecompute, Marks, LastKept, IsBad, IsKind, w

LEMMA UninstallForgets ==
    ASSUME NEW d \in Disks, NEW K
    PROVE  /\ Forgets(d, Uninstall(d, K), K) /\ LastKept(d, Uninstall(d, K))
           /\ Uninstall(d, K).ptr.booting = d.ptr.booting
<1>1. CleanSet(d, K) \in Disks
  BY CleanSetType
<1>2. CASE K = {}
  BY <1>2 DEF Uninstall, Forgets, LastKept
<1>3. CASE K # {}
  <2> DEFINE c == CleanSet(d, K)  e == RecomputeNextBoot(c)
  <2>1. Forgets(d, c, K) /\ c.ptr = d.ptr
    BY CleanSetForgets
  <2>2. e.state = c.state /\ e.ptr.booting = c.ptr.booting /\ LastKept(c, e)
    BY <1>1, RecomputeEffect
  <2>3. Uninstall(d, K) = e
    BY <1>3 DEF Uninstall
  <2> HIDE DEF c, e
  <2>4. QED BY <2>1, <2>2, <2>3 DEF Forgets, LastKept
<1>4. QED BY <1>2, <1>3

LEMMA UninstallCutsForget ==
    ASSUME NEW d \in Disks, NEW K \in SUBSET Patches, NEW e \in UninstallCuts(d, K)
    PROVE  Forgets(d, e, K) /\ LastKept(d, e) /\ e.ptr.booting = d.ptr.booting
<1>1. PICK J \in SUBSET K, n \in K :
        e \in {Uninstall(d, J), Cleanup(Uninstall(d, J), n)} \cup CleanupCuts(Uninstall(d, J), n)
  BY DEF UninstallCuts
<1> DEFINE f == Uninstall(d, J)
<1>2. f \in Disks /\ Forgets(d, f, J) /\ LastKept(d, f) /\ f.ptr.booting = d.ptr.booting
  BY UninstallType, UninstallForgets
<1> HIDE DEF f
<1>3. e = f \/ (Forgets(f, e, {n}) /\ e.ptr = f.ptr)
  BY <1>1, <1>2, CleanSetForgets, CleanupCutsForget DEF Cleanup, f
<1>4. J \cup {n} \subseteq K /\ n \in Patches
  BY <1>1
<1>5. Forgets(d, e, K)
  BY <1>2, <1>3, <1>4 DEF Forgets, IsBad, IsKind
<1>6. LastKept(d, e)
  <2>1. /\ e.ptr = f.ptr
        /\ \A m : IsInstalled(e, m) => IsInstalled(f, m)
        /\ \A m : IsBad(e, m) => IsBad(f, m)
    BY <1>3 DEF Forgets, IsInstalled, IsBad, IsKind, Unknown
  <2>2. QED BY <1>2, <2>1 DEF LastKept
<1>7. e.ptr.booting = d.ptr.booting
  BY <1>2, <1>3
<1>8. QED BY <1>5, <1>6, <1>7

LEMMA BootFailureMarks ==
    ASSUME NEW d \in Disks, NEW n \in Patches
    PROVE  /\ Marks(d, RecordBootFailure(d, n), n) /\ LastKept(d, RecordBootFailure(d, n))
           /\ RecordBootFailure(d, n).ptr.booting = None
           /\ \A e \in RecordBootFailureCuts(d, n) :
                 Marks(d, e, n) /\ LastKept(d, e) /\ e.ptr.booting \in {d.ptr.booting, None}
<1> DEFINE c == BootCleared(d, n)
<1>0. "BootCrash" \in BadReasons
  BY DEF BadReasons
<1>1. c \in Disks /\ MarkBad(d, n, "BootCrash") \in Disks
  BY <1>0, BootFailureType, MarkBadType
<1>2. Marks(d, c, n) /\ LastKept(d, c) /\ c.ptr.booting = None
  <2>1. Marks(d, MarkBad(d, n, "BootCrash"), n) /\ MarkBad(d, n, "BootCrash").ptr = d.ptr
    BY <1>0, MarkBadMarks
  <2>2. /\ c.state = MarkBad(d, n, "BootCrash").state
        /\ c.ptr = [d.ptr EXCEPT !.booting = None]
    BY <1>1, <2>1 DEF BootCleared, Disks
  <2>3. QED BY <2>1, <2>2 DEF Marks, LastKept, IsBad, IsKind, Disks, Pointers
<1>3. Marks(d, RecordBootFailure(d, n), n) /\ LastKept(d, RecordBootFailure(d, n))
      /\ RecordBootFailure(d, n).ptr.booting = None
  <2> HIDE DEF c
  <2>1. LET e == RecomputeNextBoot(c)
        IN  e.state = c.state /\ e.ptr.booting = c.ptr.booting /\ LastKept(c, e)
    BY <1>1, RecomputeEffect
  <2>2. RecordBootFailure(d, n) = RecomputeNextBoot(c)
    BY DEF RecordBootFailure, c
  <2>3. QED BY <1>2, <2>1, <2>2 DEF Marks, LastKept, IsInstalled, IsBad, IsKind
<1>4. ASSUME NEW e \in RecordBootFailureCuts(d, n)
      PROVE  Marks(d, e, n) /\ LastKept(d, e) /\ e.ptr.booting \in {d.ptr.booting, None}
  BY <1>0, <1>2, <1>4, MarkBadMarks DEF RecordBootFailureCuts, LastKept
<1>5. QED BY <1>3, <1>4

LEMMA BootSuccessForgets ==
    ASSUME NEW d \in Disks, d.ptr.booting # None
    PROVE  LET b == d.ptr.booting  e == RecordBootSuccess(d)
           IN  /\ Forgets(d, e, OlderThan(b)) /\ e.ptr.last = b /\ e.ptr.booting = None
               /\ \A f \in RecordBootSuccessCuts(d) :
                     Forgets(d, f, OlderThan(b)) /\ f.ptr.last = b /\ f.ptr.booting = None
<1> DEFINE b == d.ptr.booting  k == BootedOk(d)
<1>1. k \in Disks /\ k.state = d.state /\ k.ptr.last = b /\ k.ptr.booting = None
  BY DEF BootedOk, Disks, Pointers, OptPatch
<1>2. b \in Patches
  BY PointerFields DEF OptPatch
<1> HIDE DEF k
<1>3. ASSUME NEW K \in SUBSET OlderThan(b)
      PROVE  /\ CleanSet(k, K) \in Disks /\ Forgets(d, CleanSet(k, K), OlderThan(b))
             /\ CleanSet(k, K).ptr = k.ptr
  BY <1>1, CleanSetType, CleanSetForgets DEF Forgets, IsBad, IsKind
<1>4. ASSUME NEW c \in Disks
      PROVE  CleanupOrphanDownloads(c).state = c.state /\ CleanupOrphanDownloads(c).ptr = c.ptr
  BY DEF CleanupOrphanDownloads, Disks
<1>5. LET e == RecordBootSuccess(d)
      IN  Forgets(d, e, OlderThan(b)) /\ e.ptr.last = b /\ e.ptr.booting = None
  BY <1>1, <1>3, <1>4 DEF RecordBootSuccess, CleanupOlderThan, Forgets, k
<1>6. ASSUME NEW K \in SUBSET OlderThan(b), NEW m \in OlderThan(b),
             NEW f \in CleanupCuts(CleanSet(k, K), m)
      PROVE  Forgets(d, f, OlderThan(b)) /\ f.ptr.last = b /\ f.ptr.booting = None
  <2> DEFINE c == CleanSet(k, K)
  <2>1. c \in Disks /\ Forgets(d, c, OlderThan(b)) /\ c.ptr = k.ptr
    BY <1>3
  <2> HIDE DEF c
  <2>2. Forgets(c, f, {m}) /\ f.ptr = c.ptr
    BY <1>6, <2>1, CleanupCutsForget DEF OlderThan, c
  <2>3. QED BY <1>1, <2>1, <2>2 DEF Forgets, IsBad, IsKind
<1>7. ASSUME NEW f \in RecordBootSuccessCuts(d)
      PROVE  Forgets(d, f, OlderThan(b)) /\ f.ptr.last = b /\ f.ptr.booting = None
  <2>1. CASE f = k
    BY <1>1, <2>1 DEF Forgets
  <2>2. CASE f = CleanSet(k, OlderThan(b))
    BY <1>1, <1>3, <2>2
  <2>3. CASE \E K \in SUBSET OlderThan(b), m \in OlderThan(b) : f \in CleanupCuts(CleanSet(k, K), m)
    BY <1>6, <2>3
  <2>4. QED BY <1>7, <2>1, <2>2, <2>3 DEF RecordBootSuccessCuts, CleanupOlderThanCuts, k
<1>8. QED BY <1>5, <1>7

LEMMA InstallEffect ==
    ASSUME NEW d \in Disks, NEW n \in Patches
    PROVE  \A e \in {Install(d, n)} \cup InstallCuts(d, n) :
              /\ IsInstalled(e, n)
              /\ \A m \in Patches \ {n} :
                    \/ e.state[m] = d.state[m]
                    \/ m # d.ptr.last /\ ~IsBad(d, m) /\ e.state[m] = Unknown
              /\ e.ptr.last = d.ptr.last /\ e.ptr.booting = d.ptr.booting
<1> DEFINE w == WriteState(d, n, Installed)
           i == RecordInstallComplete(d, n)
           D == Displaced(i, n)
           P(e) == /\ e.state[n] = Installed
                   /\ \A m \in Patches \ {n} :
                         \/ e.state[m] = d.state[m]
                         \/ m # d.ptr.last /\ ~IsBad(d, m) /\ e.state[m] = Unknown
                   /\ e.ptr.last = d.ptr.last /\ e.ptr.booting = d.ptr.booting
<1>1. w \in Disks /\ i \in Disks /\ w.ptr = d.ptr /\ i.ptr = d.ptr /\ i.state = w.state
  BY InstallType, WriteStateType DEF RecordInstallComplete, WriteState, Disks, PatchStates
<1>2. w.state = [d.state EXCEPT ![n] = Installed]
  BY DEF WriteState, Disks
<1>3. P(w) /\ P(i)
  BY <1>1, <1>2 DEF Disks
<1>4. n \notin D /\ d.ptr.last \notin D /\ D \subseteq Patches
  BY <1>1, PointerFields DEF Displaced, OptPatch
<1> HIDE DEF w, i, D
<1>5. ASSUME NEW e, Forgets(i, e, D), e.ptr = i.ptr PROVE P(e)
  <2>1. e.state[n] = Installed
    BY <1>3, <1>4, <1>5 DEF Forgets
  <2>2. \A m \in Patches \ {n} : i.state[m] = d.state[m] /\ (IsBad(i, m) <=> IsBad(d, m))
    BY <1>1, <1>2 DEF Disks, IsBad, IsKind
  <2>3. QED BY <1>1, <1>4, <1>5, <2>1, <2>2 DEF Forgets
<1>6. P(CleanSet(i, D)) /\ CleanSet(i, D) \in Disks
  BY <1>1, <1>5, CleanSetForgets, CleanSetType
<1>7. P(Install(d, n))
  <2>1. Install(d, n) = [CleanSet(i, D) EXCEPT !.ptr.next = n]
    BY DEF Install, PromoteToNextBoot, i, D
  <2>2. /\ Install(d, n).state = CleanSet(i, D).state
        /\ Install(d, n).ptr.last = CleanSet(i, D).ptr.last
        /\ Install(d, n).ptr.booting = CleanSet(i, D).ptr.booting
    BY <1>6, <2>1 DEF Disks, Pointers
  <2>3. QED BY <1>6, <2>2
<1>8. ASSUME NEW e \in InstallCuts(d, n) PROVE P(e)
  <2>1. CASE e \in {w, i, CleanSet(i, D)}
    BY <1>3, <1>6, <2>1
  <2>2. ASSUME NEW m \in D, e \in CleanupCuts(i, m) PROVE P(e)
    <3>1. Forgets(i, e, {m}) /\ e.ptr = i.ptr
      BY <1>1, <1>4, <2>2, CleanupCutsForget
    <3>2. Forgets(i, e, D)
      BY <2>2, <3>1 DEF Forgets
    <3>3. QED BY <1>5, <3>1, <3>2
  <2>3. QED BY <1>8, <2>1, <2>2 DEF InstallCuts, w, i, D
<1>9. \A e : P(e) => IsInstalled(e, n)
  BY DEF IsInstalled, IsKind, Installed
<1>10. QED BY <1>7, <1>8, <1>9

-----------------------------------------------------------------------------
(***************************************************************************)
(* A disk a step may leave: no tombstone is lost, and the fallback, unless *)
(* rolled back, is still there.                                            *)
(***************************************************************************)
Safe(e) ==
    /\ \A m \in Patches : IsBad(disk, m) => IsBad(e, m)
    /\ e.ptr.last \in Patches \ server.rolled => IsInstalled(e, e.ptr.last) \/ IsBad(e, e.ptr.last)

IInv == TypeInv /\ SerialInv

LEMMA ForgetsSafe ==
    ASSUME IInv, NEW e, NEW K \in SUBSET server.rolled, Forgets(disk, e, K), LastKept(disk, e)
    PROVE  Safe(e)
BY NoneAssumption DEF IInv, SerialInv, FallbackSettled, Safe, Forgets, LastKept, IsBad, IsInstalled, IsKind

LEMMA MarksSafe ==
    ASSUME IInv, NEW e, NEW n \in Patches, Marks(disk, e, n), LastKept(disk, e)
    PROVE  Safe(e)
BY NoneAssumption DEF IInv, SerialInv, FallbackSettled, Safe, Marks, LastKept, IsBad, IsInstalled, IsKind

(* States and pointers as they were: only files changed. *)
LEMMA FilesOnlySafe ==
    ASSUME IInv, NEW e, e.state = disk.state, e.ptr = disk.ptr
    PROVE  Safe(e)
BY DEF IInv, SerialInv, FallbackSettled, Safe, IsBad, IsInstalled, IsKind

LEMMA SuccessSafe ==
    ASSUME IInv, eng.pc = "launching", disk.ptr.booting # None
    PROVE  \A e \in {RecordBootSuccess(disk)} \cup RecordBootSuccessCuts(disk) : Safe(e)
<1> DEFINE b == disk.ptr.booting
<1>1. disk \in Disks /\ IsInstalled(disk, b) /\ b \in Patches
  BY DEF IInv, SerialInv, BootMarker, TypeInv, TypeOK, IsInstalled, IsKind
<1>2. b \notin OlderThan(b)
  <2>1. ASSUME NEW m \in Nat PROVE ~(m < m)
    OBVIOUS
  <2>2. QED BY <1>1, <2>1, PatchesAssumption DEF OlderThan
<1>3. ASSUME NEW e, Forgets(disk, e, OlderThan(b)), e.ptr.last = b PROVE Safe(e)
  <2>1. IsInstalled(e, b)
    BY <1>1, <1>2, <1>3 DEF Forgets, IsInstalled, IsKind
  <2>2. \A m \in Patches : IsBad(disk, m) => IsBad(e, m)
    BY <1>3 DEF Forgets, IsBad, IsKind
  <2>3. QED BY <1>3, <2>1, <2>2 DEF Safe
<1>4. QED BY <1>1, <1>3, BootSuccessForgets

LEMMA InstallSafe ==
    ASSUME IInv, NEW n \in Patches, CanCompleteInstall(disk, n)
    PROVE  \A e \in {Install(disk, n)} \cup InstallCuts(disk, n) : Safe(e)
<1> SUFFICES ASSUME NEW e \in {Install(disk, n)} \cup InstallCuts(disk, n) PROVE Safe(e)
  OBVIOUS
<1>1. disk \in Disks /\ ~IsBad(disk, n)
  BY DEF IInv, TypeInv, TypeOK, CanCompleteInstall, IsBad, IsKind
<1>2. /\ IsInstalled(e, n)
      /\ \A m \in Patches \ {n} :
            \/ e.state[m] = disk.state[m]
            \/ m # disk.ptr.last /\ ~IsBad(disk, m) /\ e.state[m] = Unknown
      /\ e.ptr.last = disk.ptr.last
  BY <1>1, InstallEffect
<1>3. \A m \in Patches : IsBad(disk, m) => IsBad(e, m)
  BY <1>1, <1>2 DEF IsBad, IsKind
<1>4. disk.ptr.last \in Patches \ server.rolled
        => IsInstalled(e, disk.ptr.last) \/ IsBad(e, disk.ptr.last)
  BY <1>2 DEF IInv, SerialInv, FallbackSettled, IsInstalled, IsBad, IsKind
<1>5. QED BY <1>2, <1>3, <1>4 DEF Safe

LEMMA CutsSafe == ASSUME IInv PROVE \A e \in Cuts : Safe(e)
<1>0. /\ disk \in Disks /\ chk \in SUBSET Patches /\ chk \subseteq server.rolled /\ CallersOK
      /\ disk.ptr.next \in OptPatch /\ disk.ptr.booting \in OptPatch
  BY PointerFields DEF IInv, SerialInv, UpdatesAfterBoot, TypeInv, TypeOK
<1>1. ASSUME NEW e \in EngineCuts PROVE Safe(e)
  <2>1. ASSUME e \in ValidateNextBootCuts(disk) PROVE Safe(e)
    <3>1. disk.ptr.next \in Patches /\ e \in MarkBadCuts(disk, disk.ptr.next, "ValidationFailed")
      BY <1>0, <2>1 DEF ValidateNextBootCuts, OptPatch
    <3>2. Marks(disk, e, disk.ptr.next) /\ LastKept(disk, e)
      BY <1>0, <3>1, MarkBadMarks DEF BadReasons, LastKept
    <3>3. QED BY <3>1, <3>2, MarksSafe
  <2>2. ASSUME disk.ptr.booting # None, e \in RecordBootFailureCuts(disk, disk.ptr.booting)
        PROVE  Safe(e)
    BY <1>0, <2>2, BootFailureMarks, MarksSafe DEF OptPatch
  <2>3. QED BY <1>1, <2>1, <2>2, SuccessSafe DEF EngineCuts
<1>2. ASSUME NEW e \in UninstallCuts(disk, chk) PROVE Safe(e)
  BY <1>0, <1>2, UninstallCutsForget, ForgetsSafe
<1>3. ASSUME NEW u \in Updaters, NEW e \in UpdateCuts(u) PROVE Safe(e)
  <2> DEFINE n == upd[u].patch
  <2>1. /\ upd[u].rolled \in SUBSET Patches
        /\ upd[u].pc # "idle" => upd[u].rolled \subseteq server.rolled
        /\ upd[u].pc \notin {"idle", "rollback"} => n \in Patches
    BY <1>0 DEF CallersOK, Callers, IInv, SerialInv, UpdatesAfterBoot
  <2>2. CASE upd[u].pc = "rollback"
    <3>1. e \in UninstallCuts(disk, upd[u].rolled)
      BY <1>3, <2>2 DEF UpdateCuts
    <3>2. QED BY <1>0, <2>1, <2>2, <3>1, UninstallCutsForget, ForgetsSafe
  <2>3. CASE upd[u].pc = "mismatch"
    <3>1. e \in UninstallCuts(disk, {n}) /\ n \in Patches
      BY <1>3, <2>1, <2>3 DEF UpdateCuts
    <3>2. Forgets(disk, e, {n}) /\ LastKept(disk, e)
      BY <1>0, <3>1, UninstallCutsForget
    <3>3. ~IsInstalled(disk, n) /\ ~IsBad(disk, n)
      BY <2>3 DEF IInv, SerialInv, UpdatesAfterBoot, Working
    <3>4. QED
      BY <3>1, <3>2, <3>3, NoneAssumption
      DEF IInv, SerialInv, FallbackSettled, Safe, Forgets, LastKept, IsBad, IsInstalled, IsKind
  <2>4. CASE upd[u].pc \in {"bad_bytes", "bad_hash"}
    <3>1. e \in MarkBadCuts(disk, n, Reason(upd[u].pc)) /\ n \in Patches
      BY <1>3, <2>1, <2>4 DEF UpdateCuts
    <3>2. Marks(disk, e, n) /\ LastKept(disk, e)
      BY <1>0, <3>1, MarkBadMarks DEF Reason, BadReasons, LastKept
    <3>3. QED BY <3>1, <3>2, MarksSafe
  <2>5. CASE upd[u].pc = "install"
    <3>1. n \in Patches /\ CanCompleteInstall(disk, n) /\ e \in InstallCuts(disk, n)
      BY <1>3, <2>1, <2>5 DEF UpdateCuts
    <3>2. QED BY <3>1, InstallSafe
  <2>6. QED BY <1>3, <2>2, <2>3, <2>4, <2>5 DEF UpdateCuts
<1>4. QED BY <1>1, <1>2, <1>3 DEF Cuts

(* One step of update() for the patch it works on: what it does to states  *)
(* and pointers, besides leaving a safe disk.                              *)
LEMMA UpdateStepSafe ==
    ASSUME IInv, NEW u \in Updaters, UpdateStep(u)
    PROVE  Safe(disk') /\ disk'.ptr.booting = disk.ptr.booting
<1> DEFINE n == upd[u].patch
<1>0. /\ disk \in Disks /\ CallersOK
      /\ upd[u].pc # "idle" => upd[u].rolled \subseteq server.rolled
      /\ upd[u].pc \notin {"idle", "rollback"} => n \in Patches
      /\ Working(u) => ~IsInstalled(disk, n) /\ ~IsBad(disk, n)
  BY DEF IInv, SerialInv, UpdatesAfterBoot, TypeInv, TypeOK, CallersOK
<1>a. ASSUME disk'.state = disk.state, disk'.ptr = disk.ptr
      PROVE  Safe(disk') /\ disk'.ptr.booting = disk.ptr.booting
  BY <1>a, FilesOnlySafe
<1>b. ASSUME NEW content PROVE Received(u, content).state = disk.state
                            /\ Received(u, content).ptr = disk.ptr
  BY <1>0 DEF Received, Disks
<1>c. ASSUME n \in Patches, ~IsInstalled(disk, n), ~IsBad(disk, n), disk'.ptr = disk.ptr,
             \A m \in Patches \ {n} : disk'.state[m] = disk.state[m]
      PROVE  Safe(disk') /\ disk'.ptr.booting = disk.ptr.booting
  BY <1>c DEF IInv, SerialInv, FallbackSettled, Safe, IsBad, IsInstalled, IsKind
<1>1. CASE ApplyRollbacks(u)
  BY <1>0, <1>1, UninstallForgets, ForgetsSafe DEF ApplyRollbacks
<1>2. CASE RecordStarted(u) \/ RecordComplete(u)
  <2>1. Working(u) /\ n \in Patches
    BY <1>0, <1>2 DEF RecordStarted, RecordComplete, Working
  <2>2. \A s : /\ WriteState(disk, n, s).ptr = disk.ptr
               /\ \A m \in Patches \ {n} : WriteState(disk, n, s).state[m] = disk.state[m]
    BY <1>0 DEF WriteState, Disks
  <2>3. disk' = disk \/ \E s : disk' = WriteState(disk, n, s)
    BY <1>2 DEF RecordStarted, RecordComplete, RecordDownloadStarted, RecordDownloadComplete
  <2>4. QED BY <1>0, <1>a, <1>c, <2>1, <2>2, <2>3
<1>3. CASE OpenDownload(u) \/ InflateBegin(u) \/ InflateEnd(u)
  <2>1. disk'.state = disk.state /\ disk'.ptr = disk.ptr
    BY <1>0, <1>3 DEF OpenDownload, InflateBegin, InflateEnd, Disks
  <2>2. QED BY <1>a, <2>1
<1>4. CASE ReceiveSome(u) \/ ReceiveRest(u) \/ \E c \in {"full", "corrupt"} : ReceiveWhole(u, c)
  BY <1>4, <1>a, <1>b DEF ReceiveSome, ReceiveRest, ReceiveWhole
<1>5. CASE \/ PlanDownload(u) \/ ReceiveFails(u) \/ BaseMissing(u)
           \/ \E p \in Offered \cup {None} : CheckForPatch(u, p)
  BY <1>5, <1>a DEF PlanDownload, ReceiveFails, BaseMissing, CheckForPatch
<1>6. CASE SizeMismatch(u)
  <2>1. n \in Patches /\ ~IsInstalled(disk, n) /\ ~IsBad(disk, n) /\ disk' = Uninstall(disk, {n})
    BY <1>0, <1>6 DEF SizeMismatch, Working
  <2>2. /\ Forgets(disk, disk', {n}) /\ LastKept(disk, disk')
        /\ disk'.ptr.booting = disk.ptr.booting
    BY <1>0, <2>1, UninstallForgets
  <2>3. QED
    BY <2>1, <2>2, NoneAssumption
    DEF IInv, SerialInv, FallbackSettled, Safe, Forgets, LastKept, IsBad, IsInstalled, IsKind
<1>7. CASE RejectPatch(u)
  <2>1. /\ n \in Patches /\ disk' = MarkBadAndRecompute(disk, n, Reason(upd[u].pc))
        /\ Reason(upd[u].pc) \in BadReasons
    BY <1>0, <1>7 DEF RejectPatch, Reason, BadReasons
  <2>2. QED BY <1>0, <2>1, MarkBadAndRecomputeMarks, MarksSafe
<1>8. CASE InstallPatch(u)
  <2>1. n \in Patches
    BY <1>0, <1>8 DEF InstallPatch
  <2>2. CASE disk' = disk
    BY <1>a, <2>2
  <2>3. CASE CanCompleteInstall(disk, n) /\ disk' = Install(disk, n)
    BY <1>0, <2>1, <2>3, InstallSafe, InstallEffect
  <2>4. QED BY <1>8, <2>2, <2>3 DEF InstallPatch
<1>9. QED BY <1>1, <1>2, <1>3, <1>4, <1>5, <1>6, <1>7, <1>8 DEF UpdateStep

LEMMA EngineStepSafe ==
    ASSUME IInv, EngineStep
    PROVE  /\ Safe(disk')
           /\ disk'.ptr.booting # None =>
                 eng'.pc = "launching" /\ IsInstalled(disk', disk'.ptr.booting)
           /\ eng'.pc = "validated" /\ disk'.ptr.next # None => IsInstalled(disk', disk'.ptr.next)
<1>0. /\ disk \in Disks /\ disk.ptr.next \in OptPatch /\ disk.ptr.booting \in OptPatch
      /\ eng \in [pc : EnginePcs, run : OptPatch]
      /\ disk.ptr.booting # None =>
            eng.pc = "down" \/ (eng.pc = "launching" /\ IsInstalled(disk, disk.ptr.booting))
      /\ Safe(disk)
  BY PointerFields DEF IInv, SerialInv, BootMarker, FallbackSettled, TypeInv, TypeOK, Safe
<1>1. CASE Start
  <2>1. eng'.pc = "up" /\ disk' = DetectBootCrash(disk)
    BY <1>1 DEF Start
  <2>2. CASE disk.ptr.booting = None
    BY <1>0, <2>1, <2>2 DEF DetectBootCrash
  <2>3. CASE disk.ptr.booting # None
    BY <1>0, <2>1, <2>3, BootFailureMarks, MarksSafe DEF DetectBootCrash, OptPatch
  <2>4. QED BY <2>2, <2>3
<1>2. CASE ValidateNextBootPatch
  <2>1. disk' = ValidateNextBoot(disk) /\ disk.ptr.booting = None
    BY <1>0, <1>2 DEF ValidateNextBootPatch
  <2>2. CASE disk.ptr.next = None \/ Bootable(disk, disk.ptr.next)
    BY <1>0, <2>1, <2>2 DEF ValidateNextBoot, Bootable
  <2>3. CASE ~(disk.ptr.next = None \/ Bootable(disk, disk.ptr.next))
    <3>1. /\ disk' = MarkBadAndRecompute(disk, disk.ptr.next, "ValidationFailed")
          /\ disk.ptr.next \in Patches
      BY <1>0, <2>1, <2>3 DEF ValidateNextBoot, OptPatch
    <3>2. QED BY <1>0, <2>1, <3>1, MarkBadAndRecomputeMarks, MarksSafe DEF BadReasons
  <2>4. QED BY <2>2, <2>3
<1>3. CASE ReportLaunchStart
  <2>1. eng'.pc = "launching" /\ disk.ptr.booting = None
    BY <1>0, <1>3 DEF ReportLaunchStart
  <2>2. CASE CanRecordBootStart(disk, disk.ptr.next)
    <3>1. disk' = RecordBootStart(disk, disk.ptr.next) /\ IsInstalled(disk, disk.ptr.next)
      BY <1>3, <2>2 DEF ReportLaunchStart, CanRecordBootStart
    <3>2. /\ disk'.state = disk.state /\ disk'.ptr.last = disk.ptr.last
          /\ disk'.ptr.booting = disk.ptr.next
      BY <1>0, <3>1 DEF RecordBootStart, Disks, Pointers
    <3>3. QED BY <1>0, <2>1, <3>1, <3>2 DEF Safe, IsInstalled, IsBad, IsKind
  <2>3. CASE ~CanRecordBootStart(disk, disk.ptr.next)
    BY <1>0, <1>3, <2>1, <2>3 DEF ReportLaunchStart
  <2>4. QED BY <2>2, <2>3
<1>4. CASE ReportLaunchSuccess
  <2>1. eng.pc = "launching" /\ eng'.pc = "running"
    BY <1>0, <1>4 DEF ReportLaunchSuccess
  <2>2. CASE disk.ptr.booting = None
    BY <1>0, <1>4, <2>1, <2>2 DEF ReportLaunchSuccess
  <2>3. CASE disk.ptr.booting # None
    BY <1>0, <1>4, <2>1, <2>3, SuccessSafe, BootSuccessForgets DEF ReportLaunchSuccess
  <2>4. QED BY <2>2, <2>3
<1>5. CASE ReportLaunchFailure
  <2>1. eng.pc = "launching" /\ eng'.pc = "failed"
    BY <1>0, <1>5 DEF ReportLaunchFailure
  <2>2. CASE disk.ptr.booting = None
    BY <1>0, <1>5, <2>1, <2>2 DEF ReportLaunchFailure
  <2>3. CASE disk.ptr.booting # None
    BY <1>0, <1>5, <2>1, <2>3, BootFailureMarks, MarksSafe DEF ReportLaunchFailure, OptPatch
  <2>4. QED BY <2>2, <2>3
<1>6. QED BY <1>1, <1>2, <1>3, <1>4, <1>5 DEF EngineStep

-----------------------------------------------------------------------------
(***************************************************************************)
(* Who is working on what.                                                 *)
(***************************************************************************)
(* Where u is after its step, and what it works on: decide_start has       *)
(* turned every Installed and every Bad patch away.                        *)
LEMMA UpdateStepWorks ==
    ASSUME IInv, NEW u \in Updaters, UpdateStep(u)
    PROVE  /\ upd' \in [Updaters -> Callers] /\ \A v \in Updaters \ {u} : upd'[v] = upd[v]
           /\ upd[u].pc # "idle" \/ (MayUpdate /\ Lock)
           /\ upd'[u].pc # "idle" => upd'[u].rolled \subseteq server.rolled
           /\ upd'[u].pc \notin {"idle", "rollback", "decide"} =>
                 ~IsInstalled(disk', upd'[u].patch) /\ ~IsBad(disk', upd'[u].patch)
<1> DEFINE n == upd[u].patch
           W == upd'[u].pc \notin {"idle", "rollback", "decide"} =>
                   ~IsInstalled(disk', upd'[u].patch) /\ ~IsBad(disk', upd'[u].patch)
           R == upd'[u].pc # "idle" => upd'[u].rolled \subseteq server.rolled
<1>0. /\ disk \in Disks /\ CallersOK /\ upd \in [Updaters -> Callers]
      /\ upd[u].pc # "idle" => upd[u].rolled \subseteq server.rolled
      /\ upd[u].pc \notin {"idle", "rollback"} => n \in Patches
      /\ Working(u) => ~IsInstalled(disk, n) /\ ~IsBad(disk, n)
  BY DEF IInv, SerialInv, UpdatesAfterBoot, TypeInv, TypeOK, CallersOK
<1>1. upd' \in [Updaters -> Callers]
  BY UpdateStepCallers DEF IInv, CallersOK
<1>a. ASSUME NEW pc \in UpdatePcs, Goto(u, pc)
      PROVE  /\ upd'[u].pc = pc /\ upd'[u].patch = n /\ upd'[u].rolled = upd[u].rolled
             /\ \A v \in Updaters \ {u} : upd'[v] = upd[v]
  BY <1>0, <1>a DEF Goto, Callers
<1>b. ASSUME Return(u)
      PROVE  upd'[u].pc = "idle" /\ \A v \in Updaters \ {u} : upd'[v] = upd[v]
  BY <1>0, <1>b DEF Return, Idle
<1> DEFINE Others == \A v \in Updaters \ {u} : upd'[v] = upd[v]
           Goal == Others /\ W /\ R /\ (upd[u].pc # "idle" \/ (MayUpdate /\ Lock))
<1> SUFFICES Goal
  BY <1>1
<1>c. ASSUME Return(u), upd[u].pc # "idle" PROVE Goal
  BY <1>b, <1>c
<1>d. ASSUME NEW pc \in UpdatePcs, Goto(u, pc), upd[u].pc # "idle",
             pc \in {"idle", "rollback", "decide"}
                \/ (~IsInstalled(disk', n) /\ ~IsBad(disk', n))
      PROVE  Goal
  BY <1>0, <1>a, <1>d
<1>e. ASSUME NEW pc \in UpdatePcs, Goto(u, pc), Working(u), disk'.state = disk.state PROVE Goal
  <2>1. upd[u].pc # "idle" /\ ~IsInstalled(disk', n) /\ ~IsBad(disk', n)
    BY <1>0, <1>e DEF Working, IsInstalled, IsBad, IsKind
  <2>2. QED BY <1>e, <1>d, <2>1
<1>f. ASSUME NEW c PROVE Received(u, c).state = disk.state
  BY <1>0 DEF Received, Disks
<1>2. ASSUME NEW p \in Offered \cup {None}, CheckForPatch(u, p) PROVE Goal
  <2>1. PICK url \in Urls :
          upd' = [upd EXCEPT ![u] = [pc |-> "rollback", patch |-> p,
                                     url |-> IF p = None THEN None ELSE url,
                                     rolled |-> server.rolled]]
    BY <1>2 DEF CheckForPatch
  <2>2. upd'[u].pc = "rollback" /\ upd'[u].rolled = server.rolled /\ Others
    BY <1>0, <2>1
  <2>3. QED BY <1>2, <2>2 DEF CheckForPatch
<1>3. CASE ReceiveSome(u)
  <2>1. upd' = upd /\ Working(u) /\ disk'.state = disk.state
    BY <1>3, <1>f DEF ReceiveSome, WholeBody, RestOfBody, Working
  <2>2. QED BY <1>0, <2>1 DEF Working, IsInstalled, IsBad, IsKind
<1> HIDE DEF Goal
<1>4. CASE ApplyRollbacks(u)
  <2>1. upd[u].pc # "idle" /\ (Return(u) \/ Goto(u, "decide"))
    BY <1>4 DEF ApplyRollbacks
  <2>2. QED BY <1>c, <1>d, <2>1 DEF UpdatePcs
<1>5. CASE PlanDownload(u)
  <2>1. upd[u].pc = "decide" /\ n \in Patches /\ disk' = disk
    BY <1>0, <1>5 DEF PlanDownload
  <2>2. IsBad(disk, n) => DecideStart(disk, n, upd[u].url) = "KnownBad"
    BY DEF DecideStart, IsBad, IsKind
  <2>3. IsInstalled(disk, n) => DecideStart(disk, n, upd[u].url) = "AlreadyInstalled"
    BY DEF DecideStart, IsInstalled, IsKind
  <2>4. \/ Return(u)
        \/ /\ \E pc \in {"inflate", "record_fresh", "record_resume"} : Goto(u, pc)
           /\ DecideStart(disk, n, upd[u].url) \notin {"KnownBad", "AlreadyInstalled"}
    BY <1>5 DEF PlanDownload
  <2>5. QED BY <1>c, <1>d, <2>1, <2>2, <2>3, <2>4 DEF UpdatePcs
<1>6. CASE RecordStarted(u)
  <2>1. upd[u].pc # "idle" /\ n \in Patches
    BY <1>0, <1>6 DEF RecordStarted
  <2>2. disk'.state = [disk.state EXCEPT ![n] = Downloading(upd[u].url)]
    BY <1>0, <1>6 DEF RecordStarted, RecordDownloadStarted, WriteState, Disks
  <2>3. disk'.state[n].kind = "Downloading"
    BY <1>0, <2>1, <2>2 DEF Disks, Downloading
  <2>4. \E pc \in {"open_fresh", "open_resume"} : Goto(u, pc)
    BY <1>6 DEF RecordStarted
  <2>5. QED BY <1>d, <2>1, <2>3, <2>4 DEF UpdatePcs, IsInstalled, IsBad, IsKind
<1>7. CASE OpenDownload(u)
  <2>1. Working(u) /\ disk'.state = disk.state
    BY <1>0, <1>7 DEF OpenDownload, Working, Disks
  <2>2. \E pc \in {"receive_fresh", "receive_resume"} : Goto(u, pc)
    BY <1>7 DEF OpenDownload
  <2>3. QED BY <1>e, <2>1, <2>2 DEF UpdatePcs
<1>8. ASSUME NEW c, ReceiveWhole(u, c) PROVE Goal
  <2>1. Working(u) /\ disk'.state = disk.state /\ Goto(u, "record_complete")
    BY <1>8, <1>f DEF ReceiveWhole, WholeBody, Working
  <2>2. QED BY <1>e, <2>1 DEF UpdatePcs
<1>9. CASE ReceiveRest(u)
  <2>1. Working(u) /\ disk'.state = disk.state
    BY <1>9, <1>f DEF ReceiveRest, RestOfBody, Working
  <2>2. \E pc \in {"mismatch", "record_complete"} : Goto(u, pc)
    BY <1>9 DEF ReceiveRest
  <2>3. QED BY <1>e, <2>1, <2>2 DEF UpdatePcs
<1>10. CASE ReceiveFails(u) \/ SizeMismatch(u) \/ BaseMissing(u) \/ RejectPatch(u) \/ InstallPatch(u)
  BY <1>10, <1>c DEF ReceiveFails, SizeMismatch, BaseMissing, RejectPatch, InstallPatch
<1>11. CASE RecordComplete(u)
  <2>1. n \in Patches /\ upd[u].pc # "idle"
    BY <1>0, <1>11 DEF RecordComplete
  <2>2. CASE CanCompleteDownload(disk, n)
    <3>1. Goto(u, "inflate") /\ disk'.state = [disk.state EXCEPT ![n] = Downloaded(disk.state[n].url)]
      BY <1>0, <1>11, <2>2 DEF RecordComplete, RecordDownloadComplete, WriteState, Disks
    <3>2. disk'.state[n].kind = "Downloaded"
      BY <1>0, <2>1, <3>1 DEF Disks, Downloaded
    <3>3. QED BY <1>d, <2>1, <3>1, <3>2 DEF UpdatePcs, IsInstalled, IsBad, IsKind
  <2>3. CASE ~CanCompleteDownload(disk, n)
    BY <1>11, <1>c, <2>1, <2>3 DEF RecordComplete
  <2>4. QED BY <2>2, <2>3
<1>12. CASE InflateBegin(u)
  <2>1. Working(u) /\ disk'.state = disk.state
    BY <1>0, <1>12 DEF InflateBegin, Working, Disks
  <2>2. \E pc \in {"bad_bytes", "check_full", "check_bad"} : Goto(u, pc)
    BY <1>12 DEF InflateBegin
  <2>3. QED BY <1>e, <2>1, <2>2 DEF UpdatePcs
<1>13. CASE InflateEnd(u)
  <2>1. Working(u) /\ disk'.state = disk.state
    BY <1>0, <1>13 DEF InflateEnd, Working, Disks
  <2>2. \E pc \in {"bad_bytes", "bad_hash", "install"} : Goto(u, pc)
    BY <1>13 DEF InflateEnd
  <2>3. QED BY <1>e, <2>1, <2>2 DEF UpdatePcs
<1>14. QED
  BY <1>2, <1>3, <1>4, <1>5, <1>6, <1>7, <1>8, <1>9, <1>10, <1>11, <1>12, <1>13 DEF UpdateStep

-----------------------------------------------------------------------------
(***************************************************************************)
(* SerialInv is inductive when updates start only after the boot.          *)
(***************************************************************************)
LEMMA InitSerial == Init => IInv
<1> SUFFICES ASSUME Init PROVE IInv
  OBVIOUS
<1>1. TypeInv
  BY InitType
<1>2. \A u \in Updaters : upd[u].pc = "idle"
  BY DEF Init, Idle
<1>3. disk.ptr = [next |-> None, last |-> None, booting |-> None] /\ chk = {} /\ eng.pc = "down"
  BY DEF Init, EmptyDisk, Down
<1>4. QED
  BY <1>1, <1>2, <1>3, NoneAssumption DEF IInv, SerialInv, UpdatesAfterBoot, OneUpdate, BootMarker, FallbackSettled,
     ValidatedNextInstalled, Working

(* The server never takes a rollback back. *)
LEMMA RolledGrows == ASSUME IInv, [Next]_vars PROVE server.rolled \subseteq server'.rolled
<1>1. server.pub \subseteq Patches /\ server \in [pub : SUBSET Patches, rolled : SUBSET Patches]
  BY DEF IInv, TypeInv, TypeOK
<1>2. CASE UNCHANGED server
  BY <1>2
<1>3. ASSUME NEW n \in Patches, Publish(n) \/ RollBack(n)
      PROVE  server.rolled \subseteq server'.rolled
  BY <1>1, <1>3 DEF Publish, RollBack
<1>4. EngineStep => UNCHANGED server
  BY DEF EngineStep, Start, ValidateNextBootPatch, ReportLaunchStart, ReportLaunchSuccess,
         ReportLaunchFailure
<1>5. (\E u \in Updaters : UpdateStep(u)) => UNCHANGED server
  BY UpdateStepFrame
<1>6. QED
  BY <1>2, <1>3, <1>4, <1>5
  DEF Next, vars, DamageArtifact, LoseDownload, CheckAsk, CheckApplyRollbacks, Kill, KillInInit

LEMMA StepSafe == ASSUME IInv, [Next]_vars PROVE Safe(disk')
<1>0. disk \in Disks /\ Safe(disk) /\ chk \subseteq server.rolled
  BY FilesOnlySafe DEF IInv, SerialInv, UpdatesAfterBoot, TypeInv, TypeOK
<1>1. CASE disk' = disk
  BY <1>0, <1>1
<1>2. ASSUME NEW n \in Patches, DamageArtifact(n) \/ LoseDownload(n) PROVE Safe(disk')
  <2>1. disk'.state = disk.state /\ disk'.ptr = disk.ptr
    BY <1>0, <1>2 DEF DamageArtifact, LoseDownload, Disks
  <2>2. QED BY <2>1, FilesOnlySafe
<1>3. CASE EngineStep
  BY <1>3, EngineStepSafe
<1>4. CASE \E u \in Updaters : UpdateStep(u)
  BY <1>4, UpdateStepSafe
<1>5. CASE CheckApplyRollbacks
  BY <1>0, <1>5, UninstallForgets, ForgetsSafe DEF CheckApplyRollbacks
<1>6. CASE Kill
  BY <1>0, <1>6, CutsSafe DEF Kill
<1>7. CASE KillInInit
  <2>1. disk.ptr.booting \in Patches /\ disk' \in RecordBootFailureCuts(disk, disk.ptr.booting)
    BY <1>0, <1>7, PointerFields DEF KillInInit, DetectBootCrashCuts, OptPatch
  <2>2. QED BY <1>0, <2>1, BootFailureMarks, MarksSafe
<1>8. QED
  BY <1>1, <1>2, <1>3, <1>4, <1>5, <1>6, <1>7 DEF Next, vars, Publish, RollBack, CheckAsk

LEMMA FallbackStep == ASSUME IInv, [Next]_vars PROVE FallbackSettled'
BY StepSafe, RolledGrows DEF Safe, FallbackSettled, IsInstalled, IsBad, IsKind

(* Without updates there is nothing to say of the callers. *)
LEMMA NoUpdates ==
    ASSUME \A u \in Updaters : upd'[u].pc = "idle", chk' = {}
    PROVE  UpdatesAfterBoot' /\ OneUpdate'
BY DEF UpdatesAfterBoot, OneUpdate, Working

LEMMA UpdateStepSerial ==
    ASSUME ConcurrentBoot = FALSE, IInv, NEW u \in Updaters, UpdateStep(u)
    PROVE  UpdatesAfterBoot' /\ OneUpdate' /\ BootMarker' /\ ValidatedNextInstalled'
<1>0. /\ upd' \in [Updaters -> Callers] /\ \A v \in Updaters \ {u} : upd'[v] = upd[v]
      /\ upd[u].pc # "idle" \/ (MayUpdate /\ Lock)
      /\ upd'[u].pc # "idle" => upd'[u].rolled \subseteq server.rolled
      /\ upd'[u].pc \notin {"idle", "rollback", "decide"} =>
            ~IsInstalled(disk', upd'[u].patch) /\ ~IsBad(disk', upd'[u].patch)
  BY UpdateStepWorks
<1>1. UNCHANGED <<eng, chk, server>>
  BY UpdateStepFrame
<1>2. BootsAreOver /\ BootsAreOver'
  BY <1>0, <1>1 DEF IInv, SerialInv, UpdatesAfterBoot, MayUpdate, BootsAreOver
<1>3. \A v \in Updaters \ {u} : upd'[v].pc = "idle"
  BY <1>0 DEF IInv, SerialInv, OneUpdate, Lock
<1>4. OneUpdate'
  BY <1>3 DEF OneUpdate
<1>5. UpdatesAfterBoot'
  <2>1. chk' \subseteq server'.rolled
    BY <1>1 DEF IInv, SerialInv, UpdatesAfterBoot
  <2>2. QED BY <1>0, <1>1, <1>2, <1>3, <2>1 DEF UpdatesAfterBoot, Working
<1>6. disk'.ptr.booting = None
  BY <1>2, UpdateStepSafe DEF IInv, SerialInv, BootMarker, BootsAreOver
<1>7. QED BY <1>2, <1>4, <1>5, <1>6 DEF BootMarker, ValidatedNextInstalled, BootsAreOver

LEMMA SerialStep == ASSUME ConcurrentBoot = FALSE, IInv, [Next]_vars PROVE IInv'
<1> DEFINE Goal == UpdatesAfterBoot' /\ OneUpdate' /\ BootMarker' /\ ValidatedNextInstalled'
<1> SUFFICES Goal
  BY StepType, FallbackStep DEF IInv, SerialInv
<1>0. /\ disk \in Disks /\ SerialInv /\ server.rolled \subseteq server'.rolled
      /\ UpdatesAfterBoot /\ OneUpdate /\ BootMarker /\ ValidatedNextInstalled
  BY RolledGrows DEF IInv, SerialInv, TypeInv, TypeOK
<1>a. ASSUME UNCHANGED <<eng, upd, chk>>, disk'.state = disk.state, disk'.ptr = disk.ptr
      PROVE  Goal
  BY <1>0, <1>a
  DEF UpdatesAfterBoot, OneUpdate, BootMarker, ValidatedNextInstalled, Working, BootsAreOver,
      IsInstalled, IsBad, IsKind
<1>b. ~BootsAreOver => (\A u \in Updaters : upd[u].pc = "idle") /\ chk = {}
  BY <1>0 DEF UpdatesAfterBoot
<1>1. ASSUME NEW n \in Patches,
             Publish(n) \/ RollBack(n) \/ DamageArtifact(n) \/ LoseDownload(n)
      PROVE  Goal
  <2>1. disk'.state = disk.state /\ disk'.ptr = disk.ptr
    BY <1>0, <1>1 DEF Publish, RollBack, DamageArtifact, LoseDownload, Disks
  <2>2. QED BY <1>1, <1>a, <2>1 DEF Publish, RollBack, DamageArtifact, LoseDownload
<1>2. CASE EngineStep
  <2>1. UNCHANGED <<upd, chk>> /\ ~BootsAreOver
    BY <1>2
    DEF EngineStep, Start, ValidateNextBootPatch, ReportLaunchStart, ReportLaunchSuccess,
        ReportLaunchFailure, BootsAreOver
  <2>2. UpdatesAfterBoot' /\ OneUpdate'
    BY <1>b, <2>1, NoUpdates
  <2>3. QED BY <1>2, <2>2, EngineStepSafe DEF BootMarker, ValidatedNextInstalled
<1>3. CASE \E u \in Updaters : UpdateStep(u)
  BY <1>3, UpdateStepSerial
<1>4. CASE CheckAsk
  <2>1. BootsAreOver
    BY <1>4 DEF CheckAsk, MayUpdate, BootsAreOver
  <2>2. UNCHANGED <<disk, eng, upd, server>> /\ chk' = server.rolled
    BY <1>4 DEF CheckAsk
  <2>3. UpdatesAfterBoot'
    BY <1>0, <2>1, <2>2
    DEF UpdatesAfterBoot, Working, BootsAreOver, IsInstalled, IsBad, IsKind
  <2>4. QED
    BY <1>0, <2>2, <2>3
    DEF OneUpdate, BootMarker, ValidatedNextInstalled, IsInstalled, IsKind
<1>5. CASE CheckApplyRollbacks
  <2>1. BootsAreOver /\ UNCHANGED <<eng, upd, server>> /\ chk' = {} /\ disk' = Uninstall(disk, chk)
    BY <1>0, <1>5 DEF CheckApplyRollbacks, UpdatesAfterBoot
  <2>2. Forgets(disk, disk', chk) /\ disk'.ptr.booting = disk.ptr.booting
    BY <1>0, <2>1, UninstallForgets
  <2>3. \A n \in Patches : /\ IsInstalled(disk', n) => IsInstalled(disk, n)
                           /\ IsBad(disk', n) => IsBad(disk, n)
    BY <2>2 DEF Forgets, IsInstalled, IsBad, IsKind, Unknown
  <2>4. UpdatesAfterBoot'
    BY <1>0, <2>1, <2>3
    DEF UpdatesAfterBoot, Working, BootsAreOver, IsInstalled, IsBad, IsKind
  <2>5. OneUpdate' /\ BootMarker' /\ ValidatedNextInstalled'
    BY <1>0, <2>1, <2>2 DEF OneUpdate, BootMarker, ValidatedNextInstalled, BootsAreOver
  <2>6. QED BY <2>4, <2>5
<1>6. CASE Kill
  <2>1. (\A u \in Updaters : upd'[u].pc = "idle") /\ chk' = {} /\ eng'.pc = "down"
    BY <1>6 DEF Kill, Idle, Down
  <2>2. QED BY <2>1, NoUpdates DEF BootMarker, ValidatedNextInstalled
<1>7. CASE KillInInit
  <2>1. UNCHANGED <<eng, upd, chk>> /\ eng.pc = "down"
    BY <1>7 DEF KillInInit
  <2>2. UpdatesAfterBoot' /\ OneUpdate'
    BY <1>b, <2>1, NoUpdates DEF BootsAreOver
  <2>3. QED BY <2>1, <2>2 DEF BootMarker, ValidatedNextInstalled
<1>8. CASE UNCHANGED vars
  BY <1>8, <1>a DEF vars
<1>9. QED BY <1>1, <1>2, <1>3, <1>4, <1>5, <1>6, <1>7, <1>8 DEF Next

(* When a process updates only after its boot is over, updates run one at  *)
(* a time and never touch a patch that decide_start would turn away.       *)
THEOREM SerialSafety ==
    ASSUME ConcurrentBoot = FALSE
    PROVE  Spec => []SerialInv
<1>1. IInv /\ [Next]_vars => IInv'
  BY SerialStep
<1>2. IInv => SerialInv
  BY DEF IInv
<1>3. QED BY InitSerial, <1>1, <1>2, PTL DEF Spec

(* A tombstone is permanent: no call, kill or restart turns a Bad patch    *)
(* back into one that could be downloaded, installed or booted again.      *)
THEOREM TombstonesAreForever ==
    ASSUME ConcurrentBoot = FALSE
    PROVE  Spec => TombstonePermanent
<1>1. IInv /\ [Next]_vars => IInv'
  BY SerialStep
<1>2. IInv /\ [Next]_vars => [\A n \in Patches : IsBad(disk, n) => IsBad(disk', n)]_vars
  BY StepSafe DEF Safe
<1>3. QED BY InitSerial, <1>1, <1>2, PTL DEF Spec, TombstonePermanent

(* The last patch that booted is never forgotten unless the server rolled  *)
(* it back, whatever is installed, rejected, killed or damaged meanwhile.  *)
THEOREM FallbackIsKept ==
    ASSUME ConcurrentBoot = FALSE
    PROVE  Spec => []FallbackKept
<1>1. SerialInv => FallbackKept
  BY DEF SerialInv, FallbackSettled, FallbackKept, IsInstalled, IsBad, IsKind
<1>2. QED BY SerialSafety, <1>1, PTL

(* What validate_next_boot_patch leaves is what the engine boots: until    *)
(* the launch is reported, no update or check can unseat it.               *)
THEOREM ValidatedIsInstalled ==
    ASSUME ConcurrentBoot = FALSE
    PROVE  Spec => []ValidatedNextInstalled
<1>1. SerialInv => ValidatedNextInstalled
  BY DEF SerialInv
<1>2. QED BY SerialSafety, <1>1, PTL

-----------------------------------------------------------------------------
(***************************************************************************)
(* Updater implements BootContract: with files, threads and responses      *)
(* hidden behind Status, every step, and every disk a kill leaves, is a    *)
(* step the contract allows.                                               *)
(***************************************************************************)
(* The contract's view of a disk. *)
StatusOf(d) == [n \in Patches |-> CASE IsBad(d, n)       -> "bad"
                                    [] IsInstalled(d, n) -> "ready"
                                    [] OTHER             -> "none"]

(* The ready patches of K are dropped. *)
Dropped(status, K) ==
    [n \in Patches |-> IF n \in K /\ status[n] = "ready" THEN "none" ELSE status[n]]

LEMMA KindsDiffer ==
    ASSUME NEW d, NEW n, IsBad(d, n)
    PROVE  ~IsInstalled(d, n)
BY DEF IsBad, IsInstalled, IsKind

LEMMA StatusCases ==
    ASSUME NEW d, NEW n \in Patches
    PROVE  /\ StatusOf(d)[n] = "bad" <=> IsBad(d, n)
           /\ StatusOf(d)[n] = "ready" <=> IsInstalled(d, n)
           /\ StatusOf(d)[n] = "none" <=> ~IsBad(d, n) /\ ~IsInstalled(d, n)
BY KindsDiffer DEF StatusOf

(* Disks that agree on what is bad and what is installed look alike. *)
LEMMA SameStatus ==
    ASSUME NEW d, NEW e,
           \A m \in Patches : /\ IsBad(e, m) <=> IsBad(d, m)
                              /\ IsInstalled(e, m) <=> IsInstalled(d, m)
    PROVE  StatusOf(e) = StatusOf(d)
BY DEF StatusOf

(* What is forgotten is dropped: a set of ready patches becomes "none". *)
LEMMA ForgetsDrops ==
    ASSUME NEW d, NEW e, NEW K, Forgets(d, e, K)
    PROVE  \E J \in SUBSET K : StatusOf(e) = Dropped(StatusOf(d), J)
<1> DEFINE J == {m \in K : m \in Patches /\ ~IsInstalled(e, m)}
<1>1. ASSUME NEW m \in Patches
      PROVE  StatusOf(e)[m] = Dropped(StatusOf(d), J)[m]
  <2>1. Dropped(StatusOf(d), J)[m] = IF m \in J /\ IsInstalled(d, m) THEN "none" ELSE StatusOf(d)[m]
    BY StatusCases DEF Dropped
  <2>2. IsBad(e, m) <=> IsBad(d, m)
    BY <1>1 DEF Forgets, IsBad, IsKind, Unknown
  <2>3. CASE e.state[m] = d.state[m]
    <3>1. (IsInstalled(e, m) <=> IsInstalled(d, m)) /\ StatusOf(e)[m] = StatusOf(d)[m]
      BY <1>1, <2>3 DEF StatusOf, IsInstalled, IsBad, IsKind
    <3>2. QED BY <2>1, <3>1
  <2>4. CASE m \in K /\ ~IsBad(d, m) /\ e.state[m] = Unknown
    <3>1. ~IsInstalled(e, m) /\ ~IsBad(e, m)
      BY <2>4 DEF Unknown, IsInstalled, IsBad, IsKind
    <3>2. StatusOf(e)[m] = "none" /\ m \in J
      BY <1>1, <2>4, <3>1, StatusCases
    <3>3. ~IsInstalled(d, m) => StatusOf(d)[m] = "none"
      BY <1>1, <2>4, StatusCases
    <3>4. QED BY <2>1, <3>2, <3>3
  <2>5. QED BY <1>1, <2>3, <2>4 DEF Forgets
<1>2. StatusOf(e) = Dropped(StatusOf(d), J)
  BY <1>1 DEF StatusOf, Dropped
<1>3. QED BY <1>2

LEMMA MarksStatus ==
    ASSUME NEW d, NEW e, NEW n \in Patches, Marks(d, e, n)
    PROVE  StatusOf(e) = [StatusOf(d) EXCEPT ![n] = "bad"]
<1>1. StatusOf(e)[n] = "bad"
  BY StatusCases DEF Marks
<1>2. ASSUME NEW m \in Patches \ {n} PROVE StatusOf(e)[m] = StatusOf(d)[m]
  BY DEF Marks, StatusOf, IsBad, IsInstalled, IsKind
<1>3. QED BY <1>1, <1>2 DEF StatusOf

(* A fallback that is given up has become "none". *)
LEMMA FallbackNone ==
    ASSUME NEW d \in Disks, NEW e, LastKept(d, e)
    PROVE  e.ptr.last = d.ptr.last \/ (e.ptr.last = None /\ StatusOf(e)[d.ptr.last] = "none")
BY PointerFields, StatusCases DEF LastKept, OptPatch

LEMMA StatusIsStatus == Status = StatusOf(disk) /\ Status' = StatusOf(disk')
BY DEF Status, StatusOf

-----------------------------------------------------------------------------
(***************************************************************************)
(* The steps of the contract, in terms of the disk.                        *)
(***************************************************************************)
CStep == [Contract!Next]_(Contract!cvars)

LEMMA StutterStep ==
    ASSUME \A m \in Patches : /\ IsBad(disk', m) <=> IsBad(disk, m)
                              /\ IsInstalled(disk', m) <=> IsInstalled(disk, m),
           disk'.ptr.last = disk.ptr.last, disk'.ptr.booting = disk.ptr.booting,
           server'.rolled = server.rolled
    PROVE  CStep
<1>1. Status' = Status
  BY SameStatus, StatusIsStatus
<1>2. QED BY <1>1 DEF CStep, Contract!cvars

(* States and pointers as they were: only files changed. *)
LEMMA FilesStep ==
    ASSUME disk'.state = disk.state, disk'.ptr = disk.ptr, server'.rolled = server.rolled
    PROVE  CStep
BY StutterStep DEF IsBad, IsInstalled, IsKind

LEMMA RemoveStep ==
    ASSUME disk \in Disks, disk.ptr.booting = None, disk'.ptr.booting = None,
           UNCHANGED server, LastKept(disk, disk'),
           NEW J \in SUBSET server.rolled, StatusOf(disk') = Dropped(StatusOf(disk), J)
    PROVE  CStep
<1>1. Status' = Contract!Drop(J)
  BY StatusIsStatus DEF Contract!Drop, Dropped
<1>2. Contract!KeepFallback
  BY StatusIsStatus, FallbackNone DEF Contract!KeepFallback
<1>3. Contract!Remove(J)
  BY <1>1, <1>2 DEF Contract!Remove
<1>4. QED BY <1>3 DEF CStep, Contract!Next

LEMMA RejectStep ==
    ASSUME disk \in Disks, disk'.ptr.booting = disk.ptr.booting, UNCHANGED server,
           LastKept(disk, disk'), NEW n \in Patches, Marks(disk, disk', n)
    PROVE  CStep
<1>1. Status' = [Status EXCEPT ![n] = "bad"]
  BY StatusIsStatus, MarksStatus
<1>2. Contract!KeepFallback
  BY StatusIsStatus, FallbackNone DEF Contract!KeepFallback
<1>3. Contract!Reject(n)
  BY <1>1, <1>2 DEF Contract!Reject
<1>4. QED BY <1>3 DEF CStep, Contract!Next

LEMMA FailStep ==
    ASSUME disk \in Disks, disk.ptr.booting # None, disk'.ptr.booting = None,
           UNCHANGED server, LastKept(disk, disk'), Marks(disk, disk', disk.ptr.booting)
    PROVE  CStep
<1>1. Status' = [Status EXCEPT ![disk.ptr.booting] = "bad"]
  BY StatusIsStatus, MarksStatus, PointerFields DEF OptPatch
<1>2. Contract!KeepFallback
  BY StatusIsStatus, FallbackNone DEF Contract!KeepFallback
<1>3. Contract!Fail
  BY <1>1, <1>2 DEF Contract!Fail
<1>4. QED BY <1>3 DEF CStep, Contract!Next

LEMMA SucceedStep ==
    ASSUME disk.ptr.booting # None, disk'.ptr.last = disk.ptr.booting,
           disk'.ptr.booting = None, UNCHANGED server,
           Forgets(disk, disk', OlderThan(disk.ptr.booting))
    PROVE  CStep
<1>1. PICK J \in SUBSET OlderThan(disk.ptr.booting) : StatusOf(disk') = Dropped(StatusOf(disk), J)
  BY ForgetsDrops
<1>2. Status' = Contract!Drop(J)
  BY <1>1, StatusIsStatus DEF Contract!Drop, Dropped
<1>3. Contract!Succeed
  BY <1>2 DEF Contract!Succeed, OlderThan
<1>4. QED BY <1>3 DEF CStep, Contract!Next

(* The patch installed was neither installed nor bad; others are displaced, not the fallback. *)
LEMMA InstallStep ==
    ASSUME disk \in Disks, disk.ptr.booting = None, UNCHANGED server,
           NEW n \in Patches, CanCompleteInstall(disk, n),
           disk' \in {Install(disk, n)} \cup InstallCuts(disk, n)
    PROVE  CStep
<1> DEFINE J == {m \in Patches \ {n} : IsInstalled(disk, m) /\ ~IsInstalled(disk', m)}
<1>1. /\ IsInstalled(disk', n)
      /\ \A m \in Patches \ {n} :
            \/ disk'.state[m] = disk.state[m]
            \/ m # disk.ptr.last /\ ~IsBad(disk, m) /\ disk'.state[m] = Unknown
      /\ disk'.ptr.last = disk.ptr.last /\ disk'.ptr.booting = disk.ptr.booting
  BY InstallEffect
<1>2. Status[n] = "none"
  BY StatusIsStatus, StatusCases DEF CanCompleteInstall, IsBad, IsInstalled, IsKind
<1>3. J \in SUBSET (Patches \ {n, disk.ptr.last})
  BY <1>1 DEF IsInstalled, IsKind
<1>4. ASSUME NEW m \in Patches \ {n}
      PROVE  StatusOf(disk')[m] = IF m \in J THEN "none" ELSE StatusOf(disk)[m]
  <2>1. CASE disk'.state[m] = disk.state[m]
    <3>1. (IsInstalled(disk', m) <=> IsInstalled(disk, m)) /\ (IsBad(disk', m) <=> IsBad(disk, m))
      BY <2>1 DEF IsInstalled, IsBad, IsKind
    <3>2. QED BY <3>1 DEF StatusOf
  <2>2. CASE ~IsBad(disk, m) /\ disk'.state[m] = Unknown
    <3>1. ~IsInstalled(disk', m) /\ ~IsBad(disk', m)
      BY <2>2 DEF Unknown, IsInstalled, IsBad, IsKind
    <3>2. QED BY <2>2, <3>1, StatusCases
  <2>3. QED BY <1>1, <2>1, <2>2
<1>5. ASSUME NEW m \in Patches
      PROVE  Contract!Drop(J)[m] = IF m \in J THEN "none" ELSE StatusOf(disk)[m]
  BY StatusIsStatus, StatusCases DEF Contract!Drop
<1>6. StatusOf(disk')[n] = "ready"
  BY <1>1, StatusCases
<1>7. Status' = [Contract!Drop(J) EXCEPT ![n] = "ready"]
  <2>1. DOMAIN Contract!Drop(J) = Patches
    BY DEF Contract!Drop
  <2>2. StatusOf(disk') = [Contract!Drop(J) EXCEPT ![n] = "ready"]
    BY <1>4, <1>5, <1>6, <2>1 DEF StatusOf, Contract!Drop
  <2>3. QED BY <2>2, StatusIsStatus
<1> HIDE DEF J
<1>8. Contract!Install(n)
  BY <1>1, <1>2, <1>3, <1>7 DEF Contract!Install
<1>9. QED BY <1>8 DEF CStep, Contract!Next

-----------------------------------------------------------------------------
(***************************************************************************)
(* The steps of Updater.                                                   *)
(***************************************************************************)
(* Uninstalling what the server has rolled back, and every cut of it. *)
LEMMA UninstallStep ==
    ASSUME disk \in Disks, disk.ptr.booting = None, UNCHANGED server,
           NEW K \in SUBSET Patches, K \subseteq server.rolled,
           disk' \in {Uninstall(disk, K)} \cup UninstallCuts(disk, K)
    PROVE  CStep
<1>1. Forgets(disk, disk', K) /\ LastKept(disk, disk') /\ disk'.ptr.booting = None
  BY UninstallForgets, UninstallCutsForget
<1>2. PICK J \in SUBSET K : StatusOf(disk') = Dropped(StatusOf(disk), J)
  BY <1>1, ForgetsDrops
<1>3. QED BY <1>1, <1>2, RemoveStep

(* Uninstalling a patch that is neither installed nor bad removes nothing. *)
LEMMA UninstallNothing ==
    ASSUME disk \in Disks, disk.ptr.booting = None, UNCHANGED server,
           NEW n \in Patches, ~IsInstalled(disk, n), ~IsBad(disk, n),
           disk' \in {Uninstall(disk, {n})} \cup UninstallCuts(disk, {n})
    PROVE  CStep
<1>1. Forgets(disk, disk', {n}) /\ LastKept(disk, disk') /\ disk'.ptr.booting = None
  BY UninstallForgets, UninstallCutsForget
<1>2. \A m \in Patches : /\ IsBad(disk', m) <=> IsBad(disk, m)
                         /\ IsInstalled(disk', m) <=> IsInstalled(disk, m)
  BY <1>1 DEF Forgets, IsBad, IsInstalled, IsKind, Unknown
<1>3. StatusOf(disk') = Dropped(StatusOf(disk), {})
  BY <1>2, SameStatus DEF Dropped, StatusOf
<1>4. QED BY <1>1, <1>3, RemoveStep

LEMMA EngineContract == ASSUME IInv, EngineStep PROVE CStep
<1>0. /\ disk \in Disks /\ disk.ptr.next \in OptPatch /\ disk.ptr.booting \in OptPatch
      /\ UNCHANGED server
      /\ disk.ptr.booting # None =>
            eng.pc = "down" \/ (eng.pc = "launching" /\ IsInstalled(disk, disk.ptr.booting))
  BY PointerFields
  DEF IInv, SerialInv, BootMarker, TypeInv, TypeOK, EngineStep, Start, ValidateNextBootPatch,
      ReportLaunchStart, ReportLaunchSuccess, ReportLaunchFailure
<1>1. ASSUME disk' = disk PROVE CStep
  BY <1>0, <1>1, FilesStep
<1>2. ASSUME disk.ptr.booting # None, disk' = RecordBootFailure(disk, disk.ptr.booting)
      PROVE  CStep
  BY <1>0, <1>2, BootFailureMarks, FailStep DEF OptPatch
<1>3. CASE Start
  BY <1>1, <1>2, <1>3 DEF Start, DetectBootCrash
<1>4. CASE ValidateNextBootPatch
  <2>1. CASE disk.ptr.next = None \/ Bootable(disk, disk.ptr.next)
    BY <1>1, <1>4, <2>1 DEF ValidateNextBootPatch, ValidateNextBoot
  <2>2. CASE ~(disk.ptr.next = None \/ Bootable(disk, disk.ptr.next))
    <3>1. /\ disk' = MarkBadAndRecompute(disk, disk.ptr.next, "ValidationFailed")
          /\ disk.ptr.next \in Patches
      BY <1>0, <1>4, <2>2 DEF ValidateNextBootPatch, ValidateNextBoot, OptPatch
    <3>2. QED BY <1>0, <3>1, MarkBadAndRecomputeMarks, RejectStep DEF BadReasons
  <2>3. QED BY <2>1, <2>2
<1>5. CASE ReportLaunchStart
  <2>1. CASE CanRecordBootStart(disk, disk.ptr.next)
    <3>1. /\ disk' = RecordBootStart(disk, disk.ptr.next) /\ IsInstalled(disk, disk.ptr.next)
          /\ disk.ptr.booting = None /\ disk.ptr.next \in Patches
      BY <1>0, <1>5, <2>1 DEF ReportLaunchStart, CanRecordBootStart, IsInstalled, IsKind
    <3>2. /\ disk'.state = disk.state /\ disk'.ptr.last = disk.ptr.last
          /\ disk'.ptr.booting = disk.ptr.next
      BY <1>0, <3>1 DEF RecordBootStart, Disks, Pointers
    <3>3. Status' = Status /\ Status[disk.ptr.next] = "ready"
      BY <3>1, <3>2, StatusIsStatus, StatusCases, SameStatus DEF IsBad, IsInstalled, IsKind
    <3>4. Contract!Launch(disk.ptr.next)
      BY <1>0, <3>1, <3>2, <3>3 DEF Contract!Launch
    <3>5. QED BY <3>1, <3>4 DEF CStep, Contract!Next
  <2>2. CASE ~CanRecordBootStart(disk, disk.ptr.next)
    BY <1>1, <1>5, <2>2 DEF ReportLaunchStart
  <2>3. QED BY <2>1, <2>2
<1>6. CASE ReportLaunchSuccess
  <2>1. CASE disk.ptr.booting = None
    BY <1>1, <1>6, <2>1 DEF ReportLaunchSuccess
  <2>2. CASE disk.ptr.booting # None
    BY <1>0, <1>6, <2>2, BootSuccessForgets, SucceedStep DEF ReportLaunchSuccess
  <2>3. QED BY <2>1, <2>2
<1>7. CASE ReportLaunchFailure
  BY <1>1, <1>2, <1>7 DEF ReportLaunchFailure
<1>8. QED BY <1>3, <1>4, <1>5, <1>6, <1>7 DEF EngineStep

LEMMA UpdateContract ==
    ASSUME ConcurrentBoot = FALSE, IInv, NEW u \in Updaters, UpdateStep(u)
    PROVE  CStep
<1> DEFINE n == upd[u].patch
<1>0. /\ disk \in Disks /\ UNCHANGED server
      /\ upd[u].rolled \in SUBSET Patches
      /\ upd[u].pc # "idle" => upd[u].rolled \subseteq server.rolled /\ BootsAreOver
      /\ upd[u].pc \notin {"idle", "rollback"} => n \in Patches
      /\ Working(u) => ~IsInstalled(disk, n) /\ ~IsBad(disk, n)
  BY UpdateStepFrame DEF IInv, SerialInv, UpdatesAfterBoot, TypeInv, TypeOK, CallersOK, Callers
<1>1. upd[u].pc # "idle" => disk.ptr.booting = None
  BY <1>0 DEF IInv, SerialInv, BootMarker, BootsAreOver
<1>a. ASSUME disk'.state = disk.state, disk'.ptr = disk.ptr PROVE CStep
  BY <1>0, <1>a, FilesStep
<1>2. CASE ApplyRollbacks(u)
  BY <1>0, <1>1, <1>2, UninstallStep DEF ApplyRollbacks
<1>3. CASE RecordStarted(u) \/ RecordComplete(u)
  <2>1. CASE disk' = disk
    BY <1>a, <2>1
  <2>2. ASSUME NEW s, disk' = WriteState(disk, n, s), s.kind \in {"Downloading", "Downloaded"}
        PROVE  CStep
    <3>1. Working(u) /\ n \in Patches /\ ~IsInstalled(disk, n) /\ ~IsBad(disk, n)
      BY <1>0, <1>3 DEF RecordStarted, RecordComplete, Working
    <3>2. disk'.ptr = disk.ptr /\ disk'.state = [disk.state EXCEPT ![n] = s]
      BY <1>0, <2>2 DEF WriteState, Disks
    <3>3. ~IsInstalled(disk', n) /\ ~IsBad(disk', n)
      BY <1>0, <2>2, <3>1, <3>2 DEF IsInstalled, IsBad, IsKind, Disks
    <3>4. \A m \in Patches \ {n} : disk'.state[m] = disk.state[m]
      BY <1>0, <3>2 DEF Disks
    <3>5. QED BY <1>0, <3>1, <3>2, <3>3, <3>4, StutterStep DEF IsInstalled, IsBad, IsKind
  <2>3. QED
    BY <1>3, <2>1, <2>2
    DEF RecordStarted, RecordComplete, RecordDownloadStarted, RecordDownloadComplete,
        Downloading, Downloaded
<1>4. CASE OpenDownload(u) \/ InflateBegin(u) \/ InflateEnd(u)
  <2>1. disk'.state = disk.state /\ disk'.ptr = disk.ptr
    BY <1>0, <1>4 DEF OpenDownload, InflateBegin, InflateEnd, Disks
  <2>2. QED BY <1>a, <2>1
<1>5. CASE ReceiveSome(u) \/ ReceiveRest(u) \/ \E c \in {"full", "corrupt"} : ReceiveWhole(u, c)
  <2>1. \A c : Received(u, c).state = disk.state /\ Received(u, c).ptr = disk.ptr
    BY <1>0 DEF Received, Disks
  <2>2. QED BY <1>5, <1>a, <2>1 DEF ReceiveSome, ReceiveRest, ReceiveWhole
<1>6. CASE \/ PlanDownload(u) \/ ReceiveFails(u) \/ BaseMissing(u)
           \/ \E p \in Offered \cup {None} : CheckForPatch(u, p)
  BY <1>6, <1>a DEF PlanDownload, ReceiveFails, BaseMissing, CheckForPatch
<1>7. CASE SizeMismatch(u)
  BY <1>0, <1>1, <1>7, UninstallNothing DEF SizeMismatch, Working
<1>8. CASE RejectPatch(u)
  <2>1. /\ n \in Patches /\ disk' = MarkBadAndRecompute(disk, n, Reason(upd[u].pc))
        /\ Reason(upd[u].pc) \in BadReasons
    BY <1>0, <1>8 DEF RejectPatch, Reason, BadReasons
  <2>2. QED BY <1>0, <2>1, MarkBadAndRecomputeMarks, RejectStep
<1>9. CASE InstallPatch(u)
  <2>1. CASE disk' = disk
    BY <1>a, <2>1
  <2>2. CASE CanCompleteInstall(disk, n) /\ disk' = Install(disk, n)
    BY <1>0, <1>1, <1>9, <2>2, InstallStep DEF InstallPatch
  <2>3. QED BY <1>9, <2>1, <2>2 DEF InstallPatch
<1>10. QED BY <1>2, <1>3, <1>4, <1>5, <1>6, <1>7, <1>8, <1>9 DEF UpdateStep

LEMMA CutsContract ==
    ASSUME IInv, disk' \in Cuts, UNCHANGED server
    PROVE  CStep
<1>0. /\ disk \in Disks /\ chk \in SUBSET Patches /\ chk \subseteq server.rolled /\ CallersOK
      /\ disk.ptr.next \in OptPatch /\ disk.ptr.booting \in OptPatch
      /\ BootsAreOver => disk.ptr.booting = None
  BY PointerFields
  DEF IInv, SerialInv, UpdatesAfterBoot, BootMarker, BootsAreOver, TypeInv, TypeOK
<1>1. ASSUME disk' \in EngineCuts PROVE CStep
  <2>1. ASSUME disk' \in ValidateNextBootCuts(disk) PROVE CStep
    <3>1. disk.ptr.next \in Patches /\ disk' \in MarkBadCuts(disk, disk.ptr.next, "ValidationFailed")
      BY <1>0, <2>1 DEF ValidateNextBootCuts, OptPatch
    <3>2. Marks(disk, disk', disk.ptr.next) /\ disk'.ptr = disk.ptr
      BY <1>0, <3>1, MarkBadMarks DEF BadReasons
    <3>3. QED BY <1>0, <3>1, <3>2, RejectStep DEF LastKept
  <2>2. ASSUME disk.ptr.booting # None, disk' \in RecordBootFailureCuts(disk, disk.ptr.booting)
        PROVE  CStep
    <3>1. disk.ptr.booting \in Patches
      BY <1>0, <2>2 DEF OptPatch
    <3>2. /\ Marks(disk, disk', disk.ptr.booting) /\ LastKept(disk, disk')
          /\ disk'.ptr.booting \in {disk.ptr.booting, None}
      BY <1>0, <2>2, <3>1, BootFailureMarks
    <3>3. QED BY <1>0, <2>2, <3>1, <3>2, RejectStep, FailStep
  <2>3. ASSUME disk.ptr.booting # None, disk' \in RecordBootSuccessCuts(disk) PROVE CStep
    BY <1>0, <2>3, BootSuccessForgets, SucceedStep
  <2>4. QED BY <1>1, <2>1, <2>2, <2>3 DEF EngineCuts
<1>2. ASSUME disk' \in UninstallCuts(disk, chk) PROVE CStep
  <2>1. chk # {}
    BY <1>2 DEF UninstallCuts
  <2>2. disk.ptr.booting = None
    BY <1>0, <2>1 DEF IInv, SerialInv, UpdatesAfterBoot
  <2>3. QED BY <1>0, <1>2, <2>2, UninstallStep
<1>3. ASSUME NEW u \in Updaters, disk' \in UpdateCuts(u) PROVE CStep
  <2> DEFINE n == upd[u].patch
  <2>1. /\ upd[u].rolled \in SUBSET Patches
        /\ upd[u].pc # "idle" => upd[u].rolled \subseteq server.rolled /\ disk.ptr.booting = None
        /\ upd[u].pc \notin {"idle", "rollback"} => n \in Patches
        /\ Working(u) => ~IsInstalled(disk, n) /\ ~IsBad(disk, n)
    BY <1>0 DEF CallersOK, Callers, IInv, SerialInv, UpdatesAfterBoot
  <2>2. CASE upd[u].pc = "rollback"
    <3>1. disk' \in UninstallCuts(disk, upd[u].rolled)
      BY <1>3, <2>2 DEF UpdateCuts
    <3>2. QED BY <1>0, <2>1, <2>2, <3>1, UninstallStep
  <2>3. CASE upd[u].pc = "mismatch"
    <3>1. disk' \in UninstallCuts(disk, {n}) /\ Working(u)
      BY <1>3, <2>3 DEF UpdateCuts, Working
    <3>2. QED BY <1>0, <2>1, <2>3, <3>1, UninstallNothing
  <2>4. CASE upd[u].pc \in {"bad_bytes", "bad_hash"}
    <3>1. disk' \in MarkBadCuts(disk, n, Reason(upd[u].pc)) /\ n \in Patches
      BY <1>3, <2>1, <2>4 DEF UpdateCuts
    <3>2. Marks(disk, disk', n) /\ disk'.ptr = disk.ptr
      BY <1>0, <3>1, MarkBadMarks DEF Reason, BadReasons
    <3>3. QED BY <1>0, <3>1, <3>2, RejectStep DEF LastKept
  <2>5. CASE upd[u].pc = "install"
    <3>1. n \in Patches /\ CanCompleteInstall(disk, n) /\ disk' \in InstallCuts(disk, n)
      BY <1>3, <2>1, <2>5 DEF UpdateCuts
    <3>2. QED BY <1>0, <2>1, <2>5, <3>1, InstallStep
  <2>6. QED BY <1>3, <2>2, <2>3, <2>4, <2>5 DEF UpdateCuts
<1>4. QED BY <1>1, <1>2, <1>3 DEF Cuts

LEMMA NextContract == ASSUME ConcurrentBoot = FALSE, IInv, [Next]_vars PROVE CStep
<1>0. /\ disk \in Disks /\ disk.ptr.booting \in OptPatch
      /\ server \in [pub : SUBSET Patches, rolled : SUBSET Patches]
  BY PointerFields DEF IInv, TypeInv, TypeOK
<1>1. ASSUME NEW n \in Patches, Publish(n) \/ DamageArtifact(n) \/ LoseDownload(n)
      PROVE  CStep
  <2>1. disk'.state = disk.state /\ disk'.ptr = disk.ptr /\ server'.rolled = server.rolled
    BY <1>0, <1>1 DEF Publish, DamageArtifact, LoseDownload, Disks
  <2>2. QED BY <2>1, FilesStep
<1>2. ASSUME NEW n \in Patches, RollBack(n) PROVE CStep
  <2>1. UNCHANGED disk /\ server'.rolled = server.rolled \cup {n}
    BY <1>0, <1>2 DEF RollBack
  <2>2. Contract!Withdraw(n)
    BY <2>1, StatusIsStatus DEF Contract!Withdraw
  <2>3. QED BY <2>2 DEF CStep, Contract!Next
<1>3. CASE EngineStep
  BY <1>3, EngineContract
<1>4. CASE \E u \in Updaters : UpdateStep(u)
  BY <1>4, UpdateContract
<1>5. CASE CheckAsk
  BY <1>5, FilesStep DEF CheckAsk
<1>6. CASE CheckApplyRollbacks
  <2>1. /\ chk \in SUBSET Patches /\ chk \subseteq server.rolled /\ disk.ptr.booting = None
        /\ disk' = Uninstall(disk, chk) /\ UNCHANGED server
    BY <1>6
    DEF CheckApplyRollbacks, IInv, SerialInv, UpdatesAfterBoot, BootMarker, BootsAreOver,
        TypeInv, TypeOK
  <2>2. QED BY <1>0, <2>1, UninstallStep
<1>7. CASE Kill
  BY <1>7, CutsContract, FilesStep DEF Kill
<1>8. CASE KillInInit
  <2>1. disk.ptr.booting # None /\ disk' \in RecordBootFailureCuts(disk, disk.ptr.booting)
        /\ UNCHANGED server
    BY <1>8 DEF KillInInit, DetectBootCrashCuts
  <2>2. /\ Marks(disk, disk', disk.ptr.booting) /\ LastKept(disk, disk')
        /\ disk'.ptr.booting \in {disk.ptr.booting, None} /\ disk.ptr.booting \in Patches
    BY <1>0, <2>1, BootFailureMarks DEF OptPatch
  <2>3. QED BY <1>0, <2>1, <2>2, RejectStep, FailStep
<1>9. CASE UNCHANGED vars
  BY <1>9, FilesStep DEF vars
<1>10. QED BY <1>1, <1>2, <1>3, <1>4, <1>5, <1>6, <1>7, <1>8, <1>9 DEF Next

LEMMA InitContract == Init => Contract!Init
BY DEF Init, Contract!Init, Status, EmptyDisk, IsBad, IsInstalled, IsKind, Unknown

(* The engine may rely on the contract: the whole updater, with its        *)
(* threads, files, kills and damage, is an implementation of BootContract  *)
(* when updates begin only after the boot is over.                         *)
THEOREM UpdaterImplementsContract ==
    ASSUME ConcurrentBoot = FALSE
    PROVE  Spec => ImplementsContract
<1>1. IInv /\ [Next]_vars => IInv'
  BY SerialStep
<1>2. IInv /\ [Next]_vars => [Contract!Next]_(Contract!cvars)
  BY NextContract DEF CStep
<1>3. QED BY InitSerial, InitContract, <1>1, <1>2, PTL DEF Spec, ImplementsContract, Contract!Spec

=============================================================================
