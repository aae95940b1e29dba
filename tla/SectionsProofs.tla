---------------------------- MODULE SectionsProofs ----------------------------
(***************************************************************************)
(* The safety of Sections, for any set of patches, URLs and callers: what  *)
(* still holds when the pointers a section saves are those it loaded       *)
(* before another section of update() or of a check went by.               *)
(***************************************************************************)
EXTENDS Sections, ConcurrentProofs

-----------------------------------------------------------------------------
(***************************************************************************)
(* The invariant.                                                          *)
(***************************************************************************)
(* A section is open only where one belongs; the engine's overlaps none,   *)
(* and outside it no boot is under way.                                    *)
OpenSections ==
    \A t \in Threads :
        mem[t] # None =>
            /\ AtSection(t)
            /\ t = "engine" => mem[t] = disk.ptr
            /\ t # "engine" => mem[t].booting = None

(* A fallback that is not rolled back is dropped by no section: each open  *)
(* one has loaded it.                                                      *)
LastAgrees ==
    \A t \in Threads, l \in Patches \ server.rolled :
        mem[t] # None => (mem[t].last = l <=> disk.ptr.last = l)

(* A section uninstalls only the patches it was opened for, each once. *)
RemovesDoomed ==
    \A t \in Threads :
        /\ left[t] \subseteq Doomed(t)
        /\ seen[t] # None => mem[t] # None /\ seen[t].patch \in Doomed(t) \ left[t]

(* No other section schedules the patch a section works on. *)
NextIsSeen ==
    \A u \in Updaters :
        /\ Working(u) /\ mem[u] # None /\ disk.ptr.next = upd[u].patch
        => mem[u].next = upd[u].patch

SplitInv ==
    /\ SerialInv /\ OpenSections /\ RemovesDoomed
    /\ LastAgrees /\ NextIsSeen /\ NextNotTombstoned

-----------------------------------------------------------------------------
(***************************************************************************)
(* Type correctness, in either regime and with kills at any point.         *)
(***************************************************************************)
MemOK ==
    /\ mem \in [Threads -> Pointers \cup {None}]
    /\ left \in [Threads -> SUBSET Patches]
    /\ seen \in [Threads -> Looks \cup {None}]

SplitTypeInv == TypeInv /\ MemOK

LEMMA ViewType ==
    ASSUME SplitTypeInv, NEW t \in Threads, InSection(t)
    PROVE  /\ View(t) \in Disks /\ View(t).ptr = mem[t]
           /\ View(t).state = disk.state /\ View(t).art = disk.art /\ View(t).dl = disk.dl
<1>1. disk \in Disks /\ mem[t] \in Pointers
  BY DEF SplitTypeInv, MemOK, TypeInv, TypeOK, InSection
<1>2. QED BY <1>1 DEF View, Disks

LEMMA CloseType ==
    ASSUME SplitTypeInv, NEW t \in Threads, NEW d \in Disks, NEW saved \in BOOLEAN,
           Close(t, d, saved)
    PROVE  /\ disk' \in Disks /\ MemOK' /\ mem'[t] = None
           /\ \A x \in Threads \ {t} : mem'[x] = mem[x]
           /\ disk'.state = d.state /\ disk'.art = d.art
           /\ disk'.ptr = IF saved THEN d.ptr ELSE disk.ptr
<1>1. disk \in Disks /\ MemOK
  BY DEF SplitTypeInv, TypeInv, TypeOK
<1>2. /\ MemOK' /\ mem'[t] = None /\ \A x \in Threads \ {t} : mem'[x] = mem[x]
  BY <1>1 DEF MemOK, Close
<1>3. CASE saved
  BY <1>2, <1>3 DEF Close
<1>4. CASE ~saved
  <2>1. disk' = [d EXCEPT !.ptr = disk.ptr]
    BY <1>4 DEF Close
  <2>2. QED BY <1>1, <1>2, <1>4, <2>1 DEF Disks
<1>5. QED BY <1>3, <1>4

LEMMA RestType ==
    ASSUME TypeInv, disk' \in Disks, eng' \in [pc : EnginePcs, run : OptPatch],
           chk' \in SUBSET Patches, UNCHANGED server, CallersOK'
    PROVE  TypeInv'
BY DEF TypeInv, TypeOK, CallersOK, Callers

(* What uninstall_patch makes of the disk the section sees. *)
LEMMA UninstalledEffect ==
    ASSUME SplitTypeInv, NEW t \in Threads, InSection(t), seen[t] # None
    PROVE  /\ Uninstalled(t) \in Disks /\ seen[t].patch \in Patches
           /\ \A m \in Patches :
                 \/ Uninstalled(t).state[m] = disk.state[m]
                 \/ m = seen[t].patch /\ ~seen[t].bad /\ Uninstalled(t).state[m] = Unknown
           /\ LastKept(View(t), Uninstalled(t))
           /\ Uninstalled(t).ptr.booting = mem[t].booting
           /\ \/ Uninstalled(t).ptr.next = None
              \/ IsInstalled(Uninstalled(t), Uninstalled(t).ptr.next)
<1>1. PICK v : v = View(t)
  OBVIOUS
<1>2. PICK n : n = seen[t].patch
  OBVIOUS
<1>3. v \in Disks /\ v.ptr = mem[t] /\ v.state = disk.state
  BY <1>1, ViewType
<1>4. seen[t] \in Looks /\ n \in Patches
  BY <1>2 DEF SplitTypeInv, MemOK, Looks
<1>5. PICK a : a = DeleteArtifactFiles(v, n)
  OBVIOUS
<1>6. a \in Disks /\ a.ptr = v.ptr /\ a.state = v.state
  BY <1>3, <1>5, FileType DEF DeleteArtifactFiles, Disks, Artifacts, Downloads
<1>7. PICK c : c = Cleaned(v, seen[t])
  OBVIOUS
<1>8. c = IF seen[t].bad THEN a ELSE WriteState(a, n, Unknown)
  BY <1>2, <1>5, <1>7 DEF Cleaned, ForgetDir
<1>9. Unknown \in PatchStates
  BY DEF PatchStates
<1>10. /\ c \in Disks /\ c.ptr = v.ptr
       /\ \A m \in Patches : \/ c.state[m] = disk.state[m]
                             \/ m = n /\ ~seen[t].bad /\ c.state[m] = Unknown
  <2>1. CASE seen[t].bad
    BY <1>3, <1>6, <1>8, <2>1
  <2>2. CASE ~seen[t].bad
    <3>1. c = WriteState(a, n, Unknown)
      BY <1>8, <2>2
    <3>2. c \in Disks /\ c.ptr = a.ptr /\ c.state = [a.state EXCEPT ![n] = Unknown]
      BY <1>6, <1>9, <3>1, WriteStateType DEF WriteState, Disks
    <3>3. QED BY <1>3, <1>4, <1>6, <2>2, <3>2 DEF Disks
  <2>3. QED BY <2>1, <2>2
<1>11. PICK d : d = RecomputeNextBoot(c)
  OBVIOUS
<1>12. /\ d \in Disks /\ d.state = c.state /\ d.ptr.booting = c.ptr.booting /\ LastKept(c, d)
       /\ d.ptr.next # None => IsInstalled(d, d.ptr.next)
  BY <1>10, <1>11, RecomputeType, RecomputeEffect
<1>13. Uninstalled(t) = d
  BY <1>1, <1>7, <1>11 DEF Uninstalled
<1>14. LastKept(v, d)
  BY <1>10, <1>12 DEF LastKept
<1>15. QED BY <1>1, <1>2, <1>3, <1>4, <1>10, <1>12, <1>13, <1>14

LEMMA RemoveType ==
    ASSUME SplitTypeInv, NEW t \in Threads, InSection(t), Remove(t)
    PROVE  /\ disk' \in Disks /\ MemOK' /\ left' = left /\ seen'[t] = None
           /\ \A x \in Threads \ {t} : mem'[x] = mem[x] /\ seen'[x] = seen[x]
           /\ mem'[t] = IF left[t] = {} THEN None ELSE Uninstalled(t).ptr
           /\ disk'.state = Uninstalled(t).state
           /\ disk'.ptr = IF Uninstalled(t).ptr # mem[t] THEN Uninstalled(t).ptr ELSE disk.ptr
<1>1. PICK d : d = Uninstalled(t)
  OBVIOUS
<1>2. d \in Disks /\ disk \in Disks /\ MemOK /\ d.ptr \in Pointers
  BY <1>1, UninstalledEffect DEF Remove, SplitTypeInv, TypeInv, TypeOK, Disks
<1>3. /\ disk' = IF d.ptr # mem[t] THEN d ELSE [d EXCEPT !.ptr = disk.ptr]
      /\ mem' = [mem EXCEPT ![t] = IF left[t] = {} THEN None ELSE d.ptr]
      /\ seen' = [seen EXCEPT ![t] = None] /\ left' = left
  BY <1>1 DEF Remove
<1>4. MemOK'
  BY <1>2, <1>3 DEF MemOK
<1>5. /\ seen'[t] = None /\ mem'[t] = IF left[t] = {} THEN None ELSE d.ptr
      /\ \A x \in Threads \ {t} : mem'[x] = mem[x] /\ seen'[x] = seen[x]
  BY <1>2, <1>3 DEF MemOK
<1>6. /\ disk' \in Disks /\ disk'.state = d.state
      /\ disk'.ptr = IF d.ptr # mem[t] THEN d.ptr ELSE disk.ptr
  <2>1. CASE d.ptr # mem[t]
    BY <1>2, <1>3, <2>1
  <2>2. CASE d.ptr = mem[t]
    <3>1. disk' = [d EXCEPT !.ptr = disk.ptr]
      BY <1>3, <2>2
    <3>2. QED BY <1>2, <2>2, <3>1 DEF Disks
  <2>3. QED BY <2>1, <2>2
<1>7. QED BY <1>1, <1>3, <1>4, <1>5, <1>6

LEMMA EngineSectionType ==
    ASSUME SplitTypeInv,
           SplitValidate \/ SplitLaunchStart \/ SplitLaunchSuccess \/ SplitLaunchFailure
    PROVE  SplitTypeInv'
<1>1. PICK v : v = View("engine")
  OBVIOUS
<1>2. PICK p : p = mem["engine"]
  OBVIOUS
<1>3. /\ "engine" \in Threads /\ InSection("engine") /\ UNCHANGED <<upd, chk, server>>
      /\ TypeInv /\ disk \in Disks
      /\ eng \in [pc : EnginePcs, run : OptPatch] /\ chk \in SUBSET Patches
  BY DEF SplitValidate, SplitLaunchStart, SplitLaunchSuccess, SplitLaunchFailure, Threads,
         SplitTypeInv, TypeInv, TypeOK
<1>4. v \in Disks /\ v.ptr = p
  BY <1>1, <1>2, <1>3, ViewType
<1>5. p.next \in OptPatch /\ p.booting \in OptPatch
  BY <1>4, PointerFields
<1>6. CallersOK'
  BY <1>3 DEF TypeInv, CallersOK
<1>7. ASSUME NEW d \in Disks, NEW s \in BOOLEAN, Close("engine", d, s),
             eng' \in [pc : EnginePcs, run : OptPatch]
      PROVE  SplitTypeInv'
  BY <1>3, <1>6, <1>7, CloseType, RestType DEF SplitTypeInv
<1>8. CASE SplitValidate
  <2>1. PICK d : d = ValidateNextBoot(v)
    OBVIOUS
  <2>2. d \in Disks
    BY <1>4, <2>1, ValidateType
  <2>3. Close("engine", d, d.ptr # p)
    BY <1>1, <1>2, <1>8, <2>1 DEF SplitValidate, CloseDirty
  <2>4. eng' \in [pc : EnginePcs, run : OptPatch]
    BY <1>3, <1>8 DEF SplitValidate, EnginePcs
  <2>5. QED BY <1>7, <2>2, <2>3, <2>4
<1>9. CASE SplitLaunchStart
  <2>1. PICK c \in BOOLEAN : c = CanRecordBootStart(v, p.next)
    BY DEF CanRecordBootStart, IsInstalled, IsKind
  <2>2. /\ Close("engine", IF c THEN RecordBootStart(v, p.next) ELSE disk, c)
        /\ eng' = [pc |-> "launching", run |-> p.next]
    BY <1>1, <1>2, <1>9, <2>1 DEF SplitLaunchStart
  <2>3. RecordBootStart(v, p.next) \in Disks
    BY <1>4, <1>5 DEF RecordBootStart, Disks, Pointers
  <2>4. eng' \in [pc : EnginePcs, run : OptPatch]
    BY <1>5, <2>2 DEF EnginePcs
  <2>5. QED BY <1>3, <1>7, <2>2, <2>3, <2>4
<1>10. CASE SplitLaunchSuccess
  <2>1. eng' \in [pc : EnginePcs, run : OptPatch]
    BY <1>3, <1>10 DEF SplitLaunchSuccess, EnginePcs
  <2>2. CASE p.booting = None
    BY <1>2, <1>3, <1>7, <1>10, <2>1, <2>2 DEF SplitLaunchSuccess
  <2>3. CASE p.booting # None
    <3>1. RecordBootSuccess(v) \in Disks
      BY <1>4, <2>3, BootSuccessType
    <3>2. QED BY <1>1, <1>2, <1>7, <1>10, <2>1, <2>3, <3>1 DEF SplitLaunchSuccess
  <2>4. QED BY <2>2, <2>3
<1>11. CASE SplitLaunchFailure
  <2>1. eng' \in [pc : EnginePcs, run : OptPatch]
    BY <1>3, <1>11 DEF SplitLaunchFailure, EnginePcs
  <2>2. CASE p.booting = None
    BY <1>2, <1>3, <1>7, <1>11, <2>1, <2>2 DEF SplitLaunchFailure
  <2>3. CASE p.booting # None
    <3>1. RecordBootFailure(v, p.booting) \in Disks
      BY <1>4, <1>5, <2>3, BootFailureType DEF OptPatch
    <3>2. QED BY <1>1, <1>2, <1>7, <1>11, <2>1, <2>3, <3>1 DEF SplitLaunchFailure
  <2>4. QED BY <2>2, <2>3
<1>12. QED BY <1>8, <1>9, <1>10, <1>11

LEMMA UpdateSectionType ==
    ASSUME SplitTypeInv, NEW u \in Updaters,
           \/ SplitApplyRollbacks(u) \/ SplitSizeMismatch(u)
           \/ SplitRejectPatch(u)    \/ SplitInstallPatch(u)
    PROVE  SplitTypeInv'
<1>1. PICK v : v = View(u)
  OBVIOUS
<1>2. PICK n : n = upd[u].patch
  OBVIOUS
<1>3. /\ u \in Threads /\ InSection(u) /\ UNCHANGED <<eng, chk, server>>
      /\ TypeInv /\ CallersOK /\ disk \in Disks
      /\ eng \in [pc : EnginePcs, run : OptPatch] /\ chk \in SUBSET Patches
  BY DEF SplitApplyRollbacks, SplitSizeMismatch, SplitRejectPatch, SplitInstallPatch, Remove,
         Threads, SplitTypeInv, TypeInv, TypeOK
<1>4. v \in Disks
  BY <1>1, <1>3, ViewType
<1>5. CallersOK'
  <2>1. CASE Return(u)
    BY <1>3, <2>1, ReturnOK
  <2>2. CASE UNCHANGED upd
    BY <1>3, <2>2 DEF CallersOK
  <2>3. CASE SplitApplyRollbacks(u) /\ upd[u].patch # None /\ Goto(u, "decide")
    <3>1. upd[u].patch \in Patches /\ "decide" \in UpdatePcs
      BY <1>3, <2>3 DEF CallersOK, Callers, OptPatch, UpdatePcs
    <3>2. QED BY <1>3, <2>3, <3>1, GotoOK
  <2>4. QED
    BY <2>1, <2>2, <2>3
    DEF SplitApplyRollbacks, AfterRollbacks, SplitSizeMismatch, SplitRejectPatch,
        SplitInstallPatch
<1>6. ASSUME NEW d \in Disks, NEW s \in BOOLEAN, Close(u, d, s) PROVE SplitTypeInv'
  BY <1>3, <1>5, <1>6, CloseType, RestType DEF SplitTypeInv
<1>7. ASSUME NEW d \in Disks, CloseDirty(u, d) PROVE SplitTypeInv'
  BY <1>6, <1>7 DEF CloseDirty
<1>8. CASE SplitApplyRollbacks(u) \/ SplitSizeMismatch(u)
  <2>1. disk' \in Disks /\ MemOK'
    BY <1>3, <1>8, RemoveType DEF SplitApplyRollbacks, SplitSizeMismatch
  <2>2. QED BY <1>3, <1>5, <2>1, RestType DEF SplitTypeInv
<1>9. CASE SplitRejectPatch(u)
  BY <1>1, <1>4, <1>7, <1>9, MarkBadAndRecomputeType
  DEF SplitRejectPatch, Reason, BadReasons
<1>10. CASE SplitInstallPatch(u)
  <2>1. n \in Patches
    BY <1>2, <1>3, <1>10 DEF SplitInstallPatch, CallersOK
  <2>2. PICK c \in BOOLEAN : c = (disk.art[n] # "absent" /\ CanCompleteInstall(disk, n))
    OBVIOUS
  <2>3. Close(u, IF c THEN Install(v, n) ELSE disk, c)
    BY <1>1, <1>2, <1>10, <2>2 DEF SplitInstallPatch
  <2>4. Install(v, n) \in Disks
    BY <1>4, <2>1, InstallType
  <2>5. QED BY <1>3, <1>6, <2>3, <2>4
<1>11. QED BY <1>8, <1>9, <1>10

LEMMA CheckSectionType == ASSUME SplitTypeInv, SplitCheckRollbacks PROVE SplitTypeInv'
<1>1. /\ "check" \in Threads /\ Remove("check") /\ InSection("check")
      /\ UNCHANGED <<eng, upd, server>> /\ chk' \in {{}, chk}
      /\ TypeInv /\ chk \in SUBSET Patches /\ eng \in [pc : EnginePcs, run : OptPatch]
  BY DEF SplitCheckRollbacks, Remove, Threads, SplitTypeInv, TypeInv, TypeOK
<1>2. CallersOK'
  BY <1>1 DEF TypeInv, CallersOK
<1>3. disk' \in Disks /\ MemOK'
  BY <1>1, RemoveType
<1>4. QED BY <1>1, <1>2, <1>3, RestType DEF SplitTypeInv

(* With no rollback in the response, update() goes on as in Updater. *)
LEMMA NoRollbacksIsStep == ASSUME NEW u \in Updaters, NoRollbacks(u) PROVE UpdateStep(u)
BY DEF NoRollbacks, AfterRollbacks, UpdateStep, ApplyRollbacks, Uninstall

(* Every other step is one of Updater, or leaves what Updater sees alone. *)
UnsplitStep ==
    \/ \E n \in Patches : Publish(n) \/ RollBack(n)
    \/ Start \/ CheckAsk
    \/ \E u \in Updaters : UnsplitUpdateStep(u) \/ NoRollbacks(u)

LEMMA StepKinds ==
    ASSUME [SectionsNext]_svars
    PROVE  \/ UnsplitStep /\ UNCHANGED <<mem, left, seen>>
           \/ UNCHANGED svars
           \/ SplitKill
           \/ \E t \in Threads : Load(t) \/ Look(t)
           \/ SplitValidate \/ SplitLaunchStart \/ SplitLaunchSuccess \/ SplitLaunchFailure
           \/ SplitCheckRollbacks
           \/ \E u \in Updaters : \/ SplitApplyRollbacks(u) \/ SplitSizeMismatch(u)
                                  \/ SplitRejectPatch(u)    \/ SplitInstallPatch(u)
BY DEF SectionsNext, UnsplitStep, SplitEngineStep, SplitCheckStep, CheckSection,
       SplitUpdateStep, NoRollbacks, Threads

LEMMA UnsplitIsNext == ASSUME UnsplitStep PROVE Next
<1>1. ASSUME NEW u \in Updaters, UnsplitUpdateStep(u) PROVE UpdateStep(u)
  BY <1>1 DEF UnsplitUpdateStep, UpdateStep
<1>2. QED BY <1>1, NoRollbacksIsStep DEF UnsplitStep, Next, EngineStep

LEMMA SectionsStepType == ASSUME SplitTypeInv, [SectionsNext]_svars PROVE SplitTypeInv'
<1>1. CASE UnsplitStep /\ UNCHANGED <<mem, left, seen>>
  BY <1>1, UnsplitIsNext, StepType DEF SplitTypeInv, MemOK
<1>2. CASE UNCHANGED svars
  BY <1>2, StepType DEF SplitTypeInv, MemOK, svars
<1>3. CASE SplitKill
  <2>1. TypeInv'
    BY <1>3, StepType DEF SplitTypeInv, SplitKill, Next
  <2>2. MemOK'
    BY <1>3 DEF MemOK, SplitKill, NoMem, NoLeft, NoSeen
  <2>3. QED BY <2>1, <2>2 DEF SplitTypeInv
<1>4. ASSUME NEW t \in Threads, Load(t) PROVE SplitTypeInv'
  <2>1. TypeInv' /\ disk.ptr \in Pointers
    BY <1>4, StepType DEF SplitTypeInv, Load, TypeInv, TypeOK, Disks
  <2>2. Doomed(t) \subseteq Patches
    <3>1. chk \subseteq Patches /\ CallersOK
      BY DEF SplitTypeInv, TypeInv, TypeOK
    <3>2. t \in Updaters => upd[t].rolled \subseteq Patches
      BY <3>1 DEF CallersOK, Callers
    <3>3. t \in Updaters /\ upd[t].pc = "mismatch" => upd[t].patch \in Patches
      BY <3>1 DEF CallersOK
    <3>4. QED BY <3>1, <3>2, <3>3, ThreadsAssumption DEF Doomed, Threads
  <2>3. MemOK'
    BY <1>4, <2>1, <2>2 DEF SplitTypeInv, MemOK, Load
  <2>4. QED BY <2>1, <2>3 DEF SplitTypeInv
<1>5. ASSUME NEW t \in Threads, Look(t) PROVE SplitTypeInv'
  <2>1. TypeInv' /\ MemOK
    BY <1>5, StepType DEF SplitTypeInv, Look
  <2>2. PICK n \in left[t] :
           /\ left' = [left EXCEPT ![t] = @ \ {n}]
           /\ seen' = [seen EXCEPT ![t] = [patch |-> n, bad |-> IsBad(disk, n)]]
           /\ mem' = mem
    BY <1>5 DEF Look
  <2>3. PICK b \in BOOLEAN : b = IsBad(disk, n)
    BY DEF IsBad, IsKind
  <2>4. [patch |-> n, bad |-> b] \in Looks
    BY <2>1, <2>2 DEF MemOK, Looks
  <2>5. MemOK'
    BY <2>1, <2>2, <2>3, <2>4 DEF MemOK
  <2>6. QED BY <2>1, <2>5 DEF SplitTypeInv
<1>6. QED
  BY <1>1, <1>2, <1>3, <1>4, <1>5, StepKinds, EngineSectionType, UpdateSectionType,
     CheckSectionType

LEMMA SectionsInitType == SectionsInit => SplitTypeInv
BY InitType DEF SectionsInit, SplitTypeInv, MemOK, NoMem, NoLeft, NoSeen

(* In every reachable state the pointers on disk and those a section holds *)
(* name patches of the release, whatever sections overlap.                 *)
THEOREM SectionsTypes == SectionsSpec => []SectionsTypeOK
<1>1. SplitTypeInv => SectionsTypeOK
  BY DEF SplitTypeInv, MemOK, TypeInv, SectionsTypeOK
<1>2. QED BY SectionsInitType, SectionsStepType, <1>1, PTL DEF SectionsSpec

-----------------------------------------------------------------------------
(***************************************************************************)
(* Who is in a section with whom.                                          *)
(***************************************************************************)
SInv == SplitTypeInv /\ SplitInv

LEMMA AtSectionIs ==
    /\ AtSection("engine") <=> eng.pc \in {"up", "validated", "launching"}
    /\ AtSection("check") <=> chk # {}
    /\ \A u \in Updaters :
          /\ u # "engine" /\ u # "check"
          /\ AtSection(u) <=>
                \/ upd[u].pc = "rollback" /\ upd[u].rolled # {}
                \/ upd[u].pc \in {"mismatch", "bad_bytes", "bad_hash", "install"}
BY ThreadsAssumption DEF AtSection

LEMMA AtSectionIsNext ==
    /\ AtSection("engine")' <=> eng'.pc \in {"up", "validated", "launching"}
    /\ AtSection("check")' <=> chk' # {}
    /\ \A u \in Updaters :
          AtSection(u)' <=>
                \/ upd'[u].pc = "rollback" /\ upd'[u].rolled # {}
                \/ upd'[u].pc \in {"mismatch", "bad_bytes", "bad_hash", "install"}
BY ThreadsAssumption DEF AtSection

LEMMA DoomedIs ==
    /\ Doomed("engine") = {} /\ Doomed("check") = chk
    /\ \A u \in Updaters :
          Doomed(u) = CASE upd[u].pc = "rollback" -> upd[u].rolled
                        [] upd[u].pc = "mismatch" -> {upd[u].patch}
                        [] OTHER                  -> {}
BY ThreadsAssumption DEF Doomed

LEMMA DoomedIsNext ==
    /\ Doomed("engine")' = {} /\ Doomed("check")' = chk'
    /\ \A u \in Updaters :
          Doomed(u)' = CASE upd'[u].pc = "rollback" -> upd'[u].rolled
                         [] upd'[u].pc = "mismatch" -> {upd'[u].patch}
                         [] OTHER                   -> {}
BY ThreadsAssumption DEF Doomed

(* A thread that removes nothing holds nothing to remove. *)
LEMMA NothingHeld ==
    ASSUME SInv, NEW t \in Threads, Doomed(t) = {}
    PROVE  left[t] = {} /\ seen[t] = None
BY DEF SInv, SplitInv, RemovesDoomed

(* What the other threads are removing is not changed by t's step. *)
LEMMA OthersRemove ==
    ASSUME SInv, NEW t \in Threads,
           \A u \in Updaters \ {t} : upd'[u] = upd[u], t = "check" \/ UNCHANGED chk,
           \A x \in Threads \ {t} : mem'[x] = mem[x] /\ left'[x] = left[x] /\ seen'[x] = seen[x],
           left'[t] \subseteq Doomed(t)',
           seen'[t] # None => mem'[t] # None /\ seen'[t].patch \in Doomed(t)' \ left'[t]
    PROVE  RemovesDoomed'
<1> SUFFICES ASSUME NEW x \in Threads \ {t}
             PROVE  /\ left'[x] \subseteq Doomed(x)'
                    /\ seen'[x] # None => mem'[x] # None /\ seen'[x].patch \in Doomed(x)' \ left'[x]
  BY DEF RemovesDoomed
<1>1. Doomed(x)' = Doomed(x)
  <2>1. CASE x = "check"
    BY <2>1, DoomedIs, DoomedIsNext
  <2>2. CASE x = "engine"
    BY <2>2, DoomedIs, DoomedIsNext
  <2>3. CASE x \in Updaters
    <3>1. upd'[x] = upd[x]
      BY <2>3
    <3>2. QED BY <2>3, <3>1, DoomedIs, DoomedIsNext
  <2>4. QED BY <2>1, <2>2, <2>3 DEF Threads
<1>2. left'[x] \subseteq Doomed(x)'
  BY <1>1 DEF SInv, SplitInv, RemovesDoomed
<1>3. seen'[x] # None => mem'[x] # None /\ seen'[x].patch \in Doomed(x)' \ left'[x]
  BY <1>1 DEF SInv, SplitInv, RemovesDoomed
<1>4. QED BY <1>2, <1>3

(* The engine's sections and the others exclude each other. *)
LEMMA EngineIsAlone ==
    ASSUME SInv
    PROVE  /\ BootsAreOver => mem["engine"] = None
           /\ ~BootsAreOver =>
                 /\ \A u \in Updaters : upd[u].pc = "idle"
                 /\ \A t \in Threads \ {"engine"} : mem[t] = None
<1>1. OpenSections /\ UpdatesAfterBoot
  BY DEF SInv, SplitInv, SerialInv
<1>2. "engine" \in Threads
  BY DEF Threads
<1>3. ASSUME BootsAreOver PROVE mem["engine"] = None
  BY <1>1, <1>2, <1>3, AtSectionIs DEF OpenSections, BootsAreOver
<1>4. ASSUME ~BootsAreOver, NEW t \in Threads \ {"engine"} PROVE mem[t] = None
  <2>1. ~AtSection(t)
    BY <1>1, <1>4, AtSectionIs DEF UpdatesAfterBoot, Threads
  <2>2. QED BY <1>1, <1>4, <2>1 DEF OpenSections
<1>5. QED BY <1>1, <1>3, <1>4 DEF UpdatesAfterBoot

(* A section of the engine is the step of Updater that it splits. *)
LEMMA EngineSectionIsStep ==
    ASSUME SInv, SplitValidate \/ SplitLaunchStart \/ SplitLaunchSuccess \/ SplitLaunchFailure
    PROVE  /\ EngineStep /\ eng.pc \in {"up", "validated", "launching"}
           /\ mem' = [mem EXCEPT !["engine"] = None] /\ UNCHANGED <<left, seen>>
<1>1. /\ disk \in Disks /\ OpenSections /\ "engine" \in Threads /\ InSection("engine")
      /\ eng.pc \in {"up", "validated", "launching"}
      /\ mem' = [mem EXCEPT !["engine"] = None] /\ UNCHANGED <<left, seen>>
  BY DEF SInv, SplitInv, SplitTypeInv, TypeInv, TypeOK, Threads, Close, CloseDirty,
         SplitValidate, SplitLaunchStart, SplitLaunchSuccess, SplitLaunchFailure
<1>2. mem["engine"] = disk.ptr
  BY <1>1 DEF OpenSections, InSection
<1>3. View("engine") = disk
  BY <1>1, <1>2 DEF View, Disks
<1>4. ASSUME NEW d \in Disks, CloseDirty("engine", d) PROVE disk' = d
  <2>1. d.ptr = disk.ptr => [d EXCEPT !.ptr = disk.ptr] = d
    BY DEF Disks
  <2>2. QED BY <1>2, <1>4, <2>1 DEF CloseDirty, Close
<1>5. \A d : Close("engine", d, TRUE) => disk' = d
  BY DEF Close
<1>6. Close("engine", disk, FALSE) => disk' = disk
  BY <1>1 DEF Close, Disks
<1>7. CASE SplitValidate
  <2>1. ValidateNextBoot(disk) \in Disks
    BY <1>1, ValidateType
  <2>2. disk' = ValidateNextBoot(disk)
    BY <1>3, <1>4, <1>7, <2>1 DEF SplitValidate
  <2>3. ValidateNextBootPatch
    BY <1>7, <2>2 DEF SplitValidate, ValidateNextBootPatch
  <2>4. QED BY <1>1, <2>3 DEF EngineStep
<1>8. CASE SplitLaunchStart
  <2>1. PICK c \in BOOLEAN : c = CanRecordBootStart(disk, disk.ptr.next)
    BY DEF CanRecordBootStart, IsInstalled, IsKind
  <2>2. /\ Close("engine", IF c THEN RecordBootStart(disk, disk.ptr.next) ELSE disk, c)
        /\ eng' = [pc |-> "launching", run |-> disk.ptr.next]
    BY <1>2, <1>3, <1>8, <2>1 DEF SplitLaunchStart
  <2>3. disk' = IF c THEN RecordBootStart(disk, disk.ptr.next) ELSE disk
    BY <1>5, <1>6, <2>2
  <2>4. ReportLaunchStart
    BY <1>8, <2>1, <2>2, <2>3 DEF SplitLaunchStart, ReportLaunchStart
  <2>5. QED BY <1>1, <2>4 DEF EngineStep
<1>9. CASE SplitLaunchSuccess
  <2>1. disk' = IF disk.ptr.booting = None THEN disk ELSE RecordBootSuccess(disk)
    BY <1>2, <1>3, <1>5, <1>6, <1>9 DEF SplitLaunchSuccess
  <2>2. ReportLaunchSuccess
    BY <1>9, <2>1 DEF SplitLaunchSuccess, ReportLaunchSuccess
  <2>3. QED BY <1>1, <2>2 DEF EngineStep
<1>10. CASE SplitLaunchFailure
  <2>1. disk' = IF disk.ptr.booting = None THEN disk
                ELSE RecordBootFailure(disk, disk.ptr.booting)
    BY <1>2, <1>3, <1>5, <1>6, <1>10 DEF SplitLaunchFailure
  <2>2. ReportLaunchFailure
    BY <1>10, <2>1 DEF SplitLaunchFailure, ReportLaunchFailure
  <2>3. QED BY <1>1, <2>2 DEF EngineStep
<1>11. QED BY <1>7, <1>8, <1>9, <1>10

-----------------------------------------------------------------------------
(***************************************************************************)
(* What a section of update() or of a check leaves, whatever it loaded.    *)
(***************************************************************************)
(* A section is about to remove m by what it read before m was tombstoned. *)
Overlooked(m) ==
    m \in server.rolled /\ \E t \in Threads : seen[t] = [patch |-> m, bad |-> FALSE]

(* No tombstone is lost but an overlooked one, the fallback is kept, no    *)
(* boot is under way and next_boot_patch moves only to what is Installed,  *)
(* never to a tombstone.                                                   *)
Leaves(e) ==
    /\ \A m \in Patches : IsBad(disk, m) => IsBad(e, m) \/ Overlooked(m)
    /\ \A l \in Patches \ server.rolled :
          /\ e.ptr.last = l <=> disk.ptr.last = l
          /\ disk.ptr.last = l => IsInstalled(e, l) \/ IsBad(e, l)
    /\ e.ptr.booting = None
    /\ e.ptr.next \in {disk.ptr.next, None} \/ IsInstalled(e, e.ptr.next)
    /\ ~IsBad(e, e.ptr.next)

(* What an open section of update() or of a check has loaded. *)
LEMMA Loaded ==
    ASSUME SInv, NEW t \in Threads, t # "engine", InSection(t)
    PROVE  /\ BootsAreOver /\ disk.ptr.booting = None /\ mem[t].booting = None
           /\ \A l \in Patches \ server.rolled :
                 /\ mem[t].last = l <=> disk.ptr.last = l
                 /\ disk.ptr.last = l => IsInstalled(disk, l) \/ IsBad(disk, l)
<1>1. BootsAreOver
  BY EngineIsAlone DEF InSection
<1>2. disk.ptr.booting = None
  BY <1>1 DEF SInv, SplitInv, SerialInv, BootMarker, BootsAreOver
<1>3. mem[t].booting = None
  BY DEF SInv, SplitInv, OpenSections, InSection
<1>4. ASSUME NEW l \in Patches \ server.rolled
      PROVE  /\ mem[t].last = l <=> disk.ptr.last = l
             /\ disk.ptr.last = l => IsInstalled(disk, l) \/ IsBad(disk, l)
  BY DEF SInv, SplitInv, SerialInv, LastAgrees, FallbackSettled, InSection
<1>5. QED BY <1>1, <1>2, <1>3, <1>4

(* What a section removes is rolled back, or neither Installed nor Bad. *)
Removable(n) == n \in server.rolled \/ (~IsInstalled(disk, n) /\ ~IsBad(disk, n))

(* While it has more to remove, the section goes on with pointers that     *)
(* agree with those on disk on the fallback.                               *)
LEMMA RemoveLeaves ==
    ASSUME SInv, NEW t \in Threads, t # "engine", Remove(t), Removable(seen[t].patch)
    PROVE  /\ Leaves(disk')
           /\ \A m \in Patches : \/ disk'.state[m] = disk.state[m]
                                 \/ disk'.state[m] = Unknown
           /\ mem'[t] # None =>
                 /\ left[t] # {} /\ mem'[t].booting = None
                 /\ \A l \in Patches \ server.rolled : mem'[t].last = l <=> disk'.ptr.last = l
<1>1. PICK v : v = View(t)
  OBVIOUS
<1>2. PICK d : d = Uninstalled(t)
  OBVIOUS
<1>3. PICK n : n = seen[t].patch
  OBVIOUS
<1>4. /\ InSection(t) /\ seen[t] # None /\ disk \in Disks /\ ~IsBad(disk, disk.ptr.next)
      /\ SplitTypeInv /\ seen[t] \in Looks /\ Removable(n)
  BY <1>3 DEF Remove, SInv, SplitInv, SplitTypeInv, MemOK, TypeInv, TypeOK, NextNotTombstoned
<1>5. v.ptr = mem[t]
  BY <1>1, <1>4, ViewType
<1>6. /\ d \in Disks /\ n \in Patches
      /\ \A m \in Patches : \/ d.state[m] = disk.state[m]
                            \/ m = n /\ ~seen[t].bad /\ d.state[m] = Unknown
      /\ LastKept(v, d) /\ d.ptr.booting = mem[t].booting
      /\ d.ptr.next = None \/ IsInstalled(d, d.ptr.next)
  BY <1>1, <1>2, <1>3, <1>4, UninstalledEffect
<1>7. /\ mem'[t] = IF left[t] = {} THEN None ELSE d.ptr
      /\ disk'.state = d.state
      /\ disk'.ptr = IF d.ptr # mem[t] THEN d.ptr ELSE disk.ptr
  BY <1>2, <1>4, RemoveType
<1>8. \A m : (IsInstalled(disk', m) <=> IsInstalled(d, m)) /\ (IsBad(disk', m) <=> IsBad(d, m))
  BY <1>7 DEF IsInstalled, IsBad, IsKind
<1>9. /\ \A m \in Patches \ {n} : /\ IsInstalled(disk, m) <=> IsInstalled(disk', m)
                                  /\ IsBad(disk, m) <=> IsBad(disk', m)
      /\ \A m \in Patches : IsBad(disk', m) => IsBad(disk, m)
  BY <1>6, <1>7 DEF IsInstalled, IsBad, IsKind, Unknown
<1>10. \A m \in Patches : IsBad(disk, m) => IsBad(disk', m) \/ Overlooked(m)
  <2> SUFFICES ASSUME NEW m \in Patches, IsBad(disk, m), ~IsBad(disk', m) PROVE Overlooked(m)
    OBVIOUS
  <2>1. m = n /\ ~seen[t].bad
    BY <1>6, <1>7 DEF IsBad, IsKind
  <2>2. seen[t] = [patch |-> n, bad |-> FALSE]
    BY <1>3, <1>4, <2>1 DEF Looks
  <2>3. m \in server.rolled
    BY <1>4, <2>1 DEF Removable
  <2>4. QED BY <2>1, <2>2, <2>3 DEF Overlooked
<1>11. ASSUME NEW l \in Patches \ server.rolled
       PROVE  /\ d.ptr.last = l <=> disk.ptr.last = l
              /\ disk'.ptr.last = l <=> disk.ptr.last = l
              /\ disk.ptr.last = l => IsInstalled(disk', l) \/ IsBad(disk', l)
  <2>1. disk.ptr.last = l => IsInstalled(disk, l) \/ IsBad(disk, l)
    BY <1>4, Loaded
  <2>2. disk.ptr.last = l => IsInstalled(disk', l) \/ IsBad(disk', l)
    BY <1>4, <1>9, <2>1 DEF Removable
  <2>3. v.ptr.last = l <=> disk.ptr.last = l
    BY <1>4, <1>5, Loaded
  <2>4. d.ptr.last = l <=> v.ptr.last = l
    BY <1>6, <1>8, <2>2, <2>3, NoneAssumption DEF LastKept
  <2>5. QED BY <1>7, <2>2, <2>3, <2>4
<1>12. d.ptr.booting = None /\ disk'.ptr.booting = None
  BY <1>4, <1>6, <1>7, Loaded
<1>13. /\ disk'.ptr.next \in {disk.ptr.next, None} \/ IsInstalled(disk', disk'.ptr.next)
       /\ ~IsBad(disk', disk'.ptr.next)
  <2>1. disk'.ptr.next \in {d.ptr.next, disk.ptr.next}
    BY <1>7
  <2>2. \A m : IsBad(disk', m) => IsBad(disk, m)
    BY <1>9 DEF IsBad, IsKind
  <2>3. CASE disk'.ptr.next = disk.ptr.next
    BY <1>4, <2>2, <2>3
  <2>4. CASE disk'.ptr.next = d.ptr.next
    BY <1>6, <1>8, <2>4, NoneAssumption DEF IsInstalled, IsBad, IsKind
  <2>5. QED BY <2>1, <2>3, <2>4
<1>14. Leaves(disk')
  BY <1>10, <1>11, <1>12, <1>13 DEF Leaves
<1>15. \A m \in Patches : disk'.state[m] = disk.state[m] \/ disk'.state[m] = Unknown
  BY <1>6, <1>7
<1>16. mem'[t] # None =>
          /\ left[t] # {} /\ mem'[t].booting = None
          /\ \A l \in Patches \ server.rolled : mem'[t].last = l <=> disk'.ptr.last = l
  BY <1>7, <1>11, <1>12
<1>17. QED BY <1>14, <1>15, <1>16

(* Rejecting the patch in work: when the loaded pointers do not schedule   *)
(* it, those on disk do not either (NextIsSeen).                           *)
LEMMA RejectCloses ==
    ASSUME SInv, NEW u \in Updaters, InSection(u), Working(u), NEW r \in BadReasons,
           CloseDirty(u, MarkBadAndRecompute(View(u), upd[u].patch, r))
    PROVE  Leaves(disk')
<1>1. PICK v : v = View(u)
  OBVIOUS
<1>2. PICK n : n = upd[u].patch
  OBVIOUS
<1>3. /\ u \in Threads /\ u # "engine"
      /\ v \in Disks /\ v.ptr = mem[u] /\ v.state = disk.state /\ disk \in Disks
      /\ ~IsBad(disk, disk.ptr.next) /\ n \in Patches
      /\ ~IsInstalled(disk, n) /\ ~IsBad(disk, n)
      /\ disk.ptr.next = n => v.ptr.next = n
  BY <1>1, <1>2, ViewType, ThreadsAssumption
  DEF SInv, SplitInv, SplitTypeInv, SerialInv, UpdatesAfterBoot, NextIsSeen, TypeInv, TypeOK,
      CallersOK, NextNotTombstoned, Threads, Working, InSection
<1>4. PICK d : d = MarkBadAndRecompute(v, n, r)
  OBVIOUS
<1>5. /\ d \in Disks /\ Marks(v, d, n) /\ LastKept(v, d) /\ d.ptr.booting = v.ptr.booting
      /\ d.ptr.next # None => IsInstalled(d, d.ptr.next)
  BY <1>3, <1>4, MarkBadAndRecomputeType, MarkBadAndRecomputeMarks
<1>6. Close(u, d, d.ptr # v.ptr)
  BY <1>1, <1>2, <1>3, <1>4 DEF CloseDirty
<1>7. /\ disk'.state = d.state
      /\ disk'.ptr = IF d.ptr # v.ptr THEN d.ptr ELSE disk.ptr
  BY <1>3, <1>5, <1>6, CloseType DEF SInv
<1>8. /\ \A m \in Patches \ {n} : disk'.state[m] = disk.state[m]
      /\ IsBad(disk', n)
  BY <1>3, <1>5, <1>7 DEF Marks, IsBad, IsKind
<1>9. \A m : (IsInstalled(disk', m) <=> IsInstalled(d, m)) /\ (IsBad(disk', m) <=> IsBad(d, m))
  BY <1>7 DEF IsInstalled, IsBad, IsKind
<1>10. \A m \in Patches : IsBad(disk, m) => IsBad(disk', m)
  BY <1>8 DEF IsBad, IsKind
<1>11. ASSUME NEW l \in Patches \ server.rolled
       PROVE  /\ disk'.ptr.last = l <=> disk.ptr.last = l
              /\ disk.ptr.last = l => IsInstalled(disk', l) \/ IsBad(disk', l)
  <2>1. disk.ptr.last = l => IsInstalled(disk', l) \/ IsBad(disk', l)
    BY <1>3, <1>8, Loaded DEF IsInstalled, IsBad, IsKind
  <2>2. v.ptr.last = l <=> disk.ptr.last = l
    BY <1>3, Loaded
  <2>3. d.ptr.last = l <=> v.ptr.last = l
    BY <1>5, <1>9, <2>1, <2>2, NoneAssumption DEF LastKept
  <2>4. QED BY <1>7, <2>1, <2>2, <2>3
<1>12. disk'.ptr.booting = None
  BY <1>3, <1>5, <1>7, Loaded
<1>13. /\ disk'.ptr.next \in {disk.ptr.next, None} \/ IsInstalled(disk', disk'.ptr.next)
       /\ ~IsBad(disk', disk'.ptr.next)
  <2>1. CASE d.ptr # v.ptr
    <3>1. disk'.ptr.next = d.ptr.next
      BY <1>7, <2>1
    <3>2. ~IsBad(d, d.ptr.next)
      BY <1>5, NoneAssumption DEF IsInstalled, IsBad, IsKind
    <3>3. QED BY <1>5, <1>9, <3>1, <3>2
  <2>2. CASE d.ptr = v.ptr
    <3>1. disk'.ptr.next = disk.ptr.next /\ d.ptr.next = v.ptr.next
      BY <1>7, <2>2
    <3>2. disk.ptr.next # n
      BY <1>3, <1>5, <1>8, <1>9, <3>1, NoneAssumption DEF IsInstalled, IsBad, IsKind
    <3>3. QED BY <1>3, <1>8, <3>1, <3>2 DEF IsBad, IsKind
  <2>3. QED BY <2>1, <2>2
<1>14. QED BY <1>10, <1>11, <1>12, <1>13 DEF Leaves

(* Installing displaces the next patch that was loaded, not the fallback. *)
LEMMA InstallCloses ==
    ASSUME SInv, NEW u \in Updaters, InSection(u), Working(u),
           CanCompleteInstall(disk, upd[u].patch),
           Close(u, Install(View(u), upd[u].patch), TRUE)
    PROVE  Leaves(disk')
<1>1. PICK v : v = View(u)
  OBVIOUS
<1>2. PICK n : n = upd[u].patch
  OBVIOUS
<1>3. /\ u \in Threads /\ u # "engine"
      /\ v \in Disks /\ v.ptr = mem[u] /\ v.state = disk.state /\ n \in Patches
      /\ ~IsInstalled(disk, n) /\ ~IsBad(disk, n)
  BY <1>1, <1>2, ViewType, ThreadsAssumption
  DEF SInv, SplitInv, SplitTypeInv, SerialInv, UpdatesAfterBoot, TypeInv, TypeOK,
      CallersOK, Threads, Working, InSection
<1>4. PICK d : d = Install(v, n)
  OBVIOUS
<1>5. /\ d \in Disks /\ IsInstalled(d, n)
      /\ \A m \in Patches \ {n} :
            \/ d.state[m] = v.state[m]
            \/ m # v.ptr.last /\ ~IsBad(v, m) /\ d.state[m] = Unknown
      /\ d.ptr.last = v.ptr.last /\ d.ptr.booting = v.ptr.booting /\ d.ptr.next = n
      /\ ~IsBad(d, n)
  <2>1. /\ IsInstalled(d, n)
        /\ \A m \in Patches \ {n} :
              \/ d.state[m] = v.state[m]
              \/ m # v.ptr.last /\ ~IsBad(v, m) /\ d.state[m] = Unknown
        /\ d.ptr.last = v.ptr.last /\ d.ptr.booting = v.ptr.booting
    BY <1>3, <1>4, InstallEffect
  <2>2. d.ptr.next = n /\ ~IsBad(d, n)
    BY <1>3, <1>4, InstallGains
  <2>3. d \in Disks
    BY <1>3, <1>4, InstallType
  <2>4. QED BY <2>1, <2>2, <2>3
<1>6. Close(u, d, TRUE)
  BY <1>1, <1>2, <1>4
<1>7. disk' = d
  BY <1>6 DEF Close
<1>8. \A m \in Patches : IsBad(disk, m) => IsBad(disk', m)
  BY <1>3, <1>5, <1>7 DEF IsBad, IsKind
<1>9. ASSUME NEW l \in Patches \ server.rolled
      PROVE  /\ disk'.ptr.last = l <=> disk.ptr.last = l
             /\ disk.ptr.last = l => IsInstalled(disk', l) \/ IsBad(disk', l)
  <2>1. v.ptr.last = l <=> disk.ptr.last = l
    BY <1>3, Loaded
  <2>2. disk.ptr.last = l => IsInstalled(disk', l) \/ IsBad(disk', l)
    BY <1>3, <1>5, <1>7, <2>1, Loaded DEF IsInstalled, IsBad, IsKind
  <2>3. QED BY <1>5, <1>7, <2>1, <2>2
<1>10. disk'.ptr.booting = None
  BY <1>3, <1>5, <1>7, Loaded
<1>11. QED BY <1>5, <1>7, <1>8, <1>9, <1>10 DEF Leaves

-----------------------------------------------------------------------------
(***************************************************************************)
(* The invariant is inductive.                                             *)
(***************************************************************************)
(* How thread t holds its section after a step inside it, if it still does. *)
StaysOpen(t) ==
    mem'[t] # None =>
        /\ AtSection(t)' /\ mem'[t].booting = None
        /\ \A l \in Patches \ server.rolled : mem'[t].last = l <=> disk'.ptr.last = l
        /\ t \in Updaters => ~Working(t)'

(* Thread t ends its section, or a part of it; the others stay where they are. *)
LEMMA SectionGoesOn ==
    ASSUME SInv, NEW t \in Threads, t # "engine", InSection(t), Leaves(disk'),
           StaysOpen(t), \A x \in Threads \ {t} : mem'[x] = mem[x], UNCHANGED <<eng, server>>,
           \A u \in Updaters \ {t} : upd'[u] = upd[u], t = "check" \/ UNCHANGED chk,
           UpdatesAfterBoot', OneUpdate', RemovesDoomed'
    PROVE  SplitInv'
<1>1. OpenSections /\ LastAgrees /\ NextIsSeen
  BY DEF SInv, SplitInv
<1>2. \A x \in Threads \ {t} : mem'[x] = mem[x]
  OBVIOUS
<1>3. BootsAreOver /\ mem["engine"] = None
  BY Loaded, EngineIsAlone
<1>4. SerialInv'
  <2>1. BootMarker'
    BY DEF Leaves, BootMarker
  <2>2. FallbackSettled'
    BY DEF Leaves, FallbackSettled
  <2>3. ValidatedNextInstalled'
    BY <1>3 DEF ValidatedNextInstalled, BootsAreOver
  <2>4. QED BY <2>1, <2>2, <2>3 DEF SerialInv
<1>5. OpenSections'
  <2> SUFFICES ASSUME NEW x \in Threads, mem'[x] # None
               PROVE  /\ AtSection(x)'
                      /\ x = "engine" => mem'[x] = disk'.ptr
                      /\ x # "engine" => mem'[x].booting = None
    BY DEF OpenSections
  <2>1. CASE x = t
    BY <2>1 DEF StaysOpen
  <2>2. CASE x # t
    <3>1. x # "engine" /\ mem'[x] = mem[x] /\ AtSection(x) /\ mem[x].booting = None
      BY <1>1, <1>2, <1>3, <2>2 DEF OpenSections
    <3>2. CASE x = "check"
      BY <2>2, <3>1, <3>2, AtSectionIs, AtSectionIsNext
    <3>3. CASE x \in Updaters
      BY <2>2, <3>1, <3>3, AtSectionIs, AtSectionIsNext
    <3>4. QED BY <3>1, <3>2, <3>3 DEF Threads
  <2>3. QED BY <2>1, <2>2
<1>6. LastAgrees'
  <2> SUFFICES ASSUME NEW x \in Threads, NEW l \in Patches \ server.rolled, mem'[x] # None
               PROVE  mem'[x].last = l <=> disk'.ptr.last = l
    BY DEF LastAgrees
  <2>1. CASE x = t
    BY <2>1 DEF StaysOpen
  <2>2. CASE x # t
    BY <1>1, <1>2, <2>2 DEF LastAgrees, Leaves
  <2>3. QED BY <2>1, <2>2
<1>7. NextIsSeen'
  <2> SUFFICES ASSUME NEW u \in Updaters, Working(u)', mem'[u] # None,
                      disk'.ptr.next = upd'[u].patch
               PROVE  mem'[u].next = upd'[u].patch
    BY DEF NextIsSeen
  <2>1. u \in Threads /\ u # t /\ mem'[u] = mem[u] /\ upd'[u] = upd[u]
    BY <1>2 DEF Threads, StaysOpen
  <2>2. Working(u) /\ upd[u].patch \in Patches
    BY <2>1 DEF Working, SInv, SplitTypeInv, TypeInv, CallersOK
  <2>3. ~IsInstalled(disk', upd[u].patch)
    BY <2>1 DEF UpdatesAfterBoot
  <2>4. disk.ptr.next = upd[u].patch
    BY <2>1, <2>2, <2>3, NoneAssumption DEF Leaves
  <2>5. QED BY <1>1, <2>1, <2>2, <2>4 DEF NextIsSeen
<1>8. NextNotTombstoned'
  BY DEF Leaves, NextNotTombstoned
<1>9. QED BY <1>4, <1>5, <1>6, <1>7, <1>8 DEF SplitInv

(* What a section has looked at to uninstall may be removed. *)
LEMMA UpdateRemovable ==
    ASSUME SInv, NEW u \in Updaters, seen[u] # None
    PROVE  Removable(seen[u].patch)
<1>1. u \in Threads /\ seen[u].patch \in Doomed(u)
  BY DEF SInv, SplitInv, RemovesDoomed, Threads
<1>2. UpdatesAfterBoot
  BY DEF SInv, SplitInv, SerialInv
<1>3. CASE upd[u].pc = "rollback"
  BY <1>1, <1>2, <1>3, DoomedIs DEF UpdatesAfterBoot, Removable
<1>4. CASE upd[u].pc = "mismatch"
  BY <1>1, <1>2, <1>4, DoomedIs DEF UpdatesAfterBoot, Removable, Working
<1>5. QED BY <1>1, <1>3, <1>4, DoomedIs

LEMMA CheckRemovable ==
    ASSUME SInv, seen["check"] # None
    PROVE  Removable(seen["check"].patch)
BY DoomedIs
DEF SInv, SplitInv, SerialInv, UpdatesAfterBoot, RemovesDoomed, Removable, Threads

LEMMA UpdateSectionLeaves ==
    ASSUME SInv, NEW u \in Updaters,
           \/ SplitApplyRollbacks(u) \/ SplitSizeMismatch(u)
           \/ SplitRejectPatch(u)    \/ SplitInstallPatch(u)
    PROVE  Leaves(disk')
<1>1. u \in Threads /\ u # "engine"
  BY ThreadsAssumption DEF Threads
<1>2. CASE SplitApplyRollbacks(u) \/ SplitSizeMismatch(u)
  <2>1. Remove(u) /\ seen[u] # None
    BY <1>2 DEF SplitApplyRollbacks, SplitSizeMismatch, Remove
  <2>2. QED BY <1>1, <2>1, UpdateRemovable, RemoveLeaves
<1>3. CASE SplitRejectPatch(u)
  <2>1. Working(u) /\ Reason(upd[u].pc) \in BadReasons
    BY <1>3 DEF SplitRejectPatch, Working, Reason, BadReasons
  <2>2. QED BY <1>1, <1>3, <2>1, RejectCloses DEF SplitRejectPatch
<1>4. CASE SplitInstallPatch(u)
  <2>1. PICK n : n = upd[u].patch
    OBVIOUS
  <2>2. Working(u) /\ InSection(u)
    BY <1>4 DEF SplitInstallPatch, Working
  <2>3. CASE disk.art[n] # "absent" /\ CanCompleteInstall(disk, n)
    <3>1. Close(u, Install(View(u), n), TRUE)
      BY <1>4, <2>1, <2>3 DEF SplitInstallPatch
    <3>2. QED BY <1>1, <2>1, <2>2, <2>3, <3>1, InstallCloses
  <2>4. CASE ~(disk.art[n] # "absent" /\ CanCompleteInstall(disk, n))
    <3>1. Close(u, disk, FALSE)
      BY <1>4, <2>1, <2>4 DEF SplitInstallPatch
    <3>2. disk' = disk
      BY <3>1 DEF Close, SInv, SplitTypeInv, TypeInv, TypeOK, Disks
    <3>3. ~IsBad(disk, disk.ptr.next)
      BY DEF SInv, SplitInv, NextNotTombstoned
    <3>4. QED BY <1>1, <2>2, <3>2, <3>3, Loaded DEF Leaves
  <2>5. QED BY <2>3, <2>4
<1>5. QED BY <1>2, <1>3, <1>4

(* update() returns or goes on to decide_start; only u moves. *)
LEMMA UpdateSectionMoves ==
    ASSUME SInv, NEW u \in Updaters, upd[u].pc # "idle", UNCHANGED <<eng, chk, server>>,
           Return(u) \/ Goto(u, "decide")
    PROVE  /\ UpdatesAfterBoot' /\ OneUpdate' /\ upd'[u].pc \in {"idle", "decide"}
           /\ \A v \in Updaters \ {u} : upd'[v] = upd[v]
<1>1. /\ upd \in [Updaters -> Callers] /\ UpdatesAfterBoot /\ OneUpdate
  BY DEF SInv, SplitTypeInv, TypeInv, CallersOK, SplitInv, SerialInv
<1>2. /\ upd'[u].pc \in {"idle", "decide"}
      /\ upd'[u].pc # "idle" => upd'[u].rolled = upd[u].rolled
      /\ \A v \in Updaters \ {u} : upd'[v] = upd[v]
  BY <1>1 DEF Return, Goto, Idle, Callers
<1>3. \A v \in Updaters \ {u} : upd[v].pc = "idle"
  BY <1>1 DEF OneUpdate
<1>4. UpdatesAfterBoot' /\ OneUpdate'
  BY <1>1, <1>2, <1>3 DEF UpdatesAfterBoot, OneUpdate, Working, BootsAreOver
<1>5. QED BY <1>2, <1>4

LEMMA RemoveGoesOn ==
    ASSUME SInv, NEW u \in Updaters, SplitApplyRollbacks(u) \/ SplitSizeMismatch(u)
    PROVE  SplitInv'
<1>1. /\ u \in Threads /\ u # "engine" /\ Remove(u) /\ InSection(u) /\ seen[u] # None
      /\ UNCHANGED <<eng, chk, server>> /\ upd[u].pc \in {"rollback", "mismatch"}
      /\ OpenSections /\ RemovesDoomed /\ UpdatesAfterBoot /\ OneUpdate /\ left' = left
  BY ThreadsAssumption
  DEF Threads, SplitApplyRollbacks, SplitSizeMismatch, Remove, SInv, SplitInv, SerialInv
<1>2. /\ seen'[u] = None /\ \A x \in Threads \ {u} : mem'[x] = mem[x] /\ seen'[x] = seen[x]
      /\ mem'[u] # None =>
            /\ left[u] # {} /\ mem'[u].booting = None
            /\ \A l \in Patches \ server.rolled : mem'[u].last = l <=> disk'.ptr.last = l
      /\ \A m \in Patches : disk'.state[m] = disk.state[m] \/ disk'.state[m] = Unknown
      /\ Leaves(disk')
  BY <1>1, UpdateRemovable, RemoveLeaves, RemoveType DEF SInv
<1>3. CASE left[u] = {}
  <2>1. Return(u) \/ Goto(u, "decide")
    BY <1>1, <1>3 DEF SplitApplyRollbacks, AfterRollbacks, SplitSizeMismatch
  <2>2. /\ UpdatesAfterBoot' /\ OneUpdate' /\ upd'[u].pc \in {"idle", "decide"}
        /\ \A v \in Updaters \ {u} : upd'[v] = upd[v]
    BY <1>1, <2>1, UpdateSectionMoves
  <2>3. RemovesDoomed'
    BY <1>1, <1>2, <1>3, <2>2, OthersRemove
  <2>4. StaysOpen(u)
    BY <1>2, <1>3 DEF StaysOpen
  <2>5. QED BY <1>1, <1>2, <2>2, <2>3, <2>4, SectionGoesOn
<1>4. CASE left[u] # {}
  <2>1. seen[u].patch \in Doomed(u) \ left[u] /\ left[u] \subseteq Doomed(u)
    BY <1>1 DEF RemovesDoomed
  <2>2. upd[u].pc = "rollback"
    BY <1>1, <1>4, <2>1, DoomedIs
  <2>3. upd' = upd
    BY <1>1, <1>4, <2>2 DEF SplitApplyRollbacks, SplitSizeMismatch
  <2>4. RemovesDoomed'
    <3>1. Doomed(u)' = Doomed(u)
      BY <2>3, DoomedIs, DoomedIsNext
    <3>2. QED BY <1>1, <1>2, <2>1, <2>3, <3>1, OthersRemove
  <2>5. StaysOpen(u)
    <3>1. AtSection(u) /\ AtSection(u)'
      BY <1>1, <2>3, AtSectionIs, AtSectionIsNext DEF OpenSections, InSection
    <3>2. QED BY <1>2, <2>2, <2>3, <3>1 DEF StaysOpen, Working
  <2>6. UpdatesAfterBoot' /\ OneUpdate'
    BY <1>1, <1>2, <2>3
    DEF UpdatesAfterBoot, OneUpdate, Working, BootsAreOver, IsInstalled, IsBad, IsKind, Unknown
  <2>7. QED BY <1>1, <1>2, <2>3, <2>4, <2>5, <2>6, SectionGoesOn
<1>5. QED BY <1>3, <1>4

LEMMA UpdateSectionInv ==
    ASSUME SInv, NEW u \in Updaters,
           \/ SplitApplyRollbacks(u) \/ SplitSizeMismatch(u)
           \/ SplitRejectPatch(u)    \/ SplitInstallPatch(u)
    PROVE  SplitInv'
<1> SUFFICES ASSUME SplitRejectPatch(u) \/ SplitInstallPatch(u) PROVE SplitInv'
  BY RemoveGoesOn
<1>1. /\ u \in Threads /\ u # "engine" /\ InSection(u) /\ UNCHANGED <<eng, chk, server>>
      /\ mem' = [mem EXCEPT ![u] = None] /\ UNCHANGED <<left, seen>> /\ Return(u)
      /\ upd[u].pc \in {"bad_bytes", "bad_hash", "install"} /\ MemOK
  BY ThreadsAssumption
  DEF Threads, SplitRejectPatch, SplitInstallPatch, Close, CloseDirty, SInv, SplitTypeInv
<1>2. mem'[u] = None /\ \A x \in Threads \ {u} : mem'[x] = mem[x]
  BY <1>1 DEF MemOK
<1>3. /\ UpdatesAfterBoot' /\ OneUpdate' /\ \A v \in Updaters \ {u} : upd'[v] = upd[v]
  BY <1>1, UpdateSectionMoves
<1>4. RemovesDoomed'
  <2>1. left[u] = {} /\ seen[u] = None
    BY <1>1, DoomedIs, NothingHeld
  <2>2. QED BY <1>1, <1>2, <1>3, <2>1, OthersRemove
<1>5. StaysOpen(u)
  BY <1>2 DEF StaysOpen
<1>6. QED BY <1>1, <1>2, <1>3, <1>4, <1>5, UpdateSectionLeaves, SectionGoesOn

LEMMA CheckSectionInv == ASSUME SInv, SplitCheckRollbacks PROVE SplitInv'
<1>1. /\ "check" \in Threads /\ Remove("check") /\ InSection("check") /\ seen["check"] # None
      /\ UNCHANGED <<eng, upd, server>> /\ left' = left /\ "check" \notin Updaters
      /\ chk' = IF left["check"] = {} THEN {} ELSE chk
      /\ OpenSections /\ RemovesDoomed
  BY ThreadsAssumption DEF Threads, SplitCheckRollbacks, Remove, SInv, SplitInv
<1>2. /\ seen'["check"] = None
      /\ \A x \in Threads \ {"check"} : mem'[x] = mem[x] /\ seen'[x] = seen[x]
      /\ mem'["check"] # None =>
            /\ left["check"] # {} /\ mem'["check"].booting = None
            /\ \A l \in Patches \ server.rolled : mem'["check"].last = l <=> disk'.ptr.last = l
      /\ \A m \in Patches : disk'.state[m] = disk.state[m] \/ disk'.state[m] = Unknown
      /\ Leaves(disk')
  BY <1>1, CheckRemovable, RemoveLeaves, RemoveType DEF SInv
<1>3. UpdatesAfterBoot' /\ OneUpdate'
  <2>1. UpdatesAfterBoot /\ OneUpdate
    BY DEF SInv, SplitInv, SerialInv
  <2>2. QED
    BY <1>1, <1>2, <2>1
    DEF UpdatesAfterBoot, OneUpdate, Working, BootsAreOver, IsInstalled, IsBad, IsKind, Unknown
<1>4. RemovesDoomed'
  <2>1. left["check"] \subseteq chk
    BY <1>1, DoomedIs DEF RemovesDoomed
  <2>2. left'["check"] \subseteq Doomed("check")'
    BY <1>1, <2>1, DoomedIsNext
  <2>3. QED BY <1>1, <1>2, <2>2, OthersRemove
<1>5. StaysOpen("check")
  <2> SUFFICES ASSUME mem'["check"] # None PROVE AtSection("check")'
    BY <1>1, <1>2 DEF StaysOpen
  <2>1. AtSection("check") /\ chk' = chk
    BY <1>1, <1>2 DEF OpenSections, InSection
  <2>2. QED BY <2>1, AtSectionIs, AtSectionIsNext
<1>6. QED BY <1>1, <1>2, <1>3, <1>4, <1>5, SectionGoesOn

(* No call of the engine leaves a tombstone scheduled. *)
LEMMA EngineLeavesNext == ASSUME SInv, EngineStep PROVE NextNotTombstoned'
<1>1. /\ disk \in Disks /\ disk.ptr.next \in OptPatch /\ disk.ptr.booting \in OptPatch
      /\ ~IsBad(disk, disk.ptr.next)
  BY PointerFields DEF SInv, SplitInv, SplitTypeInv, TypeInv, TypeOK, NextNotTombstoned
<1>2. SUFFICES ~IsBad(disk', disk'.ptr.next)
  BY DEF NextNotTombstoned
<1>3. CASE disk' = disk
  BY <1>1, <1>3
<1>4. CASE disk.ptr.booting # None /\ disk' = RecordBootFailure(disk, disk.ptr.booting)
  BY <1>1, <1>4, FailureLoses DEF Loses, OptPatch
<1>5. CASE Start \/ ReportLaunchFailure
  BY <1>3, <1>4, <1>5 DEF Start, ReportLaunchFailure, DetectBootCrash
<1>6. CASE ValidateNextBootPatch
  BY <1>1, <1>6, RejectLoses
  DEF ValidateNextBootPatch, ValidateNextBoot, Loses, OptPatch, BadReasons
<1>7. CASE ReportLaunchStart
  <2>1. CASE CanRecordBootStart(disk, disk.ptr.next)
    <3>1. disk' = [disk EXCEPT !.ptr.booting = disk.ptr.next]
      BY <1>7, <2>1 DEF ReportLaunchStart, RecordBootStart
    <3>2. disk'.state = disk.state /\ disk'.ptr.next = disk.ptr.next
      BY <1>1, <3>1 DEF Disks, Pointers
    <3>3. QED BY <1>1, <3>2 DEF IsBad, IsKind
  <2>2. QED BY <1>3, <1>7, <2>1 DEF ReportLaunchStart
<1>8. CASE ReportLaunchSuccess
  <2>1. CASE disk.ptr.booting = None
    BY <1>3, <1>8, <2>1 DEF ReportLaunchSuccess
  <2>2. CASE disk.ptr.booting # None
    <3>1. disk' = RecordBootSuccess(disk)
      BY <1>8, <2>2 DEF ReportLaunchSuccess
    <3>2. /\ disk'.ptr.next = disk.ptr.next
          /\ \A m \in Patches : IsBad(disk', m) => IsBad(disk, m)
      BY <1>1, <2>2, <3>1, SuccessEffect
    <3>3. QED BY <1>1, <3>2 DEF IsBad, IsKind
  <2>3. QED BY <2>1, <2>2
<1>9. QED BY <1>5, <1>6, <1>7, <1>8 DEF EngineStep

(* What update() does outside these sections: no pointer moves, and no     *)
(* patch becomes a tombstone.                                              *)
LEMMA UnsplitFrame ==
    ASSUME SInv, NEW u \in Updaters, UnsplitUpdateStep(u) \/ NoRollbacks(u)
    PROVE  /\ disk'.ptr = disk.ptr /\ mem[u] = None /\ Doomed(u) = {}
           /\ \A m \in Patches : IsBad(disk', m) => IsBad(disk, m)
<1>1. PICK n : n = upd[u].patch
  OBVIOUS
<1>2. /\ disk \in Disks /\ OpenSections /\ u \in Threads
      /\ upd[u].pc \notin {"idle", "rollback"} => n \in Patches
  BY <1>1 DEF SInv, SplitInv, SplitTypeInv, TypeInv, TypeOK, CallersOK, Threads
<1>3. /\ upd[u].pc \notin {"mismatch", "bad_bytes", "bad_hash", "install"}
      /\ upd[u].pc = "rollback" => upd[u].rolled = {}
  BY DEF UnsplitUpdateStep, CheckForPatch, Lock, ReceiveWhole, WholeBody, PlanDownload,
         RecordStarted, OpenDownload, ReceiveSome, ReceiveRest, RestOfBody, ReceiveFails,
         BaseMissing, RecordComplete, InflateBegin, InflateEnd, NoRollbacks
<1>4. mem[u] = None /\ Doomed(u) = {}
  BY <1>2, <1>3, AtSectionIs, DoomedIs DEF OpenSections
<1>5. CASE disk'.ptr = disk.ptr /\ disk'.state = disk.state
  BY <1>4, <1>5 DEF IsBad, IsKind
<1>6. \A c : Received(u, c).ptr = disk.ptr /\ Received(u, c).state = disk.state
  BY <1>2 DEF Received, Disks
<1>7. ASSUME NEW s, s.kind # "Bad", n \in Patches, disk' = WriteState(disk, n, s)
      PROVE  disk'.ptr = disk.ptr /\ \A m \in Patches : IsBad(disk', m) => IsBad(disk, m)
  <2>1. disk'.ptr = disk.ptr /\ disk'.state = [disk.state EXCEPT ![n] = s]
    BY <1>2, <1>7 DEF WriteState, Disks
  <2>2. QED BY <1>2, <1>7, <2>1 DEF IsBad, IsKind, Disks
<1>8. CASE RecordStarted(u)
  <2>1. n \in Patches /\ disk' = WriteState(disk, n, Downloading(upd[u].url))
    BY <1>1, <1>2, <1>8 DEF RecordStarted, RecordDownloadStarted
  <2>2. QED BY <1>4, <1>7, <2>1 DEF Downloading
<1>9. CASE RecordComplete(u)
  <2>1. n \in Patches
    BY <1>2, <1>9 DEF RecordComplete
  <2>2. disk' = disk \/ disk' = WriteState(disk, n, Downloaded(disk.state[n].url))
    BY <1>1, <1>9 DEF RecordComplete, RecordDownloadComplete
  <2>3. QED BY <1>4, <1>5, <1>7, <2>1, <2>2 DEF Downloaded
<1>10. CASE OpenDownload(u) \/ InflateBegin(u) \/ InflateEnd(u)
  BY <1>2, <1>5, <1>10 DEF OpenDownload, InflateBegin, InflateEnd, Disks
<1>11. CASE ReceiveSome(u) \/ ReceiveRest(u) \/ \E c \in {"full", "corrupt"} : ReceiveWhole(u, c)
  BY <1>5, <1>6, <1>11 DEF ReceiveSome, ReceiveRest, ReceiveWhole
<1>12. CASE \/ PlanDownload(u) \/ ReceiveFails(u) \/ BaseMissing(u)
            \/ \E p \in Offered \cup {None} : CheckForPatch(u, p)
            \/ NoRollbacks(u)
  BY <1>5, <1>12 DEF PlanDownload, ReceiveFails, BaseMissing, CheckForPatch, NoRollbacks
<1>13. QED BY <1>8, <1>9, <1>10, <1>11, <1>12 DEF UnsplitUpdateStep

LEMMA UnsplitInv ==
    ASSUME ConcurrentBoot = FALSE, SInv, UnsplitStep, UNCHANGED <<mem, left, seen>>
    PROVE  SplitInv'
<1>1. /\ SerialInv' /\ server.rolled \subseteq server'.rolled
      /\ IInv /\ OpenSections /\ RemovesDoomed /\ LastAgrees /\ NextIsSeen /\ NextNotTombstoned
  BY UnsplitIsNext, SerialStep, RolledGrows DEF SInv, SplitInv, SplitTypeInv, IInv
<1>2. SUFFICES OpenSections' /\ RemovesDoomed' /\ LastAgrees' /\ NextIsSeen' /\ NextNotTombstoned'
  BY <1>1 DEF SplitInv
<1>3. ASSUME UNCHANGED <<disk, eng, upd>>, chk = {} \/ UNCHANGED chk
      PROVE  OpenSections' /\ RemovesDoomed' /\ LastAgrees' /\ NextIsSeen' /\ NextNotTombstoned'
  <2>1. OpenSections'
    <3> SUFFICES ASSUME NEW x \in Threads, mem[x] # None PROVE AtSection(x)'
      BY <1>1, <1>3 DEF OpenSections
    <3>1. AtSection(x)
      BY <1>1 DEF OpenSections
    <3>2. QED BY <1>3, <3>1, AtSectionIs, AtSectionIsNext DEF Threads
  <2>2. RemovesDoomed'
    <3> SUFFICES ASSUME NEW x \in Threads PROVE Doomed(x) \subseteq Doomed(x)'
      BY <1>1 DEF RemovesDoomed
    <3>1. QED BY <1>3, DoomedIs, DoomedIsNext DEF Threads
  <2>3. LastAgrees' /\ NextIsSeen' /\ NextNotTombstoned'
    BY <1>1, <1>3 DEF LastAgrees, NextIsSeen, NextNotTombstoned, Working, IsBad, IsKind
  <2>4. QED BY <2>1, <2>2, <2>3
<1>4. CASE \E n \in Patches : Publish(n) \/ RollBack(n)
  BY <1>3, <1>4 DEF Publish, RollBack
<1>5. CASE CheckAsk
  BY <1>3, <1>5 DEF CheckAsk
<1>6. CASE Start
  <2>1. NextNotTombstoned'
    BY <1>6, EngineLeavesNext DEF EngineStep
  <2>2. \A x \in Threads : mem'[x] = None
    <3>1. ~BootsAreOver /\ ~AtSection("engine") /\ "engine" \in Threads
      BY <1>6, AtSectionIs DEF Start, BootsAreOver, Threads
    <3>2. QED BY <1>1, <3>1, EngineIsAlone DEF OpenSections
  <2>3. RemovesDoomed'
    <3> SUFFICES ASSUME NEW x \in Threads PROVE Doomed(x)' = Doomed(x)
      BY <1>1 DEF RemovesDoomed
    <3>1. UNCHANGED <<upd, chk>>
      BY <1>6 DEF Start
    <3>2. QED BY <3>1, DoomedIs, DoomedIsNext DEF Threads
  <2>4. QED BY <2>1, <2>2, <2>3 DEF OpenSections, LastAgrees, NextIsSeen, Threads
<1>7. ASSUME NEW u \in Updaters, UnsplitUpdateStep(u) \/ NoRollbacks(u)
      PROVE  OpenSections' /\ RemovesDoomed' /\ LastAgrees' /\ NextIsSeen' /\ NextNotTombstoned'
  <2>1. /\ disk'.ptr = disk.ptr /\ mem[u] = None /\ Doomed(u) = {} /\ u \in Threads
        /\ \A m \in Patches : IsBad(disk', m) => IsBad(disk, m)
    BY <1>7, UnsplitFrame DEF Threads
  <2>2. UpdateStep(u)
    BY <1>7, NoRollbacksIsStep DEF UnsplitUpdateStep, UpdateStep
  <2>3. UNCHANGED <<eng, chk, server>> /\ \A v \in Updaters \ {u} : upd'[v] = upd[v]
    BY <1>1, <2>2, UpdateStepFrame, UpdateStepWorks
  <2>4. OpenSections'
    <3> SUFFICES ASSUME NEW x \in Threads, mem[x] # None PROVE AtSection(x)'
      BY <1>1, <2>1 DEF OpenSections
    <3>1. AtSection(x) /\ x # u
      BY <1>1, <2>1 DEF OpenSections
    <3>2. QED BY <2>3, <3>1, AtSectionIs, AtSectionIsNext DEF Threads
  <2>5. RemovesDoomed'
    <3>1. left[u] = {} /\ seen[u] = None
      BY <2>1, NothingHeld
    <3>2. QED BY <2>1, <2>3, <3>1, OthersRemove
  <2>6. LastAgrees'
    BY <1>1, <2>1, <2>3 DEF LastAgrees
  <2>7. NextIsSeen'
    BY <1>1, <2>1, <2>3 DEF NextIsSeen, Working
  <2>8. NextNotTombstoned'
    BY <1>1, <2>1 DEF NextNotTombstoned, IsBad, IsKind
  <2>9. QED BY <2>4, <2>5, <2>6, <2>7, <2>8
<1>8. QED BY <1>4, <1>5, <1>6, <1>7 DEF UnsplitStep

LEMMA LoadInv == ASSUME SInv, NEW t \in Threads, Load(t) PROVE SplitInv'
<1>1. /\ mem' = [mem EXCEPT ![t] = disk.ptr] /\ UNCHANGED <<disk, eng, upd, chk, server>>
      /\ mem \in [Threads -> Pointers \cup {None}] /\ AtSection(t)
      /\ left' = [left EXCEPT ![t] = Doomed(t)] /\ seen' = seen /\ mem[t] = None
      /\ left \in [Threads -> SUBSET Patches] /\ RemovesDoomed
      /\ OpenSections /\ LastAgrees /\ NextIsSeen /\ SerialInv /\ NextNotTombstoned
  BY DEF Load, vars, SInv, SplitInv, SplitTypeInv, MemOK
<1>2. mem'[t] = disk.ptr /\ \A x \in Threads \ {t} : mem'[x] = mem[x]
  BY <1>1
<1>3. t # "engine" => disk.ptr.booting = None
  <2>1. t # "engine" => BootsAreOver
    BY <1>1, AtSectionIs DEF SerialInv, UpdatesAfterBoot, Threads
  <2>2. QED BY <1>1, <2>1 DEF SerialInv, BootMarker, BootsAreOver
<1>4. OpenSections'
  <2> SUFFICES ASSUME NEW x \in Threads, mem'[x] # None
               PROVE  /\ AtSection(x)'
                      /\ x = "engine" => mem'[x] = disk'.ptr
                      /\ x # "engine" => mem'[x].booting = None
    BY DEF OpenSections
  <2>1. /\ AtSection(x)
        /\ x = "engine" => mem'[x] = disk.ptr
        /\ x # "engine" => mem'[x].booting = None
    BY <1>1, <1>2, <1>3 DEF OpenSections
  <2>2. AtSection(x)'
    BY <1>1, <2>1, AtSectionIs, AtSectionIsNext DEF Threads
  <2>3. QED BY <1>1, <2>1, <2>2
<1>5. LastAgrees' /\ NextIsSeen'
  BY <1>1, <1>2 DEF LastAgrees, NextIsSeen, Working, Threads
<1>6. SerialInv' /\ NextNotTombstoned'
  BY <1>1
  DEF SerialInv, UpdatesAfterBoot, OneUpdate, BootMarker, FallbackSettled,
      ValidatedNextInstalled, NextNotTombstoned, Working, BootsAreOver,
      IsInstalled, IsBad, IsKind
<1>7. RemovesDoomed'
  <2>1. seen[t] = None
    BY <1>1 DEF RemovesDoomed
  <2>2. Doomed(t)' = Doomed(t)
    BY <1>1, DoomedIs, DoomedIsNext DEF Threads
  <2>3. left'[t] = Doomed(t) /\ \A x \in Threads \ {t} : left'[x] = left[x]
    BY <1>1
  <2>4. QED BY <1>1, <1>2, <2>1, <2>2, <2>3, OthersRemove
<1>8. QED BY <1>4, <1>5, <1>6, <1>7 DEF SplitInv

LEMMA LookInv == ASSUME SInv, NEW t \in Threads, Look(t) PROVE SplitInv'
<1>1. PICK n \in left[t] :
         /\ left' = [left EXCEPT ![t] = @ \ {n}]
         /\ seen' = [seen EXCEPT ![t] = [patch |-> n, bad |-> IsBad(disk, n)]]
  BY DEF Look
<1>2. /\ UNCHANGED <<disk, eng, upd, chk, server, mem>> /\ mem[t] # None
      /\ MemOK /\ OpenSections /\ RemovesDoomed /\ LastAgrees /\ NextIsSeen /\ SerialInv
      /\ NextNotTombstoned
  BY DEF Look, InSection, vars, SInv, SplitInv, SplitTypeInv
<1>3. RemovesDoomed'
  <2>1. Doomed(t)' = Doomed(t)
    BY <1>2, DoomedIs, DoomedIsNext DEF Threads
  <2>2. /\ left'[t] = left[t] \ {n} /\ seen'[t].patch = n
        /\ \A x \in Threads \ {t} : left'[x] = left[x] /\ seen'[x] = seen[x]
    BY <1>1, <1>2 DEF MemOK
  <2>3. left[t] \subseteq Doomed(t)
    BY <1>2 DEF RemovesDoomed
  <2>4. QED BY <1>1, <1>2, <2>1, <2>2, <2>3, OthersRemove
<1>4. OpenSections'
  <2> SUFFICES ASSUME NEW x \in Threads, mem[x] # None PROVE AtSection(x)'
    BY <1>2 DEF OpenSections
  <2>1. AtSection(x)
    BY <1>2 DEF OpenSections
  <2>2. QED BY <1>2, <2>1, AtSectionIs, AtSectionIsNext DEF Threads
<1>5. LastAgrees' /\ NextIsSeen'
  BY <1>2 DEF LastAgrees, NextIsSeen, Working
<1>6. SerialInv' /\ NextNotTombstoned'
  BY <1>2
  DEF SerialInv, UpdatesAfterBoot, OneUpdate, BootMarker, FallbackSettled,
      ValidatedNextInstalled, NextNotTombstoned, Working, BootsAreOver,
      IsInstalled, IsBad, IsKind
<1>7. QED BY <1>3, <1>4, <1>5, <1>6 DEF SplitInv

LEMMA EngineSectionInv ==
    ASSUME ConcurrentBoot = FALSE, SInv,
           SplitValidate \/ SplitLaunchStart \/ SplitLaunchSuccess \/ SplitLaunchFailure
    PROVE  SplitInv'
<1>1. /\ EngineStep /\ eng.pc \in {"up", "validated", "launching"}
      /\ mem' = [mem EXCEPT !["engine"] = None] /\ UNCHANGED <<left, seen>>
  BY EngineSectionIsStep
<1>2. SerialInv' /\ NextNotTombstoned'
  BY <1>1, SerialStep, EngineLeavesNext DEF SInv, SplitInv, SplitTypeInv, IInv, Next
<1>3. \A x \in Threads : mem'[x] = None
  BY <1>1, EngineIsAlone DEF BootsAreOver, SInv, SplitTypeInv, MemOK
<1>4. OpenSections' /\ LastAgrees' /\ NextIsSeen'
  BY <1>3 DEF OpenSections, LastAgrees, NextIsSeen, Threads
<1>5. RemovesDoomed'
  <2>1. UNCHANGED <<upd, chk>> /\ "engine" \in Threads /\ mem \in [Threads -> Pointers \cup {None}]
    BY DEF SplitValidate, SplitLaunchStart, SplitLaunchSuccess, SplitLaunchFailure, Threads,
           SInv, SplitTypeInv, MemOK
  <2>2. left["engine"] = {} /\ seen["engine"] = None
    BY <2>1, DoomedIs, NothingHeld
  <2>3. \A x \in Threads \ {"engine"} : mem'[x] = mem[x]
    BY <1>1, <2>1
  <2>4. QED BY <1>1, <2>1, <2>2, <2>3, OthersRemove
<1>6. QED BY <1>2, <1>4, <1>5 DEF SplitInv

LEMMA SplitKillInv ==
    ASSUME ConcurrentBoot = FALSE, KillInSection = FALSE, SInv, SplitKill PROVE SplitInv'
<1>1. SerialInv'
  BY SerialStep DEF SInv, SplitInv, SplitTypeInv, IInv, SplitKill, Next
<1>2. /\ disk' = disk
      /\ \A x \in Threads : mem'[x] = None /\ left'[x] = {} /\ seen'[x] = None
  BY DEF SplitKill, Kill, Cuts, NoMem, NoLeft, NoSeen
<1>3. OpenSections' /\ LastAgrees' /\ NextIsSeen'
  BY <1>2 DEF OpenSections, LastAgrees, NextIsSeen, Threads
<1>4. NextNotTombstoned'
  BY <1>2 DEF SInv, SplitInv, NextNotTombstoned, IsBad, IsKind
<1>5. RemovesDoomed'
  BY <1>2 DEF RemovesDoomed
<1>6. QED BY <1>1, <1>3, <1>4, <1>5 DEF SplitInv

LEMMA SectionsStep ==
    ASSUME ConcurrentBoot = FALSE, KillInSection = FALSE, SInv, [SectionsNext]_svars
    PROVE  SInv'
<1>1. SplitTypeInv'
  BY SectionsStepType DEF SInv
<1>2. CASE UNCHANGED svars
  <2>1. OpenSections' /\ RemovesDoomed'
    <3>1. OpenSections /\ RemovesDoomed
      BY DEF SInv, SplitInv
    <3>2. \A x \in Threads : (AtSection(x)' <=> AtSection(x)) /\ Doomed(x)' = Doomed(x)
      BY <1>2, AtSectionIs, AtSectionIsNext, DoomedIs, DoomedIsNext DEF svars, vars, Threads
    <3>3. QED BY <1>2, <3>1, <3>2 DEF OpenSections, RemovesDoomed, svars, vars
  <2>2. QED
    BY <1>1, <1>2, <2>1
    DEF SInv, SplitInv, SerialInv, UpdatesAfterBoot, OneUpdate, BootMarker, FallbackSettled,
        ValidatedNextInstalled, LastAgrees, NextIsSeen, NextNotTombstoned,
        Working, BootsAreOver, IsInstalled, IsBad, IsKind, svars, vars
<1>3. QED
  BY <1>1, <1>2, StepKinds, UnsplitInv, SplitKillInv, LoadInv, LookInv, EngineSectionInv,
     UpdateSectionInv, CheckSectionInv DEF SInv

(* No step loses a tombstone but an overlooked one. *)
LEMMA TombstoneStep ==
    ASSUME SInv, [SectionsNext]_svars, NEW n \in Patches, IsBad(disk, n)
    PROVE  IsBad(disk', n) \/ Overlooked(n)
<1>1. IInv
  BY DEF SInv, SplitInv, SplitTypeInv, IInv
<1>2. CASE [Next]_vars
  BY <1>1, <1>2, StepSafe DEF Safe
<1>3. UnsplitStep => Next
  BY UnsplitIsNext
<1>4. ASSUME SplitValidate \/ SplitLaunchStart \/ SplitLaunchSuccess \/ SplitLaunchFailure
      PROVE  Next
  BY <1>4, EngineSectionIsStep DEF Next
<1>5. SplitKill => Next
  BY DEF SplitKill, Next
<1>6. (UNCHANGED svars) \/ (\E t \in Threads : Load(t) \/ Look(t)) => UNCHANGED vars
  BY DEF Load, Look, svars
<1>7. ASSUME SplitCheckRollbacks PROVE Leaves(disk')
  <2>1. "check" \in Threads /\ Remove("check") /\ seen["check"] # None /\ "check" # "engine"
    BY <1>7 DEF SplitCheckRollbacks, Remove, Threads
  <2>2. QED BY <2>1, CheckRemovable, RemoveLeaves
<1>8. QED
  BY <1>2, <1>3, <1>4, <1>5, <1>6, <1>7, StepKinds, UpdateSectionLeaves DEF Leaves

LEMMA SectionsInitInv == SectionsInit => SInv
<1> SUFFICES ASSUME SectionsInit PROVE SplitInv
  BY SectionsInitType DEF SInv
<1>1. SerialInv
  BY InitSerial DEF SectionsInit, IInv
<1>2. \A x \in Threads : mem[x] = None /\ left[x] = {} /\ seen[x] = None
  BY DEF SectionsInit, NoMem, NoLeft, NoSeen
<1>3. ~IsBad(disk, disk.ptr.next)
  BY DEF SectionsInit, Init, EmptyDisk, IsBad, IsKind, Unknown
<1>4. QED
  BY <1>1, <1>2, <1>3
  DEF SplitInv, OpenSections, RemovesDoomed, LastAgrees, NextIsSeen, NextNotTombstoned, Threads

LEMMA SectionsHold ==
    ASSUME ConcurrentBoot = FALSE, KillInSection = FALSE PROVE SectionsSpec => []SInv
<1>1. SInv /\ [SectionsNext]_svars => SInv'
  BY SectionsStep
<1>2. QED BY SectionsInitInv, <1>1, PTL DEF SectionsSpec

(* A section that saves pointers loaded before another section went by     *)
(* never drops the fallback, unless the server rolled it back.             *)
THEOREM FallbackSurvivesRaces ==
    ASSUME ConcurrentBoot = FALSE, KillInSection = FALSE PROVE SectionsSpec => []FallbackKept
<1>1. SInv => FallbackKept
  BY DEF SInv, SplitInv, SerialInv, FallbackSettled, FallbackKept, IsInstalled, IsBad, IsKind
<1>2. QED BY SectionsHold, <1>1, PTL

(* No stale save of pointers.json schedules a tombstoned patch, and none   *)
(* leaves one scheduled.                                                   *)
THEOREM RacesScheduleNoTombstone ==
    ASSUME ConcurrentBoot = FALSE, KillInSection = FALSE
    PROVE  SectionsSpec => []NextNotTombstoned
<1>1. SInv => NextNotTombstoned
  BY DEF SInv, SplitInv
<1>2. QED BY SectionsHold, <1>1, PTL

(* Whatever sections overlap, a tombstone is lost only when the server     *)
(* rolled its patch back and a cleanup that read the state of the patch    *)
(* before it was tombstoned removes it after.                              *)
THEOREM RacesKeepTombstones ==
    ASSUME ConcurrentBoot = FALSE, KillInSection = FALSE
    PROVE  SectionsSpec => TombstoneKept
<1>1. SInv /\ [SectionsNext]_svars =>
        [\A n \in Patches :
            IsBad(disk, n) =>
                \/ IsBad(disk', n)
                \/ n \in server.rolled /\ \E t \in Threads : seen[t] = [patch |-> n, bad |-> FALSE]
        ]_svars
  BY TombstoneStep DEF Overlooked
<1>2. QED BY SectionsHold, <1>1, PTL DEF SectionsSpec, TombstoneKept

=============================================================================
