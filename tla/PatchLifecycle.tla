--------------------------- MODULE PatchLifecycle ---------------------------
(***************************************************************************)
(* The per-release patch store of cache/lifecycle.{h,cpp}: what every      *)
(* operation of the class PatchLifecycle does to the files under           *)
(* {state_root}/patches, to pointers.json and to {download_root}.          *)
(*                                                                         *)
(* An operation is an operator from a disk to a disk.  Next to it, its     *)
(* "cuts" are the disks a process killed inside the operation leaves:      *)
(* each file write or removal is atomic, the sequence of them is not.      *)
(* Logging, paths, sizes and hashes are abstracted: an artifact is         *)
(* "whole" when its size and hash are those recorded at install.           *)
(***************************************************************************)
EXTENDS Naturals

CONSTANTS
    Patches,    \* the patch numbers of one release
    Urls,       \* the download URLs a patch may be offered under
    None        \* an empty std::optional

ASSUME PatchesAssumption == Patches \subseteq Nat
ASSUME NoneAssumption    == None \notin Patches

BadReasons == {"BootCrash", "InvalidPatchBytes", "InstallHashMismatch", "ValidationFailed"}

(* patches/{n}/state.json; Unknown is a missing or unreadable file. *)
Unknown           == [kind |-> "Unknown"]
Downloading(url)  == [kind |-> "Downloading", url |-> url]
Downloaded(url)   == [kind |-> "Downloaded", url |-> url]
Installed         == [kind |-> "Installed"]
Bad(reason)       == [kind |-> "Bad", reason |-> reason]

PatchStates ==
    {Unknown, Installed} \cup {Downloading(u) : u \in Urls}
        \cup {Downloaded(u) : u \in Urls} \cup {Bad(r) : r \in BadReasons}

Artifacts == {"absent", "torn", "whole"}               \* patches/{n}/dlc.vmcode
Downloads == {"absent", "empty", "partial", "corrupt", "full"}  \* {download_root}/{n}

OptPatch == Patches \cup {None}
Pointers == [next : OptPatch, last : OptPatch, booting : OptPatch]

Disks == [state : [Patches -> PatchStates], art : [Patches -> Artifacts],
          dl : [Patches -> Downloads], ptr : Pointers]

EmptyDisk ==
    [state |-> [n \in Patches |-> Unknown], art |-> [n \in Patches |-> "absent"],
     dl |-> [n \in Patches |-> "absent"],
     ptr |-> [next |-> None, last |-> None, booting |-> None]]

IsKind(d, n, k)    == n \in Patches /\ d.state[n].kind = k
IsInstalled(d, n)  == IsKind(d, n, "Installed")
IsBad(d, n)        == IsKind(d, n, "Bad")

WriteState(d, n, s) == [d EXCEPT !.state[n] = s]

(* Mistake checked for: cleanup drops tombstones as well. *)
CleanSetForgetsBad(d, K) ==
    [d EXCEPT !.state = [n \in Patches |-> IF n \in K THEN Unknown ELSE d.state[n]],
              !.art   = [n \in Patches |-> IF n \in K THEN "absent" ELSE d.art[n]],
              !.dl    = [n \in Patches |-> IF n \in K THEN "absent" ELSE d.dl[n]]]

(***************************************************************************)
(* cleanup(n) for every n of K: a tombstone keeps its state.json, any      *)
(* other patch is forgotten; the artifact and the download go either way.  *)
(***************************************************************************)
CleanSet(d, K) ==
    [d EXCEPT
        !.state = [n \in Patches |-> IF n \in K /\ ~IsBad(d, n) THEN Unknown ELSE d.state[n]],
        !.art   = [n \in Patches |-> IF n \in K THEN "absent" ELSE d.art[n]],
        !.dl    = [n \in Patches |-> IF n \in K THEN "absent" ELSE d.dl[n]]]

Cleanup(d, n) == CleanSet(d, {n})

(* remove_all empties the directory in no fixed order, then the download goes. *)
CleanupCuts(d, n) ==
    {[d EXCEPT !.state[n] = s, !.art[n] = a] :
        s \in {d.state[n], Cleanup(d, n).state[n]}, a \in {d.art[n], "absent"}}

(* A download file is kept only for a patch that is Downloading or Downloaded. *)
CleanupOrphanDownloads(d) ==
    [d EXCEPT !.dl = [n \in Patches |->
        IF d.state[n].kind \in {"Downloading", "Downloaded"} THEN d.dl[n] ELSE "absent"]]

OlderThan(n) == {m \in Patches : m < n}

CleanupOlderThan(d, n) == CleanupOrphanDownloads(CleanSet(d, OlderThan(n)))

CleanupOlderThanCuts(d, n) ==
    {CleanSet(d, OlderThan(n))}
        \cup UNION {CleanupCuts(CleanSet(d, K), m) : K \in SUBSET OlderThan(n), m \in OlderThan(n)}

(***************************************************************************)
(* recompute_next_boot: drop a last_booted_patch that has no state, and    *)
(* when next_boot_patch is not Installed fall back to last_booted_patch    *)
(* or to the base release.                                                 *)
(***************************************************************************)
RecomputeNextBoot(d) ==
    LET last == IF IsKind(d, d.ptr.last, "Unknown") THEN None ELSE d.ptr.last
        next == IF IsInstalled(d, d.ptr.next) THEN d.ptr.next
                ELSE IF IsInstalled(d, last) THEN last ELSE None
    IN  [d EXCEPT !.ptr.last = last, !.ptr.next = next]

MarkBad(d, n, reason) == Cleanup(WriteState(d, n, Bad(reason)), n)

MarkBadCuts(d, n, reason) ==
    CleanupCuts(WriteState(d, n, Bad(reason)), n) \cup {MarkBad(d, n, reason)}

(***************************************************************************)
(* Downloads.                                                              *)
(***************************************************************************)
(* Mistake checked for: a finished download counts as an installed patch. *)
DecideStartSkipsDownloaded(d, n, url) ==
    CASE d.state[n].kind = "Bad" -> "KnownBad"
      [] d.state[n].kind \in {"Installed", "Downloaded"} -> "AlreadyInstalled"
      [] OTHER -> "Fresh"

DecideStart(d, n, url) ==
    LET s == d.state[n]
        sameFile == s.url = url /\ d.dl[n] # "absent"
    IN  CASE s.kind = "Bad"         -> "KnownBad"
          [] s.kind = "Installed"   -> "AlreadyInstalled"
          [] s.kind = "Downloading" -> IF sameFile THEN "Resume" ELSE "Fresh"
          [] s.kind = "Downloaded"  -> IF sameFile THEN "Complete" ELSE "Fresh"
          [] OTHER                  -> "Fresh"

RecordDownloadStarted(d, n, url) == WriteState(d, n, Downloading(url))

CanCompleteDownload(d, n) == d.state[n].kind \in {"Downloading", "Downloaded"}
RecordDownloadComplete(d, n) == WriteState(d, n, Downloaded(d.state[n].url))

CanCompleteInstall(d, n) == d.state[n].kind = "Downloaded"

(* Mistake checked for: only the kind is rewritten, the rest of the old state stays. *)
RecordInstallCompleteKeepsUrl(d, n) ==
    [WriteState(d, n, [d.state[n] EXCEPT !.kind = "Installed"]) EXCEPT !.dl[n] = "absent"]

RecordInstallComplete(d, n) == [WriteState(d, n, Installed) EXCEPT !.dl[n] = "absent"]

(* Mistake checked for: the fallback is displaced like any other patch. *)
DisplacedEvenFallback(d, n) == {d.ptr.next} \ {n, None}

(* The patch promote_to_next_boot(n) displaces, unless it is the fallback. *)
Displaced(d, n) == {d.ptr.next} \ {n, None, d.ptr.last}

(* Mistake checked for: the displaced patch is left installed. *)
PromoteLeavesDisplaced(d, n) == [d EXCEPT !.ptr.next = n]

PromoteToNextBoot(d, n) == [CleanSet(d, Displaced(d, n)) EXCEPT !.ptr.next = n]

(* record_install_complete(n) and promote_to_next_boot(n), as update() runs them. *)
Install(d, n) == PromoteToNextBoot(RecordInstallComplete(d, n), n)

InstallCuts(d, n) ==
    LET i == RecordInstallComplete(d, n)
    IN  {WriteState(d, n, Installed), i, CleanSet(i, Displaced(i, n))}
            \cup UNION {CleanupCuts(i, m) : m \in Displaced(i, n)}

(***************************************************************************)
(* uninstall_patch (updater_state.cpp) for every n of K, in any order:     *)
(* each cleanup is followed by a recompute, and the order shows only in    *)
(* the cuts.                                                               *)
(***************************************************************************)
(* Mistake checked for: the pointers are not recomputed. *)
UninstallKeepsPointers(d, K) == CleanSet(d, K)

Uninstall(d, K) == IF K = {} THEN d ELSE RecomputeNextBoot(CleanSet(d, K))

UninstallCuts(d, K) ==
    UNION {LET e == Uninstall(d, J)
           IN  {e, Cleanup(e, n)} \cup CleanupCuts(e, n) : J \in SUBSET K, n \in K}

(***************************************************************************)
(* Boot tracking.                                                          *)
(***************************************************************************)
CanRecordBootStart(d, n) == IsInstalled(d, n) /\ d.ptr.next = n
RecordBootStart(d, n) == [d EXCEPT !.ptr.booting = n]

BootedOk(d) == [d EXCEPT !.ptr.last = d.ptr.booting, !.ptr.booting = None]
RecordBootSuccess(d) == CleanupOlderThan(BootedOk(d), d.ptr.booting)
RecordBootSuccessCuts(d) == {BootedOk(d)} \cup CleanupOlderThanCuts(BootedOk(d), d.ptr.booting)

BootCleared(d, n) == [MarkBad(d, n, "BootCrash") EXCEPT !.ptr.booting = None]

(* Mistake checked for: next_boot_patch is left on the tombstone. *)
RecordBootFailureKeepsNext(d, n) == BootCleared(d, n)

RecordBootFailure(d, n) == RecomputeNextBoot(BootCleared(d, n))
RecordBootFailureCuts(d, n) == MarkBadCuts(d, n, "BootCrash") \cup {BootCleared(d, n)}


(* Mistake checked for: the stale marker is cleared, the crash forgotten. *)
DetectBootCrashForgives(d) == [d EXCEPT !.ptr.booting = None]

DetectBootCrash(d) == IF d.ptr.booting = None THEN d ELSE RecordBootFailure(d, d.ptr.booting)
DetectBootCrashCuts(d) == IF d.ptr.booting = None THEN {} ELSE RecordBootFailureCuts(d, d.ptr.booting)

(***************************************************************************)
(* validate_next_boot_patch.  The fallback it leaves is not validated.     *)
(***************************************************************************)
Bootable(d, n) == IsInstalled(d, n) /\ d.art[n] = "whole"

MarkBadAndRecompute(d, n, reason) == RecomputeNextBoot(MarkBad(d, n, reason))

(* Mistake checked for: the bad patch stays scheduled. *)
ValidateNextBootKeepsNext(d) ==
    IF d.ptr.next = None \/ Bootable(d, d.ptr.next) THEN d
    ELSE MarkBad(d, d.ptr.next, "ValidationFailed")

ValidateNextBoot(d) ==
    IF d.ptr.next = None \/ Bootable(d, d.ptr.next) THEN d
    ELSE MarkBadAndRecompute(d, d.ptr.next, "ValidationFailed")

ValidateNextBootCuts(d) ==
    IF d.ptr.next = None \/ Bootable(d, d.ptr.next) THEN {}
    ELSE MarkBadCuts(d, d.ptr.next, "ValidationFailed")

=============================================================================
