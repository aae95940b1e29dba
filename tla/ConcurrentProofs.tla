-------------------------- MODULE ConcurrentProofs --------------------------
(***************************************************************************)
(* Updater when boots and updates do overlap, for any set of patches, URLs *)
(* and callers, with kills between sections: whatever the order of their   *)
(* sections, the engine and update() never schedule a tombstone, lose      *)
(* track of an Installed patch, or leave one that is not the whole file.   *)
(***************************************************************************)
EXTENDS SafetyProofs

-----------------------------------------------------------------------------
(***************************************************************************)
(* The invariant.                                                          *)
(***************************************************************************)
(* The patches pointers.json names. *)
Named(d) == {d.ptr.next, d.ptr.last, d.ptr.booting} \ {None}

(* The fallback is Installed only behind a next patch that is. *)
NextFirst(d) == IsInstalled(d, d.ptr.last) => IsInstalled(d, d.ptr.next)

(* Installed patches are whole and named as the next or the last one. *)
StoreOK(d) ==
    /\ ~IsBad(d, d.ptr.next)
    /\ \A m \in Patches : IsInstalled(d, m) =>
          m \in {d.ptr.next, d.ptr.last} /\ d.art[m] = "whole"
    /\ NextFirst(d)

(* The fallback m names a newer patch than one in use: it was rolled back, *)
(* is not Installed, and no update() works on it.                          *)
Superseded(m) ==
    /\ ~IsInstalled(disk, m) /\ m \in server.rolled
    /\ \A u \in Updaters : upd[u].patch # m

FallbackIsOldest ==
    \A m \in Patches :
        /\ IsInstalled(disk, m) \/ m = disk.ptr.booting
        /\ disk.ptr.last # None /\ m < disk.ptr.last
        => Superseded(disk.ptr.last)

(* What update() was offered is newer than everything on disk that its     *)
(* response does not roll back; past the rollbacks, than all Installed.    *)
OfferIsNewest(u) ==
    LET n == upd[u].patch
    IN  /\ upd[u].rolled \subseteq server.rolled
        /\ upd[u].pc = "idle" => n = None
        /\ n # None =>
              /\ n \in server.pub
              /\ \A m \in Named(disk) : m <= n \/ m \in upd[u].rolled
              /\ upd[u].pc # "rollback" => \A m \in Patches : IsInstalled(disk, m) => m <= n
        /\ Working(u) => ~IsInstalled(disk, n)
        /\ upd[u].pc = "install" => disk.art[n] # "torn"

OverlapInv ==
    /\ OneUpdate /\ StoreOK(disk) /\ FallbackIsOldest
    /\ Named(disk) \subseteq server.pub
    /\ \A u \in Updaters : OfferIsNewest(u)

-----------------------------------------------------------------------------
(***************************************************************************)
(* What an operation of the patch store may do: most of them only lose.    *)
(***************************************************************************)
(* Nothing gets installed, and what stays Installed keeps its file. *)
Less(d, e) ==
    \A m \in Patches : IsInstalled(e, m) => IsInstalled(d, m) /\ e.art[m] = d.art[m]

NotTorn(d, e) == \A m \in Patches : e.art[m] \in {d.art[m], "absent"}

(* The pointers move to what is left, and off a tombstone. *)
Loses(d, e) ==
    /\ Less(d, e)
    /\ e.ptr.booting \in {d.ptr.booting, None} /\ e.ptr.last \in {d.ptr.last, None}
    /\ e.ptr.next \in {d.ptr.next, d.ptr.last, None} /\ ~IsBad(e, e.ptr.next)
    /\ NextFirst(e)
    /\ \A m \in Patches :
          IsInstalled(e, m) /\ m \in {d.ptr.next, d.ptr.last} => m \in {e.ptr.next, e.ptr.last}

LEMMA CleanSetLess ==
    ASSUME NEW d \in Disks, NEW K
    PROVE  LET e == CleanSet(d, K)
           IN  /\ Less(d, e) /\ NotTorn(d, e) /\ e.ptr = d.ptr
               /\ \A m \in K : ~IsInstalled(e, m)
<1>1. PICK e : e = CleanSet(d, K)
  OBVIOUS
<1>2. /\ e.ptr = d.ptr
      /\ \A m \in Patches :
            /\ e.state[m] = IF m \in K /\ ~IsBad(d, m) THEN Unknown ELSE d.state[m]
            /\ e.art[m] = IF m \in K THEN "absent" ELSE d.art[m]
  BY <1>1 DEF CleanSet, Disks
<1>3. ASSUME NEW m \in Patches, m \in K PROVE ~IsInstalled(e, m)
  BY <1>2, <1>3 DEF IsInstalled, IsBad, IsKind, Unknown
<1>4. ASSUME NEW m \in Patches, m \notin K
      PROVE  e.state[m] = d.state[m] /\ e.art[m] = d.art[m]
  BY <1>2, <1>4
<1>5. Less(d, e) /\ NotTorn(d, e)
  BY <1>2, <1>3, <1>4 DEF Less, NotTorn, IsInstalled, IsKind
<1>6. \A m \in K : ~IsInstalled(e, m)
  BY <1>3 DEF IsInstalled, IsKind
<1>7. QED BY <1>1, <1>2, <1>5, <1>6

LEMMA MarkBadLess ==
    ASSUME NEW d \in Disks, NEW n \in Patches, NEW r \in BadReasons
    PROVE  Less(d, MarkBad(d, n, r)) /\ NotTorn(d, MarkBad(d, n, r))
<1>1. PICK w : w = WriteState(d, n, Bad(r))
  OBVIOUS
<1>2. w \in Disks
  BY <1>1, BadIsState, WriteStateType
<1>3. w.art = d.art /\ w.state = [d.state EXCEPT ![n] = Bad(r)]
  BY <1>1 DEF WriteState, Disks
<1>4. Less(d, w) /\ NotTorn(d, w)
  BY <1>3 DEF Less, NotTorn, IsInstalled, IsKind, Bad, Disks
<1>5. PICK e : e = CleanSet(w, {n})
  OBVIOUS
<1>6. Less(w, e) /\ NotTorn(w, e)
  BY <1>2, <1>5, CleanSetLess
<1>7. Less(d, e) /\ NotTorn(d, e)
  BY <1>3, <1>4, <1>6 DEF Less, NotTorn
<1>8. QED BY <1>1, <1>5, <1>7 DEF MarkBad, Cleanup

LEMMA RecomputeLoses ==
    ASSUME NEW d \in Disks, NEW c \in Disks, Less(d, c), NotTorn(d, c),
           c.ptr.next = d.ptr.next, c.ptr.last = d.ptr.last,
           c.ptr.booting \in {d.ptr.booting, None}
    PROVE  LET e == RecomputeNextBoot(c)
           IN  Loses(d, e) /\ NotTorn(d, e) /\ e.state = c.state
<1>1. PICK last : last = IF IsKind(c, c.ptr.last, "Unknown") THEN None ELSE c.ptr.last
  OBVIOUS
<1>2. PICK next : next = IF IsInstalled(c, c.ptr.next) THEN c.ptr.next
                         ELSE IF IsInstalled(c, last) THEN last ELSE None
  OBVIOUS
<1>3. PICK e : e = RecomputeNextBoot(c)
  OBVIOUS
<1>4. /\ e.state = c.state /\ e.art = c.art
      /\ e.ptr.next = next /\ e.ptr.last = last /\ e.ptr.booting = c.ptr.booting
  BY <1>1, <1>2, <1>3 DEF RecomputeNextBoot, Disks, Pointers
<1>5. \A m : IsInstalled(e, m) <=> IsInstalled(c, m)
  BY <1>4 DEF IsInstalled, IsKind
<1>6. ~IsBad(e, next)
  BY <1>2, <1>4, NoneAssumption DEF IsBad, IsInstalled, IsKind
<1>7. ASSUME NEW m \in Patches, IsInstalled(c, m), m \in {c.ptr.next, c.ptr.last}
      PROVE  m \in {next, last}
  BY <1>1, <1>2, <1>7 DEF IsInstalled, IsKind
<1>8. Less(d, e) /\ NotTorn(d, e)
  BY <1>4, <1>5 DEF Less, NotTorn
<1>a. NextFirst(e)
  BY <1>2, <1>4, <1>5 DEF NextFirst
<1>9. Loses(d, e)
  BY <1>1, <1>2, <1>4, <1>5, <1>6, <1>7, <1>8, <1>a DEF Loses
<1>10. QED BY <1>3, <1>4, <1>8, <1>9

LEMMA UninstallLoses ==
    ASSUME NEW d \in Disks, NEW K, StoreOK(d)
    PROVE  LET e == Uninstall(d, K)
           IN  Loses(d, e) /\ NotTorn(d, e) /\ \A m \in K : ~IsInstalled(e, m)
<1>1. CASE K = {}
  BY <1>1 DEF Uninstall, StoreOK, Loses, Less, NotTorn
<1>2. CASE K # {}
  <2>1. PICK c : c = CleanSet(d, K)
    OBVIOUS
  <2>2. /\ c \in Disks /\ Less(d, c) /\ NotTorn(d, c) /\ c.ptr = d.ptr
        /\ \A m \in K : ~IsInstalled(c, m)
    BY <2>1, CleanSetLess, CleanSetType
  <2>3. PICK e : e = RecomputeNextBoot(c)
    OBVIOUS
  <2>4. Loses(d, e) /\ NotTorn(d, e) /\ e.state = c.state
    BY <2>2, <2>3, RecomputeLoses
  <2>5. e = Uninstall(d, K)
    BY <1>2, <2>1, <2>3 DEF Uninstall
  <2>6. QED BY <2>2, <2>4, <2>5 DEF IsInstalled, IsKind
<1>3. QED BY <1>1, <1>2

LEMMA RejectLoses ==
    ASSUME NEW d \in Disks, NEW n \in Patches, NEW r \in BadReasons
    PROVE  Loses(d, MarkBadAndRecompute(d, n, r)) /\ NotTorn(d, MarkBadAndRecompute(d, n, r))
<1>1. PICK c : c = MarkBad(d, n, r)
  OBVIOUS
<1>2. c \in Disks /\ Less(d, c) /\ NotTorn(d, c) /\ c.ptr = d.ptr
  BY <1>1, MarkBadType, MarkBadLess, MarkBadMarks
<1>3. QED BY <1>1, <1>2, RecomputeLoses DEF MarkBadAndRecompute

LEMMA FailureLoses ==
    ASSUME NEW d \in Disks, NEW n \in Patches
    PROVE  Loses(d, RecordBootFailure(d, n)) /\ NotTorn(d, RecordBootFailure(d, n))
<1>1. PICK b : b = MarkBad(d, n, "BootCrash")
  OBVIOUS
<1>2. "BootCrash" \in BadReasons
  BY DEF BadReasons
<1>3. b \in Disks /\ Less(d, b) /\ NotTorn(d, b) /\ b.ptr = d.ptr
  BY <1>1, <1>2, MarkBadType, MarkBadLess, MarkBadMarks
<1>4. PICK c : c = BootCleared(d, n)
  OBVIOUS
<1>5. c = [b EXCEPT !.ptr.booting = None]
  BY <1>1, <1>4 DEF BootCleared
<1>6. /\ c.state = b.state /\ c.art = b.art /\ c.ptr.next = d.ptr.next
      /\ c.ptr.last = d.ptr.last /\ c.ptr.booting = None
  BY <1>3, <1>5 DEF Disks, Pointers
<1>7. c \in Disks
  BY <1>4, BootFailureType
<1>8. Less(d, c) /\ NotTorn(d, c)
  BY <1>3, <1>6 DEF Less, NotTorn, IsInstalled, IsKind
<1>9. PICK e : e = RecomputeNextBoot(c)
  OBVIOUS
<1>10. Loses(d, e) /\ NotTorn(d, e)
  BY <1>6, <1>7, <1>8, <1>9, RecomputeLoses
<1>11. QED BY <1>4, <1>9, <1>10 DEF RecordBootFailure

(* Files aside, a patch that is not Installed becomes one in download. *)
LEMMA WriteLoses ==
    ASSUME NEW d \in Disks, NEW e, StoreOK(d), e.ptr = d.ptr, NEW n \in Patches,
           \A m \in Patches \ {n} : e.state[m] = d.state[m] /\ e.art[m] = d.art[m],
           \/ e.state[n] = d.state[n] /\ (IsInstalled(d, n) => e.art[n] = d.art[n])
           \/ ~IsInstalled(d, n) /\ e.state[n].kind \in {"Downloading", "Downloaded"}
    PROVE  Loses(d, e)
<1>1. Less(d, e)
  BY DEF Less, IsInstalled, IsKind
<1>2. ~IsBad(e, e.ptr.next)
  BY DEF StoreOK, IsBad, IsKind
<1>3. NextFirst(e)
  <2>1. CASE ~IsInstalled(d, n) /\ e.state[n].kind \in {"Downloading", "Downloaded"}
    <3>1. \A m \in Patches : IsInstalled(e, m) <=> IsInstalled(d, m)
      BY <2>1 DEF IsInstalled, IsKind
    <3>2. QED BY <3>1 DEF StoreOK, NextFirst, IsInstalled, IsKind
  <2>2. CASE e.state[n] = d.state[n]
    BY <2>2 DEF StoreOK, NextFirst, IsInstalled, IsKind
  <2>3. QED BY <2>1, <2>2
<1>4. QED BY <1>1, <1>2, <1>3 DEF Loses

LEMMA SuccessEffect ==
    ASSUME NEW d \in Disks, d.ptr.booting # None
    PROVE  LET e == RecordBootSuccess(d)
               b == d.ptr.booting
           IN  /\ Less(d, e) /\ NotTorn(d, e)
               /\ e.ptr.next = d.ptr.next /\ e.ptr.last = b /\ e.ptr.booting = None
               /\ \A m \in Patches : IsBad(e, m) => IsBad(d, m)
               /\ \A m \in Patches : m < b => ~IsInstalled(e, m)
               /\ \A m \in Patches : IsInstalled(d, m) => IsInstalled(e, m) \/ m < b
<1>1. PICK b : b = d.ptr.booting
  OBVIOUS
<1>2. PICK k : k = BootedOk(d)
  OBVIOUS
<1>3. /\ k \in Disks /\ k.state = d.state /\ k.art = d.art
      /\ k.ptr.next = d.ptr.next /\ k.ptr.last = b /\ k.ptr.booting = None
  BY <1>1, <1>2 DEF BootedOk, Disks, Pointers, OptPatch
<1>4. PICK c : c = CleanSet(k, OlderThan(b))
  OBVIOUS
<1>5. /\ c \in Disks /\ Less(k, c) /\ NotTorn(k, c) /\ c.ptr = k.ptr
      /\ \A m \in OlderThan(b) : ~IsInstalled(c, m)
  BY <1>3, <1>4, CleanSetLess, CleanSetType
<1>6. PICK e : e = CleanupOrphanDownloads(c)
  OBVIOUS
<1>7. e.state = c.state /\ e.art = c.art /\ e.ptr = c.ptr
  BY <1>5, <1>6 DEF CleanupOrphanDownloads, Disks
<1>8. e = RecordBootSuccess(d)
  BY <1>1, <1>2, <1>4, <1>6 DEF RecordBootSuccess, CleanupOlderThan
<1>9. Less(d, e) /\ NotTorn(d, e)
  BY <1>3, <1>5, <1>7 DEF Less, NotTorn, IsInstalled, IsKind
<1>10. e.ptr.next = d.ptr.next /\ e.ptr.last = b /\ e.ptr.booting = None
  BY <1>3, <1>5, <1>7
<1>11. Forgets(k, c, OlderThan(b))
  BY <1>3, <1>4, CleanSetForgets
<1>12. \A m \in Patches : IsBad(e, m) => IsBad(d, m)
  BY <1>3, <1>7, <1>11 DEF Forgets, IsBad, IsKind, Unknown
<1>13. \A m \in Patches : m < b => ~IsInstalled(e, m)
  BY <1>5, <1>7 DEF OlderThan, IsInstalled, IsKind
<1>14. \A m \in Patches : IsInstalled(d, m) => IsInstalled(e, m) \/ m < b
  BY <1>3, <1>7, <1>11 DEF Forgets, OlderThan, IsInstalled, IsKind
<1>15. QED BY <1>1, <1>8, <1>9, <1>10, <1>12, <1>13, <1>14

LEMMA InstallGains ==
    ASSUME NEW d \in Disks, NEW n \in Patches
    PROVE  LET e == Install(d, n)
           IN  /\ e.ptr.next = n /\ e.ptr.last = d.ptr.last /\ e.ptr.booting = d.ptr.booting
               /\ e.art[n] = d.art[n] /\ IsInstalled(e, n) /\ ~IsBad(e, n)
               /\ \A m \in Patches \ {n} : IsInstalled(e, m) =>
                     /\ IsInstalled(d, m) /\ e.art[m] = d.art[m]
                     /\ m = d.ptr.next => m = d.ptr.last
<1>1. PICK i : i = RecordInstallComplete(d, n)
  OBVIOUS
<1>2. i \in Disks
  BY <1>1, InstallType
<1>3. /\ i.ptr = d.ptr /\ i.art = d.art
      /\ i.state = [d.state EXCEPT ![n] = Installed]
  BY <1>1 DEF RecordInstallComplete, WriteState, Disks
<1>4. PICK D : D = Displaced(i, n)
  OBVIOUS
<1>5. D = {d.ptr.next} \ {n, None, d.ptr.last}
  BY <1>3, <1>4 DEF Displaced
<1>6. PICK c : c = CleanSet(i, D)
  OBVIOUS
<1>7. /\ c \in Disks /\ Less(i, c) /\ c.ptr = i.ptr
      /\ \A m \in D : ~IsInstalled(c, m)
  BY <1>2, <1>6, CleanSetLess, CleanSetType
<1>8. PICK e : e = [c EXCEPT !.ptr.next = n]
  OBVIOUS
<1>9. /\ e.state = c.state /\ e.art = c.art /\ e.ptr.next = n
      /\ e.ptr.last = c.ptr.last /\ e.ptr.booting = c.ptr.booting
  BY <1>7, <1>8 DEF Disks, Pointers
<1>10. e = Install(d, n)
  BY <1>1, <1>4, <1>6, <1>8 DEF Install, PromoteToNextBoot
<1>11. IsInstalled(e, n)
  BY <1>10, InstallEffect
<1>12. e.art[n] = d.art[n] /\ ~IsBad(e, n)
  <2>1. IsInstalled(c, n)
    BY <1>9, <1>11 DEF IsInstalled, IsKind
  <2>2. QED BY <1>3, <1>7, <1>9, <1>11, <2>1 DEF Less, IsInstalled, IsBad, IsKind
<1>13. ASSUME NEW m \in Patches \ {n}, IsInstalled(e, m)
       PROVE  /\ IsInstalled(d, m) /\ e.art[m] = d.art[m]
              /\ m = d.ptr.next => m = d.ptr.last
  <2>1. IsInstalled(c, m)
    BY <1>9, <1>13 DEF IsInstalled, IsKind
  <2>2. IsInstalled(i, m) /\ c.art[m] = i.art[m] /\ m \notin D
    BY <1>7, <2>1 DEF Less
  <2>3. IsInstalled(d, m)
    BY <1>3, <2>2 DEF IsInstalled, IsKind, Disks
  <2>4. m # None
    BY NoneAssumption
  <2>5. QED BY <1>3, <1>5, <1>9, <2>2, <2>3, <2>4
<1>14. QED BY <1>3, <1>7, <1>9, <1>10, <1>11, <1>12, <1>13

-----------------------------------------------------------------------------
(***************************************************************************)
(* Lemmas on steps.                                                        *)
(***************************************************************************)
CInv == TypeInv /\ OverlapInv

ServerGrows == server.pub \subseteq server'.pub /\ server.rolled \subseteq server'.rolled

LEMMA LoseStore ==
    ASSUME CInv, Loses(disk, disk'), ServerGrows,
           \A u \in Updaters : upd'[u].patch \in {upd[u].patch, None}
    PROVE  /\ StoreOK(disk') /\ FallbackIsOldest'
           /\ Named(disk') \subseteq Named(disk) /\ Named(disk') \subseteq server'.pub
<1>1. StoreOK(disk')
  BY DEF CInv, OverlapInv, StoreOK, Loses, Less
<1>2. Named(disk') \subseteq Named(disk) /\ Named(disk') \subseteq server'.pub
  BY DEF CInv, OverlapInv, Loses, Named, ServerGrows
<1>3. FallbackIsOldest'
  <2> SUFFICES ASSUME NEW m \in Patches, IsInstalled(disk', m) \/ m = disk'.ptr.booting,
                      disk'.ptr.last # None, m < disk'.ptr.last
               PROVE  Superseded(disk.ptr.last)'
    BY DEF FallbackIsOldest
  <2>1. PICK l : l = disk.ptr.last
    OBVIOUS
  <2>2. disk'.ptr.last = l /\ (IsInstalled(disk, m) \/ m = disk.ptr.booting)
    BY <2>1, NoneAssumption DEF Loses, Less
  <2>3. Superseded(l)
    BY <2>1, <2>2 DEF CInv, OverlapInv, FallbackIsOldest
  <2>4. l \in Patches
    BY <2>1, <2>2, PointerFields DEF CInv, TypeInv, TypeOK, OptPatch
  <2>5. ~IsInstalled(disk', l)
    BY <2>3, <2>4 DEF Loses, Less, Superseded
  <2>6. \A u \in Updaters : upd'[u].patch # l
    BY <2>3, <2>4, NoneAssumption DEF Superseded
  <2>7. QED BY <2>2, <2>3, <2>5, <2>6 DEF Superseded, ServerGrows
<1>4. QED BY <1>1, <1>2, <1>3

(* A caller that does not move while the store only loses. *)
LEMMA OthersOffer ==
    ASSUME CInv, Less(disk, disk'), NotTorn(disk, disk'), Named(disk') \subseteq Named(disk),
           ServerGrows, NEW v \in Updaters, upd'[v] = upd[v]
    PROVE  OfferIsNewest(v)'
<1>1. OfferIsNewest(v)
  BY DEF CInv, OverlapInv
<1>2. \A m : IsInstalled(disk', m) => IsInstalled(disk, m)
  BY DEF Less, IsInstalled, IsKind
<1>3. upd[v].pc = "install" => upd[v].patch \in Patches
  BY DEF CInv, TypeInv, CallersOK
<1>4. upd[v].pc = "install" => disk'.art[upd[v].patch] # "torn"
  BY <1>1, <1>3 DEF OfferIsNewest, NotTorn
<1>5. Working(v)' = Working(v)
  BY DEF Working
<1>6. QED BY <1>1, <1>2, <1>4, <1>5 DEF OfferIsNewest, ServerGrows

LEMMA IdleOffer == ASSUME NEW v \in Updaters, upd'[v] = Idle PROVE OfferIsNewest(v)'
<1>1. /\ upd'[v].pc = "idle" /\ upd'[v].patch = None /\ upd'[v].rolled = {}
  BY DEF Idle
<1>2. QED BY <1>1 DEF OfferIsNewest, Working

(* No caller goes on: at most they stop. *)
LEMMA StopStep ==
    ASSUME CInv, Loses(disk, disk'), NotTorn(disk, disk'), ServerGrows,
           \A v \in Updaters : upd'[v] \in {upd[v], Idle}
    PROVE  OverlapInv'
<1>1. \A u \in Updaters : upd'[u].patch \in {upd[u].patch, None}
  BY DEF Idle
<1>2. /\ StoreOK(disk') /\ FallbackIsOldest'
      /\ Named(disk') \subseteq Named(disk) /\ Named(disk') \subseteq server'.pub
  BY <1>1, LoseStore
<1>3. \A v \in Updaters : OfferIsNewest(v)'
  BY <1>2, OthersOffer, IdleOffer DEF Loses
<1>4. OneUpdate'
  BY DEF CInv, OverlapInv, OneUpdate, Idle
<1>5. QED BY <1>2, <1>3, <1>4 DEF OverlapInv

(* One caller goes on; the others are idle. *)
LEMMA GoStep ==
    ASSUME CInv, Loses(disk, disk'), UNCHANGED server, NEW u \in Updaters, upd[u].pc # "idle",
           NEW pc \in UpdatePcs \ {"idle", "rollback"}, Goto(u, pc), upd[u].patch \in Patches,
           \A m \in Patches : IsInstalled(disk', m) => m <= upd[u].patch,
           pc # "decide" => ~IsInstalled(disk', upd[u].patch),
           pc = "install" => disk'.art[upd[u].patch] # "torn"
    PROVE  OverlapInv'
<1>1. upd \in [Updaters -> Callers]
  BY DEF CInv, TypeInv, CallersOK
<1>2. /\ upd'[u].pc = pc /\ upd'[u].patch = upd[u].patch /\ upd'[u].rolled = upd[u].rolled
      /\ \A v \in Updaters \ {u} : upd'[v] = upd[v]
  BY <1>1 DEF Goto, Callers
<1>3. ServerGrows
  BY DEF ServerGrows
<1>4. /\ StoreOK(disk') /\ FallbackIsOldest'
      /\ Named(disk') \subseteq Named(disk) /\ Named(disk') \subseteq server'.pub
  BY <1>2, <1>3, LoseStore
<1>5. \A v \in Updaters \ {u} : upd[v].pc = "idle"
  BY DEF CInv, OverlapInv, OneUpdate
<1>6. ASSUME NEW v \in Updaters PROVE OfferIsNewest(v)'
  <2>1. CASE v = u
    <3>1. OfferIsNewest(u)
      BY DEF CInv, OverlapInv
    <3>2. QED BY <1>2, <1>4, <2>1, <3>1, NoneAssumption DEF OfferIsNewest, Working
  <2>2. CASE v # u
    <3>1. OfferIsNewest(v) /\ upd'[v] = upd[v] /\ upd[v].pc = "idle"
      BY <1>2, <1>5, <2>2 DEF CInv, OverlapInv
    <3>2. QED BY <3>1 DEF OfferIsNewest, Working
  <2>3. QED BY <2>1, <2>2
<1>7. OneUpdate'
  BY <1>2, <1>5 DEF OneUpdate
<1>8. QED BY <1>4, <1>6, <1>7 DEF OverlapInv

(* A patch to install is newer than what is Installed, and not booting     *)
(* behind a newer fallback that could come back.                           *)
LEMMA InstallOverlap == ASSUME CInv, NEW u \in Updaters, InstallPatch(u) PROVE OverlapInv'
<1>1. PICK n : n = upd[u].patch
  OBVIOUS
<1>2. /\ disk \in Disks /\ n \in Patches /\ upd[u].pc = "install" /\ OfferIsNewest(u)
      /\ upd \in [Updaters -> Callers] /\ StoreOK(disk)
  BY <1>1 DEF InstallPatch, CInv, OverlapInv, TypeInv, TypeOK, CallersOK
<1>3. UNCHANGED server /\ upd' = [upd EXCEPT ![u] = Idle]
  BY DEF InstallPatch, Return
<1>4. \A v \in Updaters : upd'[v] \in {upd[v], Idle}
  BY <1>2, <1>3
<1>5. ServerGrows
  BY <1>3 DEF ServerGrows
<1>6. CASE disk' = disk
  <2>1. Loses(disk, disk') /\ NotTorn(disk, disk')
    BY <1>2, <1>6 DEF Loses, Less, NotTorn, StoreOK
  <2>2. QED BY <1>4, <1>5, <2>1, StopStep
<1>7. CASE disk.art[n] # "absent" /\ disk' = Install(disk, n)
  <2>1. /\ disk'.ptr.next = n /\ disk'.ptr.last = disk.ptr.last
        /\ disk'.ptr.booting = disk.ptr.booting /\ disk'.art[n] = disk.art[n]
        /\ IsInstalled(disk', n) /\ ~IsBad(disk', n)
        /\ \A m \in Patches \ {n} : IsInstalled(disk', m) =>
              /\ IsInstalled(disk, m) /\ disk'.art[m] = disk.art[m]
              /\ m = disk.ptr.next => m = disk.ptr.last
    BY <1>2, <1>7, InstallGains
  <2>2. disk.art[n] = "whole"
    BY <1>1, <1>2, <1>7 DEF OfferIsNewest, Disks, Artifacts
  <2>3. StoreOK(disk')
    BY <1>2, <2>1, <2>2 DEF StoreOK, NextFirst
  <2>4. Named(disk') \subseteq Named(disk) \cup {n} /\ n \in server.pub
    BY <1>1, <1>2, <2>1, NoneAssumption DEF Named, OfferIsNewest
  <2>5. Named(disk') \subseteq server'.pub
    BY <1>3, <2>4 DEF CInv, OverlapInv
  <2>6. \A v \in Updaters : upd'[v].pc = "idle" /\ upd'[v].patch = None /\ OfferIsNewest(v)'
    <3> SUFFICES ASSUME NEW v \in Updaters
                 PROVE  upd'[v].pc = "idle" /\ upd'[v].patch = None /\ OfferIsNewest(v)'
      OBVIOUS
    <3>1. CASE v = u
      <4>1. upd'[v] = Idle
        BY <1>2, <1>3, <3>1
      <4>2. QED BY <4>1, IdleOffer DEF Idle
    <3>2. CASE v # u
      <4>1. upd'[v] = upd[v] /\ upd[v].pc = "idle" /\ OfferIsNewest(v)
        BY <1>2, <1>3, <3>2 DEF CInv, OverlapInv, OneUpdate
      <4>2. QED BY <1>3, <4>1 DEF OfferIsNewest, Working
    <3>3. QED BY <3>1, <3>2
  <2>7. OneUpdate'
    BY <2>6 DEF OneUpdate
  <2>8. FallbackIsOldest'
    <3> SUFFICES ASSUME NEW m \in Patches, IsInstalled(disk', m) \/ m = disk'.ptr.booting,
                        disk'.ptr.last # None, m < disk'.ptr.last
                 PROVE  Superseded(disk.ptr.last)'
      BY DEF FallbackIsOldest
    <3>1. PICK l : l = disk.ptr.last
      OBVIOUS
    <3>2. l \in Patches /\ l \in Named(disk) /\ m < l /\ disk'.ptr.last = l
      BY <1>2, <2>1, <3>1, PointerFields DEF OptPatch, Named
    <3>3. m \in Nat /\ l \in Nat /\ n \in Nat
      BY <1>2, <3>2, PatchesAssumption
    <3>4. l # n /\ l \in server.rolled /\ ~IsInstalled(disk, l)
      <4>1. CASE m # n \/ m = disk.ptr.booting
        <5>1. IsInstalled(disk, m) \/ m = disk.ptr.booting
          BY <2>1, <4>1
        <5>2. Superseded(l)
          BY <3>1, <3>2, <5>1, NoneAssumption DEF CInv, OverlapInv, FallbackIsOldest
        <5>3. QED BY <1>1, <5>2 DEF Superseded
      <4>2. CASE m = n
        <5>1. ~(l <= n)
          BY <3>2, <3>3, <4>2
        <5>2. l \in upd[u].rolled /\ ~IsInstalled(disk, l)
          BY <1>1, <1>2, <3>2, <5>1, NoneAssumption DEF OfferIsNewest
        <5>3. QED BY <1>2, <3>2, <3>3, <4>2, <5>2 DEF OfferIsNewest
      <4>3. QED BY <4>1, <4>2
    <3>5. ~IsInstalled(disk', l) /\ \A v \in Updaters : upd'[v].patch # l
      BY <2>1, <2>6, <3>2, <3>4, NoneAssumption
    <3>6. QED BY <1>3, <3>2, <3>4, <3>5 DEF Superseded
  <2>9. QED BY <2>3, <2>5, <2>6, <2>7, <2>8 DEF OverlapInv
<1>8. QED BY <1>1, <1>6, <1>7 DEF InstallPatch

(* The newest patch that is not rolled back is offered to one caller. *)
LEMMA CheckOverlap ==
    ASSUME CInv, NEW u \in Updaters, NEW p \in Offered \cup {None}, CheckForPatch(u, p)
    PROVE  OverlapInv'
<1>1. /\ upd \in [Updaters -> Callers] /\ server \in [pub : SUBSET Patches, rolled : SUBSET Patches]
      /\ \A v \in Updaters : upd[v].pc = "idle"
  BY DEF CheckForPatch, Lock, CInv, TypeInv, TypeOK, CallersOK
<1>2. PICK url \in Urls :
        upd' = [upd EXCEPT ![u] = [pc |-> "rollback", patch |-> p,
                                   url |-> IF p = None THEN None ELSE url,
                                   rolled |-> server.rolled]]
  BY DEF CheckForPatch
<1>3. /\ upd'[u].pc = "rollback" /\ upd'[u].patch = p /\ upd'[u].rolled = server.rolled
      /\ \A v \in Updaters \ {u} : upd'[v] = upd[v]
  BY <1>1, <1>2
<1>4. UNCHANGED <<disk, server>>
  BY DEF CheckForPatch
<1>5. p # None => /\ p \in server.pub /\ p \notin server.rolled
                  /\ \A m \in server.pub : m <= p \/ m \in server.rolled
  BY DEF Offered, Live
<1>6. ASSUME NEW v \in Updaters PROVE OfferIsNewest(v)'
  <2>1. CASE v = u
    BY <1>3, <1>4, <1>5, <2>1 DEF CInv, OverlapInv, OfferIsNewest, Working
  <2>2. CASE v # u
    <3>1. OfferIsNewest(v) /\ upd'[v] = upd[v] /\ upd[v].pc = "idle"
      BY <1>1, <1>3, <2>2 DEF CInv, OverlapInv
    <3>2. QED BY <1>4, <3>1 DEF OfferIsNewest, Working
  <2>3. QED BY <2>1, <2>2
<1>7. OneUpdate'
  BY <1>1, <1>3 DEF OneUpdate
<1>8. FallbackIsOldest'
  <2> SUFFICES ASSUME NEW m \in Patches, IsInstalled(disk, m) \/ m = disk.ptr.booting,
                      disk.ptr.last # None, m < disk.ptr.last
               PROVE  Superseded(disk.ptr.last)'
    BY <1>4 DEF FallbackIsOldest, IsInstalled, IsKind
  <2>1. Superseded(disk.ptr.last)
    BY DEF CInv, OverlapInv, FallbackIsOldest
  <2>2. \A v \in Updaters : upd'[v].patch # disk.ptr.last
    BY <1>3, <1>5, <2>1 DEF Superseded
  <2>3. QED BY <1>4, <2>1, <2>2 DEF Superseded, IsInstalled, IsKind
<1>9. StoreOK(disk') /\ Named(disk') \subseteq server'.pub
  BY <1>4 DEF CInv, OverlapInv
<1>10. QED BY <1>6, <1>7, <1>8, <1>9 DEF OverlapInv

(* The rollbacks come first: what is left is not newer than the offer. *)
LEMMA RollbacksOverlap == ASSUME CInv, NEW u \in Updaters, ApplyRollbacks(u) PROVE OverlapInv'
<1>1. PICK K : K = upd[u].rolled
  OBVIOUS
<1>2. /\ disk \in Disks /\ upd[u].pc = "rollback" /\ OfferIsNewest(u) /\ StoreOK(disk)
      /\ upd \in [Updaters -> Callers]
  BY DEF ApplyRollbacks, CInv, OverlapInv, TypeInv, TypeOK, CallersOK
<1>3. disk' = Uninstall(disk, K) /\ UNCHANGED server
  BY <1>1 DEF ApplyRollbacks
<1>4. /\ Loses(disk, disk') /\ NotTorn(disk, disk')
      /\ \A m \in K : ~IsInstalled(disk', m)
  BY <1>2, <1>3, UninstallLoses DEF StoreOK
<1>5. CASE upd[u].patch = None
  <2>1. upd' = [upd EXCEPT ![u] = Idle]
    BY <1>5 DEF ApplyRollbacks, Return
  <2>2. \A v \in Updaters : upd'[v] \in {upd[v], Idle}
    BY <1>2, <2>1
  <2>3. ServerGrows
    BY <1>3 DEF ServerGrows
  <2>4. QED BY <1>4, <2>2, <2>3, StopStep
<1>6. CASE upd[u].patch # None
  <2>1. upd[u].patch \in Patches /\ Goto(u, "decide")
    BY <1>2, <1>6 DEF ApplyRollbacks, Callers, OptPatch
  <2>2. ASSUME NEW m \in Patches, IsInstalled(disk', m) PROVE m <= upd[u].patch
    <3>1. IsInstalled(disk, m) /\ m \notin K
      BY <1>4, <2>2 DEF Loses, Less
    <3>2. m \in Named(disk)
      BY <1>2, <3>1, NoneAssumption DEF StoreOK, Named
    <3>3. QED BY <1>1, <1>2, <1>6, <3>1, <3>2 DEF OfferIsNewest
  <2>3. "decide" \in UpdatePcs \ {"idle", "rollback"}
    BY DEF UpdatePcs
  <2>4. QED BY <1>2, <1>3, <1>4, <2>1, <2>2, <2>3, GoStep
<1>7. QED BY <1>5, <1>6

(* A step of a working caller on its own download and artifact. *)
LEMMA WorkOverlap ==
    ASSUME CInv, NEW u \in Updaters, Working(u) \/ upd[u].pc = "decide", UNCHANGED server,
           Loses(disk, disk'),
           NEW pc \in UpdatePcs \ {"idle", "rollback", "decide"}, Goto(u, pc),
           ~IsInstalled(disk, upd[u].patch), pc = "install" => disk'.art[upd[u].patch] # "torn"
    PROVE  OverlapInv'
<1>1. upd[u].pc \notin {"idle", "rollback"} /\ upd[u].patch \in Patches /\ OfferIsNewest(u)
  BY DEF Working, CInv, OverlapInv, TypeInv, CallersOK
<1>2. \A m \in Patches : IsInstalled(disk, m) => m <= upd[u].patch
  BY <1>1, NoneAssumption DEF OfferIsNewest
<1>3. /\ ~IsInstalled(disk', upd[u].patch)
      /\ \A m \in Patches : IsInstalled(disk', m) => m <= upd[u].patch
  BY <1>1, <1>2 DEF Loses, Less
<1>4. QED BY <1>1, <1>3, GoStep

LEMMA ReturnOverlap ==
    ASSUME CInv, NEW u \in Updaters, Return(u), UNCHANGED server,
           Loses(disk, disk'), NotTorn(disk, disk')
    PROVE  OverlapInv'
<1>1. \A v \in Updaters : upd'[v] \in {upd[v], Idle}
  BY DEF Return, CInv, TypeInv, CallersOK
<1>2. ServerGrows
  BY DEF ServerGrows
<1>3. QED BY <1>1, <1>2, StopStep

LEMMA UpdateOverlap == ASSUME CInv, NEW u \in Updaters, UpdateStep(u) PROVE OverlapInv'
<1>1. PICK n : n = upd[u].patch
  OBVIOUS
<1>2. /\ disk \in Disks /\ StoreOK(disk) /\ OfferIsNewest(u)
      /\ upd[u].pc \notin {"idle", "rollback"} => n \in Patches
      /\ Working(u) => n \in Patches /\ ~IsInstalled(disk, n)
  BY <1>1 DEF CInv, OverlapInv, TypeInv, TypeOK, CallersOK, OfferIsNewest, Working
<1>3. UNCHANGED server
  BY UpdateStepFrame
<1>a. Loses(disk, disk) /\ NotTorn(disk, disk)
  BY <1>2 DEF Loses, Less, NotTorn, StoreOK
<1>b. ASSUME NEW c
      PROVE  LET e == Received(u, c)
             IN  Loses(disk, e) /\ NotTorn(disk, e) /\ e.state = disk.state /\ e.art = disk.art
  <2>1. PICK e : e = Received(u, c)
    OBVIOUS
  <2>2. e.state = disk.state /\ e.art = disk.art /\ e.ptr = disk.ptr
    BY <1>2, <2>1 DEF Received, Disks
  <2>3. Loses(disk, e) /\ NotTorn(disk, e)
    BY <1>2, <2>2 DEF Loses, Less, NotTorn, StoreOK, NextFirst, IsInstalled, IsBad, IsKind
  <2>4. QED BY <2>1, <2>2, <2>3
<1>4. CASE PlanDownload(u)
  <2>1. upd[u].pc = "decide" /\ disk' = disk
    BY <1>4 DEF PlanDownload
  <2>2. IsInstalled(disk, n) => DecideStart(disk, n, upd[u].url) = "AlreadyInstalled"
    BY DEF DecideStart, IsInstalled, IsKind
  <2>3. \/ Return(u)
        \/ /\ \E pc \in {"inflate", "record_fresh", "record_resume"} : Goto(u, pc)
           /\ DecideStart(disk, n, upd[u].url) # "AlreadyInstalled"
    BY <1>1, <1>4 DEF PlanDownload
  <2>4. CASE Return(u)
    BY <1>3, <1>a, <2>1, <2>4, ReturnOverlap
  <2>5. ASSUME NEW pc \in {"inflate", "record_fresh", "record_resume"}, Goto(u, pc),
               DecideStart(disk, n, upd[u].url) # "AlreadyInstalled"
        PROVE  OverlapInv'
    <3>1. pc \in UpdatePcs \ {"idle", "rollback", "decide"} /\ pc # "install"
      BY DEF UpdatePcs
    <3>2. QED BY <1>1, <1>3, <1>a, <2>1, <2>2, <2>5, <3>1, WorkOverlap
  <2>6. QED BY <2>3, <2>4, <2>5
<1>5. CASE RecordStarted(u)
  <2>1. Working(u) /\ n \in Patches /\ ~IsInstalled(disk, n)
    BY <1>2, <1>5 DEF RecordStarted, Working
  <2>2. /\ disk'.ptr = disk.ptr /\ disk'.art = disk.art
        /\ disk'.state = [disk.state EXCEPT ![n] = Downloading(upd[u].url)]
    BY <1>1, <1>2, <1>5 DEF RecordStarted, RecordDownloadStarted, WriteState, Disks
  <2>3. /\ disk'.state[n].kind = "Downloading"
        /\ \A m \in Patches \ {n} : disk'.state[m] = disk.state[m] /\ disk'.art[m] = disk.art[m]
    BY <1>2, <2>1, <2>2 DEF Disks, Downloading
  <2>4. Loses(disk, disk')
    BY <1>2, <2>1, <2>2, <2>3, WriteLoses
  <2>5. PICK pc \in {"open_fresh", "open_resume"} : Goto(u, pc)
    BY <1>5 DEF RecordStarted
  <2>6. pc \in UpdatePcs \ {"idle", "rollback", "decide"} /\ pc # "install"
    BY DEF UpdatePcs
  <2>7. QED BY <1>1, <1>3, <2>1, <2>4, <2>5, <2>6, WorkOverlap
<1>6. CASE OpenDownload(u)
  <2>1. Working(u)
    BY <1>6 DEF OpenDownload, Working
  <2>2. disk'.state = disk.state /\ disk'.art = disk.art /\ disk'.ptr = disk.ptr
    BY <1>2, <1>6 DEF OpenDownload, Disks
  <2>3. Loses(disk, disk')
    BY <1>2, <2>2 DEF Loses, Less, StoreOK, NextFirst, IsInstalled, IsBad, IsKind
  <2>4. PICK pc \in {"receive_fresh", "receive_resume"} : Goto(u, pc)
    BY <1>6 DEF OpenDownload
  <2>5. pc \in UpdatePcs \ {"idle", "rollback", "decide"} /\ pc # "install"
    BY DEF UpdatePcs
  <2>6. QED BY <1>1, <1>2, <1>3, <2>1, <2>3, <2>4, <2>5, WorkOverlap
<1>7. CASE ReceiveSome(u)
  <2>1. upd' = upd /\ \E c : disk' = Received(u, c)
    BY <1>7 DEF ReceiveSome
  <2>2. Loses(disk, disk') /\ NotTorn(disk, disk') /\ ServerGrows
    BY <1>3, <1>b, <2>1 DEF ServerGrows
  <2>3. QED BY <2>1, <2>2, StopStep
<1>8. ASSUME NEW c, ReceiveWhole(u, c) PROVE OverlapInv'
  <2>1. Working(u) /\ disk' = Received(u, c) /\ Goto(u, "record_complete")
    BY <1>8 DEF ReceiveWhole, WholeBody, Working
  <2>2. "record_complete" \in UpdatePcs \ {"idle", "rollback", "decide"}
    BY DEF UpdatePcs
  <2>3. Loses(disk, disk')
    BY <1>b, <2>1
  <2>4. QED BY <1>1, <1>2, <1>3, <2>1, <2>2, <2>3, WorkOverlap
<1>9. CASE ReceiveRest(u)
  <2>1. Working(u) /\ \E c : disk' = Received(u, c)
    BY <1>9 DEF ReceiveRest, RestOfBody, Working
  <2>2. PICK pc \in {"mismatch", "record_complete"} : Goto(u, pc)
    BY <1>9 DEF ReceiveRest
  <2>3. pc \in UpdatePcs \ {"idle", "rollback", "decide"}
    BY DEF UpdatePcs
  <2>4. Loses(disk, disk')
    BY <1>b, <2>1
  <2>5. QED BY <1>1, <1>2, <1>3, <2>1, <2>2, <2>3, <2>4, WorkOverlap
<1>10. CASE ReceiveFails(u) \/ BaseMissing(u)
  <2>1. Return(u) /\ disk' = disk
    BY <1>10 DEF ReceiveFails, BaseMissing
  <2>2. QED BY <1>3, <1>a, <2>1, ReturnOverlap
<1>11. CASE SizeMismatch(u)
  <2>1. Return(u) /\ disk' = Uninstall(disk, {n})
    BY <1>1, <1>11 DEF SizeMismatch
  <2>2. Loses(disk, disk') /\ NotTorn(disk, disk')
    BY <1>2, <2>1, UninstallLoses DEF StoreOK
  <2>3. QED BY <1>3, <2>1, <2>2, ReturnOverlap
<1>12. CASE RecordComplete(u)
  <2>1. Working(u) /\ n \in Patches /\ ~IsInstalled(disk, n)
    BY <1>2, <1>12 DEF RecordComplete, Working
  <2>2. CASE CanCompleteDownload(disk, n)
    <3>1. disk' = RecordDownloadComplete(disk, n) /\ Goto(u, "inflate")
      BY <1>1, <1>12, <2>2 DEF RecordComplete
    <3>2. /\ disk'.ptr = disk.ptr /\ disk'.art = disk.art
          /\ disk'.state = [disk.state EXCEPT ![n] = Downloaded(disk.state[n].url)]
      BY <1>2, <3>1 DEF RecordDownloadComplete, WriteState, Disks
    <3>3. /\ disk'.state[n].kind = "Downloaded"
          /\ \A m \in Patches \ {n} : disk'.state[m] = disk.state[m] /\ disk'.art[m] = disk.art[m]
      BY <1>2, <2>1, <3>2 DEF Disks, Downloaded
    <3>4. Loses(disk, disk')
      BY <1>2, <2>1, <3>2, <3>3, WriteLoses
    <3>5. "inflate" \in UpdatePcs \ {"idle", "rollback", "decide"}
      BY DEF UpdatePcs
    <3>6. QED BY <1>1, <1>3, <2>1, <3>1, <3>4, <3>5, WorkOverlap
  <2>3. CASE ~CanCompleteDownload(disk, n)
    <3>1. Return(u) /\ disk' = disk
      BY <1>1, <1>12, <2>3 DEF RecordComplete
    <3>2. QED BY <1>3, <1>a, <3>1, ReturnOverlap
  <2>4. QED BY <2>2, <2>3
<1>13. CASE InflateBegin(u) \/ InflateEnd(u)
  <2>1. Working(u) /\ n \in Patches /\ ~IsInstalled(disk, n)
    BY <1>2, <1>13 DEF InflateBegin, InflateEnd, Working
  <2>2. PICK a \in Artifacts, pc \in {"bad_bytes", "bad_hash", "check_full", "check_bad", "install"} :
          /\ disk' = disk \/ disk' = [disk EXCEPT !.art[n] = a]
          /\ Goto(u, pc)
          /\ pc = "install" => disk' = [disk EXCEPT !.art[n] = "whole"]
    BY <1>1, <1>13 DEF InflateBegin, InflateEnd, Artifacts
  <2>3. /\ disk'.ptr = disk.ptr /\ disk'.state = disk.state
        /\ \A m \in Patches \ {n} : disk'.art[m] = disk.art[m]
        /\ pc = "install" => disk'.art[n] = "whole"
    BY <1>2, <2>1, <2>2 DEF Disks
  <2>4. Loses(disk, disk')
    BY <1>2, <2>1, <2>3, WriteLoses
  <2>5. pc \in UpdatePcs \ {"idle", "rollback", "decide"}
    BY DEF UpdatePcs
  <2>6. QED BY <1>1, <1>3, <2>1, <2>2, <2>3, <2>4, <2>5, WorkOverlap
<1>14. CASE RejectPatch(u)
  <2>1. /\ n \in Patches /\ Return(u)
        /\ disk' = MarkBadAndRecompute(disk, n, Reason(upd[u].pc))
        /\ Reason(upd[u].pc) \in BadReasons
    BY <1>1, <1>2, <1>14 DEF RejectPatch, Reason, BadReasons
  <2>2. Loses(disk, disk') /\ NotTorn(disk, disk')
    BY <1>2, <2>1, RejectLoses
  <2>3. QED BY <1>3, <2>1, <2>2, ReturnOverlap
<1>15. QED
  BY <1>4, <1>5, <1>6, <1>7, <1>8, <1>9, <1>10, <1>11, <1>12, <1>13, <1>14,
     CheckOverlap, RollbacksOverlap, InstallOverlap DEF UpdateStep

-----------------------------------------------------------------------------
(***************************************************************************)
(* The engine.                                                             *)
(***************************************************************************)
(* What is launched is the next patch, so the fallback is not newer. *)
LEMMA LaunchOverlap == ASSUME CInv, ReportLaunchStart PROVE OverlapInv'
<1>1. UNCHANGED <<upd, server>> /\ disk \in Disks
  BY DEF ReportLaunchStart, CInv, TypeInv, TypeOK
<1>2. CASE ~CanRecordBootStart(disk, disk.ptr.next)
  <2>1. disk' = disk
    BY <1>2 DEF ReportLaunchStart
  <2>2. Loses(disk, disk') /\ NotTorn(disk, disk') /\ ServerGrows
    BY <1>1, <2>1 DEF CInv, OverlapInv, StoreOK, Loses, Less, NotTorn, ServerGrows
  <2>3. QED BY <1>1, <2>2, StopStep
<1>3. CASE CanRecordBootStart(disk, disk.ptr.next)
  <2>1. PICK n : n = disk.ptr.next
    OBVIOUS
  <2>2. IsInstalled(disk, n) /\ n \in Patches
    BY <1>3, <2>1 DEF CanRecordBootStart, IsInstalled, IsKind
  <2>3. disk' = [disk EXCEPT !.ptr.booting = n]
    BY <1>3, <2>1 DEF ReportLaunchStart, RecordBootStart
  <2>4. /\ disk'.state = disk.state /\ disk'.art = disk.art /\ disk'.ptr.next = n
        /\ disk'.ptr.last = disk.ptr.last /\ disk'.ptr.booting = n
    BY <1>1, <2>1, <2>3 DEF Disks, Pointers
  <2>5. Named(disk') \subseteq Named(disk)
    BY <2>1, <2>4 DEF Named
  <2>6. \A m : IsInstalled(disk', m) <=> IsInstalled(disk, m)
    BY <2>4 DEF IsInstalled, IsKind
  <2>7. Less(disk, disk') /\ NotTorn(disk, disk') /\ ServerGrows
    BY <1>1, <2>4, <2>6 DEF Less, NotTorn, ServerGrows
  <2>8. \A v \in Updaters : OfferIsNewest(v)'
    BY <1>1, <2>5, <2>7, OthersOffer
  <2>9. StoreOK(disk')
    BY <2>1, <2>4 DEF CInv, OverlapInv, StoreOK, NextFirst, IsInstalled, IsBad, IsKind
  <2>10. FallbackIsOldest'
    <3> SUFFICES ASSUME NEW m \in Patches, IsInstalled(disk', m) \/ m = disk'.ptr.booting,
                        disk'.ptr.last # None, m < disk'.ptr.last
                 PROVE  Superseded(disk.ptr.last)'
      BY DEF FallbackIsOldest
    <3>1. Superseded(disk.ptr.last)
      BY <2>2, <2>4, <2>6 DEF CInv, OverlapInv, FallbackIsOldest
    <3>2. QED BY <1>1, <2>4, <2>6, <3>1 DEF Superseded
  <2>11. Named(disk') \subseteq server'.pub /\ OneUpdate'
    BY <1>1, <2>5 DEF CInv, OverlapInv, OneUpdate
  <2>12. QED BY <2>8, <2>9, <2>10, <2>11 DEF OverlapInv
<1>4. QED BY <1>2, <1>3

(* The booted patch becomes the fallback and everything older goes: what   *)
(* is left is named, because a newer fallback was not Installed.           *)
LEMMA SuccessOverlap ==
    ASSUME CInv, disk.ptr.booting # None, disk' = RecordBootSuccess(disk), UNCHANGED <<upd, server>>
    PROVE  OverlapInv'
<1>1. PICK b : b = disk.ptr.booting
  OBVIOUS
<1>2. disk \in Disks /\ b \in Patches /\ b # None
  BY <1>1, PointerFields DEF CInv, TypeInv, TypeOK, OptPatch
<1>3. /\ Less(disk, disk') /\ NotTorn(disk, disk') /\ disk'.ptr.next = disk.ptr.next
      /\ disk'.ptr.last = b /\ disk'.ptr.booting = None
      /\ \A m \in Patches : IsBad(disk', m) => IsBad(disk, m)
      /\ \A m \in Patches : m < b => ~IsInstalled(disk', m)
      /\ \A m \in Patches : IsInstalled(disk, m) => IsInstalled(disk', m) \/ m < b
  BY <1>1, <1>2, SuccessEffect
<1>4. Named(disk') \subseteq Named(disk) /\ ServerGrows
  BY <1>1, <1>3 DEF Named, ServerGrows
<1>5. \A v \in Updaters : OfferIsNewest(v)'
  BY <1>3, <1>4, OthersOffer
<1>6. StoreOK(disk')
  <2>1. ~IsBad(disk', disk'.ptr.next)
    BY <1>3 DEF CInv, OverlapInv, StoreOK, IsBad, IsKind
  <2>2. ASSUME NEW m \in Patches, IsInstalled(disk', m)
        PROVE  m \in {disk'.ptr.next, disk'.ptr.last} /\ disk'.art[m] = "whole"
    <3>1. /\ IsInstalled(disk, m) /\ disk'.art[m] = disk.art[m] /\ ~(m < b)
          /\ m \in {disk.ptr.next, disk.ptr.last} /\ disk.art[m] = "whole"
      BY <1>3, <2>2 DEF CInv, OverlapInv, StoreOK, Less
    <3>2. CASE m = disk.ptr.next
      BY <1>3, <3>1, <3>2
    <3>3. CASE m = disk.ptr.last
      <4>1. ~(b < m)
        BY <1>1, <1>2, <3>1, <3>3, NoneAssumption
           DEF CInv, OverlapInv, FallbackIsOldest, Superseded
      <4>2. m = b
        BY <1>2, <3>1, <4>1, PatchesAssumption
      <4>3. QED BY <1>3, <3>1, <4>2
    <3>4. QED BY <3>1, <3>2, <3>3
  <2>3. ASSUME IsInstalled(disk', b) PROVE IsInstalled(disk', disk'.ptr.next)
    <3>1. IsInstalled(disk, b) /\ b \in {disk.ptr.next, disk.ptr.last}
      BY <1>2, <1>3, <2>3 DEF CInv, OverlapInv, StoreOK, Less
    <3>2. CASE b = disk.ptr.next
      BY <1>3, <2>3, <3>2
    <3>3. CASE b = disk.ptr.last
      <4>1. PICK n : n = disk.ptr.next
        OBVIOUS
      <4>2. IsInstalled(disk, n) /\ n \in Patches
        BY <3>1, <3>3, <4>1 DEF CInv, OverlapInv, StoreOK, NextFirst, IsInstalled, IsKind
      <4>3. ~(n < b)
        BY <1>2, <3>1, <3>3, <4>2 DEF CInv, OverlapInv, FallbackIsOldest, Superseded
      <4>4. QED BY <1>3, <4>1, <4>2, <4>3
    <3>4. QED BY <3>1, <3>2, <3>3
  <2>4. QED BY <1>3, <2>1, <2>2, <2>3 DEF StoreOK, NextFirst
<1>7. FallbackIsOldest'
  BY <1>3, NoneAssumption DEF FallbackIsOldest
<1>8. Named(disk') \subseteq server'.pub /\ OneUpdate'
  BY <1>4 DEF CInv, OverlapInv, OneUpdate
<1>9. QED BY <1>5, <1>6, <1>7, <1>8 DEF OverlapInv

LEMMA EngineOverlap == ASSUME CInv, EngineStep PROVE OverlapInv'
<1>1. /\ UNCHANGED <<upd, server>> /\ disk \in Disks /\ StoreOK(disk)
      /\ disk.ptr.booting \in OptPatch /\ disk.ptr.next \in OptPatch
  BY PointerFields
     DEF EngineStep, Start, ValidateNextBootPatch, ReportLaunchStart, ReportLaunchSuccess,
         ReportLaunchFailure, CInv, OverlapInv, TypeInv, TypeOK
<1>2. ASSUME Loses(disk, disk'), NotTorn(disk, disk') PROVE OverlapInv'
  BY <1>1, <1>2, StopStep DEF ServerGrows
<1>3. CASE disk' = disk
  BY <1>1, <1>2, <1>3 DEF StoreOK, Loses, Less, NotTorn
<1>4. CASE disk.ptr.booting # None /\ disk' = RecordBootFailure(disk, disk.ptr.booting)
  BY <1>1, <1>2, <1>4, FailureLoses DEF OptPatch
<1>5. CASE Start \/ ReportLaunchFailure
  BY <1>3, <1>4, <1>5 DEF Start, ReportLaunchFailure, DetectBootCrash
<1>6. CASE ValidateNextBootPatch
  <2>1. CASE disk' = disk
    BY <1>3, <2>1
  <2>2. CASE disk' # disk
    <3>1. /\ disk' = MarkBadAndRecompute(disk, disk.ptr.next, "ValidationFailed")
          /\ disk.ptr.next \in Patches /\ "ValidationFailed" \in BadReasons
      BY <1>1, <1>6, <2>2 DEF ValidateNextBootPatch, ValidateNextBoot, OptPatch, BadReasons
    <3>2. QED BY <1>1, <1>2, <3>1, RejectLoses
  <2>3. QED BY <2>1, <2>2
<1>7. CASE ReportLaunchSuccess
  BY <1>1, <1>3, <1>7, SuccessOverlap DEF ReportLaunchSuccess
<1>8. QED BY <1>5, <1>6, <1>7, LaunchOverlap DEF EngineStep

-----------------------------------------------------------------------------
(***************************************************************************)
(* The invariant, and what follows from it.                                *)
(***************************************************************************)
LEMMA InitOverlap == Init => CInv
<1> SUFFICES ASSUME Init PROVE OverlapInv
  BY InitType DEF CInv
<1>1. \A u \in Updaters : upd[u].pc = "idle" /\ upd[u].patch = None /\ upd[u].rolled = {}
  BY DEF Init, Idle
<1>2. disk.ptr = [next |-> None, last |-> None, booting |-> None]
  BY DEF Init, EmptyDisk
<1>3. \A m : ~IsInstalled(disk, m) /\ ~IsBad(disk, m)
  BY DEF Init, EmptyDisk, IsInstalled, IsBad, IsKind, Unknown
<1>4. QED
  BY <1>1, <1>2, <1>3, NoneAssumption
     DEF OverlapInv, OneUpdate, StoreOK, NextFirst, FallbackIsOldest, Named, OfferIsNewest, Working

LEMMA OverlapStep ==
    ASSUME KillInSection = FALSE, Damage = FALSE, CInv, [Next]_vars
    PROVE  CInv'
<1> SUFFICES OverlapInv'
  BY StepType DEF CInv
<1>0. /\ disk \in Disks /\ StoreOK(disk)
      /\ server \in [pub : SUBSET Patches, rolled : SUBSET Patches]
  BY DEF CInv, OverlapInv, TypeInv, TypeOK
<1>a. ASSUME disk' = disk, ServerGrows, \A v \in Updaters : upd'[v] \in {upd[v], Idle}
      PROVE  OverlapInv'
  <2>1. Loses(disk, disk') /\ NotTorn(disk, disk')
    BY <1>0, <1>a DEF StoreOK, Loses, Less, NotTorn
  <2>2. QED BY <1>a, <2>1, StopStep
<1>1. ASSUME NEW n \in Patches, Publish(n) \/ RollBack(n) PROVE OverlapInv'
  <2>1. ServerGrows
    BY <1>0, <1>1 DEF Publish, RollBack, ServerGrows
  <2>2. QED BY <1>1, <1>a, <2>1 DEF Publish, RollBack
<1>2. ASSUME NEW n \in Patches, LoseDownload(n) PROVE OverlapInv'
  <2>1. disk'.state = disk.state /\ disk'.art = disk.art /\ disk'.ptr = disk.ptr
    BY <1>0, <1>2 DEF LoseDownload, Disks
  <2>2. Loses(disk, disk') /\ NotTorn(disk, disk')
    BY <1>0, <2>1 DEF StoreOK, Loses, Less, NotTorn, NextFirst, IsInstalled, IsBad, IsKind
  <2>3. QED BY <1>2, <2>2, StopStep DEF LoseDownload, ServerGrows
<1>3. CASE CheckApplyRollbacks
  <2>1. disk' = Uninstall(disk, chk) /\ UNCHANGED <<upd, server>>
    BY <1>3 DEF CheckApplyRollbacks
  <2>2. Loses(disk, disk') /\ NotTorn(disk, disk')
    BY <1>0, <2>1, UninstallLoses DEF StoreOK
  <2>3. QED BY <2>1, <2>2, StopStep DEF ServerGrows
<1>4. CASE CheckAsk
  BY <1>4, <1>a DEF CheckAsk, ServerGrows
<1>5. CASE Kill
  BY <1>5, <1>a DEF Kill, Cuts, ServerGrows
<1>6. CASE UNCHANGED vars
  BY <1>6, <1>a DEF vars, ServerGrows
<1>7. QED
  BY <1>1, <1>2, <1>3, <1>4, <1>5, <1>6, EngineOverlap, UpdateOverlap
     DEF Next, DamageArtifact, KillInInit

LEMMA OverlapHolds ==
    ASSUME KillInSection = FALSE, Damage = FALSE PROVE Spec => []CInv
<1>1. CInv /\ [Next]_vars => CInv'
  BY OverlapStep
<1>2. QED BY InitOverlap, <1>1, PTL DEF Spec

(***************************************************************************)
(* No pointer schedules a tombstone: every section that marks a patch bad  *)
(* moves next_boot_patch off it, and none puts it back                     *)
(* (recompute_next_boot of cache/lifecycle.cpp).                           *)
(***************************************************************************)
THEOREM NextIsNoTombstone ==
    ASSUME KillInSection = FALSE, Damage = FALSE PROVE Spec => []NextNotTombstoned
<1>1. CInv => NextNotTombstoned
  BY DEF CInv, OverlapInv, StoreOK, NextNotTombstoned
<1>2. QED BY OverlapHolds, <1>1, PTL

(***************************************************************************)
(* An Installed patch stays reachable from pointers.json as the next to    *)
(* boot or as the fallback: a success report that makes an older patch the *)
(* fallback meets no newer Installed one.                                  *)
(***************************************************************************)
THEOREM InstalledIsReachable ==
    ASSUME KillInSection = FALSE, Damage = FALSE PROVE Spec => []InstalledReachable
<1>1. CInv => InstalledReachable
  BY DEF CInv, OverlapInv, StoreOK, InstalledReachable
<1>2. QED BY OverlapHolds, <1>1, PTL

(***************************************************************************)
(* An Installed artifact is the whole file that was hashed: no update()    *)
(* inflates over it, whatever else runs.                                   *)
(***************************************************************************)
THEOREM InstalledStaysWhole ==
    ASSUME KillInSection = FALSE, Damage = FALSE PROVE Spec => []InstalledIsWhole
<1>1. CInv => InstalledIsWhole
  BY DEF CInv, OverlapInv, StoreOK, InstalledIsWhole
<1>2. QED BY OverlapHolds, <1>1, PTL

(* What moves next_boot_patch moves it to an Installed patch or to none. *)
Settles(d, e) ==
    (d.ptr.next # None => IsInstalled(d, d.ptr.next))
        => (e.ptr.next # None => IsInstalled(e, e.ptr.next))

LEMMA SettlesSame ==
    ASSUME NEW d, NEW e, e.ptr = d.ptr, \A m : IsInstalled(d, m) => IsInstalled(e, m)
    PROVE  Settles(d, e)
BY DEF Settles

LEMMA UninstallSettles ==
    ASSUME NEW d \in Disks, NEW K PROVE Settles(d, Uninstall(d, K))
<1>1. CASE K = {}
  BY <1>1 DEF Uninstall, Settles
<1>2. CASE K # {}
  <2>1. PICK c : c = CleanSet(d, K)
    OBVIOUS
  <2>2. c \in Disks
    BY <2>1, CleanSetType
  <2>3. Uninstall(d, K) = RecomputeNextBoot(c)
    BY <1>2, <2>1 DEF Uninstall
  <2>4. QED BY <2>2, <2>3, RecomputeEffect DEF Settles
<1>3. QED BY <1>1, <1>2

LEMMA UpdateSettles ==
    ASSUME CInv, NEW u \in Updaters, UpdateStep(u) PROVE Settles(disk, disk')
<1>1. PICK n : n = upd[u].patch
  OBVIOUS
<1>2. /\ disk \in Disks /\ (Working(u) => n \in Patches /\ ~IsInstalled(disk, n))
  BY <1>1 DEF CInv, OverlapInv, OfferIsNewest, TypeInv, TypeOK, CallersOK, Working
<1>3. CASE disk'.ptr = disk.ptr /\ disk'.state = disk.state
  <2>1. \A m : IsInstalled(disk, m) => IsInstalled(disk', m)
    BY <1>3 DEF IsInstalled, IsKind
  <2>2. QED BY <1>3, <2>1, SettlesSame
<1>4. CASE ApplyRollbacks(u) \/ SizeMismatch(u)
  BY <1>2, <1>4, UninstallSettles DEF ApplyRollbacks, SizeMismatch
<1>5. CASE RecordStarted(u) \/ RecordComplete(u)
  <2>1. Working(u)
    BY <1>5 DEF RecordStarted, RecordComplete, Working
  <2>2. disk' = disk \/ \E s : disk' = WriteState(disk, n, s)
    BY <1>1, <1>5
    DEF RecordStarted, RecordComplete, RecordDownloadStarted, RecordDownloadComplete
  <2>3. ASSUME NEW s, disk' = WriteState(disk, n, s)
        PROVE  disk'.ptr = disk.ptr /\ \A m : IsInstalled(disk, m) => IsInstalled(disk', m)
    <3>1. disk'.ptr = disk.ptr /\ disk'.state = [disk.state EXCEPT ![n] = s]
      BY <1>2, <2>3 DEF WriteState, Disks
    <3>2. \A m \in Patches \ {n} : disk'.state[m] = disk.state[m]
      BY <1>2, <3>1 DEF Disks
    <3>3. QED BY <1>2, <2>1, <3>1, <3>2 DEF IsInstalled, IsKind
  <2>4. QED BY <1>3, <2>2, <2>3, SettlesSame
<1>6. CASE RejectPatch(u)
  <2>1. n \in Patches /\ Reason(upd[u].pc) \in BadReasons
    BY <1>2, <1>6 DEF RejectPatch, Working, Reason, BadReasons
  <2>2. disk' = MarkBadAndRecompute(disk, n, Reason(upd[u].pc))
    BY <1>1, <1>6 DEF RejectPatch
  <2>3. QED BY <1>2, <2>1, <2>2, MarkBadAndRecomputeMarks DEF Settles
<1>7. CASE InstallPatch(u)
  <2>1. n \in Patches
    BY <1>2, <1>7 DEF InstallPatch, Working
  <2>2. disk' = disk \/ disk' = Install(disk, n)
    BY <1>1, <1>7 DEF InstallPatch
  <2>3. disk' = Install(disk, n) => disk'.ptr.next = n /\ IsInstalled(disk', n)
    BY <1>2, <2>1, InstallGains
  <2>4. QED BY <1>3, <2>2, <2>3 DEF Settles
<1>8. CASE OpenDownload(u) \/ InflateBegin(u) \/ InflateEnd(u)
  BY <1>2, <1>3, <1>8 DEF OpenDownload, InflateBegin, InflateEnd, Disks
<1>9. CASE ReceiveSome(u) \/ ReceiveRest(u) \/ \E c \in {"full", "corrupt"} : ReceiveWhole(u, c)
  <2>1. \A c : Received(u, c).state = disk.state /\ Received(u, c).ptr = disk.ptr
    BY <1>2 DEF Received, Disks
  <2>2. QED BY <1>3, <1>9, <2>1 DEF ReceiveSome, ReceiveRest, ReceiveWhole
<1>10. CASE \/ PlanDownload(u) \/ ReceiveFails(u) \/ BaseMissing(u)
            \/ \E p \in Offered \cup {None} : CheckForPatch(u, p)
  BY <1>3, <1>10 DEF PlanDownload, ReceiveFails, BaseMissing, CheckForPatch
<1>11. QED BY <1>4, <1>5, <1>6, <1>7, <1>8, <1>9, <1>10 DEF UpdateStep

LEMMA ValidatedStep ==
    ASSUME CInv, ValidatedNextInstalled, [Next]_vars PROVE ValidatedNextInstalled'
<1>1. disk \in Disks
  BY DEF CInv, TypeInv, TypeOK
<1>2. ASSUME Settles(disk, disk'), UNCHANGED eng PROVE ValidatedNextInstalled'
  BY <1>2 DEF Settles, ValidatedNextInstalled
<1>3. CASE disk' = disk /\ UNCHANGED eng
  BY <1>2, <1>3 DEF Settles
<1>4. ASSUME NEW n \in Patches, Publish(n) \/ RollBack(n) \/ LoseDownload(n)
      PROVE  ValidatedNextInstalled'
  <2>1. disk'.ptr = disk.ptr /\ disk'.state = disk.state /\ UNCHANGED eng
    BY <1>1, <1>4 DEF Publish, RollBack, LoseDownload, Disks
  <2>2. QED BY <2>1 DEF ValidatedNextInstalled, IsInstalled, IsKind
<1>5. CASE ValidateNextBootPatch
  <2>1. CASE disk.ptr.next = None \/ Bootable(disk, disk.ptr.next)
    BY <1>5, <2>1 DEF ValidateNextBootPatch, ValidateNextBoot, Bootable, ValidatedNextInstalled
  <2>2. CASE ~(disk.ptr.next = None \/ Bootable(disk, disk.ptr.next))
    <3>1. /\ disk.ptr.next \in Patches /\ "ValidationFailed" \in BadReasons
          /\ disk' = MarkBadAndRecompute(disk, disk.ptr.next, "ValidationFailed")
      BY <1>1, <1>5, <2>2, PointerFields
      DEF ValidateNextBootPatch, ValidateNextBoot, OptPatch, BadReasons
    <3>2. QED BY <1>1, <3>1, MarkBadAndRecomputeMarks DEF ValidatedNextInstalled
  <2>3. QED BY <2>1, <2>2
<1>6. CASE \/ Start \/ ReportLaunchStart \/ ReportLaunchSuccess \/ ReportLaunchFailure
           \/ Kill \/ KillInInit \/ \E n \in Patches : DamageArtifact(n)
  <2>1. eng'.pc # "validated"
    BY <1>6
    DEF Start, ReportLaunchStart, ReportLaunchSuccess, ReportLaunchFailure, Kill, KillInInit,
        DamageArtifact, Down, CInv, TypeInv, TypeOK
  <2>2. QED BY <2>1 DEF ValidatedNextInstalled
<1>7. CASE CheckApplyRollbacks
  BY <1>1, <1>2, <1>7, UninstallSettles DEF CheckApplyRollbacks
<1>8. CASE CheckAsk \/ UNCHANGED vars
  BY <1>3, <1>8 DEF CheckAsk, vars
<1>9. ASSUME NEW u \in Updaters, UpdateStep(u) PROVE ValidatedNextInstalled'
  BY <1>2, <1>9, UpdateSettles, UpdateStepFrame
<1>10. QED BY <1>4, <1>5, <1>6, <1>7, <1>8, <1>9 DEF Next, EngineStep

(***************************************************************************)
(* From the validation to the launch, updates and checks may run: whatever *)
(* they install, reject or roll back, next_boot_patch stays an Installed   *)
(* patch or none (next_boot_patch and report_launch_start of updater.cpp). *)
(***************************************************************************)
THEOREM ValidatedStaysInstalled ==
    ASSUME KillInSection = FALSE, Damage = FALSE PROVE Spec => []ValidatedNextInstalled
<1>1. Init => ValidatedNextInstalled
  BY DEF Init, Down, ValidatedNextInstalled
<1>2. CInv /\ ValidatedNextInstalled /\ [Next]_vars => ValidatedNextInstalled'
  BY ValidatedStep
<1>3. QED BY OverlapHolds, <1>1, <1>2, PTL DEF Spec

(***************************************************************************)
(* DASHPOD_NO_UPDATE for an offered patch means it boots next: what        *)
(* decide_start finds Installed is the newest one left on the disk, and a  *)
(* fallback newer than the next patch is not Installed.                    *)
(***************************************************************************)
THEOREM NoUpdateIsCurrent ==
    ASSUME KillInSection = FALSE, Damage = FALSE PROVE Spec => []NoUpdateMeansCurrent
<1>1. ASSUME CInv, NEW u \in Updaters, upd[u].pc = "decide",
             DecideStart(disk, upd[u].patch, upd[u].url) = "AlreadyInstalled"
      PROVE  upd[u].patch = disk.ptr.next
  <2>1. PICK p : p = upd[u].patch
    OBVIOUS
  <2>2. p \in Patches /\ OfferIsNewest(u)
    BY <1>1, <2>1 DEF CInv, OverlapInv, TypeInv, CallersOK
  <2>3. IsInstalled(disk, p) /\ p \in {disk.ptr.next, disk.ptr.last}
    BY <1>1, <2>1, <2>2 DEF DecideStart, IsInstalled, IsKind, CInv, OverlapInv, StoreOK
  <2>4. CASE p = disk.ptr.last
    <3>1. PICK n : n = disk.ptr.next
      OBVIOUS
    <3>2. IsInstalled(disk, n)
      BY <1>1, <2>3, <2>4, <3>1 DEF CInv, OverlapInv, StoreOK, NextFirst
    <3>a. n \in Patches /\ upd[u].patch # None /\ upd[u].pc # "rollback"
      BY <1>1, <2>1, <2>2, <3>2, NoneAssumption DEF IsInstalled, IsKind
    <3>3. n <= p
      BY <2>1, <2>2, <3>2, <3>a DEF OfferIsNewest
    <3>4. ~(n < p)
      BY <1>1, <2>2, <2>3, <2>4, <3>2, <3>a, NoneAssumption
         DEF CInv, OverlapInv, FallbackIsOldest, Superseded
    <3>5. QED BY <2>1, <2>2, <3>1, <3>3, <3>4, <3>a, PatchesAssumption
  <2>5. QED BY <2>1, <2>3, <2>4
<1>2. CInv => NoUpdateMeansCurrent
  BY <1>1 DEF NoUpdateMeansCurrent
<1>3. QED BY OverlapHolds, <1>2, PTL

=============================================================================
