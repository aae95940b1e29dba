--------------------------- MODULE PublishProofs ----------------------------
(***************************************************************************)
(* What is active or promoted is complete and of one build: the            *)
(* invariants of Publish, for any number of terminals that patch, any      *)
(* versions, builds and architectures, and any number of patches.          *)
(***************************************************************************)
EXTENDS Publish, SequenceTheorems, FiniteSetTheorems, TLAPS

-----------------------------------------------------------------------------
(* The shape of the rows and of a command. *)
ArtifactRows == [build : Builds \cup {NoBuild}, stored : BOOLEAN]

ReleaseRows == [version : Versions, status : {"none", "draft", "active"},
                art : [Slots -> ArtifactRows], last : Runs]

PatchRows == [release : Nat, archs : SUBSET Archs, rows : SUBSET Archs, stored : SUBSET Archs,
              by : SUBSET {"patch", "hand"}, stray : BOOLEAN]

Commands == [pc : Pcs, version : Versions \cup {NoBuild}, build : Builds \cup {NoBuild},
             archs : SUBSET Archs, todo : SUBSET Slots, release : Nat, patch : Nat,
             fresh : BOOLEAN, stray : BOOLEAN]

Shapes ==
    /\ releases \in Seq(ReleaseRows) /\ patches \in Seq(PatchRows)
    /\ channels \in Nat /\ cmd \in [Terminals -> Commands]

(* What an active release holds is what its last run built. *)
Complete(r) ==
    /\ r.last # NoRun
    /\ \A s \in r.last.archs \cup {"aab"} : r.art[s] = [build |-> r.last.build, stored |-> TRUE]

ReleasesOK ==
    /\ \A i \in 1..Len(releases) : releases[i].status = "active" => Complete(releases[i])
    /\ \A i, j \in 1..Len(releases) : releases[i].version = releases[j].version => i = j

PatchOK(p) ==
    /\ p.release \in 1..Len(releases) /\ ~p.stray
    /\ p.stored \subseteq p.rows /\ p.rows \subseteq p.archs
    /\ "patch" \in p.by => p.stored = p.archs

PatchesOK == \A i \in 1..Len(patches) : PatchOK(patches[i])

(***************************************************************************)
(* A release run: no row of its version while it is about to create one;   *)
(* afterwards its row is a draft, and what is no longer to do is done.     *)
(***************************************************************************)
ReleasePcs == {"list", "create", "draft", "register", "upload", "activate"}

ReleaseRunOK(k) ==
    /\ k.pc \in ReleasePcs => k.version \in Versions /\ k.build \in Builds
    /\ k.pc = "create" => \A i \in 1..Len(releases) : releases[i].version # k.version
    /\ k.pc \in {"draft", "register", "upload", "activate"} => k.release \in 1..Len(releases)
    /\ k.pc \in {"register", "upload"} => k.todo # {}
    /\ k.pc = "activate" => k.todo = {}
    /\ k.pc \in {"register", "upload", "activate"} =>
          /\ releases[k.release].status = "draft"
          /\ \A s \in (k.archs \cup {"aab"}) \ k.todo :
                releases[k.release].art[s] = [build |-> k.build, stored |-> TRUE]

(***************************************************************************)
(* A patch run: its release stays active while it is fresh, so its diffs   *)
(* do not stray; afterwards what is no longer to do is uploaded.           *)
(***************************************************************************)
PatchRunOK(k) ==
    /\ ~k.stray
    /\ k.pc \in {"archive", "bundle", "row"} => k.release \in 1..Len(releases)
    /\ k.fresh => /\ k.pc \in {"archive", "bundle", "row"}
                  /\ releases[k.release].status = "active"
    /\ k.pc \in {"attach", "put", "channel", "new_channel", "promote"} =>
          k.patch \in 1..Len(patches)
    /\ k.pc \in {"attach", "put"} =>
          /\ k.todo # {} /\ k.todo \subseteq k.archs
          /\ patches[k.patch].archs = k.archs
          /\ k.archs \ k.todo \subseteq patches[k.patch].stored
    /\ k.pc \in {"channel", "new_channel", "promote"} /\ k.archs # {} =>
          patches[k.patch].stored = patches[k.patch].archs
    /\ k.pc = "bundle" => k.todo \subseteq k.archs
    /\ k.pc \in {"find", "archive", "bundle", "row"} => k.archs # {}
    /\ k.pc = "choose" => k.archs = {}

CommandsOK ==
    /\ \A c \in Terminals : PatchRunOK(cmd[c]) /\ ReleaseRunOK(cmd[c])
    /\ \A c \in Terminals : cmd[c].pc \in ReleasePcs => c = Releaser

PublishInv == Shapes /\ ReleasesOK /\ PatchesOK /\ CommandsOK

-----------------------------------------------------------------------------
(***************************************************************************)
(* Lemmas on rows and commands.                                            *)
(***************************************************************************)

(* The runs' spelling of the invariants follows from that by index. *)
LEMMA InvGivesProperties ==
    PublishInv => PublishTypeOK /\ ActiveIsComplete /\ PromotedIsComplete /\ PatchFitsRelease
<1> SUFFICES ASSUME PublishInv
             PROVE  PublishTypeOK /\ ActiveIsComplete /\ PromotedIsComplete /\ PatchFitsRelease
  OBVIOUS
<1>1. DOMAIN releases = 1..Len(releases) /\ DOMAIN patches = 1..Len(patches)
  BY LenProperties DEF PublishInv, Shapes
<1>2. ASSUME NEW r \in ToSet(releases)
      PROVE  /\ r \in ReleaseRows
             /\ r.status = "active" => Complete(r)
  <2>1. PICK i \in 1..Len(releases) : r = releases[i]
    BY <1>1 DEF ToSet
  <2>2. QED BY <2>1, ElementOfSeq DEF PublishInv, Shapes, ReleasesOK
<1>3. ASSUME NEW p \in ToSet(patches) PROVE p \in PatchRows /\ PatchOK(p)
  <2>1. PICK i \in 1..Len(patches) : p = patches[i]
    BY <1>1 DEF ToSet
  <2>2. QED BY <2>1, ElementOfSeq DEF PublishInv, Shapes, PatchesOK
<1>4. ASSUME NEW c \in Terminals
      PROVE  /\ cmd[c].pc \in Pcs /\ cmd[c].todo \subseteq Slots
             /\ cmd[c].pc \in {"register", "upload", "attach", "put"} => cmd[c].todo # {}
  BY DEF PublishInv, Shapes, CommandsOK, PatchRunOK, ReleaseRunOK, Commands
<1>5. PublishTypeOK
  BY <1>1, <1>2, <1>3, <1>4
     DEF PublishTypeOK, PublishInv, Shapes, ReleaseRows, ArtifactRows, PatchRows, PatchOK, Complete
<1>6. ActiveIsComplete
  BY <1>2 DEF ActiveIsComplete, Complete
<1>7. PromotedIsComplete /\ PatchFitsRelease
  BY <1>3 DEF PromotedIsComplete, PatchFitsRelease, PatchOK
<1>8. QED BY <1>5, <1>6, <1>7

(* Two rows of one version would be the same row. *)
LEMMA InvGivesOneRelease == PublishInv => OneReleasePerVersion
<1> SUFFICES ASSUME PublishInv, NEW v \in Versions PROVE Cardinality(Matching(v)) <= 1
  BY DEF OneReleasePerVersion
<1>1. \A i, j \in Matching(v) : i = j
  BY LenProperties DEF Matching, PublishInv, Shapes, ReleasesOK
<1>2. CASE Matching(v) = {}
  BY <1>2, FS_EmptySet
<1>3. CASE Matching(v) # {}
  <2>1. PICK i \in Matching(v) : Matching(v) = {i}
    BY <1>1, <1>3
  <2>2. QED BY <2>1, FS_Singleton
<1>4. QED BY <1>2, <1>3

(* The row a command finds for its version is a row of that version. *)
LEMMA FoundIsRow ==
    ASSUME PublishInv, NEW v, Matching(v) # {}
    PROVE  /\ Min(Matching(v)) \in 1..Len(releases)
           /\ releases[Min(Matching(v))].version = v
<1>. \A i, j \in Matching(v) : i = j
  BY LenProperties DEF Matching, PublishInv, Shapes, ReleasesOK
<1>1. PICK i \in Matching(v) : Matching(v) = {i}
  OBVIOUS
<1>2. i \in 1..Len(releases) /\ releases[i].version = v
  BY LenProperties DEF Matching, PublishInv, Shapes
<1>3. Min({i}) = i
  BY <1>2 DEF Min
<1>4. QED BY <1>1, <1>2, <1>3

LEMMA NoneFound ==
    ASSUME PublishInv, NEW v, Matching(v) = {}
    PROVE  \A i \in 1..Len(releases) : releases[i].version # v
BY LenProperties DEF Matching, PublishInv, Shapes

LEMMA IdleIsFine == Idle \in Commands /\ PatchRunOK(Idle) /\ ReleaseRunOK(Idle)
BY DEF Idle, Commands, PatchRunOK, ReleaseRunOK, ReleasePcs, Pcs

(* A terminal that goes on without touching the rows needs to be right only itself. *)
LEMMA CommandStep ==
    ASSUME PublishInv, NEW c \in Terminals, NEW k \in Commands,
           UNCHANGED <<releases, patches>>, channels' \in Nat, cmd' = [cmd EXCEPT ![c] = k],
           PatchRunOK(k), ReleaseRunOK(k), k.pc \in ReleasePcs => c = Releaser
    PROVE  PublishInv'
<1>1. Shapes' /\ ReleasesOK' /\ PatchesOK'
  BY DEF PublishInv, Shapes, ReleasesOK, PatchesOK, PatchOK, Complete
<1>2. \A d \in Terminals : cmd'[d] = IF d = c THEN k ELSE cmd[d]
  BY DEF PublishInv, Shapes
<1>3. ASSUME NEW d \in Terminals
      PROVE  (PatchRunOK(cmd[d]) /\ ReleaseRunOK(cmd[d]))' /\ (cmd'[d].pc \in ReleasePcs => d = Releaser)
  <2>1. CASE d = c
    <3>1. cmd'[d] = k
      BY <1>2, <2>1
    <3>2. QED BY <2>1, <3>1 DEF PatchRunOK, ReleaseRunOK
  <2>2. CASE d # c
    <3>1. cmd'[d] = cmd[d]
      BY <1>2, <2>2
    <3>2. PatchRunOK(cmd[d]) /\ ReleaseRunOK(cmd[d]) /\ (cmd[d].pc \in ReleasePcs => d = Releaser)
      BY DEF PublishInv, CommandsOK
    <3>3. PatchRunOK(cmd[d])'
      BY <3>1, <3>2 DEF PatchRunOK
    <3>4. ReleaseRunOK(cmd[d])'
      BY <3>1, <3>2 DEF ReleaseRunOK
    <3>5. QED BY <3>1, <3>2, <3>3, <3>4
  <2>3. QED BY <2>1, <2>2
<1>4. CommandsOK'
  BY <1>3 DEF CommandsOK, PatchRunOK, ReleaseRunOK, Terminals
<1>5. QED BY <1>1, <1>4 DEF PublishInv

-----------------------------------------------------------------------------
(***************************************************************************)
(* Steps that leave the rows alone.                                        *)
(***************************************************************************)
LEMMA CommandTypes == ASSUME PublishInv, NEW c \in Terminals
                      PROVE  cmd[c] \in Commands /\ PatchRunOK(cmd[c]) /\ ReleaseRunOK(cmd[c])
                             /\ (cmd[c].pc \in ReleasePcs => c = Releaser)
BY DEF PublishInv, Shapes, CommandsOK

LEMMA StartReleaseStep ==
    PublishInv /\ StartRelease(Releaser) => PublishInv'
<1> SUFFICES ASSUME PublishInv, StartRelease(Releaser) PROVE PublishInv'
  OBVIOUS
<1>1. PICK v \in Versions, b \in Builds, archs \in (SUBSET Archs) \ {{}} :
        Begin(Releaser, [Idle EXCEPT !.pc = "list", !.version = v, !.build = b, !.archs = archs])
  BY DEF StartRelease
<1> DEFINE k == [Idle EXCEPT !.pc = "list", !.version = v, !.build = b, !.archs = archs]
<1>2. k \in Commands /\ PatchRunOK(k) /\ ReleaseRunOK(k)
  BY DEF Idle, Commands, Pcs, PatchRunOK, ReleaseRunOK, ReleasePcs
<1>3. UNCHANGED <<releases, patches, channels>> /\ cmd' = [cmd EXCEPT ![Releaser] = k]
  BY <1>1 DEF Begin
<1>4. Releaser \in Terminals /\ channels' \in Nat
  BY <1>3 DEF Terminals, PublishInv, Shapes
<1> HIDE DEF k
<1>5. QED BY <1>2, <1>3, <1>4, CommandStep

LEMMA StartPatchStep == ASSUME NEW c \in Terminals PROVE PublishInv /\ StartPatch(c) => PublishInv'
<1> SUFFICES ASSUME PublishInv, StartPatch(c) PROVE PublishInv'
  OBVIOUS
<1>1. PICK v \in Versions, archs \in (SUBSET Archs) \ {{}} : Begin(c, [Idle EXCEPT !.pc = "find", !.version = v, !.archs = archs])
  BY DEF StartPatch
<1> DEFINE k == [Idle EXCEPT !.pc = "find", !.version = v, !.archs = archs]
<1>2. k \in Commands /\ PatchRunOK(k) /\ ReleaseRunOK(k) /\ k.pc \notin ReleasePcs
  <2>1. k \in Commands
    BY DEF Idle, Commands, Pcs
  <2>2. k.pc = "find" /\ k.archs # {} /\ ~k.fresh /\ ~k.stray
    BY DEF Idle
  <2>3. QED BY <2>1, <2>2 DEF PatchRunOK, ReleaseRunOK, ReleasePcs
<1>3. UNCHANGED <<releases, patches, channels>> /\ cmd' = [cmd EXCEPT ![c] = k]
  BY <1>1 DEF Begin
<1>4. channels' \in Nat
  BY <1>3 DEF PublishInv, Shapes
<1> HIDE DEF k
<1>5. QED BY <1>2, <1>3, <1>4, CommandStep

LEMMA StartPromoteStep == ASSUME NEW c \in Terminals PROVE PublishInv /\ StartPromote(c) => PublishInv'
<1> SUFFICES ASSUME PublishInv, StartPromote(c) PROVE PublishInv'
  OBVIOUS
<1>1. PICK v \in Versions : Begin(c, [Idle EXCEPT !.pc = "choose", !.version = v])
  BY DEF StartPromote
<1> DEFINE k == [Idle EXCEPT !.pc = "choose", !.version = v]
<1>2. k \in Commands /\ PatchRunOK(k) /\ ReleaseRunOK(k) /\ k.pc \notin ReleasePcs
  BY DEF Idle, Commands, Pcs, PatchRunOK, ReleaseRunOK, ReleasePcs
<1>3. UNCHANGED <<releases, patches, channels>> /\ cmd' = [cmd EXCEPT ![c] = k]
  BY <1>1 DEF Begin
<1>4. channels' \in Nat
  BY <1>3 DEF PublishInv, Shapes
<1> HIDE DEF k
<1>5. QED BY <1>2, <1>3, <1>4, CommandStep

LEMMA AbortStep == ASSUME NEW c \in Terminals PROVE PublishInv /\ Abort(c) => PublishInv'
<1> SUFFICES ASSUME PublishInv, Abort(c) PROVE PublishInv'
  OBVIOUS
<1>1. UNCHANGED <<releases, patches, channels>> /\ cmd' = [cmd EXCEPT ![c] = Idle]
  BY DEF Abort
<1>2. channels' \in Nat /\ Idle.pc \notin ReleasePcs
  BY <1>1 DEF PublishInv, Shapes, Idle, ReleasePcs
<1>3. QED BY <1>1, <1>2, IdleIsFine, CommandStep

(* A row is created only for a version that has none: nobody else creates any. *)
LEMMA FindReleaseStep == ASSUME NEW c \in Terminals PROVE PublishInv /\ FindRelease(c) => PublishInv'
<1> SUFFICES ASSUME PublishInv, FindRelease(c) PROVE PublishInv'
  OBVIOUS
<1> DEFINE found == Matching(cmd[c].version)
           k     == IF found = {} THEN [cmd[c] EXCEPT !.pc = "create"]
                    ELSE [cmd[c] EXCEPT !.pc = "draft", !.release = Min(found)]
<1>1. cmd[c] \in Commands /\ PatchRunOK(cmd[c]) /\ ReleaseRunOK(cmd[c]) /\ cmd[c].pc = "list"
      /\ c = Releaser
  BY CommandTypes DEF FindRelease, ReleasePcs
<1>2. UNCHANGED <<releases, patches, channels>> /\ cmd' = [cmd EXCEPT ![c] = k]
  BY DEF FindRelease, Go
<1>3. channels' \in Nat
  BY <1>2 DEF PublishInv, Shapes
<1>4. k \in Commands /\ PatchRunOK(k) /\ ReleaseRunOK(k)
  <2>1. CASE found = {}
    BY <2>1, <1>1, NoneFound DEF Commands, Pcs, PatchRunOK, ReleaseRunOK, ReleasePcs
  <2>2. CASE found # {}
    <3>1. Min(found) \in 1..Len(releases) /\ 1..Len(releases) \subseteq Nat
      BY <2>2, FoundIsRow
    <3>2. QED BY <2>2, <3>1, <1>1 DEF Commands, Pcs, PatchRunOK, ReleaseRunOK, ReleasePcs
  <2>3. QED BY <2>1, <2>2
<1> HIDE DEF k
<1>5. QED BY <1>1, <1>2, <1>3, <1>4, CommandStep

(* A base found active is fresh. *)
LEMMA FindBaseStep == ASSUME NEW c \in Terminals PROVE PublishInv /\ FindBase(c) => PublishInv'
<1> SUFFICES ASSUME PublishInv, FindBase(c) PROVE PublishInv'
  OBVIOUS
<1> DEFINE r == Min(Matching(cmd[c].version))
           k == [cmd[c] EXCEPT !.pc = "archive", !.release = r,
                               !.version = NoBuild, !.fresh = releases[r].status = "active"]
<1>1. cmd[c] \in Commands /\ PatchRunOK(cmd[c]) /\ ReleaseRunOK(cmd[c]) /\ cmd[c].pc = "find"
  BY CommandTypes DEF FindBase
<1>2. UNCHANGED <<releases, patches, channels>> /\ cmd' = [cmd EXCEPT ![c] = k]
  BY DEF FindBase
<1>3. channels' \in Nat
  BY <1>2 DEF PublishInv, Shapes
<1>4. r \in 1..Len(releases) /\ r \in Nat
  BY FoundIsRow DEF FindBase
<1> HIDE DEF r
<1>5. k \in Commands /\ PatchRunOK(k) /\ ReleaseRunOK(k) /\ k.pc \notin ReleasePcs
  BY <1>1, <1>4 DEF Commands, Pcs, PatchRunOK, ReleaseRunOK, ReleasePcs
<1> HIDE DEF k
<1>6. QED BY <1>2, <1>3, <1>5, CommandStep

LEMMA CheckArchiveStep == ASSUME NEW c \in Terminals PROVE PublishInv /\ CheckArchive(c) => PublishInv'
<1> SUFFICES ASSUME PublishInv, CheckArchive(c) PROVE PublishInv'
  OBVIOUS
<1> DEFINE k == [cmd[c] EXCEPT !.pc = "bundle", !.todo = cmd[c].archs]
<1>1. cmd[c] \in Commands /\ PatchRunOK(cmd[c]) /\ ReleaseRunOK(cmd[c]) /\ cmd[c].pc = "archive"
  BY CommandTypes DEF CheckArchive
<1>2. UNCHANGED <<releases, patches, channels>> /\ cmd' = [cmd EXCEPT ![c] = k]
  BY DEF CheckArchive
<1>3. channels' \in Nat
  BY <1>2 DEF PublishInv, Shapes
<1>4. k \in Commands /\ PatchRunOK(k) /\ ReleaseRunOK(k) /\ k.pc \notin ReleasePcs
  BY <1>1 DEF Commands, Slots, Pcs, PatchRunOK, ReleaseRunOK, ReleasePcs
<1> HIDE DEF k
<1>5. QED BY <1>2, <1>3, <1>4, CommandStep

(* A diff strays only if its release, active and complete, held another build. *)
LEMMA CreateBundleStep == ASSUME NEW c \in Terminals PROVE PublishInv /\ CreateBundle(c) => PublishInv'
<1> SUFFICES ASSUME PublishInv, CreateBundle(c) PROVE PublishInv'
  OBVIOUS
<1>1. cmd[c] \in Commands /\ PatchRunOK(cmd[c]) /\ ReleaseRunOK(cmd[c]) /\ cmd[c].pc = "bundle"
  BY CommandTypes DEF CreateBundle
<1>2. PICK a \in cmd[c].todo :
        cmd' = [cmd EXCEPT ![c].todo = @ \ {a}, ![c].stray = @ \/ Stray(c, a),
                           ![c].pc = IF cmd[c].todo = {a} THEN "row" ELSE "bundle"]
  BY DEF CreateBundle
<1> DEFINE k == [cmd[c] EXCEPT !.todo = @ \ {a}, !.stray = @ \/ Stray(c, a),
                               !.pc = IF cmd[c].todo = {a} THEN "row" ELSE "bundle"]
<1>3. UNCHANGED <<releases, patches, channels>> /\ cmd' = [cmd EXCEPT ![c] = k]
  BY <1>2 DEF CreateBundle
<1>4. channels' \in Nat
  BY <1>3 DEF PublishInv, Shapes
<1>5. ~Stray(c, a)
  <2> SUFFICES ASSUME Stray(c, a) PROVE FALSE
    OBVIOUS
  <2>1. cmd[c].release \in 1..Len(releases) /\ releases[cmd[c].release].status = "active"
    BY <1>1 DEF Stray, PatchRunOK
  <2>2. Complete(releases[cmd[c].release])
    BY <2>1 DEF PublishInv, ReleasesOK
  <2>3. QED BY <2>2 DEF Complete, Stray, Art
<1> HIDE DEF Stray
<1>6. k.stray = FALSE /\ ~cmd[c].stray
  BY <1>1, <1>5 DEF PatchRunOK, Commands
<1>7. k \in Commands /\ PatchRunOK(k) /\ ReleaseRunOK(k) /\ k.pc \notin ReleasePcs
  BY <1>1, <1>5 DEF Commands, Slots, Pcs, PatchRunOK, ReleaseRunOK, ReleasePcs
<1> HIDE DEF k
<1>8. QED BY <1>3, <1>4, <1>7, CommandStep

LEMMA ChoosePatchStep == ASSUME NEW c \in Terminals PROVE PublishInv /\ ChoosePatch(c) => PublishInv'
<1> SUFFICES ASSUME PublishInv, ChoosePatch(c) PROVE PublishInv'
  OBVIOUS
<1>1. cmd[c] \in Commands /\ PatchRunOK(cmd[c]) /\ ReleaseRunOK(cmd[c]) /\ cmd[c].pc = "choose"
  BY CommandTypes DEF ChoosePatch
<1>2. PICK p \in DOMAIN patches : cmd' = [cmd EXCEPT ![c].pc = "channel", ![c].patch = p]
  BY DEF ChoosePatch
<1>3. p \in 1..Len(patches) /\ p \in Nat
  BY LenProperties DEF PublishInv, Shapes
<1> DEFINE k == [cmd[c] EXCEPT !.pc = "channel", !.patch = p]
<1>4. UNCHANGED <<releases, patches, channels>> /\ cmd' = [cmd EXCEPT ![c] = k]
  BY <1>2 DEF ChoosePatch
<1>5. channels' \in Nat
  BY <1>4 DEF PublishInv, Shapes
<1>6. k \in Commands /\ PatchRunOK(k) /\ ReleaseRunOK(k) /\ k.pc \notin ReleasePcs
  BY <1>1, <1>3 DEF Commands, Pcs, PatchRunOK, ReleaseRunOK, ReleasePcs
<1> HIDE DEF k
<1>7. QED BY <1>4, <1>5, <1>6, CommandStep

LEMMA FindChannelStep == ASSUME NEW c \in Terminals PROVE PublishInv /\ FindChannel(c) => PublishInv'
<1> SUFFICES ASSUME PublishInv, FindChannel(c) PROVE PublishInv'
  OBVIOUS
<1>1. cmd[c] \in Commands /\ PatchRunOK(cmd[c]) /\ ReleaseRunOK(cmd[c]) /\ cmd[c].pc = "channel"
  BY CommandTypes DEF FindChannel
<1>2. channels \in Nat
  BY DEF PublishInv, Shapes
<1>3. channels' \in Nat
  BY <1>2 DEF FindChannel, Go
<1> DEFINE k == [cmd[c] EXCEPT !.pc = IF channels = 0 THEN "new_channel" ELSE "promote"]
<1>4. UNCHANGED <<releases, patches>> /\ cmd' = [cmd EXCEPT ![c] = k]
  BY DEF FindChannel, Go
<1>5. k \in Commands /\ PatchRunOK(k) /\ ReleaseRunOK(k) /\ k.pc \notin ReleasePcs
  BY <1>1 DEF Commands, Pcs, PatchRunOK, ReleaseRunOK, ReleasePcs
<1> HIDE DEF k
<1>6. QED BY <1>3, <1>4, <1>5, CommandStep

LEMMA CreateChannelStep == ASSUME NEW c \in Terminals PROVE PublishInv /\ CreateChannel(c) => PublishInv'
<1> SUFFICES ASSUME PublishInv, CreateChannel(c) PROVE PublishInv'
  OBVIOUS
<1>1. cmd[c] \in Commands /\ PatchRunOK(cmd[c]) /\ ReleaseRunOK(cmd[c]) /\ cmd[c].pc = "new_channel"
  BY CommandTypes DEF CreateChannel
<1>2. channels \in Nat
  BY DEF PublishInv, Shapes
<1>3. channels' \in Nat
  BY <1>2 DEF CreateChannel, Go
<1> DEFINE k == [cmd[c] EXCEPT !.pc = "promote"]
<1>4. UNCHANGED <<releases, patches>> /\ cmd' = [cmd EXCEPT ![c] = k]
  BY DEF CreateChannel, Go
<1>5. k \in Commands /\ PatchRunOK(k) /\ ReleaseRunOK(k) /\ k.pc \notin ReleasePcs
  BY <1>1 DEF Commands, Pcs, PatchRunOK, ReleaseRunOK, ReleasePcs
<1> HIDE DEF k
<1>6. QED BY <1>3, <1>4, <1>5, CommandStep

-----------------------------------------------------------------------------
(***************************************************************************)
(* Steps of a release run that write its row.                              *)
(***************************************************************************)
LEMMA RowWritten ==
    ASSUME PublishInv, NEW r \in 1..Len(releases), NEW row \in ReleaseRows,
           row.version = releases[r].version, row.status = "active" => Complete(row),
           releases' = [releases EXCEPT ![r] = row]
    PROVE  /\ releases' \in Seq(ReleaseRows) /\ Len(releases') = Len(releases)
           /\ \A i \in 1..Len(releases) : releases'[i] = IF i = r THEN row ELSE releases[i]
           /\ ReleasesOK'
<1>1. releases' \in Seq(ReleaseRows) /\ Len(releases') = Len(releases)
      /\ \A i \in 1..Len(releases) : releases'[i] = IF i = r THEN row ELSE releases[i]
  BY ExceptSeq DEF PublishInv, Shapes
<1>2. ASSUME NEW i \in 1..Len(releases), releases'[i].status = "active" PROVE Complete(releases[i])'
  <2>1. CASE i = r
    BY <1>1, <1>2, <2>1 DEF Complete
  <2>2. CASE i # r
    <3>1. releases'[i] = releases[i]
      BY <1>1, <2>2
    <3>2. Complete(releases[i])
      BY <1>2, <3>1 DEF PublishInv, ReleasesOK
    <3>3. QED BY <3>1, <3>2 DEF Complete
  <2>3. QED BY <2>1, <2>2
<1>3. ASSUME NEW i \in 1..Len(releases), NEW j \in 1..Len(releases),
             releases'[i].version = releases'[j].version
      PROVE  i = j
  <2>1. releases'[i].version = releases[i].version /\ releases'[j].version = releases[j].version
    BY <1>1
  <2>2. QED BY <2>1, <1>3 DEF PublishInv, ReleasesOK
<1>4. QED BY <1>1, <1>2, <1>3 DEF ReleasesOK

(* The other terminals may go on as they are: no active release stops being active. *)
LEMMA OwnRowStep ==
    ASSUME PublishInv, NEW c \in Terminals, cmd[c].pc \in ReleasePcs, NEW k \in Commands,
           UNCHANGED <<patches, channels>>, releases' \in Seq(ReleaseRows),
           Len(releases') >= Len(releases), ReleasesOK',
           \A i \in 1..Len(releases) : releases[i].status = "active" => releases'[i].status = "active",
           cmd' = [cmd EXCEPT ![c] = k], PatchRunOK(k)', ReleaseRunOK(k)'
    PROVE  PublishInv'
<1>1. Len(releases) \in Nat /\ Len(releases') \in Nat
  BY LenProperties DEF PublishInv, Shapes
<1>2. Shapes'
  BY DEF PublishInv, Shapes
<1>3. PatchesOK'
  <2>1. ASSUME NEW i \in 1..Len(patches) PROVE PatchOK(patches[i])'
    BY <1>1 DEF PublishInv, PatchesOK, PatchOK
  <2>2. QED BY <2>1 DEF PatchesOK
<1>4. c = Releaser
  BY CommandTypes
<1>5. ASSUME NEW d \in Terminals
      PROVE  (PatchRunOK(cmd[d]) /\ ReleaseRunOK(cmd[d]))' /\ (cmd'[d].pc \in ReleasePcs => d = Releaser)
  <2>1. CASE d = c
    <3>1. cmd'[d] = k
      BY <2>1 DEF PublishInv, Shapes
    <3>2. QED BY <2>1, <3>1, <1>4 DEF PatchRunOK, ReleaseRunOK
  <2>2. CASE d # c
    <3>1. cmd'[d] = cmd[d]
      BY <2>2 DEF PublishInv, Shapes
    <3>2. PatchRunOK(cmd[d]) /\ ReleaseRunOK(cmd[d]) /\ cmd[d].pc \notin ReleasePcs
      BY <2>2, <1>4, CommandTypes
    <3>3. PatchRunOK(cmd[d])'
      <4>1. cmd[d].fresh => cmd[d].release \in 1..Len(releases)
        BY <3>2 DEF PatchRunOK
      <4>2. 1..Len(releases) \subseteq 1..Len(releases')
        BY <1>1
      <4>3. QED BY <3>1, <3>2, <4>1, <4>2 DEF PatchRunOK
    <3>4. ReleaseRunOK(cmd[d])'
      BY <3>1, <3>2 DEF ReleaseRunOK, ReleasePcs
    <3>5. QED BY <3>1, <3>2, <3>3, <3>4
  <2>3. QED BY <2>1, <2>2
<1>6. CommandsOK'
  BY <1>5 DEF CommandsOK, PatchRunOK, ReleaseRunOK, Terminals
<1>7. QED BY <1>2, <1>3, <1>6 DEF PublishInv

LEMMA NewRelease ==
    ASSUME NEW v \in Versions
    PROVE  Release(v) \in ReleaseRows /\ Release(v).version = v /\ Release(v).status = "none"
BY DEF Release, ReleaseRows, ArtifactRows, Nothing, NoRun, Runs

LEMMA CreateReleaseStep == ASSUME NEW c \in Terminals PROVE PublishInv /\ CreateRelease(c) => PublishInv'
<1> SUFFICES ASSUME PublishInv, CreateRelease(c) PROVE PublishInv'
  OBVIOUS
<1> DEFINE row == Release(cmd[c].version)
<1>1. cmd[c] \in Commands /\ PatchRunOK(cmd[c]) /\ ReleaseRunOK(cmd[c]) /\ cmd[c].pc = "create"
  BY CommandTypes DEF CreateRelease
<1>0. Len(releases) \in Nat
  BY LenProperties DEF PublishInv, Shapes
<1>a. \A n \in Nat : [cmd[c] EXCEPT !.pc = "draft", !.release = n] \in Commands
  BY <1>1 DEF Commands, Pcs
<1>b. Len(releases) + 1 \in Nat
  BY <1>0
<1> PICK k \in Commands : k = [cmd[c] EXCEPT !.pc = "draft", !.release = Len(releases) + 1]
  BY <1>a, <1>b
<1>2. releases' = Append(releases, row) /\ cmd' = [cmd EXCEPT ![c] = k] /\ UNCHANGED <<patches, channels>>
  BY DEF CreateRelease
<1>3. row \in ReleaseRows /\ row.version = cmd[c].version /\ row.status = "none"
  BY <1>1, NewRelease DEF ReleaseRunOK, ReleasePcs
<1>4. \A i \in 1..Len(releases) : releases[i].version # cmd[c].version
  BY <1>1 DEF ReleaseRunOK
<1> HIDE DEF row
<1>5. /\ releases' \in Seq(ReleaseRows) /\ Len(releases') = Len(releases) + 1
      /\ \A i \in 1..Len(releases) : releases'[i] = releases[i]
      /\ releases'[Len(releases) + 1] = row /\ Len(releases) \in Nat
  BY <1>2, <1>3, AppendProperties, LenProperties DEF PublishInv, Shapes
<1>6. ReleasesOK'
  <2>1. ASSUME NEW i \in 1..Len(releases'), releases'[i].status = "active" PROVE Complete(releases[i])'
    <3>1. i \in 1..Len(releases)
      BY <1>3, <1>5, <2>1
    <3>2. QED BY <1>5, <2>1, <3>1 DEF PublishInv, ReleasesOK, Complete
  <2>2. ASSUME NEW i \in 1..Len(releases'), NEW j \in 1..Len(releases'),
               releases'[i].version = releases'[j].version
        PROVE  i = j
    BY <1>3, <1>4, <1>5, <2>2 DEF PublishInv, ReleasesOK
  <2>3. QED BY <2>1, <2>2 DEF ReleasesOK
<1>7. PatchRunOK(k)' /\ ReleaseRunOK(k)' /\ cmd[c].pc \in ReleasePcs
  <2>1. /\ k.pc = "draft" /\ k.release \in 1..Len(releases') /\ k.version \in Versions
        /\ k.build \in Builds /\ ~k.stray /\ ~k.fresh
    BY <1>1, <1>5 DEF Commands, PatchRunOK, ReleaseRunOK, ReleasePcs
  <2>2. QED BY <1>1, <2>1 DEF PatchRunOK, ReleaseRunOK, ReleasePcs
<1>8. /\ Len(releases') >= Len(releases)
      /\ \A i \in 1..Len(releases) : releases[i].status = "active" => releases'[i].status = "active"
  BY <1>5
<1>9. QED BY <1>1, <1>2, <1>5, <1>6, <1>7, <1>8, OwnRowStep

LEMMA ArtifactInRow ==
    ASSUME NEW row \in ReleaseRows, NEW s \in Slots, NEW a \in ArtifactRows
    PROVE  /\ [row EXCEPT !.art[s] = a] \in ReleaseRows
           /\ [row EXCEPT !.art[s] = a].version = row.version
           /\ [row EXCEPT !.art[s] = a].status = row.status
           /\ \A t \in Slots : [row EXCEPT !.art[s] = a].art[t] = IF t = s THEN a ELSE row.art[t]
BY DEF ReleaseRows

(* An artifact of a draft may be written: no active release is touched. *)
LEMMA ArtifactWritten ==
    ASSUME PublishInv, NEW r \in 1..Len(releases), releases[r].status = "draft",
           NEW s \in Slots, NEW a \in ArtifactRows,
           releases' = [releases EXCEPT ![r].art[s] = a]
    PROVE  /\ releases' \in Seq(ReleaseRows) /\ Len(releases') = Len(releases) /\ ReleasesOK'
           /\ \A i \in 1..Len(releases) : releases'[i].status = releases[i].status
           /\ \A t \in Slots : releases'[r].art[t] = IF t = s THEN a ELSE releases[r].art[t]
<1>1. PICK old \in ReleaseRows : old = releases[r]
  BY ElementOfSeq DEF PublishInv, Shapes
<1>2. PICK row \in ReleaseRows :
        /\ row = [old EXCEPT !.art[s] = a] /\ row.version = old.version /\ row.status = old.status
        /\ \A t \in Slots : row.art[t] = IF t = s THEN a ELSE old.art[t]
  BY ArtifactInRow
<1>3. releases' = [releases EXCEPT ![r] = row]
  BY <1>1, <1>2
<1>4. row.version = releases[r].version /\ row.status = "draft"
  BY <1>1, <1>2
<1>5. /\ releases' \in Seq(ReleaseRows) /\ Len(releases') = Len(releases) /\ ReleasesOK'
      /\ \A i \in 1..Len(releases) : releases'[i] = IF i = r THEN row ELSE releases[i]
  BY <1>3, <1>4, RowWritten
<1>6. QED BY <1>1, <1>2, <1>4, <1>5

(* Registering undoes no artifact that is done: only those to do are registered. *)
LEMMA RegisterStep == ASSUME NEW c \in Terminals PROVE PublishInv /\ Register(c) => PublishInv'
<1> SUFFICES ASSUME PublishInv, Register(c) PROVE PublishInv'
  OBVIOUS
<1>1. cmd[c] \in Commands /\ PatchRunOK(cmd[c]) /\ ReleaseRunOK(cmd[c]) /\ cmd[c].pc = "register"
  BY CommandTypes DEF Register
<1> PICK k \in Commands : k = [cmd[c] EXCEPT !.pc = "upload"]
  BY <1>1 DEF Commands, Pcs
<1>2. PICK r \in 1..Len(releases) : r = cmd[c].release /\ releases[r].status = "draft"
  BY <1>1 DEF ReleaseRunOK
<1>3. PICK a \in ArtifactRows : a = [build |-> cmd[c].build, stored |-> FALSE]
  BY <1>1 DEF Commands, ArtifactRows
<1>4. PICK s \in Turn(cmd[c].todo) : releases' = [releases EXCEPT ![r].art[s] = a]
  BY <1>2, <1>3 DEF Register
<1>5. s \in cmd[c].todo /\ s \in Slots
  BY <1>1 DEF Turn, Commands
<1>6. /\ releases' \in Seq(ReleaseRows) /\ Len(releases') = Len(releases) /\ ReleasesOK'
      /\ \A i \in 1..Len(releases) : releases'[i].status = releases[i].status
      /\ \A t \in Slots : releases'[r].art[t] = IF t = s THEN a ELSE releases[r].art[t]
  BY <1>2, <1>4, <1>5, ArtifactWritten
<1>7. UNCHANGED <<patches, channels>> /\ cmd' = [cmd EXCEPT ![c] = k]
  BY DEF Register, Go
<1>8. k.pc = "upload" /\ k.release = r /\ k.todo = cmd[c].todo /\ k.archs = cmd[c].archs
      /\ k.version = cmd[c].version /\ k.build = cmd[c].build /\ ~k.stray /\ ~k.fresh
  BY <1>1, <1>2 DEF Commands, PatchRunOK
<1>9. ASSUME NEW t \in (k.archs \cup {"aab"}) \ k.todo
      PROVE  releases'[r].art[t] = [build |-> k.build, stored |-> TRUE]
  <2>1. t # s /\ t \in Slots
    BY <1>1, <1>5, <1>8 DEF Commands, Slots
  <2>2. releases[r].art[t] = [build |-> k.build, stored |-> TRUE]
    BY <1>1, <1>2, <1>8 DEF ReleaseRunOK
  <2>3. QED BY <1>6, <2>1, <2>2
<1>10. PatchRunOK(k)' /\ ReleaseRunOK(k)'
  <2>1. PatchRunOK(k)'
    BY <1>8 DEF PatchRunOK
  <2>2. k.version \in Versions /\ k.build \in Builds /\ k.todo # {}
    BY <1>1, <1>8 DEF ReleaseRunOK, ReleasePcs
  <2>3. releases'[k.release].status = "draft" /\ k.release \in 1..Len(releases')
    BY <1>2, <1>6, <1>8
  <2>4. QED BY <1>8, <1>9, <2>1, <2>2, <2>3 DEF ReleaseRunOK
<1>11. Len(releases') >= Len(releases) /\ cmd[c].pc \in ReleasePcs
  BY <1>1, <1>6, LenProperties DEF ReleasePcs, PublishInv, Shapes
<1>12. QED BY <1>6, <1>7, <1>10, <1>11, OwnRowStep

LEMMA BytesStored ==
    ASSUME NEW x \in ArtifactRows, NEW b \in BOOLEAN
    PROVE  [x EXCEPT !.stored = b] = [build |-> x.build, stored |-> b]
BY DEF ArtifactRows

(* The bytes stored are those of the row just registered; the last upload leaves nothing to do. *)
LEMMA UploadStep == ASSUME NEW c \in Terminals PROVE PublishInv /\ Upload(c) => PublishInv'
<1> SUFFICES ASSUME PublishInv, Upload(c) PROVE PublishInv'
  OBVIOUS
<1>1. cmd[c] \in Commands /\ PatchRunOK(cmd[c]) /\ ReleaseRunOK(cmd[c]) /\ cmd[c].pc = "upload"
  BY CommandTypes DEF Upload
<1>2. PICK r \in 1..Len(releases) : r = cmd[c].release /\ releases[r].status = "draft"
  BY <1>1 DEF ReleaseRunOK
<1>3. PICK s \in Turn(cmd[c].todo) :
        /\ releases[r].art[s].build = cmd[c].build
        /\ releases' = [releases EXCEPT ![r].art[s].stored = TRUE]
        /\ cmd' = [cmd EXCEPT ![c].todo = @ \ {s},
                      ![c].pc = IF cmd[c].todo = {s} THEN "activate" ELSE "register"]
  BY <1>2 DEF Upload
<1>4. s \in cmd[c].todo /\ s \in Slots
  BY <1>1 DEF Turn, Commands
<1>5. PICK k \in Commands : k = [cmd[c] EXCEPT !.todo = @ \ {s},
                                     !.pc = IF cmd[c].todo = {s} THEN "activate" ELSE "register"]
  BY <1>1 DEF Commands, Pcs
<1>6. PICK a \in ArtifactRows : a = [build |-> cmd[c].build, stored |-> TRUE]
  BY <1>1 DEF Commands, ArtifactRows
<1>7. releases' = [releases EXCEPT ![r].art[s] = a]
  <2>1. releases[r] \in ReleaseRows
    BY ElementOfSeq DEF PublishInv, Shapes
  <2>2. PICK x \in ArtifactRows : x = releases[r].art[s]
    BY <1>4, <2>1 DEF ReleaseRows
  <2>3. [x EXCEPT !.stored = TRUE] = a
    BY <1>3, <1>6, <2>2, BytesStored
  <2>4. QED BY <1>3, <2>2, <2>3
<1>8. /\ releases' \in Seq(ReleaseRows) /\ Len(releases') = Len(releases) /\ ReleasesOK'
      /\ \A i \in 1..Len(releases) : releases'[i].status = releases[i].status
      /\ \A t \in Slots : releases'[r].art[t] = IF t = s THEN a ELSE releases[r].art[t]
  <2>1. releases[r].status = "draft"
    BY <1>2
  <2>2. s \in Slots
    BY <1>4
  <2>3. QED BY <2>1, <2>2, <1>7, ArtifactWritten
<1>9. UNCHANGED <<patches, channels>> /\ cmd' = [cmd EXCEPT ![c] = k]
  BY <1>3, <1>5 DEF Upload
<1>10. /\ k.pc = IF cmd[c].todo = {s} THEN "activate" ELSE "register"
       /\ k.release = r /\ k.todo = cmd[c].todo \ {s} /\ k.archs = cmd[c].archs
       /\ k.version = cmd[c].version /\ k.build = cmd[c].build /\ ~k.stray /\ ~k.fresh
  BY <1>1, <1>2, <1>5 DEF Commands, PatchRunOK
<1>11. ASSUME NEW t \in (k.archs \cup {"aab"}) \ k.todo
       PROVE  releases'[r].art[t] = [build |-> k.build, stored |-> TRUE]
  <2>1. t \in Slots
    BY <1>1, <1>10 DEF Commands, Slots
  <2>2. CASE t = s
    BY <1>6, <1>8, <1>10, <2>1, <2>2
  <2>3. CASE t # s
    <3>1. releases[r].art[t] = [build |-> k.build, stored |-> TRUE]
      BY <1>1, <1>2, <1>10, <2>3 DEF ReleaseRunOK
    <3>2. QED BY <1>8, <2>1, <2>3, <3>1
  <2>4. QED BY <2>2, <2>3
<1>12. PatchRunOK(k)' /\ ReleaseRunOK(k)'
  <2>1. PatchRunOK(k)'
    BY <1>10 DEF PatchRunOK
  <2>2. k.version \in Versions /\ k.build \in Builds
    BY <1>1, <1>10 DEF ReleaseRunOK, ReleasePcs
  <2>3. (k.pc = "register" => k.todo # {}) /\ (k.pc = "activate" => k.todo = {})
    BY <1>4, <1>10
  <2>4. releases'[k.release].status = "draft" /\ k.release \in 1..Len(releases')
    BY <1>2, <1>8, <1>10
  <2>5. QED BY <1>10, <1>11, <2>1, <2>2, <2>3, <2>4 DEF ReleaseRunOK
<1>13. Len(releases') >= Len(releases) /\ cmd[c].pc \in ReleasePcs
  BY <1>1, <1>8, LenProperties DEF ReleasePcs, PublishInv, Shapes
<1>14. QED BY <1>8, <1>9, <1>12, <1>13, OwnRowStep

LEMMA ActivatedRow ==
    ASSUME NEW old \in ReleaseRows, NEW run \in Runs
    PROVE  /\ [old EXCEPT !.status = "active", !.last = run] \in ReleaseRows
           /\ [old EXCEPT !.status = "active", !.last = run].version = old.version
           /\ [old EXCEPT !.status = "active", !.last = run].status = "active"
           /\ [old EXCEPT !.status = "active", !.last = run].last = run
           /\ [old EXCEPT !.status = "active", !.last = run].art = old.art
BY DEF ReleaseRows

(* Nothing is left to do: the row holds what this run built. *)
LEMMA ActivateStep == ASSUME NEW c \in Terminals PROVE PublishInv /\ Activate(c) => PublishInv'
<1> SUFFICES ASSUME PublishInv, Activate(c) PROVE PublishInv'
  OBVIOUS
<1>1. cmd[c] \in Commands /\ PatchRunOK(cmd[c]) /\ ReleaseRunOK(cmd[c]) /\ cmd[c].pc = "activate"
  BY CommandTypes DEF Activate
<1>2. PICK r \in 1..Len(releases) : r = cmd[c].release
  BY <1>1 DEF ReleaseRunOK
<1>3. PICK old \in ReleaseRows : old = releases[r]
  BY ElementOfSeq DEF PublishInv, Shapes
<1>4. PICK run \in Runs : run = [build |-> cmd[c].build, archs |-> cmd[c].archs]
  BY <1>1 DEF Commands, Runs
<1>5. releases' = [releases EXCEPT ![r].status = "active", ![r].last = run]
  BY <1>2, <1>4 DEF Activate
<1>6. PICK row \in ReleaseRows :
        /\ row = [old EXCEPT !.status = "active", !.last = run] /\ row.version = old.version
        /\ row.status = "active" /\ row.last = run /\ row.art = old.art
  BY ActivatedRow
<1>7. releases' = [releases EXCEPT ![r] = row]
  <2>1. Len(releases) \in Nat /\ DOMAIN releases = 1..Len(releases)
    BY LenProperties DEF PublishInv, Shapes
  <2>2. QED BY <1>3, <1>5, <1>6, <2>1
<1>8. Complete(row)
  <2>1. run.build \in Builds /\ run.archs = cmd[c].archs /\ run.build = cmd[c].build
    BY <1>1, <1>4 DEF ReleaseRunOK, ReleasePcs
  <2>2. row.last # NoRun
    BY <1>6, <2>1, BuildsAssumption DEF NoRun
  <2>3. \A s \in cmd[c].archs \cup {"aab"} :
          releases[r].art[s] = [build |-> cmd[c].build, stored |-> TRUE]
    BY <1>1, <1>2 DEF ReleaseRunOK
  <2>4. QED BY <1>3, <1>6, <2>1, <2>2, <2>3 DEF Complete
<1>9. row.version = releases[r].version
  BY <1>3, <1>6
<1>10. /\ releases' \in Seq(ReleaseRows) /\ Len(releases') = Len(releases) /\ ReleasesOK'
       /\ \A i \in 1..Len(releases) : releases'[i] = IF i = r THEN row ELSE releases[i]
  BY <1>7, <1>8, <1>9, RowWritten
<1>11. /\ Len(releases') >= Len(releases) /\ cmd[c].pc \in ReleasePcs
       /\ \A i \in 1..Len(releases) : releases[i].status = "active" => releases'[i].status = "active"
  <2>1. Len(releases) \in Nat
    BY LenProperties DEF PublishInv, Shapes
  <2>2. row.status = "active"
    BY <1>6
  <2>3. QED BY <1>1, <1>10, <2>1, <2>2 DEF ReleasePcs
<1>12. UNCHANGED <<patches, channels>> /\ cmd' = [cmd EXCEPT ![c] = Idle]
  BY DEF Activate
<1>13. Idle \in Commands /\ PatchRunOK(Idle)' /\ ReleaseRunOK(Idle)'
  BY DEF Idle, Commands, Pcs, PatchRunOK, ReleaseRunOK, ReleasePcs
<1>14. QED BY <1>10, <1>11, <1>12, <1>13, OwnRowStep

LEMMA DraftRow ==
    ASSUME NEW old \in ReleaseRows
    PROVE  /\ [old EXCEPT !.status = "draft"] \in ReleaseRows
           /\ [old EXCEPT !.status = "draft"].version = old.version
           /\ [old EXCEPT !.status = "draft"].status = "draft"
BY DEF ReleaseRows

(* Whoever diffs against this release is told by the history variables that it is not left alone. *)
LEMMA MarkDraftStep == ASSUME NEW c \in Terminals PROVE PublishInv /\ MarkDraft(c) => PublishInv'
<1> SUFFICES ASSUME PublishInv, MarkDraft(c) PROVE PublishInv'
  OBVIOUS
<1>1. /\ cmd[c] \in Commands /\ PatchRunOK(cmd[c]) /\ ReleaseRunOK(cmd[c])
      /\ cmd[c].pc = "draft" /\ c = Releaser
  BY CommandTypes DEF MarkDraft, ReleasePcs
<1>2. PICK r \in 1..Len(releases) : r = cmd[c].release
  BY <1>1 DEF ReleaseRunOK
<1>3. PICK old \in ReleaseRows : old = releases[r]
  BY ElementOfSeq DEF PublishInv, Shapes
<1>4. PICK row \in ReleaseRows :
        row = [old EXCEPT !.status = "draft"] /\ row.version = old.version /\ row.status = "draft"
  BY DraftRow
<1>5. releases' = [releases EXCEPT ![r] = row]
  BY <1>2, <1>3, <1>4 DEF MarkDraft
<1>6. row.version = releases[r].version /\ row.status # "active"
  BY <1>3, <1>4
<1>7. /\ releases' \in Seq(ReleaseRows) /\ Len(releases') = Len(releases) /\ ReleasesOK'
      /\ \A i \in 1..Len(releases) : releases'[i] = IF i = r THEN row ELSE releases[i]
  BY <1>5, <1>6, RowWritten
<1>8. UNCHANGED <<patches, channels>>
  BY DEF MarkDraft
<1>9. PICK k \in Commands : k = [cmd[c] EXCEPT !.pc = "register", !.todo = cmd[c].archs \cup {"aab"}]
  BY <1>1 DEF Commands, Pcs, Slots
<1>10. cmd' = [d \in Terminals |->
                 IF d = c THEN k
                 ELSE [cmd[d] EXCEPT !.fresh = @ /\ cmd[d].release # r,
                                     !.stray = @ /\ cmd[d].release # r]]
  BY <1>2, <1>9 DEF MarkDraft
<1>11. /\ k.pc = "register" /\ k.release = r /\ k.todo = cmd[c].archs \cup {"aab"}
       /\ k.archs = cmd[c].archs /\ k.version = cmd[c].version /\ k.build = cmd[c].build
       /\ ~k.stray /\ ~k.fresh
  BY <1>1, <1>2, <1>9 DEF Commands, PatchRunOK
<1>12. PatchRunOK(k)' /\ ReleaseRunOK(k)'
  <2>1. PatchRunOK(k)'
    BY <1>11 DEF PatchRunOK
  <2>2. k.version \in Versions /\ k.build \in Builds
    BY <1>1, <1>11 DEF ReleaseRunOK, ReleasePcs
  <2>3. releases'[k.release].status = "draft" /\ k.release \in 1..Len(releases')
    BY <1>2, <1>4, <1>7, <1>11
  <2>4. k.todo # {} /\ (k.archs \cup {"aab"}) \ k.todo = {}
    BY <1>11
  <2>5. QED BY <1>11, <2>1, <2>2, <2>3, <2>4 DEF ReleaseRunOK
<1>13. ASSUME NEW d \in Terminals
       PROVE  /\ cmd'[d] \in Commands /\ (PatchRunOK(cmd[d]) /\ ReleaseRunOK(cmd[d]))'
              /\ cmd'[d].pc \in ReleasePcs => d = Releaser
  <2>1. CASE d = c
    <3>1. cmd'[d] = k
      BY <1>10, <2>1
    <3>2. QED BY <1>1, <1>12, <2>1, <3>1 DEF PatchRunOK, ReleaseRunOK
  <2>2. CASE d # c
    <3>1. cmd[d] \in Commands /\ PatchRunOK(cmd[d]) /\ ReleaseRunOK(cmd[d]) /\ cmd[d].pc \notin ReleasePcs
      BY <1>1, <2>2, CommandTypes
    <3>2. PICK fresh \in BOOLEAN, stray \in BOOLEAN :
            /\ cmd'[d] = [cmd[d] EXCEPT !.fresh = fresh, !.stray = stray]
            /\ fresh => cmd[d].fresh /\ cmd[d].release # r
            /\ ~stray
      <4>1. cmd'[d] = [cmd[d] EXCEPT !.fresh = cmd[d].fresh /\ cmd[d].release # r,
                                     !.stray = cmd[d].stray /\ cmd[d].release # r]
        BY <1>10, <2>2
      <4>2. ~(cmd[d].stray /\ cmd[d].release # r)
        BY <3>1 DEF PatchRunOK
      <4>3. QED BY <4>1, <4>2
    <3>3. PICK w \in Commands :
            /\ w = cmd'[d] /\ w.pc = cmd[d].pc /\ w.release = cmd[d].release
            /\ w.patch = cmd[d].patch /\ w.todo = cmd[d].todo /\ w.archs = cmd[d].archs
            /\ w.fresh = fresh /\ w.stray = stray
      <4>1. PICK k0 \in Commands : k0 = cmd[d]
        BY <3>1
      <4>2. PICK w : w = [k0 EXCEPT !.fresh = fresh, !.stray = stray]
        OBVIOUS
      <4>3. /\ w \in Commands /\ w.pc = k0.pc /\ w.release = k0.release /\ w.patch = k0.patch
            /\ w.todo = k0.todo /\ w.archs = k0.archs /\ w.fresh = fresh /\ w.stray = stray
        BY <4>2 DEF Commands
      <4>4. w = cmd'[d]
        BY <3>2, <4>1, <4>2
      <4>5. QED BY <4>1, <4>3, <4>4
    <3>4. w.fresh => w.pc \in {"archive", "bundle", "row"} /\ releases'[w.release].status = "active"
      <4>1. SUFFICES ASSUME w.fresh
                     PROVE  w.pc \in {"archive", "bundle", "row"} /\ releases'[w.release].status = "active"
        OBVIOUS
      <4>2. /\ cmd[d].pc \in {"archive", "bundle", "row"} /\ cmd[d].release # r
            /\ cmd[d].release \in 1..Len(releases) /\ releases[cmd[d].release].status = "active"
        BY <3>1, <3>2, <3>3, <4>1 DEF PatchRunOK
      <4>3. QED BY <1>7, <3>3, <4>2
    <3>5. PatchRunOK(w)'
      BY <1>7, <1>8, <3>1, <3>2, <3>3, <3>4 DEF PatchRunOK
    <3>6. ReleaseRunOK(w)'
      BY <3>1, <3>3 DEF ReleaseRunOK, ReleasePcs
    <3>7. QED BY <3>1, <3>3, <3>5, <3>6 DEF PatchRunOK, ReleaseRunOK
  <2>3. QED BY <2>1, <2>2
<1>14. Shapes'
  <2>1. cmd' \in [Terminals -> Commands]
    BY <1>10, <1>13
  <2>2. QED BY <1>7, <1>8, <2>1 DEF PublishInv, Shapes
<1>15. PatchesOK'
  BY <1>7, <1>8 DEF PublishInv, PatchesOK, PatchOK
<1>16. CommandsOK'
  BY <1>13 DEF CommandsOK, PatchRunOK, ReleaseRunOK, Terminals
<1>17. QED BY <1>7, <1>14, <1>15, <1>16 DEF PublishInv

-----------------------------------------------------------------------------
(***************************************************************************)
(* Steps that write the rows of patches.                                   *)
(***************************************************************************)

(* Patches only gain: what was uploaded for a patch stays uploaded. *)
LEMMA PatchesStep ==
    ASSUME PublishInv, NEW c \in Terminals, NEW k \in Commands, UNCHANGED <<releases, channels>>,
           patches' \in Seq(PatchRows), Len(patches') >= Len(patches), PatchesOK',
           \A i \in 1..Len(patches) : /\ patches'[i].archs = patches[i].archs
                                      /\ patches[i].stored \subseteq patches'[i].stored,
           cmd' = [cmd EXCEPT ![c] = k], PatchRunOK(k)', ReleaseRunOK(k)', k.pc \notin ReleasePcs
    PROVE  PublishInv'
<1>1. Len(patches) \in Nat /\ Len(patches') \in Nat
  BY LenProperties DEF PublishInv, Shapes
<1>2. Shapes' /\ ReleasesOK'
  BY DEF PublishInv, Shapes, ReleasesOK, Complete
<1>3. ASSUME NEW d \in Terminals
      PROVE  (PatchRunOK(cmd[d]) /\ ReleaseRunOK(cmd[d]))' /\ (cmd'[d].pc \in ReleasePcs => d = Releaser)
  <2>1. CASE d = c
    <3>1. cmd'[d] = k
      BY <2>1 DEF PublishInv, Shapes
    <3>2. QED BY <2>1, <3>1 DEF PatchRunOK, ReleaseRunOK
  <2>2. CASE d # c
    <3>1. cmd'[d] = cmd[d]
      BY <2>2 DEF PublishInv, Shapes
    <3>2. PatchRunOK(cmd[d]) /\ ReleaseRunOK(cmd[d]) /\ (cmd[d].pc \in ReleasePcs => d = Releaser)
      BY CommandTypes
    <3>3. PatchRunOK(cmd[d])'
      <4>1. 1..Len(patches) \subseteq 1..Len(patches')
        BY <1>1
      <4>2. ASSUME NEW i \in 1..Len(patches), patches[i].stored = patches[i].archs
            PROVE  patches'[i].stored = patches'[i].archs
        <5>1. PatchOK(patches[i])'
          BY <4>1 DEF PatchesOK
        <5>2. QED BY <4>2, <5>1 DEF PatchOK
      <4>3. QED BY <3>1, <3>2, <4>1, <4>2 DEF PatchRunOK
    <3>4. ReleaseRunOK(cmd[d])'
      BY <3>1, <3>2 DEF ReleaseRunOK
    <3>5. QED BY <3>1, <3>2, <3>3, <3>4
  <2>3. QED BY <2>1, <2>2
<1>4. CommandsOK'
  BY <1>3 DEF CommandsOK, PatchRunOK, ReleaseRunOK, Terminals
<1>5. QED BY <1>2, <1>4 DEF PublishInv

LEMMA PatchWritten ==
    ASSUME PublishInv, UNCHANGED releases, NEW p \in 1..Len(patches), NEW row \in PatchRows, PatchOK(row),
           row.archs = patches[p].archs, patches[p].stored \subseteq row.stored,
           patches' = [patches EXCEPT ![p] = row]
    PROVE  /\ patches' \in Seq(PatchRows) /\ Len(patches') = Len(patches) /\ PatchesOK'
           /\ Len(patches') >= Len(patches) /\ patches'[p] = row
           /\ \A i \in 1..Len(patches) : /\ patches'[i].archs = patches[i].archs
                                         /\ patches[i].stored \subseteq patches'[i].stored
<1>1. patches' \in Seq(PatchRows) /\ Len(patches') = Len(patches)
      /\ \A i \in 1..Len(patches) : patches'[i] = IF i = p THEN row ELSE patches[i]
  BY ExceptSeq DEF PublishInv, Shapes
<1>2. Len(patches) \in Nat
  BY LenProperties DEF PublishInv, Shapes
<1>3. ASSUME NEW i \in 1..Len(patches) PROVE PatchOK(patches[i])'
  <2>1. PatchOK(patches'[i])
    BY <1>1 DEF PublishInv, PatchesOK
  <2>2. QED BY <2>1 DEF PatchOK
<1>4. QED BY <1>1, <1>2, <1>3 DEF PatchesOK

LEMMA CreatePatchStep == ASSUME NEW c \in Terminals PROVE PublishInv /\ CreatePatch(c) => PublishInv'
<1> SUFFICES ASSUME PublishInv, CreatePatch(c) PROVE PublishInv'
  OBVIOUS
<1>1. cmd[c] \in Commands /\ PatchRunOK(cmd[c]) /\ ReleaseRunOK(cmd[c]) /\ cmd[c].pc = "row"
  BY CommandTypes DEF CreatePatch
<1>2. PICK row \in PatchRows :
        row = [release |-> cmd[c].release, archs |-> cmd[c].archs, rows |-> {}, stored |-> {},
               by |-> {}, stray |-> cmd[c].stray]
  BY <1>1 DEF Commands, PatchRows
<1>3. PatchOK(row)
  BY <1>1, <1>2 DEF PatchOK, PatchRunOK
<1>4. Len(patches) \in Nat /\ patches \in Seq(PatchRows)
  BY LenProperties DEF PublishInv, Shapes
<1>5. patches' = Append(patches, row) /\ UNCHANGED <<releases, channels>>
  BY <1>2 DEF CreatePatch
<1>6. /\ patches' \in Seq(PatchRows) /\ Len(patches') = Len(patches) + 1
      /\ \A i \in 1..Len(patches) : patches'[i] = patches[i]
      /\ patches'[Len(patches) + 1] = row
  BY <1>4, <1>5, AppendProperties
<1>7. ASSUME NEW i \in 1..Len(patches') PROVE PatchOK(patches[i])'
  <2>1. PatchOK(patches'[i])
    BY <1>3, <1>4, <1>6 DEF PublishInv, PatchesOK
  <2>2. QED BY <1>5, <2>1 DEF PatchOK
<1>8. PICK n \in Nat : n = Len(patches) + 1
  BY <1>4
<1>9. PICK k \in Commands :
        k = [Idle EXCEPT !.pc = "attach", !.archs = cmd[c].archs,
                         !.todo = cmd[c].archs, !.patch = n]
  BY <1>1 DEF Idle, Commands, Pcs, Slots
<1>10. cmd' = [cmd EXCEPT ![c] = k]
  BY <1>8, <1>9 DEF CreatePatch
<1>11. /\ k.pc = "attach" /\ k.archs = cmd[c].archs /\ k.todo = cmd[c].archs /\ k.patch = n
       /\ ~k.stray /\ ~k.fresh
  BY <1>9 DEF Idle
<1>12. cmd[c].archs # {}
  BY <1>1 DEF PatchRunOK
<1>13. PatchRunOK(k)' /\ ReleaseRunOK(k)' /\ k.pc \notin ReleasePcs
  <2>1. k.patch \in 1..Len(patches') /\ patches'[k.patch].archs = k.archs
    BY <1>2, <1>4, <1>6, <1>8, <1>11
  <2>2. PatchRunOK(k)'
    BY <1>11, <1>12, <2>1 DEF PatchRunOK
  <2>3. QED BY <1>11, <2>2 DEF ReleaseRunOK, ReleasePcs
<1>14. Len(patches') >= Len(patches) /\ PatchesOK'
  BY <1>4, <1>6, <1>7 DEF PatchesOK
<1>15. QED BY <1>5, <1>6, <1>10, <1>13, <1>14, PatchesStep

(***************************************************************************)
(* A registered or uploaded diff, and a promotion, only add to the row; a  *)
(* patch that `patch` promotes has every diff uploaded by then.            *)
(***************************************************************************)
LEMMA RowRegistered ==
    ASSUME NEW old \in PatchRows, PatchOK(old), NEW a \in old.archs
    PROVE  LET row == [old EXCEPT !.rows = @ \cup {a}]
           IN  row \in PatchRows /\ PatchOK(row) /\ row.archs = old.archs /\ row.stored = old.stored
BY DEF PatchRows, PatchOK

LEMMA RowUploaded ==
    ASSUME NEW old \in PatchRows, PatchOK(old), NEW a \in old.rows
    PROVE  LET row == [old EXCEPT !.stored = @ \cup {a}]
           IN  row \in PatchRows /\ PatchOK(row) /\ row.archs = old.archs
               /\ row.stored = old.stored \cup {a}
BY DEF PatchRows, PatchOK

LEMMA RowPromoted ==
    ASSUME NEW old \in PatchRows, PatchOK(old), NEW how \in {"patch", "hand"},
           how = "patch" => old.stored = old.archs
    PROVE  LET row == [old EXCEPT !.by = @ \cup {how}]
           IN  row \in PatchRows /\ PatchOK(row) /\ row.archs = old.archs /\ row.stored = old.stored
BY DEF PatchRows, PatchOK

LEMMA RegisterDiffStep == ASSUME NEW c \in Terminals PROVE PublishInv /\ RegisterDiff(c) => PublishInv'
<1> SUFFICES ASSUME PublishInv, RegisterDiff(c) PROVE PublishInv'
  OBVIOUS
<1>1. cmd[c] \in Commands /\ PatchRunOK(cmd[c]) /\ cmd[c].pc = "attach"
  BY CommandTypes DEF RegisterDiff
<1>2. PICK p \in 1..Len(patches) :
        /\ p = cmd[c].patch /\ patches[p].archs = cmd[c].archs /\ cmd[c].todo \subseteq cmd[c].archs
        /\ cmd[c].todo # {} /\ cmd[c].archs \ cmd[c].todo \subseteq patches[p].stored
  BY <1>1 DEF PatchRunOK
<1>3. PICK old \in PatchRows : old = patches[p] /\ PatchOK(old)
  BY ElementOfSeq DEF PublishInv, Shapes, PatchesOK
<1>4. PICK a \in cmd[c].todo : patches' = [patches EXCEPT ![p].rows = @ \cup {a}]
  BY <1>2 DEF RegisterDiff
<1>5. PICK row \in PatchRows :
        /\ row = [old EXCEPT !.rows = @ \cup {a}] /\ PatchOK(row)
        /\ row.archs = old.archs /\ row.stored = old.stored
  <2>1. a \in old.archs
    BY <1>2, <1>3
  <2>2. QED BY <1>3, <2>1, RowRegistered
<1>6. patches' = [patches EXCEPT ![p] = row]
  BY <1>3, <1>4, <1>5
<1>7. UNCHANGED <<releases, channels>>
  BY DEF RegisterDiff
<1>8. row.archs = patches[p].archs /\ patches[p].stored \subseteq row.stored
  BY <1>3, <1>5
<1>9. /\ patches' \in Seq(PatchRows) /\ Len(patches') = Len(patches) /\ PatchesOK'
      /\ Len(patches') >= Len(patches) /\ patches'[p] = row
      /\ \A i \in 1..Len(patches) : /\ patches'[i].archs = patches[i].archs
                                    /\ patches[i].stored \subseteq patches'[i].stored
  BY <1>5, <1>6, <1>7, <1>8, PatchWritten
<1>10. PICK k \in Commands : k = [cmd[c] EXCEPT !.pc = "put"]
  BY <1>1 DEF Commands, Pcs
<1>11. cmd' = [cmd EXCEPT ![c] = k]
  BY <1>10 DEF RegisterDiff, Go
<1>12. /\ k.pc = "put" /\ k.patch = p /\ k.todo = cmd[c].todo /\ k.archs = cmd[c].archs
       /\ ~k.stray /\ ~k.fresh
  BY <1>1, <1>2, <1>10 DEF Commands, PatchRunOK
<1>13. PatchRunOK(k)' /\ ReleaseRunOK(k)' /\ k.pc \notin ReleasePcs
  BY <1>2, <1>8, <1>9, <1>12 DEF PatchRunOK, ReleaseRunOK, ReleasePcs
<1>14. QED BY <1>7, <1>9, <1>11, <1>13, PatchesStep

LEMMA UploadDiffStep == ASSUME NEW c \in Terminals PROVE PublishInv /\ UploadDiff(c) => PublishInv'
<1> SUFFICES ASSUME PublishInv, UploadDiff(c) PROVE PublishInv'
  OBVIOUS
<1>1. cmd[c] \in Commands /\ PatchRunOK(cmd[c]) /\ cmd[c].pc = "put"
  BY CommandTypes DEF UploadDiff
<1>2. PICK p \in 1..Len(patches) :
        /\ p = cmd[c].patch /\ patches[p].archs = cmd[c].archs /\ cmd[c].todo \subseteq cmd[c].archs
        /\ cmd[c].todo # {} /\ cmd[c].archs \ cmd[c].todo \subseteq patches[p].stored
  BY <1>1 DEF PatchRunOK
<1>3. PICK old \in PatchRows : old = patches[p] /\ PatchOK(old)
  BY ElementOfSeq DEF PublishInv, Shapes, PatchesOK
<1>4. PICK a \in cmd[c].todo \cap patches[p].rows :
        /\ patches' = [patches EXCEPT ![p].stored = @ \cup {a}]
        /\ cmd' = [cmd EXCEPT ![c].todo = @ \ {a},
                      ![c].pc = IF cmd[c].todo = {a} THEN "channel" ELSE "attach"]
  BY <1>2 DEF UploadDiff
<1>5. PICK row \in PatchRows :
        /\ row = [old EXCEPT !.stored = @ \cup {a}] /\ PatchOK(row)
        /\ row.archs = old.archs /\ row.stored = old.stored \cup {a}
  <2>1. a \in old.rows
    BY <1>3
  <2>2. QED BY <1>3, <2>1, RowUploaded
<1>6. patches' = [patches EXCEPT ![p] = row]
  BY <1>3, <1>4, <1>5
<1>7. UNCHANGED <<releases, channels>>
  BY DEF UploadDiff
<1>8. row.archs = patches[p].archs /\ patches[p].stored \subseteq row.stored
  BY <1>3, <1>5
<1>9. /\ patches' \in Seq(PatchRows) /\ Len(patches') = Len(patches) /\ PatchesOK'
      /\ Len(patches') >= Len(patches) /\ patches'[p] = row
      /\ \A i \in 1..Len(patches) : /\ patches'[i].archs = patches[i].archs
                                    /\ patches[i].stored \subseteq patches'[i].stored
  BY <1>5, <1>6, <1>7, <1>8, PatchWritten
<1>10. PICK k \in Commands : k = [cmd[c] EXCEPT !.todo = @ \ {a},
                                      !.pc = IF cmd[c].todo = {a} THEN "channel" ELSE "attach"]
  BY <1>1 DEF Commands, Pcs
<1>11. cmd' = [cmd EXCEPT ![c] = k]
  BY <1>4, <1>10
<1>12. /\ k.pc = (IF cmd[c].todo = {a} THEN "channel" ELSE "attach") /\ k.patch = p
       /\ k.todo = cmd[c].todo \ {a} /\ k.archs = cmd[c].archs /\ ~k.stray /\ ~k.fresh
  BY <1>1, <1>2, <1>10 DEF Commands, PatchRunOK
<1>13. PatchRunOK(k)' /\ ReleaseRunOK(k)' /\ k.pc \notin ReleasePcs
  <2>1. k.archs \ k.todo \subseteq row.stored
    BY <1>2, <1>3, <1>5, <1>12
  <2>2. k.pc = "attach" => k.todo # {}
    BY <1>2, <1>12
  <2>3. k.pc = "channel" => row.stored = row.archs
    BY <1>2, <1>3, <1>5, <1>12, <2>1 DEF PatchOK
  <2>4. QED BY <1>2, <1>8, <1>9, <1>12, <2>1, <2>2, <2>3 DEF PatchRunOK, ReleaseRunOK, ReleasePcs
<1>14. QED BY <1>7, <1>9, <1>11, <1>13, PatchesStep

LEMMA PromoteStep == ASSUME NEW c \in Terminals PROVE PublishInv /\ Promote(c) => PublishInv'
<1> SUFFICES ASSUME PublishInv, Promote(c) PROVE PublishInv'
  OBVIOUS
<1>1. cmd[c] \in Commands /\ PatchRunOK(cmd[c]) /\ cmd[c].pc = "promote"
  BY CommandTypes DEF Promote
<1>2. PICK p \in 1..Len(patches) :
        p = cmd[c].patch /\ (cmd[c].archs # {} => patches[p].stored = patches[p].archs)
  BY <1>1 DEF PatchRunOK
<1>3. PICK old \in PatchRows : old = patches[p] /\ PatchOK(old)
  BY ElementOfSeq DEF PublishInv, Shapes, PatchesOK
<1>4. PICK how \in {"patch", "hand"} :
        /\ how = IF cmd[c].archs = {} THEN "hand" ELSE "patch"
        /\ patches' = [patches EXCEPT ![p].by = @ \cup {how}]
  BY <1>2 DEF Promote
<1>5. PICK row \in PatchRows :
        /\ row = [old EXCEPT !.by = @ \cup {how}] /\ PatchOK(row)
        /\ row.archs = old.archs /\ row.stored = old.stored
  BY <1>2, <1>3, <1>4, RowPromoted
<1>6. patches' = [patches EXCEPT ![p] = row]
  BY <1>3, <1>4, <1>5
<1>7. UNCHANGED <<releases, channels>> /\ cmd' = [cmd EXCEPT ![c] = Idle]
  BY DEF Promote
<1>8. row.archs = patches[p].archs /\ patches[p].stored \subseteq row.stored
  BY <1>3, <1>5
<1>9. /\ patches' \in Seq(PatchRows) /\ PatchesOK' /\ Len(patches') >= Len(patches)
      /\ \A i \in 1..Len(patches) : /\ patches'[i].archs = patches[i].archs
                                    /\ patches[i].stored \subseteq patches'[i].stored
  BY <1>5, <1>6, <1>7, <1>8, PatchWritten
<1>10. Idle \in Commands /\ PatchRunOK(Idle)' /\ ReleaseRunOK(Idle)' /\ Idle.pc \notin ReleasePcs
  BY DEF Idle, Commands, Pcs, PatchRunOK, ReleaseRunOK, ReleasePcs
<1>11. QED BY <1>7, <1>9, <1>10, PatchesStep

-----------------------------------------------------------------------------
(***************************************************************************)
(* The results.                                                            *)
(***************************************************************************)
LEMMA InitInv == Init => PublishInv
<1> SUFFICES ASSUME Init PROVE PublishInv
  OBVIOUS
<1>1. releases = <<>> /\ patches = <<>> /\ channels = 0 /\ cmd = [c \in Terminals |-> Idle]
  BY DEF Init
<1>2. Len(<<>>) = 0 /\ <<>> \in Seq(ReleaseRows) /\ <<>> \in Seq(PatchRows)
  BY EmptySeq
<1>3. \A c \in Terminals : cmd[c] = Idle /\ Idle.pc \notin ReleasePcs
  BY <1>1 DEF Idle, ReleasePcs
<1>4. Shapes
  BY <1>1, <1>2, IdleIsFine DEF Shapes
<1>5. ReleasesOK /\ PatchesOK
  BY <1>1, <1>2 DEF ReleasesOK, PatchesOK
<1>6. CommandsOK
  BY <1>3, IdleIsFine DEF CommandsOK
<1>7. QED BY <1>4, <1>5, <1>6 DEF PublishInv

LEMMA StepInv == PublishInv /\ [Next]_pvars => PublishInv'
<1> SUFFICES ASSUME PublishInv, [Next]_pvars PROVE PublishInv'
  OBVIOUS
<1>1. CASE ReleaseStep(Releaser)
  <2>1. Releaser \in Terminals
    BY DEF Terminals
  <2>2. QED BY <1>1, <2>1, StartReleaseStep, FindReleaseStep, CreateReleaseStep, MarkDraftStep,
               RegisterStep, UploadStep, ActivateStep, AbortStep DEF ReleaseStep
<1>2. ASSUME NEW c \in Patchers, PatchStep(c) PROVE PublishInv'
  <2>1. c \in Terminals
    BY DEF Terminals
  <2>2. QED BY <1>2, <2>1, StartPatchStep, FindBaseStep, CheckArchiveStep, CreateBundleStep,
               CreatePatchStep, RegisterDiffStep, UploadDiffStep, StartPromoteStep, ChoosePatchStep,
               FindChannelStep, CreateChannelStep, PromoteStep, AbortStep DEF PatchStep
<1>3. CASE UNCHANGED pvars
  BY <1>3 DEF pvars, PublishInv, Shapes, ReleasesOK, PatchesOK, PatchOK, CommandsOK, Complete,
              PatchRunOK, ReleaseRunOK
<1>4. QED BY <1>1, <1>2, <1>3 DEF Next

(* Every row and every command is well formed, however many terminals      *)
(* patch and wherever any of them is interrupted.                          *)
THEOREM PublishTypes == Spec => []PublishTypeOK
<1>1. QED BY InitInv, StepInv, InvGivesProperties, PTL DEF Spec

(* Whatever runs failed before or are under way, a release is active only  *)
(* with all that the run which made it active has built.                   *)
THEOREM ActiveReleasesAreComplete == Spec => []ActiveIsComplete
<1>1. QED BY InitInv, StepInv, InvGivesProperties, PTL DEF Spec

(* A run repeated after a lost answer finds the row it has created.        *)
THEOREM OneRowPerVersion == Spec => []OneReleasePerVersion
<1>1. QED BY InitInv, StepInv, InvGivesOneRelease, PTL DEF Spec

(* What `patch` promotes is uploaded for every architecture, whatever the  *)
(* other terminals do to the same patch meanwhile.                         *)
THEOREM PromotedPatchesAreComplete == Spec => []PromotedIsComplete
<1>1. QED BY InitInv, StepInv, InvGivesProperties, PTL DEF Spec

(* A patch of a release that is left alone is a diff against the build the *)
(* release was made active with.                                           *)
THEOREM PatchesFitTheirRelease == Spec => []PatchFitsRelease
<1>1. QED BY InitInv, StepInv, InvGivesProperties, PTL DEF Spec

=============================================================================
