------------------------------ MODULE Publish -------------------------------
(***************************************************************************)
(* The commands of packages/dashpod_cli that publish: `release android`,   *)
(* `patch android` and `patches promote`, request by request, against the  *)
(* tables of the server.  Any request may fail, or take effect with its    *)
(* answer lost, or be the last of a command that is interrupted; a        *)
(* command is run again, and the others run while a release is published.  *)
(* One terminal publishes releases: two would replace each other's work.   *)
(*                                                                         *)
(* The server is external: one row per architecture of a release or patch, *)
(* replaced when it is registered again, and its bytes stored apart.       *)
(***************************************************************************)
EXTENDS Naturals, Sequences, SequencesExt, FiniteSetsExt

CONSTANTS
    Releaser,    \* the terminal that runs `release`
    Patchers,    \* the terminals that run `patch` and `patches promote`
    Versions,    \* release versions
    Builds,      \* what building one version may produce
    NoBuild,     \* none of them
    Archs,       \* the architectures
    MaxPatches   \* bound: the patches ever created

ASSUME BuildsAssumption == NoBuild \notin Builds /\ MaxPatches \in Nat

VARIABLES
    releases,  \* the release rows, in the order of creation
    patches,   \* the patch rows, in the order of creation
    channels,  \* how many channels bear the name of the track
    cmd        \* per terminal: the command it runs

pvars == <<releases, patches, channels, cmd>>

Terminals == {Releaser} \cup Patchers

(* The aab is one more artifact of a release; the obfuscation supplement is left out. *)
Slots == Archs \cup {"aab"}

Nothing == [build |-> NoBuild, stored |-> FALSE]

(* A run of `release`: what it built, and for which architectures. *)
NoRun == [build |-> NoBuild, archs |-> {}]

(* last is history: the run that made the release active. *)
Release(version) ==
    [version |-> version, status |-> "none", art |-> [s \in Slots |-> Nothing], last |-> NoRun]

(* fresh and stray are history: the release found was active and is left alone since, *)
(* and yet a diff starts from another build than the one it was made active with.     *)
Idle == [pc |-> "idle", version |-> NoBuild, build |-> NoBuild, archs |-> {}, todo |-> {},
         release |-> 0, patch |-> 0, fresh |-> FALSE, stray |-> FALSE]

Init ==
    /\ releases = <<>> /\ patches = <<>> /\ channels = 0
    /\ cmd = [c \in Terminals |-> Idle]

Runs == [build : Builds \cup {NoBuild}, archs : SUBSET Archs]

Pcs == {"idle", "list", "create", "draft", "register", "upload", "activate", "find", "archive",
        "bundle", "row", "attach", "put", "channel", "new_channel", "promote", "choose"}

PublishTypeOK ==
    /\ \A r \in ToSet(releases) :
          /\ r.version \in Versions /\ r.status \in {"none", "draft", "active"}
          /\ r.art \in [Slots -> [build : Builds \cup {NoBuild}, stored : BOOLEAN]]
          /\ r.last \in Runs
          /\ r.status = "active" => r.last # NoRun
    /\ \A p \in ToSet(patches) :
          /\ p.release \in DOMAIN releases /\ p.stray \in BOOLEAN
          /\ p.stored \subseteq p.rows /\ p.rows \subseteq p.archs
          /\ p.by \subseteq {"patch", "hand"}
    /\ channels \in Nat
    /\ \A c \in Terminals :
          /\ cmd[c].pc \in Pcs /\ cmd[c].todo \subseteq Slots
          /\ cmd[c].pc \in {"register", "upload", "attach", "put"} => cmd[c].todo # {}

-----------------------------------------------------------------------------
Begin(c, command) ==
    /\ cmd[c].pc = "idle"
    /\ cmd' = [cmd EXCEPT ![c] = command]
    /\ UNCHANGED <<releases, patches, channels>>

Go(c, pc) == cmd' = [cmd EXCEPT ![c].pc = pc]

(* A refusal, a lost answer or an interrupt: the command ends where it is. *)
Abort(c) ==
    /\ cmd[c].pc # "idle"
    /\ cmd' = [cmd EXCEPT ![c] = Idle]
    /\ UNCHANGED <<releases, patches, channels>>

Matching(version) == {i \in DOMAIN releases : releases[i].version = version}

(* Artifacts go one at a time, architectures in any order, the aab last. *)
Turn(todo) == IF todo = {"aab"} THEN todo ELSE todo \ {"aab"}

-----------------------------------------------------------------------------
(***************************************************************************)
(* release android: find or create the row, mark it a draft, register and  *)
(* upload every artifact, make it active.                                  *)
(***************************************************************************)
StartRelease(c) ==
    \E v \in Versions, b \in Builds, archs \in (SUBSET Archs) \ {{}} :
        Begin(c, [Idle EXCEPT !.pc = "list", !.version = v, !.build = b, !.archs = archs])

(* Mistake checked for: the row of an earlier run is not looked for. *)
FindReleaseNever(c) ==
    /\ cmd[c].pc = "list"
    /\ Go(c, "create")
    /\ UNCHANGED <<releases, patches, channels>>

(* Mistake checked for: a row that is there already keeps its status. *)
FindReleaseKeepsStatus(c) ==
    /\ cmd[c].pc = "list"
    /\ LET found == Matching(cmd[c].version)
       IN  IF found = {} THEN Go(c, "create")
           ELSE cmd' = [cmd EXCEPT ![c].pc = "register", ![c].release = Min(found),
                                   ![c].todo = cmd[c].archs \cup {"aab"}]
    /\ UNCHANGED <<releases, patches, channels>>

FindRelease(c) ==
    /\ cmd[c].pc = "list"
    /\ LET found == Matching(cmd[c].version)
       IN  IF found = {} THEN Go(c, "create")
           ELSE cmd' = [cmd EXCEPT ![c].pc = "draft", ![c].release = Min(found)]
    /\ UNCHANGED <<releases, patches, channels>>

CreateRelease(c) ==
    /\ cmd[c].pc = "create"
    /\ releases' = Append(releases, Release(cmd[c].version))
    /\ cmd' = [cmd EXCEPT ![c].pc = "draft", ![c].release = Len(releases) + 1]
    /\ UNCHANGED <<patches, channels>>

(* What a patch command at work on this release has found is no longer fresh. *)
MarkDraft(c) ==
    /\ cmd[c].pc = "draft"
    /\ releases' = [releases EXCEPT ![cmd[c].release].status = "draft"]
    /\ cmd' = [d \in Terminals |->
                IF d = c
                THEN [cmd[c] EXCEPT !.pc = "register", !.todo = cmd[c].archs \cup {"aab"}]
                ELSE [cmd[d] EXCEPT !.fresh = @ /\ cmd[d].release # cmd[c].release,
                                    !.stray = @ /\ cmd[d].release # cmd[c].release]]
    /\ UNCHANGED <<patches, channels>>

(* createArtifact: the row, and a URL for its bytes. *)
Register(c) ==
    /\ cmd[c].pc = "register"
    /\ \E s \in Turn(cmd[c].todo) :
          releases' = [releases EXCEPT ![cmd[c].release].art[s] =
                        [build |-> cmd[c].build, stored |-> FALSE]]
    /\ Go(c, "upload")
    /\ UNCHANGED <<patches, channels>>

(* Mistake checked for: the release is made active after its first upload. *)
UploadOne(c) ==
    /\ cmd[c].pc = "upload"
    /\ \E s \in Turn(cmd[c].todo) :
          /\ ~releases[cmd[c].release].art[s].stored
          /\ releases[cmd[c].release].art[s].build = cmd[c].build
          /\ releases' = [releases EXCEPT ![cmd[c].release].art[s].stored = TRUE]
    /\ Go(c, "activate")
    /\ UNCHANGED <<patches, channels>>

(* Mistake checked for: the loop over the artifacts goes round once more. *)
UploadAgain(c) ==
    /\ cmd[c].pc = "upload"
    /\ \E s \in Turn(cmd[c].todo) :
          /\ releases' = [releases EXCEPT ![cmd[c].release].art[s].stored = TRUE]
          /\ cmd' = [cmd EXCEPT ![c].todo = @ \ {s}, ![c].pc = "register"]
    /\ UNCHANGED <<patches, channels>>

(* The bytes go to the URL of the row just registered. *)
Upload(c) ==
    /\ cmd[c].pc = "upload"
    /\ \E s \in Turn(cmd[c].todo) :
          /\ ~releases[cmd[c].release].art[s].stored
          /\ releases[cmd[c].release].art[s].build = cmd[c].build
          /\ releases' = [releases EXCEPT ![cmd[c].release].art[s].stored = TRUE]
          /\ cmd' = [cmd EXCEPT ![c].todo = @ \ {s},
                        ![c].pc = IF cmd[c].todo = {s} THEN "activate" ELSE "register"]
    /\ UNCHANGED <<patches, channels>>

Activate(c) ==
    /\ cmd[c].pc = "activate"
    /\ releases' = [releases EXCEPT ![cmd[c].release].status = "active",
            ![cmd[c].release].last = [build |-> cmd[c].build, archs |-> cmd[c].archs]]
    /\ cmd' = [cmd EXCEPT ![c] = Idle]
    /\ UNCHANGED <<patches, channels>>

-----------------------------------------------------------------------------
(***************************************************************************)
(* patch android: find the release and its aab, download it for the diff   *)
(* check, diff every architecture against its artifact, create the patch,  *)
(* register and upload the diffs, promote.                                 *)
(***************************************************************************)
StartPatch(c) ==
    \E v \in Versions, archs \in (SUBSET Archs) \ {{}} :
        Begin(c, [Idle EXCEPT !.pc = "find", !.version = v, !.archs = archs])

(* The status of the release is not looked at. *)
FindBase(c) ==
    /\ cmd[c].pc = "find" /\ Matching(cmd[c].version) # {}
    /\ LET r == Min(Matching(cmd[c].version))
       IN  /\ releases[r].art["aab"] # Nothing
           /\ cmd' = [cmd EXCEPT ![c].pc = "archive", ![c].release = r,
                        ![c].version = NoBuild, ![c].fresh = releases[r].status = "active"]
    /\ UNCHANGED <<releases, patches, channels>>

Art(c, s) == releases[cmd[c].release].art[s]

(* Without its bytes the download fails; so may the diff check: both are Abort. *)
CheckArchive(c) ==
    /\ cmd[c].pc = "archive" /\ Art(c, "aab").stored
    /\ cmd' = [cmd EXCEPT ![c].pc = "bundle", ![c].todo = cmd[c].archs]
    /\ UNCHANGED <<releases, patches, channels>>

Stray(c, a) ==
    LET run == releases[cmd[c].release].last
    IN  cmd[c].fresh /\ a \in run.archs /\ Art(c, a).build # run.build

CreateBundle(c) ==
    /\ cmd[c].pc = "bundle"
    /\ \E a \in cmd[c].todo :
          /\ Art(c, a).stored
          /\ cmd' = [cmd EXCEPT ![c].todo = @ \ {a}, ![c].stray = @ \/ Stray(c, a),
                        ![c].pc = IF cmd[c].todo = {a} THEN "row" ELSE "bundle"]
    /\ UNCHANGED <<releases, patches, channels>>

CreatePatch(c) ==
    /\ cmd[c].pc = "row" /\ Len(patches) < MaxPatches
    /\ patches' = Append(patches,
          [release |-> cmd[c].release, archs |-> cmd[c].archs, rows |-> {}, stored |-> {},
           by |-> {}, stray |-> cmd[c].stray])
    /\ cmd' = [cmd EXCEPT ![c] = [Idle EXCEPT !.pc = "attach", !.archs = cmd[c].archs,
                                    !.todo = cmd[c].archs, !.patch = Len(patches) + 1]]
    /\ UNCHANGED <<releases, channels>>

RegisterDiff(c) ==
    /\ cmd[c].pc = "attach"
    /\ \E a \in cmd[c].todo : patches' = [patches EXCEPT ![cmd[c].patch].rows = @ \cup {a}]
    /\ Go(c, "put")
    /\ UNCHANGED <<releases, channels>>

(* Mistake checked for: the patch is promoted while its diffs are uploaded. *)
UploadDiffOne(c) ==
    /\ cmd[c].pc = "put"
    /\ \E a \in cmd[c].todo \cap patches[cmd[c].patch].rows :
          patches' = [patches EXCEPT ![cmd[c].patch].stored = @ \cup {a}]
    /\ Go(c, "channel")
    /\ UNCHANGED <<releases, channels>>

UploadDiff(c) ==
    /\ cmd[c].pc = "put"
    /\ \E a \in cmd[c].todo \cap patches[cmd[c].patch].rows :
          /\ patches' = [patches EXCEPT ![cmd[c].patch].stored = @ \cup {a}]
          /\ cmd' = [cmd EXCEPT ![c].todo = @ \ {a},
                        ![c].pc = IF cmd[c].todo = {a} THEN "channel" ELSE "attach"]
    /\ UNCHANGED <<releases, channels>>

-----------------------------------------------------------------------------
(***************************************************************************)
(* patches promote: any patch of the release, whatever it holds.           *)
(***************************************************************************)
StartPromote(c) ==
    \E v \in Versions : Begin(c, [Idle EXCEPT !.pc = "choose", !.version = v])

(* The rows read here are only ever appended to. *)
ChoosePatch(c) ==
    /\ cmd[c].pc = "choose" /\ Matching(cmd[c].version) # {}
    /\ \E p \in DOMAIN patches :
          /\ patches[p].release = Min(Matching(cmd[c].version))
          /\ cmd' = [cmd EXCEPT ![c].pc = "channel", ![c].patch = p]
    /\ UNCHANGED <<releases, patches, channels>>

FindChannel(c) ==
    /\ cmd[c].pc = "channel"
    /\ Go(c, IF channels = 0 THEN "new_channel" ELSE "promote")
    /\ UNCHANGED <<releases, patches, channels>>

CreateChannel(c) ==
    /\ cmd[c].pc = "new_channel"
    /\ channels' = channels + 1
    /\ Go(c, "promote")
    /\ UNCHANGED <<releases, patches>>

(* A command that has built diffs is `patch`. *)
Promote(c) ==
    /\ cmd[c].pc = "promote"
    /\ patches' = [patches EXCEPT ![cmd[c].patch].by = @ \cup
                        {IF cmd[c].archs = {} THEN "hand" ELSE "patch"}]
    /\ cmd' = [cmd EXCEPT ![c] = Idle]
    /\ UNCHANGED <<releases, channels>>

-----------------------------------------------------------------------------
ReleaseStep(c) ==
    \/ StartRelease(c) \/ FindRelease(c) \/ CreateRelease(c) \/ MarkDraft(c)
    \/ Register(c) \/ Upload(c) \/ Activate(c) \/ Abort(c)

PatchStep(c) ==
    \/ StartPatch(c) \/ FindBase(c) \/ CheckArchive(c) \/ CreateBundle(c) \/ CreatePatch(c)
    \/ RegisterDiff(c) \/ UploadDiff(c)
    \/ StartPromote(c) \/ ChoosePatch(c)
    \/ FindChannel(c) \/ CreateChannel(c) \/ Promote(c) \/ Abort(c)

Next ==
    \/ ReleaseStep(Releaser)
    \/ \E c \in Patchers : PatchStep(c)

Spec == Init /\ [][Next]_pvars

-----------------------------------------------------------------------------
(***************************************************************************)
(* Properties.                                                             *)
(***************************************************************************)

(* An active release holds what the run that made it active has built, for *)
(* every architecture of that run, however many runs have failed before    *)
(* or are under way: a row is a draft while its artifacts are replaced.    *)
ActiveIsComplete ==
    \A r \in ToSet(releases) : r.status = "active" =>
        \A s \in r.last.archs \cup {"aab"} :
            r.art[s] = [build |-> r.last.build, stored |-> TRUE]

(* A version has one release: a run whose createRelease took effect with   *)
(* its answer lost is continued by the next run, not repeated.             *)
OneReleasePerVersion == \A v \in Versions : Cardinality(Matching(v)) <= 1

(* What `patch` promotes is uploaded for every architecture; only          *)
(* `patches promote` may offer devices a patch that is not all there.      *)
PromotedIsComplete ==
    \A p \in ToSet(patches) : "patch" \in p.by => p.stored = p.archs

(* A patch made from an active release that is left alone meanwhile is a   *)
(* diff against the build that release was made active with.               *)
PatchFitsRelease == \A p \in ToSet(patches) : ~p.stray

=============================================================================
