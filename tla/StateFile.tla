----------------------------- MODULE StateFile ------------------------------
(***************************************************************************)
(* state.json of cache/updater_state.cpp: the client's identity, the       *)
(* release its patches belong to and the queued events, written through    *)
(* DiskIO by the sections of two threads of core/updater.cpp, the engine's *)
(* and the one in update(), across kills and new releases of the           *)
(* application.  The patches themselves are reduced to the release they    *)
(* were installed for.                                                     *)
(***************************************************************************)
EXTENDS DiskIO, Sequences, SequencesExt

CONSTANTS
    Clients,     \* the identities generate_client_id may draw
    Releases,    \* 1..n: the application's releases, installed in this order
    MaxEvents,   \* bound: how many events are ever queued
    Overlap      \* TRUE: the engine and update() may have a section open together

ASSUME ReleasesAssumption == Releases \subseteq Nat \ {0} /\ 1 \in Releases
ASSUME BoundAssumption    == MaxEvents \in Nat /\ Overlap \in BOOLEAN

VARIABLES
    fs,     \* the names state.json and state.json.tmp and the files behind them
    store,  \* the release whose patches are on disk, 0 when there are none
    app,    \* the installed release, its process and its boot, and whether the marker
            \* currently_booting_patch is set in pointers.json
    th,     \* per thread: where it is, and the section it has open
    born,   \* how many events have been queued so far; they are numbered
    tried,  \* the events send_patch_event has been called with
    upto    \* how many events there had been when update() last copied the queue

svars == <<fs, store, app, th, born, tried, upto>>

Threads == {"engine", "update"}

DrainLimit == 3

State(client, release, queue) ==
    [kind |-> "state", client |-> client, release |-> release, queue |-> queue]

Queues == BoundedSeq(1..MaxEvents, MaxEvents)
States == {State(c, r, q) : c \in Clients, r \in Releases, q \in Queues}

Pcs  == {"out", "wipe", "open", "write", "publish", "body", "sending", "cleared"}
Jobs == {"init", "launch", "success", "failure", "copy", "clear", "work"}

Out == [pc |-> "out", job |-> "init", fresh |-> FALSE, mine |-> Missing,
        fd |-> NoFile, batch |-> <<>>]

StateTypeOK ==
    /\ fs \in [content : [Inodes -> States \cup {Empty, Torn}],
               path : Inodes \cup {NoFile}, tmp : Inodes \cup {NoFile}]
    /\ fs.tmp # NoFile => fs.tmp # fs.path
    /\ store \in Releases \cup {0}
    /\ app \in [up : BOOLEAN, release : Releases, boot : {"none", "launching", "over"},
                marker : BOOLEAN]
    /\ th \in [Threads -> [pc : Pcs, job : Jobs, fresh : BOOLEAN, mine : States \cup {Missing},
                           fd : Inodes \cup {NoFile}, batch : Queues]]
    /\ {born, upto} \subseteq 0..MaxEvents /\ tried \subseteq 1..MaxEvents

Init ==
    /\ fs = EmptyDir
    /\ store = 0
    /\ app = [up |-> FALSE, release |-> 1, boot |-> "none", marker |-> FALSE]
    /\ th = [t \in Threads |-> Out]
    /\ born = 0 /\ tried = {} /\ upto = 0

-----------------------------------------------------------------------------
(***************************************************************************)
(* load_or_new_on_error opens a section; a state that is missing,          *)
(* unreadable or of another release is built afresh.                       *)
(***************************************************************************)
OnDisk == ReadFile(fs)

(* Mistake checked for: a new release is a new client. *)
AnyClient == Clients

(* The identity survives a new release, not a file that cannot be read. *)
FreshClients == IF OnDisk.kind = "state" THEN {OnDisk.client} ELSE Clients

Enter(t, job) ==
    IF OnDisk.kind = "state" /\ OnDisk.release = app.release
    THEN th' = [th EXCEPT ![t] = [Out EXCEPT !.pc = "body", !.job = job, !.mine = OnDisk]]
    ELSE \E c \in FreshClients :
            th' = [th EXCEPT ![t] = [Out EXCEPT !.pc = "wipe", !.job = job, !.fresh = TRUE,
                                                !.mine = State(c, app.release, <<>>)]]

(* Mistake checked for: the patches of the old release stay. *)
WipeNothing(t) ==
    /\ th[t].pc = "wipe"
    /\ th' = [th EXCEPT ![t].pc = "open"]
    /\ UNCHANGED <<fs, store, app, born, tried, upto>>

(***************************************************************************)
(* build_fresh: patches, pointers (and the boot marker in them) and        *)
(* downloads go.  That remove_all may fail, and the release is saved all   *)
(* the same, is left out.                                                  *)
(***************************************************************************)
Wipe(t) ==
    /\ th[t].pc = "wipe"
    /\ store' = 0
    /\ app' = [app EXCEPT !.marker = FALSE]
    /\ th' = [th EXCEPT ![t].pc = "open"]
    /\ UNCHANGED <<fs, born, tried, upto>>

-----------------------------------------------------------------------------
(***************************************************************************)
(* save(): write_json.  A fresh state that cannot be saved is logged and   *)
(* the section goes on; so does update() when the queue cannot be cleared. *)
(***************************************************************************)
Fds == {th[t].fd : t \in Threads} \ {NoFile}

OpenState(t) ==
    /\ th[t].pc = "open"
    /\ fs' = OpenTemp(fs, Fds)
    /\ th' = [th EXCEPT ![t].pc = "write", ![t].fd = TempFile(fs, Fds)]
    /\ UNCHANGED <<store, app, born, tried, upto>>

(* The longer queue is the longer text. *)
Covers(new, old) == old.kind = "state" /\ Len(new.queue) > Len(old.queue)

WriteText(t) ==
    /\ th[t].pc = "write"
    /\ LET new == th[t].mine
           old == fs.content[th[t].fd]
       IN  fs' = WriteTo(fs, th[t].fd, new, Covers(new, old))
    /\ th' = [th EXCEPT ![t].pc = "publish", ![t].fd = NoFile]
    /\ UNCHANGED <<store, app, born, tried, upto>>

AfterSave(t) ==
    IF th[t].fresh THEN [th[t] EXCEPT !.pc = "body", !.fresh = FALSE, !.fd = NoFile]
    ELSE IF th[t].job = "clear" THEN [Out EXCEPT !.pc = "cleared"] ELSE Out

PublishText(t) ==
    /\ th[t].pc = "publish" /\ CanPublish(fs)
    /\ fs' = PublishTemp(fs)
    /\ th' = [th EXCEPT ![t] = AfterSave(t)]
    /\ UNCHANGED <<store, app, born, tried, upto>>

(* No room to create, to write or to rename the file, or another writer renamed it. *)
SaveFails(t) ==
    /\ th[t].pc \in {"open", "write", "publish"}
    /\ fs' = IF th[t].pc = "open" THEN fs ELSE RemoveTemp(fs)
    /\ th' = [th EXCEPT ![t] = AfterSave(t)]
    /\ UNCHANGED <<store, app, born, tried, upto>>

Save(t) == Wipe(t) \/ OpenState(t) \/ WriteText(t) \/ PublishText(t) \/ SaveFails(t)

-----------------------------------------------------------------------------
(***************************************************************************)
(* The engine's thread.  Between two sections of an update(), while it     *)
(* sends events or waits for the server, no section is open.               *)
(***************************************************************************)
Idle(t) == th[t].pc = "out"

SectionOpen(t) == th[t].pc \notin {"out", "sending", "cleared"}

Alone(t) == Overlap \/ \A other \in Threads \ {t} : ~SectionOpen(other)

InitOver == app.up /\ (Idle("engine") \/ th["engine"].job # "init")

(* The first section of a process is init()'s. *)
StartProcess ==
    /\ ~app.up
    /\ app' = [app EXCEPT !.up = TRUE]
    /\ Enter("engine", "init")
    /\ UNCHANGED <<fs, store, born, tried, upto>>

ReportLaunch(job) ==
    /\ InitOver /\ Idle("engine") /\ Alone("engine")
    /\ app.boot = IF job = "launch" THEN "none" ELSE "launching"
    /\ app' = [app EXCEPT !.boot = IF job = "launch" THEN "launching" ELSE "over"]
    /\ Enter("engine", job)
    /\ UNCHANGED <<fs, store, born, tried, upto>>

InEngine(job) == th["engine"].pc = "body" /\ th["engine"].job = job

(* A launch of the base release sets no marker; a success clears it. *)
MarkLaunch ==
    /\ InEngine("launch") \/ InEngine("success")
    /\ app' = [app EXCEPT !.marker = IF InEngine("launch") THEN store # 0 ELSE FALSE]
    /\ th' = [th EXCEPT !["engine"] = Out]
    /\ UNCHANGED <<fs, store, born, tried, upto>>

(* A failure, found by init() or reported: the marker goes, queue_event follows. *)
QueueEvent ==
    /\ InEngine("init") \/ InEngine("failure")
    /\ app.marker /\ born < MaxEvents
    /\ born' = born + 1
    /\ th' = [th EXCEPT !["engine"].pc = "open", !["engine"].mine.queue = Append(@, born + 1)]
    /\ app' = [app EXCEPT !.marker = FALSE]
    /\ UNCHANGED <<fs, store, tried, upto>>

NothingFailed ==
    /\ InEngine("init") \/ InEngine("failure")
    /\ ~app.marker
    /\ th' = [th EXCEPT !["engine"] = Out]
    /\ UNCHANGED <<fs, store, app, born, tried, upto>>

-----------------------------------------------------------------------------
(***************************************************************************)
(* update(): copy the first events, send them, clear the queue, and work   *)
(* on the patches in further sections.                                     *)
(***************************************************************************)
BeginUpdate ==
    /\ InitOver /\ Idle("update") /\ Alone("update")
    /\ Enter("update", "copy")
    /\ UNCHANGED <<fs, store, app, born, tried, upto>>

(* Mistake checked for: one event less is copied than the limit allows. *)
FirstButOne(queue) == SubSeq(queue, 1, Min({Len(queue), DrainLimit - 1}))

FirstEvents(queue) == SubSeq(queue, 1, Min({Len(queue), DrainLimit}))

CopyEvents ==
    /\ th["update"].pc = "body" /\ th["update"].job = "copy"
    /\ th' = [th EXCEPT !["update"] =
                [Out EXCEPT !.pc = "sending", !.batch = FirstEvents(th["update"].mine.queue)]]
    /\ upto' = born
    /\ UNCHANGED <<fs, store, app, born, tried>>

(* Whether it arrives or not, it is not sent again by this update(). *)
SendEvent ==
    /\ th["update"].pc = "sending" /\ th["update"].batch # <<>>
    /\ tried' = tried \cup {Head(th["update"].batch)}
    /\ th' = [th EXCEPT !["update"].batch = Tail(@)]
    /\ UNCHANGED <<fs, store, app, born, upto>>

EnterClear ==
    /\ th["update"].pc = "sending" /\ th["update"].batch = <<>> /\ Alone("update")
    /\ Enter("update", "clear")
    /\ UNCHANGED <<fs, store, app, born, tried, upto>>

ClearEvents ==
    /\ th["update"].pc = "body" /\ th["update"].job = "clear"
    /\ th' = [th EXCEPT !["update"].pc = "open", !["update"].mine.queue = <<>>]
    /\ UNCHANGED <<fs, store, app, born, tried, upto>>

(* The sections that follow record a patch of this release, or there is none. *)
EnterWork ==
    /\ th["update"].pc = "cleared" /\ Alone("update")
    /\ Enter("update", "work")
    /\ UNCHANGED <<fs, store, app, born, tried, upto>>

Work ==
    /\ th["update"].pc = "body" /\ th["update"].job = "work"
    /\ store' = app.release
    /\ th' = [th EXCEPT !["update"] = Out]
    /\ UNCHANGED <<fs, app, born, tried, upto>>

EndUpdate ==
    /\ th["update"].pc = "cleared"
    /\ th' = [th EXCEPT !["update"] = Out]
    /\ UNCHANGED <<fs, store, app, born, tried, upto>>

-----------------------------------------------------------------------------
(* The process dies; a marker it has left is found by the next init(). *)
Kill ==
    /\ app.up
    /\ app' = [app EXCEPT !.up = FALSE, !.boot = "none"]
    /\ th' = [t \in Threads |-> Out]
    /\ UNCHANGED <<fs, store, born, tried, upto>>

(* A newer version of the application is installed; older ones never are. *)
InstallRelease ==
    /\ ~app.up /\ app.release + 1 \in Releases
    /\ app' = [app EXCEPT !.release = @ + 1]
    /\ UNCHANGED <<fs, store, th, born, tried, upto>>

Next ==
    \/ \E t \in Threads : Save(t)
    \/ StartProcess
    \/ \E job \in {"launch", "success", "failure"} : ReportLaunch(job)
    \/ MarkLaunch \/ QueueEvent \/ NothingFailed
    \/ BeginUpdate \/ CopyEvents \/ SendEvent \/ EnterClear \/ ClearEvents
    \/ EnterWork \/ Work \/ EndUpdate
    \/ Kill \/ InstallRelease

Spec == Init /\ [][Next]_svars

-----------------------------------------------------------------------------
(***************************************************************************)
(* Properties.                                                             *)
(***************************************************************************)

(* write_json is atomic: state.json is missing or one complete version,    *)
(* whenever a writer is killed or fails.                                   *)
FileWhole == OnDisk.kind \in {"missing", "state"}

(* Once saved, the client's identity survives every kill, failed save and  *)
(* new release: load_or_new_on_error never draws another.                  *)
ClientIdStable ==
    [][OnDisk.kind = "state" => OnDisk'.kind = "state" /\ OnDisk'.client = OnDisk.client]_svars

(* No section works on patches of another release, even if the process was *)
(* killed between wiping them and saving the new state, or never saved it. *)
StoreMatchesRelease ==
    \A t \in Threads : th[t].pc = "body" => store \in {0, app.release}

(* The publishing of a queue that update() has cleared. *)
Clearing == th["update"].pc = "publish" /\ th["update"].job = "clear"

(***************************************************************************)
(* An event among the first DrainLimit in the queue leaves it only after   *)
(* an attempt to send it, with one exception: queued by the engine after   *)
(* update() copied the queue, it goes unsent when that update() clears all *)
(* of it.  The comment there says "racing a queue addition is fine; the    *)
(* next cycle catches it"; no cycle does (updater.cpp:80-107).             *)
(*                                                                         *)
(* Others are lost as well: those beyond the limit, those of an older      *)
(* release, those that could not be saved.                                 *)
(***************************************************************************)
EventsKept ==
    [][OnDisk.kind = "state" =>
        \A i \in 1..Min({Len(OnDisk.queue), DrainLimit}) :
            LET e == OnDisk.queue[i]
            IN  \/ e \in tried
                \/ OnDisk'.kind = "state" /\ e \in ToSet(OnDisk'.queue)
                \/ OnDisk'.kind = "state" /\ OnDisk'.release > OnDisk.release
                \/ Clearing /\ e > upto]_svars

=============================================================================
