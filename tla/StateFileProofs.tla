-------------------------- MODULE StateFileProofs ---------------------------
(***************************************************************************)
(* state.json when the sections of the engine and of update() take turns:  *)
(* the file is whole, the client keeps its identity, no section works on   *)
(* patches of another release, and an event that update() copied leaves    *)
(* the queue only after an attempt to send it; for any identities,         *)
(* releases and files, and kills anywhere.                                 *)
(***************************************************************************)
EXTENDS StateFile, SequenceTheorems, TLAPS

-----------------------------------------------------------------------------
(* The file is of the release that is installed. *)
Current == OnDisk \in States /\ OnDisk.release = app.release

ThreadRecs == [pc : Pcs, job : Jobs, fresh : BOOLEAN, mine : States \cup {Missing},
               fd : Inodes \cup {NoFile}, batch : Queues]

Dirs == [content : [Inodes -> States \cup {Empty, Torn}],
         path : Inodes \cup {NoFile}, tmp : Inodes \cup {NoFile}]

Apps == [up : BOOLEAN, release : Releases, boot : {"none", "launching", "over"}, marker : BOOLEAN]

(***************************************************************************)
(* On disk: one version or none, never of a release to come, and patches   *)
(* of another release only next to a file of another release.              *)
(***************************************************************************)
FileInv ==
    /\ fs \in Dirs
    /\ fs.tmp # NoFile => fs.tmp # fs.path
    /\ store \in Releases \cup {0} /\ app \in Apps
    /\ born \in 0..MaxEvents /\ tried \subseteq 1..MaxEvents
    /\ OnDisk \in States \cup {Missing}
    /\ OnDisk \in States => OnDisk.release <= app.release /\ Len(OnDisk.queue) <= born
    /\ Current => store \in {0, app.release}

Saving  == {"open", "write", "publish"}
Section == Saving \cup {"wipe", "body"}

(***************************************************************************)
(* A thread in a section holds a state of this release and of the client   *)
(* on disk, the temp file is its own, and no other section is open; an     *)
(* update() may be waiting between two of its own.                         *)
(***************************************************************************)
ThreadOK(w) ==
    /\ w.pc # "out" => app.up
    /\ w.pc # "write" => w.fd = NoFile
    /\ w.pc \in Section =>
          /\ w.mine \in States /\ w.mine.release = app.release /\ Len(w.mine.queue) <= born
          /\ OnDisk \in States => w.mine.client = OnDisk.client
    /\ w.pc \in Saving \cup {"body"} => store \in {0, app.release}
    /\ w.pc = "wipe" => w.fresh
    /\ w.fresh => w.pc \in Saving \cup {"wipe"} /\ ~Current /\ w.mine.queue = <<>>
    /\ w.pc = "body" /\ Current => w.mine = OnDisk
    /\ w.pc = "write" => w.fd # NoFile /\ w.fd = fs.tmp /\ fs.content[fs.tmp] = Empty
    /\ w.pc = "publish" => fs.tmp # NoFile /\ fs.content[fs.tmp] = w.mine

InSection(t) == th[t].pc \in Section

ThreadsInv ==
    /\ th \in [Threads -> ThreadRecs]
    /\ \A t \in Threads : ThreadOK(th[t])
    /\ \A t, u \in Threads : InSection(t) /\ InSection(u) => t = u

SerialFile == FileInv /\ ThreadsInv

-----------------------------------------------------------------------------
(***************************************************************************)
(* Lemmas on states, queues and files.                                     *)
(***************************************************************************)

LEMMA SmallerOfTwo == \A a, b \in Nat : Min({a, b}) = IF a <= b THEN a ELSE b
<1> SUFFICES ASSUME NEW a \in Nat, NEW b \in Nat
             PROVE  Min({a, b}) = IF a <= b THEN a ELSE b
  OBVIOUS
<1>1. PICK m : m = IF a <= b THEN a ELSE b
  OBVIOUS
<1>2. m \in {a, b} /\ \A y \in {a, b} : m =< y
  BY <1>1
<1>3. \A x \in {a, b} : (\A y \in {a, b} : x =< y) => x = m
  BY <1>1, <1>2
<1>4. QED BY <1>1, <1>2, <1>3 DEF Min

LEMMA QueueShape == \A q : q \in Queues <=> q \in Seq(1..MaxEvents) /\ Len(q) <= MaxEvents
<1> SUFFICES ASSUME NEW q
             PROVE  q \in Queues <=> q \in Seq(1..MaxEvents) /\ Len(q) <= MaxEvents
  OBVIOUS
<1>1. ASSUME q \in Queues PROVE q \in Seq(1..MaxEvents) /\ Len(q) <= MaxEvents
  <2>1. PICK m \in 0..MaxEvents : q \in [1..m -> 1..MaxEvents]
    BY <1>1 DEF Queues, BoundedSeq, SeqOf
  <2>2. m \in Nat /\ q \in Seq(1..MaxEvents)
    BY <2>1, SeqDef, BoundAssumption
  <2>3. Len(q) = m
    BY <2>1, <2>2, LenProperties
  <2>4. QED BY <2>1, <2>2, <2>3, BoundAssumption
<1>2. ASSUME q \in Seq(1..MaxEvents), Len(q) <= MaxEvents PROVE q \in Queues
  <2>1. Len(q) \in 0..MaxEvents /\ q \in [1..Len(q) -> 1..MaxEvents]
    BY <1>2, LenProperties, BoundAssumption
  <2>2. QED BY <2>1 DEF Queues, BoundedSeq, SeqOf
<1>3. QED BY <1>1, <1>2

LEMMA NoEvents == <<>> \in Queues /\ Len(<<>>) = 0 /\ ToSet(<<>>) = {}
<1>1. PICK q : q = <<>>
  OBVIOUS
<1>2. q \in Seq(1..MaxEvents) /\ Len(q) = 0
  BY <1>1, EmptySeq
<1>3. DOMAIN q = {}
  BY <1>2, LenProperties
<1>4. q \in Queues
  <2>1. Len(q) <= MaxEvents
    BY <1>2, BoundAssumption
  <2>2. QED BY <1>2, <2>1, QueueShape
<1>5. ToSet(q) = {}
  BY <1>3 DEF ToSet
<1>6. QED BY <1>1, <1>2, <1>4, <1>5

LEMMA ListedEvents ==
    ASSUME NEW q \in Queues
    PROVE  Len(q) \in Nat /\ \A i \in 1..Len(q) : q[i] \in ToSet(q) /\ q[i] \in 1..MaxEvents
<1>1. q \in Seq(1..MaxEvents)
  BY QueueShape
<1>2. DOMAIN q = 1..Len(q) /\ Len(q) \in Nat /\ q \in [1..Len(q) -> 1..MaxEvents]
  BY <1>1, LenProperties
<1>3. QED BY <1>2 DEF ToSet

(* One event more, behind those that are queued. *)
LEMMA OneEventMore ==
    ASSUME NEW q \in Queues, NEW e \in 1..MaxEvents, Len(q) < MaxEvents
    PROVE  /\ Append(q, e) \in Queues /\ Len(Append(q, e)) = Len(q) + 1
           /\ ToSet(q) \subseteq ToSet(Append(q, e))
<1>1. q \in Seq(1..MaxEvents) /\ Len(q) \in Nat
  BY QueueShape, ListedEvents
<1>2. PICK r : r = Append(q, e)
  OBVIOUS
<1>3. /\ r \in Seq(1..MaxEvents) /\ Len(r) = Len(q) + 1
      /\ \A i \in 1..Len(q) : r[i] = q[i]
  BY <1>1, <1>2, AppendProperties
<1>4. r \in Queues
  BY <1>1, <1>3, QueueShape, BoundAssumption
<1>5. DOMAIN r = 1..Len(r) /\ DOMAIN q = 1..Len(q)
  BY <1>1, <1>3, LenProperties
<1>6. ToSet(q) \subseteq ToSet(r)
  BY <1>1, <1>3, <1>5 DEF ToSet
<1>7. QED BY <1>2, <1>3, <1>4, <1>6

(* The events a drain is bound to send are in the queue it found. *)
LEMMA BoundToSend ==
    ASSUME NEW q \in Queues
    PROVE  \A i \in 1..Min({Len(q), DrainLimit}) : i \in 1..Len(q) /\ q[i] \in ToSet(q)
<1>1. Min({Len(q), DrainLimit}) \in 0..Len(q)
  BY ListedEvents, SmallerOfTwo DEF DrainLimit
<1>2. QED BY <1>1, ListedEvents

(* The copy is the events the drain is bound to send. *)
LEMMA CopiedEvents ==
    ASSUME NEW q \in Queues
    PROVE  /\ FirstEvents(q) \in Queues
           /\ \A i \in 1..Min({Len(q), DrainLimit}) : q[i] \in ToSet(FirstEvents(q))
<1>1. PICK n : n = Min({Len(q), DrainLimit})
  OBVIOUS
<1>2. n \in 0..Len(q) /\ Len(q) \in Nat
  BY <1>1, ListedEvents, SmallerOfTwo DEF DrainLimit
<1>3. PICK r : r = SubSeq(q, 1, n)
  OBVIOUS
<1>4. \A i \in 1..n : q[i] \in 1..MaxEvents
  BY <1>2, ListedEvents
<1>5. /\ r \in Seq(1..MaxEvents) /\ Len(r) = n /\ \A i \in 1..n : r[i] = q[i]
  <2>1. n \in Int /\ 1 \in Int
    BY <1>2
  <2>2. /\ r \in Seq(1..MaxEvents)
        /\ Len(r) = IF 1 <= n THEN n - 1 + 1 ELSE 0
        /\ \A i \in 1..n - 1 + 1 : r[i] = q[1 + i - 1]
    BY <1>3, <1>4, <2>1, SubSeqProperties
  <2>3. QED BY <1>2, <2>2
<1>6. Len(q) <= MaxEvents
  BY QueueShape
<1>7. r \in Queues
  BY <1>2, <1>5, <1>6, QueueShape, BoundAssumption
<1>8. \A i \in 1..n : r[i] \in ToSet(r)
  BY <1>5, <1>7, ListedEvents
<1>9. QED BY <1>1, <1>3, <1>5, <1>7, <1>8 DEF FirstEvents

(* What is sent leaves the batch and is tried. *)
LEMMA FirstOfBatch ==
    ASSUME NEW b \in Queues, b # <<>>
    PROVE  /\ Head(b) \in 1..MaxEvents /\ Tail(b) \in Queues
           /\ ToSet(b) \subseteq {Head(b)} \cup ToSet(Tail(b))
<1>1. b \in Seq(1..MaxEvents) /\ Len(b) \in Nat /\ Len(b) <= MaxEvents
  BY QueueShape, ListedEvents
<1>2. PICK r : r = Tail(b)
  OBVIOUS
<1>3. /\ Head(b) \in 1..MaxEvents /\ r \in Seq(1..MaxEvents) /\ Len(r) = Len(b) - 1
      /\ \A i \in 1..Len(r) : r[i] = b[i + 1]
  BY <1>1, <1>2, HeadTailProperties
<1>4. r \in Queues
  BY <1>1, <1>3, QueueShape, BoundAssumption
<1>5. Head(b) = b[1]
  <2>1. 1 \in 1..Len(b) /\ Len(b) \in 1..Len(b)
    BY <1>1, EmptySeq
  <2>2. Head(SubSeq(b, 1, Len(b))) = b[1]
    BY <1>1, <2>1, HeadTailOfSubSeq
  <2>3. QED BY <1>1, <2>2, SubSeqFull
<1>6. ASSUME NEW i \in 1..Len(b) PROVE b[i] \in {Head(b)} \cup ToSet(r)
  <2>1. CASE i = 1
    BY <1>5, <2>1
  <2>2. CASE i # 1
    <3>1. i - 1 \in 1..Len(r) /\ (i - 1) + 1 = i
      BY <1>1, <1>3, <2>2
    <3>2. r[i - 1] = b[i] /\ r[i - 1] \in ToSet(r)
      BY <1>3, <1>4, <3>1, ListedEvents
    <3>3. QED BY <3>2
  <2>3. QED BY <2>1, <2>2
<1>7. DOMAIN b = 1..Len(b)
  BY <1>1, LenProperties
<1>8. ToSet(b) \subseteq {Head(b)} \cup ToSet(r)
  BY <1>6, <1>7 DEF ToSet
<1>9. QED BY <1>2, <1>3, <1>4, <1>8

LEMMA StateShape ==
    /\ \A s \in States : /\ s.kind = "state" /\ s.client \in Clients
                         /\ s.release \in Releases /\ s.queue \in Queues
                         /\ s = State(s.client, s.release, s.queue)
    /\ \A c \in Clients, r \in Releases, q \in Queues :
          /\ State(c, r, q) \in States /\ State(c, r, q).client = c
          /\ State(c, r, q).release = r /\ State(c, r, q).queue = q
  BY DEF States, State

LEMMA NotStates ==
    /\ Missing \notin States /\ Empty \notin States /\ Torn \notin States
    /\ Missing.kind = "missing"
<1>1. Missing.kind = "missing" /\ Empty.kind = "empty" /\ Torn.kind = "torn"
  BY DEF Missing, Empty, Torn
<1>2. QED BY <1>1, StateShape

LEMMA ReleasesAreNumbers == Releases \subseteq Nat
  BY ReleasesAssumption

(* The file opened for writing is never the one readers see. *)
LEMMA FreshTempFile ==
    ASSUME FileInv
    PROVE  TempFile(fs, {}) \in Inodes /\ TempFile(fs, {}) # fs.path
<1>1. CASE fs.tmp # NoFile
  BY <1>1 DEF FileInv, Dirs, TempFile
<1>2. CASE fs.tmp = NoFile
  <2>1. fs.path \in Inodes \cup {NoFile}
    BY DEF FileInv, Dirs
  <2>2. Inodes \ {fs.path, fs.path, fs.path} # {}
    BY <2>1, InodesAssumption
  <2>3. \E i : i \in Inodes \ ({} \cup {fs.path})
    BY <2>2
  <2>4. QED BY <1>2, <2>3 DEF TempFile
<1>3. QED BY <1>1, <1>2

-----------------------------------------------------------------------------
(***************************************************************************)
(* Lemmas on one step of one thread.                                       *)
(***************************************************************************)

(* While a thread is in a section, the others are in none. *)
LEMMA OthersWait ==
    ASSUME SerialFile, NEW t \in Threads, InSection(t)
    PROVE  \A u \in Threads \ {t} : ~InSection(u)
  BY DEF SerialFile, ThreadsInv

(* A section is open for a thread that is neither outside nor between two of them. *)
LEMMA OpenIsInSection ==
    ASSUME SerialFile, NEW t \in Threads
    PROVE  SectionOpen(t) <=> InSection(t)
<1>1. th[t].pc \in Pcs
  BY DEF SerialFile, ThreadsInv, ThreadRecs
<1>2. QED BY <1>1 DEF SectionOpen, InSection, Section, Saving, Pcs

LEMMA AloneWaits ==
    ASSUME Overlap = FALSE, SerialFile, NEW t \in Threads, Alone(t)
    PROVE  \A u \in Threads \ {t} : ~InSection(u)
  BY OpenIsInSection DEF Alone

LEMMA ThreadStep ==
    ASSUME SerialFile, NEW t \in Threads, \A u \in Threads \ {t} : ~InSection(u),
           NEW CONSTANT w \in ThreadRecs, th' = [th EXCEPT ![t] = w],
           app.up => app'.up, FileInv', ThreadOK(w)'
    PROVE  SerialFile'
<1>1. th' \in [Threads -> ThreadRecs]
  BY DEF SerialFile, ThreadsInv
<1>2. ASSUME NEW u \in Threads PROVE ThreadOK(th[u])'
  <2>1. CASE u = t
    <3>1. th'[u] = w
      BY <2>1 DEF SerialFile, ThreadsInv
    <3>2. QED BY <3>1 DEF ThreadOK
  <2>2. CASE u # t
    <3>1. th'[u] = th[u] /\ th[u].pc \notin Section
      BY <2>2 DEF SerialFile, ThreadsInv, InSection
    <3>2. th[u].fd = NoFile /\ ~th[u].fresh /\ (th[u].pc # "out" => app.up)
      BY <3>1 DEF SerialFile, ThreadsInv, ThreadOK, Section, Saving
    <3>3. QED BY <3>1, <3>2 DEF ThreadOK, Saving, Section
  <2>3. QED BY <2>1, <2>2
<1>3. \A u, v \in Threads : InSection(u)' /\ InSection(v)' => u = v
  <2>1. \A u \in Threads \ {t} : th'[u] = th[u]
    BY DEF SerialFile, ThreadsInv
  <2>2. \A u \in Threads \ {t} : ~InSection(u)'
    BY <2>1 DEF InSection
  <2>3. QED BY <2>2
<1>4. QED BY <1>1, <1>2, <1>3 DEF SerialFile, ThreadsInv

(* A step between two sections, whatever the other thread is doing in one. *)
LEMMA WaitStep ==
    ASSUME SerialFile, NEW t \in Threads, NEW CONSTANT w \in ThreadRecs,
           th' = [th EXCEPT ![t] = w],
           w.pc \notin Section, w.fd = NoFile, ~w.fresh, app.up,
           UNCHANGED <<fs, store, app, born>>, tried' \subseteq 1..MaxEvents
    PROVE  SerialFile'
<1>1. th' \in [Threads -> ThreadRecs]
  BY DEF SerialFile, ThreadsInv
<1>2. OnDisk' = OnDisk /\ Current' = Current
  BY DEF OnDisk, Current
<1>3. FileInv'
  BY <1>2 DEF SerialFile, FileInv
<1>4. ASSUME NEW u \in Threads PROVE ThreadOK(th[u])'
  <2>1. CASE u = t
    <3>1. th'[u] = w
      BY <2>1 DEF SerialFile, ThreadsInv
    <3>2. QED BY <3>1 DEF ThreadOK, Section, Saving
  <2>2. CASE u # t
    <3>1. th'[u] = th[u] /\ ThreadOK(th[u])
      BY <2>2 DEF SerialFile, ThreadsInv
    <3>2. QED BY <1>2, <3>1 DEF ThreadOK
  <2>3. QED BY <2>1, <2>2
<1>5. \A u, v \in Threads : InSection(u)' /\ InSection(v)' => u = v
  <2>1. \A u \in Threads : th'[u] = IF u = t THEN w ELSE th[u]
    BY DEF SerialFile, ThreadsInv
  <2>2. \A u \in Threads : InSection(u)' => InSection(u)
    BY <2>1 DEF InSection
  <2>3. QED BY <2>2 DEF SerialFile, ThreadsInv
<1>6. QED BY <1>1, <1>3, <1>4, <1>5 DEF SerialFile, ThreadsInv

(* Nothing on disk moves: what FileInv says stays, up to the store. *)
LEMMA QuietStep ==
    ASSUME FileInv, fs' = fs, app' \in Apps, app'.release = app.release,
           born' \in 0..MaxEvents, born <= born', tried' \subseteq 1..MaxEvents,
           store' \in Releases \cup {0}, Current => store' \in {0, app.release}
    PROVE  FileInv' /\ OnDisk' = OnDisk /\ (Current <=> Current')
<1>1. OnDisk' = OnDisk /\ Current' = Current
  BY DEF OnDisk, Current
<1>2. OnDisk \in States => Len(OnDisk.queue) \in Nat
  BY StateShape, ListedEvents
<1>3. QED BY <1>1, <1>2, BoundAssumption DEF FileInv

(* A thread that leaves its section, and one that never was in one. *)
LEMMA OutIsOK == Out \in ThreadRecs /\ Out.pc = "out" /\ Out.fd = NoFile /\ ~Out.fresh
  BY NoEvents DEF Out, ThreadRecs, Pcs, Jobs

LEMMA LeaveSection ==
    ASSUME SerialFile, NEW t \in Threads, InSection(t),
           th' = [th EXCEPT ![t] = Out], app.up => app'.up, FileInv'
    PROVE  SerialFile'
<1>1. ThreadOK(Out)'
  BY OutIsOK DEF ThreadOK, Saving, Section
<1>2. PICK w : w = Out
  OBVIOUS
<1>3. QED BY <1>1, <1>2, OutIsOK, OthersWait, ThreadStep

(***************************************************************************)
(* A section opens with the state of this release that is on disk, or with *)
(* a fresh one of the same client.                                         *)
(***************************************************************************)
LEMMA EnterIsOK ==
    ASSUME SerialFile, NEW t \in Threads, \A u \in Threads \ {t} : ~InSection(u),
           NEW job \in Jobs, Enter(t, job),
           fs' = fs, store' = store, born' = born, tried' = tried,
           app' \in Apps, app'.release = app.release, app'.up
    PROVE  SerialFile'
<1>1. FileInv' /\ OnDisk' = OnDisk /\ (Current <=> Current')
  BY QuietStep, BoundAssumption DEF SerialFile, FileInv
<1>2. OnDisk \in States \cup {Missing} /\ app \in Apps /\ app.release \in Releases
  BY DEF SerialFile, FileInv, Apps
<1>3. Current <=> OnDisk.kind = "state" /\ OnDisk.release = app.release
  BY <1>2, StateShape, NotStates DEF Current
<1>4. CASE Current
  <2>1. PICK w : w = [Out EXCEPT !.pc = "body", !.job = job, !.mine = OnDisk]
    OBVIOUS
  <2>2. th' = [th EXCEPT ![t] = w]
    BY <2>1, <1>3, <1>4 DEF Enter
  <2>3. OnDisk \in States
    BY <1>4 DEF Current
  <2>4. /\ w \in ThreadRecs /\ w.pc = "body" /\ w.job = job /\ w.mine = OnDisk
        /\ w.fd = NoFile /\ ~w.fresh
    BY <2>1, <2>3, NoEvents DEF ThreadRecs, Out, Pcs, Jobs
  <2>5. /\ OnDisk.release = app.release /\ Len(OnDisk.queue) <= born
        /\ store \in {0, app.release}
    BY <1>4, <2>3 DEF Current, SerialFile, FileInv
  <2>6. ThreadOK(w)'
    BY <1>1, <2>3, <2>4, <2>5 DEF ThreadOK, Saving, Section
  <2>7. QED BY <1>1, <2>2, <2>4, <2>6, ThreadStep
<1>5. CASE ~Current
  <2>1. PICK c \in FreshClients :
           th' = [th EXCEPT ![t] = [Out EXCEPT !.pc = "wipe", !.job = job, !.fresh = TRUE,
                                               !.mine = State(c, app.release, <<>>)]]
    BY <1>3, <1>5 DEF Enter
  <2>2. c \in Clients /\ (OnDisk \in States => c = OnDisk.client)
    BY <1>2, StateShape, NotStates DEF FreshClients
  <2>3. PICK s : s = State(c, app.release, <<>>)
    OBVIOUS
  <2>4. s \in States /\ s.client = c /\ s.release = app.release /\ s.queue = <<>>
    BY <1>2, <2>2, <2>3, StateShape, NoEvents
  <2>5. PICK w : w = [Out EXCEPT !.pc = "wipe", !.job = job, !.fresh = TRUE, !.mine = s]
    OBVIOUS
  <2>6. th' = [th EXCEPT ![t] = w]
    BY <2>1, <2>3, <2>5
  <2>7. /\ w \in ThreadRecs /\ w.pc = "wipe" /\ w.mine = s /\ w.fd = NoFile /\ w.fresh
    BY <2>4, <2>5, NoEvents DEF ThreadRecs, Out, Pcs, Jobs
  <2>8. Len(s.queue) <= born
    BY <2>4, NoEvents, BoundAssumption DEF SerialFile, FileInv
  <2>9. ThreadOK(w)'
    BY <1>1, <1>5, <2>2, <2>4, <2>7, <2>8 DEF ThreadOK, Saving, Section
  <2>10. QED BY <1>1, <2>6, <2>7, <2>9, ThreadStep
<1>6. QED BY <1>4, <1>5

-----------------------------------------------------------------------------
(***************************************************************************)
(* Lemmas, one per action: saving a state.                                 *)
(***************************************************************************)

LEMMA WipeStep == ASSUME SerialFile, NEW t \in Threads, Wipe(t) PROVE SerialFile'
<1>1. app' \in Apps /\ app'.release = app.release /\ app'.up = app.up
  BY DEF Wipe, SerialFile, FileInv, Apps
<1>2. FileInv' /\ OnDisk' = OnDisk /\ (Current <=> Current')
  BY <1>1, QuietStep, BoundAssumption DEF Wipe, SerialFile, FileInv
<1>3. PICK w : w = [th[t] EXCEPT !.pc = "open"]
  OBVIOUS
<1>4. th' = [th EXCEPT ![t] = w]
  BY <1>3 DEF Wipe, SerialFile, ThreadsInv
<1>5. th[t] \in ThreadRecs /\ ThreadOK(th[t]) /\ th[t].pc = "wipe" /\ InSection(t)
  BY DEF Wipe, SerialFile, ThreadsInv, InSection, Section
<1>6. /\ w \in ThreadRecs /\ w.pc = "open" /\ w.fresh = th[t].fresh /\ w.mine = th[t].mine
      /\ w.fd = th[t].fd /\ w.job = th[t].job
  BY <1>3, <1>5 DEF ThreadRecs, Pcs
<1>7. ThreadOK(w)'
  BY <1>1, <1>2, <1>5, <1>6 DEF Wipe, ThreadOK, Saving, Section
<1>8. QED BY <1>1, <1>2, <1>4, <1>5, <1>6, <1>7, OthersWait, ThreadStep

(* A step on the sibling only: readers see what they saw. *)
LEMMA SiblingStep ==
    ASSUME FileInv, fs' \in Dirs, fs'.tmp # NoFile => fs'.tmp # fs'.path,
           fs'.path = fs.path, fs.path # NoFile => fs'.content[fs.path] = fs.content[fs.path],
           UNCHANGED <<store, app, born, tried>>
    PROVE  FileInv' /\ OnDisk' = OnDisk /\ (Current <=> Current')
<1>1. OnDisk' = OnDisk
  BY DEF OnDisk, ReadFile
<1>2. Current' = Current
  BY <1>1 DEF Current
<1>3. QED BY <1>1, <1>2 DEF FileInv, Dirs

LEMMA OpenStep ==
    ASSUME SerialFile, NEW t \in Threads, OpenState(t)
    PROVE  SerialFile' /\ OnDisk' = OnDisk
<1>1. /\ th[t] \in ThreadRecs /\ ThreadOK(th[t]) /\ th[t].pc = "open"
      /\ \A u \in Threads \ {t} : ~InSection(u)
  BY OthersWait DEF OpenState, SerialFile, ThreadsInv, InSection, Section, Saving
<1>2. Fds = {}
  <2>1. ASSUME NEW u \in Threads PROVE th[u].fd = NoFile
    <3>1. th[u].pc # "write"
      BY <1>1 DEF InSection, Section, Saving
    <3>2. QED BY <3>1 DEF SerialFile, ThreadsInv, ThreadOK
  <2>2. QED BY <2>1 DEF Fds
<1>3. PICK i : i = TempFile(fs, Fds)
  OBVIOUS
<1>4. i \in Inodes /\ i # fs.path /\ i # NoFile
  BY <1>2, <1>3, FreshTempFile, InodesAssumption DEF SerialFile
<1>5. fs \in Dirs
  BY DEF SerialFile, FileInv, Dirs
<1>6. fs' = [fs EXCEPT !.tmp = i, !.content[i] = Empty]
  BY <1>3 DEF OpenState, OpenTemp
<1>7. /\ fs' \in Dirs /\ fs'.path = fs.path /\ fs'.tmp = i /\ fs'.content[i] = Empty
      /\ fs.path # NoFile => fs'.content[fs.path] = fs.content[fs.path]
  BY <1>4, <1>5, <1>6 DEF Dirs
<1>8. FileInv' /\ OnDisk' = OnDisk /\ (Current <=> Current')
  BY <1>4, <1>7, SiblingStep DEF OpenState, SerialFile
<1>9. PICK w : w = [th[t] EXCEPT !.pc = "write", !.fd = i]
  OBVIOUS
<1>10. th' = [th EXCEPT ![t] = w]
  BY <1>3, <1>9 DEF OpenState, SerialFile, ThreadsInv
<1>11. /\ w \in ThreadRecs /\ w.pc = "write" /\ w.fresh = th[t].fresh /\ w.mine = th[t].mine
       /\ w.fd = i /\ w.job = th[t].job
  BY <1>1, <1>4, <1>9 DEF ThreadRecs, Pcs
<1>12. ThreadOK(w)'
  BY <1>1, <1>4, <1>7, <1>8, <1>11 DEF OpenState, ThreadOK, Saving, Section
<1>13. SerialFile'
  BY <1>1, <1>8, <1>10, <1>11, <1>12, ThreadStep DEF OpenState
<1>14. QED BY <1>8, <1>13

LEMMA WriteStep ==
    ASSUME SerialFile, NEW t \in Threads, WriteText(t)
    PROVE  SerialFile' /\ OnDisk' = OnDisk
<1>1. /\ th[t] \in ThreadRecs /\ ThreadOK(th[t]) /\ th[t].pc = "write"
      /\ \A u \in Threads \ {t} : ~InSection(u)
  BY OthersWait DEF WriteText, SerialFile, ThreadsInv, InSection, Section, Saving
<1>2. PICK i : i = th[t].fd
  OBVIOUS
<1>3. PICK s : s = th[t].mine
  OBVIOUS
<1>4. i \in Inodes /\ i = fs.tmp /\ i # NoFile /\ i # fs.path /\ fs.content[i] = Empty
  BY <1>1, <1>2 DEF SerialFile, FileInv, Dirs, ThreadOK
<1>5. fs \in Dirs /\ s \in States
  BY <1>1, <1>3 DEF SerialFile, FileInv, Dirs, ThreadOK, Saving, Section
<1>6. fs' = [fs EXCEPT !.content[i] = s]
  <2>1. PICK b : b = Covers(s, fs.content[i])
    OBVIOUS
  <2>2. fs' = WriteTo(fs, i, s, b)
    BY <1>2, <1>3, <2>1 DEF WriteText
  <2>3. QED BY <1>4, <1>5, <2>2 DEF WriteTo, Dirs
<1>7. /\ fs' \in Dirs /\ fs'.path = fs.path /\ fs'.tmp = i /\ fs'.content[i] = s
      /\ fs.path # NoFile => fs'.content[fs.path] = fs.content[fs.path]
  BY <1>4, <1>5, <1>6 DEF Dirs
<1>8. FileInv' /\ OnDisk' = OnDisk /\ (Current <=> Current')
  BY <1>4, <1>7, SiblingStep DEF WriteText, SerialFile
<1>9. PICK w : w = [th[t] EXCEPT !.pc = "publish", !.fd = NoFile]
  OBVIOUS
<1>10. th' = [th EXCEPT ![t] = w]
  BY <1>9 DEF WriteText, SerialFile, ThreadsInv
<1>11. /\ w \in ThreadRecs /\ w.pc = "publish" /\ w.fresh = th[t].fresh /\ w.mine = s
       /\ w.fd = NoFile /\ w.job = th[t].job
  BY <1>1, <1>3, <1>9 DEF ThreadRecs, Pcs
<1>12. ThreadOK(w)'
  BY <1>1, <1>3, <1>4, <1>7, <1>8, <1>11 DEF WriteText, ThreadOK, Saving, Section
<1>13. SerialFile'
  BY <1>1, <1>8, <1>10, <1>11, <1>12, ThreadStep DEF WriteText
<1>14. QED BY <1>8, <1>13

(* What the section goes on with once the save is over, whether it failed or not. *)
LEMMA AfterSaveIs ==
    ASSUME SerialFile, NEW t \in Threads, th[t].pc \in Saving
    PROVE  LET w == AfterSave(t)
           IN  /\ w \in ThreadRecs /\ w.fd = NoFile /\ ~w.fresh
               /\ \/ w.pc = "out"
                  \/ w.pc = "cleared"
                  \/ th[t].fresh /\ w.pc = "body" /\ w.mine = th[t].mine /\ w.job = th[t].job
<1>1. th[t] \in ThreadRecs
  BY DEF SerialFile, ThreadsInv
<1>2. CASE th[t].fresh
  BY <1>1, <1>2 DEF AfterSave, ThreadRecs, Pcs
<1>3. CASE ~th[t].fresh /\ th[t].job = "clear"
  BY <1>3, OutIsOK DEF AfterSave, Out, ThreadRecs, Pcs
<1>4. CASE ~th[t].fresh /\ th[t].job # "clear"
  BY <1>4, OutIsOK DEF AfterSave
<1>5. QED BY <1>2, <1>3, <1>4

LEMMA PublishStep ==
    ASSUME SerialFile, NEW t \in Threads, PublishText(t)
    PROVE  SerialFile' /\ OnDisk' = th[t].mine
<1>1. /\ th[t] \in ThreadRecs /\ ThreadOK(th[t]) /\ th[t].pc = "publish"
      /\ \A u \in Threads \ {t} : ~InSection(u)
  BY OthersWait DEF PublishText, SerialFile, ThreadsInv, InSection, Section, Saving
<1>2. PICK s : s = th[t].mine
  OBVIOUS
<1>3. fs \in Dirs /\ fs.tmp # NoFile /\ fs.content[fs.tmp] = s
  BY <1>1, <1>2 DEF SerialFile, FileInv, Dirs, ThreadOK
<1>4. fs' = [fs EXCEPT !.path = fs.tmp, !.tmp = NoFile]
  BY DEF PublishText, PublishTemp
<1>5. fs' \in Dirs /\ fs'.path = fs.tmp /\ fs'.tmp = NoFile /\ fs'.content = fs.content
  BY <1>3, <1>4 DEF Dirs
<1>6. OnDisk' = s
  BY <1>3, <1>5 DEF OnDisk, ReadFile
<1>7. /\ s \in States /\ s.release = app.release /\ Len(s.queue) <= born
      /\ store \in {0, app.release} /\ app.up
      /\ th[t].fresh => s.queue = <<>>
  BY <1>1, <1>2 DEF ThreadOK, Saving, Section
<1>8. FileInv'
  <2>1. app.release \in Nat
    BY ReleasesAreNumbers DEF SerialFile, FileInv, Apps
  <2>2. QED BY <1>5, <1>6, <1>7, <2>1 DEF PublishText, SerialFile, FileInv, Dirs
<1>9. PICK w : w = AfterSave(t)
  OBVIOUS
<1>10. /\ w \in ThreadRecs /\ w.fd = NoFile /\ ~w.fresh
       /\ \/ w.pc = "out"
          \/ w.pc = "cleared"
          \/ th[t].fresh /\ w.pc = "body" /\ w.mine = s /\ w.job = th[t].job
  BY <1>1, <1>2, <1>9, AfterSaveIs DEF Saving
<1>11. ThreadOK(w)'
  BY <1>6, <1>7, <1>10 DEF PublishText, ThreadOK, Saving, Section
<1>12. th' = [th EXCEPT ![t] = w]
  BY <1>9 DEF PublishText
<1>13. SerialFile'
  BY <1>1, <1>7, <1>8, <1>10, <1>11, <1>12, ThreadStep DEF PublishText
<1>14. QED BY <1>2, <1>6, <1>13

LEMMA FailStep ==
    ASSUME SerialFile, NEW t \in Threads, SaveFails(t)
    PROVE  SerialFile' /\ OnDisk' = OnDisk
<1>1. /\ th[t] \in ThreadRecs /\ ThreadOK(th[t]) /\ th[t].pc \in Saving
      /\ \A u \in Threads \ {t} : ~InSection(u)
  BY OthersWait DEF SaveFails, SerialFile, ThreadsInv, InSection, Section, Saving
<1>2. fs \in Dirs
  BY DEF SerialFile, FileInv, Dirs
<1>3. /\ fs' \in Dirs /\ fs'.path = fs.path /\ fs'.tmp \in {fs.tmp, NoFile}
      /\ fs'.content = fs.content
  BY <1>2 DEF SaveFails, RemoveTemp, Dirs
<1>4. FileInv' /\ OnDisk' = OnDisk /\ (Current <=> Current')
  <2>1. fs.tmp # NoFile => fs.tmp # fs.path
    BY DEF SerialFile, FileInv
  <2>2. QED BY <1>3, <2>1, SiblingStep DEF SaveFails, SerialFile
<1>5. PICK w : w = AfterSave(t)
  OBVIOUS
<1>6. /\ w \in ThreadRecs /\ w.fd = NoFile /\ ~w.fresh
      /\ \/ w.pc = "out"
         \/ w.pc = "cleared"
         \/ th[t].fresh /\ w.pc = "body" /\ w.mine = th[t].mine /\ w.job = th[t].job
  BY <1>1, <1>5, AfterSaveIs
<1>7. ThreadOK(w)'
  BY <1>1, <1>4, <1>6 DEF SaveFails, ThreadOK, Saving, Section
<1>8. th' = [th EXCEPT ![t] = w]
  BY <1>5 DEF SaveFails
<1>9. SerialFile'
  BY <1>1, <1>4, <1>6, <1>7, <1>8, ThreadStep DEF SaveFails
<1>10. QED BY <1>4, <1>9

-----------------------------------------------------------------------------
(***************************************************************************)
(* Lemmas, one per action: the engine's thread.  Without overlap a section *)
(* begins only when no other is open.                                      *)
(***************************************************************************)

(* Steps that leave the disk, the marker's release and the counts alone. *)
LEMMA StillStep ==
    ASSUME FileInv, UNCHANGED <<fs, store, app, born, tried>>
    PROVE  FileInv' /\ OnDisk' = OnDisk /\ (Current <=> Current')
  BY QuietStep, BoundAssumption DEF FileInv

LEMMA StartStep == ASSUME SerialFile, StartProcess PROVE SerialFile'
<1>1. \A u \in Threads : ~InSection(u)
  BY DEF StartProcess, SerialFile, ThreadsInv, ThreadOK, InSection, Section, Saving
<1>2. app' \in Apps /\ app'.release = app.release /\ app'.up
  BY DEF StartProcess, SerialFile, FileInv, Apps
<1>3. "engine" \in Threads /\ "init" \in Jobs
  BY DEF Threads, Jobs
<1>4. QED BY <1>1, <1>2, <1>3, EnterIsOK DEF StartProcess

LEMMA ReportStep ==
    ASSUME Overlap = FALSE, SerialFile, NEW job \in {"launch", "success", "failure"},
           ReportLaunch(job)
    PROVE  SerialFile'
<1>1. \A u \in Threads \ {"engine"} : ~InSection(u)
  BY AloneWaits DEF ReportLaunch, Threads
<1>2. app' \in Apps /\ app'.release = app.release /\ app'.up
  BY DEF ReportLaunch, InitOver, SerialFile, FileInv, Apps
<1>3. "engine" \in Threads /\ job \in Jobs /\ job # "clear"
  BY DEF Threads, Jobs
<1>4. QED BY <1>1, <1>2, <1>3, EnterIsOK DEF ReportLaunch

LEMMA MarkStep == ASSUME SerialFile, MarkLaunch PROVE SerialFile'
<1>1. app' \in Apps /\ app'.release = app.release /\ app'.up = app.up
  <2>1. PICK m \in BOOLEAN : app' = [app EXCEPT !.marker = m]
    BY DEF MarkLaunch, InEngine
  <2>2. QED BY <2>1 DEF SerialFile, FileInv, Apps
<1>2. FileInv'
  BY <1>1, QuietStep, BoundAssumption DEF MarkLaunch, SerialFile, FileInv
<1>3. "engine" \in Threads /\ InSection("engine") /\ th' = [th EXCEPT !["engine"] = Out]
  BY DEF MarkLaunch, InEngine, Threads, InSection, Section
<1>4. QED BY <1>1, <1>2, <1>3, LeaveSection

LEMMA QueueStep == ASSUME SerialFile, QueueEvent PROVE SerialFile'
<1>. DEFINE t == "engine"
<1>1. /\ t \in Threads /\ th[t] \in ThreadRecs /\ ThreadOK(th[t])
      /\ th[t].pc = "body" /\ th[t].job \in {"init", "failure"}
      /\ \A u \in Threads \ {t} : ~InSection(u)
  BY OthersWait DEF QueueEvent, InEngine, Threads, SerialFile, ThreadsInv, InSection, Section
<1>2. PICK s : s = th[t].mine
  OBVIOUS
<1>3. PICK q : q = Append(s.queue, born + 1)
  OBVIOUS
<1>4. /\ s \in States /\ s.release = app.release /\ Len(s.queue) <= born
      /\ OnDisk \in States => s.client = OnDisk.client
      /\ store \in {0, app.release} /\ ~th[t].fresh /\ th[t].fd = NoFile
      /\ Current => s = OnDisk
  BY <1>1, <1>2 DEF ThreadOK, Saving, Section
<1>5. born \in Nat /\ born + 1 \in 1..MaxEvents /\ born < MaxEvents
  BY BoundAssumption DEF QueueEvent, SerialFile, FileInv
<1>6. s.queue \in Queues /\ Len(s.queue) \in Nat
  BY <1>4, StateShape, ListedEvents
<1>7. /\ q \in Queues /\ Len(q) = Len(s.queue) + 1
      /\ ToSet(s.queue) \subseteq ToSet(q)
  BY <1>3, <1>4, <1>5, <1>6, OneEventMore, BoundAssumption
<1>8. PICK n : n = [s EXCEPT !.queue = q]
  OBVIOUS
<1>9. n \in States /\ n.release = s.release /\ n.client = s.client /\ n.queue = q
  <2>1. n = State(s.client, s.release, q)
    BY <1>4, <1>8, StateShape DEF State
  <2>2. QED BY <1>4, <1>7, <2>1, StateShape
<1>10. PICK w : w = [th[t] EXCEPT !.pc = "open", !.mine = n]
  OBVIOUS
<1>11. th' = [th EXCEPT ![t] = w]
  BY <1>1, <1>2, <1>3, <1>8, <1>10 DEF QueueEvent, SerialFile, ThreadsInv, ThreadRecs
<1>12. /\ w \in ThreadRecs /\ w.pc = "open" /\ w.job = th[t].job /\ ~w.fresh
       /\ w.fd = NoFile /\ w.mine = n
  BY <1>1, <1>4, <1>9, <1>10 DEF ThreadRecs, Pcs
<1>13. app' \in Apps /\ app'.release = app.release /\ app'.up = app.up
  BY DEF QueueEvent, SerialFile, FileInv, Apps
<1>14. FileInv' /\ OnDisk' = OnDisk /\ (Current <=> Current')
  BY <1>5, <1>13, QuietStep, BoundAssumption DEF QueueEvent, SerialFile, FileInv
<1>15. ThreadOK(w)'
  <2>1. Len(n.queue) <= born'
    BY <1>4, <1>5, <1>6, <1>7, <1>9 DEF QueueEvent
  <2>2. store' = store /\ app.up
    BY <1>1 DEF QueueEvent, ThreadOK
  <2>3. QED
    BY <1>4, <1>9, <1>12, <1>13, <1>14, <2>1, <2>2 DEF ThreadOK, Saving, Section
<1>16. QED BY <1>1, <1>11, <1>12, <1>13, <1>14, <1>15, ThreadStep

LEMMA NothingStep == ASSUME SerialFile, NothingFailed PROVE SerialFile'
<1>1. FileInv'
  BY StillStep DEF NothingFailed, SerialFile
<1>2. "engine" \in Threads /\ InSection("engine") /\ th' = [th EXCEPT !["engine"] = Out]
  BY DEF NothingFailed, InEngine, Threads, InSection, Section
<1>3. QED BY <1>1, <1>2, LeaveSection DEF NothingFailed

-----------------------------------------------------------------------------
(***************************************************************************)
(* Lemmas, one per action: update().                                       *)
(***************************************************************************)

LEMMA BeginStep == ASSUME Overlap = FALSE, SerialFile, BeginUpdate PROVE SerialFile'
<1>1. \A u \in Threads \ {"update"} : ~InSection(u)
  BY AloneWaits DEF BeginUpdate, Threads
<1>2. app' \in Apps /\ app'.release = app.release /\ app'.up
  BY DEF BeginUpdate, InitOver, SerialFile, FileInv
<1>3. "update" \in Threads /\ "copy" \in Jobs
  BY DEF Threads, Jobs
<1>4. QED BY <1>1, <1>2, <1>3, EnterIsOK DEF BeginUpdate

(* An update() that is running, in a section or between two of them. *)
LEMMA Updating ==
    ASSUME SerialFile, th["update"].pc # "out"
    PROVE  /\ "update" \in Threads /\ th["update"] \in ThreadRecs /\ ThreadOK(th["update"])
           /\ app \in Apps /\ app.up
<1>1. "update" \in Threads
  BY DEF Threads
<1>2. QED BY <1>1 DEF SerialFile, FileInv, ThreadsInv, ThreadOK

LEMMA CopyStep == ASSUME SerialFile, CopyEvents PROVE SerialFile'
<1>. DEFINE t == "update"
<1>1. /\ t \in Threads /\ th[t] \in ThreadRecs /\ ThreadOK(th[t]) /\ th[t].pc = "body" /\ app.up
  BY Updating DEF CopyEvents
<1>2. PICK s : s = th[t].mine
  OBVIOUS
<1>3. s \in States /\ s.queue \in Queues
  BY <1>1, <1>2, StateShape DEF ThreadOK, Section
<1>4. PICK r : r = FirstEvents(s.queue)
  OBVIOUS
<1>5. r \in Queues
  BY <1>3, <1>4, CopiedEvents
<1>6. PICK w : w = [Out EXCEPT !.pc = "sending", !.batch = r]
  OBVIOUS
<1>7. th' = [th EXCEPT ![t] = w]
  BY <1>2, <1>4, <1>6 DEF CopyEvents
<1>8. w \in ThreadRecs /\ w.pc = "sending" /\ w.fd = NoFile /\ ~w.fresh
  BY <1>5, <1>6, OutIsOK DEF Out, ThreadRecs, Pcs
<1>9. tried' \subseteq 1..MaxEvents /\ UNCHANGED <<fs, store, app, born>>
  BY DEF CopyEvents, SerialFile, FileInv
<1>10. QED BY <1>1, <1>7, <1>8, <1>9, WaitStep DEF Section, Saving

LEMMA SendStep == ASSUME SerialFile, SendEvent PROVE SerialFile'
<1>. DEFINE t == "update"
<1>1. t \in Threads /\ th[t] \in ThreadRecs /\ ThreadOK(th[t]) /\ th[t].pc = "sending" /\ app.up
  BY Updating DEF SendEvent
<1>2. PICK b : b = th[t].batch
  OBVIOUS
<1>3. PICK r : r = Tail(b)
  OBVIOUS
<1>4. b \in Queues /\ b # <<>>
  BY <1>1, <1>2 DEF SendEvent, ThreadRecs
<1>5. Head(b) \in 1..MaxEvents /\ r \in Queues
  BY <1>3, <1>4, FirstOfBatch
<1>6. PICK w : w = [th[t] EXCEPT !.batch = r]
  OBVIOUS
<1>7. th' = [th EXCEPT ![t] = w]
  BY <1>1, <1>2, <1>3, <1>6 DEF SendEvent, SerialFile, ThreadsInv, ThreadRecs
<1>8. w \in ThreadRecs /\ w.pc = "sending" /\ w.fd = NoFile /\ ~w.fresh
  BY <1>1, <1>5, <1>6 DEF ThreadRecs, ThreadOK, Saving
<1>9. tried' \subseteq 1..MaxEvents /\ UNCHANGED <<fs, store, app, born>>
  BY <1>2, <1>5 DEF SendEvent, SerialFile, FileInv
<1>10. QED BY <1>1, <1>7, <1>8, <1>9, WaitStep DEF Section, Saving

LEMMA EnterClearStep == ASSUME Overlap = FALSE, SerialFile, EnterClear PROVE SerialFile'
<1>1. "update" \in Threads /\ app \in Apps /\ app.up
  BY Updating DEF EnterClear
<1>2. \A u \in Threads \ {"update"} : ~InSection(u)
  BY <1>1, AloneWaits DEF EnterClear
<1>3. "clear" \in Jobs
  BY DEF Jobs
<1>4. QED BY <1>1, <1>2, <1>3, EnterIsOK DEF EnterClear

LEMMA ClearStep == ASSUME SerialFile, ClearEvents PROVE SerialFile'
<1>. DEFINE t == "update"
<1>1. /\ t \in Threads /\ th[t] \in ThreadRecs /\ ThreadOK(th[t])
      /\ th[t].pc = "body" /\ th[t].job = "clear" /\ app.up
  BY Updating DEF ClearEvents
<1>2. \A u \in Threads \ {t} : ~InSection(u)
  BY <1>1, OthersWait DEF InSection, Section
<1>3. PICK s : s = th[t].mine
  OBVIOUS
<1>4. /\ s \in States /\ s.release = app.release
      /\ OnDisk \in States => s.client = OnDisk.client
      /\ store \in {0, app.release} /\ ~th[t].fresh /\ th[t].fd = NoFile
  BY <1>1, <1>3 DEF ThreadOK, Saving, Section
<1>5. PICK n : n = [s EXCEPT !.queue = <<>>]
  OBVIOUS
<1>6. n \in States /\ n.release = s.release /\ n.client = s.client /\ n.queue = <<>>
  <2>1. n = State(s.client, s.release, <<>>)
    BY <1>4, <1>5, StateShape DEF State
  <2>2. QED BY <1>4, <2>1, StateShape, NoEvents
<1>7. PICK w : w = [th[t] EXCEPT !.pc = "open", !.mine = n]
  OBVIOUS
<1>8. th' = [th EXCEPT ![t] = w]
  BY <1>1, <1>3, <1>5, <1>7 DEF ClearEvents, SerialFile, ThreadsInv, ThreadRecs
<1>9. /\ w \in ThreadRecs /\ w.pc = "open" /\ w.job = "clear" /\ ~w.fresh
      /\ w.fd = NoFile /\ w.mine = n
  BY <1>1, <1>4, <1>6, <1>7 DEF ThreadRecs, Pcs
<1>10. FileInv' /\ OnDisk' = OnDisk /\ (Current <=> Current')
  BY StillStep DEF ClearEvents, SerialFile
<1>11. Len(n.queue) <= born
  BY <1>6, NoEvents, BoundAssumption DEF SerialFile, FileInv
<1>12. ThreadOK(w)'
  BY <1>1, <1>4, <1>6, <1>9, <1>10, <1>11 DEF ClearEvents, ThreadOK, Saving, Section
<1>13. QED BY <1>1, <1>2, <1>8, <1>9, <1>10, <1>12, ThreadStep DEF ClearEvents

LEMMA EnterWorkStep == ASSUME Overlap = FALSE, SerialFile, EnterWork PROVE SerialFile'
<1>1. "update" \in Threads /\ app \in Apps /\ app.up
  BY Updating DEF EnterWork
<1>2. \A u \in Threads \ {"update"} : ~InSection(u)
  BY <1>1, AloneWaits DEF EnterWork
<1>3. "work" \in Jobs
  BY DEF Jobs
<1>4. QED BY <1>1, <1>2, <1>3, EnterIsOK DEF EnterWork

LEMMA WorkStep == ASSUME SerialFile, Work PROVE SerialFile'
<1>1. app \in Apps /\ app.release \in Releases
  BY DEF SerialFile, FileInv, Apps
<1>2. FileInv'
  BY <1>1, QuietStep, BoundAssumption DEF Work, SerialFile, FileInv
<1>3. "update" \in Threads /\ InSection("update") /\ th' = [th EXCEPT !["update"] = Out]
  BY DEF Work, Threads, InSection, Section
<1>4. QED BY <1>2, <1>3, LeaveSection DEF Work

LEMMA EndStep == ASSUME SerialFile, EndUpdate PROVE SerialFile'
<1>1. "update" \in Threads /\ app.up
  BY Updating DEF EndUpdate
<1>2. PICK w : w = Out
  OBVIOUS
<1>3. /\ w \in ThreadRecs /\ w.pc \notin Section /\ w.fd = NoFile /\ ~w.fresh
      /\ th' = [th EXCEPT !["update"] = w]
  BY <1>2, OutIsOK DEF EndUpdate, Section, Saving
<1>4. tried' \subseteq 1..MaxEvents /\ UNCHANGED <<fs, store, app, born>>
  BY DEF EndUpdate, SerialFile, FileInv
<1>5. QED BY <1>1, <1>3, <1>4, WaitStep

-----------------------------------------------------------------------------
(***************************************************************************)
(* Lemmas on the rest of the steps.                                        *)
(***************************************************************************)

(* With every thread outside, only the disk counts. *)
LEMMA AllOut ==
    ASSUME FileInv', th' \in [Threads -> ThreadRecs],
           \A t \in Threads : th'[t].pc = "out" /\ th'[t].fd = NoFile /\ ~th'[t].fresh
    PROVE  SerialFile'
<1>1. (\A t \in Threads : ThreadOK(th[t]))'
  BY DEF ThreadOK, Saving, Section
<1>2. QED BY <1>1 DEF SerialFile, ThreadsInv, InSection, Section, Saving

LEMMA KillStep == ASSUME SerialFile, Kill PROVE SerialFile'
<1>1. app' \in Apps /\ app'.release = app.release
  BY DEF Kill, SerialFile, FileInv, Apps
<1>2. FileInv'
  BY <1>1, QuietStep, BoundAssumption DEF Kill, SerialFile, FileInv
<1>3. th' \in [Threads -> ThreadRecs] /\ \A t \in Threads : th'[t] = Out
  BY OutIsOK DEF Kill
<1>4. QED BY <1>2, <1>3, OutIsOK, AllOut

(* A file of this release is of an older one from then on. *)
LEMMA InstallStep == ASSUME SerialFile, InstallRelease PROVE SerialFile'
<1>1. /\ app \in Apps /\ app.release \in Nat /\ app' \in Apps
      /\ app'.release = app.release + 1
  BY ReleasesAreNumbers DEF InstallRelease, SerialFile, FileInv, Apps
<1>2. OnDisk' = OnDisk
  BY DEF InstallRelease, OnDisk
<1>3. OnDisk \in States => /\ OnDisk.release \in Nat /\ OnDisk.release <= app.release
                           /\ Len(OnDisk.queue) <= born
  BY StateShape, ReleasesAreNumbers DEF SerialFile, FileInv
<1>4. ~Current'
  BY <1>1, <1>2, <1>3 DEF Current
<1>5. OnDisk \in States => OnDisk.release <= app'.release
  BY <1>1, <1>3
<1>6. FileInv'
  BY <1>1, <1>2, <1>3, <1>4, <1>5 DEF InstallRelease, SerialFile, FileInv
<1>7. /\ th' = th /\ th \in [Threads -> ThreadRecs]
      /\ \A t \in Threads : th[t].pc = "out" /\ th[t].fd = NoFile /\ ~th[t].fresh
  BY DEF InstallRelease, SerialFile, ThreadsInv, ThreadOK, Saving
<1>8. QED BY <1>6, <1>7, AllOut

-----------------------------------------------------------------------------
(***************************************************************************)
(* The invariant, and what follows from it.                                *)
(***************************************************************************)

LEMMA InitSerialFile == Init => SerialFile
<1> SUFFICES ASSUME Init PROVE SerialFile
  OBVIOUS
<1>1. fs \in Dirs /\ fs.path = NoFile /\ fs.tmp = NoFile
  BY DEF Init, EmptyDir, Dirs
<1>2. OnDisk = Missing
  BY <1>1 DEF OnDisk, ReadFile
<1>3. OnDisk \notin States
  BY <1>2, NotStates
<1>4. app \in Apps /\ app.up = FALSE
  BY ReleasesAssumption DEF Init, Apps
<1>5. FileInv
  BY <1>1, <1>2, <1>3, <1>4, BoundAssumption DEF Init, FileInv, Current
<1>6. th \in [Threads -> ThreadRecs] /\ \A t \in Threads : th[t] = Out
  BY OutIsOK DEF Init
<1>7. \A t \in Threads : ThreadOK(th[t])
  BY <1>6, OutIsOK DEF ThreadOK, Saving, Section
<1>8. QED BY <1>5, <1>6, <1>7, OutIsOK DEF SerialFile, ThreadsInv, InSection, Section, Saving

(* What readers see changes only when a save is published. *)
LEMMA SerialFileStep ==
    ASSUME Overlap = FALSE, SerialFile, [Next]_svars
    PROVE  /\ SerialFile'
           /\ OnDisk' = OnDisk \/ \E t \in Threads : PublishText(t)
<1>1. CASE UNCHANGED svars
  <2>1. SerialFile' = SerialFile
    BY <1>1 DEF svars, SerialFile, FileInv, ThreadsInv, ThreadOK, Current, OnDisk, InSection
  <2>2. QED BY <1>1, <2>1 DEF svars, OnDisk
<1>2. ASSUME NEW t \in Threads, Save(t)
      PROVE  SerialFile' /\ (OnDisk' = OnDisk \/ PublishText(t))
  <2>1. CASE Wipe(t)
    BY <2>1, WipeStep DEF Wipe, OnDisk
  <2>2. CASE OpenState(t)
    BY <2>2, OpenStep
  <2>3. CASE WriteText(t)
    BY <2>3, WriteStep
  <2>4. CASE PublishText(t)
    BY <2>4, PublishStep
  <2>5. CASE SaveFails(t)
    BY <2>5, FailStep
  <2>6. QED BY <1>2, <2>1, <2>2, <2>3, <2>4, <2>5 DEF Save
<1>3. CASE StartProcess
  BY <1>3, StartStep DEF StartProcess, OnDisk
<1>4. ASSUME NEW job \in {"launch", "success", "failure"}, ReportLaunch(job)
      PROVE  SerialFile' /\ OnDisk' = OnDisk
  BY <1>4, ReportStep DEF ReportLaunch, OnDisk
<1>5. CASE MarkLaunch
  BY <1>5, MarkStep DEF MarkLaunch, OnDisk
<1>6. CASE QueueEvent
  BY <1>6, QueueStep DEF QueueEvent, OnDisk
<1>7. CASE NothingFailed
  BY <1>7, NothingStep DEF NothingFailed, OnDisk
<1>8. CASE BeginUpdate
  BY <1>8, BeginStep DEF BeginUpdate, OnDisk
<1>9. CASE CopyEvents
  BY <1>9, CopyStep DEF CopyEvents, OnDisk
<1>10. CASE SendEvent
  BY <1>10, SendStep DEF SendEvent, OnDisk
<1>11. CASE EnterClear
  BY <1>11, EnterClearStep DEF EnterClear, OnDisk
<1>12. CASE ClearEvents
  BY <1>12, ClearStep DEF ClearEvents, OnDisk
<1>13. CASE EnterWork
  BY <1>13, EnterWorkStep DEF EnterWork, OnDisk
<1>14. CASE Work
  BY <1>14, WorkStep DEF Work, OnDisk
<1>15. CASE EndUpdate
  BY <1>15, EndStep DEF EndUpdate, OnDisk
<1>16. CASE Kill
  BY <1>16, KillStep DEF Kill, OnDisk
<1>17. CASE InstallRelease
  BY <1>17, InstallStep DEF InstallRelease, OnDisk
<1>18. QED
  BY <1>1, <1>2, <1>3, <1>4, <1>5, <1>6, <1>7, <1>8, <1>9, <1>10, <1>11, <1>12, <1>13,
     <1>14, <1>15, <1>16, <1>17 DEF Next

LEMMA SerialFileHolds == ASSUME Overlap = FALSE PROVE Spec => []SerialFile
<1>1. SerialFile /\ [Next]_svars => SerialFile'
  BY SerialFileStep
<1>2. QED BY <1>1, InitSerialFile, PTL DEF Spec

LEMMA SerialGivesProperties ==
    SerialFile => FileWhole /\ StoreMatchesRelease
<1> SUFFICES ASSUME SerialFile PROVE FileWhole /\ StoreMatchesRelease
  OBVIOUS
<1>1. FileWhole
  BY StateShape, NotStates DEF FileWhole, SerialFile, FileInv
<1>2. StoreMatchesRelease
  BY DEF StoreMatchesRelease, SerialFile, ThreadsInv, ThreadOK
<1>3. QED BY <1>1, <1>2

(***************************************************************************)
(* write_json is atomic: wherever a writer is killed or fails, state.json  *)
(* is missing or one complete version (cache/disk_io.cpp).                 *)
(***************************************************************************)
THEOREM StateFileIsWhole == ASSUME Overlap = FALSE PROVE Spec => []FileWhole
  BY SerialFileHolds, SerialGivesProperties, PTL

(***************************************************************************)
(* No section works on patches of another release, wherever the wipe and   *)
(* the save of a new release were cut (load_or_new_on_error).              *)
(***************************************************************************)
THEOREM PatchesAreOfThisRelease ==
    ASSUME Overlap = FALSE PROVE Spec => []StoreMatchesRelease
  BY SerialFileHolds, SerialGivesProperties, PTL

(***************************************************************************)
(* Once saved, the client's identity outlives kills, failed saves and new  *)
(* releases: every later version of the file bears it.                     *)
(***************************************************************************)
THEOREM ClientIsKept == ASSUME Overlap = FALSE PROVE Spec => ClientIdStable
<1>1. ASSUME SerialFile, [Next]_svars, OnDisk.kind = "state"
      PROVE  OnDisk'.kind = "state" /\ OnDisk'.client = OnDisk.client
  <2>1. OnDisk \in States
    BY <1>1, NotStates DEF SerialFile, FileInv
  <2>2. CASE OnDisk' = OnDisk
    BY <1>1, <2>2
  <2>3. ASSUME NEW t \in Threads, PublishText(t)
        PROVE  OnDisk'.kind = "state" /\ OnDisk'.client = OnDisk.client
    <3>1. OnDisk' = th[t].mine
      BY <1>1, <2>3, PublishStep
    <3>2. th[t].mine \in States /\ th[t].mine.client = OnDisk.client
      BY <1>1, <2>1, <2>3
         DEF PublishText, SerialFile, ThreadsInv, ThreadOK, Saving, Section
    <3>3. QED BY <3>1, <3>2, StateShape
  <2>4. QED BY <1>1, <2>2, <2>3, SerialFileStep
<1>2. QED BY <1>1, SerialFileHolds, PTL DEF Spec, ClientIdStable

-----------------------------------------------------------------------------
(***************************************************************************)
(* The events.  An update() that has copied the queue is bound to send the *)
(* events at its head, but for those that have come since, whose number is *)
(* past upto; and what a thread is about to save must not undo this.       *)
(***************************************************************************)

(* The events update() is bound to send are all in S. *)
Kept(S) == Current => \A i \in 1..Min({Len(OnDisk.queue), DrainLimit}) :
                         OnDisk.queue[i] \in S \/ OnDisk.queue[i] > upto

(* q is the queue on disk with later events behind it. *)
Extends(q) ==
    /\ Current => \A i \in 1..Len(OnDisk.queue) : i \in 1..Len(q) /\ q[i] = OnDisk.queue[i]
    /\ \A i \in 1..Len(q) : q[i] > upto \/ (Current /\ i \in 1..Len(OnDisk.queue))

EngineOK(w) ==
    /\ w.pc \in Section => w.job \in {"init", "launch", "success", "failure"}
    /\ w.pc \in Saving => Extends(w.mine.queue)

UpdateOK(w) ==
    /\ w.pc = "sending" => Kept(tried \cup ToSet(w.batch))
    /\ w.pc \in Section /\ w.job = "clear" => Kept(tried)
    /\ w.pc \in Saving => w.mine.queue = <<>> /\ (~w.fresh => w.job = "clear")

DrainOK(t, w) ==
    /\ t = "engine" => EngineOK(w)
    /\ t = "update" => UpdateOK(w)
    /\ w.pc = "body" /\ ~Current => w.mine.queue = <<>>

DrainInv ==
    /\ SerialFile
    /\ upto \in 0..born
    /\ \A t \in Threads : DrainOK(t, th[t])

(* Readers see what they saw, and no copy is taken. *)
LEMMA StillKept ==
    ASSUME OnDisk' = OnDisk, Current' = Current, upto' = upto, tried \subseteq tried'
    PROVE  /\ \A t, w : DrainOK(t, w) => DrainOK(t, w)'
           /\ Kept(tried) => Kept(tried)'
<1>1. ASSUME NEW S, NEW T, S \subseteq T, Kept(S) PROVE Kept(T)'
  BY <1>1 DEF Kept
<1>2. ASSUME NEW q, Extends(q) PROVE Extends(q)'
  BY <1>2 DEF Extends
<1>3. ASSUME NEW t, NEW w, DrainOK(t, w) PROVE DrainOK(t, w)'
  <2>1. EngineOK(w) => EngineOK(w)'
    BY <1>2 DEF EngineOK
  <2>2. UpdateOK(w) => UpdateOK(w)'
    <3> SUFFICES ASSUME UpdateOK(w) PROVE UpdateOK(w)'
      OBVIOUS
    <3>1. w.pc = "sending" => Kept(tried \cup ToSet(w.batch))'
      BY <1>1 DEF UpdateOK
    <3>2. w.pc \in Section /\ w.job = "clear" => Kept(tried)'
      BY <1>1 DEF UpdateOK
    <3>3. QED BY <3>1, <3>2 DEF UpdateOK
  <2>3. QED BY <1>3, <2>1, <2>2 DEF DrainOK
<1>4. QED BY <1>1, <1>3

LEMMA DrainStep ==
    ASSUME DrainInv, SerialFile', NEW t \in Threads, NEW w, th' = [th EXCEPT ![t] = w],
           OnDisk' = OnDisk, Current' = Current, upto' = upto, tried \subseteq tried',
           born' \in Nat, born <= born', DrainOK(t, w)'
    PROVE  DrainInv'
<1>1. upto' \in 0..born'
  BY BoundAssumption DEF DrainInv, SerialFile, FileInv
<1>2. ASSUME NEW u \in Threads PROVE DrainOK(u, th[u])'
  <2>1. CASE u = t
    <3>1. th'[u] = w
      BY <2>1 DEF DrainInv, SerialFile, ThreadsInv
    <3>2. QED BY <2>1, <3>1 DEF DrainOK, EngineOK, UpdateOK
  <2>2. CASE u # t
    <3>1. th'[u] = th[u] /\ DrainOK(u, th[u])
      BY <2>2 DEF DrainInv, SerialFile, ThreadsInv
    <3>2. PICK v : v = th[u]
      OBVIOUS
    <3>3. DrainOK(u, v)'
      BY <3>1, <3>2, StillKept
    <3>4. QED BY <3>1, <3>2, <3>3 DEF DrainOK, EngineOK, UpdateOK
  <2>3. QED BY <2>1, <2>2
<1>3. QED BY <1>1, <1>2 DEF DrainInv

(* A thread outside its sections with nothing to send is bound to nothing. *)
LEMMA NothingHeld ==
    ASSUME NEW t, NEW w, w.pc \in {"out", "cleared"}
    PROVE  DrainOK(t, w) /\ DrainOK(t, w)'
BY DEF DrainOK, EngineOK, UpdateOK, Section, Saving

(* What a thread has when it enters a section. *)
LEMMA EnterGives ==
    ASSUME SerialFile, NEW t \in Threads, NEW job \in Jobs, Enter(t, job)
    PROVE  \E w : /\ th' = [th EXCEPT ![t] = w] /\ w.job = job
                  /\ \/ w.pc = "wipe"
                     \/ w.pc = "body" /\ Current
<1>1. OnDisk \in States \cup {Missing} /\ app.release \in Releases
  BY DEF SerialFile, FileInv, Apps
<1>2. Current <=> OnDisk.kind = "state" /\ OnDisk.release = app.release
  BY <1>1, StateShape, NotStates DEF Current
<1>3. CASE Current
  <2>1. PICK w : w = [Out EXCEPT !.pc = "body", !.job = job, !.mine = OnDisk]
    OBVIOUS
  <2>2. th' = [th EXCEPT ![t] = w] /\ w.job = job /\ w.pc = "body"
    BY <1>2, <1>3, <2>1 DEF Enter, Out
  <2>3. QED BY <1>3, <2>2
<1>4. CASE ~Current
  <2>1. PICK c \in FreshClients :
           th' = [th EXCEPT ![t] = [Out EXCEPT !.pc = "wipe", !.job = job, !.fresh = TRUE,
                                               !.mine = State(c, app.release, <<>>)]]
    BY <1>2, <1>4 DEF Enter
  <2>2. PICK w : w = [Out EXCEPT !.pc = "wipe", !.job = job, !.fresh = TRUE,
                                 !.mine = State(c, app.release, <<>>)]
    OBVIOUS
  <2>3. th' = [th EXCEPT ![t] = w] /\ w.job = job /\ w.pc = "wipe"
    BY <2>1, <2>2 DEF Out
  <2>4. QED BY <2>3
<1>5. QED BY <1>3, <1>4

LEMMA EnterDrains ==
    ASSUME DrainInv, SerialFile', NEW t \in Threads, NEW job \in Jobs, Enter(t, job),
           t = "engine" => job \in {"init", "launch", "success", "failure"},
           t = "update" /\ job = "clear" => Kept(tried),
           UNCHANGED <<fs, born, tried, upto>>, app'.release = app.release
    PROVE  DrainInv'
<1>1. OnDisk' = OnDisk /\ Current' = Current
  BY DEF OnDisk, Current
<1>2. PICK w : /\ th' = [th EXCEPT ![t] = w] /\ w.job = job
               /\ \/ w.pc = "wipe"
                  \/ w.pc = "body" /\ Current
  BY EnterGives DEF DrainInv
<1>3. t = "update" /\ job = "clear" => Kept(tried)'
  BY <1>1, StillKept
<1>4. DrainOK(t, w)'
  BY <1>1, <1>2, <1>3 DEF DrainOK, EngineOK, UpdateOK, Saving
<1>5. born' \in Nat /\ born <= born'
  BY BoundAssumption DEF DrainInv, SerialFile, FileInv
<1>6. QED BY <1>1, <1>2, <1>4, <1>5, DrainStep

(* A step in which only the section itself changes. *)
LEMMA StillDrains ==
    ASSUME DrainInv, SerialFile', NEW t \in Threads, NEW w, th' = [th EXCEPT ![t] = w],
           OnDisk' = OnDisk, app'.release = app.release, UNCHANGED <<born, tried, upto>>,
           DrainOK(t, w)
    PROVE  DrainInv'
<1>1. Current' = Current
  BY DEF Current
<1>2. DrainOK(t, w)'
  BY <1>1, StillKept
<1>3. born' \in Nat /\ born <= born'
  BY BoundAssumption DEF DrainInv, SerialFile, FileInv
<1>4. QED BY <1>1, <1>2, <1>3, DrainStep

-----------------------------------------------------------------------------
(***************************************************************************)
(* Lemmas: the steps that matter to the events.                            *)
(***************************************************************************)

(* A save as far as it is not published. *)
LEMMA SaveDrains ==
    ASSUME DrainInv, SerialFile', NEW t \in Threads, OnDisk' = OnDisk,
           Wipe(t) \/ OpenState(t) \/ WriteText(t)
    PROVE  DrainInv'
<1>1. /\ th[t] \in ThreadRecs /\ ThreadOK(th[t]) /\ DrainOK(t, th[t])
      /\ th[t].pc \in {"wipe", "open", "write"}
  BY DEF DrainInv, SerialFile, ThreadsInv, Wipe, OpenState, WriteText
<1>2. PICK w : /\ th' = [th EXCEPT ![t] = w] /\ w.pc \in Saving /\ w.mine = th[t].mine
               /\ w.fresh = th[t].fresh /\ w.job = th[t].job
  <2>1. CASE Wipe(t)
    <3>1. PICK w : w = [th[t] EXCEPT !.pc = "open"]
      OBVIOUS
    <3>2. /\ th' = [th EXCEPT ![t] = w] /\ w.pc \in Saving /\ w.mine = th[t].mine
          /\ w.fresh = th[t].fresh /\ w.job = th[t].job
      BY <1>1, <2>1, <3>1 DEF Wipe, DrainInv, SerialFile, ThreadsInv, ThreadRecs, Saving
    <3>3. QED BY <3>2
  <2>2. CASE OpenState(t)
    <3>1. PICK w : w = [th[t] EXCEPT !.pc = "write", !.fd = TempFile(fs, Fds)]
      OBVIOUS
    <3>2. /\ th' = [th EXCEPT ![t] = w] /\ w.pc \in Saving /\ w.mine = th[t].mine
          /\ w.fresh = th[t].fresh /\ w.job = th[t].job
      BY <1>1, <2>2, <3>1 DEF OpenState, DrainInv, SerialFile, ThreadsInv, ThreadRecs, Saving
    <3>3. QED BY <3>2
  <2>3. CASE WriteText(t)
    <3>1. PICK w : w = [th[t] EXCEPT !.pc = "publish", !.fd = NoFile]
      OBVIOUS
    <3>2. /\ th' = [th EXCEPT ![t] = w] /\ w.pc \in Saving /\ w.mine = th[t].mine
          /\ w.fresh = th[t].fresh /\ w.job = th[t].job
      BY <1>1, <2>3, <3>1 DEF WriteText, DrainInv, SerialFile, ThreadsInv, ThreadRecs, Saving
    <3>3. QED BY <3>2
  <2>4. QED BY <2>1, <2>2, <2>3
<1>3. w.pc # "body" /\ w.pc # "sending" /\ th[t].pc \in Section
  BY <1>1, <1>2 DEF Saving, Section
<1>4. CASE th[t].pc \in Saving
  <2>1. DrainOK(t, w)
    BY <1>1, <1>2, <1>3, <1>4 DEF DrainOK, EngineOK, UpdateOK
  <2>2. app'.release = app.release /\ UNCHANGED <<born, tried, upto>>
    BY <1>4 DEF Wipe, OpenState, WriteText, Saving
  <2>3. QED BY <1>2, <2>1, <2>2, StillDrains
<1>5. CASE th[t].pc = "wipe"
  <2>1. w.fresh /\ ~Current /\ w.mine.queue = <<>>
    BY <1>1, <1>2, <1>5 DEF ThreadOK
  <2>2. Extends(w.mine.queue)
    BY <2>1, NoEvents DEF Extends
  <2>3. DrainOK(t, w)
    BY <1>1, <1>2, <1>3, <2>1, <2>2 DEF DrainOK, EngineOK, UpdateOK
  <2>4. app'.release = app.release /\ UNCHANGED <<born, tried, upto>>
    BY <1>5 DEF Wipe, OpenState, WriteText, DrainInv, SerialFile, FileInv, Apps
  <2>5. QED BY <1>2, <2>3, <2>4, StillDrains
<1>6. QED BY <1>1, <1>4, <1>5 DEF Saving

LEMMA FailDrains ==
    ASSUME DrainInv, SerialFile', NEW t \in Threads, OnDisk' = OnDisk, SaveFails(t)
    PROVE  DrainInv'
<1>1. /\ ThreadOK(th[t]) /\ DrainOK(t, th[t]) /\ th[t].pc \in Saving /\ SerialFile
  BY DEF DrainInv, SerialFile, ThreadsInv, SaveFails, Saving
<1>2. PICK w : w = AfterSave(t)
  OBVIOUS
<1>3. \/ w.pc \in {"out", "cleared"}
      \/ th[t].fresh /\ w.pc = "body" /\ w.mine = th[t].mine /\ w.job = th[t].job
  BY <1>1, <1>2, AfterSaveIs
<1>4. DrainOK(t, w)
  <2>1. CASE w.pc \in {"out", "cleared"}
    BY <2>1, NothingHeld
  <2>2. CASE th[t].fresh /\ w.pc = "body" /\ w.mine = th[t].mine /\ w.job = th[t].job
    <3>1. w.mine.queue = <<>> /\ th[t].pc \in Section
      BY <1>1, <2>2 DEF ThreadOK, Section
    <3>2. QED BY <1>1, <2>2, <3>1 DEF DrainOK, EngineOK, UpdateOK, Saving
  <2>3. QED BY <1>3, <2>1, <2>2
<1>5. th' = [th EXCEPT ![t] = w]
  BY <1>2 DEF SaveFails
<1>6. QED BY <1>4, <1>5, StillDrains DEF SaveFails

(* What was saved is on disk; an update() that waits is bound to no more than before. *)
LEMMA PublishDrains ==
    ASSUME DrainInv, SerialFile', NEW t \in Threads, OnDisk' = th[t].mine, PublishText(t)
    PROVE  DrainInv'
<1>1. /\ ThreadOK(th[t]) /\ DrainOK(t, th[t]) /\ th[t].pc = "publish"
      /\ SerialFile /\ InSection(t)
  BY DEF DrainInv, SerialFile, ThreadsInv, PublishText, InSection, Section, Saving
<1>2. PICK s : s = th[t].mine
  OBVIOUS
<1>3. /\ s \in States /\ s.release = app.release /\ OnDisk' = s /\ s.queue \in Queues
      /\ (th[t].fresh => s.queue = <<>>)
  BY <1>1, <1>2, StateShape DEF ThreadOK, Section, Saving
<1>4. Current' /\ UNCHANGED <<app, born, tried, upto>>
  BY <1>3 DEF PublishText, Current
<1>5. PICK w : w = AfterSave(t)
  OBVIOUS
<1>6. /\ th' = [th EXCEPT ![t] = w]
      /\ \/ w.pc \in {"out", "cleared"}
         \/ th[t].fresh /\ w.pc = "body" /\ w.mine = s /\ w.job = th[t].job
  BY <1>1, <1>2, <1>5, AfterSaveIs DEF PublishText, Saving
<1>7. th[t].fresh => Kept(tried)'
  <2> SUFFICES ASSUME th[t].fresh PROVE Kept(tried)'
    OBVIOUS
  <2>1. Len(OnDisk'.queue) = 0
    BY <1>3, NoEvents
  <2>2. Min({0, DrainLimit}) = 0
    BY SmallerOfTwo DEF DrainLimit
  <2>3. QED BY <2>1, <2>2 DEF Kept
<1>8. DrainOK(t, w)'
  <2>1. CASE w.pc \in {"out", "cleared"}
    BY <2>1, NothingHeld
  <2>2. CASE th[t].fresh /\ w.pc = "body" /\ w.mine = s /\ w.job = th[t].job
    <3>1. th[t].pc \in Section
      BY <1>1 DEF InSection
    <3>2. QED BY <1>1, <1>4, <1>7, <2>2, <3>1 DEF DrainOK, EngineOK, UpdateOK, Saving
  <2>3. QED BY <1>6, <2>1, <2>2
<1>9. ASSUME NEW u \in Threads, u # t PROVE DrainOK(u, th[u])'
  <2>1. PICK v : v = th[u]
    OBVIOUS
  <2>2. th'[u] = v /\ v.pc \notin Section /\ DrainOK(u, v)
    <3>1. ~InSection(u)
      BY <1>1, <1>9, OthersWait
    <3>2. QED BY <1>6, <1>9, <2>1, <3>1 DEF DrainInv, SerialFile, ThreadsInv, InSection
  <2>3. ASSUME u = "update", v.pc = "sending" PROVE Kept(tried \cup ToSet(v.batch))'
    <3>1. t = "engine" /\ Extends(s.queue)
      BY <1>1, <1>2, <1>9, <2>3 DEF Threads, DrainOK, EngineOK, Saving
    <3>2. Kept(tried \cup ToSet(v.batch))
      BY <2>2, <2>3 DEF DrainOK, UpdateOK
    <3>3. ASSUME NEW i \in 1..Min({Len(s.queue), DrainLimit})
          PROVE  s.queue[i] \in tried \cup ToSet(v.batch) \/ s.queue[i] > upto
      <4>1. i \in 1..Len(s.queue) /\ i <= DrainLimit
        <5>1. Len(s.queue) \in Nat /\ DrainLimit \in Nat
          BY <1>3, ListedEvents DEF DrainLimit
        <5>2. Min({Len(s.queue), DrainLimit}) =
                IF Len(s.queue) <= DrainLimit THEN Len(s.queue) ELSE DrainLimit
          BY <5>1, SmallerOfTwo
        <5>3. QED BY <5>1, <5>2
      <4>2. CASE s.queue[i] > upto
        BY <4>2
      <4>3. CASE Current /\ i \in 1..Len(OnDisk.queue)
        <5>1. s.queue[i] = OnDisk.queue[i]
          BY <3>1, <4>3 DEF Extends
        <5>2. OnDisk.queue \in Queues
          BY <4>3, StateShape DEF Current
        <5>3. i \in 1..Min({Len(OnDisk.queue), DrainLimit})
          BY <4>1, <4>3, <5>2, ListedEvents, SmallerOfTwo DEF DrainLimit
        <5>4. QED BY <3>2, <4>3, <5>1, <5>3 DEF Kept
      <4>4. QED BY <3>1, <4>1, <4>2, <4>3 DEF Extends
    <3>4. QED BY <1>3, <1>4, <3>3 DEF Kept
  <2>4. DrainOK(u, v)'
    BY <1>4, <2>2, <2>3 DEF DrainOK, EngineOK, UpdateOK, Saving, Section
  <2>5. QED BY <2>1, <2>2, <2>4 DEF DrainOK, EngineOK, UpdateOK
<1>10. DrainOK(t, th[t])'
  <2>1. th'[t] = w
    BY <1>6 DEF DrainInv, SerialFile, ThreadsInv
  <2>2. QED BY <1>8, <2>1 DEF DrainOK, EngineOK, UpdateOK
<1>11. upto' \in 0..born'
  BY <1>4 DEF DrainInv
<1>12. QED BY <1>9, <1>10, <1>11 DEF DrainInv

(* A new event goes behind the queue on disk, with a number past upto. *)
LEMMA QueueDrains == ASSUME DrainInv, SerialFile', QueueEvent PROVE DrainInv'
<1>. DEFINE t == "engine"
<1>1. /\ t \in Threads /\ th[t] \in ThreadRecs /\ ThreadOK(th[t]) /\ DrainOK(t, th[t])
      /\ th[t].pc = "body" /\ th[t].job \in {"init", "failure"}
  BY DEF QueueEvent, InEngine, Threads, DrainInv, SerialFile, ThreadsInv
<1>2. PICK s : s = th[t].mine
  OBVIOUS
<1>3. /\ s \in States /\ s.queue \in Queues
      /\ Current => s = OnDisk
      /\ ~Current => s.queue = <<>>
  BY <1>1, <1>2, StateShape DEF ThreadOK, DrainOK, Section
<1>4. PICK q : q = Append(s.queue, born + 1)
  OBVIOUS
<1>5. born \in Nat /\ upto \in Nat /\ upto <= born
  BY BoundAssumption DEF DrainInv, SerialFile, FileInv
<1>6. /\ Len(q) = Len(s.queue) + 1 /\ Len(s.queue) \in Nat
      /\ \A i \in 1..Len(s.queue) : q[i] = s.queue[i]
      /\ q[Len(s.queue) + 1] = born + 1
  <2>1. s.queue \in Seq(1..MaxEvents) /\ born + 1 \in 1..MaxEvents
    BY <1>3, <1>5, QueueShape, BoundAssumption DEF QueueEvent
  <2>2. QED BY <1>4, <2>1, AppendProperties, LenProperties
<1>7. Extends(q)
  <2>1. CASE Current
    <3>1. s.queue = OnDisk.queue
      BY <1>3, <2>1
    <3>2. ASSUME NEW i \in 1..Len(OnDisk.queue)
          PROVE  i \in 1..Len(q) /\ q[i] = OnDisk.queue[i]
      BY <1>6, <3>1
    <3>3. ASSUME NEW i \in 1..Len(q) PROVE q[i] > upto \/ i \in 1..Len(OnDisk.queue)
      <4>1. CASE i = Len(s.queue) + 1
        BY <1>5, <1>6, <4>1
      <4>2. CASE i # Len(s.queue) + 1
        BY <1>6, <3>1, <4>2
      <4>3. QED BY <4>1, <4>2
    <3>4. QED BY <2>1, <3>2, <3>3 DEF Extends
  <2>2. CASE ~Current
    <3>1. Len(s.queue) = 0
      BY <1>3, <2>2, NoEvents
    <3>2. ASSUME NEW i \in 1..Len(q) PROVE q[i] > upto
      <4>1. i = Len(s.queue) + 1
        BY <1>6, <3>1
      <4>2. QED BY <1>5, <1>6, <4>1
    <3>3. QED BY <2>2, <3>2 DEF Extends
  <2>3. QED BY <2>1, <2>2
<1>8. PICK w : w = [th[t] EXCEPT !.pc = "open", !.mine = [s EXCEPT !.queue = q]]
  OBVIOUS
<1>9. th' = [th EXCEPT ![t] = w]
  BY <1>1, <1>2, <1>4, <1>8 DEF QueueEvent, DrainInv, SerialFile, ThreadsInv, ThreadRecs
<1>10. w.pc = "open" /\ w.job = th[t].job /\ w.mine.queue = q
  <2>1. s = State(s.client, s.release, s.queue)
    BY <1>3, StateShape
  <2>2. [s EXCEPT !.queue = q].queue = q
    BY <2>1 DEF State
  <2>3. QED BY <1>1, <1>8, <2>2 DEF ThreadRecs
<1>11. OnDisk' = OnDisk /\ Current' = Current
  BY DEF QueueEvent, OnDisk, Current, DrainInv, SerialFile, FileInv, Apps
<1>12. Extends(q)'
  BY <1>7, <1>11 DEF Extends, QueueEvent
<1>13. DrainOK(t, w)'
  BY <1>1, <1>10, <1>12 DEF DrainOK, EngineOK
<1>14. /\ born' \in Nat /\ born <= born' /\ upto' = upto /\ tried \subseteq tried'
  BY <1>5 DEF QueueEvent
<1>15. QED BY <1>1, <1>9, <1>11, <1>13, <1>14, DrainStep

(* The copy binds update() to the head of the queue. *)
LEMMA CopyDrains == ASSUME DrainInv, SerialFile', CopyEvents PROVE DrainInv'
<1>. DEFINE t == "update"
<1>1. /\ t \in Threads /\ ThreadOK(th[t]) /\ SerialFile
      /\ th[t].pc = "body" /\ InSection(t)
  BY DEF CopyEvents, Threads, DrainInv, SerialFile, ThreadsInv, InSection, Section
<1>2. PICK s : s = th[t].mine
  OBVIOUS
<1>3. s \in States /\ s.queue \in Queues /\ (Current => s = OnDisk)
  BY <1>1, <1>2, StateShape DEF ThreadOK, Section
<1>4. PICK r : r = FirstEvents(s.queue)
  OBVIOUS
<1>5. \A i \in 1..Min({Len(s.queue), DrainLimit}) : s.queue[i] \in ToSet(r)
  BY <1>3, <1>4, CopiedEvents
<1>6. PICK w : w = [Out EXCEPT !.pc = "sending", !.batch = r]
  OBVIOUS
<1>7. /\ th' = [th EXCEPT ![t] = w] /\ w.pc = "sending" /\ w.batch = r
  BY <1>2, <1>4, <1>6 DEF CopyEvents, Out
<1>8. OnDisk' = OnDisk /\ Current' = Current
  BY DEF CopyEvents, OnDisk, Current
<1>9. Kept(tried \cup ToSet(r))'
  BY <1>3, <1>5, <1>8 DEF Kept
<1>10. ASSUME NEW u \in Threads PROVE DrainOK(u, th[u])'
  <2>1. CASE u = t
    <3>1. th'[u] = w
      BY <1>7, <2>1 DEF SerialFile, DrainInv, ThreadsInv
    <3>2. DrainOK(t, w)'
      BY <1>7, <1>9 DEF DrainOK, UpdateOK, Section, Saving
    <3>3. QED BY <2>1, <3>1, <3>2 DEF DrainOK, EngineOK, UpdateOK
  <2>2. CASE u # t
    <3>1. th'[u] = th[u] /\ th[u].pc \notin Section /\ u # "update"
      BY <1>1, <1>7, <2>2, OthersWait DEF SerialFile, ThreadsInv, InSection
    <3>2. QED BY <3>1 DEF DrainOK, EngineOK, Section, Saving
  <2>3. QED BY <2>1, <2>2
<1>11. upto' \in 0..born'
  BY BoundAssumption DEF CopyEvents, DrainInv, SerialFile, FileInv
<1>12. QED BY <1>10, <1>11 DEF DrainInv

LEMMA SendDrains == ASSUME DrainInv, SerialFile', SendEvent PROVE DrainInv'
<1>. DEFINE t == "update"
<1>1. /\ t \in Threads /\ th[t] \in ThreadRecs /\ DrainOK(t, th[t]) /\ th[t].pc = "sending"
  BY DEF SendEvent, Threads, DrainInv, SerialFile, ThreadsInv
<1>2. PICK b : b = th[t].batch
  OBVIOUS
<1>3. PICK r : r = Tail(b)
  OBVIOUS
<1>4. b \in Queues /\ b # <<>>
  BY <1>1, <1>2 DEF SendEvent, ThreadRecs
<1>5. ToSet(b) \subseteq {Head(b)} \cup ToSet(r)
  BY <1>3, <1>4, FirstOfBatch
<1>6. tried' = tried \cup {Head(b)}
  BY <1>2 DEF SendEvent
<1>7. PICK w : w = [th[t] EXCEPT !.batch = r]
  OBVIOUS
<1>8. th' = [th EXCEPT ![t] = w] /\ w.pc = "sending" /\ w.batch = r
  BY <1>1, <1>2, <1>3, <1>7 DEF SendEvent, DrainInv, SerialFile, ThreadsInv, ThreadRecs
<1>9. OnDisk' = OnDisk /\ Current' = Current /\ upto' = upto
  BY DEF SendEvent, OnDisk, Current
<1>10. Kept(tried \cup ToSet(b))
  BY <1>1, <1>2 DEF DrainOK, UpdateOK
<1>11. Kept(tried \cup ToSet(r))'
  BY <1>5, <1>6, <1>9, <1>10 DEF Kept
<1>12. DrainOK(t, w)'
  BY <1>8, <1>11 DEF DrainOK, UpdateOK, Section, Saving
<1>13. born' \in Nat /\ born <= born' /\ tried \subseteq tried'
  BY <1>6, BoundAssumption DEF SendEvent, DrainInv, SerialFile, FileInv
<1>14. QED BY <1>1, <1>8, <1>9, <1>12, <1>13, DrainStep

LEMMA ClearDrains == ASSUME DrainInv, SerialFile', ClearEvents PROVE DrainInv'
<1>. DEFINE t == "update"
<1>1. /\ t \in Threads /\ th[t] \in ThreadRecs /\ ThreadOK(th[t]) /\ DrainOK(t, th[t])
      /\ th[t].pc = "body" /\ th[t].job = "clear"
  BY DEF ClearEvents, Threads, DrainInv, SerialFile, ThreadsInv
<1>2. PICK s : s = th[t].mine
  OBVIOUS
<1>3. s \in States
  BY <1>1, <1>2 DEF ThreadOK, Section
<1>4. PICK w : w = [th[t] EXCEPT !.pc = "open", !.mine = [s EXCEPT !.queue = <<>>]]
  OBVIOUS
<1>5. th' = [th EXCEPT ![t] = w]
  BY <1>1, <1>2, <1>4 DEF ClearEvents, DrainInv, SerialFile, ThreadsInv, ThreadRecs
<1>6. w.pc = "open" /\ w.job = "clear" /\ w.mine.queue = <<>>
  <2>1. s = State(s.client, s.release, s.queue)
    BY <1>3, StateShape
  <2>2. [s EXCEPT !.queue = <<>>].queue = <<>>
    BY <2>1 DEF State
  <2>3. QED BY <1>1, <1>4, <2>2 DEF ThreadRecs
<1>7. Kept(tried)
  BY <1>1 DEF DrainOK, UpdateOK, Section
<1>8. DrainOK(t, w)
  BY <1>6, <1>7 DEF DrainOK, UpdateOK
<1>9. OnDisk' = OnDisk
  BY DEF ClearEvents, OnDisk
<1>10. QED BY <1>1, <1>5, <1>8, <1>9, StillDrains DEF ClearEvents

(* A thread that leaves, alone or, when the process dies, with the other. *)
LEMMA LeaveDrains ==
    ASSUME DrainInv, SerialFile', NEW t \in Threads, th' = [th EXCEPT ![t] = Out],
           fs' = fs, app'.release = app.release, UNCHANGED <<born, tried, upto>>
    PROVE  DrainInv'
<1>1. PICK w : w = Out
  OBVIOUS
<1>2. DrainOK(t, w)
  BY <1>1, OutIsOK, NothingHeld
<1>3. OnDisk' = OnDisk
  BY DEF OnDisk
<1>4. QED BY <1>1, <1>2, <1>3, StillDrains

LEMMA AllOutDrains ==
    ASSUME SerialFile', upto' \in 0..born', \A t \in Threads : th'[t].pc = "out"
    PROVE  DrainInv'
<1>1. ASSUME NEW t \in Threads PROVE DrainOK(t, th[t])'
  BY DEF DrainOK, EngineOK, UpdateOK, Section, Saving
<1>2. QED BY <1>1 DEF DrainInv

LEMMA DrainInvStep ==
    ASSUME Overlap = FALSE, DrainInv, [Next]_svars
    PROVE  DrainInv'
<1> USE DEF DrainInv
<1>1. SerialFile /\ SerialFile' /\ "engine" \in Threads /\ "update" \in Threads /\ app \in Apps
  BY SerialFileStep DEF Threads, SerialFile, FileInv
<1> HIDE DEF DrainInv
<1>2. CASE UNCHANGED svars
  <2>1. OnDisk' = OnDisk /\ Current' = Current
    BY <1>2 DEF svars, OnDisk, Current
  <2>2. ASSUME NEW t \in Threads PROVE DrainOK(t, th[t])'
    <3>1. PICK v : v = th[t]
      OBVIOUS
    <3>2. DrainOK(t, v)'
      BY <1>2, <2>1, <3>1, StillKept DEF svars, DrainInv
    <3>3. th'[t] = v
      BY <1>2, <3>1 DEF svars
    <3>4. QED BY <3>2, <3>3 DEF DrainOK, EngineOK, UpdateOK
  <2>3. QED BY <1>1, <1>2, <2>2 DEF svars, DrainInv
<1>3. ASSUME NEW t \in Threads, Save(t) PROVE DrainInv'
  <2>1. CASE Wipe(t) \/ OpenState(t) \/ WriteText(t)
    <3>1. OnDisk' = OnDisk
      BY <1>1, <2>1, OpenStep, WriteStep DEF Wipe, OnDisk
    <3>2. QED BY <1>1, <2>1, <3>1, SaveDrains
  <2>2. CASE PublishText(t)
    BY <1>1, <2>2, PublishStep, PublishDrains
  <2>3. CASE SaveFails(t)
    BY <1>1, <2>3, FailStep, FailDrains
  <2>4. QED BY <1>3, <2>1, <2>2, <2>3 DEF Save
<1>4. CASE StartProcess
  <2>1. app'.release = app.release /\ "init" \in Jobs
    BY <1>1, <1>4 DEF StartProcess, Apps, Jobs
  <2>2. QED BY <1>1, <1>4, <2>1, EnterDrains DEF StartProcess
<1>5. ASSUME NEW job \in {"launch", "success", "failure"}, ReportLaunch(job) PROVE DrainInv'
  <2>1. app'.release = app.release /\ job \in Jobs
    BY <1>1, <1>5 DEF ReportLaunch, Apps, Jobs
  <2>2. QED BY <1>1, <1>5, <2>1, EnterDrains DEF ReportLaunch
<1>6. CASE MarkLaunch
  <2>1. app'.release = app.release
    BY <1>1, <1>6 DEF MarkLaunch, Apps
  <2>2. QED BY <1>1, <1>6, <2>1, LeaveDrains DEF MarkLaunch
<1>7. CASE QueueEvent
  BY <1>1, <1>7, QueueDrains
<1>8. CASE NothingFailed
  BY <1>1, <1>8, LeaveDrains DEF NothingFailed
<1>9. CASE BeginUpdate
  <2>1. "copy" \in Jobs
    BY DEF Jobs
  <2>2. QED BY <1>1, <1>9, <2>1, EnterDrains DEF BeginUpdate
<1>10. CASE CopyEvents
  BY <1>1, <1>10, CopyDrains
<1>11. CASE SendEvent
  BY <1>1, <1>11, SendDrains
<1>12. CASE EnterClear
  <2>1. "clear" \in Jobs
    BY DEF Jobs
  <2>2. Kept(tried)
    <3>1. DrainOK("update", th["update"])
      BY <1>1 DEF DrainInv
    <3>2. Kept(tried \cup ToSet(th["update"].batch)) /\ th["update"].batch = <<>>
      BY <1>12, <3>1 DEF EnterClear, DrainOK, UpdateOK
    <3>3. QED BY <3>2, NoEvents DEF Kept
  <2>3. QED BY <1>1, <1>12, <2>1, <2>2, EnterDrains DEF EnterClear
<1>13. CASE ClearEvents
  BY <1>1, <1>13, ClearDrains
<1>14. CASE EnterWork
  <2>1. "work" \in Jobs
    BY DEF Jobs
  <2>2. QED BY <1>1, <1>14, <2>1, EnterDrains DEF EnterWork
<1>15. CASE Work
  BY <1>1, <1>15, LeaveDrains DEF Work
<1>16. CASE EndUpdate
  BY <1>1, <1>16, LeaveDrains DEF EndUpdate
<1>17. CASE Kill
  <2>1. \A t \in Threads : th'[t].pc = "out"
    BY <1>17, OutIsOK DEF Kill
  <2>2. upto' \in 0..born'
    BY <1>17 DEF Kill, DrainInv
  <2>3. QED BY <1>1, <2>1, <2>2, AllOutDrains
<1>18. CASE InstallRelease
  <2>1. \A t \in Threads : th'[t].pc = "out"
    BY <1>1, <1>18 DEF InstallRelease, SerialFile, ThreadsInv, ThreadOK
  <2>2. upto' \in 0..born'
    BY <1>18 DEF InstallRelease, DrainInv
  <2>3. QED BY <1>1, <2>1, <2>2, AllOutDrains
<1>19. QED
  BY <1>2, <1>3, <1>4, <1>5, <1>6, <1>7, <1>8, <1>9, <1>10, <1>11, <1>12, <1>13, <1>14,
     <1>15, <1>16, <1>17, <1>18 DEF Next

LEMMA DrainInvHolds == ASSUME Overlap = FALSE PROVE Spec => []DrainInv
<1>1. Init => DrainInv
  <2> SUFFICES ASSUME Init PROVE DrainInv
    OBVIOUS
  <2>1. ASSUME NEW t \in Threads PROVE DrainOK(t, th[t])
    BY OutIsOK, NothingHeld DEF Init
  <2>2. QED BY <2>1, InitSerialFile DEF Init, DrainInv
<1>2. DrainInv /\ [Next]_svars => DrainInv'
  BY DrainInvStep
<1>3. QED BY <1>1, <1>2, PTL DEF Spec

(***************************************************************************)
(* Type correctness: the files, the release of the patches, the sections   *)
(* and the queues keep their shape, and no queue outgrows the events there *)
(* have been (cache/updater_state.cpp, core/updater.cpp).                  *)
(***************************************************************************)
THEOREM StateFileTypes == ASSUME Overlap = FALSE PROVE Spec => []StateTypeOK
<1>1. DrainInv => StateTypeOK
  <2> SUFFICES ASSUME DrainInv PROVE StateTypeOK
    OBVIOUS
  <2>1. SerialFile /\ upto \in 0..MaxEvents
    BY BoundAssumption DEF DrainInv, SerialFile, FileInv
  <2>2. QED
    BY <2>1 DEF StateTypeOK, SerialFile, FileInv, ThreadsInv, Dirs, Apps, ThreadRecs
<1>2. QED BY <1>1, DrainInvHolds, PTL

(***************************************************************************)
(* An event that update() copied leaves the queue only after an attempt to *)
(* send it, or with the release it belongs to, though the engine's         *)
(* sections come between the copy and the clear; what they queue is all    *)
(* that the clear may take unsent (copy_events and clear_events, which     *)
(* core/updater.cpp calls).                                                *)
(***************************************************************************)
THEOREM EventsAreKept == ASSUME Overlap = FALSE PROVE Spec => EventsKept
<1>1. ASSUME DrainInv, [Next]_svars, OnDisk.kind = "state",
             NEW i \in 1..Min({Len(OnDisk.queue), DrainLimit})
      PROVE  \/ OnDisk.queue[i] \in tried
             \/ OnDisk'.kind = "state" /\ OnDisk.queue[i] \in ToSet(OnDisk'.queue)
             \/ OnDisk'.kind = "state" /\ OnDisk'.release > OnDisk.release
             \/ Clearing /\ OnDisk.queue[i] > upto
  <2>1. SerialFile
    BY <1>1 DEF DrainInv
  <2>2. /\ OnDisk \in States /\ OnDisk.queue \in Queues /\ i \in 1..Len(OnDisk.queue)
        /\ OnDisk.queue[i] \in ToSet(OnDisk.queue)
    BY <1>1, <2>1, NotStates, StateShape, BoundToSend DEF SerialFile, FileInv
  <2>3. CASE OnDisk' = OnDisk
    BY <1>1, <2>2, <2>3
  <2>4. ASSUME NEW t \in Threads, PublishText(t), OnDisk.queue[i] \notin tried
        PROVE  \/ /\ OnDisk'.kind = "state"
                  /\ \/ OnDisk.queue[i] \in ToSet(OnDisk'.queue)
                     \/ OnDisk'.release > OnDisk.release
               \/ Clearing /\ OnDisk.queue[i] > upto
    <3>1. PICK s : s = th[t].mine
      OBVIOUS
    <3>2. OnDisk' = s
      BY <2>1, <2>4, <3>1, PublishStep
    <3>3. /\ s \in States /\ s.release = app.release /\ s.queue \in Queues
          /\ th[t].pc = "publish" /\ (th[t].fresh => ~Current) /\ DrainOK(t, th[t])
      BY <1>1, <2>1, <2>4, <3>1, StateShape
         DEF PublishText, DrainInv, SerialFile, ThreadsInv, ThreadOK, Saving, Section
    <3>4. CASE Current /\ t = "engine"
      <4>1. Extends(s.queue)
        BY <3>1, <3>3, <3>4 DEF DrainOK, EngineOK, Saving
      <4>2. i \in 1..Len(s.queue) /\ s.queue[i] = OnDisk.queue[i]
        BY <2>2, <3>4, <4>1 DEF Extends
      <4>3. s.queue[i] \in ToSet(s.queue)
        BY <3>3, <4>2, ListedEvents
      <4>4. QED BY <3>2, <3>3, <4>2, <4>3, StateShape
    <3>5. CASE Current /\ t = "update"
      <4>1. th[t].job = "clear" /\ Kept(tried)
        BY <3>3, <3>5 DEF DrainOK, UpdateOK, Saving, Section
      <4>2. QED BY <1>1, <2>4, <3>3, <3>5, <4>1 DEF Kept, Clearing
    <3>6. CASE ~Current
      <4>1. OnDisk.release # app.release /\ OnDisk.release <= app.release
        BY <2>1, <2>2, <3>6 DEF Current, SerialFile, FileInv
      <4>2. OnDisk.release \in Nat /\ s.release \in Nat
        BY <2>2, <3>3, StateShape, ReleasesAreNumbers
      <4>3. QED BY <3>2, <3>3, <4>1, <4>2, StateShape
    <3>7. QED BY <3>4, <3>5, <3>6 DEF Threads
  <2>5. QED BY <1>1, <2>1, <2>3, <2>4, SerialFileStep
<1>2. DrainInv /\ [Next]_svars =>
        [OnDisk.kind = "state" =>
            \A i \in 1..Min({Len(OnDisk.queue), DrainLimit}) :
                LET e == OnDisk.queue[i]
                IN  \/ e \in tried
                    \/ OnDisk'.kind = "state" /\ e \in ToSet(OnDisk'.queue)
                    \/ OnDisk'.kind = "state" /\ OnDisk'.release > OnDisk.release
                    \/ Clearing /\ e > upto]_svars
  BY <1>1
<1>3. QED BY <1>2, DrainInvHolds, PTL DEF Spec, EventsKept

=============================================================================
