# Dashpod, specified

TLA+ specifications of Dashpod, a code-push system for Flutter applications: a
native updater inside the application (C++, `src/updater/`), the Dart package
that drives it (`src/packages/dashpod_updater/`), and a command line tool that
builds and publishes releases and patches (`src/packages/dashpod_cli/`).

The part that must never be wrong is the updater. It runs inside somebody
else's application, decides which native code that application boots, keeps its
state in small files that a kill may interrupt anywhere, and is called from
threads that do not know of each other. The models start there.

1. [Inventory](#inventory)
2. [The plan](#the-plan)
3. [What is modelled, module by module](#what-is-modelled)
4. [The runs](#the-runs)
5. [Fairness](#fairness)
6. [What is proved](#what-is-proved)
7. [Where the code and its documents disagree](#disagreements)
8. [What is not modelled](#what-is-not-modelled)

## Inventory

Paths are relative to `src/`.

| component | state | operations | hard behaviour | correct means |
|---|---|---|---|---|
| **patch store** `updater/src/cache/lifecycle.*` | `patches/{n}/state.json` (Downloading, Downloaded, Installed, Bad), `patches/{n}/dlc.vmcode`, `{download_root}/{n}`, `pointers.json` (next_boot_patch, last_booted_patch, currently_booting_patch) | download, install, promote, boot tracking, crash detection, validation, cleanup | every operation is several file writes; a kill between two of them | tombstones are permanent; the fallback survives; a pointer leads to a patch that exists; an installed patch is reachable |
| **updater core** `updater/src/core/updater.*`, `updater_lock.*` | the try-lock of update(), `running_patch`, the response in hand | init, update, check_for_downloadable_update, validate_next_boot_patch, report_launch_* | sections that load, change and save the state are interleaved; decisions outlive the state they were read from | one update() at a time; an offer ends installed or tombstoned; a rollback ends effective |
| **engine API** `updater/src/api/engine.cpp` | none of its own | C entry points, one per core function | the caller's order: validate, read the path, start, success or failure | the boot contract (`BootContract`) |
| **state file and events** `updater/src/cache/updater_state.*`, `net/events.*` | `state.json`: client_id, release_version, queued events | load or create, release change, queue, drain | read-modify-write of one file from two threads; drain loses what it did not send | events are reported at least once; a new release starts clean |
| **disk I/O** `updater/src/cache/disk_io.*` | files, one `.tmp` name per file | write_json, read_json | two writers of one temp file | a reader sees one complete version |
| **network** `updater/src/net/network.*` | the file offset of a download | patch check, download, event POST | 200 for a Range request, 206, 416, truncated bodies, bytes lost when the file is closed | the file on disk is always the beginning of the published one |
| **inflate** `updater/src/core/inflate.*`, `io/c_file.*` | streaming zstd and bipatch reader state | inflate_patch | varints at their limits, truncated streams, a full disk taken for a bad patch | round trip with the patch maker; a good patch is tombstoned only for a cause |
| **configuration** `updater/src/core/config.*`, `yaml.*` | the once-set global configuration | init, accessors | init called twice | first call wins |
| **signing** `updater/src/cache/signing.*` | none | hash, RSA verification | - | delegated to a library |
| **Dart API** `updater/src/api/dart.cpp` | none | forwards and converts | ownership of strings | - |
| **Android base** `updater/src/platform/android.*` | none | finds libapp.so in APKs | zip edge cases | finds the entry if there is one |
| **patch maker** `updater/patch/` | the dozen locals of one loop | bsdiff into the bipatch format | a score kept by increments; windows that overlap and are split | the entries rebuild the new file; the loop ends |
| **Dart package** `packages/dashpod_updater/` | none | isolate wrapper, status mapping | statuses read at different times | the status told is one that held |
| **CLI publication** `packages/dashpod_cli/` `release`, `patch`, `patches promote` | the server's releases, artifacts, patches, channels | find or create, draft, upload, activate; look up, diff, create, upload, promote | a request that fails, or takes effect unanswered, between two others; runs repeated | what is active or promoted is complete and of one build |
| **CLI, the rest** | credentials, artifact cache, dashpod.yaml | login, init, cache, preview, doctor | token refresh, cache races | nothing half-done is taken for done |
| **dexdiff** `packages/dexdiff/` | none | DEX parsing and structural diff | index remapping | equal code is reported equal |
| **flutter_revision** `packages/flutter_revision/` | none | precedence among version sources | - | first source wins |
| **generated API client, stub packages, utilities** | none | - | - | - |
| **patch server** (not in this repository) | published and rolled back patches | answers a patch check | answers age | - |

How they interact. The engine calls `init()`, then `validate_next_boot_patch`,
reads the path of the next patch, calls `report_launch_start`, boots the Dart
code from it and calls `report_launch_success` or `report_launch_failure`. It
may then start `update()` on a detached thread; the application may call
`update()` and `check_for_downloadable_update()` through the Dart package at
any time. Every one of these opens `with_state`: load state.json and
pointers.json, change, save. Nothing orders two sections of different threads
but the try-lock of `update()`. The file store is the only state that survives
a kill; the marker `currently_booting_patch` left in pointers.json is how the
next `init()` learns that the last boot crashed.

## The plan

Written, in the order of importance:

1. `PatchLifecycle` - the patch store as operators on a disk, with the disks a
   kill inside each operation leaves.
2. `Updater` - the core over it: engine, callers of update(), unlocked checks,
   kills, the server.
3. `BootContract` - the abstract specification of what the engine may rely on,
   implemented by `Updater` under the refinement mapping `Contract`.
4. `UpdaterProofs`, `SafetyProofs` - type correctness and the safety of the
   regime without overlapping boots, for every value of the constants.
5. `DiskIO`, `StateFile` - `write_json` system call by system call over one
   shared temp name; state.json with the client's identity, the release its
   patches belong to and the event queue, in the sections of two threads.
6. `Sections` - `Updater` with `with_state` split into the load and the
   operation that saves.
7. `Publish` - the CLI's release, patch and promote flows against the server's
   tables, request by request.

8. `Transfer` - one download item by item: offsets, whole and partial answers,
   the length told against the length received, connections cut unnoticed.
9. `Bipatch` - the format: the writer, and the push reader of inflate byte by
   byte, as functions.
10. `MakePatch` - `make_patch` step by step over `Bipatch`.
11. `Delivery` - `MakePatch`, then `Transfer` of the bytes it made, then the
    reader of `Bipatch` on what arrived.
12. `BipatchProofs` - that the reader of the format undoes the writer, for
    entries of any length.
13. `DeliveryProofs` - that every patch made rebuilds its file, as entries and as
    bytes; that every download is the beginning of what was published; that
    `Delivery` implements the specifications of its two parts and gives no good
    patch up; that the running score of `make_patch` is the count it stands for, and
    that each of its steps brings it nearer its end.
14. `SafetyProofs`, second part - `Updater` implements `BootContract`.
15. `ConcurrentProofs` - what holds with any number of callers of update() and
    with boots that overlap updates, as long as no kill falls inside a section.
16. `SectionsProofs` - what holds when sections overlap and save stale pointers.
17. `StateFileProofs`, `PublishProofs` - every property of the runs `state_file`
    and `publish`.

Planned, in this order:

18. `Client` - the Dart package's check-then-read status over `Updater`: an
    application that checks, and restarts when told to, comes to run the patch on
    offer. Its liveness with unprovoked kills needs a smaller `Updater`: with the
    one here (280 000 states) it takes too long to check.
19. The path the engine reads before `report_launch_start`, as part of `Updater`.
20. `DexDiff`, `FlutterRevision`, `AndroidZip` - pure algorithms against
    reference definitions; the artifact cache and the token refresh of the CLI.

Theorems still worth proving: what is left of the contract when boots overlap
updates - little, since `BootContract` is then refuted in two of its clauses, the
fallback and the permanence of tombstones, see [The runs](#the-runs) - and that a
`Delivery` is to `Updater` no more than one of the outcomes of a transfer and of
an installation that `Updater` allows for.

## What is modelled

### PatchLifecycle

A *disk* is a record: `state[n]`, `art[n]` (the artifact `dlc.vmcode`), `dl[n]`
(the partial or complete download) and `ptr` (pointers.json). An operation of
the C++ class is an operator from a disk to a disk: `DecideStart`,
`RecordDownloadStarted`, `RecordDownloadComplete`, `RecordInstallComplete`,
`PromoteToNextBoot`, `RecordBootStart`, `RecordBootSuccess`,
`RecordBootFailure`, `DetectBootCrash`, `ValidateNextBoot`, `MarkBad`,
`Cleanup`, `CleanupOlderThan`, `RecomputeNextBoot` and `Uninstall`. A
precondition that throws in the code (`CanRecordBootStart`,
`CanCompleteDownload`, `CanCompleteInstall`) is a predicate, and the caller
models what the throw leads to.

The operators named `...Cuts` give the disks a process killed *inside* the
operation leaves: one file write or removal is atomic, their sequence is not,
and `remove_all` empties a directory in no fixed order. The operators commented
"Mistake checked for" are plausible wrong versions, used to see that the
properties notice them; no specification uses them.

Abstractions. An artifact is `"whole"` when its size and hash are the recorded
ones, `"torn"` otherwise; a signature that does not verify, a wrong size and a
missing file are the same to the store. `"torn"` stands for any damage that
validation detects. A download is `"full"` or `"corrupt"`
when as long as the body, `"partial"` when shorter. `write_json` is one write:
the code writes a temp file and renames it. I/O errors of these small writes
while the process lives on are left out; the disks they leave are those of the
cuts, and the process that goes on from them is not.

### Updater

| variable | code |
|---|---|
| `disk` | the files above |
| `eng.pc` | how far the engine has got through init, validation and the launch reports; `"down"` when no process runs |
| `eng.run` | `running_patch` of config.cpp |
| `upd[u]` | a caller of `update()`: where it is in `update_internal`, the patch, URL and rollbacks of the response it holds. `Lock` - every caller is idle - is the try-lock |
| `chk` | the rollbacks a `check_for_downloadable_update()` has received and not yet applied |
| `server` | external: what is published and rolled back |

Each action is one `with_state` section or one step outside any (ask the
server, open the file, receive some bytes, the end of the body, begin and end
of inflate). So anything another thread does between two sections is in the
model: a decision taken in one section (`PlanDownload`) is acted on in a later
one (`RecordStarted`); the rollback list read by `CheckForPatch` is used
minutes later; `CheckApplyRollbacks` deletes files under a running update. `chk`
is one slot: any number of unlocked checks follow one another, and one of them
at a time has an answer it has not applied.

`ReceiveRest` follows the 206 branch of the download: afterwards `update()`
compares `content_length`, which for a 206 is the size of the *whole* file,
with the bytes of *this* response, which began at an offset greater than zero.
They are never equal, so a resumed transfer that succeeds is taken for a size
mismatch (`SizeMismatch`), and the patch is uninstalled and downloaded again
from the start; only when the total of `Content-Range` cannot be parsed is there
nothing to compare with, and the download completes. It costs a download; no
stated property is broken by it. A file that has gone since the offset was read
is created anew by the open for appending, and what is then written to it,
the rest of another beginning, is `"corrupt"`.

Five constants choose a regime.

- `ConcurrentBoot`: FALSE restricts `update()` and checks to begin once the
  boot has been reported, the order the engine header describes; TRUE lets them
  begin as soon as init has run, which nothing in the code forbids.
- `KillInSection`: TRUE lets a kill strike inside a section, and leave one of
  its cuts. Kills between sections are always possible.
- `Damage`: TRUE lets an installed artifact be damaged between two runs of the
  process, the case validation exists for.
- `CacheCleared`: TRUE lets the operating system delete a download at any time;
  `engine.h:39-41` says of code_cache_dir "Safe to lose under storage pressure".

The release version and the channel are fixed; patch numbers only grow on the
server and a rollback stays listed.

### BootContract

Every patch is `"none"`, `"ready"` or `"bad"`. Only a ready patch is launched, a
launch ends in a success that makes the patch the fallback or leaves it bad, a
bad patch stays bad, an installation displaces others but never the fallback,
and only what the server has withdrawn is removed outright. A kill is not
visible: the launch it interrupts ends in `Fail` at the next start. `Contract`
in `Updater` is the mapping: files, threads, downloads and responses disappear
behind `Status`.

### Sections

`Updater` takes a section as one step. `Sections` adds `mem[t]`, the pointers
the open section of thread `t` has loaded, and two steps: `Load`, and the
operation, which works on `View(t)`, the disk with the pointers as loaded, and
in `Close` writes its pointers over whatever is there. Only pointers.json is
kept in memory by the code; states and artifacts are read and written in
place. `CloseDirty` is `recompute_next_boot`, which saves only what it has
changed. A section that leaves the pointers alone stays the step it is in
`Updater`.

A section that uninstalls patches - the rollbacks of `update()` and of the check,
and the size mismatch - has two steps for each of them. `Look` is `cleanup`
reading the state; `Remove` deletes the files, or the whole directory, by what
it read, and recomputes `next_boot_patch`. Between the two another thread may
write that state. `left[t]` holds the patches still to come, `seen[t]` the one at
hand and whether it was read as a tombstone. The `pointers.json` of a `Remove`
that changed them is saved at once, as in the code, and stays in `mem` for the
next patch of the section.

The other operations read and write the state of a patch in one step. Those of
the engine run alone in this regime. Those of `update()` work on its one patch,
which nothing writes beside it but a `Remove` of the check; one that falls
between the reading of the state and the writing, or between the two writes of
`mark_bad`, would leave that patch Downloaded or Installed without its files,
or without its tombstone. The properties of `sections` do not speak of the
former, and except the latter: the patch is rolled back.

### DiskIO and StateFile

`DiskIO` keeps, apart, what each file holds and which files the two names
`path` and `path.tmp` lead to: an `ofstream` follows the file it has opened,
`rename` moves a name, and two writers of one path open the same file.
`ReadFile` is what `read_json` finds.

In `StateFile` a thread's section goes from `Enter` (`load_or_new_on_error`)
through, if the state is missing, unreadable or of another release, `Wipe` and
a save, to its body and the save of the body; each save is `OpenState`,
`WriteText`, `PublishText`, any of which may fail (`SaveFails`): a fresh state
that cannot be saved is only logged and the section goes on without it. The
engine's thread runs `init` and the launch reports, of which a failed boot
queues an event; the update thread copies the first three events, sends them
one by one, clears the whole queue and goes on. `store` is what the patches on
disk are reduced to: the release they were installed for. `Overlap` lets both
threads be in sections at once. Without it `Alone` keeps the sections apart, and
only the sections: those of the engine fall between the three of `update()`,
also while events are being sent.

Between two releases only newer ones are installed, as Android requires.
`tried` is a history variable: the events that were handed to
`send_patch_event`, arrived or not; `upto` tells which events there were when the
queue was last copied. Three kinds of event are lost by the code as it is: one
beyond the third of a queue, one queued between the copy and the clear, and one
of a state that could not be saved or belongs to an older release. `EventsKept`
names the second as its exception and speaks of the first three of a queue
([disagreements](#disagreements)).

`Wipe` removes everything or is killed before. The removal errors that
`build_fresh` swallows (updater_state.cpp:88-96), after which old patches would stay
next to the new state, are left out; so is a state.json that is there and cannot
be read for an I/O error.

### Publish

A command of a terminal is a record that walks through its requests: `release`
lists, creates, marks the row a draft, registers and uploads each architecture
and at last the aab, and makes the release active; `patch` looks the release and
its aab up, downloads them for the diff check, diffs each architecture against
the artifact of the release, creates the patch, registers and uploads each diff,
finds or creates the channel and promotes; `patches promote` picks a patch of
the release and goes on at the channel. `Abort` ends any command anywhere: a
refused request, an interrupt, and - since it may follow a step that has taken
effect - an answer that was lost. Commands are then run again, building anew.

The server is not in the repository. It is taken to keep one artifact row per
architecture, replaced when registered again, whose bytes come with the upload;
a download of a row without bytes fails. `last` (the run that made a release
active), `fresh`, `stray` and `by` are history variables.

Two terminals that release the same version are left out, and with them the
properties would fail: either may make the release active while the other is
replacing its artifacts, and whose bytes then stay is up to the server. What
the properties do not promise, because the code does not: `--target-platform`
may make a release active whose other architectures are of an earlier build;
`patch` takes a release that is still a draft; `patches promote` takes a patch
that is half uploaded.

### Transfer

The published file is `size` items, item 0 the header of the zstd frame and the
others its blocks; `file` is the items on disk, `rec` the state of the patch in
its JSON file, `up` what `update_internal` and `real_download_to_path` keep while
a transfer runs, `there` whether the file has a name on disk. `Plan` is
`decide_start` with `record_download_started`, `Open` the `ofstream` with `trunc`
or `app`, `AnswerWhole` and `AnswerRest` the branches for 200 and 206,
`CheckLength` the comparison of updater.cpp:155-163. A 416, an error and a kill
are `Abandon`: they leave file and record alone. `LoseFile` clears the file at any
time. An open for appending then makes a new one, which the answer to the old
offset is written to; what is written to a file that was removed while open is
nowhere; and inflate finds no file and refuses the patch.

A transfer that is cut short is noticed by cpp-httplib only when its answer had a
`Content-Length`, and by the updater only when a length was told that differs
from the bytes of this answer. `EndOfBody` allows exactly the cuts that neither
sees, and the `ofstream` is closed without looking whether its last buffer
could be written (`FlushFails`). `fault` is a history variable: it tells that the
file, or the disk, is by now not what the server published, and `lost` that the
file went while an `update()` was using it, until a transfer starts afresh.
`FileIsPrefix` holds unless `lost`: a file that goes between two updates is
simply downloaded again. `Transfer` knows one patch, which stays on offer;
`Updater` covers the rest.

### Bipatch

`emit_uvarint`, `emit_svarint`, `emit_loop` and `Body` give the bytes of a patch;
`feed` is `BipatchReader` on one byte, in its four stages, with the three numbers
a varint may be; `Read` applies it to the bytes of a stream in order, and
`finalize` is the verdict at the end. Recursion is by recursive functions, over a
number's digits, the entries of a patch and the bytes of a stream, which is what
`BipatchProofs` reasons about. Numbers are kept modulo `Word`, a byte modulo
`Base`. A shift by the width of the word or more is undefined in C++: the reader
then has the flag `undefined`, and `Verdicts` of `Delivery` lets its outcome be
either. Chunks are not modelled: the reader keeps all it knows between two bytes,
so where a chunk ends is of no effect. The position in the base file never leaves
it: the readers of the base library in `android.cpp` refuse a seek outside and
stop at the end.

### MakePatch

`mk` holds the locals of `make_patch` under their own names and the place in the
loop: `Round` starts an iteration of the outer loop, `Halve` is one step of the
binary search in the suffix array, `Match` its end with the score and the two
exits, `Continue` and `Emit` the two cases after the inner loop. The arg-max
loops (forward window, backward window, the split of their overlap) are stated
by what they find, `IsFirstBest`. The suffix array is any array in the order
`std::sort` was asked for. `out` and `cursor` are history variables: what the
reader of the entries so far has written, and where it stands.

### Delivery

`Make`, then `Publish` (zstd with one block per byte, so that every cut of the
stream can happen), then the actions of `Transfer`, then `Inflate` on the bytes
the whole blocks on disk give; `InflateDamaged` is the same with one byte
altered, `InflateFails` the output that cannot be written. A file that is not
there or has no frame header is refused (`HasHeader`). The hash check that
follows is the comparison with `newer`. `Transfer` and `MakePatch` are
abstract specifications of it: neither knows of the other.

### MC modules

`MCUpdater` is `Updater` with the symmetry of callers and URLs, `MCPublish` is
`Publish` with that of builds and architectures, `MCSections` and `MCStateFile`
give the other two a module of their own, and so does `MCDelivery`. The instances are
in the `.cfg` files.

## The runs

| run | regime | checks | states |
|---|---|---|---|
| `boot` | no overlap, kills inside sections, damage | type, fallback, validation, the inductive invariant `SerialInv`, tombstones, the boot contract | about 387 000 |
| `concurrent` | overlap, two callers, two URLs, downloads lost | what was validated stays installed until the launch, an installed patch is next or fallback, the next one is no tombstone, no artifact overwritten, NO_UPDATE means next to boot | about 1 350 000 |
| `liveness` | no overlap, server that ignores Range | every lasting offer resolved, every rollback effective | about 70 000 |
| `sections` | sections split, an update and a check overlapping, server that honours Range | fallback, no pointer to a tombstone, every tombstone but an overlooked one, rollbacks effective | about 431 000 |
| `state_file` | two threads whose sections take turns, failed saves, kills, a new release | state.json whole, identity stable, patches of this release only, events kept until tried, but for those that come late | about 1 110 000 |
| `publish` | one terminal releases, another patches and promotes, cut off anywhere | active releases and promoted patches complete, one release per version, patches fit the release | about 2 600 000 |
| `delivery` | every pair of short files, transfers cut, damaged and lost anywhere | the patch rebuilds the file, its bytes too, the score is that of its window, the maker gets further with every step and ends, the file on disk is a beginning, a tombstone has a cause | about 1 930 000 |
| `range` | as `liveness`, server that honours Range | disagreement 1 | - |
| `killed_install` | kills inside sections | disagreement 2 | - |
| `fallback` | overlap | disagreement 3 | - |
| `races` | sections split | disagreement 4 | - |
| `atomic_write` | two threads saving state.json at once | disagreement 5 | - |

Bounds. Two patch numbers: the three pointers, the patch in hand and the
patches displaced or cleaned up are compared with one another, and every
property speaks of one patch and at most one other; two numbers already give
the pairs older and newer, displaced and fallback, next and booting. Two
callers, since the try-lock is the only thing between any number of them. Two
URLs in `concurrent`, so that a patch can be offered again under another; one
elsewhere. Nothing else is bounded: kills, restarts, retries, checks and
damage happen any number of times, and the state space is finite.

`state_file`: two releases and two identities, the least that can differ;
`MaxEvents` = 4 queued events in a lifetime, one more than a drain sends; four
files, which is what two names and two writers can hold. Only `MaxEvents`
stops anything.

`publish`: two builds of one version, since every property compares the build
of a run with that of one other; two architectures, so that one can be done and
the other not; one version - two share nothing - and `MaxPatches` = 1 patch ever
created, since a patch is never changed by another's command. Runs of `release`
are unbounded.

`delivery`: files over two byte values, up to five bytes old and six new, with
every suffix array: enough for a match that is not aligned, one that beats the
old alignment, forward and backward windows that meet and overlap, and a seek
backwards. The constants of the code are scaled so that short files reach
their limits: a match must be better by more than `Slack` = 1 byte instead of
eight, `Radix` = 2 instead of 128, so that a length of two already takes two
bytes of varint and a byte is below four - with the values 0 and 3, so that a
difference wraps - and `Word` = 16 instead of 2^64. Transfers are followed for
patches of at most `MaxShipped` = 8 bytes - a header and up to eight blocks, so that
a cut, a loss or an altered byte can fall on any of several; the length of a file
matters to a transfer no further. Longer ones are made and read (`RoundTrip`) and
not sent. `CHECK_DEADLOCK FALSE`,
since a patch ends installed or tombstoned, and a long one made.

Two properties that hold in `boot` fail with overlap. `FallbackKept` is
disagreement 3. `TombstonePermanent`: a boot failure reported between
`decide_start` and `record_download_started` (updater.cpp:148) writes a
tombstone which the stale decision then overwrites with Downloading. They are
stated for the regime where they hold. `TombstonePermanent` also fails in
`Sections`, in the one way `TombstoneKept` excepts
([disagreements](#disagreements)).

## Fairness

`FairSpec` assumes weak fairness of the steps of each caller: a running
`update()` is a thread, and its steps are never waiting for anything but their
own input. Everything else the liveness needs is strong fairness of things that
are retried:

- asking the server for the patch on offer - the application calls `update()`
  again and again, and between calls it may also get no answer or lose the lock
  to another caller;
- opening the download, receiving the body or the rest of it, opening the
  files for inflate - each may fail in any one attempt, and not in all of them.

In `Sections` every step of a caller is weakly fair, and so are the steps of a
check that has an answer to apply (`CheckSection`): a thread inside a call runs on,
and `update()` is called again. That a check is made is not assumed.

`MakerEnds` assumes weak fairness of `Make`: the maker is a loop that waits for
nothing. Of the transfer nothing is assumed. `EveryStepAdvances` says the same
without fairness, as a bound on the steps.

Nothing else is assumed of the engine, of the unlocked check, of the server or of
kills: `OfferResolved` and `RollbackTakesEffect` state as their hypothesis that
the process stays up with its boot over.

## What is proved

Of the updater, TLAPS checks the following for every set of patch numbers, every
set of URLs and callers and every answer to a Range request, from the
assumptions `PatchesAssumption` (patch numbers are naturals) and
`NoneAssumption` (no patch number is the empty optional), which TLC evaluates on
every run.

- `TypeCorrect`: `Spec => []TypeOK`. The invariant proved is `TypeInv`: `TypeOK`
  and `CallersOK`, which says that a caller past the check holds a patch and a
  URL - without it `RecordStarted` could write a state for no patch.

### Boots and updates that do not overlap

These assume `ConcurrentBoot = FALSE`, and nothing of the other flags: kills
inside sections and damage are covered.

- `SerialSafety`: `Spec => []SerialInv`.
- `TombstonesAreForever`: a tombstone is never overwritten.
- `FallbackIsKept`: the last patch that booted is not forgotten unless the
  server rolled it back.
- `ValidatedIsInstalled`: after validation the next patch is installed.
- `UpdaterImplementsContract`: `Spec => ImplementsContract`, the refinement of
  `BootContract`.

The argument. None of the safety properties is inductive: whether
`RecordStarted` overwrites a tombstone depends on `PlanDownload` having looked,
and on nobody having written one since. `SerialInv` records why: updates run
only once the boot is over and work only on a patch that is neither Installed
nor Bad (`UpdatesAfterBoot`), one at a time (`OneUpdate`); the boot marker is
set only while the engine launches an installed patch, or no process runs
(`BootMarker`); the fallback is installed or bad unless rolled back
(`FallbackSettled`). With a second caller past the lock or a boot that fails
meanwhile, `UpdatesAfterBoot` is no longer preserved, which is exactly how the
properties fail under overlap. The lemmas of `SafetyProofs` say once what every
operator, and every cut of it, keeps: the tombstones (`Marks`), all but a given
set of patches (`Forgets`), the fallback (`LastKept`). The step proof then has
one step per action.

The refinement is proved from the same lemmas. Seen through the mapping, a store
operation that `Forgets` a set is the contract's `Dropped`, one that `Marks` a
patch is its `Reject` or `Fail`, and `LastKept` is what keeps its fallback; the
disk a kill leaves in the middle of an operation maps to the contract's state
before it, after it, or with fewer of the patches it drops.

### Boots that overlap updates

`ConcurrentProofs` allows any `ConcurrentBoot`, any number of callers, one
outstanding unlocked check at a time, and `CacheCleared`; it assumes
`KillInSection = FALSE` (the run `killed_install` shows what such a kill breaks)
and `Damage = FALSE` (a damaged artifact is not whole, whatever anybody does). Of
every reachable state:

- `ValidatedStaysInstalled`: from the validation to the launch, `next_boot_patch`
  is Installed or empty. Of every operation it is shown that it `Settles` the
  pointer: if it was so before, it is so after.
- `NextIsNoTombstone`: `next_boot_patch` is not tombstoned.
- `InstalledIsReachable`: an Installed patch is the next one or the fallback.
- `InstalledStaysWhole`: its artifact is the whole file.
- `NoUpdateIsCurrent`: NO_UPDATE for the patch on offer means that it is
  `next_boot_patch`, and not the fallback.

The last one says why the invariant has to be what it is: the fallback may be
Installed too, so that the offer is not the fallback must be shown from the
order in which the server publishes. `OverlapInv` records it. An offer is the
newest patch published and not rolled back when it was made, and no pointer
names a newer one that the answer carrying the offer does not roll back
(`OfferIsNewest`). A fallback newer than a patch that is Installed or being
booted was rolled back, is not Installed, and nobody downloads it
(`FallbackIsOldest`). A fallback is Installed only behind a next patch that is
Installed as well (`NextFirst`). These two were found by TLC as counterexamples
to weaker candidates: without them the step in which a failed boot promotes the
fallback cannot be proved.

### Sections that overlap

Of `Sections`, where a section loads pointers.json in one step and saves its
stale copy in another, with any number of callers and both answers to a Range
request:

- `SectionsTypes`: types, in every regime.
- `FallbackSurvivesRaces`, `RacesScheduleNoTombstone`, `RacesKeepTombstones`:
  under `ConcurrentBoot = FALSE` and `KillInSection = FALSE`, the three safety
  properties of the run `sections`. The last is `TombstoneKept`: a tombstone is
  lost only if the server rolled the patch back and a `Remove` acts on a state that
  was read before it was written.

`SplitInv` is `SerialInv` and what holds of the stale copies. The engine's
sections overlap none (`OpenSections`), so each is the section of `Updater` it
splits and the lemmas of `SafetyProofs` apply. Every patch a section has still to
uninstall, or is at, was rolled back or is the one `update()` works on
(`RemovesDoomed`), which is what `TombstoneKept` needs. A fallback that is not
rolled back is dropped by no section, so every stale copy has it (`LastAgrees`). A
section that rejects the patch it works on has it in its copy if it is scheduled
(`NextIsSeen`), so that saving the copy moves `next_boot_patch` off it. A
`Remove` writes no tombstone, and schedules only what is Installed.
`ThreadsAssumption` says that the names of the threads are apart.
`InstalledReachable` is not among these: the run `races` refutes it.

### The state file

Of `StateFile`, for any releases and any number of events, kills and failed
saves, with sections that do not overlap (`Overlap = FALSE`; the run
`atomic_write` refutes the first one with overlap):

- `StateFileIsWhole`, `PatchesAreOfThisRelease`, `ClientIsKept`, `EventsAreKept`
  and `StateFileTypes`: the five properties of the run `state_file`.

The invariant has two layers. `SerialFile` is about the sections: the temp name is
the saving thread's own, and differs from the published file until the rename;
what a thread is about to write is of the client on disk and of this release.
Patches of another release are found only next to a state of another release, and
the wipe comes before the save (`FileInv`). `DrainInv` is about the sections of
`update()` with those of the engine in between: the first three events on disk, but
for those newer than the last copy (`upto`), are in the batch being sent or tried,
and all tried when the clear is under way (`Kept`); and what the engine is about to
save is the queue on disk with newer events behind it (`Extends`).
`EventsAreKept` follows, with the exception that `EventsKept` names: an event newer
than the copy. The assumptions are that a writer always finds a free inode
(`InodesAssumption`), that releases are counted from 1 (`ReleasesAssumption`) and
that the number of events is bounded by a natural number (`BoundAssumption`).

### Publication

Of `Publish`, for any number of terminals that patch and one that releases, any
versions, builds and architectures: `PublishTypes`, `ActiveReleasesAreComplete`,
`OneRowPerVersion`, `PromotedPatchesAreComplete` and `PatchesFitTheirRelease`, the
five properties of the run `publish`. The invariant (`PublishInv`) says for each
command what it has established at each of its requests: a release run that is
about to create a row knows that there is none, one that uploads works on a draft
and whatever is not left to do is done; a patch run that has diffed an active
release finds it as it was, or knows it was disturbed.

### Delivery

Of the delivery, for all files over any set of bytes and of any length, every
radix from two on, every word size and every slack (`RadixAssumption`,
`WordAssumption`, `DataAssumption`, `BoundsAssumption`, `UnknownAssumption`,
`ShippedAssumption`):

- `PatchIsRight`: `MakeSpec => []PatchRebuilds`. The windows found by score need
  not be the best ones for the patch to be right; what counts is that they stay
  inside the files and do not overlap once split. `MakerInv` adds to the
  property the ranges of the locals (`Sound`, `Reader`): the match found lies
  inside both files, and the reader stands where the next entry starts. The
  lemma `EntryRebuilds` then says that one entry, between any two windows that
  meet, extends what is written by exactly the bytes of `newer` up to the next.
- `DownloadIsPrefix`: `TransferSpec => []FileIsPrefix`. `TransferInv` adds where
  the transfer in hand will write next: at the end of the file, unless that was
  `lost` under it.
- `ScoreIsCount`: `MakeSpec => []ScoreIsWindow`. A byte the scan leaves is taken
  off the score, so it must have been counted, and that needs the search to be
  right and not only in range: an aligned byte occurs in the old file, and over a
  sorted index the binary search finds a match of at least one byte
  (`SearchFindsByte`). `ScoreInv` adds what the search knows of its two ends, and
  that bytes between the window and the scan are not aligned.
- `MakerAdvances`: `MakeSpec => EveryStepAdvances`, why the loops of `make_patch`
  end. `StepsLeft` weighs every byte of the new file that `scan` has not passed with
  a look-up and its halvings; each step brings it down, so there are at most
  `(new_size + 1) * (old_size + 3) + 2` of them. The step that could fail is a round
  that advances by a `len` of 0. `AdvanceInv` excludes it from the second round on:
  with bytes left, the inner loop stops only at a match. That in turn takes
  `ScoreInv`: were the score ever negative, a match of no bytes could beat it by
  more than `Slack`. `DeliveryAdvances` is the same for the composition.
- `DeliveryImplementsParts`: `DeliverySpec => MakeSpec /\ TransferSpec`, every
  step a step or a stutter of each part.
- `DeliveryTypes`, `DeliveryIsRight`: types and the two properties for the
  composition, from the three above.
- `PatchRoundTrips`: `DeliverySpec => []RoundTrip`, what the reader makes of the
  bytes of a patch.
- `GoodPatchIsKept`: `DeliverySpec => []TombstoneHasCause`.

The last two assume `NumbersFit`: files of `MaxNew` and of twice `MaxOld` bytes
have lengths below `Word`. A length is written as it is and a seek doubled by the
zigzag, in words of 64 bits: a number that does not fit would come back reduced.
`Word` is 2^64 in the code, whose sizes are those of files in memory, and the
instance of the run `delivery` satisfies the hypothesis as well.

**From entries to bytes.** `PatchRebuilds` follows a reader of entries; the round
trip is about bytes, and rests on `BipatchProofs`. Three inductions over data are
needed there: over the digits of a number, the bytes of a window and the entries
of a patch. The induction theorems of the library take an operator as parameter,
which the provers cannot instantiate, so `SetInduction` states induction for a
*set*: one that has 0 and with each member the next is all of `Nat`. It is proved
from the finite-set theorems (members below one that is missing would be mapped
into themselves, one-to-one and not onto), and a proof by induction names the set
of the numbers its claim is true of. That `uvarint`, `Body` and `Read`, which are
recursive functions, satisfy their equations is proved by the same means
(`RunsExist`, `UvarintEquation`, `BodyAppend`, `ReadAppend`).

`Leads(base, r, s, q)` says that the bytes `s` bring the reader from `r` to `q`,
after whatever it has read before; parts of a stream then compose (`LeadsOn`).
From there:

1. A number is read back, digit by digit, with no shift that is undefined
   (`NumberIsRead`): the weight of a digit is at most the number, so below `Word`.
2. `LengthStarts`, `AddWindow`, `CopyWindow` and `SeekEnds` (the zigzag undone) are
   the three lengths of an entry and what they announce; `EntryIsRead` joins them:
   from one boundary between entries to the next, with the place and the output
   that `Rebuild` gives. `Readable` is what this takes: windows in the old file, and
   numbers that fit.
3. `PatchIsRead` is inductive: the reader of the bytes so far stands at such a
   boundary, at `cursor`, with `out` written. `EntryFits` shows that what
   `make_patch` emits is `Readable`, from the ranges of `MakerInv` and the bounds on
   the files. At a boundary the reader accepts the end (`BoundaryIsAccepted`), and
   `PatchRebuilds` says that `out` is then the new file.

**The tombstone.** `CauseInv` adds to this and to `TransferInv` that the file
published is the finished patch (`SentIsPatch`) and that inflate only starts on a
download recorded as complete. Unless a fault happened or the file was lost in
use, that download is the whole file, so it decompresses to the bytes of the patch
(`WholeFileInflates`), whose verdict is known (`GoodPatchInflates`).

### Only model-checked

The liveness properties (`OfferResolved`, `RollbackTakesEffect`, `MakerEnds`):
TLAPS has no reasoning under fairness. For `MakerEnds` the bound on the steps is a
theorem (`MakerAdvances`), and what is left to TLC is that the maker is never
without a next step before its end. Every other property of a passing run is a
theorem, in the regime of that run.

## <a name="disagreements"></a>Where the code and its documents disagree

1. **A complete file whose completion was not recorded is never finished**
   (`range`). A kill after the last byte and before `record_download_complete`
   leaves state Downloading and a full file. The next `decide_start` resumes
   from its end; a server that honours Range answers 416; the code throws and
   leaves file and state alone; and so on at every call. `openapi.yaml:356-358`
   says that the client takes a 416 as a hint to start again.
2. **NO_UPDATE for a patch that never boots** (`killed_install`). A kill between
   `record_install_complete` and `promote_to_next_boot` leaves an installed
   patch no pointer names. `update()` answers NO_UPDATE from then on, "already
   running the latest patch" in `dashpod_updater_io.dart:116`.
3. **An update deletes the patch being booted** (`fallback`). With overlap,
   `promote_to_next_boot` spares `last_booted_patch` but not
   `currently_booting_patch`; the success reported next makes the deleted patch
   the fallback that `engine.h:72-76` promises.

4. **An installed patch is lost to a check** (`races`). A check loads
   pointers.json, an update installs a patch and saves `next_boot_patch`, and
   the check saves the pointers it has recomputed from its stale copy. The
   patch stays installed, no pointer names it, and `decide_start` answers
   AlreadyInstalled from then on, while `dashpod_updater.dart:151-152` promises
   a patch "ready to boot on next app launch" when update() completes.
5. **An atomic write is not atomic for two writers** (`atomic_write`). Two
   sections that save state.json share `state.json.tmp`: one truncates what
   the other has open, and the first rename publishes it. A kill then leaves a
   state.json that does not parse, which costs the client its identity and
   every patch and tombstone. `disk_io.h:8` says "Atomically writes".

Smaller ones, met while modelling and not given a run:

- `openapi.yaml:418-425` describes `current_patch_number` as the patch that
  runs; the request takes it from `currently_booting_patch`
  (updater.cpp:101-105, 293-300), which is empty once the boot is reported.
- `dashpod_updater.dart:86-87` says of `upToDate` that there is no newer patch.
  It is also the answer when the check fails (dart.cpp:68-73) and when the
  newer patch is tombstoned, and it can be the answer while an `update()` with an
  older response reinstalls what the check has just removed.
- `update()` of the Dart package completes at once when another update is in
  progress (dashpod_updater_io.dart:117-124), not "when the patch is fully
  downloaded".
- The reason `downloadFailed` is never given: the core reports a failed download
  by an exception, which arrives as `unknown`.
- `updater.cpp:93-94` says of an event queued while the queue is being drained:
  "racing a queue addition is fine; the next cycle catches it". An event the engine
  queues after `copy_events(3)` (82-84) and before `clear_events` (96-97) is removed
  with the others, unsent, and no later cycle has it. TLC shows it
  when the last disjunct of `EventsKept` is left out.
- A tombstone is for the life of the release, but a cleanup can remove it
  (lifecycle.cpp:409-416): a check that applies a rollback reads Downloaded,
  `update()` writes Bad (405), and `forget_dir` (443-451) takes the directory with
  it. The patch is rolled back and so not offered; were it offered again, it would be
  downloaded again. TLC shows it in `Sections` for `TombstonePermanent`.
- `engine.h:39-41` calls the download directory "Safe to lose under storage
  pressure". When it goes between `decide_start`, or `record_download_complete`, and
  the open in `inflate_patch` (inflate.cpp:201-204), a sound patch is tombstoned for
  the life of the release (updater.cpp:182-187). When it goes between `decide_start`
  and the open for appending (network.cpp:155-158), the rest of the file is written
  to a new, empty one: a size mismatch if the length is told, a tombstone if not.
  TLC shows it in `Delivery` when `lost` is left out of `TombstoneHasCause`.
- engine.cpp:83-89 reads the path to boot before `report_launch_start`; an
  update in between promotes another patch, and the report then names that one.

## What is not modelled

The components marked `not_modelled` or `partly` in `PROJECT.json` each have
their reason. In short: JSON, YAML and zip parsing, hashing and signatures are
pure functions whose verdict is all the state sees; logging, time and string
ownership carry no property. Of the delivery, zstd and the C++ streams are taken
at what they promise, and reading a stream in chunks is left out (see `Bipatch`); the
search for `libapp.so` in the APKs of an Android installation has no state. The
statuses of the Dart package, the comparison of archives and the credentials and
cache of the CLI are steps 18 to 20 of the plan. The generated API client and
the stub packages have no behaviour of their own.
