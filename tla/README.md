# TLA+ models of DesktopUpdateKit

DesktopUpdateKit finds, downloads and installs updates of a Windows application that is one
executable. It exists twice, as a .NET library (`src/src/`, "managed") and as a C++ library
(`src/native/`, "native"), with one behaviour contract for both
(`src/docs/BEHAVIOR_CONTRACT.md`). The models follow the source; the documents only supply
what the source is held to.

`PROJECT.json` maps every definition to the lines it models, lists the runs with
the properties of each, and for each property a defect of the code that it would notice.

## 1. Inventory

| Component | Source | State | Operations | Modelled in |
|---|---|---|---|---|
| Updater stub, update | `native/updater/main.cpp`, `src/UpdaterStub/Program.cs` | target, backup and staged file, payload, health marker, processes, exit code | read the transaction, wait for the host, stage and verify, back up, place, start, wait for the marker, commit or roll back | `InstallDirectory`, `NativeUpdateStub`, `ManagedUpdateStub`, `UpdateStubs` |
| Updater stub, rename | the same files | source, target, backup, marker, processes | the same skeleton, with a move from source to target instead of a new build | `RenameDirectory`, `NativeRenameStub`, `ManagedRenameStub`, `RenameStubs` |
| Download session | `UpdateDownloadSession.cs`; `DownloadSession` in `UpdateKit.cpp` | snapshot (state, background, acceleration), control, worker, disposed, handlers | start, pause, resume, continue in background, pause when the UI closes, switch, cancel, stop, discard, dispose, notify | `ManagedSession`, `NativeSession` |
| Download engine and control | `UpdateClient.cs`, `UpdateModels.cs`; `download_and_verify`, `DownloadControl` in `UpdateKit.cpp` | the flags of the control, node list and index, attempt, ranges, the file | read the published digest, probe, download in ranges or on one connection, compare, switch nodes | `ManagedDownload`, `NativeDownload`; the bytes of native ranges in `RangeAssembly` |
| HTTP transport | `WinHttpTransport` in `UpdateKit.cpp` | the active requests and who holds which handle | get, abort | `HttpTransport` |
| Node resolution | `ResolveNodes`, `resolve_nodes`, `parse_release`, `NodeSelection.h` | none | validate, order and filter the nodes, find the next one | `NodeResolution`, `DownloadNodes` |
| Node cache | `UpdateNodeCache.cs`, `load_cache`, `save_cache` | a JSON file and its temporary one | load, change, replace | `NodeCache` |
| Launchers | `UpdateLauncher.cs`; `launch_update`, `launch_rename` | the transaction directory | extract the stub, write the transaction, start it, tidy up after a failure | `ManagedDirectory`, `TransactionDirectory` |
| Stub clean-up | `cleanup_after_stub`; `ScheduleSelfCleanup` and its script | the same directory | delete it once the stub is gone | the same two |
| Manifest, transaction JSON | `UpdateClient.cs`, `Json.cpp` | none | parse, format | the nodes of a manifest only |
| Progress meter | both frontends | a sliding window | speed, throttled reports | no |
| Embedded stub source | `UpdaterStubSource.cs` | none | open a resource | no |
| Release tools | `tools/*.ps1` | GitHub release | build, upload, publish | no |

How they interact. An application asks the client for an update and gives the manifest to a
*session*, which runs the *engine* on a worker (a thread pool task, or a `std::jthread`) and hands
it a *control*. Calls of the session write flags of the control, which the engine reads when it
gets to it, and abort the requests under way. The session announces changes through a callback,
from any thread. A finished download goes to the *launcher*, which starts a *stub* in a process of
its own and ends the application; the stub and the new build share nothing but files: the
executable, its backup, and the health marker.

What is hard in it:

- *The stub* runs unattended. It may die between any two file operations, each of which may fail;
  the process it started may write its marker at any time, end at any time, or refuse to end; and a
  running image can be renamed but not deleted.
- *The managed session* has two reentrant locks and calls foreign code (handlers, a cancellation
  source, the synchronous beginning of an asynchronous method) under them.
- *The native session* keeps its mutexes short. What a call has read is old by the time it acts.
- *The engine* is interrupted at any moment by calls that set a flag and only then close the
  requests, so that an interruption can hit an attempt it was not meant for; and while it writes a
  file in several tasks, the failure of one of them makes it delete that file and begin again.

- *Several processes* share one cache file and its temporary name; several *launches* may share one
  directory, and whatever cleans it up runs after the process that knew about it has ended.
- *Unsigned arithmetic* divides a file among connections, for any size that a manifest gives.

The correctness of each part, in a sentence. *Stub:* a build that worked is never lost, nothing
unverified is installed, and the exit code tells the truth. *Rename:* neither the application nor
the file that had its name is lost. *Session:* one download at a time, always under control; the
changes arrive in order, to the last, and not after the end; cancelling and closing come to an end.
*Engine:* what it returns was verified and nobody writes to it any more; a switch costs an attempt
and not the download; it ends. *Transport:* a handle is closed once, and an abort reaches every request.
*Nodes:* whatever the cache holds, a download gets a sound list, and the node verified last leads it.
*Directories:* a stub finds the transaction it was started for, and nothing is left without a reason.

## 2. Modules

```
HealthConfirmedInstall          what both update stubs promise (abstract)
        ^ Promise == INSTANCE ... WITH copies, outcome
InstallDirectory                files, processes, environment, properties
   +-- NativeUpdateStub, ManagedUpdateStub
   +-- UpdateStubs              both, one for each application        +-- UpdateStubsProofs
RenameDirectory                 the same for renames
   +-- NativeRenameStub, ManagedRenameStub
   +-- RenameStubs              both                                  +-- RenameStubsProofs
ManagedSession                  the managed session                   +-- ManagedClientProofs
ManagedDirectory                managed launchers and clean-up        +-- ManagedClientProofs
NativeSession                   the native session                    +-- NativeClientProofs
TransactionDirectory            native launchers and clean-up         +-- NativeClientProofs
DownloadNodes                   the nodes and the search for the next +-- DownloadNodesProofs
   +-- ManagedDownload          the two engines with their controls   +-- ManagedDownloadProofs
   +-- NativeDownload                                                 +-- NativeDownloadProofs
RangeAssembly                   the bytes of native ranges            +-- TransferProofs
HttpTransport                   requests and aborts                   +-- TransferProofs
NodeResolution                  validation and order, as operators
   +-- NodeCache                the cache file and its writers        +-- TransferProofs
MC*                             constants for TLC, symmetry, nothing else
```

A module of proofs may extend several modules at once, which is why the specifications of the sessions, the
ranges and the cache are called `SessionSpec`, `RangesSpec` and `CacheSpec`, and their parts accordingly.

Definitions whose comment begins with "Mutant" are not part of a model. Each is a defect that the
code might have had: the form of one definition with which a property of the project fails.

### Update stubs: InstallDirectory, NativeUpdateStub, ManagedUpdateStub

A file's content is the build it holds: transaction `t` delivers build `t`, `Installed` is the one
before them, `Torn` is anything incomplete or with the wrong digest. A process is the build its image
was loaded from. `InstallDirectory` has the state and everything that happens around a stub:
an application launches it and leaves, users start and end applications, the started build writes its
marker (or does so late, or never) and ends, the payload is damaged, the stub is killed (`Crash`), the
machine goes down (`PowerLoss`: the moves are write-through and the staged copy is flushed, so files
stay as they are and processes do not). The stub modules add one action per operation of the code that
something can fall in front of; `pc` names the place. An action that can fail lists what the code does
then:

| Action | Native (`main.cpp`) | Managed (`Program.cs`) |
|---|---|---|
| `ReadTransaction` | `wmain`; 10 | `Main`; 10 |
| `WaitForExit`, `WaitGivesUp` | `wait_for_exit`; 20 | `WaitForProcess`; 20, 10 when it throws |
| `Stage`, `Copy` (and `Verify`) | `copy_verified_payload` hashes what it copies; 40 | copy, then hash the copy; to the catch block |
| `CheckTarget`, `Backup`, `Place`, `UndoBackup` | `move_no_replace` and its undoing; 40 | `File.Move`; to the catch block |
| `Start`/`StartTarget`, `MarkerSeen`, `HealthLoopEnds` (managed: `MarkerNotSeen`, `HasExited`, `Deadline`), `NotHealthy`, `Terminate`/`TryTerminate` | `start_and_wait_for_health` | `WaitForHealth`, `TryTerminate` |
| `RemoveNew`, `Restore`, `Restart` | roll-back; 30, or 40 when the move fails | `Catch`, `RestoreDeletes`, `RestoreMoves`, `TryStartRestored`: failures are swallowed |
| `RemoveBackup`/`DeleteBackup`, `Cleanup`/`DeleteDirectory` | the way out of every path | the same |

`prior` is the code's `target_present`, with the content for the sake of the properties. `good` and
`confirmed` are history: the build whose marker was seen last, and the transactions that got there.
Native updates may begin with no target at all (`launch_update` does not ask for one); managed ones
require it (`ManagedInit`). `Unhashed` are the transactions of an old managed host, which carry no
digest. `Overlap` says whether a second stub may be launched while one is at work.

`HealthConfirmedInstall` knows nothing of files: there are copies of builds, the confirmed build's copy
may never go away, a transaction that has put its build somewhere may confirm it, and every transaction
comes to an end. `Promise` in `InstallDirectory` maps the concrete state to it: copies are what is at
the target or in a backup, a transaction is open while its stub is at work.

`UpdateStubs` puts the two stubs side by side (`N == INSTANCE NativeUpdateStub`, `M == INSTANCE
ManagedUpdateStub`): `frontend` says with which package the application was built, and one instance of
TLC explores both with the same environment. `TrueCodes` is `HonestCodes` for the native stub and
`HonestSuccess` for the managed one, which reports 30 also when its roll-back has failed.

### Rename stubs: RenameDirectory, NativeRenameStub, ManagedRenameStub, RenameStubs

Laid out in the same way. There are two contents, the application `App` under the wrong name and
`Prior`, whatever already has the right one (or nothing has). The native stub remembers what it moved
and undoes that; the managed one looks at the disk to find out what there is to undo (`Look`
and what follows it are `RestoreRenamedExecutable`, its checks and its uses separate steps). `healthy` is history.
`RenameStubs` puts both side by side as `UpdateStubs` does; native stubs may overlap, managed ones
(`OneAtATime`) run one after the other.

### Managed session: ManagedSession

A thread is a stack of frames, because three kinds of code run inside a call of another kind: a
`Changed` handler may call the session; a download that fails before its first `await` ends inside
`TryStart`; and a cancelled delay or pause runs its continuation inside `Cancel()` (neither
`Task.WaitAsync` nor `Task.Delay` moves cancellation to another thread). The frames that hold `_sync`
and `_callbackSync` are listed (`SyncFrames`, `CallbackFrames`); a lock is free for a thread if no other
thread has such a frame. A call of the session that neither calls foreign code nor takes the second
lock under `_sync` is one action (`Pause`, `Resume`, `ContinueInBackground`,
`SetUseAccelerationNodes`, ...); the others are split where they can wait or be entered:
`TryStart`/`StartReturns`, `PauseWhenUiCloses`/`ClosePauses`, `Cancel` and `StopAsync`/`CancelReturns`,
`Dispose`/`Disposes`, and `RaiseChanged` as `Raises`, `ReadsSnapshot`, `Invokes`, `HandlerReturns`. The
download of run `r` is reduced to what the session sees of it: it waits (`Suspends`, `Wakes`), reports
progress, and ends (`Finishes`); `SetTerminalState` records that. `version` counts the replacements of
`_snapshot` and `shown` is the one a handler saw last.

### Native session: NativeSession

Also stacks of frames, for the application thread and the worker; a callback runs on either and may call
the session. No mutex but the recursive one of a callback slot is held across foreign code, so that what
happens between two unlocks is one step: `Pause` is `PausesControl` and then `PausesState`, `Resume` is
`ResumesState` and then `ResumesControl`, a notification is `CopiesSnapshot` and later `Delivers`.
`Start`/`StartsWork` join the last worker and replace the control; `WaitForStop`, `WaitEnds` and
`WaitTimesOut` are `wait_for_stop`; `SetChangedCallback` and `Retires` replace the slot; `Destroy` and
`DestroyCancels` (cancel, then join) are the destructor. The worker is `Blocks`, `Wakes`,
`ReportsProgress`, `Completes`, `Throws`, `Finishes`.

### Engines: DownloadNodes, ManagedDownload, NativeDownload

`DownloadNodes` has the node list as a constant (`Order`, `Direct` being `github-direct`), `Resolved`
(all of them, or the official one alone when acceleration is off) and `NextAccelerated`, the search for
the next acceleration node. The engines follow `DownloadAndVerifyAsync` and `download_and_verify`:
`stage` is where the method is, one action per request sent or ended, one task or thread per range.
An answer is right, wrong in its bytes but not in its size, or not acceptable at all. The file is
`"none"`, `"partial"` (managed only: the ranges write to the file itself, the native ones to parts), `"good"` or
`"bad"`. The user may call the control at any moment. In the managed engine a call replaces what
the attempt's token is linked to, at once. In the native one it sets its flag, and `Interrupt` closes the
active requests later: those of the attempt it meant, or of the next one. `fault` is history: whether the
node was last left on account of an interruption or by its own failure.

The retry loop, the fall-back from ranges to a single connection, the probe that swallows everything, the
deletions that may fail, `ConsumeNodeSwitchRequest` against `node_switch_request_`, and the place in the
list after a switch are all in the models, since their combination is what a test hardly reaches.

### Ranges: RangeAssembly

`download_parallel` with numbers of `Modulus` values instead of 2^64. `Begin` and `End` are lines 662-663
with their wrap-around; `AnswersRange` are the `Content-Range` headers and lengths a server may send, each number
right or off by a member of `Slack`; `Accepts` is what the code compares, and `Merges` the check of the total
size. `exact` is history: whether every answer so far was the right one. `NativeDownload` knows of ranges only that
they succeed or fail, and this module says when.

### Transport: HttpTransport

`get` opens a handle (`Opens`), registers it (`Registers`), reads (`Answers`, `Takes`, `Ends`, `Fails`) and cleans
up in three steps: `Exchanges` takes the handle out of its atomic holder, `Closes` closes what it got, `Erases` takes the
request off the list. `abort_active` copies the list under the mutex (`Copies`) and then exchanges and closes one
request after the other (`AbortTakes`, `AbortCloses`). `closes` counts how often each handle was closed, `seen` is history.

### Nodes: NodeResolution, NodeCache

`NodeResolution` has no state. `Valid`, `Normal`, `Kept` and `ByPriority` are `normalize_node(s)` and
`TryNormalizeNode`/`NormalizeNodes`; `Chosen` picks from a list and `ByPriority` sorts it, both by counting who comes before whom
(`Arranged`), because the prover knows nothing of `SelectSeq` and of sorting by a choice among permutations; `AcceptsNodes` and `Parsed` the nodes of a manifest; `NativeNodes`, `ManagedNodes`, `LastFirst`
and `Resolved` the resolution. An id stands for all spellings that differ in case, a template for what its checks
find (`"plain"`, `"https"`, `"invalid"`).

`NodeCache` has the file (`path`) and its temporary one (`tmp`), which hold a cache, nothing, an empty text or one
with the end of another behind it (`Torn`). A check, the end of a download and a resolution go through `Loads`, `Reads`,
`Truncates`, `Writes`, `Moves` and `Removes`, each in a process that others overlap with and that may be killed in between
(`Crash`). Windows refuses to replace a file that is open without sharing deletion (`CanMove`); the managed client
also refuses a second writer (`Truncates`). `Expires` is the seven days. `latest`, `solo`, `overlapped` and `crashed` are history.

### Directories: TransactionDirectory, ManagedDirectory

The launch actions of `InstallDirectory` and `RenameDirectory` take a launch to succeed; these two modules follow what
it does, fails at, and leaves. In `TransactionDirectory` a native launch goes through its host (`WritesBody`,
`ReadsBody`, `RemovesBody`, `Extracts`, `WritesTransaction`, `Starts`, `Discards`), its stub (`ReadsTransaction`, `Works`,
`Schedules`) and its cleaner (`Waits`, `RemovesStub`, `RemovesTransaction`, `RemovesDirectory`). The directory's name consists of a process
id and a tick count, so that two launches may get the same one (`MakesName`). A running image and the current directory
of a process cannot be removed. In `ManagedDirectory` the directory is that of the download: several calls
of `LaunchAsync` and `EnsureCanonicalExecutableNameAsync` may use it, `Discards` (`DiscardCompleted`) may delete it, and a script
removes it after the stub. `failures` bounds what fails without a cause in the model; `reasons` is history: why something
of a launch may be left.

## 3. Runs

The numbers are TLC's counts of distinct states. The passing runs explore their whole state space.

| Run | Instance | States | Properties |
|---|---|---|---|
| `update_stubs` | 2 transactions one after the other, of either frontend, the second without a digest | 218,878 | `TypeOK NoLoss VerifiedOnly TrueCodes PromiseSpec MarkerLeadsToCommit` |
| `rename_stubs` | 2 transactions of either frontend, the native ones possibly at once | 49,230 | `AppKept NativePriorKept TrueCodes` |
| `managed_session` | 2 application threads, 2 downloads, 3 calls, 1 report | 179,331 | `NoOrphan PausedAgrees LastShown QuietAfterDispose InOrder CancelEnds` |
| `native_session` | 5 calls, 2 callbacks | 76,861 | `QuietAfterReset FinishedIsTerminal OutcomeStays DestroyEnds` |
| `managed_download` | 3 nodes, 2 ranges, 1 retry, 4 calls | 20,944 | `Returned SwitchKeepsDownload InterruptAnswered DownloadEnds` |
| `native_download` | 3 nodes, 2 ranges, 1 retry, 3 calls | 422,881 | `Returned DownloadEnds` |
| `range_assembly` | numbers of 5 bits, up to 4 connections, answers off by one | 3,232 | `Assembled RangesSuffice` |
| `http_transport` | 2 requests, one without an end, 2 aborting threads | 5,156 | `ClosedOnce NoLeak AbortReaches AbortedEnds` |
| `node_cache` | 2 processes, 3 operations, 4 manifests, either frontend | 584,564 | `Readable Published OrderedNodes SuccessLeads` |
| `transaction_directory` | 2 launches, 2 directories, 2 failures | 181,180 | `Delivered NothingLeft` |
| `managed_directory` | 3 calls, 2 directories, 1 failure | 559,713 | `OneStub Delivered Emptied` |

What they show:

- **`update_stubs`**: through every failed operation, crash and power loss, the build that last reported that it
  works is at the target or in a backup (`NoLoss`); nothing that failed verification is at either place until a
  transaction without a digest begins (`VerifiedOnly`); when the stubs have ended, their codes are true
  (`TrueCodes`); each stub implements `HealthConfirmedInstall`, its liveness included (`PromiseSpec`); and a marker
  that is there in time is not followed by a roll-back (`MarkerLeadsToCommit`). The last is stated of the native
  stub: the managed one does not look at the marker again when the process has ended.
- **`rename_stubs`**: the application's only copy survives every order of moves, failures and crashes (`AppKept`),
  and so does, in the native stub, the file that had the canonical name, until the rename is confirmed
  (`NativePriorKept`); the codes are true (`TrueCodes`).
- **`managed_session`**: a running download is always the one the session shows and controls
  (`NoOrphan`); the control is paused exactly when the session says so (`PausedAgrees`); changes are
  delivered in order (`InOrder`) and to the last (`LastShown`); after `Dispose` no handler runs but the
  one that called it (`QuietAfterDispose`); and a cancelled download ends, unless two threads have the
  two locks in opposite orders (`CancelEnds`; section 4 for that case).
- **`native_session`**: a callback that has been replaced does not run any more (`QuietAfterReset`); when
  the worker is reported finished its outcome is there (`FinishedIsTerminal`), and no late pause or resume
  takes it away (`OutcomeStays`); the destructor ends (`DestroyEnds`).
- **`managed_download`**, **`native_download`**: the file that is returned is the one that was compared,
  and no task or thread of a failed attempt still writes to it (`Returned`); the download ends unless a
  pause holds it (`DownloadEnds`); and for the managed one, a switch or cancellation gets through a
  pause (`InterruptAnswered`) and no switch fails the download while acceleration nodes are in use
  (`SwitchKeepsDownload`).
- **`range_assembly`**: whatever the size is and whatever the servers answer, a merged file is the file
  (`Assembled`); right answers fail only if the file has fewer bytes than there are connections or the products
  wrap around (`RangesSuffice`), and then the caller falls back to one connection.
- **`http_transport`**: no handle is closed twice (`ClosedOnce`), every `get` gives its handle and its place on the
  list back (`NoLeak`), an abort passes no registered request over (`AbortReaches`), and each of them ends, also
  the one whose server never stops (`AbortedEnds`).
- **`node_cache`**: an unreadable cache takes two operations that overlap, and for the managed client a kill as well
  (`Readable`); an operation that nothing overlaps publishes what it meant to (`Published`), over whatever others have left;
  whatever is in the file, a download gets a list that is ordered, without doubles and with the official node, and both
  frontends the same one from the same manifest (`OrderedNodes`); and the node verified last leads it as long as
  operations do not overlap (`SuccessLeads`).
- **`transaction_directory`**: a stub that has its directory to itself gets the transaction of its launch
  (`Delivered`), and a directory that is left has a reason: something failed or was killed (`NothingLeft`).
- **`managed_directory`**: at most one stub is started per download, however many threads launch it and
  however often (`OneStub`); it finds the transaction of the call that started it (`Delivered`); and its script leaves
  nothing in the directory without a reason (`Emptied`).

### Bounds

- *Two transactions* are the least for which a backup, a marker or a process of an earlier one can meet a
  later one. Paths are unique per launch, so a third meets no file that a second does not. The
  theorems of section 5 hold for any number.
- *`Overlap`* is FALSE for updates, since one instance of the application launches stubs one after the other, which is how
  the launchers are meant to be used; section 6 says what overlapping stubs do.
- *Sessions*: two downloads are needed for a late end of the first to meet the second (`NoOrphan`).
  Three calls and one report let two threads raise `Changed` while a third call comes from a handler. Five
  calls on the native side allow start, pause, resume on two threads, replacement of the callback and
  destruction. Two slots are one to be replaced and one to replace it.
- *Downloads*: three nodes with `github-direct` in the middle make the search pass over it and wrap
  around; two ranges let one fail while the other writes; `Retries = 1` is the most the code allows
  (`EffectiveMaxRetriesPerNode`, `retries_per_node`); three to four calls let a second switch arrive before the first
  has been applied, together with a pause.
- *Ranges*: five bits make all sizes from 1 to 31 meet up to four connections, so that small files, exact
  divisions, remainders and products that wrap around all occur. The theorems have no bound on the modulus.
- *Transport*: two requests and two aborts let one abort close what the other has taken a copy of, while `get`
  cleans up. An abort can be repeated without a bound.
- *Cache*: three operations of two processes let an overlapping or killed pair leave something behind that a third,
  alone, has to cope with. The manifests have equal priorities, a priority above the official node's, a disabled node and
  one that a frontend refuses; the host's lists have insecure and duplicate nodes.
- *Directories*: two launches that may share a name and two failures let the clean-up after a failure fail too; three calls are
  a launch, its repetition and one from another thread or for the next download.
- The counters `calls`, `reports`, `begun`, `slots`, `left` and `failures` exist for these bounds alone.

Deadlock is checked for the stubs. The other runs switch it off: a session that nobody
calls any more stands still, as do a download that has ended and a directory that nobody uses, and calls,
operations and failures are bounded. What must not stand still is stated as a liveness property.

### Fairness

- *Stubs*: `WF` of a step of the stub: every wait in it has a deadline (the parent, the health loop, the three
  seconds after the termination), so a stub that is not killed goes on. The managed health loop polls in
  two steps, so that `Deadline` is enabled again and again without staying so: `SF(M!Deadline(t))`. Nothing is
  assumed of the environment: neither that the marker is written nor that any process ends.
- *Sessions*: threads are scheduled and handlers return, `WF(GoesOn(th))`; a waiting download is woken. A
  download finishes, once cancelled, under strong fairness, because each of its requests, delays and
  pauses takes the token; one that is not cancelled need never finish.
- *Downloads*: `WF(~Held /\ Step)`, and the same for ranges: requests have timeouts, and nothing is promised
  while a pause holds the download. The native `Interrupt` is the second half of a call that has begun.
- *Transport*: `WF` of every thread that is inside `get` or `abort_active`; timeouts make each WinHTTP call return.
  Nobody has to call `abort_active`, and an endless server is allowed to go on for ever.
- The cache, ranges, renames and directories have safety properties only.

## 4. Divergences

One run checks a property that a comment states and the code does not keep.

**`managed_rename_prior`** (`PriorKept`). If the backup of the prior executable fails,
`RunRename`'s catch block calls `RestoreRenamedExecutable` (`Program.cs:206-226`), which finds a
source and a target, takes the target for the renamed application and deletes it. The executable that had the
canonical name is gone without a backup. The comment in line 223 wants to keep whatever remains.

The following were met while modelling. The models contain the behaviour; the properties above are stated so
that they leave it out, at the place named here.

- *`StopAsync` can block for ever.* It calls `Cancel()` under `_sync` (`UpdateDownloadSession.cs:221`). If that runs the
  download's continuation, its `RaiseChanged` waits for `_callbackSync`, while a thread that raises `Changed` holds that
  lock and waits for `_sync`; the timeout has not begun to run. `CancelEnds` leaves the state out as `Deadlocked`.
- *A native switch while the published digest is read* aborts that request, which is outside of the loop over the
  nodes: the download fails, although `DOWNLOAD_ARCHITECTURE.md:34` says that a switch interrupts only the attempt at
  a node. `SwitchKeepsDownload` is stated of the managed engine.
- *`pause_when_ui_closes`* (`UpdateKit.cpp:1126`) does not look at `snapshot_.background` and pauses a download that was told to
  continue in the background (`DOWNLOAD_ARCHITECTURE.md:44`; the managed session does look).
- *A native `pause` that overlaps with a `resume`* leaves a session that says "paused" while the download goes on.
- *The managed stub ignores a marker* that is written between its last look and the end of the process (`Program.cs:153`), and
  rolls back a build that works. `MarkerLeadsToCommit` is stated of the native stub.
- *Order of the nodes*: `DOWNLOAD_ARCHITECTURE.md:32` puts the official node last, but it takes part in the sort with priority
  1000, and manifests may give nodes up to 10000. The same line gives both frontends built-in nodes; the native client has none.
- *A native download of a Release without nodes* is served from the cached nodes and then replaces them by nothing
  (`UpdateKit.cpp:979`); the managed client keeps them.
- *A check that overlaps the end of a download* writes the older success back (`UpdateKit.cpp:908`, `UpdateNodeCache.cs:57`).
  `SuccessLeads` is stated of operations that do not overlap.
- *Nothing removes the directory of an earlier update*, although `Program.cs:318` and `UpdateClient.cs:855` leave that to the
  next one. `Emptied` and `NothingLeft` are stated of a launch and its own clean-up.
- *A managed launch that fails after the stub was extracted* cannot be repeated for the same download: `FileMode.CreateNew`
  finds the stub there (`UpdateLauncher.cs:179`). This is what makes `OneStub` hold.

## 5. Theorems

TLAPS checks these for every value of the constants that satisfies the named assumptions.

| Module | Theorem | States |
|---|---|---|
| `UpdateStubsProofs` | `TypeCorrect` | `Spec => []TypeOK` |
| | `VerifiedAlways` | `Spec => []VerifiedOnly`, overlapping stubs or not |
| | `NeverLost` | `ASSUME ~Overlap PROVE Spec => []NoLoss` |
| | `CodesAreTrue` | `ASSUME ~Overlap PROVE Spec => []TrueCodes` |
| | `KeepsPromise` | `ASSUME ~Overlap PROVE Spec => Promise!Safety`: either stub implements the safety part of `HealthConfirmedInstall` |
| `ManagedDownloadProofs` | `DownloadTypes`, `ReturnedAlways`, `SwitchAlwaysKeeps` | `TypeOK`, `Returned`, `SwitchKeepsDownload` |
| `NativeDownloadProofs` | `DownloadTypes`, `ReturnedAlways` | `TypeOK`, `Returned` |
| `DownloadNodesProofs` | `NextAcceleratedIndex` | the node a switch goes to is an acceleration node of the list, or 0 stands for none |
| `RenameStubsProofs` | `TypeCorrect` | `Spec => []TypeOK` |
| | `OneAfterAnother` | `ASSUME ~Overlap PROVE Spec => []OneAtATime` |
| | `ApplicationKept` | `Spec /\ []OneAtATime => []AppKept` |
| | `PriorIsKept` | `Spec => []NativePriorKept`, overlapping stubs or not |
| | `CodesAreTrue` | `Spec /\ []OneAtATime => []TrueCodes` |
| | `ManagedStubsAreSafe` | `Spec => [](frontend = "managed" => AppKept /\ TrueCodes)` |
| `ManagedClientProofs` | `SessionTypes`, `NeverAnOrphan`, `PausedAlwaysAgrees`, `LastIsShown`, `QuietOnceDisposed`, `DeliveredInOrder` | of the session: `SessionTypeOK`, `NoOrphan`, `PausedAgrees`, `LastShown`, `QuietAfterDispose`, `InOrder` |
| | `ManagedDirectoryTypes`, `OnlyOneStub`, `AlwaysTold`, `NothingIsLeft` | of the directories: `TypeOK`, `OneStub`, `Delivered`, `Emptied` |
| `NativeClientProofs` | `SessionTypes`, `QuietOnceReset`, `OutcomeIsThere`, `OutcomeRemains` | of the session: `SessionTypeOK`, `QuietAfterReset`, `FinishedIsTerminal`, `OutcomeStays` |
| | `DirectoryTypes`, `AlwaysDelivered`, `NothingIsLeft`, `FailuresLeaveNothing` | of the directories: `TypeOK`, `Delivered`, `NothingLeft`, `FailedLeavesNothing` |
| `TransferProofs` | `RangeTypes`, `AssembledAlways`, `RangesAlwaysSuffice` | `RangesTypeOK`, `Assembled`, `RangesSuffice`, for every width of the numbers |
| | `TransportTypes`, `AlwaysClosedOnce`, `NeverLeaks`, `AbortAlwaysReaches` | `TypeOK`, `ClosedOnce`, `NoLeak`, `AbortReaches` |
| | `CacheTypes`, `CacheIsReadable`, `SaveIsPublished` | `CacheTypeOK`, `Readable`, `Published`, for any number of processes |
| | `NodesAreOrdered`, `SuccessAlwaysLeads` | `OrderedNodes`, `SuccessLeads`, for lists of any length |

*Assumptions.* `InstallAssumption`, `RenameAssumption`: the names of builds, `NoFile` and `Torn` differ. `NodesAssumption`: the nodes
are a sequence with the official one in it (`NormalizeNodes` and the manifest check insist on it).
`DownloadAssumption`: finitely many ranges, at most one retry. `RangesAssumption`: a modulus of two at least.
`TransportAssumption`, `DirectoryAssumption`, `ManagedAssumption`: the value that stands for nothing is none of the others.
`SessionAssumption`: the bounds are numbers, and no caller is a run. `ResolutionAssumption`, `CacheAssumption`: manifests, the
host's lists and the built-in nodes are lists of nodes, and a file that holds no cache is told apart from one that does.
`OneAtATime` is a hypothesis on behaviours rather than a constant: one instance of the application launches stubs one after
the other, and with three native rename stubs that overlap `AppKept` does not hold (section 6). `OneAfterAnother` discharges it where `Overlap` is FALSE, and the managed stubs meet it always.

*The update stubs.* `Spec` is that of `UpdateStubs`, so every theorem is about both frontends, and its invariants say once what
the two stubs have in common. `VerifiedOnly` is not inductive: that `Place` moves a verified build in rests on what
happened two steps before. `VerifiedInv` adds that from the comparison of the digests to `Place` the staged file of `t` is
`t`; no step of another stub touches it, so this needs no assumption on `Overlap`. For the managed stub all of it holds until a
transaction without a digest begins. `NoLoss` needs more: `SequentialInv` says that at most one stub is at work, that until
`Place` its build is neither confirmed nor installed anywhere and its backup does not exist, that between `Backup` and `Place`
there is nothing at the target, that from `Place` to the roll-back the build is on trial (it has no second copy and is not the
confirmed one, so that the confirmed one is in a backup when the target is deleted), and that at the commit it is both at the
target and confirmed (so that the backup can go). The managed stub comes to its roll-back from every statement that throws: it
deletes the target only when there is a backup, which is what makes the target the build on trial there (`RollsBack`).
For the codes the stubs differ. The native one checks that its roll-back worked: `HonestInv` says that as long as no stub has
crashed or reported 40, the confirmed build is at the target, or in the backup of the one stub on trial, which knows that it
has one to restore. The managed one swallows failures of its roll-back, but it has chosen 30 or 40 before it begins
(`SuccessInv`): until then the confirmed build is at the target, or this stub has moved it away.
`KeepsPromise` reuses `VerifiedInv` and `SequentialInv`. Each concrete step is an abstract one or a stutter:
moves between target and backup leave `Copies` as it is (`MoveKeepsCopies`), `Place` adds the build or something that is none
(`Places`), the end of a stub is `Close` (`Closes`), and what is deleted is not the confirmed build (`DropsTrial`,
`DropsBackup`), which is what `SequentialInv` is for.

*The rename stubs.* `AppKept` becomes inductive with what a stub may still destroy: `PlacedInv` says that no backup is the
application and that a stub that has yet to set aside, or to delete, what it finds at the target does so while the
application is at the source. `PriorInv` says that the native stub deletes a backup only when there is a health marker, which
needs no assumption on overlapping. For the codes, `CodesInv` follows the one stub at work (`Stands`): until the move everything is as
it was at first, on trial the application has the canonical name and the backup has what was there, and a stub that ends
leaves one of the two (`Settled`), for as long as no stub crashed or reported that it does not know (`Trusted`).

*The sessions.* Their threads have stacks of frames, since a handler may call the session that called it. The invariants are
about stacks of any depth: lemmas on what a push, a replacement and a return do to the labels of a stack (`OneMore` and those that follow it)
take the place of an induction. `SessionInv` of the managed session says that below the innermost frame there are only those from which foreign
code runs (`OnlyForeignAbove`), that the session owns the run that was started last for as long as that goes on
(`RunInv`), that what is about to be recorded has ended (`EndInv`), that `_callbackSync` has one owner (`LockInv`), and that what is about
to be delivered lies between what was shown and the current version, and that somebody is about to deliver as long as these differ
(`ShownInv`). From it `InOrder` and `LastShown` follow at once. That of the native session relates the state to its worker
(`WorkInv`): the state says how a download has ended before `worker_finished_` is set, which is what `OutcomeRemains` needs
when a late pause or resume writes the state. `QuietAfterReset` is inductive with it: only what a slot holds can be called.

*The downloads.* `Returned` rests on `FileInv`: outside of the stage `"ranges"` no task or thread of a range is
at work, because `RangesEnd` waits for all of them. `TypeOK`'s bound on `index`, and with it `SwitchKeepsDownload`,
rest on `NodeInv`: at a node, `nodes` is what was resolved for the mode in `was`, and `index` is one of it; that
a switch keeps to this is `NextAcceleratedIndex`, whose lemmas are on remainders and least elements.

*The ranges.* `PartInv` says of each part file what was accepted for it: it begins at `Begin(i)`, its range lies inside of
the file (`Begin(i) <= End(i) /\ End(i) < expected`), and its length is that of the range; and a right answer was refused only
where the range was not such a one. Each of these parts then ends where the next begins (`EndBeforeNext`; a difference below
zero, `WrapBelowZero`, would lie outside of the file), and the check of the total size closes the last one (`MergedIsWhole`): so
`Assembled` needs no assumption on sizes. For `RangesSuffice`, `Divides` shows that without wrap-around and with as many bytes as
connections every range is inside of the file. The lemmas on `\div` and `%` (`Quotient`, `BeginRange`, `WrapRange`) are what
the solver does not find by itself.

*The transport.* `Exclusive`: at most one of the request, `get` and the aborts has the handle, and only while it is open. It gives
`ClosedOnce`; with `Accounted` (a request that is being read has its handle somewhere, or it was closed) it gives `NoLeak`. `Copied` says that an abort's list was registered when it began, for `AbortReaches`.

*The nodes.* A list is put in order by ranks: the member with `k - 1` others in front of it is the `k`th (`Arranged`).
`ArrangedArranges` shows that this is a list of all members in their order, and `OneArrangement` that there is no other, for every
order of a finite set. So `Chosen` and `ByPriority` keep what they are given, without doubles (`ChosenKeeps`, `SortKeeps`),
and sorting before the disabled nodes are left out, as the native client does, is the same as behind that, as the managed
one does (`SortingCommutes`): both lists arrange the same places by the same order. `Sound` is what both frontends make of any
Release and any cache, and `LastLeads` what remains of it when one node is moved to the front.

*The cache.* `Calm` says of operations that do not overlap that the temporary file is what the one at work has made of it; `Shared` that in the managed
client, as long as nothing is killed, one process at most is writing and an empty temporary file is its own; `Alone` follows the one operation that nothing
got in the way of, for `Published`. `Leading` says that as long as operations neither overlap nor are killed, whoever is to
write carries the node verified last, and that the file has it whenever it may be read.

*The directories.* Both invariants say of each launch what is in its own directory. For a native one, `Carries` follows the
transaction from the host to the stub, and `Tidy` says which files are there at each step as long as nothing has failed
(`Expected`), so that the last removal finds the directory empty; they hold for a launch that is `Alone`, and `LocalInv`
shows that the steps of other launches leave them as they are. For a managed one, `Guarded` says that the stub's file is there
from `Extracts` on for as long as its host may launch, so that no second call gets past `FileMode.CreateNew` (`Single`), and
`Told` that the transaction is that of the call that extracted. `EmptiedInv` adds that when its script comes to the directory the stub
is gone and no host of it is left, so that nobody is in the way of the removal.

*Only model-checked*: the liveness properties (`MarkerLeadsToCommit`, `CancelEnds`, `DestroyEnds`, `DownloadEnds`,
`InterruptAnswered`, `AbortedEnds`) and the liveness part of `PromiseSpec`: liveness under fairness and `ENABLED` are out of
the prover's reach. `AppKept` and `TrueCodes` of two native rename stubs that overlap are checked by `rename_stubs` alone; the theorems take
stubs one after another. Every other property of a passing run is proved.

`TypeOK` and its counterparts are proved for every module with a state; only `update_stubs` has TLC check one too.

## 6. Limits

- *Overlapping stubs.* `VerifiedOnly` holds and is proved for them too. `NoLoss` does not hold: the second stub's
  roll-back can remove the original that the first has just put back. With three overlapping native rename
  stubs `AppKept` fails, and with two managed ones as well. The launchers say nothing about a second instance, so
  no run keeps this.
- *Native update without a prior target* returns 30 although a failed build may still be there
  (`RemoveNew`): `HonestCodes` speaks of a confirmed build only.
- *Native session*: one application thread calls `start`; two of them race on `control_` and `worker_`, which
  the code does not protect. Joining calls are made outside of the callback.
- *Managed session*: one subscriber; with several, reentrant changes reach the later ones in the wrong order.
- *Downloads*: the nodes stay the same during a download (the cache may change their order between two
  resolutions); one client per transport; errors of the local file system other than
  `IOException` are left out; a switch to, or with, the official node alone may fail the download by design
  of the node list, and `SwitchKeepsDownload` leaves that case out for the managed engine. How `CreateRanges` divides a
  file, which is the even division without wrap-around, is not modelled.
- *Ranges*: a server is taken to send the bytes it says it sends; other bytes are what the digest is for. A size of
  2^64, which the manifest check lets pass into an undefined cast (`UpdateKit.cpp:317`), is not a size of the model.
- *Transport*: the reuse of a handle's value inside WinHTTP is not modelled; `get` may use a handle that an abort has closed.
- *Directories*: `Delivered` and `NothingLeft` are stated of launches that are alone in their directory, and
  those of `ManagedDirectory` of downloads that are not discarded after they were launched; otherwise neither holds.
  The encoding of the clean-up script is not modelled.

## 7. Not modelled

- *Progress*: numbers for display that nothing decides on.
- *Manifest and transaction formats* beyond the nodes: JSON, versions, hashes and paths are functions of their input
  without state, which the fixtures of both frontends cover. The two frontends differ in how they refuse an invalid version:
  the managed check finds no update, the native one throws; the schema allows versions that both refuse.
- *Embedded stub source*: opens a resource stream.
- *Release tools*: PowerShell around gh and git that runs once per release on the machine of a maintainer and shares no
  state with the program but the published files.
