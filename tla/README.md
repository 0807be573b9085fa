# TLA+ models of unity-workspace-storage

The repository hands out copy-on-write `Library` trees to Unity workspaces. An
immutable *parent* image is built once per compatibility key; a *lease* is a
cheap writable child of a parent, shown in a workspace under `Library`. Two
services do this: a per-user daemon on Linux and macOS (clones of directory
trees) and a broker on Windows (differencing VHDX files). Both keep all durable
state in small JSON files and directory renames, and both promise to survive
their own death, the death of their clients and foreign files in their way.

This directory holds models of that machinery, TLC configurations that check
them on small instances, and proofs that TLAPS checks for every instance.
`PROJECT.json` lists the runs, the source lines behind every definition, the
hazards the properties are aimed at, and the disagreements found.

    tlc -workers 2 -config MC_UnixLeases_faults.cfg MC_UnixLeases
    tlc -workers 2 -config MC_Requests_retries.cfg MC_Requests
    tlapm VhdxLease_proofs.tla

## 1. Inventory

| Component | State | Operations | Hard parts |
|---|---|---|---|
| Unix daemon, leases (`internal/workspaced/manager_unix.go`) | lease journals, owner markers in the workspaces; in memory the lease handles and `manualRecovery` | workspace-acquire, workspace-release, rollback, startup recovery | death between any two durable steps, partial cleanup, retries of a half-done release |
| Unix daemon, parents (same file) | `pending/`, `parents/`, `receipts/` | parent-begin, parent-commit, parent-abort | a repeated commit must resume from any intermediate state; two producers of one key; producers that keep writing |
| Unix storage backend (`storage/lifecycle_unix.go`, `unix_recovery.go`) | the child tree, its ownership marker, the `Library` link | Acquire, Release, RecoverUnixLease | substitution of the tree by others; what may be deleted |
| Windows broker, leases (`workspace/broker.go`, `store.go`, `native_windows.go`, `storage/lifecycle_windows.go`) | lease journals, retained records, workspaces, attached disks; in memory the session map | acquire, heartbeat, release, attach-retained, remove-retained, Recover | no lock across a handler: goroutines work on copies of a journal; Recover repeats beside them |
| Windows broker, parents and GC (same files) | `pending/<key>`, `parents/<key>`, `quarantine/` | begin-, commit-, abort-parent, RecoverPending, gc/ensureCapacity | a staging path shared by all builds of a key; a collector that decides on a snapshot |
| Package copy (`internal/filecopy/copy.go`) | a job channel, the first error, the workers | CopyDirParallel | channel at its limit, cancellation against completion, errors of different types |
| Durable files (`internal/atomicfile`) | none | exclusive creation, replacement by rename | torn files |
| Unix socket server and client (`internal/workspaced/server_unix.go`) | one goroutine per connection | `SocketClient.Call`, `Serve` | a client gives up while its request is executed; `Serve` returns without waiting |
| Windows named pipe and service (`workspace/pipe_windows.go`, `service_windows.go`) | one goroutine per connection, the service context | `PipeClient.Call`, `Serve`, start, stop, ticker | a request written and never answered; stopping while duplicates wait |
| Request caches of daemon and broker (`Handle` of both) | responses by request ID; on Windows the requests in flight | answer a repeated request | duplicates of a running request; what a restart forgets |
| Contract v2 and Windows adapter (`contract/v2/windows_adapter.go`) | one claim file per request ID | claim, hello, translate request and response | processes that race for one claim; half written and removed claims |
| VirtDisk backend (`storage/lifecycle_windows.go`, `workspace/native_windows.go`) | the flags of an attachment; on the host the image, the attached disk, its number, the mount point | Acquire, AttachExisting, Release, PrepareDetachedStaleMount | a dozen calls and scripts, each of which may fail, also after taking effect; disk numbers that Windows reuses |
| Local packages, compatibility keys, path checks, ReFS, clone commands, CLI, scripts | none of their own | pure computation or system calls | - |

How they interact. A caller hands a request to the Windows adapter, which claims
the request ID and goes through the pipe client, or to the socket client of the
daemon. `Handle` of broker or daemon looks the ID up, executes the request or
answers from its cache, and the connection's goroutine sends the answer to a
caller that may be gone (module Requests). The daemon takes `Manager.mu` for the
whole request, so its executions never overlap; what interleaves with them is the
daemon's death and other processes that touch the same directories. The broker
takes `Broker.mu` only around its maps; its handlers overlap and share state
through the files. They ask the VirtDisk backend for child disks and rely on what
it answers: NativeLease says what that is, VhdxLease how it comes about. The
Windows service runs Recover once before serving and then every five seconds
*beside* the handlers, and the pipe server starts a goroutine for every
connection; what holds without the repeated Recover is told apart with
`Periodic`. Acquire reads
a parent that the parent operations publish and that (on Windows) the collector
may remove.

What makes each part correct, in one sentence each:

* **Unix leases**: a granted lease stays whole until it is given up; a tree at a
  child path or a link is reachable from a journal, and a tree in quarantine is
  unless a death or a failed acquire left it there; what the daemon did not make it
  does not destroy, up to its last check; an answered release left nothing behind.
* **Unix parents**: what is visible under `parents/` is complete; an answered
  commit is durable; a producer's data is never destroyed; a good parent leaves its
  place only for the quarantine of a failing disk.
* **Broker leases**: Recover preserves retained leases and live clients, as long as
  they are not disturbed while it looks; every attached disk can be released; the
  lease of a dead client settles.
* **Broker parents**: a committed parent stays until collected; the collector
  spares parents in use.
* **Package copy**: it returns, and nil means that everything was copied.
* **Requests**: while a server lives a request ID is executed once and has one
  outcome; a caller is told the outcome of its own request; no call hangs.
* **Child disks**: the broker may rely on what it was answered; scripts touch the
  lease's own disk and path only; a failed acquire is undone; a failed release
  goes on where it stopped when it is repeated.

## 2. Modules

One module per component, an `MC_` module per component that only adds the
symmetry sets for TLC, one `.cfg` per question. Definitions named `Mutant_X` are
faulty variants of the definition X after them; no action uses them. They record
which property notices which mistake in the code (see `mutants` in
`PROJECT.json`).

### UnixLeases

The daemon is one sequential process: `pc` is the step, `cur` the lease and
`mode` the purpose of the running handler, and each step makes one durable
change. `owner`, `journal`, `child`, `trash`, `mount`, `mountExisted` and
`parent` are the disk; `leases`, `released`, `manual`, `cow` and `todo` are the
memory, which `Crash` and `Reboot` clear; `granted`, `asked`, `done`, `tampered`,
`lost` and `raced` only observe. The three users of the cleanup steps (release, rollback of a
failed acquire, startup recovery) share `Unmount` .. `RemoveJournal`, told apart
by `mode`, as they share `lease.Release` and the two removals in the code.

A child goes in three steps, as in `removeOwnedChild`: `QuarantineChild` renames it,
`RevalidateQuarantined` looks at the renamed tree once more (and may rename it
back), `DeleteQuarantined` removes whatever then lies at that path.
`TamperQuarantine` is another process that replaces the tree there at any time; one
that comes between the last two steps is in `raced`. A tree left in quarantine by
the death of the daemon before the deletion, or by the cleanup of a failed acquire,
is in `lost`: recovery looks for the child path and takes its absence for the end
of the child.

Abstractions: lease IDs are random and never reused, so one ID names lease,
child path, journal and owner token. A tree is absent, without ownership marker,
owned or foreign. A `Library` is a link, an empty directory or "foreign" (a
directory with content). Capacity refuses before anything is written and is
therefore a request that does not happen. A process ID that the system has given
to another process counts as alive, which is what `processAlive` sees. A reboot
loses the memory and the clients, not directory entries: `WriteDurable` syncs
the file and not its directory, and a power failure that loses an entry is not
modelled. Substitution between the clone and the creation of the marker is not
modelled.

### UnixParents

The same shape for transactions: `pending`, `place`, `image`, `seal`, `receipt`,
`parentBy`, `health` and `quarantine` are the disk; `troubled` says that system calls
may fail and the daemon may die now. That one flag is enough for any number of deaths
at any step: whatever needs no trouble may happen while it lasts, too, and
`TroubleEnds` may come right after the last death. Reads and verifications fail as
well: the daemon does not tell a parent it cannot read from a bad one, so while the
disk fails `FoundBad` may hold for a good parent, and begin, commit and acquire
(`AcquireQuarantines`) move it to quarantine. `parentID` is a hash of the key, so a
key names its directory. `LateWrite`, `StagingReappears` and `ParentRots` are what
producers and others do to the trees. `manualRecoveryRequired`, which these handlers
only set, is left out; a request that fails before it changed anything is no step.
UnixLeases sees all of this as the two environment actions `ParentRots` and
`ParentRepublished`.

### FileCopy

The walker, `Workers` and the bounded channel of `CopyDirParallel`. Files are
numbered in the order of the walk. `RecordError` is `CompareAndSwap` on an
`atomic.Value`, its panic on a second concrete type included. Directories and
symbolic links are steps of the walk without a job.

### BrokerLeases

Goroutines `Handlers` and the Recover goroutine; `proc[p]` holds the local
variables, among them the *copy* of the journal the handler read. Each access to
a journal, to the session map, to a disk or to a workspace is a step. `live[l]`
is the session whose disk is attached; a session object is the number of its
attach, so a session is released exactly when it is not `live`.

Abstractions: one workspace per lease, attach-retained only into that workspace.
One process stands for client and Unity. The grace period is nondeterministic.
A failed native release leaves the disk attached. ListLeases is atomic, as is
RecoverReap's look at child, parent and session map. Removing marker and journal
after a failed acquire is assumed to work. A parent that is gone or does not
verify is one of the faults of the Recover pass. `kept` observes what became of
the child by the will of its client: told that it is retained, asked to retain or
to remove it, or asked to delete it and nothing else, the case of
`ReleasedMeansGone`. `users` observes which clients have sent requests about a
lease, `disturbed` on which leases two goroutines worked at a time or a repeated
Recover worked.

### BrokerParents

`pending[k]` is whose `pending.json` the directory `pending/<k>` holds (`Bare`:
none), `staging[k]` the image in it, `parent[k]` the files in `parents/<k>`. A
build stands for its transaction, its image and its client. Any number of requests
about one build or one key run at a time, before and after the death of the client:
the broker has no lock for a transaction and goes on when a connection is lost. A
parent stops being fresh only while no request runs, because `ParentTTL` is
thirty days. A dry run of the collector changes nothing and is left out. Parents
of sessions in memory are parents of journals, so the session map adds nothing
to `Protected`. An attached disk blocks renaming and removal of its directory.
The life of a lease is in BrokerLeases; here it is a journal, a child and one
step that releases both.

The properties name their exceptions by observers. `contested` is the builds that
had two handlers at a time; `Undisputed` says that there is none and that every
client lives, `Calm` that besides nothing has failed or crashed. `overtaken` is the
acquires that overlap a collection of another handler or could not touch their
parent, whose error the broker ignores (`broker.go:484`). `stranded` is the keys
whose pending directory stayed empty because its removal failed or the broker died
before it.

### Requests and RequestContract

Everything between a caller and the execution of its request, on both platforms;
`Init` chooses the `provider`. `claim` is the durable file of the adapter: absent,
half written, or a payload. `caller[c]` is a process in its call, `conn[k]` the
goroutine of a connection, `requests` and `inflight` the memory of the server,
`server` its life: `up`, `stopping` and `draining` (the two phases of a stopping
service), `down`. `executed`, `answers` and `unsafe` are history: how often this
server executed an ID, who was told what, and which IDs were used without a
lasting claim.

Abstractions: an execution is one step, which the other modules take apart. IDs
are valid; invalid ones are refused before they reach any state. Each request in
`Leased` is answered with a lease of its own, because the lease ID, key or
workspace in it differ, and that is what `translateWindowsResponse` compares.
`Legacy` are requests that the broker's own client, which makes no claim, sends
as well. `Conns` bounds the goroutines at work. The number of read attempts on a
claim is abstracted: a caller may find it half written to the end. Time limits
are nondeterministic choices.

RequestContract is the abstract service: an ID is undecided, then decided once
until the server forgets, and what is told is what was decided. `OneOutcome` is
the refinement, for both providers with one mapping: an ID is decided by the end
of its execution, before the result is stored.

### VhdxLease and NativeLease

The life of one child disk. `file`, `mnt`, `attached`, `number` and `others` are
the host; `session` holds the flags of `Attachment` and `windowsLease`, which are
what the code knows of the host; `pc` and `op` are the step and the purpose
(`acquire`, `attach`, `release`, `discard` for the release inside a failed
AcquireChild, `recover`). Each step is one system call or one PowerShell script.
A failing call either did nothing or took effect and reported an error, as the
scripts can: they poll, time out and have their output parsed. After a crash the
handles are closed, so the disk is detached and the mount point stays.

Abstractions: one disk and one mount path, since a session touches no other;
other disks are `others`, numbers that are taken and given back at any time.
Deletion of the image is atomic. `Occupy` is the owner of the workspace, who puts
something at the mount path or takes it away at any time, also in place of what the
broker made or, between `PrepareStaleMount` (the checks) and `ClearStaleMount` (the
removal by path), of what it has just checked; then the path is `raced`. Only the
mount point of an attached disk, which is in use, stays. Every release says anew
whether it deletes the image. `doomed` is history: the image is still being made, or
some call asked to delete it since it was last handed out or left behind.

NativeLease is what the broker's handlers act on: an answer `held`, `released` or
`retained` is true and stays true until the next request, an image is attached
only if it exists, mounted only while attached, deleted only while detached and
`doomed`. What "retained" can promise is limited by that: a deleting release that
failed after it deleted the image may be followed by a retaining one, which then
answers without an image (`child \/ doomed`).
`NativeContract` is the refinement. BrokerLeases uses the same picture: its
`child` and `live` are NativeLease's `child` and `disk`.

### UnixLeases_proofs, UnixParents_proofs, FileCopy_proofs, BrokerLeases_proofs, BrokerPromises_proofs, BrokerParents_proofs, Requests_proofs, VhdxLease_proofs

Theorems and proofs about the modules they extend, see section 5.

## 3. Runs

| Run | Bounds | Shows |
|---|---|---|
| unix_leases_faults | 2 leases, 1 workspace, 2 deaths, every call may fail | granted leases stay whole (`GrantedLeaseIntact`), trees stay reachable (`TreeHasJournal`), the marker outlives the tree (`MarkerOutlivesTree`, `MarkerRemovedLast`), links do not dangle (`NoDanglingMount`), an answered release is complete (`ReleasedMeansGone`), doubtful trees are reported (`UncertainTreeFlagged`) |
| unix_leases_tamper | 1 lease, 2 deaths, failing calls, another actor | foreign trees and libraries survive, also in quarantine before the last check (`ForeignKept`), a dead client's lease is reclaimed by the next start or reported (`DeadLeaseReclaimed`) |
| unix_parents_faults | 1 key, 2 transactions, failing calls and deaths for as long as the trouble lasts | published parents are whole (`PublishedIsVerifiable`), commits durable (`CommitDurable`), data kept (`UnfinishedDataKept`), good parents never replaced or destroyed (`GoodParentStays`), a repeated commit succeeds (`RetriedCommitSucceeds`) |
| copy_cancel | 2 workers, 7 files, 2 failures, cancellation | no file is lost (`NoFileLost`), nil means complete to a caller that did not cancel (`SuccessMeansCopied`), a cancelled copy ends (`CancelReturns`) |
| copy_hang | 2 workers, 7 files, 1 failure | *violation*: after one failed copy the workers leave one by one and the walker blocks for ever on the full channel |
| broker_leases_faults | 1 lease, 2 clients, 1 handler beside the repeated Recover, 2 attaches, 2 crashes, failing calls | a retained child stays until its removal is asked for, unless a repeated Recover takes the lease up meanwhile (`UndisturbedRetained`), a deleting release that is answered has left no child (`ReleasedMeansGone`), a live client keeps its disk as long as it alone uses the lease (`SoleClientServed`) |
| broker_leases_service | 1 lease, 1 client, 2 handlers, 1 crash, repeated Recover | no session is lost (`NoLostSession`), an answered release has left no child although other requests overlap it (`ReleasedMeansGone`), the lease of a dead client is reclaimed, retained or quarantined (`DeadLeaseSettles`) |
| broker_leases_retained | 1 lease, 1 handler, repeated Recover | *violation*: Recover deletes a child retained after it listed the journals (`RetainedPreserved`) |
| broker_parents_faults | 1 key, 2 builds, 1 lease, 2 handlers, 1 fault, 1 crash, dying clients | images lie only in pending directories (`TypeOK`), no interleaving of different builds by itself wrecks a parent directory (`NoWreck`), committed parents stay (`CommittedStays`), parents in use are not collected (`ReferencedParentKept`) |
| broker_parents_mixed | 1 key, 2 builds, 2 handlers, dying clients | *violation*: a commit publishes the image of the next build under its own metadata, after Recover moved its own away (`PublishedIsVerified`) |
| requests_retries | 2 callers, 1 ID, 3 payloads (two acquires, one parent-begin), 2 connections, 3 calls, 1 restart, failing calls | an ID is executed once (`AtMostOnce`), a caller is told its own outcome (`AnswerIsOwn`), no call hangs (`CallEnds`), both providers implement RequestContract (`OneOutcome`) |
| vhdx_faults | 3 disk numbers, 3 failing calls, 1 crash | scripts touch the lease's own disk (`OwnDiskOnly`), a failed acquire is undone (`UndoneLeavesNothing`), the user's files at the mount path stay (`ForeignMountKept`), the backend implements NativeLease (`NativeContract`), a repeated release succeeds (`RetriedReleaseSucceeds`) |

Runs marked *violation* check what a comment, a document or a test of the
repository says, and TLC finds a behaviour of the code that contradicts it; the
quotations are in `PROJECT.json` under `findings`. The passing runs say under which
use such a promise holds. The conditions are part of the definitions of the
properties, and nothing in the models keeps the excepted behaviours from happening:

* `TreeHasJournal`, `UncertainTreeFlagged`: a quarantined tree counts unless a death
  or a failed acquire left it (`lost`).
* `ForeignKept`, `ForeignMountKept`, `UndoneLeavesNothing`: not for what took the
  place of something between its last check and its removal by path (`raced`).
* `CommitDurable`, `GoodParentStays`: a failing disk sends good parents to quarantine.
* `SuccessMeansCopied`: the caller did not cancel.
* `UndisturbedRetained`: no two goroutines worked on the lease at a time and no
  repeated Recover took it up (`disturbed`).
* `SoleClientServed`: one client alone sends requests about the lease (`users`).
* `ReleasedMeansGone` of BrokerLeases: nobody had asked to retain the child.
* `CommittedStays`: `Undisputed`, `NoWreck`: `Calm` (section 2).
* `ReferencedParentKept`: the acquire is not `overtaken`.
* `AnswerIsOwn`: the claim of the ID lasted, or it is an acquire whose answer has a
  lease. `RetriedReleaseSucceeds`: the session is not `Stuck`.

`NoLostSession` alone has its condition in the run: no call fails (`IOFaults` FALSE).

Why the bounds are enough. Two leases of one workspace meet in every way two
clients can: one waits, fails on the marker, takes over after a release or a
recovery. More workspaces are independent: no step reads two of them. Two deaths
cover a death inside the recovery from a death. Tampering concerns the files of
one lease. Two transactions of one key cover adoption of the other's parent;
distinct keys share no file. The package copy needs two workers to race and a tree
of more than three files per worker to fill the channel and both workers. Broker
properties relate one lease, or one key, to at most two goroutines of requests and
Recover; keys share only the quarantine. broker_leases_faults has two clients and one
handler, whose requests overlap the repeated Recover: that is where copies of a
journal become stale for another client. broker_leases_service has two handlers for
one client. Both together, with failing calls, are more than ten million states; the
theorems of section 5 need none of these bounds. One request ID is enough for
Requests: IDs share only the daemon's mutex, which a second payload contends for as
well; three calls are a first one, a duplicate while it runs and one after it ended
or after the restart, and the two connections let a duplicate overlap the execution.
A child disk needs three numbers: its own, the one it had before, and one for another
disk; three failing calls are a failed step, a failed cleanup of it and a failed
retry, and a crash can come between.

TLC reaches about 450,000 states in unix_parents_faults, 685,000 in
broker_leases_faults, 86,000 in broker_leases_service, 4,020,000 in
broker_parents_faults (two handlers that work on any build in any order, two builds
and a lease), 279,000 in requests_retries and 538,000 in vhdx_faults. The size of
broker_parents_faults is why it has no liveness property: that an abandoned build
gives its key back is not checked.

Symmetry is used in the runs that check safety only. Deadlock is checked for
UnixLeases and VhdxLease. The other systems stop for good reasons: lease IDs, transactions,
attaches or crashes run out (bounds), or the copy has returned.

### Observations without a run of their own

* A daemon that dies between the owner marker (`manager_unix.go:416`) and the
  first journal (`:421`) leaves a marker that no journal names. Recovery starts
  from journals, so the marker stays, is not reported, and every later acquire of
  that workspace fails.
* A copy cancelled after the walk ended may return nil although workers dropped
  jobs (`copy.go:51`): `SuccessMeansCopied` fails without its condition on
  cancellation.
* Two workers that fail with errors of two concrete types make `CompareAndSwap`
  on the `atomic.Value` panic (`copy.go:55`); the model has this as
  `panicked`, after which nothing runs.
* A daemon that dies between the rename of a child into quarantine
  (`lifecycle_unix.go:515`) and its deletion (`:538`), or whose RemoveAll fails, leaves
  a journal without a child: the next recovery (`manager_unix.go:600-615`) takes that
  for the end of the child and removes marker and journal. The quarantined tree stays
  and only the quarantine count of workspace-status shows it, although
  `docs/unix-daemon.md:68-72` says that restart recovery follows the same rule as
  release, which removes the child. A failed acquire can leave one in the same way.
* What another process puts in the place of the quarantined tree after its last check
  (`lifecycle_unix.go:521`) is deleted by RemoveAll on the path (`:538`). The tests
  (`lifecycle_unix_test.go:297`) replace it before the check.
* `LiveClientPreserved` fails with two clients and the repeated Recover: a
  heartbeat hands the lease to a second client after Recover has listed the
  journals, the first client dies, and Recover judges by the first
  (`broker.go:66`), against `broker.go:43-44`, "Retained leases and live clients are
  preserved." Without the repeated Recover it holds (`LiveClientsAreServed`), and for a
  client that alone uses its lease it holds with it (`SoleClientServed`).
* `RetainedPreserved` fails without the repeated Recover, too, when requests overlap: a
  heartbeat that read the journal (`broker.go:549`) before the retaining release
  writes back (`:563`) the copy that is not retained, and the next Recover deletes the
  child.
* `ReferencedParentKept` fails for an acquire that overlaps the collection of
  another handler: the collector decides on what it read (`broker.go:731`), while
  the acquire hangs a child on the parent (`store.go:329`). It fails as well for one
  that could not touch its parent, whose error is ignored (`broker.go:484`).
* `PublishedIsVerified` fails with every client alive, too: an abort that overlaps
  the commit of the same transaction gives the key to the next build between the
  commit's check and its rename.
* `NoWreck` and `CommittedStays` fail without a failing call or a death when a commit
  and an abort of one build overlap: the commit has made the parent directory
  (`store.go:208`), the abort removes the image (`native_windows.go:250`), and the
  rename (`store.go:217`) fails. The directory refuses its key for ever. Hence
  `Undisputed`, which the broker itself does not enforce: it has no lock for a
  transaction (`broker.go:421-428`, `:452-459`).
* RecoverPending acts on the `pending.json` it has read: when the abort or the commit
  of a dead client's build ends after that (`store.go:148`) and a living client begins
  the key again, its `pending.json` is removed (`:159`) or its directory moved
  (`:172`).
* RecoverPending and Abort remove `pending.json` before its directory
  (`store.go:159-164`). A crash or a failing removal in between leaves an empty
  directory that no pass removes; every later begin of the key answers "waiting", and
  the collector collects nothing any more.
* While the broker holds the disk of a dead client's build attached, no pass of
  RecoverPending can move its directory (`store.go:172`) and the key answers
  "waiting" until the broker restarts.
* Daemon: parent-abort after the publishing rename and before the receipt answers
  OK although the parent is published (`manager_unix.go:357`).
* Daemon: the response cache grows with every request ID until the daemon stops
  (`manager_unix.go:175`).
* Requests: a failure is cached like a success, so a caller that repeats a failed
  request under its ID is told the old failure until the server restarts. After a
  restart the same ID is executed again.
* Requests: a process that dies while it writes a claim leaves a half written
  file, and no call with that ID can succeed any more. A claim whose flush fails
  is removed although another call may have read it and gone on (`unsafe`).
* Requests: an acquire compares the lease in its answer with what it asked for
  only if the answer has a lease; the cached answer of a request without one
  passes.
* Requests: once written, a request on a pipe is waited for without regard to the
  caller's context (`pipe_windows.go:75`); the daemon stops without waiting for
  its goroutines, and their callers read the end of the file.
* Broker leases: retain, attach, retain again: the record of the first retain is
  still there, so the second one fails after the native release (`broker.go:612`)
  and leaves a released session in the map; a later deleting release reports
  success and the child stays.
* Broker leases: a retaining release may follow a deleting one that failed after it had
  removed the child (`lifecycle_windows.go:1124-1171`, `broker.go:593-597`); it then
  answers "retained" without a child. NativeLease allows for that (`doomed`).
* Child disks: what takes the place of a stale mount point after its target was checked
  (`lifecycle_windows.go:848-854`), while a PowerShell script runs, is removed by its
  path (`:875`), although `:812` says that only a mount point of the journal's exact
  volume is removed.
* Child disks: an unmount that took effect and was reported as failed makes every
  repeated release fail, because the access path is looked for again, until the
  broker restarts. WaitDetached waits for a disk number to vanish, which by then
  may be another disk's. Both are `Stuck`.
* Child disks: AttachExisting returns without removing the mount directory it made
  when Open fails, and the next attach-retained refuses the path
  (`broker.go:882`). A mount script that fails after it added the access path
  leaves `mounted` FALSE, so the cleanup skips the unmount. CreateDifferencing
  that fails to close the new image leaves it there with `childCreated` FALSE:
  `UndoneLeavesNothing` counts this as a failed cleanup.
* Child disks: AcquireChild drops its session if FileIdentity fails and the
  release after it fails as well; Recover and remove-retained drop the session
  they attached if its release fails. The disk stays attached until the broker
  exits.

## 4. Fairness

* `UnixLeases!FairSpec`: weak fairness of the daemon's own steps and its restart.
  A handler runs in a goroutine under a mutex nobody else keeps; the documented
  service manager units restart the daemon. Clients and environment owe nothing.
* `UnixParents!FairSpec`: weak fairness of the handler, strong fairness of
  `Commit(t)`: a producer that repeats its commit reaches an idle daemon again
  and again, and the socket serves it eventually. Weak fairness of
  `TroubleEnds` says that calls do not fail and the daemon does not die for ever: no
  retry can succeed on a disk that stays broken.
* `FileCopy!FairSpec`: weak fairness of each goroutine: the Go scheduler runs
  whatever is not blocked. Cancellation owes nothing.
* `BrokerLeases!FairSpec`: weak fairness of the goroutines, of Recover (the
  ticker) and of the restart, and strong fairness of reaping one lease: the
  grace period of a journal nobody rewrites ends, so Recover cannot find it young
  in every pass.
* `Requests!FairSpec`: weak fairness of each caller in its call and of each
  goroutine of the server, and of a stopping service on its way to its end. A
  caller that waits for an answer has no step of its own on Windows: that it ends
  follows from the goroutine that serves it. New calls, deaths, stops and restarts
  owe nothing; a server may stay down, and then calls are refused.
* `VhdxLease!FairSpec`: weak fairness of the running operation, of the
  disappearance of a detached disk, and of the repetition of a failed release: by
  the client, or by every pass of Recover once the client is dead. Failing calls
  are bounded, since no retry succeeds while every call fails.

## 5. Proofs

Every component module has a proof module, BrokerLeases two. What a proof assumes of
the constants is the `ConstantsAssumption` of the module it extends and, for the two
broker modules, the `SentinelsAssumption` that "nothing" and its like are not the name
of a build, key, lease, client or handler; TLC evaluates them in every run. Two
theorems, both about BrokerLeases, have a hypothesis of their own: `SessionsAreKept`
(no call fails) and `LiveClientsAreServed` (Recover runs at the start only).

### UnixLeases_proofs

For all sets of leases and workspaces, with or without failing calls and tampering,
and for any number of deaths:

* `TypeCorrect`: `Spec => []TypeOK`.
* `TreesAreReachable`: `Spec => []TreeHasJournal`. Whatever fails or crashes, a tree at
  a child path or a `Library` link is never left without the journal through which the
  next start finds it, and a quarantined tree only if a death or a failed acquire left
  it (`lost`).
* `MarkerStays`, `LinksAreGood`: `MarkerOutlivesTree` and `NoDanglingMount`.
* `GrantedStays`, `ReleasedGone`: what clients were told, `GrantedLeaseIntact` and
  `ReleasedMeansGone`.
* `UncertaintyIsFlagged`: `UncertainTreeFlagged`, for quarantined trees with the same
  exception.
* `ForeignStays`, `MarkerGoesLast`: the action properties `ForeignKept`, whose exception
  is a tree that came after the last check (`raced`), and `MarkerRemovedLast`.

They assume that the markers "none", "torn", "foreign" and "emptydir" are neither
lease nor workspace names, and that the parameters have their types.

`TreeHasJournal` is not inductive: that a step may remove a journal is safe only
because of what earlier steps of the same handler did. `IInv` adds to `TypeOK`
the conjunction `Bookkeeping`: the running handler has a lease with a workspace
(`HandlerHasLease`); files exist only for lease IDs that were given a workspace
(`KnownHasWorkspace`); a link to l lies in l's own workspace
(`LinkInOwnWorkspace`), without which a link in another workspace could outlive
the journal; which files of the running lease exist at which program counter
(`HandlerFiles`): a journal from its first write until the tree is deleted, no
link before `a_link` and after `d_unmount`, no tree from `d_check` on, when it has left its path; and a
handle marked released has neither tree nor link, and is not the one at work
(`ReleasedIsEmpty`, `NothingReleasedYet`), which is why a release through such a
handle may go straight to marker and journal. `TypeStep` and `BookkeepingStep`
take the actions one by one; `ControlTyped`, `Sentinels` and `HandlerStops`
collect what many of them need.

The other properties need `LifeInv`, which adds two parts. `FilesInv` is about the
files: a marker of l lies in l's workspace (`OwnerInOwnWorkspace`), a tree is at
its path or put away but not both (`TrashKnown`), and what the handler has found
or made before its present step (`HandlerTree`, `HandlerMarker`), always with the
exception of a workspace someone tampered with. `ClientsInv` is about promises: a
handler works only for leases nobody may rely on (`MayDispose`), and every tree is
a whole lease, or the concern of the running handler, or on the list of the
recovery (`TreesFlagged`); the last is what makes the absence of
manualRecoveryRequired trustworthy. `TodoKnown` ties the list of the recovery to
the journals. The many steps that delete are alike to the properties: `Cleaning`
says what such a step may do, `CleanupCleans` that each one does no more, and
`FilesCleaned` and `ClientsCleaned` draw the conclusions once.

### UnixParents_proofs

For all sets of keys and transactions, with or without trouble, which covers any number
of failing calls and deaths: `TypeCorrect`, `PublishedWhole` (`PublishedIsVerifiable`),
`CommitsDurable` (`CommitDurable`), `NothingLost` (`UnfinishedDataKept`) and
`GoodParentUntouched` (`GoodParentStays`). They hold although a failing disk makes good
parents look bad: what the daemon does to a parent it takes for bad is a rename, so
nothing is destroyed, and the properties say where it is to be found.

The properties depend on each other and on what the commit found some steps ago.
`HandlerKnows` records it: from the check of the parent to its publication the
place is empty, what is about to be published is sealed, a receipt is written only
for a verifiable parent. `HandlerHasTxn`, `FilesHaveKey` and `DataHasKey` give every
file a key, also those in parent directories and in quarantine, and `CommitHasReceipt`
separates a receipt from the absence of one.

### FileCopy_proofs

For every finite set of workers, any number of files and failures, with or without
cancellation: `TypeCorrect`, which bounds the channel by its capacity, `NoneLost`
(`NoFileLost`) and `SuccessIsComplete` (`SuccessMeansCopied`).

When CopyDirParallel returns it looks at two error values and not at files. That
nil means complete rests on `GoneMeansDrained`: without an error and without a
cancellation a worker leaves only a channel that is closed and empty. With
`WalkKnown` (what the walker has sent at each of its steps) and `JobHeld` (a worker
holds a file exactly while it copies) every file is then copied. The number of
files waiting in the channel is handled as a sequence; `CapacityIsNat` is where the
finiteness of the set of workers is used.

### BrokerLeases_proofs

`SessionsAreKept`: if no system call fails, `Spec => []NoLostSession`, for any sets
of leases, clients and handlers, with or without the periodic Recover, and any
number of crashes and attaches.

The hypothesis is needed: an acquire that fails in its last step may leave the
disk attached and drop its session, which is why broker_leases_service, which
checks the property, has it too. Handlers and Recover work on copies of the session
map. The invariant says what such a copy can be: of one goroutine only and not
in the map yet (`Fresh`), released already (`Spent`), or the one in the map
(`RetainSession`); sessions are numbered by the attaches that made them
(`Numbered`), so that an old one is never taken for the present one.
`ForgetsOwn`, `AttachHasRecord` and `AcquireAlone` say who may write the map while
others are at work: whoever deletes an entry deletes one that was released, and
nobody attaches the child meanwhile.

### BrokerPromises_proofs

What the broker promises its clients, with failing calls, for any number of leases,
clients, handlers, crashes and attaches, with or without the periodic Recover:

* `TypesAreKept`: `Spec => []TypeOK`.
* `ReleasedAreGone`: `Spec => []ReleasedMeansGone`.
* `RetainedAreKept`: `Spec => []UndisturbedRetained`.
* `SoleClientsAreServed`: `Spec => []SoleClientServed`.

For the same, when Recover runs at the start only (`Periodic` FALSE):

* `LiveClientsAreServed`: `Spec => []LiveClientPreserved`.

`UndisturbedRetained` and `SoleClientServed` are about one lease each: other leases
may be disturbed or shared at will. What they except does break the promise, see
broker_leases_retained and the observations.

The argument. Most steps are steps of one goroutine on one lease, so the
invariants are stated lease by lease. `Kinds` shows that every step is of one of
a few kinds (`GivesUp`, `GoesOn`, `Mounts`, `Ejects`, `Registers`, ...) that say
what happens to the lease and to the goroutine's own variables; `OtherLeases` that
such a step leaves all other leases alone. What is left is one look per kind and
invariant:

* `SessionInv`: sessions are numbered by the attaches that made
  them, a session that is not in the map yet (`Fresh`) is known to one goroutine
  only, a lease is acquired once, and no copy of its journal has the child's file
  identity before the child was attached, which is why neither Recover nor
  a client can attach it while it is being acquired.
* `GoneInv`: as long as nobody asked to retain a child, any
  session of it that the map or a goroutine knows is the attached one, or the child
  is deleted: a release that passed its session has deleted the child, and no child is
  created again after its first attach. So the release that is answered left nothing,
  whoever else worked on the lease meanwhile.
* `UserInv` keeps the books: who sent requests about a lease is in `users`, also the
  client a goroutine works for and the one a journal names.
* `HolderInv` (leases of a sole client): no goroutine holds the session of a lease that
  a running client has. Recover skips the lease because every journal it can have
  listed names that client, and a release or a removal takes the lease from the client
  when it begins.
* `PossessInv` (Recover at the start only): Recover and requests take turns (`Apart`),
  a lease that a client has is attached, and no goroutine holds the session that
  attached it.
* `ConsoleInv` (leases not in `disturbed`): one goroutine at a time works on the lease,
  and no repeated Recover, so a request or Recover finds it as it was when it began
  (`AloneOK`, `RequestOf`, `StepOf`). `KeptOK` relates what clients asked for to what is
  on disk: a retained child has journal and record, and no journal that Recover has
  listed says otherwise; the session in the map of a child to be deleted is the
  attached one, or the child is deleted already.

### BrokerParents_proofs

For any sets of keys, builds, leases and handlers, any number of failing calls and
crashes, with or without dying clients, and with any overlap of requests:

* `TypeCorrect`: `Spec => []TypeOK`.
* `NeverWrecked`: `Spec => []NoWreck`.
* `ParentsKept`: `Spec => []ReferencedParentKept`.
* `CommitsStay`: `Spec => []CommittedStays`. The promise holds whatever fails and
  crashes, as long as no client has died and no two requests about one build have
  overlapped (`Undisputed`). After that it does not (see the finding and the
  observations): Recover empties a directory that a handler is still working in, and so
  does an abort.

The handlers share no lock, so the argument is about file names. `Control`: a
parent directory belongs to the commit whose Mkdir made it, from then until
COMPLETE is written (`OnePublisher`), and a build or a lease has one handler
(`OneHandler`; a build as long as nothing is `contested`). `Orderly`, while
`Undisputed`: the pending directory of a key names the only build whose image can lie
in it (`PendingKnown`), whoever works on a build finds it there (`BuildKnown`), with
the exception in both of a directory that stayed empty (`stranded`); from which lemma
`Alone` follows, that a key has one handler that builds; what a commit has verified is
what it moves and
publishes (`ImageKnown`), and what was answered was published (`CommitKnown`).
`NoWreck` needs `Orderly` because in the calm the rename of CommitMove must
succeed. `Leased`: a journal is on every list of protected parents that is read
after it was written (`JournalProtects`), and before it is written the parent is
fresh and no other handler collects, or the acquire counts as overtaken
(`TouchProtects`). There is one lemma for each kind of step (`WriteStep`,
`MoveStep`, `RollbackStep`, ...), and the lemmas `...Keeps` take the actions apart
into such steps.

### VhdxLease_proofs

For any set of disk numbers and any number of failing calls and crashes:

* `TypeCorrect`: `Spec => []TypeOK`.
* `DiskIsOwn`: `Spec => []OwnDiskOnly`.
* `ForeignStays`: `Spec => ForeignMountKept`, whose exception is what replaced something
  of the broker's or something it had just checked (`raced`).
* `NativeContractKept`: `Spec => NativeContract`, the refinement of NativeLease.
* `FailedAcquireUndone`: `Spec => []UndoneLeavesNothing`.

They assume that 0, which stands for no disk, is not a disk number. What the
broker does next depends on the flags of its session, so everything rests on how
far the flags can be trusted, and the three invariants say that in layers.
`IndInv` adds `SessionTrue` and `PathTrue`: a session that believes in its mount
has the number of the attached disk, one that created a directory still finds it, or
somebody replaced it (`raced`), and at which steps of the cleanup, which goes on after
a failure, this is not so; a stale mount point that was checked is still one when it
is removed, or is `raced`. It carries `DiskIsOwn` and, with one more lemma per step,
`ForeignStays`. `RefInv` adds the opposite direction, that what is there is known: an
attached disk of a session that will be released is known to be attached
(`AttachKnown`), the image exists unless some call asked to delete it (`ChildTrue`,
`doomed`), whether later calls ask for that or not, and a mount point is known
(`AnswerTrue`). Without it a release could answer with the
disk still attached. `StepNative` then maps every step to a step of NativeLease or
to a stutter. `UndoInv` adds `UndoTrue`: as long as no cleanup call failed, the
flags cover everything an acquire did, which is what its undoing needs.

### Requests_proofs

For any sets of callers, IDs, payloads and connections and any number of calls and
restarts, on both platforms:

* `TypeCorrect`: `Spec => []TypeOK`.
* `ExecutedOnce`: `Spec => []AtMostOnce`.
* `ContractKept`: `Spec => OneOutcome`, the refinement of RequestContract.
* `AnswersAreOwn`: `Spec => []AnswerIsOwn`.

They assume that the markers are neither payloads nor connections and the named
subsets of `Payloads` are what they are called. `AtMostOnce` is not inductive:
`IndInv` adds that the goroutine executing an ID is the one in `inflight`
(`OneServes`), that an executed ID is stored or about to be (`Once`), and that a
server on its way down has a restart left (`RestartLeft`, for the bound's type).
The refinement needs `RefInv`, which adds that a waiting caller has a connection
of its own (`OwnConn`), so that nobody is told another ID's outcome, and that an
answer on its way is the stored one and a waiting duplicate has something to wait
for (`AnswerStored`): a duplicate woken up with nothing stored would be told the
zero response. That an answer is about the caller's own request has a reason of
its own on each platform, and `AnswerInv` has both: the daemon compares the whole
request (`OwnAnswers`), while on Windows nothing but the claim file ties an ID to a
request. `OneClaims` says that one call at a time writes it, `ClaimAgrees` that a
claim which lasted agrees with every caller that got past it, with the request on
its connection and with the outcome in the broker's cache.

### Model-checked only

* Liveness: `DeadLeaseReclaimed`, `RetriedCommitSucceeds`, `CancelReturns`,
  `DeadLeaseSettles`, `CallEnds`,
  `RetriedReleaseSucceeds`. Liveness under fairness and ENABLED are outside what
  the prover does.

The findings are counterexamples and need no proof.

## 6. Not modelled

* ReFS block cloning, the clone commands, peer credentials, the pipe's security
  descriptor, path and reparse checks: system calls and predicates on what the
  operating system says, without state of their own.
* Compatibility keys, manifests, digests: pure functions of files.
* Command line and scripts: no state.
* Capacity: a refusal before anything is written, hence a request that does not
  happen; the arithmetic on measured sizes is planned.
* status, admit and a dry run of the collector: they only read.
* That an abandoned build gives its key back (`RecoverPending`): its steps are in
  BrokerParents, but the state space with overlapping requests is too large to check a
  liveness property on it.
* A power failure that loses directory entries: `WriteDurable` syncs the file, not
  its directory.
* Preparation and flush of parent images (InitializeAndMount, Flush): single steps
  of BrokerParents.

`PROJECT.json` gives the status of each part.

## 7. Plan

Done: the inventory; seven component modules and two abstract specifications with
their runs; the theorems of section 5. Left, in this order:

1. An abstract lease service (free, granted, released) implemented by UnixLeases
   through a refinement mapping over journal, tree and link, whose proof can rest
   on `LifeInv`.
2. BrokerLeases on top of NativeLease in place of its own attach and release
   steps, so that the contract that VhdxLease keeps is the one the handlers use by
   definition.
3. The daemon's parent operations composed with acquire, in place of the two
   environment actions of UnixLeases.
4. Capacity admission as a pure operator with 64-bit width.
