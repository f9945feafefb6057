# A verification of reninja's build core

reninja is a reimplementation of Ninja in Go with remote caching, remote
execution and a build event stream. This directory holds TLA+ modules that model
it, TLC configurations that check them on small instances, and TLAPS proofs.
`PROJECT.json` maps every definition to the lines of code it stands for.

## 1. The system

A run of the program goes through these parts.

| Part | State | Operations | Talks to |
|---|---|---|---|
| Manifest parser, lexer, `eval_env` | graph, rules, scopes | parse | graph |
| Graph (`graph/`, `state/`) | nodes with dirty flag and mtime, edges with readiness and slot, pools | setters, pool operations | everything |
| Dependency scan, implicit deps | marks of edges, dirty flags | `RecomputeDirty`, `VerifyDAG`, `LoadDeps` | disk, logs |
| Plan (`build.go`) | `want`, `ready`, `wantedEdges`, `commandEdges` | `AddTarget`, `FindWork`, `EdgeFinished`, `CleanNode`, `DyndepsLoaded` | pools, jobserver, scan |
| Builder (`build.go`) | loop variables, `exitCode`, `runningEdges` | `Build`, `StartEdge`, `FinishCommand`, `Cleanup` | plan, command runner, logs, status |
| Command runners | active edges, subprocesses, result channel | `CanRunMore`, `StartCommand`, `WaitForCommand`, `Abort`, `Cancel` | processes, cache, executor |
| Subprocess set | running and finished lists, wake-up channel | `Add`, `DoWork`, `NextFinished`, `Clear` | one goroutine per process |
| Jobserver client | implicit slot, FIFO shared with other processes | `TryAcquire`, `Release` | plan, runners |
| Build log, deps log | entries in memory and a file | `Load`, `Record…`, `Recompact`, `Close` | scan, builder |
| Cache transfer, remote execution | local existence cache, pending batches | upload, download, execute, retry | runners |
| Build event publisher | event buffer, one notification, stream attempts | `Publish`, `Subscribe`, `Finish` | status |
| Main program | manifest rebuild attempts | `RebuildManifest`, `RunBuild`, tools | all of the above |

The build thread is single-threaded; concurrency comes from the commands, which
exit in any order, from other clients of the jobserver, from goroutines of the
runners and the publisher, and from crashes and interrupts between two writes.

The behaviours that are hard to get right, each listed in `PROJECT.json` as a
hazard at its line:

- the mutual recursion of `EdgeFinished`, `NodeFinished` and `EdgeMaybeReady`
  through edges that need no work;
- initially ready edges of a limited pool keep `WantToStart`, so nothing but the
  order of events prevents a second scheduling;
- pool accounting along five paths (queued, finished, failed, un-wanted, initial);
- `CleanNode` un-wanting edges of a running build, with a binary search;
- a failure budget that is spent while commands still run;
- "ensure progress" capacity on top of commands not yet reaped;
- tokens taken before the command exists and given back on every way out;
- dyndep files changing graph and plan during the build;
- torn records in the logs, recompaction, and what the next build believes;
- lost notifications, retries, cancellation and stale keys in the remote parts.

## 2. Modules

| Module | Models |
|---|---|
| `Jobserver` | `unixClient` of `jobserver_posix.go`, and the other clients of the pool |
| `Plan` | `Plan` of `build.go`, `Pool` of `pool.go`, the ready queue, and what the dependency scan leaves behind |
| `Builder` | `Builder.Build`, `StartEdge`, `FinishCommand`, `Cleanup` with `RealCommandRunner` as one atomic step |
| `BuildOrder` | what a build promises, without any of the machinery |
| `Subprocess` | a process per command, its waiting goroutine, the interrupt flag, the position of `Build` in its loop |
| `SubprocessSet` | `RealCommandRunner` and `subprocess.Set`: wake-up channel, sweeps, timer, `Clear` |
| `RemoteRunner` | the caching and the remote-execution runner: a goroutine per edge, result channel, context |
| `Runners` | `Build` with any of the three runners |
| `CommandRunner` | what `Build` relies on in a runner |
| `Retry` | `retry.go` as a value |
| `EventBuffer` | `EventBuffer`: items, `notify`, the goroutine of each subscription |
| `Publisher` | `Publisher.Start`, `run`, `Finish`, and the status printer's hooks and `FinalizeTool` |
| `BuildLog`, `DepsLog` | the two logs: files, `Load`, records, recompaction |
| `StateLogs` | both logs over several runs of the program, with crashes and failing writes |
| `DepsStore` | what the deps log promises: a map that is updated atomically |
| `DependencyScan` | `RecomputeNodeDirty`, `RecomputeOutputDirty`, `LoadDeps` |
| `ActionCache` | keys, pointer entries and the four cases of `uploadActionResult` |
| `Cleaner` | `-t clean`, with a target or a rule, and `-t cleandead` |
| `Incremental` | a working tree over many builds: edits, manifests, cleans, interrupts, crashes, cache |
| `Uploader` | `BatchCASUploader`, `findMissingBlobs`, byte streams, `localcache`, and the server's store |
| `RemoteExec` | `Executor.Start`, `Wait`, `RetryingStream.Recv`, and the execution service |
| `Transfer` | the goroutines of both remote runners from the cache check to the result, with the downloads of `fetchOutputsAndResult` |
| `MCBuilder`, `MCRunners`, `MCStateLogs`, `MCIncremental`, `MCTransfer` | the instances for TLC (`Publisher` needs none) |
| `BuilderProofs` | proofs about `Builder`: types, the place of every edge, the tokens |
| `BuilderPlanProofs` | proofs about `Builder`: counters, pools, the order, the loop and its end |
| `RunnersProofs` | proofs about `Runners` |
| `PublisherProofs` | proofs about `Publisher` |
| `StateLogsProofs` | proofs about `StateLogs` |
| `IncrementalProofs` | proofs about `Incremental` |
| `TransferProofs` | proofs about `Transfer` |
| `Recursion` | induction over numbers and functions defined by recursion, for the proofs |

`Builder` extends `Plan`, which extends `Jobserver`: the three share one state.
So do `Transfer`, `RemoteExec` and `Uploader`.

**Plan.** `want[e]` is the map `Plan.want`, with `"none"` for an edge that is not
in it. `ready[e]` counts how often `e` is in the priority queue, so that a
duplicate would show. `delayed` is the union of the delayed lists, `currentUse`
the counters of the pools. The recursion through edges that need no work is
written as a least fixed point: `Finishing(e, w)` is the smallest set that
contains `e` and every edge of the plan that needs no work and has all its
inputs ready. What one call of `EdgeFinished` then does to pools and queue is
`Schedule`: the order in which a node lists its out-edges is left open, but old
delayed edges leave a pool by priority before any edge delayed in this step.
`CleanNode` is likewise closed over the recursion; `RecomputeOutputsDirty`, which
looks at mtimes and log entries that are not part of the state, may give any
answer for a command and answers "clean" for a phony edge. The probes of
`sort.Search` are computed as the library does (`SearchProbes`).

**Builder.** `pc` is the position in `Build`: `prepare`, `loop` (head of the main
loop), `start` (inner loop), `reap`, `record` (between the plan hearing of a
command and the logs), `done`. Each action is a whole iteration of its part:
`StartEdge`, `StartPhony` and `StartFails` are the three outcomes of one
iteration of the inner loop, with `CanRunMore` evaluated again; `FinishCommand`,
`FinishFailed`, `StatFails` and `Interrupted` are the outcomes of
`WaitForCommand`. Commands may exit in any order, so `reap` picks any running
edge. `Faults` says which errors the environment may inflict. `starts` and
`failed` are history variables.

**Runners.** `pc` is where `Build` waits: in its loop, in `DoWork` before or after
the first sweep, blocked in `select`, or in `WaitForCommand` of a remote runner.
`proc[e]` is the operating-system process, ahead of the goroutine that waits for
it (`waiter`), which is ahead of the notifier that sends on the one-place `wakeup`.
A process may be killed without being waited for, a remote call that is in flight
when the context is cancelled may still succeed, and an interrupt may arrive at
every step. `jobserver` says whether the build takes its slots from a jobserver:
`CanRunMore` then sets no limit, and `FindWork` has to get one of `JobSlots` tokens
first. The remote runners share one module because they differ only in what
a goroutine does before it sends its result. `CommandRunner` has the four states
new, running, ended and reported of a command; the mapping reads them off the
processes, goroutines, lists and channel.

**Publisher.** `loop` is where the publisher's goroutine is inside `run`, `sub[a]`
the goroutine of the subscription made by attempt `a`, with the slice it took
(`buffer`), its index and whether it was cancelled. A `select` with several ready
cases takes any; a send to `notify` goes to a goroutine that is parked there
directly, else into the channel's one place. `tool` is the main goroutine through
`FinalizeTool`; `pipe`, `chunk` and `copying` are the hooked streams. `stolen`
records that the goroutine of a cancelled subscription took a notification, which
the comment at `build_event_publisher.go:194` does not consider; `Hung` is the
state in which `Finish` then waits for good.

**Logs.** A file is its header, its whole lines or records and what a torn write
left behind. `Load` is a fold over them as the code reads them, with the field
counts and ids that decide where it stops. A crash can fall between any two
writes and inside one; a failing write ends the program with whatever part it
wrote. The signature of the build log can be torn too: with a line behind a
signature that lacks its newline `Load` fails, and every later run exits.

**Incremental.** The content of an output is the command and the contents it was
made from, so "up to date" means equal to what a build from nothing would make
now (`Fresh`). A build is a scan, then commands that read their inputs, write
their output and depfile, and are recorded, in any order and overlap their inputs
allow; with a cache each is looked up first and uploaded afterwards. The user
edits or deletes sources between builds and at any step of them, with or without a
cache, changes the manifest, cleans and interrupts; the program may be killed
between any two steps; an upload may fail to hash an input. Four histories say
where a result is not what the rest of the program takes it for, and the
properties name them as their exceptions:

- `stale`: a file an edge of this build has looked up or read was changed since;
- `sound`, a field of a cache entry: its key is known to have what its command
  read. It is not for an entry uploaded by a stale edge, nor for one of an edge with
  a depfile and no `deps`, which is keyed by its static inputs alone;
- `doubtful`: the last result of the edge is a hit of an entry that is not sound or
  a hit without its deps, or a restat or generator command with an input that was
  changed while it ran, whose log entry has the time of its output
  (`build.go:1036`);
- `skipped`: what the last build left undone without saying so, namely the edges that
  `CleanNode` un-wants with a dirty input (finding 1), an edge whose pointer was taken
  for its result, and one whose hit did not bring the depfile.

**Transfer.** `step[e]` is where the goroutine of edge `e` is: cache check, fetch
of a hit, then for the remote runner upload of the inputs, `Start`, `Recv` and
fetch of the outputs, for the caching runner a local process, upload of the
outputs and publication of the result. A member of `tasks` is one goroutine of an
uploader's errgroup, for a batch or a stream: it asks what is missing, sends, and
reads the reply, in three steps, so that other goroutines, evictions and edits
fall between them. A reply that does not cover everything ends a batch and makes
a stream try again; a call that fails may have stored part of what it sent. The
blobs of a batch are read when they join it, a stream when it is sent, and the
server refuses what does not match its digest. `lastSeen` is shared by all edges;
that an entry is older than its time to live is a choice. `file[o]` is the
goroutine that downloads output `o`, `disk[o]` what is at its path. The remote
runner renames a temporary file, the caching runner writes in place.

**Initial states.** `PlanInit` ranges over every set of dirty edges the scan may
compute (`ScanDirty`), the readiness that follows (`ScanReady`) and the edges
`AddSubTarget` then reaches (`Reached`), so each run checks a build from scratch
and every incremental build of the project at once.

**Abstractions.** Paths, commands and output are left out. The load average is
any member of `Loads`. The FIFO is a bag of bytes. An edge priority is a
position in a strict order, which is what `EdgePriorityLess` with the edge id
as a tie-break yields. The graph is static: no dyndep file is pending.

## 3. Runs

The project of `MCBuilder` has a generator with two outputs, two compilations
and a check in a pool of depth one, a link and a phony target, with one
order-only input, and a manual that depends on none of them. In it a pool is
contended, a limited edge is ready both initially and later, a clean edge is
passed by the cascade, a restat reaches edges through two outputs, and three
commands (link, check, manual) may be ready at once.

| Run | Expectation | Shows |
|---|---|---|
| `build` | pass | all safety properties of the loop, the failure rule, the refinement of `BuildOrder`, and that `Build` returns, with every fault |
| `jobserver` | pass | tokens conserved and no stuck build with one shared token, a load limit and another client |
| `runners` | pass | each of the three runners reports every command once and after its end, loses no wake-up and implements `CommandRunner`; every command is reported or the build ends |
| `events` | pass | the stream arrives whole and in order over one connection or is given up after all retries; `FinalizeTool` returns or hangs in the one state `Hung` |
| `logs` | pass | memory and disk agree after every crash, no torn line is read as a record, the deps log implements `DepsStore` |
| `incremental` | pass | what the scan finds clean is fresh, a second build does nothing, cache entries match their keys, each with the exceptions listed in section 2, and only the user's own edit changes a source |
| `transfer` | pass | what the client believes stored was stored, no half-written output counts as built, every edge gets a result |
| `restat_search` | violation | an edge un-wanted with a dirty input (`build.go:196`) |
| `zero_slot` | violation | a byte written to the FIFO that nobody read (`build.go:148`) |
| `events_hang` | violation | the program does not exit after a notification was taken by a cancelled subscription (`build_event_publisher.go:231`) |
| `deps_header` | violation | a torn header of the deps log stops every later run (`deps_log.go:259`) |
| `cached_deps` | violation | a cache hit records an empty dependency list (`build.go:1088`) |

Bounds: `Parallelism = 2` with three commands that can be ready at once, so
capacity runs out; `FailuresAllowed = 2`, so the budget can be partly and
entirely spent with a command still pending, which then fails as well; one token, so that the implicit
slot and the FIFO are both exhausted; loads `{-1, 2}`, so that the load limit
both blocks and permits. `jobserver` uses a variant of the project in which
every edge of the plan is dirty and no start fails: outside it tokens are *not*
conserved (findings 2 and 3).

`runners` has three commands of which one may be outstanding, or two with a
jobserver, and a result channel with one place, so that a goroutine can block on a
full channel while another finishes, and so that the limit is exceeded where
`CanRunMore` does not set one. `events` has one retry, one event and one chunk of console output: two
subscriptions are what a stolen notification and a restart from the first event
need; instances with two retries, and with two events and two chunks, were checked
as well (about two million states each, no error). `logs` has three records, two
crashes and two torn writes over three outputs, so that a crash can hit the run
that repairs an earlier one; `minCompactionEntryCount` is one so that
recompaction happens. `incremental` has two user actions and two builds on four
projects: recorded deps without a cache, with the dirty input of the link where the
search of `CleanNode` finds it; a depfile and a generator rule, with the inputs of
the link in the other order; recorded deps with a cache and no command behind the
object, so that a pointer taken for a result shows; a depfile with a cache. The
first three have a restat rule, the first and the third a generated header. Random walks with four user actions and
four builds met no violation in 5.8 million states. `cached_deps` has the third
project alone, with edits of the header only. `transfer` has two edges that share an
input, one with two outputs that need two batches, one with an input that is
streamed; one retry and one reconnection; and two faults in all (failing or
refusing calls, evictions, edits), so that one can hit the recovery from another.
A stream whose file was edited is refused each time without using up faults, so
the retries end by being counted and not by the bound.

Fairness: `FairSpec` asks weak fairness of `BuildStep` only. The build thread
runs unless it is blocked, and it blocks only in `WaitForCommand`, which polls
every 25 ms; the assumption is that a started command exits some time. Nothing
is assumed of faults or of other jobserver clients. In `Runners` the goroutines
and the build thread are scheduled, the 25 ms timer fires, processes exit, and
remote calls return with a result or an error; nothing is assumed of signals. In `Publisher` the goroutines are scheduled, every call to the server
returns, and console commands exit; no call is assumed to succeed. In `Transfer`
the goroutines of an edge are scheduled and their calls return, with a result, an
error or the timeout every call has, and the server finishes the operations it
accepted; nothing is assumed of evictions, edits or which way a call goes.

## 4. Findings

1. `CleanNode` searches a dirty input with `sort.Search`, although inputs are not
   ordered by their dirty flag. With inputs `<<app, stamp>>` only the second is
   probed; when `stamp` is cleaned, `all` is un-wanted and marked clean while
   `app` is dirty.
2. The default `Slot` is 0, not the documented invalid value. When the cascade
   passes an edge that never acquired a slot, `Release` writes a zero byte.
3. When `StartEdge` fails, the token taken for that edge is lost: it is not among
   the active edges whose tokens `Cleanup` returns. The same happens for a
   command that reports an interrupt and for one whose output cannot be stat'ed.
4. The header of the deps log is written in two writes. When the process dies
   between them the next `Load` says "bad deps log signature or version; starting
   over", but returns that text as an error before the lines that would remove the
   file, and the program exits; so does every later run.
5. After a cache hit `ExtractDeps` finds no depfile and an empty dependency list is
   recorded with the new mtime. A later edit of a header leaves the object clean.
   `CleanIsFresh` therefore leaves out edges with deps last taken from the cache.
6. When a connection of the event stream breaks, the goroutine of its subscription
   is cancelled but may still take the one notification. The next subscription then
   sleeps although the buffer holds more; if these were the last events, `Finish`
   waits for good and the program hangs at its end. The comment of `Subscribe` says
   that it is safe to subscribe again once `cancel` was called.

Finding 3 has no run; `TokensConserved` is checked and proved for builds without
these errors.

Met while modelling and explored by the runs, but not stated as violations: an input
that is edited after a command has read it and before its result is uploaded puts
the old result under the new key, because the key is hashed again by the upload
(`caching_command_runner.go:530`); an edge with a depfile and no `deps` is cached
under its static inputs, so a hit may belong to other headers; when the inputs
cannot be hashed the error is overwritten (`:532`) and the result is stored under
the digest of no action; an edit during a restat or generator command can go
unnoticed, because the newest output mtime replaces the start time in the log
(`build.go:1036`); the entry a pointer leads to is not tested for being a pointer
itself (`caching_command_runner.go:473`), and when the files it lists are gone the
edge succeeds without an output; a line behind a build-log signature without its
newline makes every later run exit (`build_log.go:214`); the deps log is never recompacted, because the end of the file counts as a failed
read (`deps_log.go:276`); `VerifyDAG` indexes the stack with `start` after cutting
it there (`dependency_scan.go:293`), so for a cycle that does not begin at the
target the message repeats the wrong node or the index is out of range; a runner that cancels itself because the failure budget
is spent reports an interrupt; `RetryingStream.Recv` returns neither an operation
nor an error when its attempts are used up while the context lives
(`remote_exec.go:149`), and `Wait` then dereferences nil (`panicked`, which
`EveryEdgeAnswered` counts as an end); a missing input that is reported in the
status of the response does not clear `localcache`, unlike one reported by the
stream (`RecvMissing`); the caching runner fails an edge whose command succeeded
when its outputs cannot be uploaded (`caching_command_runner.go:397`).

## 5. Theorems

The theorems about `Builder` hold for every graph, pool layout, parallelism,
budget, load and fault set
that satisfy the assumptions `JobserverAssumption`, `PlanAssumption` (finitely
many edges, one producer per output, a strict priority) and `BuilderAssumption`.
`BuildIsNeverStuck` and `SuccessMeansBuilt` also need `AcyclicAssumption`: every
set of edges has one that no edge of the set feeds. `VerifyDAG` stops the scan at
a cycle, before there is a plan.

- `TypeCorrect`, then `PlacementCorrect`. `StartedOnce` and `InputsBuiltFirst`
  are not inductive: the former fails to survive a step if an edge that is queued
  could be woken again. `PlacementInv` adds why it cannot be: an edge that was
  delayed, queued, started or failed is wanted and has all its inputs ready, so
  no edge that finishes now feeds it (an edge of the plan is never among the
  ready ones). `EdgesStartOnce` and `CommandsRunInOrder` follow.
- `MoreToDoIsExact` and `PendingIsExact`: `CountInv` relates the counters to the
  sets they count, and a step changes both by the same finite set
  (`UnwantedCount`, `EdgeSucceededWanted`).
- `PoolDepthRespected` and `NoPlaceWasted`: `PoolInv`, with the lemma
  `SchedulePools` on what one scheduling step does to any pool and
  `PlaceGivenBack` on the edge that leaves.
- `BuilderImplementsOrder`: every step of `Builder` is a `Run`, `Complete`,
  `Break` or `Stop` of `BuildOrder` or leaves its variables alone. The
  invariants above supply the guards.
- `NeverTooManyCommands` and `SpentBudgetStopsBuild`: `LoopInv`. `CanRunMore`
  grants one command when every process has exited, however many of them are still
  to be reported. That this never exceeds `Parallelism` needs that `Build` asks
  for capacity only at the head of its loop, which it reaches again only after a
  result has made room; inside the loop capacity and running commands add up to at
  most `Parallelism`.
- `BuildIsNeverStuck`: `ProgressInv` says that an edge of the plan waits only for
  edges of the plan, that one that needs no work waits for some input, and that a
  wanted edge with all inputs ready has been placed. It survives a step because
  the cascade of `EdgeFinished` is closed (`FinishingClosed`), also over the edges
  `CleanNode` has just un-wanted. If nothing runs, is queued or failed, take an edge
  of the plan that no other feeds: it is wanted and placed, hence delayed, hence
  its pool is full, but by `PoolInv` the pool is empty (`IdlePlanIsEmpty`). With a
  jobserver, `SlotInv` says that the implicit slot is free when nothing runs, so
  `FindWork` gets a token, also after the leaks of findings 2 and 3.
- `SuccessMeansBuilt`: `ResultInv`. It rests on the previous argument, because
  `Build` returns `exitCode`, which is success, together with the "stuck" error.

The theorems about `Publisher` hold for every number of retries, events and chunks
of console output, from `RetryAssumption` and `SubscriptionsAssumption` (the
policy counts attempts, and there is a subscription for each).

- `StreamInvariant`. None of the properties is inductive by itself. That success
  means everything was received needs that the events channel is closed, for a
  subscription that is not cancelled, only behind the `finish` event, that this
  event is the last of the buffer, and that what a connection carried is as long
  as the subscription's index. That `finish` is last needs that a chunk exists
  only while its stream is being copied and that `cleanupIO` has waited for both
  streams. `Inv` collects these facts. `StepKinds` first sorts the steps into the
  loop's, a subscription's, publications and quiet ones, so that each part of the
  invariant is proved for four kinds of step. `ConnectionsFromTheStart`,
  `ConsoleBeforeFinish`, `SuccessIsWhole` and `AllRetriesUsed` follow.
- `NotificationsArrive`: `NotifyInv`, inductive under `Inv`, says that only the
  current subscription is not cancelled and that, unless a notification was
  stolen, what it has not seen yet is announced by `notify`.

The theorems about `Transfer` hold for all edges, blobs, sizes, batch limits and
numbers of retries and faults, from `UploaderAssumption`, `ReconnectsAssumption`
and `OutputsAssumption` (no two edges have an output in common).

- `ClaimedIsStoredTheorem`. When `Wait` returns without an error no goroutine is
  left, but that says nothing of the blobs yet: `UploadInv` adds that a blob the
  uploader has taken is stored, in the current batch or with a goroutine
  (`Pending`), unless the group has an error, and that what a goroutine was told
  is there has been stored. `TaskStep` says what any step of a goroutine does to
  this: its blobs stay with it, have reached the server, or the group has failed.
- `OutputsAreWholeTheorem`. `DiskInv` adds that a finished download has a whole
  file at its path, and that the outputs of an edge the caching runner is
  uploading are whole. It needs that no other edge has the output
  (`DownloadStep`) and which runner takes which steps (`StepInv`).

The theorems about `Runners` hold for every finite set of commands, every limit and
every size of the result channel (`RunnerAssumption`).

- `RunnersCorrect`: `RunnersInv` has a part for the local runner and one for the
  remote ones. That no wake-up is missed (`NoWakeupMissed`) needs that a process
  nobody has waited for still has its notifier. That without a jobserver at most
  `Parallelism` commands are outstanding (`OutstandingWithinLimit`) needs that the finished list is never
  full while `Build` may start a command, because `CanRunMore` makes an exception
  when nothing runs. What a sweep of `DoWork` leaves in the two lists is the lemma
  `AmongFacts`.
- `RunnersImplementCommandRunner`: every step of the three runners is a step of
  `CommandRunner` or leaves its variables alone.

The theorems about `StateLogs` hold for all outputs, paths, hashes and bounds
(`LogsAssumption`: the outputs are finitely many, and the hash of a command is told
from what a torn line leaves).

- `LogsCorrect`: `LogsInv` says of the deps log that its records load as they were
  written, that a running process has in memory what it would load, and that the
  records still to be written continue the file (`Planned`); of the build log that
  every line carries what was recorded and that a process is ahead of its file by
  at most the line it writes. `DepsIdsKnown`, `MemoryIsOnDisk` and
  `NothingInvented` follow.
- `LogsImplementDepsStore`: a `RecordDeps` of several writes is one step of
  `DepsStore`, the one that writes its last record.

The theorems about `Incremental` hold for every set of projects, files and edges
that satisfy `ProjectAssumption` (the manifests are well formed) and
`CommandAssumption` (what commands read; with a cache an edge that reads more than
its inputs has `deps` or a depfile, a generated file among what it reads is an input
or an order-only input, and no command reads its output). They bound neither the
steps of the user nor the builds, and the user may change files during a build.

- `EdgesRunInOrder`: `TreeType` and `RunInv`. While an edge runs no edge is wanted
  that makes one of its inputs. `FinishCommand` keeps this because `CleanNode`
  un-wants only edges that come after a wanted one (`CleanNodeFacts`), never one
  that runs (`FinishWant`).
- `SourcesStay`: a build writes the outputs of the edges that run; `Cleanup` and
  the clean tools remove outputs, and files the manifest does not mention. It rests
  on `EdgesRunInOrder` for which edges these are. What is left are the user's steps,
  and `Edit(x)` and `Delete(x)` change `x` only.
- `EntriesMatchKeys`. The key of an entry is made from the files as they are when
  the goroutine of `CacheResult` gets to it, not from what the command read.
  `ResultInv` says why they are the same: from the moment a command has read until
  its upload ends, no wanted edge makes a file it read (`Grounded`), so no step of
  the program writes one (`Harmless`), and what it read is among the inputs of the
  scan or in the depfile (`Reported`, `Keyed`). An edit by the user of a file it read
  makes the edge stale (`ResultEdited`), and an entry stored by a stale edge is not
  sound. Entries of edges with a depfile and no `deps` are excepted because nothing
  makes `Keyed` true for them.

`EveryTokenComesBack` is about `StrictBuild`: a jobserver is used, the errors
after which an edge that holds a token is no longer active do not happen, and no
edge of the plan can be without work. Findings 2 and 3 are what happens otherwise.
`TokenInv` counts for each byte value the copies in the pipe, with the other
clients and in the slots of the running edges.

Only model-checked:

- liveness (`Termination`, `EveryCommandReported`, `FinalizeToolReturns`,
  `EveryEdgeAnswered`), which the prover does not cover;
- `CleanIsFresh` and `BuildConverges`. Section 7 lists what both assume of
  commands and manifests. They compare two walks of the graph (`NodeStates`,
  `FromScratch`) that recurse over edges and not over numbers;
- `TypeOK` of `Publisher`: `policy.delayed` is a sum of powers, and no prover knows
  that a power of a natural number is one. `Types` in `StreamInvariant` has the
  types of what the other theorems need.

The prover cannot instantiate the induction theorems of its library, which take a
predicate. `Recursion` derives induction for a set (`SetInduction`) and from it
that a loop of n steps defines a function (`RecursionExists`, `RepeatsExists`) whose
values stay in an invariant set (`StaysIn`). The loops of the model (`Among`,
`LoadDeps`, `LoadEntries`, `Needs`, `CleanNode`) are written so that these lemmas
apply: as functions on an initial segment of the numbers.

## 6. Plan

Next, in this order:

1. `Dyndep`: `DyndepsLoaded`, `RefreshDyndepDependents` and `AddSubTarget` on a
   graph that changes during the build. `Plan` and its proofs take the graph as a
   constant, so this is a module of its own first.
2. Composition of `Builder` with `Runners` in place of its atomic `reap`, using
   that every runner implements `CommandRunner`.
3. The manifest rebuild loop of the main program, on top of `Incremental`.
4. `CriticalPath`, `MissingDeps`, `VerifyDAG`: algorithms against a reference
   definition.
5. Proofs: `CleanIsFresh`, by induction along an order of the edges.

## 7. Not modelled

The parsers and the lexer, the include scanner, digests and compression, terminal
output, profiling and the option parser: text and data without protocol state.
About two thirds of the repository's lines are protocol buffer definitions and
the code generated from them, which hold no behaviour of the program's own. The
definitions of the map stand for about 2,900 lines of code: somewhat under a fifth of
the Go written by hand (15,800 lines without tests, comments and blank lines), and
less than a tenth of all Go code with the generated part. The
Windows jobserver follows the same protocol as the FIFO one. Dyndep files,
validation targets, dry runs and response files are left out everywhere. In
`Incremental` the contents of the remote store are part of the cache entries, so
a result whose files were evicted occurs in `Transfer` only. `PROJECT.json` gives the reason for each part,
and for each hazard that no property covers why it does not.

What `Incremental` assumes of its environment:

- a command reads its inputs, then writes its output and its depfile and nothing
  else; one that fails writes nothing; one that was killed with the program writes
  nothing later. For the last of these see `Set.Clear`, which kills
  without waiting;
- the clock of the file system gives every write a new mtime;
- a manifest does not return to an earlier command line of an edge. After a crash
  between a command's write and its log record it would look clean;
- an edge has one output.

What `Transfer` assumes or leaves out:

- standard output and error of a cached or remote result, symlink outputs, outputs
  a command does not make and those of a failed command. An error for a symlink
  returns without waiting for the downloads;
- outputs are not edited while they are uploaded;
- an attempt of `GetBlob` that fails leaves a prefix of the blob: the next one goes
  back to the start of the file and does not truncate it;
- the deps pointer of a cached result is part of the lookup; `ActionCache` has it;
- compression changes no size across the batch limit.

## 8. Running

    tlc -workers 2 -config MCBuilder.cfg MCBuilder
    tlc -workers 2 -config MCRunners.cfg MCRunners
    tlc -workers 2 -config Publisher.cfg Publisher
    tlc -workers 2 -config MCStateLogs.cfg MCStateLogs
    tlc -workers 2 -config MCIncremental.cfg MCIncremental
    tlc -workers 2 -config MCTransfer.cfg MCTransfer
    tlapm Recursion.tla
    tlapm BuilderProofs.tla
    tlapm BuilderPlanProofs.tla
    tlapm RunnersProofs.tla
    tlapm PublisherProofs.tla
    tlapm StateLogsProofs.tla
    tlapm IncrementalProofs.tla
    tlapm TransferProofs.tla
