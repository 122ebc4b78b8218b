# TLA+ models of lewkit

lewkit (`github.com/lewtec/lewkit`) is a library of Go primitives. Most of its
packages are conversions, parsers and bindings to operating system services. The
parts with a state machine worth checking are its concurrency core, the task
scheduler `x/taskgroup` with the build runner `x/workflow` on top of it; the tool
store and its shared downloads in `x/tool`, with the atomic commit of `x/io/atomic`;
and what stands behind a window: the event bus, the window buffer and the loop that
draws it, the app session, the UI thread and the driver check. This directory holds
models of these, the TLC runs that check them and the TLAPS proofs about them.

Paths below are relative to the repository.

## Inventory

| Component | State | Operations | Interacts with | Modelled in |
| --- | --- | --- | --- | --- |
| Session scheduler, `x/taskgroup/{taskgroup,exec,map,isolate}.go` | slots (state, parent, dependencies, error), `Session.err`, the session context and its cause, the `WaitGroup`, workers | `Go`, `Map.Run`, `Each`, `Isolate`, `GoIsolated`, `Cancel`, `Wait`, `WaitTask`, `run`, `finishLocked` | pushes leaves on the ready queues; links rows in the live tree; bodies call back into it | `TaskGroup` |
| Live tree, `tree.go` | a doubly linked list and a count under every node | `linkLive`, `unlinkLive`, `moveLiveFront`, `pruneIdleAncestors`, `List` | `waitLive` waits on its counts, the progress view reads `List` | `LiveTree` |
| Ready queue, `ready.go` and `startWorkers` | a FIFO, `closed`, a mutex, a condition variable | `push`, `pop`, `wake`, `close` | the scheduler pushes, workers pop, context callbacks wake | `ReadyQueue`, `WorkerPool` |
| Waits, `exec.go` `waitUntil` | `Session.cond` and a context per waiter | `waitTask`, `WaitTask`, `waitLive` | woken by `finishLocked` and by context callbacks | `WaitUntil` |
| Workflow graph, `x/workflow/workflow.go` `closure` | marks, the order, the stack | `closure`, `resolveAlias` | gives `schedule` its order | `WorkflowClosure` |
| Workflow run, `workflow.go`, `step.go` | `rebuilt`, modification times | `Run`, `schedule`, `runStep`, `stale`, `mark` | one `taskgroup.Go` per step with its dependencies | `Workflow` |
| Shared download, `x/tool/materialize.go` | the map of flights, `refs`, temporary directories | `DownloadFile`, `joinDownload`, `leaveDownload`, `fetchShared`, `publishFile` | callers are tasks of any session | `SharedDownload` |
| Event bus, `x/event` | subscriber channels of capacity 16 | `Subscribe`, `Publish`, `PublishKeep` | every window host publishes, loops receive | `EventBus` |
| Window buffer, `x/driver/window/buffer.go` | size, scales, dead zones, `closed` | `SetScale`, `SetFontScale`, `SetDead`, `Resize`, `Close`, `Emit`, `Swap` | publishes on its bus after it has released its lock | `Window` |
| Elm loop, `x/ui/gui/run.go` | `dirty`, the picture and its signature | `loop`, `drainEvents`, `handle`, `flush` | receives from the bus, reads the buffer when it renders | `Window` |
| Tool store, `x/tool/store.go` | a directory per version | `Ensure`, `Install`, `EnsureBinary` | goroutines and processes share the store without a lock | `ToolStore` |
| Atomic commit, `x/io/atomic` | files at the final, the staging and the displaced path | `Commit`, `Rollback` | the file system, crashes | `ToolStore` |
| App session, `x/app/session.go` | window count, `done`, a context | `runSession`, `Open`, `add`, `remove` | runs on the UI thread's `Run`; windows join from anywhere | `App` |
| UI thread, `x/driver/thread` | a channel of one job | `Run`, `Loop`, `Do`, `Go` | window hosts create and close on it | `App` |
| Singleton and driver check, `x/singleton`, `x/driver/driver.go` | a value computed once with its first caller's context | `GetContext`, `cachedCheck` | every window that opens | `App` |
| Mixer, `x/sound/mix.go` | tracks with buffers | `Read`, `Write`, `Close` | players | later |
| Android asks, `x/driver/androidask` | one slot with a generation | `Begin`, `Deliver`, `End` | JNI callbacks | later |
| Line writers, `x/taskgroup/linewriter.go` | rows of the current lines | `Write`, `Close` | the progress view | later |
| Terminal sessions, `x/term` | panes | `Create`, `Write`, `Close` | processes | later |
| Everything else | | | | not modelled, see the end |

What is hard here: the scheduler's `run` claims a task outside the lock that
`finishLocked` holds; one failure recurses through dependencies, isolates and the
session; three kinds of goroutine (workers, Control nodes, the context callback)
meet in `finishLocked`; condition variables are woken by context callbacks; a
workflow decides by modification times that earlier, half-finished runs left
behind; downloads are shared by callers who leave at any moment; the version
directories of the store are renamed, removed and checked by calls that know nothing
of each other and may crash between two renames; events are dropped on full channels
whose closing races with the send; windows join a session while its last one leaves.
`PROJECT.json` lists these points at their lines under `hazards`.

## Modules

The scheduler is split by question, so that each stays small enough to check.

**`TaskGroup`** is the session as a whole. An action is one critical section of
`Session.mu`, or one step outside it that others can see.

| Code | Module |
| --- | --- |
| `New`, `Cancel`, end of the parent context, `AfterFunc` pass | `Init`, `Cancel`, `parentDone`, `failPass` |
| `Go`, `goTask`, `pinDeps`, `alloc` | `goTask`, `goTaskFails` (nil fn or a rejected dependency) |
| `readyQ.pop` by a worker, the worker's return | `pop`, `workerExit` |
| `run`: compare-and-swap, context check, body, finish | `runClaim`, `runEnter`, `runAbort`, `bodyReturn` |
| `Map.Run`, `Isolate`: node, loop or fn, `waitLive`, `waitTask` | `goTask` with kind `map` or `isolate`, `bodyDrain`, `waitLive`, `waitTask` |
| `finishLocked`, `recordError`, `failSubtree`, `failOutsideIsolates` | `finishLocked`, `Cascade`, `FailAll`, `recordError` |
| `Wait` | `Wait`, `WaitClose`, `WaitReturn` |

`finishLocked` is recursive. Its effect on the tasks is a least fixed point:
`Cascade(S)` is the smallest set that holds `S`, the waiters of its members, and
what the boundary of each of them strikes. A goroutine that has picked a task up may
win its compare-and-swap while the lock is held elsewhere; `Overtaken` leaves this
open for every task a failure reaches. Values, names, titles and progress numbers are
left out. `Each` and `GoIsolated` are `Map.Run` and `Isolate` around `Go`, so their
steps are those of the kinds above. The children list of `linkChild`, which
`failSubtree` and `failOutsideIsolates` walk, only grows: the model uses the
ancestors.

**`LiveTree`** has the pointers of the live lists and only as much of a task as is
needed to move them: any pending task may fail. A member of `unlinkLive`'s set has
its own parent, so that the pointers of several of them can be changed at once.

**`ReadyQueue`** opens up what `TaskGroup` takes as one step: the mutex, the notify
list, the context callbacks. **`WorkerPool`** is what the queue promises, in the
terms `TaskGroup` uses it: ready leaves are taken in order, each once, and a worker
leaves only an ended session with an empty queue. `ReadyQueue` implements it
(`ImplementsPool`), by the mapping `ready <- q`, `left <-` the workers at `left`,
`ended <- ctxDone`.

**`WaitUntil`** does the same for `Session.cond`. Its callbacks broadcast without
the mutex; the history variable `missed` holds the waiters whose own callback came
between their look at the context and their sleep. Which error a wait returns is left
out. Its specification is called `WaitSpec`, since the proofs about it are in one
module with those about `LiveTree`.

**`WorkflowClosure`** is the depth-first walk as a stack machine. **`Workflow`**
extends it: a Run calls closure, schedules the steps of its order and runs them, and
Runs follow each other over files with modification times. The tasks of a step are
user commands, modelled by what they write (external). Time is the file system's;
equal modification times are left out. That a step starts only when its dependencies
are done is taken from `TaskGroup`, which shows it. Of the graphs it is assumed that no
file is written by two steps (`FilesAssumption`). It is not assumed that a step depends
on the steps whose outputs it reads, since the frontends do not see to it: make makes
the makefile an input of every step that is not phony, without a dependency on a rule
for it (`make/graph.go:243`), and ninja compares paths as they are spelt
(`ninja/ninja.go:201`). `Declared` and `Ordered` are the steps and the builds of which it is
true. The name of a phony step may be an input: it is a file that is missing whenever
`stale` looks. An output of a step without tasks may be there already, and so may those
of the steps in `built`, as a makefile is before the first Run.

**`SharedDownload`** is one key of `downloads`. The transfer is an outcome, and
errors of `MkdirTemp` are a failed fetch.

**`EventBus`** takes every channel operation of `publish` as a step: the snapshot of
the subscribers, the first send, the receive that makes room, the second send. In
between other publishers send, the subscriber receives and the subscription's
goroutine closes the channel; a send on a closed channel panics and `recover` ends
the visit of that channel only. The history variable `raced` holds the publishers
whose room another one has used, and `dropped` what was lost on watched channels.

**`Window`** extends it with the buffer and the loop of one window. A host changes the
buffer in one step (the critical section) and publishes in later ones, so that two
hosts may store in one order and publish in the other. The picture is modelled by what
it was made for: `old` is what the buffer has changed since it was read for the
screen, `oldPict` the same for a frame that is rendered and not yet painted. The loop
is `loop`, `drainEvents`, `handle` and `flush` of `run.go`: forced and unforced
flushes, the signature check, models with and without `Consume` (`lazy`), and both
displays (`bridged`): `imageDisplay` swaps the pages of the buffer, which fails once it
is closed; `bridgeDisplay` paints on the host's surface and holds the frame (`errHold`)
when there is none, as for a closed window. A held frame leaves the loop dirty, and a
later tick tries again. The history variable `unheard` says that Close was published
before the loop subscribed. One other subscriber is leaving with a full channel. Left
out: painting; what a surface shows after it was lost and made anew; and what is special
to Android, whose swapchain `fitHost` adopts before the signature check and which may
turn the window and ask for another frame (`errRefit`).

**`ToolStore`** is one version directory and the calls that share it: `Ensure`,
`Ensure` without cache (a dry run included), `Install`, or writers of one file. Every
rename, removal and check is a step, any of them may fail (`MaxFaults` in all), any
call may crash between two steps, and contexts end. A tree is *good* if it passes the
tool's checks after its fixer ran, *bad* if it has files and does not. `os.Rename`
refuses a target that is a directory and replaces one that is a file. Two history
variables record the two ways in which the code does lose a good tree (see below), so
that the properties say that there is no third: `wiped` is the set of what checks have
removed, and `undone` is set by the recovery of a failed `Commit`.

**`App`** is one `App.Run`: `main` is the goroutine in `Loop`, `fn` the one of
`runSession`, and each window one more. A window joins the session, asks the driver
check, is created on the UI thread by hosts that need it, and closes when its user or
its context says so. `runSession` binds the session in one critical section and counts
its window in another, and so does `Open`: reading the current session and joining it
are two steps (`bindSession` or `Open`, then `add`). `uses` is how its host closes: with `Do` (wkwebview), with `Go`
(cocoa), or without the UI thread.

Definitions marked `Mutant` are plausible mistakes. No specification uses them; they
show that a property would notice.

## Runs

All in `PROJECT.json`; `tlc -config X.cfg M`.

| Run | Shows | Bounds |
| --- | --- | --- |
| `tg_deps` | `NoBodyAfterFailure`, `DepsDoneBeforeRun`, `FirstErrorRecorded`, `WaitIsQuiescent`, `TasksCountsUnfinished`, `OutcomesStay` | three tasks: a failing task, one that depends on it and one outside; leaves and Control nodes; one pool with one worker |
| `tg_boundaries` | `IsolateReportsFailure`, `MapReportsFailure`, `WaitReturnsUnlessStranded` | two tasks of all kinds, so that every kind contains every kind; fairness. The first two are proved for any tree |
| `live_tree` | `LiveNIsExact`, `RowsEnd`; `RowsAreLiveChildren`, `RunningRowsFirst` unless a failure crossed a claim | four tasks: three siblings with a task below one, chains of four |
| `ready_queue` | `NoSleeperWhileWorkWaits`, `ImplementsPool`, `WorkersLeave`, `ItemsAreTaken` | two workers, three items, fairness |
| `wait_until` | `NoSleeperOverGoal`, `ContextWakesUnlessMissed`, `GoalEndsWait` | three waiters, two goals |
| `workflow` | `OrderIsSchedulable`, `OrderIsClosure`, `ClosureReturns`, `BuildIsTrue`, `NoWorkTwice` | closure on every graph of three steps with up to two dependencies each, and on two steps with two aliases of anything; three Runs of two targets with two edits over four steps: two outputs, a chain, no tasks, phony; two Runs with a dependency by alias; two with a phony name among the inputs and a rule without a recipe; two with a makefile that has a rule for itself and is there at first, read by a step that declares it and by one that does not |
| `shared_download` | `RefsCountAboard`, `FileThereForCopy`, `NoForeignCancel`, `LeftoversGo`, `CancelledCallerReturns` | three callers, two flights of one key |
| `window` | `KeptUnlessRaced`, `ShownIsCurrent`, `ClosedEndsLoop` | two hosts, two calls in all, the second host limited to scale and close; both displays; channels of one place; a leaving subscriber; fairness |
| `tool_store` | `GoodTreeKept`, `LeftoverIsReported`, `EndsInPlace` | three calls of every kind, one failing file operation, any crashes; calls are symmetric |
| `app` | `SessionHoldsWindows`, `SpoiltOnlyByFirst`, `ContextClosesWindow`, `RunReturns` | three windows; all close without the UI thread, or the first with `Do` and the others with `Go`, or the other way round; a channel of one job; fairness |

One pool is enough: pools share nothing but `Session.mu`, and a step of a leaf does
not depend on its pool. One worker is enough for the scheduler: what a second one
adds is in `ReadyQueue`, and Control nodes give `TaskGroup` its concurrent bodies.
Two calls of window hosts already store in one order and publish in the other, and on
channels of one place every second event meets a full channel; `KeptUnlessRaced` is
proved for channels of any size. Three calls on the store are a writer, one that
checks between the writer's steps, and one that commits in that gap. One failing
operation is what `EndsInPlace` speaks of; all three properties are proved for any
number of calls, the other two for any number of failing operations. Three windows are
one that has left, one that leaves as the last and one that joins meanwhile. The
`workflow` run goes through all small graphs for `closure`; for the Runs it has graphs
in which each way to be out of date occurs, and its four invariants are proved for
every graph.

Deadlock is checked in `tool_store`, where a state in which all calls have ended
stutters. In the other runs it is not, because the systems end: Wait has returned, the
workers have left, the bounds are used up. `tg_boundaries`, `ready_queue`,
`wait_until`, `workflow`, `shared_download`, `window` and `app` check instead that
what must end does.

### Disagreements with the repository's words

Two runs state what a doc says and fail on what the code does.

- `tg_cancel`: "Cancel stops the session. Pending work fails" (`taskgroup.go:304`).
  The session is cancelled, the pass over pending tasks is made, the workers leave
  the empty queue; a Control body that is still running calls `Go`; the leaf is
  pushed on a queue nobody serves and `Wait` blocks. `tg_boundaries` shows this is the
  only way.
- `wait_until_context`: "WaitTask blocks until id finishes or ctx ends"
  (`exec.go:293`). The callback broadcasts without the mutex and may fall between the
  waiter's look at the context and its sleep; `ContextWakesUnlessMissed` shows this is
  the only order in which it is missed. `readyQ.wake` holds its mutex, and
  `WorkersLeave` passes; its mutant is this very gap.

Others were met while modelling. The models behave as the code does, and where a
property would fail for that reason alone, its statement names the exception, so that
the run shows there is no further one.

- "Finished leaves leave the live list" (`tree.go:6`): a task that fails between run's
  compare-and-swap and its second critical section is linked again by `moveLiveFront`
  (`exec.go:111`). `live_tree` shows what stays right: the counts, and that the walk
  ends.
- "skipped when those files are newer than its inputs and no dependency ran"
  (`workflow.go:7`): `stale` looks up an alias under which `mark` stores nothing
  (`step.go:69`). `BuildIsTrue` holds all the same for the graph `Aliased`: what a step
  reads is compared by its time, whatever name the dependency has.
- The same sentence, with a makefile that has a rule for itself (`Makefile: Makefile.in`,
  the graph `Makefile`): other steps read the makefile and do not depend on that rule
  (`make/graph.go:243`), so a Run may build them first and succeed with outputs that are
  older than the makefile, and the next Run builds them again although nothing changed.
  `BuildIsTrue` and `NoWorkTwice` leave out just what such an undeclared read goes into;
  without `Ordered` and `Declared` TLC finds both violated on this graph.
- An `Ensure` whose context ends during its checks, or that has found a broken tree,
  removes what is at the version directory by then (`store.go:567`): a good install,
  or the one another call has committed meanwhile (`wiped` in `GoodTreeKept`). It also
  removes a broken tree that a failed `Commit` has just put back while another call
  holds the good one at its displaced path; then no version is left in place, which is
  why `EndsInPlace` asks that no check removed anything.
- "skipped when those files are newer than its inputs": a step with the name of a phony
  step among its inputs runs every time, since `stale` takes a missing input for a
  reason (`step.go:85`; `Missing` in `NoWorkTwice`).
- The recovery of a failed `Commit` renames the displaced file back over what another
  writer has committed meanwhile, and moves the restored file onto the staging path,
  where `Rollback` deletes it (`atomic.go:39`, `atomic.go:50`; `undone`).
- `Install` does not look whether the directory is "missing or empty" (`store.go:90`);
  a dry run without cache installs again when no binary is found, although the option
  promises to leave an existing tree in place; the directories of staging and of
  displaced trees have names that `ListInstalled` takes for versions.
- "Canceling ctx closes them all" (`app.go:53`), "Loop until fn returns"
  (`thread/run.go:7`): `Loop` also ends with the context of `Run`. Windows that close
  with `Do` or `Go` after that find a channel of one job that nobody empties, and `Run`
  does not return (`Stranded` in `RunReturns`).
- A window that joins after the last one has left and before the session is
  done is closed at once. One window's context that ends during the driver check
  spoils the cached answer for all (`SpoiltOnlyByFirst` says only the first may).
- `Emit` lists close, resize and expose among what is kept (`buffer.go:44`). `Close`,
  `Resize` and `SetDead` publish them without keeping: a full subscriber does not hear of
  them (`ShownIsCurrent`, `ClosedEndsLoop`).
- "the next tick tries again" (`run.go:119`): a window that is closed before its loop
  subscribes leaves a bridged display without a surface for good, and the loop holds
  frame after frame (`unheard` in `ClosedEndsLoop`). A forced frame that was held is
  tried again without force and is dropped if its signature is that of the last one
  shown.

Not a disagreement, since nothing in the repository speaks of it, but worth knowing:
a Map inside an isolate succeeds although an item failed. The error is on the
isolate, which still fails, but the body goes on with partial results.
`MapReportsFailure` is therefore about Maps outside isolates.

## Fairness

The Go scheduler runs every goroutine that can run, and bodies, commands and copies
are taken to return: weak fairness on the steps of `run`, of workers and callers, of
callbacks and of cleaners. Actions that lock a mutex others take in turn (workers in
`ReadyQueue`, waiters in `WaitUntil`) have strong fairness: `sync.Mutex` hands over
to a goroutine that has waited for a millisecond. Nobody has to call `Go`, `Cancel`
or `Wait`, no context has to end, no server has to answer: a fetch must end only
when its context is cancelled. In `TaskGroup` a wait that only its context would end
is not fair, because `WaitUntil` shows that it can miss that end.

In `Window` the hosts' publishing and the loop's steps are weakly fair, and the
loop's receive and its return strongly: they are cases of a `select` that stay ready
only at times, and `select` chooses among the ready ones at random. No host has to
call anything. A frame is painted, held or given up; only `Draw` on the pages of a closed
buffer has to fail, since `Swap` returns `ErrClosed`, and on a bridged display nothing has
to. In `App` every goroutine has weak fairness; users, callers and the
parent context need not act. `ToolStore` has safety only, since a call may crash
anywhere.

## Proofs

For every number of tasks, workers, waiters, callers, publishers, subscribers, windows
and calls, and for every graph of a workflow; the constants' assumptions are the named
`ASSUME`s of the modules. The type invariants are part of the inductive ones.

**`TaskGroupProofs`** proves `Spec => []IInv` and from it type correctness,
`NoBodyAfterFailure`, `DepsDoneBeforeRun`, `FirstErrorRecorded`,
`IsolateReportsFailure`, `TasksCountsUnfinished`, `WaitIsQuiescent` and
`OutcomesStay`. None is inductive alone. `NoBodyAfterFailure` needs to know that a
task that is Failed and started has lost its context (`PhaseInv`), which holds
because a failure cancels the boundary, or the session, before anyone else can take
the lock; `DepsDoneBeforeRun` needs what `remainingDeps` still counts (`DepsInv`);
`IsolateReportsFailure` needs failures to be recorded on their boundary and nothing
unfinished below a boundary that succeeded (`IsolateInv`); all need the tree
(`RootInv`, `FreeInv`, `BoundInv`). The argument has two lemmas about the recursion:
`CascadeLeast` (a cascade is closed, and in every closed set) and `CascadePending`
(it fails pending tasks only); `FailStep` carries the invariant over any such
failure, and each action that fails something uses it. Two further invariants rest on
`IInv`: `MapInv` (the items of a Map are below it, in its boundary, and no
boundaries themselves), with which a drained Map that saw no session error has no
failed item (`MapTellsCaller`); and `WorkersInv` (a worker leaves only an ended
session), from which `StrandedWhenCancelled`.

**`ReadyQueueProofs`** proves mutual exclusion, `NoSleeperWhileWorkWaits` by counting
items against the workers on their way to the queue (`PushBalance`, `PopBalance`),
and that the queue implements `WorkerPool` (initial state, and every step a step or
a stutter).

**`LiveTreeProofs`** proves the four invariants of `LiveTree`. `TreeOK` and `Paths`
say that the ancestors of a task are a path. On it, `LiveNIsExact` is inductive: when a
task without rows finishes, what stops being live is the task and the finished ancestors
above it up to the first that has another row or is unfinished, and these are just the
ones that `pruneIdleAncestors` takes out (`EndsLeaves`); a task that has rows leaves
everything as live as it was (`EndsAbove`). `RowsEnd` has to hold even after a failure
crossed a claim, when a task that has left its list is linked in again and a list
need no longer agree with its ends. What survives is `LinkOK`: the two directions undo
each other, an end has nothing beyond it, linked rows have one parent, and there is a
ranking of the tasks that grows along the links. `linkLive` gives the new row the highest
rank, `moveLiveFront` the lowest, `unlinkLive` changes none; so a walk is shorter than
the number of tasks. As long as no failure crossed a claim the lists are `Whole` as
well: seen from either end, exactly the live tasks are rows (`Covers`), and no row that
run has moved comes after one it has not. The other two invariants follow, the missing
half (no live child is skipped) by taking the skipped child of least rank.
The last section is about `waitUntil`, in which `waitLive` waits for a count: it proves
`NoSleeperOverGoal` and `ContextWakesUnlessMissed` of `WaitUntil`. The invariant adds
that a waiter between its test and its sleep holds the mutex, so that no goal is reached
there, and that a callback has run only for a done context, so that a waiter past its
test whose callback has run is one that missed it.

**`SharedDownloadProofs`** proves `RefsCountAboard`, `FileThereForCopy` and
`NoForeignCancel`. The invariant says that a flight is cancelled and cleaned only
when nobody is aboard, and keeps its directory until then.

**`WindowProofs`** proves `KeptUnlessRaced` of the bus: a channel never holds more
than its capacity, and a publisher that has received from a full channel finds room
unless it is in `raced`. This carries over to `Window`, each of whose steps is a step of
the bus or leaves it alone. `ShownIsCurrent` follows from `Shown`: whatever the screen
is old in, the picture about to be painted has right, or the loop owes another picture
(it is dirty, as after a held frame, has seen an event, or will flush by force), or an event is on its way to
the loop, in a host that has not published, in a publisher that still has the loop's
channel to visit, or in the channel. For a model with `Consume` it has to be the event
of that very change, and the case that it was dropped remains.

**`ToolStoreProofs`** proves `GoodTreeKept` and `LeftoverIsReported`. The invariant
says that what reaches `Commit` is good and nobody writes to it any more
(`StagedIsGood`), that the tree `Commit` is about to remove is not the one that is kept
(`Kept`), and at which steps a call may hold a displaced or a staged tree (`Held`).
`EndsInPlace` needs that the final path is empty only while some call has displaced a
tree and will rename one there with its next step (`Placed`): while only one operation
may fail, either that rename succeeds or the one that puts the tree back does.

**`AppProofs`** proves `SessionHoldsWindows`; the invariant (`AInv`) is that the
session's count is the number of windows that have joined and not left. From it
`SpoiltOnlyByFirst`: the window that the check runs for is still waiting for it or was
cancelled by its caller (`CheckInv`).

**`WorkflowProofs`** proves the four invariants of the workflow for every finite set of
names and every graph.

`Chain`, `Below` and `Downstream` iterate a step as often as there are names. That such
an iteration is defined at all, that it stays in any set that is closed, and that it
ends in a fixed point, is induction on the number of steps; it is done with the least
number that has no value, or is outside of the set (`LeastNat`), and by counting names.
After that only two facts about `Below(s)` are used: it is closed, and in every closed
set that holds `s`.

`OrderIsSchedulable` and `OrderIsClosure` rest on `CInv`: the marks tell which steps
are on the stack and in the order (`Marks`), a step of the order comes after what it
depends on (`Downward`), a call is through with the dependencies before its index but
for the one it is calling (`Frames`), the stack is a path (`Descent`), all of it is
below the targets, and closure fails only if something below them is missing or on a
cycle.

`BuildIsTrue` rests on the existence of a set `L` of late files (`LateOK`). Outputs
that are behind are in `L` unless they are being rewritten; every file of `L` gives
`stale` a reason, by its time or by a file of `L` among its step's inputs; and what a
Run without an edit has settled is not in `L`. No single state function gives this set:
an edit adds the files downstream, a task that writes takes out what it writes, and a
step that is built from late files puts its outputs back in. All of it is said of the
steps that only declared reads go into (`Sure`), which read no others.

`NoWorkTwice` is about sets of steps that need no others and hold none that runs every
time and none that reads a step without naming it (`Sealed`): as long as they are `fresh` their outputs are there and no older than
their inputs, so `stale` has no reason for any of them, whatever else runs.

Only model-checked: all liveness, which is out of the prover's reach. Every invariant
and every action property of the passing runs is a theorem.

## Plan

1. `x/sound` mixer: `Read` against `Write` and `Close` of tracks.
2. `androidask`: late deliveries against the generation of the slot.
3. Line writers and the hub, then `x/term` panes.

## Not modelled

Formats, archives, parsers, tensors, layout and drawing, SQL, HTTP and code generation
(`x/fs`, `x/compression`, `x/parse`, `x/ndarray`, `x/image`, `x/ui` outside its loop, `x/db`,
`x/http`, `x/net`, `x/generate`, `x/build` and the like) are functions over bytes and
text or calls of other programs, with no protocol of their own. `x/ffi`, the host
backends under `x/driver` and `x/toolchain` are bindings and vendored code. The
progress view and the frontends of workflow are display and text. `PROJECT.json`
names each with its reason.
