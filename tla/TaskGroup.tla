------------------------------ MODULE TaskGroup ------------------------------
(***************************************************************************)
(* The session scheduler of x/taskgroup: the task tree, dependencies,      *)
(* leaf pools and their workers, failure propagation, isolates (error      *)
(* boundaries), cancellation and Wait.                                     *)
(*                                                                         *)
(* Every action is one critical section of Session.mu, or one step outside *)
(* it that another goroutine can observe (the CAS of run, a pop, a context *)
(* check).  The ready queues are sets here: ReadyQueue models their order, *)
(* lock and condition variable.  The live list is in LiveTree.             *)
(***************************************************************************)
EXTENDS Integers, FiniteSets

CONSTANTS
    Pools,   \* the leaf pools: IO, CPU, Internet
    Limit,   \* Limits: workers started per leaf pool
    Asked,   \* bound: the kinds of node the bodies schedule
    MaxID    \* bound: the largest task ID a run may allocate

Root == 1
Task == 2..MaxID          \* slots[2..]; slot 0 is unused and slot 1 is the root
Node == 1..MaxID

\* What a node is: a leaf of a pool, or a Control node made by Go, Map.Run or
\* Isolate.  A leaf's kind is its pool.
Control == "control"
Map     == "map"
Isolate == "isolate"
Kind    == Pools \cup {Control, Map, Isolate}

ASSUME MaxIDAssumption == MaxID \in Nat /\ MaxID >= 2
ASSUME PoolsAssumption == Pools \cap {Control, Map, Isolate} = {}
ASSUME AskedAssumption == Asked \subseteq Kind
ASSUME LimitAssumption == Limit \in [Pools -> Nat \ {0}]

VARIABLES
    next,      \* len(slots): the ID the next alloc takes
    state,     \* task.state; "Free" below the first alloc of that ID
    kind,      \* task.pool and task.isolate
    parent,    \* task.parent
    anc,       \* the chain of parents up to the root, the task itself excluded
    bound,     \* the innermost isolate of that chain, 0 for none
    deps,      \* the dependencies given to Go (never changed after pinDeps)
    remaining, \* the dependencies counted by task.remainingDeps
    phase,     \* where the goroutine that executes the node is
    waitFor,   \* the task a body blocks on in waitTask, 0 when it does not
    boundErr,  \* isolates whose err is set and whose own context is cancelled
    sessErr,   \* Session.err: the task whose error was recorded, 0 for nil
    cause,     \* context.Cause(Session.ctx)
    hard,      \* Session.hard
    pass,      \* the goroutine of New's AfterFunc
    tasks,     \* Session.tasks, a WaitGroup
    alive      \* workers of a pool that have not returned

goVars == <<next, kind, parent, anc, bound, deps>>
vars == <<next, state, kind, parent, anc, bound, deps, remaining, phase, waitFor,
          boundErr, sessErr, cause, hard, pass, tasks, alive>>

-----------------------------------------------------------------------------
(* Views of the state *)

Finished(t) == state[t] \in {"Done", "Failed"}
Pending     == {t \in Task : state[t] = "Pending"}
Unfinished  == {t \in Task : state[t] \in {"Pending", "Running"}}

\* The innermost isolate above id, else id itself when it is one, else 0.
\* Parents never change, so the walk up the chain is done once, by alloc.
isolateOf(id) == IF bound[id] # 0 THEN bound[id]
                 ELSE IF kind[id] = Isolate THEN id ELSE 0

\* ctx.Err() # nil for the context of b: the session's, cut by each isolate.
CtxErr(b) == cause # "none" \/ \E a \in anc[b] \cup {b} : a \in boundErr

\* liveN of b is zero: nothing below b is unfinished.
NoneLive(b) == \A t \in Unfinished : b \notin anc[t]

\* task.waiters, those that finishLocked would not return from at once.
Waiters(t) == {w \in Pending : t \in remaining[w]}

Queued(p) == {t \in Task : kind[t] = p /\ phase[t] = "queued"}
Busy(p)   == {t \in Task : kind[t] = p /\ phase[t] \in {"picked", "started", "body"}}
Idle(p)   == Cardinality(Busy(p)) < alive[p]

-----------------------------------------------------------------------------
(* finishLocked and what it calls *)

\* The pending tasks that a failure inside boundary a fails at once: the
\* subtree of the isolate a (failSubtree), or everything outside isolates when
\* the failure is the session's first (recordError, failOutsideIsolates).
Struck(a) ==
    {u \in Pending : IF a # 0 THEN a = u \/ a \in anc[u]
                     ELSE sessErr = 0 /\ isolateOf(u) = 0}

\* X holds everything that the failure of a member of X fails in turn: what
\* its boundary strikes, unless it is a boundary itself, and its waiters.
Closed(X) ==
    \A t \in X : /\ kind[t] # Isolate => Struck(isolateOf(t)) \subseteq X
                 /\ Waiters(t) \subseteq X

\* All that the recursion of finishLocked fails when it is started on S.
Cascade(S) ==
    {t \in Task : \A X \in SUBSET Task : S \subseteq X /\ Closed(X) => t \in X}

\* The isolates that the failures F are recorded on: err set, context cancelled.
BoundariesOf(F) == {isolateOf(t) : t \in {u \in F : kind[u] # Isolate}} \ {0}

\* The failures in F that no isolate contains.
Escaped(F) == {t \in F : kind[t] # Isolate /\ isolateOf(t) = 0}

\* Session.cancel: the first cause stays, and New's AfterFunc starts its pass.
cancel(causes) ==
    IF cause = "none" THEN cause' \in causes /\ pass' = "armed"
    ELSE UNCHANGED <<cause, pass>>

\* Mutant: the error is kept and the context is not cancelled.
recordErrorNoCancel(e) ==
    IF sessErr = 0 /\ e # 0 THEN sessErr' = e /\ UNCHANGED <<cause, pass>>
    ELSE UNCHANGED <<sessErr, cause, pass>>

\* The first escaped failure becomes the session's error and the cause of its
\* context, which errors.Is(context.Canceled) may hold of or not.
recordError(e) ==
    IF sessErr = 0 /\ e # 0
    THEN sessErr' = e /\ cancel({"canceled", "other"})
    ELSE UNCHANGED <<sessErr, cause, pass>>

\* finishLocked with an error on every member of F; new and bounds are the task
\* that goTask fails before it is in the tree, and its boundary.
FailAll(F, new, bounds) ==
    /\ state' = [t \in Task |-> IF t \in F \cup new THEN "Failed" ELSE state[t]]
    /\ remaining' = [t \in Task |-> remaining[t] \ F]
    /\ boundErr' = boundErr \cup bounds \cup BoundariesOf(F)

\* The failure that reaches recordError first: the one the recursion starts on
\* if that one escapes, else one it comes to, 0 if none.
FirstEscaped(F, first) ==
    IF first # 0 THEN {first} ELSE IF Escaped(F) = {} THEN {0} ELSE Escaped(F)

\* run's CAS does not hold the lock: a goroutine that has picked up a task of
\* F may still win it, before finishLocked stores Failed over Running.
Overtaken(F) == SUBSET {t \in F : phase[t] = "picked"}

\* Where the goroutine of a ready node starts: enqueueLocked pushes a leaf on
\* the queue of its pool and starts a goroutine for a Control node.
enqueueLocked(k) == IF k \in Pools THEN "queued" ELSE "picked"

\* Mutant: a waiter is enqueued by the first of its dependencies that finishes.
ReleasesEarly(id, w) == w \in Waiters(id)

\* remainingDeps of the waiter w reaches zero when id is Done.
Releases(id, w) == w \in Waiters(id) /\ remaining[w] = {id}

\* finishLocked(id, nil): the waiters left without dependencies are enqueued.
finishDone(id) ==
    /\ state' = [state EXCEPT ![id] = "Done"]
    /\ remaining' = [t \in Task |-> remaining[t] \ {id}]
    /\ phase' = [t \in Node |->
                    IF t = id THEN "gone"
                    ELSE IF t \in Task /\ Releases(id, t) THEN enqueueLocked(kind[t])
                    ELSE phase[t]]
    /\ tasks' = tasks - 1
    /\ UNCHANGED <<boundErr, sessErr, cause, pass>>

\* finishLocked(id, err)
finishFailed(id) ==
    LET F == Cascade({id})
    IN  /\ FailAll(F, {}, {})
        /\ \E e \in FirstEscaped(F, IF id \in Escaped(F) THEN id ELSE 0) : recordError(e)
        /\ \E R \in Overtaken(F) :
              phase' = [t \in Node |-> IF t = id THEN "gone"
                                       ELSE IF t \in R THEN "started" ELSE phase[t]]
        /\ tasks' = tasks - Cardinality(F)

\* Mutant: a task that is already finished is finished again.
finishLockedTwice(id, ok) ==
    /\ IF ok THEN finishDone(id) ELSE finishFailed(id)
    /\ UNCHANGED <<goVars, waitFor, hard, alive>>

\* finishLocked returns at once on a finished task.
finishLocked(id, ok) ==
    /\ IF Finished(id)
       THEN /\ phase' = [phase EXCEPT ![id] = "gone"]
            /\ UNCHANGED <<state, remaining, boundErr, sessErr, cause, pass, tasks>>
       ELSE IF ok THEN finishDone(id) ELSE finishFailed(id)
    /\ UNCHANGED <<goVars, waitFor, hard, alive>>

-----------------------------------------------------------------------------
(* goTask: Go, Map.Run and Isolate called by a body *)

\* b runs code: the main goroutine (the root) or the body of a Control node,
\* not blocked in a wait.
Active(b) == phase[b] = "body" /\ kind[b] \notin Pools /\ waitFor[b] = 0

\* What a body may ask for.  The loop of Map.Run only makes items, each with
\* the previous one as its dependency when the map is serial.  Map.Run and
\* Isolate pass no dependencies, and the ID of a boundary is never returned.
\* An ID not allocated yet (the new task's own) stands for one made up.
MayAsk(b, k, D) ==
    /\ kind[b] = Map => k \in Pools \cup {Control} 
                     /\ \A d \in D : /\ parent[d] = b
                                     /\ \A c \in Task : parent[c] = b => c <= d
    /\ k \in {Map, Isolate} => D = {}
    /\ \A d \in D : kind[d] # Isolate

\* The boundary that a child of b is in.
Inside(b) == IF kind[b] = Isolate THEN b ELSE bound[b]

\* alloc: the task joins the tree below b.
alloc(id, b, k, D) ==
    /\ next' = next + 1
    /\ kind' = [kind EXCEPT ![id] = k]
    /\ parent' = [parent EXCEPT ![id] = b]
    /\ anc' = [anc EXCEPT ![id] = anc[b] \cup {b}]
    /\ bound' = [bound EXCEPT ![id] = Inside(b)]
    /\ deps' = [deps EXCEPT ![id] = D]

\* pinDeps finds no dependency that is unknown, cyclic or failed.
pinDeps(id, D) == \A d \in D : d < id /\ state[d] # "Failed"

goTask(b, k, D) ==
    LET left == {d \in D : state[d] # "Done"}
    IN  /\ Active(b) /\ next <= MaxID /\ MayAsk(b, k, D)
        /\ pinDeps(next, D)
        /\ alloc(next, b, k, D)
        /\ state' = [state EXCEPT ![next] = "Pending"]
        /\ remaining' = [remaining EXCEPT ![next] = left]
        /\ phase' = [phase EXCEPT ![next] = IF left = {} THEN enqueueLocked(k) ELSE "wait"]
        /\ waitFor' = [waitFor EXCEPT ![b] = IF k \in {Map, Isolate} THEN next ELSE 0]
        /\ tasks' = tasks + 1
        /\ UNCHANGED <<boundErr, sessErr, cause, hard, pass, alive>>

\* Go with a nil fn or with a dependency that pinDeps rejects: the new task
\* fails inside the call, with all that its failure fails.
goTaskFails(b, k, D) ==
    LET F == Cascade(Struck(Inside(b)))
    IN  /\ Active(b) /\ next <= MaxID /\ MayAsk(b, k, D)
        /\ k \notin {Map, Isolate}
        /\ IF D = {} THEN kind[b] # Map ELSE ~pinDeps(next, D)
        /\ alloc(next, b, k, D)
        /\ FailAll(F, {next}, {Inside(b)} \ {0})
        /\ \E e \in FirstEscaped(F, IF Inside(b) = 0 THEN next ELSE 0) : recordError(e)
        /\ \E R \in Overtaken(F) :
              phase' = [t \in Node |-> IF t \in R THEN "started" ELSE phase[t]]
        /\ tasks' = tasks - Cardinality(F)
        /\ UNCHANGED <<waitFor, hard, alive>>

-----------------------------------------------------------------------------
(* Workers, run and the bodies *)

\* readyQ.pop by an idle worker of pool p.
pop(p) ==
    /\ Idle(p)
    /\ \E t \in Queued(p) : phase' = [phase EXCEPT ![t] = "picked"]
    /\ UNCHANGED <<goVars, state, remaining, waitFor, boundErr, sessErr, cause,
                   hard, pass, tasks, alive>>

\* Mutant: a worker returns on an empty queue of a session that goes on.
mayExitLive(p) == Idle(p) /\ Queued(p) = {}

\* pop returns false only on an empty queue, once the session's context is
\* done or the queue is closed; the worker then returns.
mayExit(p) ==
    /\ Idle(p) /\ Queued(p) = {}
    /\ cause # "none" \/ phase[Root] = "closing"

workerExit(p) ==
    /\ mayExit(p)
    /\ alive' = [alive EXCEPT ![p] = @ - 1]
    /\ UNCHANGED <<goVars, state, remaining, phase, waitFor, boundErr, sessErr,
                   cause, hard, pass, tasks>>

\* Mutant: a plain store instead of the compare-and-swap.
runClaimStore(t) ==
    /\ phase[t] = "picked"
    /\ state' = [state EXCEPT ![t] = "Running"]
    /\ phase' = [phase EXCEPT ![t] = "started"]
    /\ UNCHANGED <<goVars, remaining, waitFor, boundErr, sessErr, cause, hard,
                   pass, tasks, alive>>

\* run: the compare-and-swap of Pending to Running, outside the lock.
runClaim(t) ==
    /\ phase[t] = "picked"
    /\ IF state[t] = "Pending"
       THEN /\ state' = [state EXCEPT ![t] = "Running"]
            /\ phase' = [phase EXCEPT ![t] = "started"]
       ELSE phase' = [phase EXCEPT ![t] = "gone"] /\ UNCHANGED state
    /\ UNCHANGED <<goVars, remaining, waitFor, boundErr, sessErr, cause, hard,
                   pass, tasks, alive>>

\* Mutant: run calls fn without a look at the context.
runEnterUnchecked(t) ==
    /\ phase[t] = "started"
    /\ phase' = [phase EXCEPT ![t] = "body"]
    /\ UNCHANGED <<goVars, state, remaining, waitFor, boundErr, sessErr, cause,
                   hard, pass, tasks, alive>>

\* run: the context is alive, fn is called.
runEnter(t) ==
    /\ phase[t] = "started" /\ ~CtxErr(t)
    /\ phase' = [phase EXCEPT ![t] = "body"]
    /\ UNCHANGED <<goVars, state, remaining, waitFor, boundErr, sessErr, cause,
                   hard, pass, tasks, alive>>

\* run: the context is done, the task fails with its cause.
runAbort(t) == phase[t] = "started" /\ CtxErr(t) /\ finishLocked(t, FALSE)

\* fn of a leaf or of a plain Control node returns.
bodyReturn(t, ok) ==
    /\ t \in Task /\ phase[t] = "body" /\ waitFor[t] = 0
    /\ kind[t] \notin {Map, Isolate}
    /\ finishLocked(t, ok)

\* The loop of Map.Run ends, or the fn given to Isolate returns: both go on to
\* waitLive on their own node.
bodyDrain(t, ok) ==
    /\ phase[t] = "body" /\ waitFor[t] = 0 /\ kind[t] \in {Map, Isolate}
    /\ ok \/ kind[t] = Isolate
    /\ phase' = [phase EXCEPT ![t] = IF ok THEN "drain" ELSE "drainErr"]
    /\ UNCHANGED <<goVars, state, remaining, waitFor, boundErr, sessErr, cause,
                   hard, pass, tasks, alive>>

\* Mutants: the error of the node, or of the session, is not asked for.
waitLiveNoOwn(t)  == NoneLive(t) /\ sessErr = 0
waitLiveNoSess(t) == NoneLive(t) /\ t \notin boundErr

\* waitLive: nothing live below the node comes first, and then the error is
\* the node's own or the session's; a done context is looked at only after.
waitLiveOk(t) == NoneLive(t) /\ t \notin boundErr /\ sessErr = 0

waitLive(t) ==
    /\ phase[t] \in {"drain", "drainErr"}
    /\ NoneLive(t) \/ CtxErr(t)
    /\ finishLocked(t, phase[t] = "drain" /\ waitLiveOk(t))

\* waitTask in Map.Run and Isolate returns to the body that called them.
waitTask(b) ==
    /\ waitFor[b] # 0
    /\ Finished(waitFor[b]) \/ CtxErr(b)
    /\ waitFor' = [waitFor EXCEPT ![b] = 0]
    /\ UNCHANGED <<goVars, state, remaining, phase, boundErr, sessErr, cause,
                   hard, pass, tasks, alive>>

-----------------------------------------------------------------------------
(* Cancellation and Wait *)

\* Session.Cancel, from any goroutine.
Cancel ==
    /\ phase[Root] # "returned"
    /\ hard' = TRUE
    /\ cancel({"canceled", "other"})
    /\ UNCHANGED <<goVars, state, remaining, phase, waitFor, boundErr, sessErr,
                   tasks, alive>>

\* The context given to New ends: cancelled, or past its deadline.
parentDone ==
    /\ phase[Root] # "returned" /\ cause = "none"
    /\ cancel({"canceled", "other"})
    /\ UNCHANGED <<goVars, state, remaining, phase, waitFor, boundErr, sessErr,
                   hard, tasks, alive>>

\* The goroutine of New's AfterFunc: one pass over what is pending by then.
failPass ==
    LET S == {u \in Pending : hard \/ cause = "canceled" \/ isolateOf(u) = 0}
        F == Cascade(S)
    IN  /\ pass = "armed"
        /\ FailAll(F, {}, {})
        /\ sessErr' \in IF sessErr = 0 THEN FirstEscaped(F, 0) ELSE {sessErr}
        /\ pass' = "done"
        /\ \E R \in Overtaken(F) :
              phase' = [t \in Node |-> IF t \in R THEN "started" ELSE phase[t]]
        /\ tasks' = tasks - Cardinality(F)
        /\ UNCHANGED <<goVars, waitFor, cause, hard, alive>>

\* The main goroutine calls Wait.
Wait ==
    /\ Active(Root)
    /\ phase' = [phase EXCEPT ![Root] = "waiting"]
    /\ UNCHANGED <<goVars, state, remaining, waitFor, boundErr, sessErr, cause,
                   hard, pass, tasks, alive>>

\* tasks.Wait returns: the context is cancelled and the queues are closed.
WaitClose ==
    /\ phase[Root] = "waiting" /\ tasks = 0
    /\ phase' = [phase EXCEPT ![Root] = "closing"]
    /\ cancel({"canceled"})
    /\ UNCHANGED <<goVars, state, remaining, waitFor, boundErr, sessErr, hard,
                   tasks, alive>>

\* Mutant: Wait returns without workers.Wait.
WaitReturnEarly ==
    /\ phase[Root] = "closing"
    /\ phase' = [phase EXCEPT ![Root] = "returned"]
    /\ UNCHANGED <<goVars, state, remaining, waitFor, boundErr, sessErr, cause,
                   hard, pass, tasks, alive>>

\* workers.Wait returns.
WaitReturn ==
    /\ phase[Root] = "closing" /\ \A p \in Pools : alive[p] = 0
    /\ phase' = [phase EXCEPT ![Root] = "returned"]
    /\ UNCHANGED <<goVars, state, remaining, waitFor, boundErr, sessErr, cause,
                   hard, pass, tasks, alive>>

-----------------------------------------------------------------------------
(* Specification *)

\* New: the root is in the tree, the workers are started.
Init ==
    /\ next = 2
    /\ state = [t \in Task |-> "Free"]
    /\ kind = [n \in Node |-> Control]
    /\ parent = [t \in Task |-> 0]
    /\ anc = [n \in Node |-> {}]
    /\ bound = [n \in Node |-> 0]
    /\ deps = [t \in Task |-> {}]
    /\ remaining = [t \in Task |-> {}]
    /\ phase = [n \in Node |-> IF n = Root THEN "body" ELSE "wait"]
    /\ waitFor = [n \in Node |-> 0]
    /\ boundErr = {}
    /\ sessErr = 0
    /\ cause = "none"
    /\ hard = FALSE
    /\ pass = "idle"
    /\ tasks = 0
    /\ alive = Limit

RunStep(t) ==
    \/ runClaim(t) \/ runEnter(t) \/ runAbort(t)
    \/ \E ok \in BOOLEAN : bodyReturn(t, ok) \/ bodyDrain(t, ok)
    \/ waitLive(t)

Next ==
    \/ \E b \in Node, k \in Asked, D \in SUBSET (Task \cap 2..next) :
          goTask(b, k, D) \/ goTaskFails(b, k, D)
    \/ \E p \in Pools : pop(p) \/ workerExit(p)
    \/ \E t \in Task : RunStep(t)
    \/ \E b \in Node : waitTask(b)
    \/ Cancel \/ parentDone \/ failPass
    \/ Wait \/ WaitClose \/ WaitReturn

Spec == Init /\ [][Next]_vars

\* The steps of run that are taken once they stay enabled: goroutines are
\* scheduled and bodies return.  A wait that only its context would end is left
\* out: it may miss the broadcast (WaitUntil).
RunGoesOn(t) ==
    \/ runClaim(t) \/ runEnter(t) \/ runAbort(t)
    \/ \E ok \in BOOLEAN : bodyReturn(t, ok) \/ bodyDrain(t, ok)
    \/ NoneLive(t) /\ waitLive(t)

\* Nobody has to call Go, Cancel or Wait.
Fairness ==
    /\ \A p \in Pools : WF_vars(pop(p)) /\ WF_vars(workerExit(p))
    /\ \A t \in Task : WF_vars(RunGoesOn(t))
    /\ \A b \in Node : WF_vars(waitFor[b] # 0 /\ Finished(waitFor[b]) /\ waitTask(b))
    /\ WF_vars(failPass) /\ WF_vars(WaitClose) /\ WF_vars(WaitReturn)

FairSpec == Spec /\ Fairness

-----------------------------------------------------------------------------
(* Properties *)

\* The variables have their types.
TypeOK ==
    /\ next \in 2..(MaxID + 1)
    /\ state \in [Task -> {"Free", "Pending", "Running", "Done", "Failed"}]
    /\ kind \in [Node -> Kind]
    /\ parent \in [Task -> 0..MaxID]
    /\ anc \in [Node -> SUBSET Node]
    /\ bound \in [Node -> {0} \cup Task]
    /\ deps \in [Task -> SUBSET Task]
    /\ remaining \in [Task -> SUBSET Task]
    /\ phase \in [Node -> {"wait", "queued", "picked", "started", "body", "drain",
                           "drainErr", "gone", "waiting", "closing", "returned"}]
    /\ waitFor \in [Node -> 0..MaxID]
    /\ boundErr \subseteq Task
    /\ sessErr \in 0..MaxID
    /\ cause \in {"none", "canceled", "other"}
    /\ hard \in BOOLEAN
    /\ pass \in {"idle", "armed", "done"}
    /\ tasks \in Int
    /\ alive \in [Pools -> Nat]

InBody(t) == phase[t] \in {"body", "drain", "drainErr"}

\* The fn of a task never runs once the task is Failed, although run's CAS and
\* the Store of a concurrent finishLocked are not ordered by a lock: whoever
\* fails a task that a goroutine has picked up cancels its context first.
NoBodyAfterFailure == \A t \in Task : InBody(t) => state[t] = "Running"

\* A task starts only when every dependency is Done, whichever of the calls
\* to goTask, finishLocked and the fail passes came in between.
DepsDoneBeforeRun ==
    \A t \in Task : state[t] \in {"Running", "Done"} =>
                        \A d \in deps[t] : state[d] = "Done"

\* Session.err is set exactly when a failure escaped every isolate, it is then
\* one of those, and the session's context is cancelled.
FirstErrorRecorded ==
    LET escaped == Escaped({t \in Task : state[t] = "Failed"})
    IN  IF sessErr = 0 THEN escaped = {} ELSE sessErr \in escaped /\ cause # "none"

\* An isolate that succeeds had no failure inside: what a boundary keeps from
\* its siblings it returns to its caller.
IsolateReportsFailure ==
    \A a, t \in Task :
        /\ kind[a] = Isolate /\ state[a] = "Done"
        /\ kind[t] # Isolate /\ isolateOf(t) = a
        => state[t] # "Failed"

\* A Map outside every isolate that succeeds ran every item to success.
MapReportsFailure ==
    \A m, t \in Task :
        kind[m] = Map /\ isolateOf(m) = 0 /\ state[m] = "Done" /\ parent[t] = m
        => state[t] = "Done"

\* Once Wait returns nothing runs, nothing is pending, no worker is left.
WaitIsQuiescent ==
    phase[Root] = "returned" =>
        /\ \A t \in Task : ~InBody(t) /\ t \notin Unfinished
        /\ \A p \in Pools : alive[p] = 0

\* The WaitGroup counts the tasks that are not finished: each is counted down
\* once, by whoever of run, a dependency and a fail pass gets to it first.
TasksCountsUnfinished == tasks = Cardinality(Unfinished)

\* A pending leaf on the queue of a pool whose workers have all returned.
Stranded == \E t \in Pending : \E p \in Pools : t \in Queued(p) /\ alive[p] = 0

\* Work is left without workers only in a session that is cancelled.
StrandedOnlyIfCancelled == Stranded => cause # "none"

\* A finished task keeps its outcome and Session.err its first error.
OutcomesStay ==
    [][/\ \A t \in Task : Finished(t) => state'[t] = state[t]
       /\ sessErr # 0 => sessErr' = sessErr]_vars

\* Wait returns, unless a cancelled session has stranded a leaf: one that a body
\* scheduled behind the pass over pending tasks and behind the last worker.
WaitReturnsUnlessStranded ==
    phase[Root] = "waiting" ~> phase[Root] = "returned" \/ (Stranded /\ cause # "none")

\* TestSessionCancelUnblocksWait: once the session is cancelled, Wait returns.
CancelUnblocksWait == hard /\ phase[Root] = "waiting" ~> phase[Root] = "returned"

-----------------------------------------------------------------------------
(* The inductive invariant that the proofs in TaskGroupProofs rest on *)

\* The root is a Control node that only the main goroutine executes.
RootInv ==
    /\ kind[Root] = Control /\ anc[Root] = {} /\ bound[Root] = 0
    /\ phase[Root] \in {"body", "waiting", "closing", "returned"}

\* The slots from next on are unused.
FreeInv ==
    \A t \in Task :
        /\ t >= next <=> state[t] = "Free"
        /\ state[t] = "Free" => phase[t] = "wait" /\ t \notin boundErr
        /\ \A a \in anc[t] : a < next
        /\ \A d \in remaining[t] : d < next

\* The innermost isolate of a task is one of its ancestors.
BoundInv ==
    \A t \in Task :
        bound[t] # 0 => bound[t] \in anc[t] /\ kind[bound[t]] = Isolate

\* Phase and state agree; a task that is Failed and started all the same has
\* lost its context.
PhaseInv ==
    \A t \in Task :
        /\ phase[t] \in {"wait", "queued", "picked", "started", "body", "drain",
                         "drainErr", "gone"}
        /\ state[t] = "Pending" => phase[t] \in {"wait", "queued", "picked"}
        /\ state[t] = "Running" => phase[t] = "started" \/ InBody(t)
        /\ InBody(t) => state[t] = "Running"
        /\ phase[t] \in {"queued", "picked"} => state[t] \in {"Pending", "Failed"}
        /\ phase[t] = "started" => \/ state[t] = "Running"
                                   \/ state[t] = "Failed" /\ CtxErr(t)

\* What remainingDeps has left to count, and when it has nothing.
DepsInv ==
    \A t \in Task :
        /\ state[t] \in {"Pending", "Running", "Done"} =>
              \A d \in deps[t] : state[d] = "Done" \/ d \in remaining[t]
        /\ state[t] = "Pending" /\ phase[t] # "wait" => remaining[t] = {}
        /\ state[t] \in {"Running", "Done"} => remaining[t] = {}

\* Failures are recorded on their boundary, and a boundary that succeeded has
\* nothing unfinished below it and nothing recorded on it.
IsolateInv ==
    \A t \in Task :
        /\ state[t] = "Failed" /\ kind[t] # Isolate /\ bound[t] # 0 => bound[t] \in boundErr
        /\ kind[t] = Isolate /\ state[t] = "Done" =>
              t \notin boundErr /\ \A u \in Unfinished : t \notin anc[u]

\* The main goroutine is past tasks.Wait only when every task is finished, and
\* the pass of AfterFunc starts only in a cancelled session.
WaitInv ==
    /\ pass # "idle" => cause # "none"
    /\ phase[Root] \in {"closing", "returned"} => Unfinished = {}
    /\ phase[Root] = "returned" => \A p \in Pools : alive[p] = 0

IInv ==
    /\ TypeOK /\ RootInv /\ FreeInv /\ BoundInv /\ PhaseInv /\ DepsInv
    /\ IsolateInv /\ WaitInv /\ FirstErrorRecorded /\ TasksCountsUnfinished

\* A task is below its parent, an item of a Map is in the boundary of the Map and
\* is no boundary itself, and a Map that succeeded has only items that did.
MapInv ==
    /\ \A t \in Task : parent[t] # 0 =>
          parent[t] < next /\ parent[t] \in anc[t] /\ state[t] # "Free"
    /\ \A m, t \in Task : parent[t] = m /\ kind[m] = Map =>
          bound[t] = bound[m] /\ kind[t] # Isolate
    /\ MapReportsFailure

\* Workers leave, and Wait closes the queues, only in a session whose context is
\* done.
WorkersInv ==
    /\ phase[Root] \in {"closing", "returned"} => cause # "none"
    /\ \A p \in Pools : alive[p] = Limit[p] \/ cause # "none"
=============================================================================
