----------------------------- MODULE ReadyQueue -----------------------------
(***************************************************************************)
(* readyQ of x/taskgroup/ready.go under the workers of startWorkers: one   *)
(* mutex, one condition variable, a context whose end is announced by      *)
(* AfterFunc callbacks that take the mutex before they broadcast.          *)
(*                                                                         *)
(* A critical section is split where it reads what is not under the mutex  *)
(* (the context) before it sleeps.                                         *)
(***************************************************************************)
EXTENDS Integers, Sequences, FiniteSets

CONSTANTS
    Workers,   \* the goroutines of startWorkers for this pool
    Items,     \* the leaf IDs: enqueueLocked pushes each at most once
    None       \* no item, no worker

ASSUME WorkersAssumption == IsFiniteSet(Workers)
ASSUME NoneAssumption == None \notin Items \cup Workers

VARIABLES
    q,         \* readyQ.q
    closed,    \* readyQ.closed
    ctxDone,   \* ctx.Err() # nil
    mu,        \* the worker that holds readyQ.mu across steps, None if nobody
    pc,        \* where a worker is in its loop
    asleep,    \* the notify list of readyQ.cond
    armed,     \* workers whose pop has an AfterFunc that has not run
    newWake,   \* New's own AfterFunc has not called wake
    hold,      \* the item a worker runs
    pushed     \* bound: the items pushed so far

vars == <<q, closed, ctxDone, mu, pc, asleep, armed, newWake, hold, pushed>>

Init ==
    /\ q = <<>> /\ closed = FALSE /\ ctxDone = FALSE /\ mu = None
    /\ pc = [w \in Workers |-> "loop"]
    /\ asleep = {} /\ armed = {} /\ newWake = TRUE
    /\ hold = [w \in Workers |-> None]
    /\ pushed = {}

Goto(w, l) == pc' = [pc EXCEPT ![w] = l]

-----------------------------------------------------------------------------
(* The callers *)

\* cond.Signal: one sleeper, if there is one, goes for the mutex.
Signal ==
    IF asleep = {} THEN UNCHANGED <<asleep, pc>>
    ELSE \E w \in asleep : asleep' = asleep \ {w} /\ Goto(w, "woken")

\* cond.Broadcast
Broadcast ==
    /\ asleep' = {}
    /\ pc' = [w \in Workers |-> IF w \in asleep THEN "woken" ELSE pc[w]]

\* Mutant: nobody is woken for the new item.
pushNoSignal(i) ==
    /\ mu = None /\ i \notin pushed
    /\ pushed' = pushed \cup {i}
    /\ q' = IF closed THEN q ELSE Append(q, i)
    /\ UNCHANGED <<closed, ctxDone, mu, pc, asleep, armed, newWake, hold>>

\* push: dropped once the queue is closed.
push(i) ==
    /\ mu = None /\ i \notin pushed
    /\ pushed' = pushed \cup {i}
    /\ IF closed THEN UNCHANGED <<q, asleep, pc>>
       ELSE q' = Append(q, i) /\ Signal
    /\ UNCHANGED <<closed, ctxDone, mu, armed, newWake, hold>>

\* The session's context ends; the callbacks are started and run later.
cancel ==
    /\ ~ctxDone /\ ctxDone' = TRUE
    /\ UNCHANGED <<q, closed, mu, pc, asleep, armed, newWake, hold, pushed>>

\* Mutant: the broadcast does not wait for the mutex.
wakeUnlocked == Broadcast

\* wake: the broadcast is made with the mutex held.
wake == mu = None /\ Broadcast

\* The AfterFunc of a pop, and the one of New.
popWake(w) ==
    /\ ctxDone /\ w \in armed
    /\ wake
    /\ armed' = armed \ {w}
    /\ UNCHANGED <<q, closed, ctxDone, mu, newWake, hold, pushed>>

sessionWake ==
    /\ ctxDone /\ newWake
    /\ wake
    /\ newWake' = FALSE
    /\ UNCHANGED <<q, closed, ctxDone, mu, armed, hold, pushed>>

\* close, which Wait calls after it has cancelled the context.
close ==
    /\ ctxDone /\ ~closed /\ mu = None
    /\ closed' = TRUE /\ Broadcast
    /\ UNCHANGED <<q, ctxDone, mu, armed, newWake, hold, pushed>>

-----------------------------------------------------------------------------
(* A worker *)

\* pop: AfterFunc, then the mutex.
popArm(w) ==
    /\ pc[w] = "loop"
    /\ armed' = armed \cup {w} /\ Goto(w, "woken")
    /\ UNCHANGED <<q, closed, ctxDone, mu, asleep, newWake, hold, pushed>>

\* The mutex is taken, by a new pop or by one that cond.Wait wakes.
popLock(w) ==
    /\ pc[w] = "woken" /\ mu = None
    /\ mu' = w /\ Goto(w, "test")
    /\ UNCHANGED <<q, closed, ctxDone, asleep, armed, newWake, hold, pushed>>

\* The loop condition holds: the worker is about to sleep.
popWait(w) ==
    /\ pc[w] = "test" /\ q = <<>> /\ ~closed /\ ~ctxDone
    /\ Goto(w, "add")
    /\ UNCHANGED <<q, closed, ctxDone, mu, asleep, armed, newWake, hold, pushed>>

\* cond.Wait: on the notify list, then off the mutex.
popSleep(w) ==
    /\ pc[w] = "add"
    /\ asleep' = asleep \cup {w} /\ mu' = None /\ Goto(w, "asleep")
    /\ UNCHANGED <<q, closed, ctxDone, armed, newWake, hold, pushed>>

\* Mutant: a worker leaves an ended session with items in the queue.
popFalseEarly(w) ==
    /\ pc[w] = "test" /\ (closed \/ ctxDone)
    /\ mu' = None /\ armed' = armed \ {w} /\ Goto(w, "left")
    /\ UNCHANGED <<q, closed, ctxDone, asleep, newWake, hold, pushed>>

\* pop returns false and the worker returns.
popFalse(w) ==
    /\ pc[w] = "test" /\ q = <<>> /\ (closed \/ ctxDone)
    /\ mu' = None /\ armed' = armed \ {w} /\ Goto(w, "left")
    /\ UNCHANGED <<q, closed, ctxDone, asleep, newWake, hold, pushed>>

\* pop returns the head and the worker runs it.
popTrue(w) ==
    /\ pc[w] = "test" /\ q # <<>>
    /\ q' = Tail(q) /\ hold' = [hold EXCEPT ![w] = Head(q)]
    /\ mu' = None /\ armed' = armed \ {w} /\ Goto(w, "run")
    /\ UNCHANGED <<closed, ctxDone, asleep, newWake, pushed>>

runReturns(w) ==
    /\ pc[w] = "run"
    /\ hold' = [hold EXCEPT ![w] = None] /\ Goto(w, "loop")
    /\ UNCHANGED <<q, closed, ctxDone, mu, asleep, armed, newWake, pushed>>

Worker(w) ==
    \/ popArm(w) \/ popLock(w) \/ popWait(w) \/ popSleep(w)
    \/ popFalse(w) \/ popTrue(w) \/ runReturns(w)

Next ==
    \/ \E i \in Items : push(i)
    \/ cancel \/ sessionWake \/ close
    \/ \E w \in Workers : popWake(w) \/ Worker(w)

Spec == Init /\ [][Next]_vars

\* Goroutines are scheduled, runs return, and sync.Mutex does not starve a
\* goroutine that waits for it.
Fairness ==
    /\ \A w \in Workers : SF_vars(Worker(w)) /\ SF_vars(popWake(w))
    /\ SF_vars(sessionWake)

FairSpec == Spec /\ Fairness

-----------------------------------------------------------------------------
(* Properties *)

\* The variables have their types, and the mutex has the owner its holder
\* thinks it has.
TypeOK ==
    /\ q \in Seq(Items) /\ closed \in BOOLEAN /\ ctxDone \in BOOLEAN
    /\ newWake \in BOOLEAN /\ pushed \subseteq Items
    /\ pc \in [Workers -> {"loop", "woken", "test", "add", "asleep", "run", "left"}]
    /\ armed \subseteq Workers
    /\ hold \in [Workers -> Items \cup {None}]
    /\ asleep = {w \in Workers : pc[w] = "asleep"}
    /\ mu \in Workers \cup {None}
    /\ \A w \in Workers : mu = w <=> pc[w] \in {"test", "add"}

Coming == {w \in Workers : pc[w] \in {"loop", "woken", "test"}}

\* No worker sleeps while an item waits that nobody is on the way to: every
\* push wakes a sleeper if there is one, and nobody falls asleep over an item.
NoSleeperWhileWorkWaits == asleep # {} => Len(q) <= Cardinality(Coming)

\* The workers keep the promise that TaskGroup builds on.
Pool == INSTANCE WorkerPool WITH
            ready <- q, holds <- hold, left <- {w \in Workers : pc[w] = "left"},
            ended <- ctxDone
ImplementsPool == Pool!Spec

\* Every worker leaves once the context is done, wherever the end of the
\* context caught it on the way to sleep: workers.Wait in Session.Wait returns.
WorkersLeave == ctxDone ~> \A w \in Workers : pc[w] = "left"

\* A ready leaf is taken, unless every worker has left.
ItemsAreTaken ==
    \A i \in Items : (\E k \in 1..Len(q) : q[k] = i)
        ~> (\/ \E w \in Workers : hold[w] = i
            \/ \A w \in Workers : pc[w] = "left")
=============================================================================
