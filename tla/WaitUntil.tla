------------------------------ MODULE WaitUntil ------------------------------
(***************************************************************************)
(* waitUntil of x/taskgroup/exec.go, which WaitTask, Map, Isolate and      *)
(* waitLive block in: Session.mu, Session.cond, and a context per waiter   *)
(* whose AfterFunc broadcasts without the mutex.                           *)
(***************************************************************************)
EXTENDS Naturals, FiniteSets

CONSTANTS
    Waiters,   \* goroutines, each in one call of waitUntil
    Goals      \* what they wait for: a task that finishes, a subtree that idles

VARIABLES
    reached,   \* the goals whose done() is true
    ctxDone,   \* the waiters whose context is done
    armed,     \* the waiters whose AfterFunc has not run
    mu,        \* Session.mu: the set of the waiter that holds it across steps, or {}
    pc,
    asleep,    \* the notify list of Session.cond
    goal,      \* what a waiter waits for
    missed     \* history: the waiters whose callback ran before they slept

waitVars == <<reached, ctxDone, armed, mu, pc, asleep, goal, missed>>

WaitInit ==
    /\ reached = {} /\ ctxDone = {} /\ armed = {} /\ mu = {}
    /\ pc = [w \in Waiters |-> "out"]
    /\ asleep = {}
    /\ goal \in [Waiters -> Goals]
    /\ missed = {}

Goto(w, l) == pc' = [pc EXCEPT ![w] = l]

Broadcast ==
    /\ asleep' = {}
    /\ pc' = [w \in Waiters |-> IF w \in asleep THEN "woken" ELSE pc[w]]

\* Mutant: the waiters are not told.
finishQuiet(g) ==
    /\ mu = {} /\ g \notin reached
    /\ reached' = reached \cup {g}
    /\ UNCHANGED <<ctxDone, armed, mu, pc, asleep, goal, missed>>

\* finishLocked ends with a broadcast, the mutex held.
finish(g) ==
    /\ mu = {} /\ g \notin reached
    /\ reached' = reached \cup {g}
    /\ Broadcast
    /\ UNCHANGED <<ctxDone, armed, mu, goal, missed>>

\* The context of a waiter ends.
cancel(w) ==
    /\ w \notin ctxDone
    /\ ctxDone' = ctxDone \cup {w}
    /\ UNCHANGED <<reached, armed, mu, pc, asleep, goal, missed>>

\* Mutant: the callback wakes one waiter, whichever it is.
ctxSignal(w) ==
    /\ w \in ctxDone \cap armed
    /\ armed' = armed \ {w}
    /\ missed' = IF pc[w] = "add" THEN missed \cup {w} ELSE missed
    /\ \/ asleep = {} /\ UNCHANGED <<asleep, pc>>
       \/ \E v \in asleep : asleep' = asleep \ {v} /\ Goto(v, "woken")
    /\ UNCHANGED <<reached, ctxDone, mu, goal>>

\* The callback of AfterFunc, which may come between a waiter's look at its context
\* and cond.Wait.
ctxBroadcast(w) ==
    /\ w \in ctxDone \cap armed
    /\ armed' = armed \ {w}
    /\ missed' = IF pc[w] = "add" THEN missed \cup {w} ELSE missed
    /\ Broadcast
    /\ UNCHANGED <<reached, ctxDone, mu, goal>>

\* waitUntil: AfterFunc, then the mutex.
call(w) ==
    /\ pc[w] = "out"
    /\ armed' = armed \cup {w} /\ Goto(w, "woken")
    /\ UNCHANGED <<reached, ctxDone, mu, asleep, goal, missed>>

lock(w) ==
    /\ pc[w] = "woken" /\ mu = {}
    /\ mu' = {w} /\ Goto(w, "test")
    /\ UNCHANGED <<reached, ctxDone, armed, asleep, goal, missed>>

\* One turn of the loop: done() first, then the context; which of the two errors is
\* returned is left out.
test(w) ==
    /\ pc[w] = "test"
    /\ IF goal[w] \in reached \/ w \in ctxDone
         THEN mu' = {} /\ armed' = armed \ {w} /\ Goto(w, "back")
         ELSE Goto(w, "add") /\ UNCHANGED <<armed, mu>>
    /\ UNCHANGED <<reached, ctxDone, asleep, goal, missed>>

\* cond.Wait
sleep(w) ==
    /\ pc[w] = "add"
    /\ asleep' = asleep \cup {w} /\ mu' = {} /\ Goto(w, "asleep")
    /\ UNCHANGED <<reached, ctxDone, armed, goal, missed>>

Waiter(w) == call(w) \/ lock(w) \/ test(w) \/ sleep(w)

WaitNext ==
    \/ \E g \in Goals : finish(g)
    \/ \E w \in Waiters : cancel(w) \/ ctxBroadcast(w) \/ Waiter(w)

WaitSpec == WaitInit /\ [][WaitNext]_waitVars

\* Goroutines and callbacks run, and sync.Mutex starves nobody.  No goal has to
\* be reached and no context has to end.
FairWaitSpec ==
    /\ WaitSpec
    /\ \A w \in Waiters : SF_waitVars(Waiter(w)) /\ WF_waitVars(ctxBroadcast(w))

-----------------------------------------------------------------------------
(* Properties *)

\* Nobody sleeps over a goal that is reached.
NoSleeperOverGoal == \A w \in asleep : goal[w] \notin reached

\* A waiter that sleeps over its done context has its callback still to come,
\* unless the callback ran between its look at the context and its sleep.  No
\* other order of the context's end, the callback, the mutex and the broadcasts
\* for other waiters leaves it asleep.
ContextWakesUnlessMissed == asleep \cap ctxDone \subseteq armed \cup missed

\* A waiter returns once its goal is reached.
GoalEndsWait ==
    \A w \in Waiters : pc[w] # "out" /\ goal[w] \in reached ~> pc[w] = "back"

\* exec.go: WaitTask "blocks until id finishes or ctx ends".
ContextEndsWait == \A w \in Waiters : pc[w] # "out" /\ w \in ctxDone ~> pc[w] = "back"
=============================================================================
