--------------------------- MODULE TaskGroupProofs ---------------------------
(***************************************************************************)
(* Proofs about the session scheduler: IInv of TaskGroup is inductive, and *)
(* the safety properties the runs check follow from it, for every number   *)
(* of tasks, every set of pools and every limit.                           *)
(***************************************************************************)
EXTENDS TaskGroup, FiniteSetTheorems, TLAPS

USE MaxIDAssumption, PoolsAssumption, AskedAssumption, LimitAssumption

-----------------------------------------------------------------------------
(* Cascade is the least closed set that holds its argument *)

\* Cascade(S) holds S, is closed, and is contained in each closed set above S.
LEMMA CascadeLeast ==
    ASSUME NEW S \in SUBSET Task
    PROVE  /\ Cascade(S) \subseteq Task
           /\ S \subseteq Cascade(S)
           /\ Closed(Cascade(S))
           /\ \A X \in SUBSET Task : S \subseteq X /\ Closed(X) => Cascade(S) \subseteq X
<1>1. Cascade(S) \subseteq Task
    BY DEF Cascade
<1>2. S \subseteq Cascade(S)
    BY DEF Cascade
<1>3. \A X \in SUBSET Task : S \subseteq X /\ Closed(X) => Cascade(S) \subseteq X
    BY DEF Cascade
<1>4. Closed(Cascade(S))
    <2>1. SUFFICES ASSUME NEW t \in Cascade(S)
                   PROVE  /\ kind[t] # Isolate => Struck(isolateOf(t)) \subseteq Cascade(S)
                          /\ Waiters(t) \subseteq Cascade(S)
        BY DEF Closed
    <2>2. \A X \in SUBSET Task : S \subseteq X /\ Closed(X) => t \in X
        BY <2>1, <1>3
    <2>3. \A X \in SUBSET Task : S \subseteq X /\ Closed(X) =>
             /\ kind[t] # Isolate => Struck(isolateOf(t)) \subseteq X
             /\ Waiters(t) \subseteq X
        BY <2>2, Zenon DEF Closed
    <2>4. Struck(isolateOf(t)) \subseteq Task /\ Waiters(t) \subseteq Task
        BY DEF Struck, Waiters, Pending
    <2> QED
        BY <2>3, <2>4, Zenon DEF Cascade
<1> QED
    BY <1>1, <1>2, <1>3, <1>4

\* Only pending tasks are added to the set a cascade starts on.
LEMMA CascadePending ==
    ASSUME NEW S \in SUBSET Task
    PROVE  Cascade(S) \subseteq S \cup Pending
<1>1. S \cup Pending \subseteq Task
    BY DEF Pending
<1>2. Closed(S \cup Pending)
    BY DEF Closed, Struck, Waiters
<1> QED
    BY <1>1, <1>2, CascadeLeast

-----------------------------------------------------------------------------
(* The inductive invariant *)

\* The root is a node, every other node is a task, and IDs are numbers above 0.
LEMMA Nodes ==
    /\ Node = Task \cup {Root} /\ Root \notin Task /\ Root # 0
    /\ Task \subseteq Nat /\ 0 \notin Task /\ Node \subseteq 0..MaxID
BY DEF Node, Task, Root

\* Sets of tasks are finite.
LEMMA TasksFinite == \A S \in SUBSET Task : IsFiniteSet(S) /\ Cardinality(S) \in Nat
<1>1. IsFiniteSet(Task)
    BY FS_Interval DEF Task
<1> QED
    BY <1>1, FS_Subset, FS_CardinalityType

\* New establishes the invariant.
LEMMA InitIInv == Init => IInv
<1> SUFFICES ASSUME Init PROVE IInv
    OBVIOUS
<1> USE DEF Init, Task, Node, Root
<1>1. TypeOK
    <2>1. alive \in [Pools -> Nat]
        OBVIOUS
    <2>2. kind \in [Node -> Kind]
        BY DEF Kind
    <2>3. /\ next \in 2..(MaxID + 1) /\ sessErr \in 0..MaxID
          /\ waitFor \in [Node -> 0..MaxID] /\ parent \in [Task -> 0..MaxID]
        OBVIOUS
    <2>4. /\ anc \in [Node -> SUBSET Node] /\ bound \in [Node -> {0} \cup Task]
          /\ deps \in [Task -> SUBSET Task] /\ remaining \in [Task -> SUBSET Task]
        OBVIOUS
    <2>5. /\ state \in [Task -> {"Free", "Pending", "Running", "Done", "Failed"}]
          /\ tasks \in Int /\ boundErr \subseteq Task
        OBVIOUS
    <2> HIDE DEF Task, Node
    <2> QED
        BY <2>1, <2>2, <2>3, <2>4, <2>5 DEF TypeOK
<1>2. RootInv /\ FreeInv /\ BoundInv
    BY DEF RootInv, FreeInv, BoundInv
<1>3. PhaseInv /\ DepsInv /\ IsolateInv
    BY DEF PhaseInv, DepsInv, IsolateInv, InBody
<1>4. WaitInv /\ FirstErrorRecorded
    BY DEF WaitInv, FirstErrorRecorded, Escaped
<1>5. TasksCountsUnfinished
    BY FS_EmptySet DEF TasksCountsUnfinished, Unfinished
<1> QED
    BY <1>1, <1>2, <1>3, <1>4, <1>5 DEF IInv

\* What a step keeps that leaves the tree, the task states and the recorded
\* errors alone.
LEMMA Frame ==
    ASSUME IInv, UNCHANGED <<goVars, state, remaining, boundErr, sessErr, tasks>>,
           cause # "none" => cause' # "none"
    PROVE  /\ BoundInv' /\ IsolateInv' /\ FirstErrorRecorded' /\ TasksCountsUnfinished'
           /\ Unfinished' = Unfinished
<1> USE DEF IInv, goVars
<1>1. Unfinished' = Unfinished
    BY DEF Unfinished
<1>2. BoundInv'
    BY DEF BoundInv
<1>3. IsolateInv'
    BY <1>1 DEF IsolateInv
<1>4. FirstErrorRecorded'
    BY DEF FirstErrorRecorded, Escaped, isolateOf
<1>5. TasksCountsUnfinished'
    BY <1>1 DEF TasksCountsUnfinished
<1> QED
    BY <1>1, <1>2, <1>3, <1>4, <1>5

\* A step that moves the goroutine of one task, in the states that allow it.
LEMMA PhaseStep ==
    ASSUME IInv, NEW t \in Task, NEW ph,
           UNCHANGED <<goVars, state, remaining, waitFor, boundErr, sessErr, cause,
                       hard, pass, tasks, alive>>,
           phase' = [phase EXCEPT ![t] = ph],
           \/ ph = "picked" /\ phase[t] = "queued"
           \/ ph = "body" /\ phase[t] = "started" /\ state[t] = "Running"
           \/ ph \in {"drain", "drainErr"} /\ phase[t] = "body"
           \/ ph = "gone" /\ state[t] \in {"Done", "Failed"}
    PROVE  IInv'
<1> USE Nodes DEF IInv, goVars
<1>0. BoundInv' /\ IsolateInv' /\ FirstErrorRecorded' /\ TasksCountsUnfinished'
      /\ Unfinished' = Unfinished
    BY Frame
<1>1. TypeOK'
    BY DEF TypeOK
<1>2. phase'[Root] = phase[Root] /\ RootInv'
    BY DEF TypeOK, RootInv
<1>3. FreeInv'
    BY DEF TypeOK, FreeInv
<1>4. PhaseInv'
    <2>1. state[t] # "Free"
        BY DEF FreeInv, PhaseInv
    <2>2. \A u \in Task : CtxErr(u)' = CtxErr(u)
        BY DEF CtxErr
    <2>3. \A u \in Task \ {t} : phase'[u] = phase[u]
        BY DEF TypeOK
    <2>4. phase'[t] = ph
        BY DEF TypeOK
    <2>5. ph = "body" => state[t] = "Running"
        OBVIOUS
    <2>6. ph \in {"drain", "drainErr"} => state[t] = "Running"
        BY DEF PhaseInv, InBody
    <2>7. ph = "picked" => state[t] \in {"Pending", "Failed"}
        BY <2>1 DEF TypeOK, PhaseInv, InBody
    <2> QED
        BY <2>1, <2>2, <2>3, <2>4, <2>5, <2>6, <2>7 DEF PhaseInv, InBody
<1>5. DepsInv'
    BY DEF TypeOK, DepsInv, PhaseInv, InBody, FreeInv
<1>6. WaitInv'
    BY <1>0, <1>2 DEF WaitInv
<1> QED
    BY <1>0, <1>1, <1>2, <1>3, <1>4, <1>5, <1>6

\* A worker takes a task from its queue.
LEMMA PopStep == ASSUME IInv, NEW p \in Pools, pop(p) PROVE IInv'
<1>1. PICK t \in Queued(p) : phase' = [phase EXCEPT ![t] = "picked"]
    BY DEF pop
<1>2. t \in Task /\ phase[t] = "queued"
    BY DEF Queued
<1> QED
    BY <1>1, <1>2, PhaseStep DEF pop

\* fn is called: the context is alive, so the task is not one that failed.
LEMMA EnterStep == ASSUME IInv, NEW t \in Task, runEnter(t) PROVE IInv'
<1>1. phase[t] = "started" /\ state[t] = "Running"
    BY DEF runEnter, IInv, PhaseInv
<1> QED
    BY <1>1, PhaseStep DEF runEnter

\* The body of a Map or an Isolate goes on to waitLive.
LEMMA DrainStep ==
    ASSUME IInv, NEW t \in Task, NEW ok \in BOOLEAN, bodyDrain(t, ok) PROVE IInv'
BY PhaseStep DEF bodyDrain

\* A goroutine or a body blocked in waitTask goes on.
LEMMA WaitTaskStep == ASSUME IInv, NEW b \in Node, waitTask(b) PROVE IInv'
<1> USE Nodes DEF IInv, goVars, waitTask
<1>0. BoundInv' /\ IsolateInv' /\ FirstErrorRecorded' /\ TasksCountsUnfinished'
      /\ Unfinished' = Unfinished
    BY Frame
<1>1. TypeOK'
    BY DEF TypeOK
<1>2. RootInv' /\ FreeInv'
    BY DEF RootInv, FreeInv
<1>3. PhaseInv'
    BY DEF PhaseInv, InBody, CtxErr
<1>4. DepsInv' /\ WaitInv'
    BY <1>0 DEF DepsInv, WaitInv
<1> QED
    BY <1>0, <1>1, <1>2, <1>3, <1>4

\* A worker returns.
LEMMA ExitStep == ASSUME IInv, NEW p \in Pools, workerExit(p) PROVE IInv'
<1> USE Nodes DEF IInv, goVars, workerExit
<1>0. BoundInv' /\ IsolateInv' /\ FirstErrorRecorded' /\ TasksCountsUnfinished'
      /\ Unfinished' = Unfinished
    BY Frame
<1>1. TypeOK'
    <2>1. Busy(p) \in SUBSET Task
        BY DEF Busy
    <2>2. alive[p] \in Nat /\ alive[p] > 0
        BY <2>1, TasksFinite DEF TypeOK, mayExit, Idle
    <2> QED
        BY <2>2 DEF TypeOK
<1>2. RootInv' /\ FreeInv'
    BY DEF RootInv, FreeInv
<1>3. PhaseInv'
    BY DEF PhaseInv, InBody, CtxErr
<1>4. DepsInv'
    BY DEF DepsInv
<1>5. WaitInv'
    <2>1. phase[Root] # "returned"
        <3>1. Busy(p) \in SUBSET Task
            BY DEF Busy
        <3>2. alive[p] > 0
            BY <3>1, TasksFinite DEF TypeOK, mayExit, Idle
        <3> QED
            BY <3>2 DEF WaitInv
    <2> QED
        BY <1>0, <2>1 DEF WaitInv
<1> QED
    BY <1>0, <1>1, <1>2, <1>3, <1>4, <1>5

\* Cancel and the end of the caller's context.
LEMMA CancelStep == ASSUME IInv, Cancel \/ parentDone PROVE IInv'
<1> USE Nodes DEF IInv, goVars
<1>1. /\ UNCHANGED <<goVars, state, remaining, phase, waitFor, boundErr, sessErr,
                     tasks, alive>>
      /\ hard' \in BOOLEAN
      /\ cause' \in {"none", "canceled", "other"} /\ pass' \in {"idle", "armed", "done"}
      /\ cause # "none" => cause' = cause
      /\ pass' # "idle" => cause' # "none"
    BY DEF Cancel, parentDone, cancel, TypeOK, WaitInv
<1>2. BoundInv' /\ IsolateInv' /\ FirstErrorRecorded' /\ TasksCountsUnfinished'
      /\ Unfinished' = Unfinished
    BY <1>1, Frame
<1>3. TypeOK'
    BY <1>1 DEF TypeOK
<1>4. RootInv' /\ FreeInv'
    BY <1>1 DEF RootInv, FreeInv
<1>5. PhaseInv'
    BY <1>1 DEF PhaseInv, InBody, CtxErr
<1>6. DepsInv' /\ WaitInv'
    BY <1>1, <1>2 DEF DepsInv, WaitInv
<1> QED
    BY <1>2, <1>3, <1>4, <1>5, <1>6

\* The steps of Wait.
LEMMA WaitStep == ASSUME IInv, Wait \/ WaitClose \/ WaitReturn PROVE IInv'
<1> USE Nodes DEF IInv, goVars
<1>1. /\ UNCHANGED <<goVars, state, remaining, waitFor, boundErr, sessErr, hard,
                     tasks, alive>>
      /\ cause' \in {"none", "canceled", "other"} /\ pass' \in {"idle", "armed", "done"}
      /\ cause # "none" => cause' = cause
      /\ pass' # "idle" => cause' # "none"
      /\ \E ph \in {"waiting", "closing", "returned"} :
            phase' = [phase EXCEPT ![Root] = ph]
    BY DEF Wait, WaitClose, WaitReturn, cancel, TypeOK, WaitInv
<1>2. BoundInv' /\ IsolateInv' /\ FirstErrorRecorded' /\ TasksCountsUnfinished'
      /\ Unfinished' = Unfinished
    BY <1>1, Frame
<1>3. TypeOK'
    BY <1>1 DEF TypeOK
<1>4. \A t \in Task : phase'[t] = phase[t]
    BY <1>1 DEF TypeOK
<1>5. RootInv'
    BY <1>1 DEF RootInv, TypeOK
<1>6. FreeInv'
    BY <1>1, <1>4 DEF FreeInv
<1>7. PhaseInv'
    BY <1>1, <1>4 DEF PhaseInv, InBody, CtxErr
<1>8. DepsInv'
    BY <1>1, <1>4 DEF DepsInv
<1>9. WaitInv'
    <2>1. CASE Wait
        BY <2>1, <1>1, <1>2 DEF Wait, WaitInv, TypeOK
    <2>2. CASE WaitClose
        <3>1. Unfinished = {}
            <4>1. Unfinished \in SUBSET Task /\ Cardinality(Unfinished) = 0
                BY <2>2 DEF WaitClose, TasksCountsUnfinished, Unfinished
            <4> QED
                BY <4>1, TasksFinite, FS_EmptySet
        <3> QED
            BY <2>2, <3>1, <1>1, <1>2 DEF WaitClose, WaitInv, TypeOK
    <2>3. CASE WaitReturn
        BY <2>3, <1>1, <1>2 DEF WaitReturn, WaitInv, TypeOK
    <2> QED
        BY <2>1, <2>2, <2>3
<1> QED
    BY <1>2, <1>3, <1>5, <1>6, <1>7, <1>8, <1>9

-----------------------------------------------------------------------------
(* The steps that fail tasks *)

\* Whoever a cascade fails after a goroutine has picked it up has a cancelled
\* context by then: the task was struck by a boundary that was cancelled first,
\* or by the session; a waiter has not been picked up.  The tasks in G are the
\* ones the step itself finishes.
LEMMA FailCancels ==
    ASSUME IInv, NEW S \in SUBSET Unfinished, NEW G \in SUBSET S,
           BoundariesOf(Cascade(S)) \subseteq boundErr',
           Escaped(Cascade(S)) # {} /\ sessErr = 0 => cause' # "none",
           \A t \in S \ G : cause' # "none" \/ \E a \in anc[t] \cup {t} : a \in boundErr'
    PROVE  \A t \in Cascade(S) \ G : phase[t] = "picked" =>
              cause' # "none" \/ \E a \in anc[t] \cup {t} : a \in boundErr'
<1> DEFINE C(t) == cause' # "none" \/ \E a \in anc[t] \cup {t} : a \in boundErr'
           X == {t \in Cascade(S) : t \in G \/ remaining[t] # {} \/ C(t)}
<1>1. S \in SUBSET Task
    BY DEF Unfinished
<1>2. X \subseteq Task /\ S \subseteq X
    BY <1>1, CascadeLeast
<1>3. Closed(X)
    <2>1. SUFFICES ASSUME NEW t \in Cascade(S)
                   PROVE  /\ kind[t] # Isolate => Struck(isolateOf(t)) \subseteq X
                          /\ Waiters(t) \subseteq X
        BY DEF Closed
    <2>2. /\ kind[t] # Isolate => Struck(isolateOf(t)) \subseteq Cascade(S)
          /\ Waiters(t) \subseteq Cascade(S)
        BY <1>1, <2>1, CascadeLeast DEF Closed
    <2>3. Waiters(t) \subseteq X
        BY <2>2 DEF Waiters
    <2>4. ASSUME kind[t] # Isolate, NEW u \in Struck(isolateOf(t)) PROVE C(u)
        <3>1. CASE isolateOf(t) # 0
            <4>1. isolateOf(t) \in boundErr'
                BY <2>4, <3>1 DEF BoundariesOf
            <4> QED
                BY <3>1, <4>1 DEF Struck
        <3>2. CASE isolateOf(t) = 0
            BY <2>4, <3>2 DEF Struck, Escaped
        <3> QED
            BY <3>1, <3>2
    <2> QED
        BY <2>2, <2>3, <2>4
<1>4. Cascade(S) \subseteq X
    <2> HIDE DEF X
    <2> QED
        BY <1>1, <1>2, <1>3, CascadeLeast
<1>5. ASSUME NEW t \in Cascade(S) \ G, phase[t] = "picked" PROVE C(t)
    <2>1. t \in Task /\ state[t] \in {"Pending", "Running"}
        BY <1>1, CascadePending DEF Unfinished, Pending
    <2>2. remaining[t] = {}
        BY <1>5, <2>1 DEF IInv, PhaseInv, DepsInv
    <2> QED
        BY <1>4, <1>5, <2>2
<1> QED
    BY <1>5

\* A step in which finishLocked fails all of Cascade(S) in an unchanged tree.
\* G are the tasks whose goroutine ends with the step, R those that win run's
\* CAS during it.
FailedBy(S, G, R) ==
    /\ S \subseteq Unfinished /\ G \subseteq S
    /\ R \in Overtaken(Cascade(S))
    /\ \A t \in S : state[t] = "Running" => t \in G
    /\ S = G \/ cause # "none"
    /\ FailAll(Cascade(S), {}, {})
    /\ UNCHANGED <<goVars, waitFor, hard, alive>>
    /\ sessErr' \in IF sessErr # 0 THEN {sessErr}
                    ELSE IF Escaped(Cascade(S)) = {} THEN {0} ELSE Escaped(Cascade(S))
    /\ cause' \in {"none", "canceled", "other"} /\ pass' \in {"idle", "armed", "done"}
    /\ cause # "none" => cause' = cause
    /\ sessErr' # 0 => cause' # "none"
    /\ pass' # "idle" => cause' # "none"
    /\ phase' = [t \in Node |-> IF t \in G THEN "gone"
                                ELSE IF t \in R THEN "started" ELSE phase[t]]
    /\ tasks' = tasks - Cardinality(Cascade(S))

\* Such a step keeps the invariant.
LEMMA FailStep ==
    ASSUME IInv, NEW S, NEW G, NEW R, FailedBy(S, G, R)
    PROVE  IInv'
<1> USE DEF FailedBy
<1> DEFINE F == Cascade(S)
<1> USE Nodes DEF IInv, goVars
<1>0. S \in SUBSET Task /\ F \subseteq Task /\ S \subseteq F /\ Closed(F)
    BY CascadeLeast DEF Unfinished
<1>1. \A t \in F : state[t] \in {"Pending", "Running"} /\ (t \notin G => state[t] = "Pending")
    BY <1>0, CascadePending DEF Unfinished, Pending
<1>2. \A t \in F \ G : phase[t] = "picked" => CtxErr(t)'
    <2>1. 0 \notin Escaped(F)
        BY <1>0 DEF Escaped
    <2>2. Escaped(F) # {} /\ sessErr = 0 => cause' # "none"
        BY <2>1
    <2>3. BoundariesOf(F) \subseteq boundErr'
        BY DEF FailAll
    <2> QED
        BY <2>2, <2>3, FailCancels DEF CtxErr
<1> HIDE DEF F
<1>3. /\ state' = [t \in Task |-> IF t \in F THEN "Failed" ELSE state[t]]
      /\ remaining' = [t \in Task |-> remaining[t] \ F]
      /\ boundErr' = boundErr \cup BoundariesOf(F)
    BY DEF FailAll, F
<1>4. R \subseteq F /\ \A t \in R : phase[t] = "picked"
    BY DEF Overtaken, F
<1>5. \A a \in BoundariesOf(F) : a # 0 /\ \E t \in F : bound[t] = a
    BY DEF BoundariesOf, isolateOf
<1>6. TypeOK'
    <2>1. Cardinality(F) \in Nat
        BY <1>0, TasksFinite
    <2>2. sessErr' \in 0..MaxID
        BY <1>0 DEF TypeOK, Escaped, F
    <2>3. boundErr' \subseteq Task
        <3>1. BoundariesOf(F) \subseteq Task
            BY <1>0, <1>5 DEF TypeOK
        <3> QED
            BY <1>3, <3>1 DEF TypeOK
    <2>4. phase' \in [Node -> {"wait", "queued", "picked", "started", "body", "drain",
                               "drainErr", "gone", "waiting", "closing", "returned"}]
        BY DEF TypeOK
    <2>5. /\ state' \in [Task -> {"Free", "Pending", "Running", "Done", "Failed"}]
          /\ remaining' \in [Task -> SUBSET Task]
        BY <1>3 DEF TypeOK
    <2>6. tasks' \in Int
        BY <2>1 DEF TypeOK, F
    <2> QED
        BY <2>2, <2>3, <2>4, <2>5, <2>6 DEF TypeOK
<1>7. phase'[Root] = phase[Root] /\ RootInv'
    BY <1>0, <1>4 DEF RootInv
<1>8. FreeInv'
    <2>1. ASSUME NEW t \in Task PROVE state'[t] = "Free" <=> state[t] = "Free"
        BY <1>1, <1>3
    <2>2. ASSUME NEW t \in Task, state[t] = "Free" PROVE t \notin F /\ t \notin boundErr' /\ phase'[t] = "wait"
        <3>1. t \notin F
            BY <1>1, <2>2
        <3>2. \A u \in F : bound[u] # t
            <4> SUFFICES ASSUME NEW u \in F, bound[u] = t PROVE FALSE
                OBVIOUS
            <4>1. t \in anc[u] /\ t < next
                BY <1>0 DEF BoundInv, FreeInv
            <4>2. t >= next /\ t \in Nat /\ next \in Nat
                BY <2>2 DEF FreeInv, TypeOK
            <4> QED
                BY <4>1, <4>2
        <3> QED
            BY <1>0, <1>3, <1>4, <1>5, <2>2, <3>1, <3>2 DEF FreeInv
    <2> QED
        BY <1>3, <2>1, <2>2 DEF FreeInv
<1>9. BoundInv'
    BY DEF BoundInv
<1>10. PhaseInv'
    <2> SUFFICES ASSUME NEW t \in Task
                 PROVE  /\ phase'[t] \in {"wait", "queued", "picked", "started", "body", "drain",
                                          "drainErr", "gone"}
                        /\ state'[t] = "Pending" => phase'[t] \in {"wait", "queued", "picked"}
                        /\ state'[t] = "Running" => phase'[t] = "started" \/ InBody(t)'
                        /\ InBody(t)' => state'[t] = "Running"
                        /\ phase'[t] \in {"queued", "picked"} => state'[t] \in {"Pending", "Failed"}
                        /\ phase'[t] = "started" => \/ state'[t] = "Running"
                                                    \/ state'[t] = "Failed" /\ CtxErr(t)'
        BY DEF PhaseInv
    <2>1. CASE t \notin F
        <3>1. phase'[t] = phase[t] /\ state'[t] = state[t]
            BY <1>0, <1>3, <1>4, <2>1
        <3>2. CtxErr(t) => CtxErr(t)'
            BY <1>3 DEF CtxErr
        <3> QED
            BY <3>1, <3>2 DEF PhaseInv, InBody
    <2>2. CASE t \in G
        BY <1>0, <1>3, <2>2 DEF InBody
    <2>3. CASE t \in F \ G
        <3>1. state[t] = "Pending" /\ state'[t] = "Failed"
            BY <1>1, <1>3, <2>3
        <3>2. phase[t] \in {"wait", "queued", "picked"}
            BY <3>1 DEF PhaseInv
        <3> QED
            BY <1>2, <1>4, <2>3, <3>1, <3>2 DEF InBody
    <2> QED
        BY <2>1, <2>2, <2>3
<1>11. DepsInv'
    <2> SUFFICES ASSUME NEW t \in Task
                 PROVE  /\ state'[t] \in {"Pending", "Running", "Done"} =>
                              \A d \in deps'[t] : state'[d] = "Done" \/ d \in remaining'[t]
                        /\ state'[t] = "Pending" /\ phase'[t] # "wait" => remaining'[t] = {}
                        /\ state'[t] \in {"Running", "Done"} => remaining'[t] = {}
        BY DEF DepsInv
    <2>1. CASE t \in F
        BY <1>3, <2>1
    <2>2. CASE t \notin F
        <3>1. phase'[t] = phase[t] /\ state'[t] = state[t]
            BY <1>0, <1>3, <1>4, <2>2
        <3>2. ASSUME NEW d \in F, d \in remaining[t] PROVE state[t] = "Failed" \/ state[t] = "Free"
            BY <1>0, <2>2, <3>2 DEF Closed, Waiters, Pending, DepsInv, TypeOK
        <3>3. ASSUME state[t] \in {"Pending", "Running", "Done"}, NEW d \in deps[t]
              PROVE  state'[d] = "Done" \/ d \in remaining'[t]
            <4>1. d \in Task
                BY DEF TypeOK
            <4>2. CASE state[d] = "Done"
                BY <1>1, <1>3, <4>1, <4>2
            <4>3. CASE d \in remaining[t]
                BY <1>3, <3>2, <3>3, <4>3
            <4> QED
                BY <3>3, <4>2, <4>3 DEF DepsInv
        <3>4. /\ state'[t] = "Pending" /\ phase'[t] # "wait" => remaining'[t] = {}
              /\ state'[t] \in {"Running", "Done"} => remaining'[t] = {}
            BY <1>3, <3>1 DEF DepsInv
        <3> QED
            BY <3>1, <3>3, <3>4
    <2> QED
        BY <2>1, <2>2
<1>12. Unfinished' = Unfinished \ F
    BY <1>1, <1>3 DEF Unfinished
<1>13. IsolateInv'
    <2> SUFFICES ASSUME NEW t \in Task
                 PROVE  /\ state'[t] = "Failed" /\ kind[t] # Isolate /\ bound[t] # 0 => bound[t] \in boundErr'
                        /\ kind[t] = Isolate /\ state'[t] = "Done" =>
                              t \notin boundErr' /\ \A u \in Unfinished' : t \notin anc[u]
        BY DEF IsolateInv
    <2>1. state'[t] = "Failed" /\ kind[t] # Isolate /\ bound[t] # 0 => bound[t] \in boundErr'
        BY <1>3 DEF IsolateInv, BoundariesOf, isolateOf
    <2>2. ASSUME kind[t] = Isolate, state'[t] = "Done"
          PROVE  t \notin boundErr' /\ \A u \in Unfinished' : t \notin anc[u]
        <3>1. state[t] = "Done" /\ t \notin boundErr /\ \A u \in Unfinished : t \notin anc[u]
            BY <1>3, <2>2 DEF IsolateInv
        <3>2. \A u \in F : bound[u] # t
            BY <1>0, <1>1, <3>1 DEF BoundInv, Unfinished
        <3> QED
            BY <1>3, <1>5, <1>12, <3>1, <3>2
    <2> QED
        BY <2>1, <2>2
<1>14. WaitInv'
    BY <1>7, <1>12 DEF WaitInv
<1>15. FirstErrorRecorded'
    <2>1. {t \in Task : state'[t] = "Failed"} = {t \in Task : state[t] = "Failed"} \cup F
        BY <1>0, <1>3
    <2>2. Escaped({t \in Task : state[t] = "Failed"})' =
             Escaped({t \in Task : state[t] = "Failed"}) \cup Escaped(F)
        BY <2>1 DEF Escaped, isolateOf
    <2>3. 0 \notin Escaped(F)
        BY <1>0 DEF Escaped
    <2>4. sessErr' \in IF sessErr # 0 THEN {sessErr}
                       ELSE IF Escaped(F) = {} THEN {0} ELSE Escaped(F)
        BY DEF F
    <2> DEFINE E == Escaped({t \in Task : state[t] = "Failed"})
    <2>5. IF sessErr = 0 THEN E = {} ELSE sessErr \in E /\ cause # "none"
        BY DEF FirstErrorRecorded
    <2> HIDE DEF E
    <2>6. IF sessErr' = 0 THEN E \cup Escaped(F) = {}
          ELSE sessErr' \in E \cup Escaped(F) /\ cause' # "none"
        BY <2>3, <2>4, <2>5
    <2> QED
        BY <2>2, <2>6 DEF FirstErrorRecorded, E
<1>16. TasksCountsUnfinished'
    <2>1. F \subseteq Unfinished /\ Unfinished \subseteq Task
        BY <1>0, <1>1 DEF Unfinished
    <2>2. Cardinality(Unfinished \ F) = Cardinality(Unfinished) - Cardinality(F)
        <3>1. Unfinished \cap F = F
            BY <2>1
        <3> QED
            BY <2>1, <3>1, TasksFinite, FS_Difference
    <2> QED
        BY <1>12, <2>2 DEF TasksCountsUnfinished, F
<1> QED
    BY <1>6, <1>7, <1>8, <1>9, <1>10, <1>11, <1>13, <1>14, <1>15, <1>16

\* The pass of New's AfterFunc.
LEMMA FailPassStep == ASSUME IInv, failPass PROVE IInv'
<1> DEFINE S == {u \in Pending : hard \/ cause = "canceled" \/ isolateOf(u) = 0}
<1>1. PICK R \in Overtaken(Cascade(S)) :
         phase' = [t \in Node |-> IF t \in R THEN "started" ELSE phase[t]]
    BY DEF failPass
<1>2. S \in SUBSET Unfinished /\ \A t \in S : state[t] = "Pending"
    BY DEF Pending, Unfinished
<1>3. cause # "none" /\ cause' = cause /\ pass' = "done" /\ cause \in {"none", "canceled", "other"}
    BY DEF failPass, IInv, WaitInv, TypeOK
<1>4. sessErr' \in IF sessErr # 0 THEN {sessErr}
                   ELSE IF Escaped(Cascade(S)) = {} THEN {0} ELSE Escaped(Cascade(S))
    BY DEF failPass, FirstEscaped
<1>6. /\ FailAll(Cascade(S), {}, {}) /\ UNCHANGED <<goVars, waitFor, hard, alive>>
      /\ tasks' = tasks - Cardinality(Cascade(S))
    BY DEF failPass
<1> HIDE DEF S
<1>7. FailedBy(S, {}, R)
    BY <1>1, <1>2, <1>3, <1>4, <1>6 DEF FailedBy
<1> QED
    BY <1>7, FailStep

\* recordError on the first failure of F that escapes.
LEMMA RecordStep ==
    ASSUME IInv, NEW F \in SUBSET Task, NEW first \in Escaped(F) \cup {0},
           NEW e \in FirstEscaped(F, first), recordError(e)
    PROVE  /\ sessErr' \in IF sessErr # 0 THEN {sessErr}
                           ELSE IF Escaped(F) = {} THEN {0} ELSE Escaped(F)
           /\ cause' \in {"none", "canceled", "other"} /\ pass' \in {"idle", "armed", "done"}
           /\ cause # "none" => cause' = cause
           /\ sessErr' # 0 => cause' # "none"
           /\ pass' # "idle" => cause' # "none"
<1>1. 0 \notin Escaped(F) /\ e \in Escaped(F) \cup {0} /\ (Escaped(F) # {} => e # 0)
    BY Nodes DEF Escaped, FirstEscaped
<1>2. /\ cause \in {"none", "canceled", "other"} /\ pass \in {"idle", "armed", "done"}
      /\ pass # "idle" => cause # "none"
      /\ sessErr # 0 => cause # "none"
    BY DEF IInv, TypeOK, WaitInv, FirstErrorRecorded
<1> QED
    BY <1>1, <1>2 DEF recordError, cancel

\* finishLocked with an error, called by the goroutine of the task.
LEMMA FinishFailedStep ==
    ASSUME IInv, NEW id \in Task, state[id] = "Running", finishFailed(id),
           UNCHANGED <<goVars, waitFor, hard, alive>>
    PROVE  IInv'
<1> DEFINE F == Cascade({id})
<1>1. {id} \in SUBSET Unfinished /\ {id} \in SUBSET Task
    BY DEF Unfinished
<1>2. PICK R \in Overtaken(F) :
         phase' = [t \in Node |-> IF t = id THEN "gone"
                                  ELSE IF t \in R THEN "started" ELSE phase[t]]
    BY DEF finishFailed
<1>4. FailAll(F, {}, {}) /\ tasks' = tasks - Cardinality(F)
    BY DEF finishFailed
<1>5. PICK e \in FirstEscaped(F, IF id \in Escaped(F) THEN id ELSE 0) : recordError(e)
    BY DEF finishFailed
<1>6. F \in SUBSET Task
    BY <1>1, CascadeLeast
<1> HIDE DEF F
<1>7. (IF id \in Escaped(F) THEN id ELSE 0) \in Escaped(F) \cup {0}
    OBVIOUS
<1>8. /\ sessErr' \in IF sessErr # 0 THEN {sessErr}
                      ELSE IF Escaped(F) = {} THEN {0} ELSE Escaped(F)
      /\ cause' \in {"none", "canceled", "other"} /\ pass' \in {"idle", "armed", "done"}
      /\ cause # "none" => cause' = cause
      /\ sessErr' # 0 => cause' # "none"
      /\ pass' # "idle" => cause' # "none"
    BY <1>5, <1>6, <1>7, RecordStep
<1>9. FailedBy({id}, {id}, R)
    BY <1>1, <1>2, <1>4, <1>8 DEF F, FailedBy
<1> QED
    BY <1>9, FailStep

\* finishLocked with a nil error, called by the goroutine of the task.  An
\* isolate gets there only with nothing live and nothing recorded.
LEMMA FinishDoneStep ==
    ASSUME IInv, NEW id \in Task, state[id] = "Running", finishDone(id),
           UNCHANGED <<goVars, waitFor, hard, alive>>,
           kind[id] = Isolate => NoneLive(id) /\ id \notin boundErr
    PROVE  IInv'
<1> USE Nodes DEF IInv, goVars
<1>1. /\ state' = [state EXCEPT ![id] = "Done"]
      /\ remaining' = [t \in Task |-> remaining[t] \ {id}]
      /\ UNCHANGED <<boundErr, sessErr, cause, pass>> /\ tasks' = tasks - 1
    BY DEF finishDone
<1>2. /\ phase' \in [Node -> {"wait", "queued", "picked", "started", "body", "drain",
                              "drainErr", "gone", "waiting", "closing", "returned"}]
      /\ phase'[id] = "gone" /\ phase'[Root] = phase[Root]
      /\ \A t \in Task \ {id} :
            \/ phase'[t] = phase[t] /\ ~Releases(id, t)
            \/ phase'[t] \in {"queued", "picked"} /\ Releases(id, t)
    BY DEF finishDone, TypeOK, enqueueLocked
<1>3. \A t \in Task : Releases(id, t) => state[t] = "Pending" /\ remaining[t] = {id}
    BY DEF Releases, Waiters, Pending
<1> HIDE DEF Releases
<1>4. TypeOK'
    <2>1. /\ state' \in [Task -> {"Free", "Pending", "Running", "Done", "Failed"}]
          /\ remaining' \in [Task -> SUBSET Task] /\ tasks' \in Int
        BY <1>1 DEF TypeOK
    <2> QED
        BY <1>1, <1>2, <2>1 DEF TypeOK
<1>5. RootInv'
    BY <1>2 DEF RootInv
<1>6. FreeInv'
    <2> SUFFICES ASSUME NEW t \in Task
                 PROVE  /\ t >= next <=> state'[t] = "Free"
                        /\ state'[t] = "Free" => phase'[t] = "wait" /\ t \notin boundErr
                        /\ \A a \in anc[t] : a < next
                        /\ \A d \in remaining'[t] : d < next
        BY <1>1 DEF FreeInv
    <2> QED
        BY <1>1, <1>2, <1>3 DEF FreeInv, TypeOK
<1>7. BoundInv'
    BY DEF BoundInv
<1>8. PhaseInv'
    <2>1. \A t \in Task : CtxErr(t)' = CtxErr(t)
        BY <1>1 DEF CtxErr
    <2>2. \A t \in Task \ {id} : state'[t] = state[t]
        BY <1>1 DEF TypeOK
    <2>3. state'[id] = "Done"
        BY <1>1 DEF TypeOK
    <2> QED
        BY <1>2, <1>3, <2>1, <2>2, <2>3 DEF PhaseInv, InBody
<1>9. DepsInv'
    <2> SUFFICES ASSUME NEW t \in Task
                 PROVE  /\ state'[t] \in {"Pending", "Running", "Done"} =>
                              \A d \in deps[t] : state'[d] = "Done" \/ d \in remaining'[t]
                        /\ state'[t] = "Pending" /\ phase'[t] # "wait" => remaining'[t] = {}
                        /\ state'[t] \in {"Running", "Done"} => remaining'[t] = {}
        BY DEF DepsInv
    <2>1. /\ state'[t] \in {"Pending", "Running", "Done"} =>
                \A d \in deps[t] : state'[d] = "Done" \/ d \in remaining'[t]
        BY <1>1 DEF DepsInv, TypeOK
    <2>2. state'[t] = "Pending" /\ phase'[t] # "wait" => remaining'[t] = {}
        BY <1>1, <1>2, <1>3 DEF DepsInv, TypeOK
    <2>3. state'[t] \in {"Running", "Done"} => remaining'[t] = {}
        BY <1>1 DEF DepsInv, TypeOK
    <2> QED
        BY <2>1, <2>2, <2>3
<1>10. Unfinished' = Unfinished \ {id} /\ id \in Unfinished
    BY <1>1 DEF Unfinished, TypeOK
<1>11. IsolateInv'
    BY <1>1, <1>10 DEF IsolateInv, NoneLive, TypeOK
<1>12. WaitInv'
    BY <1>1, <1>2, <1>10 DEF WaitInv
<1>13. FirstErrorRecorded'
    <2>1. {t \in Task : state'[t] = "Failed"} = {t \in Task : state[t] = "Failed"}
        BY <1>1 DEF TypeOK
    <2>2. Escaped({t \in Task : state[t] = "Failed"})' = Escaped({t \in Task : state[t] = "Failed"})
        BY <2>1 DEF Escaped, isolateOf
    <2> QED
        BY <1>1, <2>2 DEF FirstErrorRecorded
<1>14. TasksCountsUnfinished'
    <2>1. Unfinished \in SUBSET Task
        BY DEF Unfinished
    <2> QED
        BY <1>1, <1>10, <2>1, TasksFinite, FS_RemoveElement DEF TasksCountsUnfinished
<1> QED
    BY <1>4, <1>5, <1>6, <1>7, <1>8, <1>9, <1>11, <1>12, <1>13, <1>14

\* finishLocked, called by the goroutine of the task.
LEMMA FinishStep ==
    ASSUME IInv, NEW id \in Task, NEW ok \in BOOLEAN, finishLocked(id, ok),
           phase[id] = "started" \/ InBody(id),
           ok /\ kind[id] = Isolate => NoneLive(id) /\ id \notin boundErr
    PROVE  IInv'
<1>1. UNCHANGED <<goVars, waitFor, hard, alive>>
    BY DEF finishLocked
<1>2. CASE Finished(id)
    <2>1. /\ phase' = [phase EXCEPT ![id] = "gone"]
          /\ UNCHANGED <<state, remaining, boundErr, sessErr, cause, pass, tasks>>
        BY <1>2 DEF finishLocked
    <2> QED
        BY <1>1, <1>2, <2>1, PhaseStep DEF Finished
<1>3. CASE ~Finished(id)
    <2>1. state[id] = "Running"
        BY <1>3 DEF IInv, PhaseInv, Finished
    <2>2. CASE ok
        BY <1>1, <1>3, <2>1, <2>2, FinishDoneStep DEF finishLocked
    <2>3. CASE ~ok
        BY <1>1, <1>3, <2>1, <2>3, FinishFailedStep DEF finishLocked
    <2> QED
        BY <2>2, <2>3
<1> QED
    BY <1>2, <1>3

\* The steps of run and of the bodies.
LEMMA RunStepIInv == ASSUME IInv, NEW t \in Task, RunStep(t) PROVE IInv'
<1>1. CASE runClaim(t)
    <2>1. CASE state[t] # "Pending"
        <3>1. state[t] = "Failed"
            BY <1>1, <2>1 DEF runClaim, IInv, PhaseInv
        <3> QED
            BY <1>1, <2>1, <3>1, PhaseStep DEF runClaim
    <2>2. CASE state[t] = "Pending"
        <3> USE Nodes DEF IInv, goVars
        <3>1. /\ phase[t] = "picked"
              /\ state' = [state EXCEPT ![t] = "Running"]
              /\ phase' = [phase EXCEPT ![t] = "started"]
              /\ UNCHANGED <<goVars, remaining, waitFor, boundErr, sessErr, cause, hard,
                             pass, tasks, alive>>
            BY <1>1, <2>2 DEF runClaim
        <3>2. /\ state'[t] = "Running" /\ phase'[t] = "started" /\ phase'[Root] = phase[Root]
              /\ \A u \in Task \ {t} : state'[u] = state[u] /\ phase'[u] = phase[u]
            BY <3>1 DEF TypeOK
        <3>3. TypeOK'
            BY <3>1 DEF TypeOK
        <3>4. RootInv' /\ BoundInv'
            BY <3>1, <3>2 DEF RootInv, BoundInv
        <3>5. FreeInv'
            BY <2>2, <3>1, <3>2 DEF FreeInv
        <3>6. PhaseInv'
            <4>1. \A u \in Task : CtxErr(u)' = CtxErr(u)
                BY <3>1 DEF CtxErr
            <4> QED
                BY <3>2, <4>1 DEF PhaseInv, InBody
        <3>7. DepsInv'
            <4>1. \A u \in Task : state'[u] = "Done" <=> state[u] = "Done"
                BY <2>2, <3>2
            <4> QED
                BY <2>2, <3>1, <3>2, <4>1 DEF DepsInv, TypeOK
        <3>8. Unfinished' = Unfinished
            BY <2>2, <3>2 DEF Unfinished
        <3>9. IsolateInv' /\ WaitInv'
            BY <2>2, <3>1, <3>2, <3>8 DEF IsolateInv, WaitInv
        <3>10. FirstErrorRecorded'
            <4>1. {u \in Task : state'[u] = "Failed"} = {u \in Task : state[u] = "Failed"}
                BY <2>2, <3>2
            <4>2. Escaped({u \in Task : state[u] = "Failed"})' = Escaped({u \in Task : state[u] = "Failed"})
                BY <3>1, <4>1 DEF Escaped, isolateOf
            <4> QED
                BY <3>1, <4>2 DEF FirstErrorRecorded
        <3>11. TasksCountsUnfinished'
            BY <3>1, <3>8 DEF TasksCountsUnfinished
        <3> QED
            BY <3>3, <3>4, <3>5, <3>6, <3>7, <3>9, <3>10, <3>11
    <2> QED
        BY <2>1, <2>2
<1>2. CASE runEnter(t)
    BY <1>2, EnterStep
<1>3. CASE runAbort(t)
    BY <1>3, FinishStep DEF runAbort
<1>4. ASSUME NEW ok \in BOOLEAN, bodyReturn(t, ok) PROVE IInv'
    BY <1>4, FinishStep DEF bodyReturn, InBody
<1>5. ASSUME NEW ok \in BOOLEAN, bodyDrain(t, ok) PROVE IInv'
    BY <1>5, DrainStep
<1>6. CASE waitLive(t)
    <2>1. PICK ok \in BOOLEAN : ok = (phase[t] = "drain" /\ waitLiveOk(t))
        OBVIOUS
    <2>2. finishLocked(t, ok) /\ InBody(t)
        BY <1>6, <2>1 DEF waitLive, InBody
    <2>3. ok => NoneLive(t) /\ t \notin boundErr
        BY <2>1 DEF waitLiveOk
    <2> QED
        BY <2>2, <2>3, FinishStep
<1> QED
    BY <1>1, <1>2, <1>3, <1>4, <1>5, <1>6 DEF RunStep

-----------------------------------------------------------------------------
(* The steps that add a task *)

\* What alloc does to the tree: the new slot is free before, the rest of the
\* tree stays, and the new task's boundary is one of its ancestors.
Allocated(b, k, D) ==
    /\ next \in Task /\ state[next] = "Free" /\ next' = next + 1
    /\ b < next /\ b \in Unfinished \cup {Root}
    /\ \A a \in anc[b] : a < next
    /\ Inside(b) # 0 => Inside(b) \in (anc[b] \cup {b}) \cap Task /\ kind[Inside(b)] = Isolate
    /\ Inside(b) \in {0} \cup Task
    /\ \A n \in Node \ {next} : kind'[n] = kind[n] /\ anc'[n] = anc[n] /\ bound'[n] = bound[n]
    /\ \A n \in Task \ {next} : deps'[n] = deps[n]
    /\ kind'[next] = k /\ anc'[next] = anc[b] \cup {b} /\ bound'[next] = Inside(b)
    /\ deps'[next] = D
    /\ next' \in 2..(MaxID + 1) /\ kind' \in [Node -> Kind] /\ parent' \in [Task -> 0..MaxID]
    /\ anc' \in [Node -> SUBSET Node] /\ bound' \in [Node -> {0} \cup Task]
    /\ deps' \in [Task -> SUBSET Task]

\* alloc does that.
LEMMA AllocFacts ==
    ASSUME IInv, NEW b \in Node, NEW k \in Asked, NEW D \in SUBSET (Task \cap 2..next),
           Active(b), next <= MaxID, alloc(next, b, k, D)
    PROVE  Allocated(b, k, D)
<1> USE Nodes DEF IInv
<1>1. next \in Task /\ next \in Nat /\ state[next] = "Free"
    BY DEF TypeOK, FreeInv, Task
<1>2. b \in Unfinished \cup {Root} /\ b < next
    <2>1. CASE b = Root
        BY <2>1 DEF TypeOK, Root
    <2>2. CASE b \in Task
        <3>1. state[b] = "Running"
            BY <2>2 DEF Active, PhaseInv, InBody
        <3> QED
            BY <1>1, <2>2, <3>1 DEF FreeInv, Unfinished
    <2> QED
        BY <2>1, <2>2
<1>3. \A a \in anc[b] : a < next
    BY DEF FreeInv, RootInv
<1>4. /\ Inside(b) # 0 => Inside(b) \in (anc[b] \cup {b}) \cap Task /\ kind[Inside(b)] = Isolate
      /\ Inside(b) \in {0} \cup Task
    <2>1. CASE b = Root
        BY <2>1 DEF Inside, RootInv, Control, Isolate
    <2>2. CASE b \in Task
        BY <2>2 DEF Inside, BoundInv, TypeOK
    <2> QED
        BY <2>1, <2>2
<1>5. /\ \A n \in Node \ {next} : kind'[n] = kind[n] /\ anc'[n] = anc[n] /\ bound'[n] = bound[n]
      /\ \A n \in Task \ {next} : deps'[n] = deps[n]
      /\ kind'[next] = k /\ anc'[next] = anc[b] \cup {b} /\ bound'[next] = Inside(b)
      /\ deps'[next] = D
    BY <1>1 DEF alloc, TypeOK
<1>6. /\ kind' \in [Node -> Kind] /\ parent' \in [Task -> 0..MaxID]
      /\ anc' \in [Node -> SUBSET Node] /\ bound' \in [Node -> {0} \cup Task]
      /\ deps' \in [Task -> SUBSET Task]
    BY <1>1, <1>4 DEF alloc, TypeOK
<1>7. next' \in 2..(MaxID + 1) /\ next' = next + 1
    BY <1>1 DEF alloc, TypeOK
<1> QED
    BY <1>1, <1>2, <1>3, <1>4, <1>5, <1>6, <1>7 DEF Allocated

\* What every step that adds a task keeps of the tree.
LEMMA AllocTree ==
    ASSUME IInv, NEW b \in Node, NEW k \in Asked, NEW D \in SUBSET (Task \cap 2..next),
           Active(b), Allocated(b, k, D)
    PROVE  /\ kind'[Root] = Control /\ anc'[Root] = {} /\ bound'[Root] = 0
           /\ BoundInv'
           /\ \A t \in Task : \A a \in anc'[t] : a < next'
           /\ phase[Root] \notin {"closing", "returned"}
           /\ \A a \in Task : kind[a] = Isolate /\ state[a] = "Done" => a \notin anc[b] \cup {b}
<1> USE Nodes DEF IInv, Allocated
<1>1. kind'[Root] = Control /\ anc'[Root] = {} /\ bound'[Root] = 0
    BY DEF RootInv
<1>2. \A t \in Task : \A a \in anc'[t] : a < next'
    <2> SUFFICES ASSUME NEW t \in Task, NEW a \in anc'[t] PROVE a < next + 1
        OBVIOUS
    <2>1. a < next
        BY DEF FreeInv
    <2>2. a \in Nat /\ next \in Nat
        BY DEF TypeOK
    <2> QED
        BY <2>1, <2>2
<1>3. BoundInv'
    <2> SUFFICES ASSUME NEW t \in Task, bound'[t] # 0
                 PROVE  bound'[t] \in anc'[t] /\ kind'[bound'[t]] = Isolate
        BY DEF BoundInv
    <2>1. CASE t = next
        <3>1. Inside(b) \in Node \ {next}
            BY <2>1
        <3> QED
            BY <2>1, <3>1
    <2>2. CASE t # next
        <3>1. bound[t] \in anc[t] /\ kind[bound[t]] = Isolate /\ bound[t] \in Task
            BY <2>2 DEF BoundInv, TypeOK
        <3>2. bound[t] # next
            BY <3>1 DEF FreeInv
        <3> QED
            BY <2>2, <3>1, <3>2
    <2> QED
        BY <2>1, <2>2
<1>4. phase[Root] \notin {"closing", "returned"}
    BY DEF WaitInv, Active
<1>5. \A a \in Task : kind[a] = Isolate /\ state[a] = "Done" => a \notin anc[b] \cup {b}
    BY DEF IsolateInv, Unfinished, RootInv
<1> QED
    BY <1>1, <1>2, <1>3, <1>4, <1>5

\* Go, Map.Run and Isolate schedule a task.
LEMMA GoTaskStep ==
    ASSUME IInv, NEW b \in Node, NEW k \in Asked, NEW D \in SUBSET (Task \cap 2..next),
           goTask(b, k, D)
    PROVE  IInv'
<1> DEFINE left == {d \in D : state[d] # "Done"}
<1> USE Nodes DEF IInv
<1>1. Active(b) /\ next <= MaxID /\ alloc(next, b, k, D) /\ pinDeps(next, D)
    BY DEF goTask
<1>a. Allocated(b, k, D)
    BY <1>1, AllocFacts
<1>b. /\ kind'[Root] = Control /\ anc'[Root] = {} /\ bound'[Root] = 0
      /\ BoundInv'
      /\ \A t \in Task : \A a \in anc'[t] : a < next'
      /\ phase[Root] \notin {"closing", "returned"}
      /\ \A a \in Task : kind[a] = Isolate /\ state[a] = "Done" => a \notin anc[b] \cup {b}
    BY <1>1, <1>a, AllocTree
<1> USE <1>a DEF Allocated
<1>2. /\ state' = [state EXCEPT ![next] = "Pending"]
      /\ remaining' = [remaining EXCEPT ![next] = left]
      /\ phase' = [phase EXCEPT ![next] = IF left = {} THEN enqueueLocked(k) ELSE "wait"]
      /\ waitFor' = [waitFor EXCEPT ![b] = IF k \in {Map, Isolate} THEN next ELSE 0]
      /\ tasks' = tasks + 1
      /\ UNCHANGED <<boundErr, sessErr, cause, hard, pass, alive>>
    BY DEF goTask
<1>3. left \in SUBSET Task /\ \A d \in left : d < next
    BY <1>1 DEF pinDeps
<1>4. /\ state'[next] = "Pending" /\ remaining'[next] = left
      /\ phase'[next] \in {"wait", "queued", "picked"} /\ (phase'[next] # "wait" => left = {})
      /\ \A t \in Task \ {next} : state'[t] = state[t] /\ remaining'[t] = remaining[t]
      /\ \A n \in Node \ {next} : phase'[n] = phase[n]
    BY <1>2 DEF TypeOK, enqueueLocked
<1>5. TypeOK'
    <2>1. /\ state' \in [Task -> {"Free", "Pending", "Running", "Done", "Failed"}]
          /\ remaining' \in [Task -> SUBSET Task]
          /\ waitFor' \in [Node -> 0..MaxID] /\ tasks' \in Int
        BY <1>2, <1>3 DEF TypeOK
    <2>2. phase' \in [Node -> {"wait", "queued", "picked", "started", "body", "drain",
                               "drainErr", "gone", "waiting", "closing", "returned"}]
        BY <1>2 DEF TypeOK, enqueueLocked
    <2> QED
        BY <1>2, <2>1, <2>2 DEF TypeOK
<1> HIDE DEF left
<1>6. RootInv'
    BY <1>4, <1>b DEF RootInv
<1>7. FreeInv'
    <2> SUFFICES ASSUME NEW t \in Task
                 PROVE  /\ t >= next' <=> state'[t] = "Free"
                        /\ state'[t] = "Free" => phase'[t] = "wait" /\ t \notin boundErr'
                        /\ \A d \in remaining'[t] : d < next'
        BY <1>b DEF FreeInv
    <2>1. t \in Nat /\ next \in Nat /\ remaining'[t] \subseteq Nat
        BY <1>5 DEF TypeOK
    <2>2. CASE t = next
        BY <1>3, <1>4, <2>1, <2>2
    <2>3. CASE t # next
        BY <1>2, <1>4, <2>1, <2>3 DEF FreeInv
    <2> QED
        BY <2>2, <2>3
<1>8. PhaseInv'
    <2>1. \A t \in Task \ {next} : CtxErr(t)' = CtxErr(t)
        BY <1>2 DEF CtxErr
    <2> QED
        BY <1>4, <2>1 DEF PhaseInv, InBody
<1>9. DepsInv'
    <2>1. \A d \in Task : state'[d] = "Done" <=> state[d] = "Done"
        BY <1>4
    <2>2. \A d \in D : state'[d] = "Done" \/ d \in left
        BY <2>1 DEF left
    <2>3. ASSUME NEW t \in Task, t # next
          PROVE  /\ state'[t] \in {"Pending", "Running", "Done"} =>
                       \A d \in deps'[t] : state'[d] = "Done" \/ d \in remaining'[t]
                 /\ state'[t] = "Pending" /\ phase'[t] # "wait" => remaining'[t] = {}
                 /\ state'[t] \in {"Running", "Done"} => remaining'[t] = {}
        BY <1>4, <2>1, <2>3 DEF DepsInv, TypeOK
    <2>4. /\ \A d \in deps'[next] : state'[d] = "Done" \/ d \in remaining'[next]
          /\ phase'[next] # "wait" => remaining'[next] = {}
        BY <1>4, <2>2
    <2> QED
        BY <1>4, <2>3, <2>4 DEF DepsInv
<1>10. Unfinished' = Unfinished \cup {next} /\ next \notin Unfinished
    BY <1>4 DEF Unfinished
<1>11. IsolateInv'
    <2> SUFFICES ASSUME NEW t \in Task \ {next}
                 PROVE  /\ state[t] = "Failed" /\ kind[t] # Isolate /\ bound[t] # 0 => bound[t] \in boundErr
                        /\ kind[t] = Isolate /\ state[t] = "Done" =>
                              t \notin boundErr /\ \A u \in Unfinished' : t \notin anc'[u]
        BY <1>2, <1>4 DEF IsolateInv
    <2>1. kind[t] = Isolate /\ state[t] = "Done" => t \notin anc'[next]
        BY <1>b
    <2>2. Unfinished \subseteq Node \ {next}
        BY <1>10 DEF Unfinished
    <2> QED
        BY <1>10, <2>1, <2>2 DEF IsolateInv
<1>12. WaitInv'
    BY <1>2, <1>4, <1>b DEF WaitInv
<1>13. FirstErrorRecorded'
    <2>1. {t \in Task : state'[t] = "Failed"} = {t \in Task : state[t] = "Failed"} \ {next}
        BY <1>4
    <2>2. \A t \in Task \ {next} : kind'[t] = kind[t] /\ isolateOf(t)' = isolateOf(t)
        BY DEF isolateOf
    <2>3. next \notin {t \in Task : state[t] = "Failed"}
        OBVIOUS
    <2>4. Escaped({t \in Task : state[t] = "Failed"})' = Escaped({t \in Task : state[t] = "Failed"})
        BY <2>1, <2>2, <2>3 DEF Escaped
    <2> QED
        BY <1>2, <2>4 DEF FirstErrorRecorded
<1>14. TasksCountsUnfinished'
    <2>1. Unfinished \in SUBSET Task
        BY DEF Unfinished
    <2> QED
        BY <1>2, <1>10, <2>1, TasksFinite, FS_AddElement DEF TasksCountsUnfinished
<1> QED
    BY <1>b, <1>5, <1>6, <1>7, <1>8, <1>9, <1>11, <1>12, <1>13, <1>14

\* Go fails the task it adds.
LEMMA GoTaskFailsStep ==
    ASSUME IInv, NEW b \in Node, NEW k \in Asked, NEW D \in SUBSET (Task \cap 2..next),
           goTaskFails(b, k, D)
    PROVE  IInv'
<1> DEFINE S == Struck(Inside(b))
           F == Cascade(S)
<1> USE Nodes DEF IInv
<1>1. Active(b) /\ next <= MaxID /\ alloc(next, b, k, D) /\ k # Isolate
    BY DEF goTaskFails
<1>a. Allocated(b, k, D)
    BY <1>1, AllocFacts
<1>b. /\ kind'[Root] = Control /\ anc'[Root] = {} /\ bound'[Root] = 0
      /\ BoundInv'
      /\ \A t \in Task : \A a \in anc'[t] : a < next'
      /\ phase[Root] \notin {"closing", "returned"}
      /\ \A a \in Task : kind[a] = Isolate /\ state[a] = "Done" => a \notin anc[b] \cup {b}
    BY <1>1, <1>a, AllocTree
<1>2. /\ FailAll(F, {next}, {Inside(b)} \ {0})
      /\ \E e \in FirstEscaped(F, IF Inside(b) = 0 THEN next ELSE 0) : recordError(e)
      /\ \E R \in Overtaken(F) : phase' = [t \in Node |-> IF t \in R THEN "started" ELSE phase[t]]
      /\ tasks' = tasks - Cardinality(F)
      /\ UNCHANGED <<waitFor, hard, alive>>
    BY DEF goTaskFails
<1>3. PICK R \in Overtaken(F) : phase' = [t \in Node |-> IF t \in R THEN "started" ELSE phase[t]]
    BY <1>2
<1>4. S \in SUBSET Unfinished /\ S \in SUBSET Task
    BY DEF Struck, Pending, Unfinished
<1>5. F \subseteq Task /\ S \subseteq F /\ Closed(F)
    BY <1>4, CascadeLeast
<1>6. \A t \in F : state[t] = "Pending" /\ t # next
    BY <1>4, <1>5, <1>a, CascadePending DEF Pending, Struck, Allocated
<1>7. /\ state' = [t \in Task |-> IF t \in F \cup {next} THEN "Failed" ELSE state[t]]
      /\ remaining' = [t \in Task |-> remaining[t] \ F]
      /\ boundErr' = boundErr \cup ({Inside(b)} \ {0}) \cup BoundariesOf(F)
    BY <1>2 DEF FailAll
<1>8. 0 \notin Escaped(F)
    BY <1>5 DEF Escaped
<1>9. /\ sessErr # 0 => sessErr' = sessErr
      /\ sessErr = 0 => IF Inside(b) = 0 THEN sessErr' = next
                        ELSE IF Escaped(F) = {} THEN sessErr' = 0 ELSE sessErr' \in Escaped(F)
      /\ cause' \in {"none", "canceled", "other"} /\ pass' \in {"idle", "armed", "done"}
      /\ cause # "none" => cause' = cause
      /\ sessErr' # 0 => cause' # "none"
      /\ pass' # "idle" => cause' # "none"
    <2>1. /\ cause \in {"none", "canceled", "other"} /\ pass \in {"idle", "armed", "done"}
          /\ pass # "idle" => cause # "none"
          /\ sessErr # 0 => cause # "none"
        BY DEF TypeOK, WaitInv, FirstErrorRecorded
    <2>2. PICK e \in FirstEscaped(F, IF Inside(b) = 0 THEN next ELSE 0) : recordError(e)
        BY <1>2
    <2>3. next # 0
        BY <1>a DEF Allocated
    <2> HIDE DEF F
    <2> QED
        BY <1>8, <2>1, <2>2, <2>3 DEF FirstEscaped, recordError, cancel
<1>10. \A t \in F : phase[t] = "picked" =>
          cause' # "none" \/ \E a \in anc[t] \cup {t} : a \in boundErr'
    <2>1. BoundariesOf(F) \subseteq boundErr'
        BY <1>7
    <2>2. Escaped(F) # {} /\ sessErr = 0 => cause' # "none"
        BY <1>8, <1>9, <1>a DEF Allocated
    <2>3. \A t \in S : cause' # "none" \/ \E a \in anc[t] \cup {t} : a \in boundErr'
        <3>1. CASE Inside(b) = 0
            BY <1>9, <1>a, <3>1 DEF Struck, Allocated
        <3>2. CASE Inside(b) # 0
            <4>1. Inside(b) \in boundErr'
                BY <1>7, <3>2
            <4> QED
                BY <3>2, <4>1 DEF Struck
        <3> QED
            BY <3>1, <3>2
    <2>4. {} \in SUBSET S
        OBVIOUS
    <2> HIDE DEF S
    <2> QED
        BY <1>4, <2>1, <2>2, <2>3, <2>4, FailCancels
<1>11. R \subseteq F /\ \A t \in R : phase[t] = "picked"
    BY <1>3 DEF Overtaken
<1> USE <1>a DEF Allocated
<1> HIDE DEF F, S
<1>12. \A a \in BoundariesOf(F) : a # 0 /\ \E t \in F : bound[t] = a
    BY DEF BoundariesOf, isolateOf
<1>13. TypeOK'
    <2>1. Cardinality(F) \in Nat
        BY <1>5, TasksFinite
    <2>2. sessErr' \in 0..MaxID
        BY <1>5, <1>9 DEF TypeOK, Escaped
    <2>3. boundErr' \subseteq Task
        <3>1. BoundariesOf(F) \subseteq Task
            BY <1>5, <1>12 DEF TypeOK
        <3> QED
            BY <1>7, <3>1 DEF TypeOK
    <2>4. phase' \in [Node -> {"wait", "queued", "picked", "started", "body", "drain",
                               "drainErr", "gone", "waiting", "closing", "returned"}]
        BY <1>3 DEF TypeOK
    <2>5. /\ state' \in [Task -> {"Free", "Pending", "Running", "Done", "Failed"}]
          /\ remaining' \in [Task -> SUBSET Task]
        BY <1>7 DEF TypeOK
    <2>6. tasks' \in Int
        BY <1>2, <2>1 DEF TypeOK
    <2> QED
        BY <1>2, <1>9, <2>2, <2>3, <2>4, <2>5, <2>6 DEF TypeOK
<1>14. phase'[Root] = phase[Root] /\ RootInv'
    BY <1>3, <1>5, <1>11, <1>b DEF RootInv
<1>15. FreeInv'
    <2> SUFFICES ASSUME NEW t \in Task
                 PROVE  /\ t >= next' <=> state'[t] = "Free"
                        /\ state'[t] = "Free" => phase'[t] = "wait" /\ t \notin boundErr'
                        /\ \A d \in remaining'[t] : d < next'
        BY <1>b DEF FreeInv
    <2>1. t \in Nat /\ next \in Nat /\ remaining'[t] \subseteq Nat
        BY <1>13 DEF TypeOK
    <2>2. t >= next' <=> state'[t] = "Free"
        BY <1>6, <1>7, <2>1 DEF FreeInv
    <2>3. \A d \in remaining'[t] : d < next'
        BY <1>7, <2>1 DEF FreeInv
    <2>4. ASSUME state'[t] = "Free" PROVE phase'[t] = "wait" /\ t \notin boundErr'
        <3>1. state[t] = "Free" /\ t \notin F /\ t # next /\ t >= next
            BY <1>6, <1>7, <2>1, <2>4 DEF FreeInv
        <3>2. t # Inside(b)
            BY <2>1, <3>1
        <3>3. \A u \in F : bound[u] # t
            BY <1>5, <2>1, <3>1 DEF BoundInv, FreeInv
        <3>4. t \notin boundErr'
            BY <1>7, <1>12, <3>1, <3>2, <3>3 DEF FreeInv
        <3> QED
            BY <1>3, <1>11, <3>1, <3>4 DEF FreeInv
    <2> QED
        BY <2>2, <2>3, <2>4
<1>16. PhaseInv'
    <2> SUFFICES ASSUME NEW t \in Task
                 PROVE  /\ phase'[t] \in {"wait", "queued", "picked", "started", "body", "drain",
                                          "drainErr", "gone"}
                        /\ state'[t] = "Pending" => phase'[t] \in {"wait", "queued", "picked"}
                        /\ state'[t] = "Running" => phase'[t] = "started" \/ InBody(t)'
                        /\ InBody(t)' => state'[t] = "Running"
                        /\ phase'[t] \in {"queued", "picked"} => state'[t] \in {"Pending", "Failed"}
                        /\ phase'[t] = "started" => \/ state'[t] = "Running"
                                                    \/ state'[t] = "Failed" /\ CtxErr(t)'
        BY DEF PhaseInv
    <2>1. CASE t \notin F /\ t # next
        <3>1. phase'[t] = phase[t] /\ state'[t] = state[t]
            BY <1>3, <1>7, <1>11, <2>1
        <3>2. CtxErr(t) => CtxErr(t)'
            BY <1>7, <1>9, <2>1 DEF CtxErr
        <3> QED
            BY <3>1, <3>2 DEF PhaseInv, InBody
    <2>2. CASE t = next
        <3>1. phase'[t] = "wait" /\ state'[t] = "Failed"
            BY <1>3, <1>6, <1>7, <1>11, <2>2 DEF FreeInv
        <3> QED
            BY <3>1 DEF InBody
    <2>3. CASE t \in F
        <3>1. state[t] = "Pending" /\ state'[t] = "Failed" /\ t # next
            BY <1>6, <1>7, <2>3
        <3>2. phase[t] \in {"wait", "queued", "picked"}
            BY <3>1 DEF PhaseInv
        <3>3. phase[t] = "picked" => CtxErr(t)'
            BY <1>10, <2>3, <3>1 DEF CtxErr
        <3> QED
            BY <1>3, <1>11, <2>3, <3>1, <3>2, <3>3 DEF InBody
    <2> QED
        BY <2>1, <2>2, <2>3
<1>17. DepsInv'
    <2> SUFFICES ASSUME NEW t \in Task
                 PROVE  /\ state'[t] \in {"Pending", "Running", "Done"} =>
                              \A d \in deps'[t] : state'[d] = "Done" \/ d \in remaining'[t]
                        /\ state'[t] = "Pending" /\ phase'[t] # "wait" => remaining'[t] = {}
                        /\ state'[t] \in {"Running", "Done"} => remaining'[t] = {}
        BY DEF DepsInv
    <2>1. CASE t \in F \cup {next}
        BY <1>7, <2>1
    <2>2. CASE t \notin F \cup {next}
        <3>1. phase'[t] = phase[t] /\ state'[t] = state[t] /\ deps'[t] = deps[t]
            BY <1>3, <1>7, <1>11, <2>2
        <3>2. ASSUME NEW d \in F, d \in remaining[t] PROVE state[t] = "Failed" \/ state[t] = "Free"
            BY <1>5, <2>2, <3>2 DEF Closed, Waiters, Pending, DepsInv, TypeOK
        <3>3. ASSUME state[t] \in {"Pending", "Running", "Done"}, NEW d \in deps[t]
              PROVE  state'[d] = "Done" \/ d \in remaining'[t]
            <4>1. d \in Task
                BY DEF TypeOK
            <4>2. CASE state[d] = "Done"
                BY <1>6, <1>7, <4>1, <4>2
            <4>3. CASE d \in remaining[t]
                BY <1>7, <3>2, <3>3, <4>3
            <4> QED
                BY <3>3, <4>2, <4>3 DEF DepsInv
        <3>4. /\ state'[t] = "Pending" /\ phase'[t] # "wait" => remaining'[t] = {}
              /\ state'[t] \in {"Running", "Done"} => remaining'[t] = {}
            BY <1>7, <3>1 DEF DepsInv
        <3> QED
            BY <3>1, <3>3, <3>4
    <2> QED
        BY <2>1, <2>2
<1>18. Unfinished' = Unfinished \ F /\ F \subseteq Unfinished /\ next \notin Unfinished
    BY <1>5, <1>6, <1>7 DEF Unfinished
<1>19. IsolateInv'
    <2> SUFFICES ASSUME NEW t \in Task
                 PROVE  /\ state'[t] = "Failed" /\ kind'[t] # Isolate /\ bound'[t] # 0 => bound'[t] \in boundErr'
                        /\ kind'[t] = Isolate /\ state'[t] = "Done" =>
                              t \notin boundErr' /\ \A u \in Unfinished' : t \notin anc'[u]
        BY DEF IsolateInv
    <2>1. CASE t = next
        BY <1>7, <1>1, <2>1
    <2>2. CASE t # next
        <3>1. kind'[t] = kind[t] /\ bound'[t] = bound[t]
            BY <2>2
        <3>2. state'[t] = "Failed" /\ kind[t] # Isolate /\ bound[t] # 0 => bound[t] \in boundErr'
            BY <1>7, <2>2 DEF IsolateInv, BoundariesOf, isolateOf
        <3>3. ASSUME kind[t] = Isolate, state'[t] = "Done"
              PROVE  t \notin boundErr' /\ \A u \in Unfinished' : t \notin anc'[u]
            <4>1. state[t] = "Done" /\ t \notin boundErr /\ \A u \in Unfinished : t \notin anc[u]
                BY <1>7, <2>2, <3>3 DEF IsolateInv
            <4>2. \A u \in F : bound[u] # t
                BY <1>5, <1>18, <4>1 DEF BoundInv
            <4>3. t # Inside(b)
                BY <1>b, <3>3, <4>1
            <4>4. \A u \in Unfinished' : u \in Unfinished /\ anc'[u] = anc[u]
                BY <1>18 DEF Unfinished
            <4> QED
                BY <1>7, <1>12, <4>1, <4>2, <4>3, <4>4
        <3> QED
            BY <3>1, <3>2, <3>3
    <2> QED
        BY <2>1, <2>2
<1>20. WaitInv'
    BY <1>9, <1>14, <1>b DEF WaitInv
<1>21. FirstErrorRecorded'
    <2> DEFINE E == Escaped({t \in Task : state[t] = "Failed"})
    <2>0. PICK n \in Task : n = next /\ n # 0
        OBVIOUS
    <2>2. \A t \in Task \ {n} : kind'[t] = kind[t] /\ isolateOf(t)' = isolateOf(t)
        BY <2>0 DEF isolateOf
    <2>3. kind'[n] # Isolate /\ isolateOf(n)' = Inside(b)
        BY <1>1, <2>0 DEF isolateOf
    <2>4. n \notin {t \in Task : state[t] = "Failed"} \cup F
        BY <1>6, <2>0
    <2> HIDE <1>a
    <2>1. {t \in Task : state'[t] = "Failed"} = {t \in Task : state[t] = "Failed"} \cup F \cup {n}
        BY <1>5, <1>7, <2>0
    <2>5. Escaped({t \in Task : state[t] = "Failed"})' =
             E \cup Escaped(F) \cup (IF Inside(b) = 0 THEN {n} ELSE {})
        BY <1>5, <2>1, <2>2, <2>3, <2>4 DEF Escaped
    <2>6. IF sessErr = 0 THEN E = {} ELSE sessErr \in E /\ cause # "none"
        BY DEF FirstErrorRecorded
    <2> HIDE DEF E
    <2>8. IF sessErr' = 0 THEN E \cup Escaped(F) \cup (IF Inside(b) = 0 THEN {n} ELSE {}) = {}
          ELSE /\ sessErr' \in E \cup Escaped(F) \cup (IF Inside(b) = 0 THEN {n} ELSE {})
               /\ cause' # "none"
        BY <1>8, <1>9, <2>0, <2>6
    <2> QED
        BY <2>5, <2>8 DEF FirstErrorRecorded
<1>22. TasksCountsUnfinished'
    <2> HIDE <1>a
    <2>1. Unfinished \subseteq Task /\ Unfinished \cap F = F
        BY <1>18 DEF Unfinished
    <2>2. Cardinality(Unfinished \ F) = Cardinality(Unfinished) - Cardinality(F)
        BY <2>1, TasksFinite, FS_Difference
    <2> QED
        BY <1>2, <1>18, <2>2 DEF TasksCountsUnfinished
<1> QED
    BY <1>b, <1>13, <1>14, <1>15, <1>16, <1>17, <1>19, <1>20, <1>21, <1>22

-----------------------------------------------------------------------------
(* Theorems *)

\* Every step of the scheduler keeps the invariant.
LEMMA NextIInv == IInv /\ [Next]_vars => IInv'
<1> SUFFICES ASSUME IInv, [Next]_vars PROVE IInv'
    OBVIOUS
<1>1. ASSUME NEW b \in Node, NEW k \in Asked, NEW D \in SUBSET (Task \cap 2..next),
             goTask(b, k, D) \/ goTaskFails(b, k, D)
      PROVE  IInv'
    BY <1>1, GoTaskStep, GoTaskFailsStep
<1>2. ASSUME NEW p \in Pools, pop(p) \/ workerExit(p) PROVE IInv'
    BY <1>2, PopStep, ExitStep
<1>3. ASSUME NEW t \in Task, RunStep(t) PROVE IInv'
    BY <1>3, RunStepIInv
<1>4. ASSUME NEW b \in Node, waitTask(b) PROVE IInv'
    BY <1>4, WaitTaskStep
<1>5. CASE Cancel \/ parentDone
    BY <1>5, CancelStep
<1>6. CASE failPass
    BY <1>6, FailPassStep
<1>7. CASE Wait \/ WaitClose \/ WaitReturn
    BY <1>7, WaitStep
<1>8. CASE UNCHANGED vars
    <2> USE <1>8 DEF vars, IInv
    <2>1. UNCHANGED <<goVars, state, remaining, boundErr, sessErr, tasks>>
        BY DEF goVars
    <2>2. BoundInv' /\ IsolateInv' /\ FirstErrorRecorded' /\ TasksCountsUnfinished'
          /\ Unfinished' = Unfinished
        BY <2>1, Frame
    <2>3. TypeOK'
        BY DEF TypeOK
    <2>4. RootInv' /\ FreeInv' /\ PhaseInv'
        BY DEF RootInv, FreeInv, PhaseInv, InBody, CtxErr
    <2>5. DepsInv' /\ WaitInv'
        BY <2>2 DEF DepsInv, WaitInv
    <2> QED
        BY <2>2, <2>3, <2>4, <2>5
<1> QED
    BY <1>1, <1>2, <1>3, <1>4, <1>5, <1>6, <1>7, <1>8 DEF Next

\* IInv holds in every reachable state of the scheduler.
THEOREM Invariance == Spec => []IInv
BY InitIInv, NextIInv, PTL DEF Spec

\* The scheduler keeps its types.
THEOREM TypeCorrect == Spec => []TypeOK
<1>1. IInv => TypeOK
    BY DEF IInv
<1> QED
    BY <1>1, Invariance, PTL

\* No fn runs for a task that a dependency, an isolate, the session's error or a
\* cancellation has failed, whoever wins the race for its state.
THEOREM NoFailedBodyRuns == Spec => []NoBodyAfterFailure
<1>1. IInv => NoBodyAfterFailure
    BY DEF IInv, PhaseInv, NoBodyAfterFailure
<1> QED
    BY <1>1, Invariance, PTL

\* A task runs after all of its dependencies succeeded.
THEOREM DependencyOrder == Spec => []DepsDoneBeforeRun
<1>1. IInv => DepsDoneBeforeRun
    BY DEF IInv, DepsInv, DepsDoneBeforeRun
<1> QED
    BY <1>1, Invariance, PTL

\* Session.err is the error of a failure that no isolate contains, and there is
\* one as soon as there is such a failure.
THEOREM ErrorRecorded == Spec => []FirstErrorRecorded
<1>1. IInv => FirstErrorRecorded
    BY DEF IInv
<1> QED
    BY <1>1, Invariance, PTL

\* An isolate that returns nil had no failure inside.
THEOREM IsolateTellsCaller == Spec => []IsolateReportsFailure
<1>1. IInv => IsolateReportsFailure
    BY Nodes DEF IInv, IsolateInv, IsolateReportsFailure, isolateOf
<1> QED
    BY <1>1, Invariance, PTL

\* The WaitGroup that Wait blocks on counts the unfinished tasks.
THEOREM WaitGroupExact == Spec => []TasksCountsUnfinished
<1>1. IInv => TasksCountsUnfinished
    BY DEF IInv
<1> QED
    BY <1>1, Invariance, PTL

\* Nothing runs and nothing is pending once Wait has returned.
THEOREM WaitQuiesces == Spec => []WaitIsQuiescent
<1>1. IInv => WaitIsQuiescent
    BY DEF IInv, WaitInv, PhaseInv, WaitIsQuiescent, Unfinished
<1> QED
    BY <1>1, Invariance, PTL

\* A task that a cascade adds to was pending, so no step changes the outcome of a
\* finished task; Session.err is written once.
LEMMA OutcomeStep ==
    ASSUME IInv, [Next]_vars
    PROVE  /\ \A t \in Task : Finished(t) => state'[t] = state[t]
           /\ sessErr # 0 => sessErr' = sessErr
<1>1. ASSUME NEW S \in SUBSET Task, \A t \in S : ~Finished(t), NEW new, NEW bounds,
             \A t \in new : t \in Task => ~Finished(t),
             FailAll(Cascade(S), new, bounds)
      PROVE  \A t \in Task : Finished(t) => state'[t] = state[t]
    BY <1>1, CascadePending DEF FailAll, Finished, Pending
<1>2. ASSUME NEW id \in Task, NEW ok \in BOOLEAN, finishLocked(id, ok)
      PROVE  /\ \A t \in Task : Finished(t) => state'[t] = state[t]
             /\ sessErr # 0 => sessErr' = sessErr
    <2>1. CASE Finished(id)
        BY <1>2, <2>1 DEF finishLocked
    <2>2. CASE ~Finished(id) /\ ok
        BY <1>2, <2>2 DEF finishLocked, finishDone, Finished, IInv, TypeOK
    <2>3. CASE ~Finished(id) /\ ~ok
        <3>1. finishFailed(id)
            BY <1>2, <2>3 DEF finishLocked
        <3>2. FailAll(Cascade({id}), {}, {}) /\ \E e : recordError(e)
            BY <3>1 DEF finishFailed
        <3>3. \A t \in Task : Finished(t) => state'[t] = state[t]
            BY <1>1, <2>3, <3>2
        <3> QED
            BY <3>2, <3>3 DEF recordError
    <2> QED
        BY <2>1, <2>2, <2>3
<1>3. ASSUME NEW b \in Node, NEW k \in Asked, NEW D \in SUBSET (Task \cap 2..next)
      PROVE  goTask(b, k, D) \/ goTaskFails(b, k, D) =>
                /\ \A t \in Task : Finished(t) => state'[t] = state[t]
                /\ sessErr # 0 => sessErr' = sessErr
    <2>1. ASSUME Active(b), next <= MaxID, alloc(next, b, k, D)
          PROVE  next \in Task /\ ~Finished(next)
        BY <2>1, AllocFacts DEF Allocated, Finished
    <2>2. CASE goTask(b, k, D)
        BY <2>1, <2>2 DEF goTask, Finished, IInv, TypeOK
    <2>3. CASE goTaskFails(b, k, D)
        <3>1. /\ FailAll(Cascade(Struck(Inside(b))), {next}, {Inside(b)} \ {0})
              /\ \E e : recordError(e)
            BY <2>3 DEF goTaskFails
        <3>2. Struck(Inside(b)) \in SUBSET Task /\ \A t \in Struck(Inside(b)) : ~Finished(t)
            BY DEF Struck, Pending, Finished
        <3>3. \A t \in {next} : t \in Task => ~Finished(t)
            BY <2>1, <2>3 DEF goTaskFails
        <3>4. \A t \in Task : Finished(t) => state'[t] = state[t]
            BY <1>1, <3>1, <3>2, <3>3
        <3> QED
            BY <3>1, <3>4 DEF recordError
    <2> QED
        BY <2>2, <2>3
<1>4. ASSUME failPass
      PROVE  /\ \A t \in Task : Finished(t) => state'[t] = state[t]
             /\ sessErr # 0 => sessErr' = sessErr
    <2> DEFINE S == {u \in Pending : hard \/ cause = "canceled" \/ isolateOf(u) = 0}
    <2>1. S \in SUBSET Task /\ \A t \in S : ~Finished(t)
        BY DEF Pending, Finished
    <2>2. FailAll(Cascade(S), {}, {}) /\ (sessErr # 0 => sessErr' = sessErr)
        BY <1>4 DEF failPass
    <2> HIDE DEF S
    <2> QED
        BY <1>1, <2>1, <2>2
<1>5. ASSUME NEW t \in Task, RunStep(t)
      PROVE  /\ \A u \in Task : Finished(u) => state'[u] = state[u]
             /\ sessErr # 0 => sessErr' = sessErr
    <2>1. CASE runClaim(t)
        BY <2>1 DEF runClaim, Finished, IInv, TypeOK
    <2>2. CASE runEnter(t) \/ \E ok \in BOOLEAN : bodyDrain(t, ok)
        BY <2>2 DEF runEnter, bodyDrain
    <2>3. CASE runAbort(t)
        BY <1>2, <2>3 DEF runAbort
    <2>4. CASE \E ok \in BOOLEAN : bodyReturn(t, ok)
        BY <1>2, <2>4 DEF bodyReturn
    <2>5. CASE waitLive(t)
        <3>1. PICK ok \in BOOLEAN : ok = (phase[t] = "drain" /\ waitLiveOk(t))
            OBVIOUS
        <3> QED
            BY <1>2, <2>5, <3>1 DEF waitLive
    <2> QED
        BY <1>5, <2>1, <2>2, <2>3, <2>4, <2>5 DEF RunStep
<1>6. CASE \E p \in Pools : pop(p) \/ workerExit(p)
    BY <1>6 DEF pop, workerExit
<1>7. CASE \/ \E b \in Node : waitTask(b)
           \/ Cancel \/ parentDone \/ Wait \/ WaitClose \/ WaitReturn
    BY <1>7 DEF waitTask, Cancel, parentDone, Wait, WaitClose, WaitReturn
<1>8. CASE UNCHANGED vars
    BY <1>8 DEF vars
<1> QED
    BY <1>3, <1>4, <1>5, <1>6, <1>7, <1>8 DEF Next

\* A finished task is finished for good, and Session.err is written once.
THEOREM OutcomesAreFinal == Spec => OutcomesStay
<1>1. IInv /\ [Next]_vars =>
        [/\ \A t \in Task : Finished(t) => state'[t] = state[t]
         /\ sessErr # 0 => sessErr' = sessErr]_vars
    BY OutcomeStep
<1> QED
    BY <1>1, Invariance, PTL DEF Spec, OutcomesStay

-----------------------------------------------------------------------------
(* Maps report the failure of an item *)

\* A Map outside isolates to which waitLive returns nil has only items that
\* succeeded: none is live, and one that failed would be in Session.err.
LEMMA DrainedMap ==
    ASSUME IInv, MapInv, NEW m \in Task, kind[m] = Map, isolateOf(m) = 0,
           waitLiveOk(m), NEW t \in Task, parent[t] = m
    PROVE  state[t] = "Done"
<1> USE Nodes DEF IInv
<1>1. m \in anc[t] /\ state[t] # "Free" /\ bound[t] = bound[m] /\ kind[t] # Isolate
    BY DEF MapInv
<1>2. t \notin Unfinished
    BY <1>1 DEF waitLiveOk, NoneLive
<1>3. isolateOf(t) = 0
    BY <1>1 DEF isolateOf
<1>4. state[t] # "Failed"
    BY <1>1, <1>3 DEF FirstErrorRecorded, waitLiveOk, Escaped
<1> QED
    BY <1>1, <1>2, <1>4 DEF Unfinished, TypeOK

\* A step that adds no task keeps MapInv when a Map it ends was drained.
LEMMA MapKept ==
    ASSUME IInv, MapInv, UNCHANGED goVars,
           \A t \in Task : state[t] = "Done" => state'[t] = "Done",
           \A t \in Task : state[t] # "Free" => state'[t] # "Free",
           \A m \in Task : state'[m] = "Done" /\ state[m] # "Done" /\ kind[m] = Map
                            => waitLiveOk(m)
    PROVE  MapInv'
<1>1. \A id \in Task : isolateOf(id)' = isolateOf(id)
    BY DEF goVars, isolateOf
<1>2. MapReportsFailure'
    <2> SUFFICES ASSUME NEW m \in Task, NEW t \in Task, kind[m] = Map,
                        isolateOf(m) = 0, state'[m] = "Done", parent[t] = m
                 PROVE  state'[t] = "Done"
        BY <1>1 DEF MapReportsFailure, goVars
    <2>1. CASE state[m] = "Done"
        BY <2>1 DEF MapInv, MapReportsFailure
    <2>2. CASE state[m] # "Done"
        BY <2>2, DrainedMap
    <2> QED
        BY <2>1, <2>2
<1> QED
    BY <1>2 DEF MapInv, goVars

\* finishLocked ends its own task and fails others.
LEMMA MapFinish ==
    ASSUME IInv, MapInv, NEW id \in Task, NEW ok \in BOOLEAN, finishLocked(id, ok),
           \A t \in Task : Finished(t) => state'[t] = state[t],
           ok /\ kind[id] = Map => waitLiveOk(id)
    PROVE  MapInv'
<1>1. UNCHANGED goVars /\ state \in [Task -> {"Free", "Pending", "Running", "Done", "Failed"}]
    BY DEF finishLocked, IInv, TypeOK
<1>2. \A t \in Task : \/ state'[t] \in {state[t], "Failed"}
                      \/ t = id /\ ok /\ state'[t] = "Done"
    <2>1. CASE Finished(id)
        BY <2>1 DEF finishLocked
    <2>2. CASE ~Finished(id) /\ ok
        BY <1>1, <2>2 DEF finishLocked, finishDone
    <2>3. CASE ~Finished(id) /\ ~ok
        BY <2>3 DEF finishLocked, finishFailed, FailAll
    <2> QED
        BY <2>1, <2>2, <2>3
<1>3. \A t \in Task : state[t] = "Done" => state'[t] = "Done"
    BY DEF Finished
<1> QED
    BY <1>1, <1>2, <1>3, MapKept

\* A new task joins the tree below an active body, whose Map is not over.
LEMMA MapGrows ==
    ASSUME IInv, MapInv, NEW b \in Node, NEW k \in Asked,
           NEW D \in SUBSET (Task \cap 2..next),
           goTask(b, k, D) \/ goTaskFails(b, k, D),
           \A t \in Task : Finished(t) => state'[t] = state[t]
    PROVE  MapInv'
<1> USE Nodes DEF IInv
<1>1. Active(b) /\ next <= MaxID /\ alloc(next, b, k, D) /\ MayAsk(b, k, D)
    BY DEF goTask, goTaskFails
<1>2. Allocated(b, k, D)
    BY <1>1, AllocFacts
<1>3. /\ parent'[next] = b /\ \A t \in Task \ {next} : parent'[t] = parent[t]
      /\ parent[next] = 0
    <2>1. parent[next] = 0
        BY <1>2 DEF Allocated, MapInv
    <2> QED
        BY <1>1, <1>2, <2>1 DEF Allocated, alloc, TypeOK
<1>4. /\ state'[next] # "Free"
      /\ \A t \in Task \ {next} : state'[t] = state[t] \/ state'[t] = "Failed"
      /\ state'[next] # "Done"
    <2>1. CASE goTask(b, k, D)
        BY <1>2, <2>1 DEF goTask, Allocated, TypeOK
    <2>2. CASE goTaskFails(b, k, D)
        BY <1>2, <2>2 DEF goTaskFails, FailAll, Allocated
    <2> QED
        BY <2>1, <2>2
<1>5. b \in Task => state[b] = "Running"
    BY <1>1 DEF Active, PhaseInv, InBody
<1>6. next \in Nat /\ next' = next + 1 /\ \A t \in Task : parent[t] \in 0..MaxID
    BY <1>1 DEF alloc, TypeOK
<1>7. \A t \in Task : parent'[t] # 0 =>
         parent'[t] < next' /\ parent'[t] \in anc'[t] /\ state'[t] # "Free"
    <2> SUFFICES ASSUME NEW t \in Task, parent'[t] # 0
                 PROVE  parent'[t] < next' /\ parent'[t] \in anc'[t] /\ state'[t] # "Free"
        OBVIOUS
    <2>1. CASE t = next
        BY <1>2, <1>3, <1>4, <1>6, <2>1 DEF Allocated
    <2>2. CASE t # next
        <3>1. parent[t] < next /\ parent[t] \in anc[t] /\ state[t] # "Free"
            BY <1>3, <2>2 DEF MapInv
        <3>2. anc'[t] = anc[t]
            BY <1>2, <2>2 DEF Allocated
        <3> QED
            BY <1>3, <1>4, <1>6, <2>2, <3>1, <3>2
    <2> QED
        BY <2>1, <2>2
<1>8. \A m, t \in Task : parent'[t] = m /\ kind'[m] = Map =>
         /\ m # next /\ (t = next => m = b /\ kind[b] = Map)
         /\ bound'[t] = bound'[m] /\ kind'[t] # Isolate
    <2> SUFFICES ASSUME NEW m \in Task, NEW t \in Task, parent'[t] = m, kind'[m] = Map
                 PROVE  /\ m # next /\ (t = next => m = b /\ kind[b] = Map)
                        /\ bound'[t] = bound'[m] /\ kind'[t] # Isolate
        OBVIOUS
    <2>1. CASE t = next
        <3>1. m = b /\ b # next /\ kind[b] = Map
            BY <1>2, <1>3, <1>6, <2>1 DEF Allocated
        <3>2. k # Isolate /\ Inside(b) = bound[b]
            BY <1>1, <3>1 DEF MayAsk, Inside, Map, Isolate, Control
        <3> QED
            BY <1>2, <2>1, <3>1, <3>2 DEF Allocated
    <2>2. CASE t # next
        <3>1. parent[t] = m /\ m < next
            BY <1>3, <2>2 DEF MapInv
        <3>2. m # next /\ kind[m] = Map
            BY <1>2, <1>6, <3>1 DEF Allocated
        <3>3. bound[t] = bound[m] /\ kind[t] # Isolate
            BY <3>1, <3>2 DEF MapInv
        <3> QED
            BY <1>2, <2>2, <3>2, <3>3 DEF Allocated
    <2> QED
        BY <2>1, <2>2
<1>9. MapReportsFailure'
    <2> SUFFICES ASSUME NEW m \in Task, NEW t \in Task, kind'[m] = Map,
                        isolateOf(m)' = 0, state'[m] = "Done", parent'[t] = m
                 PROVE  state'[t] = "Done"
        BY DEF MapReportsFailure
    <2>1. m # next /\ (t = next => m = b)
        BY <1>8
    <2>2. state[m] = "Done" /\ t # next /\ kind[m] = Map /\ isolateOf(m) = 0
        BY <1>2, <1>4, <1>5, <2>1 DEF Allocated, isolateOf
    <2>3. state[t] = "Done"
        BY <1>3, <2>2 DEF MapInv, MapReportsFailure
    <2> QED
        BY <2>3 DEF Finished
<1> QED
    BY <1>7, <1>8, <1>9 DEF MapInv

\* Every step keeps MapInv.
LEMMA NextMapInv == IInv /\ MapInv /\ [Next]_vars => MapInv'
<1> SUFFICES ASSUME IInv, MapInv, [Next]_vars PROVE MapInv'
    OBVIOUS
<1>0. \A t \in Task : Finished(t) => state'[t] = state[t]
    BY OutcomeStep
<1>1. ASSUME NEW b \in Node, NEW k \in Asked, NEW D \in SUBSET (Task \cap 2..next),
             goTask(b, k, D) \/ goTaskFails(b, k, D)
      PROVE  MapInv'
    BY <1>0, <1>1, MapGrows
<1>2. CASE UNCHANGED <<goVars, state>>
    BY <1>2, MapKept
<1>3. ASSUME NEW t \in Task, RunStep(t) PROVE MapInv'
    <2>1. CASE runClaim(t)
        <3>1. UNCHANGED goVars /\ \A u \in Task : state'[u] = state[u] \/ state'[u] = "Running"
            BY <2>1 DEF runClaim, IInv, TypeOK
        <3>2. \A u \in Task : state[u] = "Done" => state'[u] = "Done"
            BY <1>0 DEF Finished
        <3> QED
            BY <3>1, <3>2, MapKept
    <2>2. CASE runEnter(t) \/ \E ok \in BOOLEAN : bodyDrain(t, ok)
        BY <1>2, <2>2 DEF runEnter, bodyDrain
    <2>3. CASE runAbort(t)
        BY <1>0, <2>3, MapFinish DEF runAbort
    <2>4. CASE \E ok \in BOOLEAN : bodyReturn(t, ok)
        BY <1>0, <2>4, MapFinish DEF bodyReturn
    <2>5. CASE waitLive(t)
        <3>1. PICK ok \in BOOLEAN : ok = (phase[t] = "drain" /\ waitLiveOk(t))
            OBVIOUS
        <3> QED
            BY <1>0, <2>5, <3>1, MapFinish DEF waitLive
    <2> QED
        BY <1>3, <2>1, <2>2, <2>3, <2>4, <2>5 DEF RunStep
<1>4. CASE failPass
    <2>1. UNCHANGED goVars /\ \A u \in Task : state'[u] = state[u] \/ state'[u] = "Failed"
        BY <1>4 DEF failPass, FailAll
    <2>2. \A u \in Task : state[u] = "Done" => state'[u] = "Done"
        BY <1>0 DEF Finished
    <2> QED
        BY <2>1, <2>2, MapKept
<1>5. CASE \E p \in Pools : pop(p) \/ workerExit(p)
    BY <1>2, <1>5 DEF pop, workerExit
<1>6. CASE \/ \E b \in Node : waitTask(b)
           \/ Cancel \/ parentDone \/ Wait \/ WaitClose \/ WaitReturn
    BY <1>2, <1>6 DEF waitTask, Cancel, parentDone, Wait, WaitClose, WaitReturn
<1>7. CASE UNCHANGED vars
    BY <1>2, <1>7 DEF vars, goVars
<1> QED
    BY <1>1, <1>3, <1>4, <1>5, <1>6, <1>7 DEF Next

\* Map.Run outside isolates returns nil only when each of its items succeeded.
THEOREM MapTellsCaller == Spec => []MapReportsFailure
<1>1. Init => MapInv
    BY Nodes DEF Init, MapInv, MapReportsFailure, Control, Map
<1>2. Spec => []MapInv
    BY <1>1, NextMapInv, Invariance, PTL DEF Spec
<1>3. MapInv => MapReportsFailure
    BY DEF MapInv
<1> QED
    BY <1>2, <1>3, PTL

-----------------------------------------------------------------------------
(* Work is stranded only in a cancelled session *)

\* The session's context stays done once it is, workers leave only then, and
\* the main goroutine closes the queues only after it has cancelled.
LEMMA NextWorkersInv == IInv /\ WorkersInv /\ [Next]_vars => WorkersInv'
<1> SUFFICES ASSUME IInv, WorkersInv, [Next]_vars PROVE WorkersInv'
    OBVIOUS
<1> USE Nodes
<1>1. ASSUME alive' = alive, phase'[Root] = phase[Root],
             cause # "none" => cause' # "none"
      PROVE  WorkersInv'
    BY <1>1 DEF WorkersInv
<1>2. ASSUME NEW e, recordError(e) PROVE cause # "none" => cause' # "none"
    BY <1>2 DEF recordError, cancel
<1>3. ASSUME NEW id \in Task, NEW ok \in BOOLEAN, finishLocked(id, ok) PROVE WorkersInv'
    <2>1. phase'[Root] = phase[Root]
        BY <1>3, CascadeLeast DEF finishLocked, finishDone, finishFailed, Overtaken,
           IInv, TypeOK
    <2>2. cause # "none" => cause' # "none"
        BY <1>2, <1>3 DEF finishLocked, finishDone, finishFailed
    <2> QED
        BY <1>1, <1>3, <2>1, <2>2 DEF finishLocked
<1>4. ASSUME NEW b \in Node, NEW k \in Asked, NEW D \in SUBSET (Task \cap 2..next),
             goTask(b, k, D) \/ goTaskFails(b, k, D)
      PROVE  WorkersInv'
    <2>1. Root # next
        BY <1>4 DEF Root, IInv, TypeOK
    <2>2. CASE goTask(b, k, D)
        BY <1>1, <2>1, <2>2 DEF goTask, IInv, TypeOK
    <2>3. CASE goTaskFails(b, k, D)
        <3>1. Cascade(Struck(Inside(b))) \subseteq Task
            BY DEF Cascade
        <3>2. phase'[Root] = phase[Root] /\ alive' = alive
            BY <2>3, <3>1 DEF goTaskFails, Overtaken
        <3> QED
            BY <1>1, <1>2, <2>3, <3>2 DEF goTaskFails
    <2> QED
        BY <1>4, <2>2, <2>3
<1>5. ASSUME NEW t \in Task, RunStep(t) PROVE WorkersInv'
    <2>1. CASE runClaim(t) \/ runEnter(t) \/ \E ok \in BOOLEAN : bodyDrain(t, ok)
        BY <1>1, <2>1 DEF runClaim, runEnter, bodyDrain, IInv, TypeOK
    <2>2. CASE runAbort(t) \/ \E ok \in BOOLEAN : bodyReturn(t, ok)
        BY <1>3, <2>2 DEF runAbort, bodyReturn
    <2>3. CASE waitLive(t)
        <3>1. PICK ok \in BOOLEAN : ok = (phase[t] = "drain" /\ waitLiveOk(t))
            OBVIOUS
        <3> QED
            BY <1>3, <2>3, <3>1 DEF waitLive
    <2> QED
        BY <1>5, <2>1, <2>2, <2>3 DEF RunStep
<1>6. CASE failPass
    <2> DEFINE S == {u \in Pending : hard \/ cause = "canceled" \/ isolateOf(u) = 0}
    <2>1. Cascade(S) \subseteq Task
        BY DEF Cascade
    <2>2. phase'[Root] = phase[Root]
        BY <1>6, <2>1 DEF failPass, Overtaken
    <2> QED
        BY <1>1, <1>6, <2>2 DEF failPass
<1>7. CASE \E p \in Pools : pop(p)
    BY <1>1, <1>7 DEF pop, Queued, IInv, TypeOK
<1>8. ASSUME NEW p \in Pools, workerExit(p) PROVE WorkersInv'
    BY <1>8 DEF workerExit, mayExit, WorkersInv
<1>9. CASE \E b \in Node : waitTask(b)
    BY <1>1, <1>9 DEF waitTask
<1>10. CASE Cancel \/ parentDone
    BY <1>1, <1>10 DEF Cancel, parentDone, cancel
<1>11. CASE Wait \/ WaitClose \/ WaitReturn
    BY <1>11 DEF Wait, WaitClose, WaitReturn, cancel, WorkersInv, IInv, TypeOK
<1>12. CASE UNCHANGED vars
    BY <1>1, <1>12 DEF vars
<1> QED
    BY <1>4, <1>5, <1>6, <1>7, <1>8, <1>9, <1>10, <1>11, <1>12 DEF Next

\* A leaf is left on a queue without workers only in a session that is cancelled.
THEOREM StrandedWhenCancelled == Spec => []StrandedOnlyIfCancelled
<1>1. Init => WorkersInv
    BY Nodes DEF Init, WorkersInv
<1>2. Spec => []WorkersInv
    BY <1>1, NextWorkersInv, Invariance, PTL DEF Spec
<1>3. WorkersInv => StrandedOnlyIfCancelled
    BY DEF WorkersInv, StrandedOnlyIfCancelled, Stranded
<1> QED
    BY <1>2, <1>3, PTL
=============================================================================
