-------------------------- MODULE ReadyQueueProofs --------------------------
(***************************************************************************)
(* Proofs about ReadyQueue, for every finite set of workers and every set  *)
(* of items.                                                               *)
(***************************************************************************)
EXTENDS ReadyQueue, FiniteSetTheorems, TLAPS

\* A worker about to sleep holds the mutex over an empty queue, and a worker
\* holds an item exactly while it runs.  The queue is closed only after the
\* context is done.
SleepInv ==
    /\ \A w \in Workers : pc[w] = "add" => q = <<>>
    /\ \A w \in Workers : hold[w] # None <=> pc[w] = "run"
    /\ closed => ctxDone

IInv == TypeOK /\ SleepInv /\ NoSleeperWhileWorkWaits

-----------------------------------------------------------------------------
(* The inductive invariant *)

\* The initial state: nobody sleeps and nothing is in the queue.
LEMMA InitIInv == Init => IInv
<1> SUFFICES ASSUME Init PROVE IInv
  OBVIOUS
<1>1. TypeOK
  <2>1. asleep = {w \in Workers : pc[w] = "asleep"}
    BY DEF Init
  <2>2. q \in Seq(Items)
    BY DEF Init
  <2>3. /\ pc \in [Workers -> {"loop", "woken", "test", "add", "asleep", "run", "left"}]
        /\ hold \in [Workers -> Items \cup {None}]
    BY DEF Init
  <2>4. \A w \in Workers : mu = w <=> pc[w] \in {"test", "add"}
    BY NoneAssumption DEF Init
  <2> QED
    BY <2>1, <2>2, <2>3, <2>4 DEF Init, TypeOK
<1>2. SleepInv
  BY NoneAssumption DEF Init, SleepInv
<1>3. NoSleeperWhileWorkWaits
  BY DEF Init, NoSleeperWhileWorkWaits
<1> QED
  BY <1>1, <1>2, <1>3 DEF IInv

\* Steps keep the types and SleepInv.
LEMMA NextTypes == TypeOK /\ SleepInv /\ [Next]_vars => TypeOK' /\ SleepInv'
<1> SUFFICES ASSUME TypeOK, SleepInv, [Next]_vars PROVE TypeOK' /\ SleepInv'
  OBVIOUS
<1> USE NoneAssumption DEF TypeOK, SleepInv, Goto
<1>1. ASSUME NEW i \in Items, push(i) PROVE TypeOK' /\ SleepInv'
  BY <1>1 DEF push, Signal
<1>2. CASE cancel
  BY <1>2 DEF cancel
<1>3. CASE sessionWake
  BY <1>3 DEF sessionWake, wake, Broadcast
<1>4. CASE close
  BY <1>4 DEF close, Broadcast
<1>5. ASSUME NEW w \in Workers, popWake(w) PROVE TypeOK' /\ SleepInv'
  BY <1>5 DEF popWake, wake, Broadcast
<1>6. ASSUME NEW w \in Workers, popArm(w) PROVE TypeOK' /\ SleepInv'
  BY <1>6 DEF popArm
<1>7. ASSUME NEW w \in Workers, popLock(w) PROVE TypeOK' /\ SleepInv'
  BY <1>7 DEF popLock
<1>8. ASSUME NEW w \in Workers, popWait(w) PROVE TypeOK' /\ SleepInv'
  BY <1>8 DEF popWait
<1>9. ASSUME NEW w \in Workers, popSleep(w) PROVE TypeOK' /\ SleepInv'
  BY <1>9 DEF popSleep
<1>10. ASSUME NEW w \in Workers, popFalse(w) PROVE TypeOK' /\ SleepInv'
  BY <1>10 DEF popFalse
<1>11. ASSUME NEW w \in Workers, popTrue(w) PROVE TypeOK' /\ SleepInv'
  BY <1>11 DEF popTrue
<1>12. ASSUME NEW w \in Workers, runReturns(w) PROVE TypeOK' /\ SleepInv'
  BY <1>12 DEF runReturns
<1>13. CASE UNCHANGED vars
  BY <1>13 DEF vars
<1> QED
  BY <1>1, <1>2, <1>3, <1>4, <1>5, <1>6, <1>7, <1>8, <1>9, <1>10, <1>11, <1>12, <1>13
     DEF Next, Worker

\* The steps that keep the sleepers and everybody who is on the way, or that
\* leave nobody asleep, or the queue empty, keep the balance.
LEMMA Coming1 ==
    ASSUME IInv, TypeOK', SleepInv',
           asleep' = {} \/ q' = <<>> \/ (asleep' \subseteq asleep /\ Len(q') <= Len(q) /\ Coming \subseteq Coming')
    PROVE  NoSleeperWhileWorkWaits'
<1>1. CASE asleep' = {}
  BY <1>1 DEF NoSleeperWhileWorkWaits
<1>2. IsFiniteSet(Coming) /\ IsFiniteSet(Coming')
  BY WorkersAssumption, FS_Subset DEF Coming
<1>3. CASE q' = <<>>
  <2>1. Cardinality(Coming') \in Nat
    BY <1>2, FS_CardinalityType
  <2> QED
    BY <1>3, <2>1 DEF NoSleeperWhileWorkWaits
<1>4. CASE asleep' \subseteq asleep /\ Len(q') <= Len(q) /\ Coming \subseteq Coming'
  <2>1. /\ Cardinality(Coming) \in Nat /\ Cardinality(Coming') \in Nat
        /\ Cardinality(Coming) <= Cardinality(Coming')
    BY <1>2, <1>4, FS_CardinalityType, FS_Subset
  <2>2. Len(q) \in Nat /\ Len(q') \in Nat
    BY DEF IInv, TypeOK
  <2> QED
    BY <1>4, <2>1, <2>2 DEF IInv, NoSleeperWhileWorkWaits
<1> QED
  BY <1>1, <1>3, <1>4

\* push adds an item and a worker on the way; popTrue takes one of each away.
LEMMA PushBalance ==
    ASSUME IInv, NEW i \in Items, push(i), TypeOK', SleepInv'
    PROVE  NoSleeperWhileWorkWaits'
<1>1. CASE closed \/ asleep = {}
  BY <1>1, Coming1 DEF push, Signal, Coming
<1>2. CASE ~closed /\ asleep # {}
  <2>1. PICK w \in asleep : asleep' = asleep \ {w} /\ Goto(w, "woken")
    BY <1>2 DEF push, Signal
  <2>2. w \in Workers /\ pc[w] = "asleep" /\ pc' = [pc EXCEPT ![w] = "woken"]
    BY <2>1 DEF IInv, TypeOK, Goto
  <2>3. Coming' = Coming \cup {w} /\ w \notin Coming
    BY <2>2 DEF Coming, IInv, TypeOK
  <2>4. IsFiniteSet(Coming)
    BY WorkersAssumption, FS_Subset DEF Coming
  <2>5. Cardinality(Coming') = Cardinality(Coming) + 1 /\ Cardinality(Coming) \in Nat
    BY <2>3, <2>4, FS_AddElement, FS_CardinalityType
  <2>6. q' = Append(q, i) /\ q \in Seq(Items)
    BY <1>2 DEF push, IInv, TypeOK
  <2>7. Len(q') = Len(q) + 1 /\ Len(q) \in Nat
    BY <2>6
  <2> QED
    BY <1>2, <2>5, <2>7 DEF IInv, NoSleeperWhileWorkWaits
<1> QED
  BY <1>1, <1>2

LEMMA PopBalance ==
    ASSUME IInv, NEW w \in Workers, popTrue(w), TypeOK', SleepInv'
    PROVE  NoSleeperWhileWorkWaits'
<1>1. pc[w] = "test" /\ pc' = [pc EXCEPT ![w] = "run"] /\ q # <<>> /\ q' = Tail(q)
      /\ asleep' = asleep /\ q \in Seq(Items)
  BY DEF popTrue, Goto, IInv, TypeOK
<1>2. Coming' = Coming \ {w} /\ w \in Coming
  BY <1>1 DEF Coming, IInv, TypeOK
<1>3. IsFiniteSet(Coming)
  BY WorkersAssumption, FS_Subset DEF Coming
<1>4. Cardinality(Coming') = Cardinality(Coming) - 1 /\ Cardinality(Coming) \in Nat
  BY <1>2, <1>3, FS_RemoveElement, FS_CardinalityType
<1>5. Len(q') = Len(q) - 1 /\ Len(q) \in Nat
  BY <1>1
<1> QED
  BY <1>1, <1>4, <1>5 DEF IInv, NoSleeperWhileWorkWaits

LEMMA NextIInv == IInv /\ [Next]_vars => IInv'
<1> SUFFICES ASSUME IInv, [Next]_vars PROVE IInv'
  OBVIOUS
<1>0. TypeOK' /\ SleepInv'
  BY NextTypes DEF IInv
<1> SUFFICES NoSleeperWhileWorkWaits'
  BY <1>0 DEF IInv
<1>1. ASSUME NEW i \in Items, push(i) PROVE NoSleeperWhileWorkWaits'
  BY <1>0, <1>1, PushBalance
<1>2. CASE cancel
  BY <1>0, <1>2, Coming1 DEF cancel, Coming, IInv, TypeOK
<1>3. CASE sessionWake
  BY <1>0, <1>3, Coming1 DEF sessionWake, wake, Broadcast
<1>4. CASE close
  BY <1>0, <1>4, Coming1 DEF close, Broadcast
<1>5. ASSUME NEW w \in Workers, popWake(w) PROVE NoSleeperWhileWorkWaits'
  BY <1>0, <1>5, Coming1 DEF popWake, wake, Broadcast
<1>6. ASSUME NEW w \in Workers, popArm(w) PROVE NoSleeperWhileWorkWaits'
  BY <1>0, <1>6, Coming1 DEF popArm, Coming, Goto, IInv, TypeOK
<1>7. ASSUME NEW w \in Workers, popLock(w) PROVE NoSleeperWhileWorkWaits'
  BY <1>0, <1>7, Coming1 DEF popLock, Coming, Goto, IInv, TypeOK
<1>8. ASSUME NEW w \in Workers, popWait(w) PROVE NoSleeperWhileWorkWaits'
  BY <1>0, <1>8, Coming1 DEF popWait
<1>9. ASSUME NEW w \in Workers, popSleep(w) PROVE NoSleeperWhileWorkWaits'
  BY <1>0, <1>9, Coming1 DEF popSleep, IInv, SleepInv
<1>10. ASSUME NEW w \in Workers, popFalse(w) PROVE NoSleeperWhileWorkWaits'
  BY <1>0, <1>10, Coming1 DEF popFalse
<1>11. ASSUME NEW w \in Workers, popTrue(w) PROVE NoSleeperWhileWorkWaits'
  BY <1>0, <1>11, PopBalance
<1>12. ASSUME NEW w \in Workers, runReturns(w) PROVE NoSleeperWhileWorkWaits'
  BY <1>0, <1>12, Coming1 DEF runReturns, Coming, Goto, IInv, TypeOK
<1>13. CASE UNCHANGED vars
  BY <1>0, <1>13, Coming1 DEF vars, Coming, IInv, TypeOK
<1> QED
  BY <1>1, <1>2, <1>3, <1>4, <1>5, <1>6, <1>7, <1>8, <1>9, <1>10, <1>11, <1>12, <1>13
     DEF Next, Worker

-----------------------------------------------------------------------------
(* The theorems *)

\* The inductive invariant holds in every reachable state of readyQ.
THEOREM Invariance == Spec => []IInv
BY InitIInv, NextIInv, PTL DEF Spec

\* The variables keep their types, and the mutex is held by the worker that is
\* inside pop's critical section, at most one.
THEOREM MutexHeldInside == Spec => []TypeOK
<1>1. IInv => TypeOK
  BY DEF IInv
<1> QED
  BY <1>1, Invariance, PTL

\* No push is lost on the workers: with any number of them, a worker sleeps
\* only while there are enough others on the way to the items in the queue.
THEOREM NoLostPush == Spec => []NoSleeperWhileWorkWaits
<1>1. IInv => NoSleeperWhileWorkWaits
  BY DEF IInv
<1> QED
  BY <1>1, Invariance, PTL

-----------------------------------------------------------------------------
(* The refinement *)

USE DEF Pool!poolVars, Pool!Next

\* A step of readyQ is a step of the pool it promises, or none.
LEMMA StepRefines == IInv /\ [Next]_vars => [Pool!Next]_(Pool!poolVars)
<1> SUFFICES ASSUME IInv, [Next]_vars PROVE [Pool!Next]_(Pool!poolVars)
  OBVIOUS
<1>0. /\ pc \in [Workers -> {"loop", "woken", "test", "add", "asleep", "run", "left"}]
      /\ asleep = {w \in Workers : pc[w] = "asleep"}
      /\ q \in Seq(Items) /\ hold \in [Workers -> Items \cup {None}]
      /\ \A w \in Workers : hold[w] # None <=> pc[w] = "run"
      /\ closed => ctxDone
  BY DEF IInv, TypeOK, SleepInv
<1> DEFINE Left == {w \in Workers : pc[w] = "left"}
<1> USE DEF Goto
<1>1. ASSUME NEW i \in Items, push(i) PROVE Pool!Push(i) \/ UNCHANGED Pool!poolVars
  <2>1. Left' = Left
    BY <1>0, <1>1 DEF push, Signal
  <2> QED
    BY <1>1, <2>1 DEF push, Pool!Push
<1>2. CASE cancel
  BY <1>2 DEF cancel, Pool!End
<1>3. ASSUME sessionWake \/ close \/ \E w \in Workers : popWake(w)
      PROVE UNCHANGED Pool!poolVars
  <2>1. Left' = Left
    BY <1>0, <1>3 DEF sessionWake, close, popWake, wake, Broadcast
  <2> QED
    BY <1>3, <2>1 DEF sessionWake, close, popWake
<1>4. ASSUME NEW w \in Workers, popArm(w) \/ popLock(w) \/ popWait(w) \/ popSleep(w)
      PROVE UNCHANGED Pool!poolVars
  <2>1. Left' = Left
    BY <1>0, <1>4 DEF popArm, popLock, popWait, popSleep
  <2> QED
    BY <1>4, <2>1 DEF popArm, popLock, popWait, popSleep
<1>5. ASSUME NEW w \in Workers, popFalse(w) PROVE Pool!Leave(w)
  <2>1. Left' = Left \cup {w}
    BY <1>0, <1>5 DEF popFalse
  <2> QED
    BY <1>0, <1>5, <2>1 DEF popFalse, Pool!Leave
<1>6. ASSUME NEW w \in Workers, popTrue(w) PROVE Pool!Take(w)
  <2>1. Left' = Left /\ w \notin Left
    BY <1>0, <1>6 DEF popTrue
  <2> QED
    BY <1>0, <1>6, <2>1 DEF popTrue, Pool!Take
<1>7. ASSUME NEW w \in Workers, runReturns(w) PROVE Pool!Return(w)
  <2>1. Left' = Left
    BY <1>0, <1>7 DEF runReturns
  <2> QED
    BY <1>0, <1>7, <2>1 DEF runReturns, Pool!Return
<1>8. CASE UNCHANGED vars
  BY <1>8 DEF vars
<1> QED
  BY <1>1, <1>2, <1>3, <1>4, <1>5, <1>6, <1>7, <1>8 DEF Next, Worker

\* readyQ and its workers keep the promise of WorkerPool.
THEOREM QueueImplementsPool == Spec => ImplementsPool
<1>1. Init => Pool!Init
  BY DEF Init, Pool!Init
<1> QED
  BY <1>1, Invariance, StepRefines, PTL DEF Spec, ImplementsPool, Pool!Spec
=============================================================================
