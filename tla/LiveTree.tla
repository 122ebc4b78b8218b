------------------------------- MODULE LiveTree -------------------------------
(***************************************************************************)
(* The live lists of x/taskgroup/tree.go: under every node a doubly linked *)
(* list of the children that are unfinished or have unfinished work below  *)
(* them, with its length liveN, which waitLive waits on, and its order,    *)
(* which List shows.                                                       *)
(*                                                                         *)
(* Every action is one critical section of Session.mu, but runClaim: run's *)
(* compare-and-swap is outside the lock, and run relinks the task in a     *)
(* second critical section.  Why a task fails is TaskGroup's subject; here *)
(* any pending task may.                                                   *)
(***************************************************************************)
EXTENDS Integers, FiniteSets

CONSTANT MaxID   \* bound: the largest task ID a run may allocate

ASSUME MaxIDAssumption == MaxID \in Nat /\ MaxID >= 2

Root == 1
Task == 2..MaxID
Node == 1..MaxID

VARIABLES
    next,                   \* len(slots)
    state,                  \* task.state
    phase,                  \* where run is: "no", "claimed" by the CAS, "moved"
    parent,                 \* task.parent
    anc,                    \* the chain of parents up to the root
    firstLive, lastLive,    \* of a node: the ends of its list
    prevLive, nextLive,     \* of a task: its neighbours in its parent's list
    liveN,                  \* of a node: the length of its list
    overtaken               \* history: a claim fell between the Pending check
                            \* and the Store of a failure

links == <<firstLive, lastLive, prevLive, nextLive, liveN>>
vars == <<next, state, phase, parent, anc, links, overtaken>>

Finished(t)  == state[t] \in {"Done", "Failed"}
Children(b)  == {t \in Task : parent[t] = b}
At(f, x)     == IF x = 0 THEN 0 ELSE f[x]

-----------------------------------------------------------------------------
(* The list operations *)

\* linkLive: the new task becomes the last row of b.
linkLive(b, id) ==
    /\ prevLive' = [prevLive EXCEPT ![id] = lastLive[b]]
    /\ nextLive' = IF lastLive[b] # 0 THEN [nextLive EXCEPT ![lastLive[b]] = id]
                   ELSE nextLive
    /\ firstLive' = IF lastLive[b] # 0 THEN firstLive ELSE [firstLive EXCEPT ![b] = id]
    /\ lastLive' = [lastLive EXCEPT ![b] = id]
    /\ liveN' = [liveN EXCEPT ![b] = @ + 1]

\* One direction of the links once the members of U have left: the neighbour
\* on the other side takes over where a member pointed.
Bypass(link, back, U) ==
    [x \in Task |-> IF x \in U THEN 0
                    ELSE IF \E u \in U : back[u] = x
                    THEN link[CHOOSE u \in U : back[u] = x]
                    ELSE link[x]]

\* One end of the lists once the members of U have left.
NewEnd(end, link, back, U) ==
    [b \in Node |-> IF \E u \in U : parent[u] = b /\ back[u] = 0
                    THEN link[CHOOSE u \in U : parent[u] = b]
                    ELSE end[b]]

Shorter(U) == [b \in Node |-> liveN[b] - Cardinality({u \in U : parent[u] = b})]

\* Mutant: the row before the one that leaves keeps its link.
unlinkLiveKeepsNext(U) ==
    [next  |-> [x \in Task |-> IF x \in U THEN 0 ELSE nextLive[x]],
     prev  |-> Bypass(prevLive, nextLive, U),
     first |-> NewEnd(firstLive, nextLive, prevLive, U),
     last  |-> NewEnd(lastLive, prevLive, nextLive, U),
     n     |-> Shorter(U)]

\* unlinkLive of every member of U, no two of which have one parent, so that
\* their pointers are in different lists.
unlinkLive(U) ==
    [next  |-> Bypass(nextLive, prevLive, U),
     prev  |-> Bypass(prevLive, nextLive, U),
     first |-> NewEnd(firstLive, nextLive, prevLive, U),
     last  |-> NewEnd(lastLive, prevLive, nextLive, U),
     n     |-> Shorter(U)]

Unlink(U) ==
    LET l == unlinkLive(U)
    IN  /\ nextLive' = l.next /\ prevLive' = l.prev
        /\ firstLive' = l.first /\ lastLive' = l.last
        /\ liveN' = l.n

\* Mutants: the task goes to the end of the rows; the length is not restored.
moveLiveFrontLast(id) ==
    LET l == unlinkLive({id})
        b == parent[id]
    IN  IF lastLive[b] = id THEN UNCHANGED links
        ELSE /\ prevLive' = [l.prev EXCEPT ![id] = l.last[b]]
             /\ nextLive' = [x \in Task |-> IF x = l.last[b] THEN id ELSE l.next[x]]
             /\ firstLive' = [l.first EXCEPT ![b] = IF @ = 0 THEN id ELSE @]
             /\ lastLive' = [l.last EXCEPT ![b] = id]
             /\ liveN' = [l.n EXCEPT ![b] = @ + 1]

moveLiveFrontCount(id) ==
    LET l == unlinkLive({id})
        b == parent[id]
    IN  IF firstLive[b] = id THEN UNCHANGED links
        ELSE /\ nextLive' = [l.next EXCEPT ![id] = l.first[b]]
             /\ prevLive' = [x \in Task |-> IF x = l.first[b] THEN id ELSE l.prev[x]]
             /\ lastLive' = [l.last EXCEPT ![b] = IF l.first[b] = 0 THEN id ELSE @]
             /\ firstLive' = [l.first EXCEPT ![b] = id]
             /\ liveN' = l.n

\* moveLiveFront: unlinked and linked again as the first row.
moveLiveFront(id) ==
    LET l == unlinkLive({id})
        b == parent[id]
    IN  IF firstLive[b] = id THEN UNCHANGED links
        ELSE /\ nextLive' = [l.next EXCEPT ![id] = l.first[b]]
             /\ prevLive' = [x \in Task |-> IF x = l.first[b] THEN id ELSE l.prev[x]]
             /\ lastLive' = [l.last EXCEPT ![b] = IF l.first[b] = 0 THEN id ELSE @]
             /\ firstLive' = [l.first EXCEPT ![b] = id]
             /\ liveN' = [l.n EXCEPT ![b] = @ + 1]

\* The finished ancestors of id that its leaving leaves idle: every node on the
\* way up is finished and has no other row.
pruneIdleAncestors(id) ==
    {a \in anc[id] \ {Root} :
        \A c \in anc[id] : c = a \/ a \in anc[c] => Finished(c) /\ liveN[c] = 1}

\* finishLocked: a node with rows of its own stays until they leave.
finishLocked(id, outcome) ==
    /\ state' = [state EXCEPT ![id] = outcome]
    /\ IF liveN[id] = 0 THEN Unlink({id} \cup pruneIdleAncestors(id)) ELSE UNCHANGED links

-----------------------------------------------------------------------------
(* The operations *)

\* goTask's alloc, called by the main goroutine or by a running body.  A call
\* that fails the new task at once is this step and fail.
alloc(b) ==
    /\ next <= MaxID
    /\ b # Root => phase[b] = "moved" /\ state[b] = "Running"
    /\ next' = next + 1
    /\ state' = [state EXCEPT ![next] = "Pending"]
    /\ parent' = [parent EXCEPT ![next] = b]
    /\ anc' = [anc EXCEPT ![next] = anc[b] \cup {b}]
    /\ linkLive(b, next)
    /\ UNCHANGED <<phase, overtaken>>

\* run: the compare-and-swap.
runClaim(t) ==
    /\ state[t] = "Pending"
    /\ state' = [state EXCEPT ![t] = "Running"]
    /\ phase' = [phase EXCEPT ![t] = "claimed"]
    /\ UNCHANGED <<next, parent, anc, links, overtaken>>

\* run: the second critical section.
runMove(t) ==
    /\ phase[t] = "claimed"
    /\ phase' = [phase EXCEPT ![t] = "moved"]
    /\ moveLiveFront(t)
    /\ UNCHANGED <<next, state, parent, anc, overtaken>>

\* run: the last critical section; a task that failed meanwhile stays as it is.
runFinish(t) ==
    /\ phase[t] = "moved" /\ state[t] = "Running"
    /\ \E outcome \in {"Done", "Failed"} : finishLocked(t, outcome)
    /\ UNCHANGED <<next, phase, parent, anc, overtaken>>

\* failSubtree, failOutsideIsolates or a failed dependency: a pending task
\* fails, and its goroutine may win the CAS before the Store of Failed.
fail(t) ==
    /\ state[t] = "Pending"
    /\ finishLocked(t, "Failed")
    /\ \/ UNCHANGED <<phase, overtaken>>
       \/ phase' = [phase EXCEPT ![t] = "claimed"] /\ overtaken' = TRUE
    /\ UNCHANGED <<next, parent, anc>>

Init ==
    /\ next = 2
    /\ state = [t \in Task |-> "Free"]
    /\ phase = [t \in Task |-> "no"]
    /\ parent = [t \in Task |-> 0]
    /\ anc = [n \in Node |-> {}]
    /\ firstLive = [n \in Node |-> 0]
    /\ lastLive = [n \in Node |-> 0]
    /\ prevLive = [t \in Task |-> 0]
    /\ nextLive = [t \in Task |-> 0]
    /\ liveN = [n \in Node |-> 0]
    /\ overtaken = FALSE

Next ==
    \/ \E b \in Node : alloc(b)
    \/ \E t \in Task : runClaim(t) \/ runMove(t) \/ runFinish(t) \/ fail(t)

Spec == Init /\ [][Next]_vars

-----------------------------------------------------------------------------
(* Properties *)

Unfinished == {t \in Task : state[t] \in {"Pending", "Running"}}

\* The task or something below it is unfinished.
Live(t) == \E u \in Unfinished : u = t \/ t \in anc[u]

\* walkLive: the k-th row under b, 0 past the end.
Row(b) ==
    LET row[k \in 0..MaxID] == IF k = 0 THEN firstLive[b] ELSE At(nextLive, row[k - 1])
    IN  row

Listed(b) == {Row(b)[k] : k \in 0..MaxID} \ {0}

\* liveN is the number of children with unfinished work at or below them, in
\* every interleaving of run with a failure: waitLive, Map and Isolate end
\* exactly when their subtree is finished.
LiveNIsExact == \A b \in Node : liveN[b] = Cardinality({c \in Children(b) : Live(c)})

\* As long as no failure crossed a claim, the rows under a node are its live
\* children, each once, and the list reads the same from both ends.
RowsAreLiveChildren ==
    ~overtaken =>
        \A b \in Node :
            /\ Listed(b) = {c \in Children(b) : Live(c)}
            /\ \A c \in Listed(b) :
                  /\ IF prevLive[c] = 0 THEN firstLive[b] = c ELSE nextLive[prevLive[c]] = c
                  /\ IF nextLive[c] = 0 THEN lastLive[b] = c ELSE prevLive[nextLive[c]] = c

\* The rows of tasks that run come before the rows that wait, so that List(n)
\* shows the running ones first.
RunningRowsFirst ==
    ~overtaken =>
        \A b \in Node : \A k \in 0..MaxID - 1 :
            LET x == Row(b)[k]
                y == Row(b)[k + 1]
            IN  x # 0 /\ y # 0 /\ phase[y] = "moved" => phase[x] = "moved"

\* walkLive ends, with or without such a crossing: no list has a cycle.
RowsEnd == \A b \in Node : Row(b)[MaxID] = 0
==============================================================================
