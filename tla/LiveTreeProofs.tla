--------------------------- MODULE LiveTreeProofs ---------------------------
(***************************************************************************)
(* Theorems about LiveTree, for every number of tasks: the counts are      *)
(* exact, and the lists are the live children as long as no failure has    *)
(* crossed a claim, and end in any case.  The last section is about        *)
(* waitUntil, in which waitLive waits for such a count.                    *)
(***************************************************************************)
EXTENDS LiveTree, WaitUntil, FiniteSetTheorems, WellFoundedInduction, TLAPS

-----------------------------------------------------------------------------
(* Induction *)

(***************************************************************************)
(* A set of naturals that is not empty has a least member.                 *)
(***************************************************************************)
LEMMA LeastNat ==
  ASSUME NEW T, T \subseteq Nat, T # {}
  PROVE  \E m \in T : \A k \in T : m <= k
<1> DEFINE R == {ss \in Nat \X Nat : ss[1] < ss[2]}
<1>1. IsWellFoundedOn(R, Nat) BY NatLessThanWellFounded DEF OpToRel
<1>2. PICK x \in T : \A y \in T : ~(<<y, x>> \in R) BY <1>1, WFMin, Zenon
<1>3. ASSUME NEW y \in T PROVE x <= y
  <2>1. x \in Nat /\ y \in Nat OBVIOUS
  <2>2. ~(y < x) BY <1>2, <2>1
  <2>3. QED BY <2>1, <2>2
<1>4. QED BY <1>3

(***************************************************************************)
(* Induction up to n, for membership in a set.                             *)
(***************************************************************************)
LEMMA UpTo ==
  ASSUME NEW n \in Nat, NEW S, 0 \in S, \A k \in 0..(n - 1) : k \in S => k + 1 \in S
  PROVE  \A k \in 0..n : k \in S
<1> DEFINE T == {k \in 0..n : k \notin S}
<1> SUFFICES ASSUME T # {} PROVE FALSE OBVIOUS
<1>2. PICK m \in T : \A k \in T : m <= k
  <2>1. T \subseteq Nat OBVIOUS
  <2> HIDE DEF T
  <2>2. QED BY <2>1, LeastNat
<1>3. m # 0 /\ m \in 0..n /\ m \notin S OBVIOUS
<1>4. m - 1 \in 0..(n - 1) /\ m - 1 \notin T BY <1>2, <1>3
<1>5. m - 1 \in S BY <1>4
<1>6. (m - 1) + 1 \in S BY <1>4, <1>5
<1>7. QED BY <1>3, <1>6

(***************************************************************************)
(* A set of nodes that is not empty has a youngest one.                    *)
(***************************************************************************)
LEMMA Youngest ==
  ASSUME NEW T, T \subseteq Node, T # {}
  PROVE  \E m \in T : \A k \in T : k <= m
<1> DEFINE D == {MaxID - k : k \in T}
<1>1. D \subseteq Nat /\ D # {} BY MaxIDAssumption DEF Node
<1>2. PICK d \in D : \A e \in D : d <= e
  <2> HIDE DEF D
  <2>1. QED BY <1>1, LeastNat
<1>3. PICK m \in T : d = MaxID - m OBVIOUS
<1>4. ASSUME NEW k \in T PROVE k <= m
  <2>1. MaxID - k \in D OBVIOUS
  <2>2. d <= MaxID - k BY <1>2, <2>1
  <2>3. QED BY <1>3, <2>2, MaxIDAssumption DEF Node
<1>5. QED BY <1>4

-----------------------------------------------------------------------------
(* The tree *)

TreeOK ==
  /\ next \in 2..(MaxID + 1)
  /\ state \in [Task -> {"Free", "Pending", "Running", "Done", "Failed"}]
  /\ phase \in [Task -> {"no", "claimed", "moved"}]
  /\ parent \in [Task -> 0..MaxID] /\ anc \in [Node -> SUBSET Node]
  /\ anc[Root] = {}
  /\ \A t \in Task :
       IF t < next THEN /\ state[t] # "Free" /\ parent[t] \in Node /\ parent[t] < t
                        /\ anc[t] = anc[parent[t]] \cup {parent[t]}
       ELSE state[t] = "Free" /\ parent[t] = 0 /\ anc[t] = {} /\ phase[t] = "no"
  /\ \A t \in Task : state[t] = "Pending" => phase[t] = "no"

(* The ancestors of a node are a path: they are older than the node, of    *)
(* two of them one is above the other, and below each of them is a child   *)
(* on the way to the node.                                                 *)
Paths ==
  /\ \A t \in Node : \A a \in anc[t] : a < t /\ anc[a] \subseteq anc[t]
  /\ \A t \in Node : \A a, c \in anc[t] : a = c \/ a \in anc[c] \/ c \in anc[a]
  /\ \A t \in Node : \A a \in anc[t] : \E e \in Task : parent[e] = a /\ (e = t \/ e \in anc[t])

\* Nothing is allocated at the start.
LEMMA TreeInit == Init => TreeOK /\ Paths
BY MaxIDAssumption DEF Init, TreeOK, Paths, Task, Node, Root

(***************************************************************************)
(* A new task extends the path to its parent.                              *)
(***************************************************************************)
LEMMA TreeAlloc ==
  ASSUME TreeOK, Paths, NEW b \in Node, alloc(b)
  PROVE  TreeOK' /\ Paths' /\ next \in Task /\ b < next
<1>1. next \in Task /\ next' = next + 1 /\ next \in Node BY DEF alloc, TreeOK, Task, Node
<1>2. b < next
  <2>1. CASE b = Root BY <1>1, <2>1 DEF Task, Root
  <2>2. CASE b # Root
    <3>1. b \in Task /\ state[b] = "Running" BY <2>2 DEF alloc, Task, Node, Root
    <3>2. QED BY <1>1, <3>1 DEF TreeOK, Task
  <2>3. QED BY <2>1, <2>2
<1>3. /\ state' = [state EXCEPT ![next] = "Pending"] /\ parent' = [parent EXCEPT ![next] = b]
      /\ anc' = [anc EXCEPT ![next] = anc[b] \cup {b}] /\ phase' = phase
  BY DEF alloc
<1>4. \A t \in Node : anc'[t] = IF t = next THEN anc[b] \cup {b} ELSE anc[t]
  BY <1>1, <1>3 DEF TreeOK
<1>5. \A t \in Task : /\ parent'[t] = IF t = next THEN b ELSE parent[t]
                      /\ state'[t] = IF t = next THEN "Pending" ELSE state[t]
  BY <1>1, <1>3 DEF TreeOK
<1>6. anc[b] \in SUBSET Node /\ \A t \in Node : anc[t] \in SUBSET Node BY DEF TreeOK
<1>7. TreeOK'
  <2>1. next' \in 2..(MaxID + 1) BY <1>1, MaxIDAssumption DEF Task
  <2>2. state' \in [Task -> {"Free", "Pending", "Running", "Done", "Failed"}] BY <1>3 DEF TreeOK
  <2>3. phase' \in [Task -> {"no", "claimed", "moved"}] BY <1>3 DEF TreeOK
  <2>4. parent' \in [Task -> 0..MaxID]
    <3>1. b \in 0..MaxID BY MaxIDAssumption DEF Node
    <3>2. QED BY <1>3, <3>1 DEF TreeOK
  <2>5. anc' \in [Node -> SUBSET Node] BY <1>3, <1>6 DEF TreeOK
  <2>6. anc'[Root] = {} BY <1>1, <1>4, MaxIDAssumption DEF TreeOK, Root, Task, Node
  <2>7. ASSUME NEW t \in Task
        PROVE  /\ IF t < next' THEN /\ state'[t] # "Free" /\ parent'[t] \in Node /\ parent'[t] < t
                                    /\ anc'[t] = anc'[parent'[t]] \cup {parent'[t]}
                  ELSE state'[t] = "Free" /\ parent'[t] = 0 /\ anc'[t] = {} /\ phase'[t] = "no"
               /\ state'[t] = "Pending" => phase'[t] = "no"
    <3>0. t \in Node /\ t \in Int /\ next \in Int /\ b # next BY <1>1, <1>2 DEF Task, Node
    <3>1. CASE t = next
      <4>1. phase[t] = "no" BY <3>1, <1>1 DEF TreeOK, Task
      <4>2. parent'[t] = b /\ state'[t] = "Pending" /\ anc'[t] = anc[b] \cup {b} /\ anc'[b] = anc[b]
        BY <1>2, <1>4, <1>5, <3>0, <3>1
      <4>3. t < next' BY <1>1, <3>0, <3>1
      <4>4. parent'[t] < t /\ parent'[t] \in Node BY <1>2, <3>1, <4>2
      <4>5. anc'[t] = anc'[parent'[t]] \cup {parent'[t]} BY <4>2
      <4>6. QED BY <1>3, <4>1, <4>2, <4>3, <4>4, <4>5
    <3>2. CASE t < next
      <4>1. /\ state[t] # "Free" /\ parent[t] \in Node /\ parent[t] < t
            /\ anc[t] = anc[parent[t]] \cup {parent[t]}
        BY <3>2 DEF TreeOK
      <4>2. parent[t] \in Int /\ parent[t] # next /\ t # next BY <3>0, <3>2, <4>1 DEF Node
      <4>3. parent'[t] = parent[t] /\ anc'[t] = anc[t] /\ anc'[parent[t]] = anc[parent[t]]
        BY <1>4, <1>5, <3>0, <4>1, <4>2
      <4>4. state'[t] = state[t] /\ t < next' BY <1>1, <1>5, <3>0, <3>2, <4>2
      <4>5. QED BY <1>3, <4>1, <4>3, <4>4 DEF TreeOK
    <3>3. CASE t > next
      <4>1. state[t] = "Free" /\ parent[t] = 0 /\ anc[t] = {} /\ phase[t] = "no" BY <3>0, <3>3 DEF TreeOK
      <4>2. ~(t < next') /\ t # next BY <1>1, <3>0, <3>3
      <4>3. QED BY <1>3, <1>4, <1>5, <3>0, <4>1, <4>2
    <3>4. QED BY <3>0, <3>1, <3>2, <3>3
  <2>8. QED BY <2>1, <2>2, <2>3, <2>4, <2>5, <2>6, <2>7 DEF TreeOK
<1>8. Paths'
  <2>0. parent[next] = 0 /\ anc[next] = {} /\ next \in Int BY <1>1 DEF TreeOK, Task
  <2>1. ASSUME NEW t \in Node, NEW a \in anc'[t]
        PROVE  a \in Node /\ a # next /\ anc'[a] = anc[a]
    <3>1. CASE t # next
      <4>1. a \in anc[t] /\ a \in Node BY <1>4, <1>6, <2>1, <3>1
      <4>2. a # next
        <5>1. SUFFICES ASSUME a = next PROVE FALSE OBVIOUS
        <5>2. next < t BY <4>1, <5>1 DEF Paths
        <5>3. t \in Task /\ ~(t < next) BY <2>0, <5>2, <1>1 DEF Node, Task
        <5>4. anc[t] = {} BY <5>3 DEF TreeOK
        <5>5. QED BY <4>1, <5>4
      <4>3. QED BY <1>4, <4>1, <4>2
    <3>2. CASE t = next
      <4>1. a \in anc[b] \cup {b} /\ a \in Node BY <1>4, <1>6, <2>1, <3>2
      <4>2. a < next
        <5>1. CASE a = b BY <1>2, <5>1
        <5>2. CASE a \in anc[b]
          <6>1. a < b BY <5>2 DEF Paths
          <6>2. QED BY <1>1, <1>2, <4>1, <6>1 DEF Node
        <5>3. QED BY <4>1, <5>1, <5>2
      <4>3. QED BY <1>1, <1>4, <4>1, <4>2 DEF Node
    <3>3. QED BY <3>1, <3>2
  <2>2. ASSUME NEW t \in Node, t # next
        PROVE  /\ \A a \in anc'[t] : a < t /\ anc'[a] \subseteq anc'[t]
               /\ \A a, c \in anc'[t] : a = c \/ a \in anc'[c] \/ c \in anc'[a]
               /\ \A a \in anc'[t] : \E e \in Task : parent'[e] = a /\ (e = t \/ e \in anc'[t])
    <3>1. anc'[t] = anc[t] /\ \A a \in anc'[t] : a \in Node /\ anc'[a] = anc[a] BY <1>4, <2>1, <2>2
    <3>2. \A a \in anc[t] : a < t /\ anc[a] \subseteq anc[t] BY DEF Paths
    <3>3. \A a, c \in anc[t] : a = c \/ a \in anc[c] \/ c \in anc[a] BY DEF Paths
    <3>4. ASSUME NEW a \in anc[t] PROVE \E e \in Task : parent'[e] = a /\ (e = t \/ e \in anc'[t])
      <4>1. PICK e \in Task : parent[e] = a /\ (e = t \/ e \in anc[t]) BY DEF Paths
      <4>2. a # 0 BY <3>1 DEF Node
      <4>3. parent'[e] = a BY <1>5, <2>0, <4>1, <4>2
      <4>4. QED BY <3>1, <4>1, <4>3
    <3>5. QED BY <3>1, <3>2, <3>3, <3>4
  <2>3. /\ \A a \in anc'[next] : a < next /\ anc'[a] \subseteq anc'[next]
        /\ \A a, c \in anc'[next] : a = c \/ a \in anc'[c] \/ c \in anc'[a]
        /\ \A a \in anc'[next] : \E e \in Task : parent'[e] = a /\ (e = next \/ e \in anc'[next])
    <3>1. anc'[next] = anc[b] \cup {b} /\ \A a \in anc'[next] : a \in Node /\ a # next /\ anc'[a] = anc[a]
      BY <1>1, <1>4, <2>1
    <3>2. \A a \in anc[b] : a < b /\ anc[a] \subseteq anc[b] BY DEF Paths
    <3>3. \A a, c \in anc[b] : a = c \/ a \in anc[c] \/ c \in anc[a] BY DEF Paths
    <3>4. ASSUME NEW a \in anc'[next] PROVE a < next /\ anc'[a] \subseteq anc'[next]
      <4>1. a \in Int /\ b \in Int BY <3>1 DEF Node
      <4>2. CASE a = b BY <1>2, <3>1, <4>2
      <4>3. CASE a \in anc[b] BY <1>2, <2>0, <3>1, <3>2, <4>1, <4>3
      <4>4. QED BY <3>1, <4>2, <4>3
    <3>5. ASSUME NEW a \in anc'[next], NEW c \in anc'[next] PROVE a = c \/ a \in anc'[c] \/ c \in anc'[a]
      BY <3>1, <3>3
    <3>6. ASSUME NEW a \in anc'[next]
          PROVE  \E e \in Task : parent'[e] = a /\ (e = next \/ e \in anc'[next])
      <4>1. CASE a = b BY <1>1, <1>5, <4>1
      <4>2. CASE a \in anc[b]
        <5>1. PICK e \in Task : parent[e] = a /\ (e = b \/ e \in anc[b]) BY <4>2 DEF Paths
        <5>2. a # 0 BY <3>1 DEF Node
        <5>3. parent'[e] = a BY <1>5, <2>0, <5>1, <5>2
        <5>4. QED BY <3>1, <5>1, <5>3
      <4>3. QED BY <3>1, <4>1, <4>2
    <3>7. QED BY <3>4, <3>5, <3>6
  <2>4. QED BY <2>2, <2>3 DEF Paths
<1>9. QED BY <1>1, <1>2, <1>7, <1>8

(***************************************************************************)
(* The other steps leave the tree alone.                                   *)
(***************************************************************************)
LEMMA TreeNext == TreeOK /\ Paths /\ [Next]_vars => TreeOK' /\ Paths'
<1> SUFFICES ASSUME TreeOK, Paths, [Next]_vars PROVE TreeOK' /\ Paths' OBVIOUS
<1>1. ASSUME UNCHANGED <<next, parent, anc>>,
             state' \in [Task -> {"Free", "Pending", "Running", "Done", "Failed"}],
             phase' \in [Task -> {"no", "claimed", "moved"}],
             \A t \in Task : (state'[t] = "Free" <=> state[t] = "Free")
                             /\ (state[t] = "Free" \/ state'[t] = "Pending" => phase'[t] = "no")
      PROVE  TreeOK' /\ Paths'
  <2>1. Paths' BY <1>1 DEF Paths
  <2>2. QED BY <1>1, <2>1 DEF TreeOK
<1>2. CASE UNCHANGED vars
  <2>1. UNCHANGED <<next, parent, anc, state, phase>> BY <1>2 DEF vars
  <2>2. \A t \in Task : state[t] = "Free" => phase[t] = "no" BY DEF TreeOK, Task
  <2>3. QED BY <1>1, <2>1, <2>2 DEF TreeOK
<1>3. ASSUME NEW b \in Node, alloc(b) PROVE TreeOK' /\ Paths' BY <1>3, TreeAlloc
<1>4. ASSUME NEW t \in Task, runClaim(t) \/ runMove(t) \/ runFinish(t) \/ fail(t) PROVE TreeOK' /\ Paths'
  <2>0. \A u \in Task : state[u] = "Free" => phase[u] = "no" BY DEF TreeOK, Task
  <2>1. CASE runClaim(t) BY <1>1, <2>0, <2>1 DEF runClaim, TreeOK
  <2>2. CASE runMove(t) BY <1>1, <2>0, <2>2 DEF runMove, TreeOK
  <2>3. CASE runFinish(t) BY <1>1, <2>0, <2>3 DEF runFinish, finishLocked, TreeOK
  <2>4. CASE fail(t) BY <1>1, <2>0, <2>4 DEF fail, finishLocked, TreeOK
  <2>5. QED BY <1>4, <2>1, <2>2, <2>3, <2>4
<1>5. QED BY <1>2, <1>3, <1>4 DEF Next

(***************************************************************************)
(* Facts about one task: where its parent and its ancestors are.           *)
(***************************************************************************)
LEMMA ParentIs ==
  ASSUME TreeOK, Paths, NEW t \in Task, parent[t] # 0
  PROVE  /\ parent[t] \in Node /\ parent[t] < t /\ t \in Node
         /\ anc[t] = anc[parent[t]] \cup {parent[t]} /\ state[t] # "Free"
<1>1. t < next BY DEF TreeOK
<1>2. QED BY <1>1 DEF TreeOK, Task, Node

(***************************************************************************)
(* A node has one child on the way to a node below.                        *)
(***************************************************************************)
LEMMA OneChild ==
  ASSUME TreeOK, Paths, NEW u \in Node, NEW e \in Task, NEW f \in Task,
         parent[e] = parent[f], parent[e] # 0, e = u \/ e \in anc[u], f = u \/ f \in anc[u]
  PROVE  e = f
<1>1. ASSUME NEW x \in Task, NEW y \in Task, parent[x] = parent[y], parent[x] # 0, x \in anc[y]
      PROVE  FALSE
  <2>1. anc[y] = anc[parent[y]] \cup {parent[y]} /\ parent[y] \in Node BY <1>1, ParentIs
  <2>2. x <= parent[y] BY <1>1, <2>1 DEF Paths, Task, Node
  <2>3. parent[x] < x BY <1>1, ParentIs
  <2>4. QED BY <1>1, <2>1, <2>2, <2>3 DEF Task, Node
<1>2. e = f \/ e \in anc[f] \/ f \in anc[e] BY DEF Paths
<1>3. QED BY <1>1, <1>2

-----------------------------------------------------------------------------
(* The counts *)

LiveChildren(b) == {c \in Children(b) : Live(c)}

\* The live children of a node can be counted.
LEMMA LiveChildrenFinite ==
  ASSUME NEW b
  PROVE  IsFiniteSet(LiveChildren(b)) /\ LiveChildren(b) \subseteq Task
<1>1. IsFiniteSet(Task) BY MaxIDAssumption, FS_Interval DEF Task
<1>2. LiveChildren(b) \subseteq Task BY DEF LiveChildren, Children
<1>3. QED BY <1>1, <1>2, FS_Subset

(***************************************************************************)
(* A set of one member, and of several.                                    *)
(***************************************************************************)
LEMMA CountOne ==
  ASSUME NEW S, IsFiniteSet(S)
  PROVE  /\ Cardinality(S) \in Nat
         /\ Cardinality(S) = 0 <=> S = {}
         /\ \A x, y \in S : Cardinality(S) = 1 => x = y
         /\ \A x \in S : (\A y \in S : y = x) => Cardinality(S) = 1
<1>1. Cardinality(S) \in Nat BY FS_CardinalityType
<1>2. Cardinality(S) = 0 <=> S = {} BY FS_EmptySet
<1>3. ASSUME NEW x \in S, NEW y \in S, Cardinality(S) = 1 PROVE x = y
  <2>1. PICK z : S = {z} BY <1>3, FS_Singleton
  <2>2. QED BY <2>1
<1>4. ASSUME NEW x \in S, \A y \in S : y = x PROVE Cardinality(S) = 1
  <2>1. S = {x} BY <1>4
  <2>2. QED BY <2>1, FS_Singleton
<1>5. QED BY <1>1, <1>2, <1>3, <1>4

(* The task id finishes; what its leaving takes out of the lists. *)
Ends(id) ==
  /\ id \in Unfinished /\ UNCHANGED <<parent, anc>>
  /\ \E o \in {"Done", "Failed"} : state' = [state EXCEPT ![id] = o]

Leaving(id) == {id} \cup pruneIdleAncestors(id)

\* A task that ends takes itself out of the unfinished ones.
LEMMA EndsLive ==
  ASSUME TreeOK, Paths, NEW id, Ends(id)
  PROVE  /\ id \in Task /\ id \in Node /\ parent[id] \in Node /\ parent[id] # 0
         /\ Unfinished' = Unfinished \ {id}
         /\ \A t : Live(t)' <=> \E u \in Unfinished \ {id} : u = t \/ t \in anc[u]
<1>1. id \in Task /\ state[id] \in {"Pending", "Running"} BY DEF Ends, Unfinished
<1>2. parent[id] # 0
  <2>1. id < next BY <1>1 DEF TreeOK, Task
  <2>2. QED BY <1>1, <2>1, MaxIDAssumption DEF TreeOK, Node
<1>3. id \in Node /\ parent[id] \in Node BY <1>1, <1>2, ParentIs
<1>4. Unfinished' = Unfinished \ {id} BY <1>1 DEF Ends, Unfinished, TreeOK
<1>5. ASSUME NEW t PROVE Live(t)' <=> \E u \in Unfinished \ {id} : u = t \/ t \in anc[u]
  BY <1>4 DEF Live, Ends
<1>6. QED BY <1>1, <1>2, <1>3, <1>4, <1>5

(***************************************************************************)
(* What is unfinished below a node makes the child on the way to it live.  *)
(***************************************************************************)
LEMMA LiveBelow ==
  ASSUME TreeOK, Paths, NEW a \in Node, NEW u \in Unfinished, a \in anc[u]
  PROVE  \E e \in LiveChildren(a) : e = u \/ e \in anc[u]
<1>1. u \in Node BY DEF Unfinished, Task, Node
<1>2. PICK e \in Task : parent[e] = a /\ (e = u \/ e \in anc[u]) BY <1>1 DEF Paths
<1>3. e \in LiveChildren(a) BY <1>2 DEF LiveChildren, Children, Live
<1>4. QED BY <1>2, <1>3

(***************************************************************************)
(* A task that has rows of its own keeps everything live that was.         *)
(***************************************************************************)
LEMMA EndsAbove ==
  ASSUME TreeOK, Paths, LiveNIsExact, NEW id, Ends(id), liveN[id] # 0
  PROVE  \A t : Live(t)' <=> Live(t)
<1>1. /\ id \in Task /\ id \in Node
      /\ \A t : Live(t)' <=> \E u \in Unfinished \ {id} : u = t \/ t \in anc[u]
  BY EndsLive
<1>2. PICK c \in LiveChildren(id) : TRUE
  <2>1. liveN[id] = Cardinality(LiveChildren(id)) BY <1>1 DEF LiveNIsExact, LiveChildren
  <2>2. LiveChildren(id) # {} BY <2>1, LiveChildrenFinite, CountOne
  <2>3. QED BY <2>2
<1>3. PICK v \in Unfinished : v = c \/ c \in anc[v] BY DEF LiveChildren, Live
<1>4. c \in Task /\ parent[c] = id /\ id # 0 /\ v \in Node
  BY <1>1 DEF LiveChildren, Children, Node, Unfinished, Task
<1>5. id < c /\ id \in anc[c] /\ c \in Node BY <1>4, ParentIs
<1>6. id \in anc[v] /\ id < v
  <2>1. id \in anc[v] BY <1>3, <1>4, <1>5 DEF Paths
  <2>2. QED BY <1>4, <2>1 DEF Paths
<1>7. v # id BY <1>1, <1>6 DEF Node
<1>8. ASSUME NEW t, Live(t) PROVE Live(t)'
  <2>1. PICK u \in Unfinished : u = t \/ t \in anc[u] BY <1>8 DEF Live
  <2>2. CASE u # id BY <1>1, <2>1, <2>2
  <2>3. CASE u = id
    <3>1. t \in anc[v] BY <1>4, <1>6, <2>1, <2>3 DEF Paths
    <3>2. QED BY <1>1, <1>7, <3>1
  <2>4. QED BY <2>2, <2>3
<1>9. ASSUME NEW t, Live(t)' PROVE Live(t) BY <1>1, <1>9 DEF Live
<1>10. QED BY <1>8, <1>9

(***************************************************************************)
(* A task without rows leaves, and so do the ancestors that have nothing   *)
(* else below them and are finished themselves.                            *)
(***************************************************************************)
LEMMA LeavingLive ==
  ASSUME TreeOK, Paths, NEW id, Ends(id)
  PROVE  Leaving(id) \subseteq Task /\ \A t \in Leaving(id) : Live(t) /\ (t = id \/ t \in anc[id])
<1>1. id \in Task /\ id \in Node /\ id \in Unfinished BY EndsLive DEF Ends
<1>2. ASSUME NEW t \in Leaving(id) PROVE t \in Task /\ Live(t) /\ (t = id \/ t \in anc[id])
  <2>1. CASE t = id BY <1>1, <2>1 DEF Live
  <2>2. CASE t \in pruneIdleAncestors(id)
    <3>1. t \in anc[id] /\ t # Root BY <2>2 DEF pruneIdleAncestors
    <3>2. t \in Node BY <1>1, <3>1 DEF TreeOK
    <3>3. t \in Task BY <3>1, <3>2 DEF Node, Task, Root
    <3>4. QED BY <1>1, <3>1, <3>3 DEF Live
  <2>3. QED BY <2>1, <2>2 DEF Leaving
<1>3. QED BY <1>2

\* Exactly the task and its idle ancestors stop being live.
LEMMA EndsLeaves ==
  ASSUME TreeOK, Paths, LiveNIsExact, NEW id, Ends(id), liveN[id] = 0
  PROVE  \A t \in Task : Live(t)' <=> Live(t) /\ t \notin Leaving(id)
<1>1. /\ id \in Task /\ id \in Node /\ id \in Unfinished
      /\ \A t : Live(t)' <=> \E u \in Unfinished \ {id} : u = t \/ t \in anc[u]
  BY EndsLive DEF Ends
<1>2. \A b \in Node : liveN[b] = Cardinality(LiveChildren(b)) BY DEF LiveNIsExact, LiveChildren
<1>3. ASSUME NEW u \in Unfinished, id \in anc[u] PROVE FALSE
  <2>1. LiveChildren(id) # {} BY <1>1, <1>3, LiveBelow
  <2>2. QED BY <1>1, <1>2, <2>1, LiveChildrenFinite, CountOne
<1>4. ASSUME NEW a \in pruneIdleAncestors(id), NEW u \in Unfinished \ {id}, u = a \/ a \in anc[u]
      PROVE  FALSE
  <2> DEFINE Between(c) == c = a \/ a \in anc[c]
  <2>1. a \in anc[id] /\ \A c \in anc[id] : Between(c) => Finished(c) /\ liveN[c] = 1
    BY DEF pruneIdleAncestors
  <2>2. \A c \in anc[id] : Between(c) => c \notin Unfinished BY <2>1 DEF Finished, Unfinished
  <2>3. a \in anc[u] /\ u \in Node /\ u \in Task BY <1>4, <2>1, <2>2 DEF Unfinished, Task, Node
  <2> DEFINE T == {c \in anc[id] : Between(c) /\ c \in anc[u]}
  <2>4. PICK c \in T : \A k \in T : k <= c
    <3>1. T \subseteq Node /\ a \in T BY <1>1, <2>1, <2>3 DEF TreeOK
    <3> HIDE DEF T
    <3>2. QED BY <3>1, Youngest
  <2>5. c \in Node /\ c \in anc[id] /\ Between(c) /\ c \in anc[u] /\ liveN[c] = 1
    BY <1>1, <2>1, <2>4 DEF TreeOK
  <2>6. PICK e \in LiveChildren(c) : e = id \/ e \in anc[id] BY <1>1, <2>5, LiveBelow
  <2>7. e = u \/ e \in anc[u]
    <3>1. PICK f \in LiveChildren(c) : f = u \/ f \in anc[u] BY <2>5, LiveBelow
    <3>2. Cardinality(LiveChildren(c)) = 1 BY <1>2, <2>5
    <3>3. e = f BY <3>2, LiveChildrenFinite, CountOne
    <3>4. QED BY <3>1, <3>3
  <2>8. e \in Task /\ parent[e] = c /\ c # 0 BY <2>5 DEF LiveChildren, Children, Node
  <2>9. c < e /\ c \in anc[e] /\ e \in Node BY <2>8, ParentIs
  <2>10. CASE e = id BY <1>3, <2>7, <2>10
  <2>11. CASE e \in anc[id]
    <3>1. Between(e) BY <2>5, <2>9 DEF Paths
    <3>2. e # u BY <2>2, <2>11, <3>1
    <3>3. e \in T BY <2>7, <2>11, <3>1, <3>2
    <3>4. e <= c BY <2>4, <3>3
    <3>5. QED BY <2>5, <2>9, <3>4 DEF Node
  <2>12. QED BY <2>6, <2>10, <2>11
<1>5. ASSUME NEW t \in Leaving(id), Live(t)' PROVE FALSE
  <2>1. PICK u \in Unfinished \ {id} : u = t \/ t \in anc[u] BY <1>1, <1>5
  <2>2. CASE t = id BY <1>3, <2>1, <2>2
  <2>3. CASE t \in pruneIdleAncestors(id) BY <1>4, <2>1, <2>3
  <2>4. QED BY <2>2, <2>3 DEF Leaving
<1>6. ASSUME NEW t \in Task, Live(t), t \notin Leaving(id) PROVE Live(t)'
  <2>1. PICK u \in Unfinished : u = t \/ t \in anc[u] BY <1>6 DEF Live
  <2>2. CASE u # id BY <1>1, <2>1, <2>2
  <2>3. CASE u = id
    <3>1. t \in anc[id] /\ t # Root BY <1>6, <2>1, <2>3 DEF Leaving, Task, Root
    <3>2. PICK c \in anc[id] : (c = t \/ t \in anc[c]) /\ ~(Finished(c) /\ liveN[c] = 1)
      BY <1>6, <3>1 DEF Leaving, pruneIdleAncestors
    <3>3. c \in Node /\ c < id BY <1>1 DEF TreeOK, Paths
    <3>4. CASE ~Finished(c)
      <4>1. c # Root BY <3>1, <3>2 DEF TreeOK
      <4>2. c \in Task /\ c < next
        <5>1. id < next BY <1>1 DEF TreeOK, Unfinished, Task
        <5>2. QED BY <1>1, <3>3, <4>1, <5>1 DEF Node, Task, Root, TreeOK
      <4>3. c \in Unfinished BY <3>4, <4>2 DEF TreeOK, Unfinished, Finished
      <4>4. c # id BY <3>3 DEF Node
      <4>5. QED BY <1>1, <3>2, <4>3, <4>4
    <3>5. CASE liveN[c] # 1
      <4>1. PICK e \in LiveChildren(c) : e = id \/ e \in anc[id] BY <1>1, <3>3, LiveBelow
      <4>2. Cardinality(LiveChildren(c)) # 1 BY <1>2, <3>3, <3>5
      <4>3. PICK y \in LiveChildren(c) : y # e BY <4>2, LiveChildrenFinite, CountOne
      <4>4. /\ e \in Task /\ y \in Task /\ parent[e] = c /\ parent[y] = c /\ c # 0
        BY <3>3 DEF LiveChildren, Children, Node
      <4>5. PICK w \in Unfinished : w = y \/ y \in anc[w] BY DEF LiveChildren, Live
      <4>6. w # id BY <1>1, <4>1, <4>3, <4>4, <4>5, OneChild
      <4>7. c \in anc[y] /\ w \in Node
        <5>1. c \in anc[y] BY <4>4, ParentIs
        <5>2. QED BY <5>1 DEF Unfinished, Task, Node
      <4>8. c \in anc[w] BY <4>5, <4>7 DEF Paths
      <4>9. t \in anc[w] BY <3>2, <4>7, <4>8 DEF Paths
      <4>10. QED BY <1>1, <4>6, <4>9
    <3>6. QED BY <3>2, <3>4, <3>5
  <2>4. QED BY <2>2, <2>3
<1>7. ASSUME NEW t, Live(t)' PROVE Live(t) BY <1>1, <1>7 DEF Live
<1>8. QED BY <1>5, <1>6, <1>7

CountOK == liveN \in [Node -> Nat] /\ LiveNIsExact

(***************************************************************************)
(* The counts of a step that changes the live children of some nodes.      *)
(***************************************************************************)
LEMMA CountOKIf ==
  ASSUME liveN' \in [Node -> Int], \A b \in Node : liveN'[b] = Cardinality(LiveChildren(b)')
  PROVE  CountOK'
<1>1. ASSUME NEW b \in Node PROVE liveN'[b] \in Nat
  <2>1. IsFiniteSet(LiveChildren(b)')
    <3>1. IsFiniteSet(Task) BY MaxIDAssumption, FS_Interval DEF Task
    <3>2. LiveChildren(b)' \subseteq Task BY DEF LiveChildren, Children
    <3>3. QED BY <3>1, <3>2, FS_Subset
  <2>2. QED BY <2>1, FS_CardinalityType
<1>2. liveN' \in [Node -> Nat] BY <1>1
<1>3. LiveNIsExact' BY DEF LiveNIsExact, LiveChildren
<1>4. QED BY <1>2, <1>3 DEF CountOK

\* A new task is one live child more, of its parent only.
LEMMA CountAlloc ==
  ASSUME TreeOK, Paths, CountOK, NEW b \in Node, alloc(b)
  PROVE  /\ CountOK' /\ ~Live(next)
         /\ \A t \in Task : Live(t)' <=> Live(t) \/ t = next
<1>1. /\ next \in Task /\ next \in Int /\ b < next /\ b \in Int
      /\ state' = [state EXCEPT ![next] = "Pending"] /\ parent' = [parent EXCEPT ![next] = b]
      /\ anc' = [anc EXCEPT ![next] = anc[b] \cup {b}] /\ liveN' = [liveN EXCEPT ![b] = @ + 1]
  <2>1. next \in Task /\ b < next BY TreeAlloc
  <2>2. QED BY <2>1 DEF alloc, linkLive, Task, Node
<1>2. Unfinished' = Unfinished \cup {next} /\ next \notin Unfinished
  <2>1. state[next] = "Free" BY <1>1 DEF TreeOK
  <2>2. QED BY <1>1, <2>1 DEF Unfinished, TreeOK
<1>3. \A u \in Unfinished : u \in Node /\ anc'[u] = anc[u] /\ u < next
  BY <1>1, <1>2 DEF Unfinished, TreeOK, Task, Node
<1>4. ~Live(next)
  <2>1. SUFFICES ASSUME NEW u \in Unfinished, next \in anc[u] PROVE FALSE BY <1>2 DEF Live
  <2>2. next < u BY <1>3, <2>1 DEF Paths
  <2>3. QED BY <1>1, <1>3, <2>2 DEF Node
<1>5. ASSUME NEW t \in Task PROVE Live(t)' <=> Live(t) \/ t = next
  <2>1. Live(t)' <=> Live(t) \/ t = next \/ t \in anc'[next] BY <1>2, <1>3 DEF Live
  <2>2. ASSUME t \in anc'[next] PROVE Live(t)
    <3>1. t \in anc[b] \cup {b}
      <4>1. next \in Node BY <1>1 DEF Task, Node
      <4>2. QED BY <1>1, <2>2, <4>1 DEF TreeOK
    <3>2. b # Root
      <4>1. SUFFICES ASSUME b = Root PROVE FALSE OBVIOUS
      <4>2. QED BY <3>1, <4>1 DEF TreeOK, Task, Root
    <3>3. b \in Unfinished BY <3>2 DEF alloc, Unfinished, Task, Node, Root
    <3>4. QED BY <3>1, <3>3 DEF Live
  <2>3. QED BY <2>1, <2>2
<1>6. ASSUME NEW x \in Node PROVE liveN'[x] = Cardinality(LiveChildren(x)')
  <2>1. liveN[x] = Cardinality(LiveChildren(x)) /\ IsFiniteSet(LiveChildren(x))
    BY LiveChildrenFinite DEF CountOK, LiveNIsExact, LiveChildren
  <2>2. \A t \in Task : parent'[t] = IF t = next THEN b ELSE parent[t] BY <1>1 DEF TreeOK
  <2>3. next \notin LiveChildren(x) BY <1>4 DEF LiveChildren
  <2>4. CASE x = b
    <3>1. LiveChildren(x)' = LiveChildren(x) \cup {next}
      BY <1>1, <1>5, <2>2, <2>4 DEF LiveChildren, Children
    <3>2. Cardinality(LiveChildren(x)') = Cardinality(LiveChildren(x)) + 1
      BY <2>1, <2>3, <3>1, FS_AddElement
    <3>3. liveN'[x] = liveN[x] + 1 BY <1>1, <2>4 DEF CountOK
    <3>4. QED BY <2>1, <3>2, <3>3
  <2>5. CASE x # b
    <3>1. LiveChildren(x)' = LiveChildren(x)
      BY <1>1, <1>5, <2>2, <2>3, <2>5 DEF LiveChildren, Children
    <3>2. liveN'[x] = liveN[x] BY <1>1, <2>5 DEF CountOK
    <3>3. QED BY <2>1, <3>1, <3>2
  <2>6. QED BY <2>4, <2>5
<1>7. CountOK'
  <2>1. liveN' \in [Node -> Int] BY <1>1 DEF CountOK
  <2>2. QED BY <1>6, <2>1, CountOKIf
<1>8. QED BY <1>4, <1>5, <1>7

(***************************************************************************)
(* What finishLocked does to the counts, of the members of U and in all.   *)
(***************************************************************************)
LEMMA CountEnds ==
  ASSUME TreeOK, Paths, CountOK, NEW id, Ends(id),
         IF liveN[id] = 0 THEN Unlink(Leaving(id)) ELSE UNCHANGED links
  PROVE  CountOK'
<1>1. id \in Node /\ parent' = parent BY EndsLive DEF Ends
<1>2. LiveNIsExact /\ \A b \in Node : liveN[b] = Cardinality(LiveChildren(b))
  BY DEF CountOK, LiveNIsExact, LiveChildren
<1>3. CASE liveN[id] # 0
  <2>1. \A t : Live(t)' <=> Live(t) BY <1>2, <1>3, EndsAbove
  <2>2. \A b \in Node : LiveChildren(b)' = LiveChildren(b) BY <1>1, <2>1 DEF LiveChildren, Children
  <2>3. liveN' = liveN BY <1>3 DEF links
  <2>4. QED BY <1>2, <2>2, <2>3, CountOKIf DEF CountOK
<1>4. CASE liveN[id] = 0
  <2> DEFINE U == Leaving(id)
  <2>1. \A t \in Task : Live(t)' <=> Live(t) /\ t \notin U BY <1>2, <1>4, EndsLeaves
  <2>2. U \subseteq Task /\ \A t \in U : Live(t) BY LeavingLive
  <2>3. liveN' = [b \in Node |-> liveN[b] - Cardinality({u \in U : parent[u] = b})]
    BY <1>4 DEF Unlink, unlinkLive, Shorter
  <2> HIDE DEF U
  <2>4. ASSUME NEW b \in Node
        PROVE  liveN'[b] = Cardinality(LiveChildren(b)') /\ liveN'[b] \in Int
    <3>1. LiveChildren(b)' = LiveChildren(b) \ U BY <1>1, <2>1 DEF LiveChildren, Children
    <3>2. LiveChildren(b) \cap U = {u \in U : parent[u] = b} BY <2>2 DEF LiveChildren, Children
    <3>3. IsFiniteSet(LiveChildren(b)) BY LiveChildrenFinite
    <3>4. Cardinality(LiveChildren(b)') = liveN[b] - Cardinality({u \in U : parent[u] = b})
      <4>1. Cardinality(LiveChildren(b) \ U)
              = Cardinality(LiveChildren(b)) - Cardinality(LiveChildren(b) \cap U)
        BY <3>3, FS_Difference
      <4>2. QED BY <1>2, <3>1, <3>2, <4>1, Zenon
    <3>5. IsFiniteSet(LiveChildren(b) \ U) BY <3>3, FS_Difference
    <3>6. Cardinality(LiveChildren(b)') \in Nat BY <3>1, <3>5, FS_CardinalityType
    <3>7. QED BY <2>3, <3>4, <3>6
  <2>5. liveN' \in [Node -> Int] BY <2>3, <2>4
  <2>6. QED BY <2>4, <2>5, CountOKIf
<1>5. QED BY <1>3, <1>4

(***************************************************************************)
(* moveLiveFront takes away one row and adds one.                          *)
(***************************************************************************)
LEMMA CountMove ==
  ASSUME CountOK, NEW id \in Task, parent[id] \in Node, moveLiveFront(id)
  PROVE  liveN' = liveN
<1> DEFINE b == parent[id]
<1>1. CASE firstLive[b] = id
  <2>1. UNCHANGED links BY <1>1 DEF moveLiveFront
  <2>2. QED BY <2>1 DEF links
<1>2. CASE firstLive[b] # id
  <2>1. liveN' = [Shorter({id}) EXCEPT ![b] = @ + 1] BY <1>2 DEF moveLiveFront, unlinkLive
  <2>2. ASSUME NEW x \in Node
        PROVE  Shorter({id})[x] = IF x = b THEN liveN[x] - 1 ELSE liveN[x]
    <3>1. Shorter({id})[x] = liveN[x] - Cardinality({u \in {id} : parent[u] = x}) BY DEF Shorter
    <3>2. CASE x = b
      <4>1. {u \in {id} : parent[u] = x} = {id} BY <3>2
      <4>2. QED BY <3>1, <3>2, <4>1, FS_Singleton
    <3>3. CASE x # b
      <4>1. {u \in {id} : parent[u] = x} = {} BY <3>3
      <4>2. QED BY <3>1, <3>3, <4>1, FS_EmptySet DEF CountOK
    <3>4. QED BY <3>2, <3>3
  <2>3. liveN \in [Node -> Nat] BY DEF CountOK
  <2>4. ASSUME NEW x \in Node PROVE liveN'[x] = liveN[x]
    <3>1. DOMAIN Shorter({id}) = Node BY DEF Shorter
    <3>2. liveN'[x] = IF x = b THEN Shorter({id})[x] + 1 ELSE Shorter({id})[x] BY <2>1, <3>1
    <3>3. liveN[x] \in Nat BY <2>3
    <3>4. CASE x = b
      <4>1. Shorter({id})[x] = liveN[x] - 1 BY <2>2, <3>4, Zenon
      <4>2. liveN'[x] = Shorter({id})[x] + 1 BY <3>2, <3>4, Zenon
      <4>3. QED BY <3>3, <4>1, <4>2
    <3>5. CASE x # b BY <2>2, <3>2, <3>5, Zenon
    <3>6. QED BY <3>4, <3>5
  <2>5. DOMAIN liveN' = Node /\ liveN' = [x \in DOMAIN liveN' |-> liveN'[x]] BY <2>1 DEF Shorter
  <2>6. QED BY <2>3, <2>4, <2>5
<1>3. QED BY <1>1, <1>2

(***************************************************************************)
(* finishLocked, called by run or by a failure, is such an end.            *)
(***************************************************************************)
LEMMA FinishEnds ==
  ASSUME NEW t \in Task, runFinish(t) \/ fail(t)
  PROVE  Ends(t) /\ IF liveN[t] = 0 THEN Unlink(Leaving(t)) ELSE UNCHANGED links
BY DEF runFinish, fail, finishLocked, Ends, Leaving, Unfinished

\* What is live depends on the unfinished tasks and the tree.
LEMMA LiveSame ==
  ASSUME Unfinished' = Unfinished, UNCHANGED <<parent, anc>>
  PROVE  (\A t : Live(t)' <=> Live(t)) /\ \A b : LiveChildren(b)' = LiveChildren(b)
<1>1. \A t : Live(t)' <=> Live(t) BY DEF Live
<1>2. QED BY <1>1 DEF LiveChildren, Children

(***************************************************************************)
(* run's first two steps leave unfinished what is.                         *)
(***************************************************************************)
LEMMA RunsOn ==
  ASSUME TreeOK, NEW t \in Task, runClaim(t) \/ runMove(t)
  PROVE  Unfinished' = Unfinished /\ parent[t] \in Node
<1>1. t < next BY DEF runClaim, runMove, TreeOK
<1>2. parent[t] \in Node BY <1>1 DEF TreeOK
<1>3. CASE runClaim(t) BY <1>2, <1>3 DEF runClaim, Unfinished, TreeOK
<1>4. CASE runMove(t) BY <1>2, <1>4 DEF runMove, Unfinished
<1>5. QED BY <1>3, <1>4

\* Every step keeps the counts exact.
LEMMA CountNext == TreeOK /\ Paths /\ CountOK /\ [Next]_vars => CountOK'
<1> SUFFICES ASSUME TreeOK, Paths, CountOK, [Next]_vars PROVE CountOK' OBVIOUS
<1>1. ASSUME Unfinished' = Unfinished, UNCHANGED <<parent, anc, liveN>> PROVE CountOK'
  BY <1>1, LiveSame DEF CountOK, LiveNIsExact, LiveChildren
<1>2. CASE UNCHANGED vars BY <1>1, <1>2 DEF vars, links, Unfinished
<1>3. ASSUME NEW b \in Node, alloc(b) PROVE CountOK' BY <1>3, CountAlloc
<1>4. ASSUME NEW t \in Task, runClaim(t) PROVE CountOK' BY <1>1, <1>4, RunsOn DEF runClaim, links
<1>5. ASSUME NEW t \in Task, runMove(t) PROVE CountOK'
  <2>1. liveN' = liveN BY <1>5, RunsOn, CountMove DEF runMove
  <2>2. QED BY <1>1, <1>5, <2>1, RunsOn DEF runMove
<1>6. ASSUME NEW t \in Task, runFinish(t) \/ fail(t) PROVE CountOK' BY <1>6, FinishEnds, CountEnds
<1>7. QED BY <1>2, <1>3, <1>4, <1>5, <1>6 DEF Next

\* The counts of the empty tree.
LEMMA CountInit == Init => CountOK
<1> SUFFICES ASSUME Init PROVE CountOK OBVIOUS
<1>1. \A b : {c \in Children(b) : Live(c)} = {} BY DEF Init, Live, Unfinished
<1>2. QED BY <1>1, FS_EmptySet DEF Init, CountOK, LiveNIsExact

\* The counts are exact in every reachable state.
LEMMA CountInv == Spec => [](TreeOK /\ Paths /\ CountOK)
BY TreeInit, TreeNext, CountInit, CountNext, PTL DEF Spec

(***************************************************************************)
(* For any number of tasks and every interleaving of run with failures,    *)
(* the liveN of a node that waitLive looks at is the number of its         *)
(* children with unfinished work at or below them.                         *)
(***************************************************************************)
THEOREM CountsAreExact == Spec => []LiveNIsExact
<1>1. CountOK => LiveNIsExact BY DEF CountOK
<1>2. QED BY <1>1, CountInv, PTL

-----------------------------------------------------------------------------
(* The links *)

(* One direction of the lists: end holds the first rows, link the next row *)
(* of a row, and back the way back.  A row that has left a list, or was    *)
(* lost from it, may still be linked to others, of the same parent.        *)
Half(par, end, link, back) ==
  /\ end \in [Node -> Task \cup {0}] /\ link \in [Task -> Task \cup {0}]
  /\ \A x \in Task : link[x] # 0 => back[link[x]] = x /\ par[link[x]] = par[x]
  /\ \A x \in Task : par[x] = 0 => link[x] = 0
  /\ \A b \in Node : end[b] # 0 => back[end[b]] = 0 /\ par[end[b]] = b

(* The links never lead back to a row: a row that becomes the last one     *)
(* gets the rank hi, the first one lo.                                     *)
Ranks(link, rank, lo, hi) ==
  /\ rank \in [Task -> Int] /\ lo \in Int /\ hi \in Int
  /\ \A x \in Task : /\ lo < rank[x] /\ rank[x] < hi
                     /\ link[x] # 0 => rank[x] < rank[link[x]]

Linked(par, f, l, p, n) ==
  /\ Half(par, f, n, p) /\ Half(par, l, p, n)
  /\ \E rank \in [Task -> Int] : \E lo, hi \in Int : Ranks(n, rank, lo, hi)

LinkOK == Linked(parent, firstLive, lastLive, prevLive, nextLive)

(* Rows in different lists. *)
Apart(U) ==
  /\ U \subseteq Task /\ \A u \in U : parent[u] \in Node
  /\ \A u, v \in U : parent[u] = parent[v] => u = v

(***************************************************************************)
(* Where a row points once the rows of U have left.                        *)
(***************************************************************************)
LEMMA BypassIs ==
  ASSUME NEW end, NEW other, NEW link, NEW back, NEW U, Apart(U),
         Half(parent, end, link, back), Half(parent, other, back, link),
         NEW x \in Task
  PROVE  Bypass(link, back, U)[x] =
           IF x \in U THEN 0 ELSE IF link[x] \in U THEN link[link[x]] ELSE link[x]
<1>1. Bypass(link, back, U)[x] = IF x \in U THEN 0
                                 ELSE IF \E u \in U : back[u] = x
                                 THEN link[CHOOSE u \in U : back[u] = x]
                                 ELSE link[x]
  BY DEF Bypass
<1>2. x # 0 /\ U \subseteq Task /\ 0 \notin U BY DEF Task, Apart
<1>3. \A u \in U : back[u] = x => link[x] = u BY <1>2 DEF Half
<1>4. link[x] \in U => back[link[x]] = x BY <1>2 DEF Half
<1>5. CASE link[x] \in U
  <2>1. back[link[x]] = x BY <1>4, <1>5
  <2>2. (CHOOSE u \in U : back[u] = x) = link[x] BY <1>3, <1>5, <2>1
  <2>3. QED BY <1>1, <1>5, <2>1, <2>2
<1>6. CASE link[x] \notin U BY <1>1, <1>3, <1>6
<1>7. QED BY <1>5, <1>6

(***************************************************************************)
(* Where a list begins once the rows of U have left.                       *)
(***************************************************************************)
LEMMA NewEndIs ==
  ASSUME NEW end, NEW link, NEW back, NEW U, Apart(U), NEW b \in Node
  PROVE  /\ \A u \in U : parent[u] = b =>
               NewEnd(end, link, back, U)[b] = IF back[u] = 0 THEN link[u] ELSE end[b]
         /\ (\A u \in U : parent[u] # b) => NewEnd(end, link, back, U)[b] = end[b]
<1>1. NewEnd(end, link, back, U)[b] = IF \E u \in U : parent[u] = b /\ back[u] = 0
                                      THEN link[CHOOSE u \in U : parent[u] = b]
                                      ELSE end[b]
  BY DEF NewEnd
<1>2. ASSUME NEW u \in U, parent[u] = b
      PROVE  NewEnd(end, link, back, U)[b] = IF back[u] = 0 THEN link[u] ELSE end[b]
  <2>1. \A v \in U : parent[v] = b => v = u BY <1>2 DEF Apart
  <2>2. (CHOOSE v \in U : parent[v] = b) = u BY <1>2, <2>1
  <2>3. (\E v \in U : parent[v] = b /\ back[v] = 0) <=> back[u] = 0 BY <1>2, <2>1
  <2>4. QED BY <1>1, <2>2, <2>3
<1>3. QED BY <1>1, <1>2

(***************************************************************************)
(* unlinkLive keeps the links of one direction right.                      *)
(***************************************************************************)
LEMMA HalfUnlink ==
  ASSUME NEW end, NEW other, NEW link, NEW back, NEW U, Apart(U),
         Half(parent, end, link, back), Half(parent, other, back, link),
         \A x \in Task : link[x] # x
  PROVE  Half(parent, NewEnd(end, link, back, U), Bypass(link, back, U), Bypass(back, link, U))
<1> DEFINE E == NewEnd(end, link, back, U)
           L == Bypass(link, back, U)
           B == Bypass(back, link, U)
<1>1. U \subseteq Task /\ 0 \notin U /\ 0 \notin Task BY DEF Apart, Task
<1>2. /\ \A x \in Task : link[x] \in Task \cup {0} /\ back[x] \in Task \cup {0}
      /\ \A x \in Task : link[x] # 0 => back[link[x]] = x /\ parent[link[x]] = parent[x]
      /\ \A x \in Task : back[x] # 0 => link[back[x]] = x
      /\ \A x \in Task : parent[x] = 0 => link[x] = 0
      /\ \A b \in Node : end[b] \in Task \cup {0}
      /\ \A b \in Node : end[b] # 0 => back[end[b]] = 0 /\ parent[end[b]] = b
  BY DEF Half
<1>3. \A x \in Task : L[x] = IF x \in U THEN 0 ELSE IF link[x] \in U THEN link[link[x]] ELSE link[x]
  BY BypassIs
<1>4. \A x \in Task : B[x] = IF x \in U THEN 0 ELSE IF back[x] \in U THEN back[back[x]] ELSE back[x]
  BY BypassIs
<1>5. /\ \A b \in Node : \A u \in U : parent[u] = b => E[b] = IF back[u] = 0 THEN link[u] ELSE end[b]
      /\ \A b \in Node : (\A u \in U : parent[u] # b) => E[b] = end[b]
  BY NewEndIs
<1>6. \A u, v \in U : parent[u] = parent[v] => u = v BY DEF Apart
<1>7. DOMAIN E = Node /\ DOMAIN L = Task /\ E = [b \in Node |-> E[b]] /\ L = [x \in Task |-> L[x]]
  BY DEF NewEnd, Bypass
<1>8. \A u \in U : parent[u] \in Node BY DEF Apart
<1> HIDE DEF E, L, B
<1>9. \A u \in U : link[u] \notin U BY <1>1, <1>2, <1>6
<1>10. ASSUME NEW x \in Task PROVE L[x] \in Task \cup {0} BY <1>1, <1>2, <1>3
<1>11. ASSUME NEW x \in Task, L[x] # 0 PROVE B[L[x]] = x /\ parent[L[x]] = parent[x]
  <2>1. x \notin U BY <1>3, <1>11
  <2>2. CASE link[x] \notin U
    <3>1. L[x] = link[x] /\ link[x] \in Task /\ back[link[x]] = x BY <1>2, <1>3, <1>11, <2>1, <2>2
    <3>2. B[link[x]] = x BY <1>4, <2>1, <2>2, <3>1
    <3>3. parent[link[x]] = parent[x] BY <1>1, <1>2, <3>1
    <3>4. QED BY <3>1, <3>2, <3>3
  <2>3. CASE link[x] \in U
    <3>1. PICK u \in U : u = link[x] BY <2>3
    <3>2. L[x] = link[u] /\ link[u] \in Task BY <1>1, <1>2, <1>3, <1>11, <2>1, <3>1
    <3>3. back[link[u]] = u /\ back[u] = x /\ parent[link[u]] = parent[u] /\ parent[u] = parent[x]
      BY <1>1, <1>2, <3>1, <3>2
    <3>4. link[u] \notin U BY <1>9
    <3>5. QED BY <1>4, <3>2, <3>3, <3>4
  <2>4. QED BY <2>2, <2>3
<1>12. ASSUME NEW x \in Task, parent[x] = 0 PROVE L[x] = 0 BY <1>1, <1>2, <1>3, <1>12
<1>13. ASSUME NEW b \in Node PROVE E[b] \in Task \cup {0} /\ (E[b] # 0 => B[E[b]] = 0 /\ parent[E[b]] = b)
  <2>1. CASE \E u \in U : parent[u] = b /\ back[u] = 0
    <3>1. PICK u \in U : parent[u] = b /\ back[u] = 0 BY <2>1
    <3>2. E[b] = link[u] /\ u \in Task BY <1>1, <1>5, <3>1
    <3>3. ASSUME link[u] # 0 PROVE B[link[u]] = 0 /\ parent[link[u]] = b
      <4>1. link[u] \in Task /\ back[link[u]] = u /\ link[u] \notin U /\ parent[link[u]] = b
        BY <1>2, <1>9, <3>1, <3>2, <3>3
      <4>2. QED BY <1>4, <3>1, <4>1
    <3>4. QED BY <1>2, <3>2, <3>3
  <2>2. CASE \A u \in U : parent[u] = b => back[u] # 0
    <3>1. E[b] = end[b]
      <4>1. CASE \E u \in U : parent[u] = b
        <5>1. PICK u \in U : parent[u] = b BY <4>1
        <5>2. QED BY <1>5, <2>2, <5>1
      <4>2. CASE \A u \in U : parent[u] # b BY <1>5, <4>2
      <4>3. QED BY <4>1, <4>2
    <3>2. ASSUME end[b] # 0 PROVE B[end[b]] = 0
      <4>1. end[b] \in Task /\ back[end[b]] = 0 /\ parent[end[b]] = b BY <1>2, <3>2
      <4>2. end[b] \notin U BY <2>2, <4>1
      <4>3. QED BY <1>1, <1>4, <4>1, <4>2
    <3>3. end[b] \in Task \cup {0} /\ (end[b] # 0 => parent[end[b]] = b) BY <1>2
    <3>4. QED BY <3>1, <3>2, <3>3
  <2>3. QED BY <2>1, <2>2
<1>14. E \in [Node -> Task \cup {0}] /\ L \in [Task -> Task \cup {0}] BY <1>7, <1>10, <1>13
<1>15. Half(parent, E, L, B) BY <1>11, <1>12, <1>13, <1>14 DEF Half
<1>16. QED BY <1>15 DEF E, L, B

(***************************************************************************)
(* unlinkLive keeps the lists in order.                                    *)
(***************************************************************************)
LEMMA LinkedUnlink ==
  ASSUME LinkOK, NEW U, Apart(U)
  PROVE  LET l == unlinkLive(U) IN Linked(parent, l.first, l.last, l.prev, l.next)
<1> DEFINE F == NewEnd(firstLive, nextLive, prevLive, U)
           L == NewEnd(lastLive, prevLive, nextLive, U)
           P == Bypass(prevLive, nextLive, U)
           N == Bypass(nextLive, prevLive, U)
<1>1. Half(parent, firstLive, nextLive, prevLive) /\ Half(parent, lastLive, prevLive, nextLive)
  BY DEF LinkOK, Linked
<1>2. PICK rank \in [Task -> Int] : \E lo, hi \in Int : Ranks(nextLive, rank, lo, hi)
  BY DEF LinkOK, Linked
<1>3. PICK lo \in Int, hi \in Int : Ranks(nextLive, rank, lo, hi) BY <1>2
<1>4. 0 \notin Task /\ U \subseteq Task BY DEF Task, Apart
<1>5. \A x \in Task : nextLive[x] # x
  <2>1. SUFFICES ASSUME NEW x \in Task, nextLive[x] = x PROVE FALSE OBVIOUS
  <2>2. rank[x] < rank[x] BY <1>3, <1>4, <2>1 DEF Ranks
  <2>3. QED BY <2>2 DEF Ranks
<1>6. \A x \in Task : prevLive[x] # x BY <1>1, <1>4, <1>5 DEF Half
<1>7. Half(parent, F, N, P) BY <1>1, <1>5, HalfUnlink
<1>8. Half(parent, L, P, N) BY <1>1, <1>6, HalfUnlink
<1>9. \A x \in Task : N[x] = IF x \in U THEN 0
                             ELSE IF nextLive[x] \in U THEN nextLive[nextLive[x]] ELSE nextLive[x]
  BY <1>1, BypassIs
<1> HIDE DEF F, L, P, N
<1>10. ASSUME NEW x \in Task, N[x] # 0 PROVE rank[x] < rank[N[x]]
  <2>1. x \notin U BY <1>9, <1>10
  <2>2. CASE nextLive[x] \notin U BY <1>3, <1>9, <1>10, <2>1, <2>2 DEF Ranks
  <2>3. CASE nextLive[x] \in U
    <3>1. PICK u \in U : u = nextLive[x] BY <2>3
    <3>2. N[x] = nextLive[u] /\ u \in Task /\ u # 0 BY <1>4, <1>9, <2>1, <3>1
    <3>3. nextLive[u] \in Task BY <1>1, <1>10, <3>2 DEF Half
    <3>4. rank[x] < rank[u] /\ rank[u] < rank[nextLive[u]] BY <1>3, <1>10, <3>1, <3>2 DEF Ranks
    <3>5. rank[x] \in Int /\ rank[u] \in Int /\ rank[nextLive[u]] \in Int BY <3>2, <3>3
    <3>6. QED BY <3>2, <3>4, <3>5
  <2>4. QED BY <2>2, <2>3
<1>11. Ranks(N, rank, lo, hi) BY <1>3, <1>10 DEF Ranks
<1>12. Linked(parent, F, L, P, N) BY <1>7, <1>8, <1>11 DEF Linked
<1>13. QED BY <1>12 DEF unlinkLive, F, L, P, N

(* The task id becomes the first row under b. *)
Pushes(id, b, f, l, p, n, f2, l2, p2, n2) ==
  /\ f2 \in [Node -> Task \cup {0}] /\ l2 \in [Node -> Task \cup {0}]
  /\ p2 \in [Task -> Task \cup {0}] /\ n2 \in [Task -> Task \cup {0}]
  /\ \A x \in Node : f2[x] = IF x = b THEN id ELSE f[x]
  /\ \A x \in Node : l2[x] = IF x = b /\ f[b] = 0 THEN id ELSE l[x]
  /\ \A x \in Task : n2[x] = IF x = id THEN f[b] ELSE n[x]
  /\ \A x \in Task : p2[x] = IF x = f[b] THEN id ELSE p[x]

(***************************************************************************)
(* A task that is in no list becomes the first row under b, seen from one  *)
(* of the two ends.                                                        *)
(***************************************************************************)
LEMMA HalvesPush ==
  ASSUME NEW par, NEW f, NEW l, NEW p, NEW n, Half(par, f, n, p), Half(par, l, p, n),
         NEW id \in Task, NEW b \in Node, n[id] = 0, p[id] = 0,
         \A x \in Node : f[x] # id /\ l[x] # id,
         NEW par2, par2[id] = b, \A x \in Task : x # id => par2[x] = par[x],
         NEW f2, NEW l2, NEW p2, NEW n2, Pushes(id, b, f, l, p, n, f2, l2, p2, n2)
  PROVE  Half(par2, f2, n2, p2) /\ Half(par2, l2, p2, n2)
<1> USE DEF Pushes
<1>1. 0 \notin Task /\ 0 \notin Node /\ id # 0 /\ b # 0 BY DEF Task, Node
<1>2. /\ \A x \in Task : n[x] \in Task \cup {0} /\ p[x] \in Task \cup {0}
      /\ \A x \in Task : n[x] # 0 => p[n[x]] = x /\ par[n[x]] = par[x]
      /\ \A x \in Task : p[x] # 0 => n[p[x]] = x /\ par[p[x]] = par[x]
      /\ \A x \in Task : par[x] = 0 => n[x] = 0 /\ p[x] = 0
      /\ \A x \in Node : f[x] \in Task \cup {0} /\ l[x] \in Task \cup {0}
      /\ \A x \in Node : f[x] # 0 => p[f[x]] = 0 /\ par[f[x]] = x
      /\ \A x \in Node : l[x] # 0 => n[l[x]] = 0 /\ par[l[x]] = x
  BY DEF Half
<1>3. \A x \in Task : n[x] # id /\ p[x] # id BY <1>1, <1>2
<1>4. f[b] # id /\ f[b] \in Task \cup {0} BY <1>2
<1>5. ASSUME NEW x \in Task, n2[x] # 0 PROVE p2[n2[x]] = x /\ par2[n2[x]] = par2[x]
  <2>1. CASE x = id BY <1>2, <1>4, <1>5, <2>1
  <2>2. CASE x # id
    <3>1. n2[x] = n[x] /\ n[x] \in Task /\ p[n[x]] = x /\ par[n[x]] = par[x] BY <1>2, <1>5, <2>2
    <3>2. n[x] # f[b] BY <1>1, <1>2, <3>1
    <3>3. n[x] # id BY <1>3
    <3>4. QED BY <2>2, <3>1, <3>2, <3>3
  <2>3. QED BY <2>1, <2>2
<1>6. ASSUME NEW x \in Task, p2[x] # 0 PROVE n2[p2[x]] = x /\ par2[p2[x]] = par2[x]
  <2>1. CASE x = f[b] BY <1>1, <1>2, <1>4, <2>1
  <2>2. CASE x # f[b]
    <3>1. p2[x] = p[x] /\ p[x] \in Task /\ n[p[x]] = x /\ par[p[x]] = par[x] BY <1>2, <1>6, <2>2
    <3>2. p[x] # id /\ x # id BY <1>3, <3>1, <1>1
    <3>3. QED BY <3>1, <3>2
  <2>3. QED BY <2>1, <2>2
<1>7. ASSUME NEW x \in Task, par2[x] = 0 PROVE n2[x] = 0 /\ p2[x] = 0
  <2>1. x # id BY <1>1, <1>7
  <2>2. par[x] = 0 /\ n[x] = 0 /\ p[x] = 0 BY <1>2, <1>7, <2>1
  <2>3. x # f[b] BY <1>1, <1>2, <2>2
  <2>4. QED BY <2>1, <2>2, <2>3
<1>8. ASSUME NEW x \in Node, f2[x] # 0 PROVE p2[f2[x]] = 0 /\ par2[f2[x]] = x
  <2>1. CASE x = b BY <1>4, <2>1
  <2>2. CASE x # b
    <3>1. f2[x] = f[x] /\ f[x] \in Task /\ p[f[x]] = 0 /\ par[f[x]] = x BY <1>2, <1>8, <2>2
    <3>2. f[x] # f[b] BY <1>1, <1>2, <2>2, <3>1
    <3>3. QED BY <3>1, <3>2
  <2>3. QED BY <2>1, <2>2
<1>9. ASSUME NEW x \in Node, l2[x] # 0 PROVE n2[l2[x]] = 0 /\ par2[l2[x]] = x
  <2>1. CASE x = b /\ f[b] = 0 BY <2>1
  <2>2. CASE ~(x = b /\ f[b] = 0)
    <3>1. l2[x] = l[x] /\ l[x] \in Task /\ n[l[x]] = 0 /\ par[l[x]] = x BY <1>2, <1>9, <2>2
    <3>2. QED BY <3>1
  <2>3. QED BY <2>1, <2>2
<1>10. QED BY <1>5, <1>6, <1>7, <1>8, <1>9 DEF Half

(***************************************************************************)
(* The row is in no list before, and nothing points to it.                 *)
(***************************************************************************)
LEMMA Unlisted ==
  ASSUME NEW par, NEW f, NEW l, NEW p, NEW n, Half(par, f, n, p), Half(par, l, p, n),
         NEW id \in Task, n[id] = 0, p[id] = 0
  PROVE  \A x \in Task : n[x] # id /\ p[x] # id
<1>1. \A x \in Task : x # 0 BY DEF Task
<1>2. QED BY <1>1 DEF Half

(***************************************************************************)
(* linkLive is a push at the other end.                                    *)
(***************************************************************************)
LEMMA AllocPushes ==
  ASSUME TreeOK, Paths, LinkOK, NEW b \in Node, alloc(b)
  PROVE  /\ next \in Task /\ nextLive[next] = 0 /\ prevLive[next] = 0
         /\ \A x \in Node : firstLive[x] # next /\ lastLive[x] # next
         /\ Pushes(next, b, lastLive, firstLive, nextLive, prevLive,
                   lastLive', firstLive', nextLive', prevLive')
<1>1. next \in Task BY TreeAlloc
<1>2. parent[next] = 0 BY <1>1 DEF TreeOK, Task
<1>3. /\ firstLive \in [Node -> Task \cup {0}] /\ lastLive \in [Node -> Task \cup {0}]
      /\ prevLive \in [Task -> Task \cup {0}] /\ nextLive \in [Task -> Task \cup {0}]
  BY DEF LinkOK, Linked, Half
<1>4. nextLive[next] = 0 /\ prevLive[next] = 0 BY <1>1, <1>2 DEF LinkOK, Linked, Half
<1>5. \A x \in Node : firstLive[x] # next /\ lastLive[x] # next
  <2>1. \A x \in Node : x # 0 BY DEF Node
  <2>2. next # 0 BY <1>1 DEF Task
  <2>3. \A x \in Node : (firstLive[x] # 0 => parent[firstLive[x]] = x)
                        /\ (lastLive[x] # 0 => parent[lastLive[x]] = x)
    BY DEF LinkOK, Linked, Half
  <2>4. ASSUME NEW x \in Node, firstLive[x] = next \/ lastLive[x] = next PROVE FALSE
    <3>1. parent[next] = x BY <2>2, <2>3, <2>4
    <3>2. QED BY <1>2, <2>1, <3>1
  <2>5. QED BY <2>4
<1>6. linkLive(b, next) BY DEF alloc
<1>7. prevLive' = [prevLive EXCEPT ![next] = lastLive[b]] /\ lastLive' = [lastLive EXCEPT ![b] = next]
  BY <1>6 DEF linkLive
<1>8. CASE lastLive[b] = 0
  <2>1. nextLive' = nextLive /\ firstLive' = [firstLive EXCEPT ![b] = next] BY <1>6, <1>8 DEF linkLive
  <2>2. \A x \in Task : x # lastLive[b] BY <1>8 DEF Task
  <2>3. QED BY <1>1, <1>3, <1>4, <1>5, <1>7, <1>8, <2>1, <2>2 DEF Pushes
<1>9. CASE lastLive[b] # 0
  <2>1. nextLive' = [nextLive EXCEPT ![lastLive[b]] = next] /\ firstLive' = firstLive
    BY <1>6, <1>9 DEF linkLive
  <2>2. lastLive[b] \in Task BY <1>3, <1>9
  <2>3. QED BY <1>1, <1>3, <1>4, <1>5, <1>7, <1>9, <2>1, <2>2 DEF Pushes
<1>10. QED BY <1>8, <1>9

\* linkLive keeps the lists in order.
LEMMA LinkedAlloc ==
  ASSUME TreeOK, Paths, LinkOK, NEW b \in Node, alloc(b)
  PROVE  LinkOK'
<1> DEFINE id == next
<1>1. /\ id \in Task /\ nextLive[id] = 0 /\ prevLive[id] = 0
      /\ \A x \in Node : firstLive[x] # id /\ lastLive[x] # id
      /\ Pushes(id, b, lastLive, firstLive, nextLive, prevLive,
                lastLive', firstLive', nextLive', prevLive')
  BY AllocPushes
<1>2. parent'[id] = b /\ \A x \in Task : x # id => parent'[x] = parent[x] BY <1>1 DEF alloc, TreeOK
<1>3. Half(parent, firstLive, nextLive, prevLive) /\ Half(parent, lastLive, prevLive, nextLive)
  BY DEF LinkOK, Linked
<1> HIDE DEF id
<1>4. Half(parent', lastLive', prevLive', nextLive') /\ Half(parent', firstLive', nextLive', prevLive')
  BY <1>1, <1>2, <1>3, HalvesPush
<1>5. PICK rank \in [Task -> Int] : \E lo, hi \in Int : Ranks(nextLive, rank, lo, hi)
  BY DEF LinkOK, Linked
<1>6. PICK lo \in Int, hi \in Int : Ranks(nextLive, rank, lo, hi) BY <1>5
<1> DEFINE r == [rank EXCEPT ![id] = hi]
<1>7. r \in [Task -> Int] /\ \A x \in Task : r[x] = IF x = id THEN hi ELSE rank[x] BY <1>1, <1>6
<1>8. lo < hi
  <2>1. lo < rank[id] /\ rank[id] < hi /\ rank[id] \in Int BY <1>1, <1>6 DEF Ranks
  <2>2. QED BY <2>1
<1>9. ASSUME NEW x \in Task, nextLive'[x] # 0 PROVE r[x] < r[nextLive'[x]]
  <2>1. \A y \in Task : nextLive[y] # id BY <1>1, <1>3, Unlisted
  <2>2. nextLive'[x] = IF x = lastLive[b] THEN id ELSE nextLive[x] BY <1>1 DEF Pushes
  <2>3. CASE x = lastLive[b]
    <3>1. x # id /\ nextLive'[x] = id BY <1>1, <2>2, <2>3
    <3>2. rank[x] < hi BY <1>6 DEF Ranks
    <3>3. QED BY <1>1, <1>7, <3>1, <3>2
  <2>4. CASE x # lastLive[b]
    <3>1. x # id /\ nextLive'[x] = nextLive[x] BY <1>1, <1>9, <2>2, <2>4
    <3>2. nextLive[x] \in Task /\ nextLive[x] # id BY <1>3, <1>9, <2>1, <3>1 DEF Half
    <3>3. rank[x] < rank[nextLive[x]] BY <1>6, <1>9, <3>1 DEF Ranks
    <3>4. QED BY <1>7, <3>1, <3>2, <3>3
  <2>5. QED BY <2>3, <2>4
<1> HIDE DEF r
<1>10. Ranks(nextLive', r, lo, hi + 1)
  <2>1. ASSUME NEW x \in Task PROVE lo < r[x] /\ r[x] < hi + 1
    <3>1. lo < rank[x] /\ rank[x] < hi /\ rank[x] \in Int BY <1>6 DEF Ranks
    <3>2. QED BY <1>7, <1>8, <3>1
  <2>2. QED BY <1>7, <1>9, <2>1 DEF Ranks
<1>11. QED BY <1>4, <1>7, <1>10 DEF LinkOK, Linked

(***************************************************************************)
(* What unlinkLive leaves of the lists, pointer by pointer.                *)
(***************************************************************************)
LEMMA UnlinkIs ==
  ASSUME LinkOK, NEW U, Apart(U), NEW l, l = unlinkLive(U)
  PROVE  /\ \A x \in Task : l.next[x] = IF x \in U THEN 0 ELSE IF nextLive[x] \in U
                                        THEN nextLive[nextLive[x]] ELSE nextLive[x]
         /\ \A x \in Task : l.prev[x] = IF x \in U THEN 0 ELSE IF prevLive[x] \in U
                                        THEN prevLive[prevLive[x]] ELSE prevLive[x]
         /\ \A u \in U : l.first[parent[u]] = IF prevLive[u] = 0 THEN nextLive[u]
                                              ELSE firstLive[parent[u]]
         /\ \A u \in U : l.last[parent[u]] = IF nextLive[u] = 0 THEN prevLive[u]
                                             ELSE lastLive[parent[u]]
         /\ \A b \in Node : (\A u \in U : parent[u] # b) => l.first[b] = firstLive[b] /\ l.last[b] = lastLive[b]
<1>1. Half(parent, firstLive, nextLive, prevLive) /\ Half(parent, lastLive, prevLive, nextLive)
  BY DEF LinkOK, Linked
<1>2. /\ l.next = Bypass(nextLive, prevLive, U) /\ l.prev = Bypass(prevLive, nextLive, U)
      /\ l.first = NewEnd(firstLive, nextLive, prevLive, U)
      /\ l.last = NewEnd(lastLive, prevLive, nextLive, U)
  BY DEF unlinkLive
<1>3. \A u \in U : parent[u] \in Node BY DEF Apart
<1>4. \A x \in Task : l.next[x] = IF x \in U THEN 0 ELSE IF nextLive[x] \in U
                                  THEN nextLive[nextLive[x]] ELSE nextLive[x]
  BY <1>1, <1>2, BypassIs
<1>5. \A x \in Task : l.prev[x] = IF x \in U THEN 0 ELSE IF prevLive[x] \in U
                                  THEN prevLive[prevLive[x]] ELSE prevLive[x]
  BY <1>1, <1>2, BypassIs
<1>6. ASSUME NEW u \in U
      PROVE  /\ l.first[parent[u]] = IF prevLive[u] = 0 THEN nextLive[u] ELSE firstLive[parent[u]]
             /\ l.last[parent[u]] = IF nextLive[u] = 0 THEN prevLive[u] ELSE lastLive[parent[u]]
  BY <1>2, <1>3, NewEndIs
<1>7. ASSUME NEW b \in Node, \A u \in U : parent[u] # b
      PROVE  l.first[b] = firstLive[b] /\ l.last[b] = lastLive[b]
  BY <1>2, <1>7, NewEndIs
<1>8. QED BY <1>4, <1>5, <1>6, <1>7

(***************************************************************************)
(* moveLiveFront takes the row out of its list and pushes it.              *)
(***************************************************************************)
LEMMA MovePushes ==
  ASSUME LinkOK, NEW id \in Task, NEW b \in Node, b = parent[id], moveLiveFront(id),
         firstLive[b] # id, NEW l, l = unlinkLive({id})
  PROVE  /\ Apart({id}) /\ l.next[id] = 0 /\ l.prev[id] = 0
         /\ Linked(parent, l.first, l.last, l.prev, l.next)
         /\ \A x \in Node : l.first[x] # id /\ l.last[x] # id
         /\ Pushes(id, b, l.first, l.last, l.prev, l.next,
                   firstLive', lastLive', prevLive', nextLive')
<1>1. Apart({id}) BY DEF Apart
<1>2. Linked(parent, l.first, l.last, l.prev, l.next) BY <1>1, LinkedUnlink
<1>3. l.next[id] = 0 /\ l.prev[id] = 0 BY <1>1, UnlinkIs
<1>4. /\ l.first \in [Node -> Task \cup {0}] /\ l.last \in [Node -> Task \cup {0}]
      /\ l.prev \in [Task -> Task \cup {0}] /\ l.next \in [Task -> Task \cup {0}]
  BY <1>2 DEF Linked, Half
<1>5. id # 0 /\ b # 0 BY DEF Task, Node
<1>6. ASSUME NEW x \in Node PROVE l.first[x] # id /\ l.last[x] # id
  <2>1. CASE x # b
    <3>1. (l.first[x] # 0 => parent[l.first[x]] = x) /\ (l.last[x] # 0 => parent[l.last[x]] = x)
      BY <1>2 DEF Linked, Half
    <3>2. QED BY <1>5, <2>1, <3>1
  <2>2. CASE x = b
    <3>1. /\ l.first[b] = IF prevLive[id] = 0 THEN nextLive[id] ELSE firstLive[b]
          /\ l.last[b] = IF nextLive[id] = 0 THEN prevLive[id] ELSE lastLive[b]
      <4>1. \A u \in {id} : /\ l.first[parent[u]] = IF prevLive[u] = 0 THEN nextLive[u]
                                                    ELSE firstLive[parent[u]]
                            /\ l.last[parent[u]] = IF nextLive[u] = 0 THEN prevLive[u]
                                                   ELSE lastLive[parent[u]]
        BY <1>1, UnlinkIs
      <4>2. QED BY <4>1
    <3>2. nextLive[id] # id
      <4>1. SUFFICES ASSUME nextLive[id] = id PROVE FALSE OBVIOUS
      <4>2. PICK rank \in [Task -> Int] : \E lo, hi \in Int : Ranks(nextLive, rank, lo, hi)
        BY DEF LinkOK, Linked
      <4>3. rank[id] < rank[id] BY <1>5, <4>1, <4>2 DEF Ranks
      <4>4. rank[id] \in Int OBVIOUS
      <4>5. QED BY <4>3, <4>4
    <3>3. prevLive[id] # id BY <1>5, <3>2 DEF LinkOK, Linked, Half
    <3>4. lastLive[b] = id => nextLive[id] = 0 BY <1>5 DEF LinkOK, Linked, Half
    <3>5. QED BY <2>2, <3>1, <3>2, <3>3, <3>4
  <2>3. QED BY <2>1, <2>2
<1>7. /\ nextLive' = [l.next EXCEPT ![id] = l.first[b]]
      /\ prevLive' = [x \in Task |-> IF x = l.first[b] THEN id ELSE l.prev[x]]
      /\ lastLive' = [l.last EXCEPT ![b] = IF l.first[b] = 0 THEN id ELSE @]
      /\ firstLive' = [l.first EXCEPT ![b] = id]
  BY DEF moveLiveFront
<1>8. Pushes(id, b, l.first, l.last, l.prev, l.next, firstLive', lastLive', prevLive', nextLive')
  <2>1. /\ firstLive' \in [Node -> Task \cup {0}] /\ lastLive' \in [Node -> Task \cup {0}]
        /\ prevLive' \in [Task -> Task \cup {0}] /\ nextLive' \in [Task -> Task \cup {0}]
    BY <1>4, <1>7
  <2>2. \A x \in Node : firstLive'[x] = IF x = b THEN id ELSE l.first[x] BY <1>4, <1>7
  <2>3. \A x \in Node : lastLive'[x] = IF x = b /\ l.first[b] = 0 THEN id ELSE l.last[x] BY <1>4, <1>7
  <2>4. \A x \in Task : nextLive'[x] = IF x = id THEN l.first[b] ELSE l.next[x] BY <1>4, <1>7
  <2>5. \A x \in Task : prevLive'[x] = IF x = l.first[b] THEN id ELSE l.prev[x] BY <1>7
  <2>6. QED BY <2>1, <2>2, <2>3, <2>4, <2>5 DEF Pushes
<1>9. QED BY <1>1, <1>2, <1>3, <1>6, <1>8

\* moveLiveFront keeps the lists in order.
LEMMA LinkedMove ==
  ASSUME LinkOK, NEW id \in Task, parent[id] \in Node, moveLiveFront(id), parent' = parent
  PROVE  LinkOK'
<1> DEFINE b == parent[id]
           l == unlinkLive({id})
<1>1. CASE firstLive[b] = id
  <2>1. UNCHANGED links BY <1>1 DEF moveLiveFront
  <2>2. QED BY <2>1 DEF links, LinkOK
<1>2. CASE firstLive[b] # id
  <2>1. /\ l.next[id] = 0 /\ l.prev[id] = 0
        /\ Linked(parent, l.first, l.last, l.prev, l.next)
        /\ \A x \in Node : l.first[x] # id /\ l.last[x] # id
        /\ Pushes(id, b, l.first, l.last, l.prev, l.next,
                  firstLive', lastLive', prevLive', nextLive')
    BY <1>2, MovePushes
  <2> HIDE DEF l
  <2>2. Half(parent, l.first, l.next, l.prev) /\ Half(parent, l.last, l.prev, l.next)
    BY <2>1 DEF Linked
  <2>3. Half(parent', firstLive', nextLive', prevLive') /\ Half(parent', lastLive', prevLive', nextLive')
    BY <2>1, <2>2, HalvesPush
  <2>4. PICK rank \in [Task -> Int] : \E lo, hi \in Int : Ranks(l.next, rank, lo, hi)
    BY <2>1 DEF Linked
  <2>5. PICK lo \in Int, hi \in Int : Ranks(l.next, rank, lo, hi) BY <2>4
  <2> DEFINE r == [rank EXCEPT ![id] = lo]
  <2>6. r \in [Task -> Int] /\ \A x \in Task : r[x] = IF x = id THEN lo ELSE rank[x] BY <2>5
  <2>7. lo < hi
    <3>1. lo < rank[id] /\ rank[id] < hi /\ rank[id] \in Int BY <2>5 DEF Ranks
    <3>2. QED BY <3>1
  <2> HIDE DEF r
  <2>8. ASSUME NEW x \in Task, nextLive'[x] # 0 PROVE r[x] < r[nextLive'[x]]
    <3>1. \A y \in Task : l.next[y] # id BY <2>1, <2>2, Unlisted
    <3>2. nextLive'[x] = IF x = id THEN l.first[b] ELSE l.next[x] BY <2>1 DEF Pushes
    <3>3. CASE x = id
      <4>1. l.first[b] \in Task /\ l.first[b] # id BY <2>1, <2>2, <2>8, <3>2, <3>3 DEF Half
      <4>2. lo < rank[l.first[b]] BY <2>5, <4>1 DEF Ranks
      <4>3. QED BY <2>6, <3>2, <3>3, <4>1, <4>2
    <3>4. CASE x # id
      <4>1. l.next[x] \in Task /\ l.next[x] # id BY <2>2, <2>8, <3>1, <3>2, <3>4 DEF Half
      <4>2. rank[x] < rank[l.next[x]] BY <2>5, <2>8, <3>2, <3>4 DEF Ranks
      <4>3. QED BY <2>6, <3>2, <3>4, <4>1, <4>2
    <3>5. QED BY <3>3, <3>4
  <2>9. Ranks(nextLive', r, lo - 1, hi)
    <3>1. ASSUME NEW x \in Task PROVE lo - 1 < r[x] /\ r[x] < hi
      <4>1. lo < rank[x] /\ rank[x] < hi /\ rank[x] \in Int BY <2>5 DEF Ranks
      <4>2. QED BY <2>6, <2>7, <4>1
    <3>2. QED BY <2>6, <2>8, <3>1 DEF Ranks
  <2>10. QED BY <2>3, <2>6, <2>9 DEF LinkOK, Linked
<1>3. QED BY <1>1, <1>2

(***************************************************************************)
(* The task that leaves and its idle ancestors are on one path, so each is *)
(* in a list of its own.                                                   *)
(***************************************************************************)
LEMMA LeavingApart ==
  ASSUME TreeOK, Paths, NEW id, Ends(id)
  PROVE  Apart(Leaving(id))
<1>1. Leaving(id) \subseteq Task /\ \A t \in Leaving(id) : Live(t) /\ (t = id \/ t \in anc[id])
  BY LeavingLive
<1>2. id \in Node /\ id \in Task BY EndsLive
<1>3. ASSUME NEW t \in Leaving(id) PROVE parent[t] \in Node /\ parent[t] # 0
  <2>1. CASE t = id BY <2>1, EndsLive
  <2>2. CASE t \in anc[id]
    <3>1. id < next BY <1>2 DEF TreeOK, Ends, Unfinished
    <3>2. t < id /\ t \in Task BY <1>1, <1>2, <2>2 DEF Paths
    <3>3. t < next BY <1>2, <3>1, <3>2 DEF Task, TreeOK
    <3>4. parent[t] \in Node BY <3>2, <3>3 DEF TreeOK
    <3>5. QED BY <3>4 DEF Node
  <2>3. QED BY <1>1, <2>1, <2>2
<1>4. ASSUME NEW u \in Leaving(id), NEW v \in Leaving(id), parent[u] = parent[v] PROVE u = v
  BY <1>1, <1>2, <1>3, <1>4, OneChild
<1>5. QED BY <1>1, <1>3, <1>4 DEF Apart

\* Every step keeps the lists in order.
LEMMA LinkNext == TreeOK /\ Paths /\ LinkOK /\ [Next]_vars => LinkOK'
<1> SUFFICES ASSUME TreeOK, Paths, LinkOK, [Next]_vars PROVE LinkOK' OBVIOUS
<1>1. ASSUME UNCHANGED <<parent, links>> PROVE LinkOK' BY <1>1 DEF LinkOK, links
<1>2. CASE UNCHANGED vars BY <1>1, <1>2 DEF vars
<1>3. ASSUME NEW b \in Node, alloc(b) PROVE LinkOK' BY <1>3, LinkedAlloc
<1>4. ASSUME NEW t \in Task, runClaim(t) PROVE LinkOK' BY <1>1, <1>4 DEF runClaim
<1>5. ASSUME NEW t \in Task, runMove(t) PROVE LinkOK'
  <2>1. parent[t] \in Node BY <1>5, RunsOn
  <2>2. moveLiveFront(t) /\ parent' = parent BY <1>5 DEF runMove
  <2>3. QED BY <2>1, <2>2, LinkedMove
<1>6. ASSUME NEW t \in Task, runFinish(t) \/ fail(t) PROVE LinkOK'
  <2>1. Ends(t) /\ IF liveN[t] = 0 THEN Unlink(Leaving(t)) ELSE UNCHANGED links BY <1>6, FinishEnds
  <2>2. CASE liveN[t] # 0 BY <1>1, <2>1, <2>2 DEF Ends
  <2>3. CASE liveN[t] = 0
    <3> DEFINE l == unlinkLive(Leaving(t))
    <3>1. Linked(parent, l.first, l.last, l.prev, l.next) BY <2>1, LeavingApart, LinkedUnlink
    <3>2. /\ nextLive' = l.next /\ prevLive' = l.prev /\ firstLive' = l.first /\ lastLive' = l.last
          /\ parent' = parent
      BY <2>1, <2>3 DEF Unlink, Ends
    <3> HIDE DEF l
    <3>3. QED BY <3>1, <3>2 DEF LinkOK
  <2>4. QED BY <2>2, <2>3
<1>7. QED BY <1>2, <1>3, <1>4, <1>5, <1>6 DEF Next

\* The lists of the empty tree.
LEMMA LinkInit == Init => LinkOK
<1> SUFFICES ASSUME Init PROVE LinkOK OBVIOUS
<1>1. Half(parent, firstLive, nextLive, prevLive) /\ Half(parent, lastLive, prevLive, nextLive)
  BY DEF Half, Init
<1>2. [t \in Task |-> 0] \in [Task -> Int] /\ Ranks(nextLive, [t \in Task |-> 0], -1, 1)
  BY DEF Ranks, Init
<1>3. QED BY <1>1, <1>2 DEF LinkOK, Linked

\* The lists are in order in every reachable state.
LEMMA LinkInv == Spec => [](TreeOK /\ Paths /\ CountOK /\ LinkOK)
BY CountInv, LinkInit, LinkNext, PTL DEF Spec

-----------------------------------------------------------------------------
(* The rows that walkLive visits *)

(***************************************************************************)
(* The rows are defined for every step of the walk.                        *)
(***************************************************************************)
LEMMA WalkExists ==
  ASSUME LinkOK, NEW b \in Node, NEW n \in Nat
  PROVE  \E r \in [0..n -> Task \cup {0}] :
            \A k \in 0..n : r[k] = IF k = 0 THEN firstLive[b] ELSE At(nextLive, r[k - 1])
<1> DEFINE V == Task \cup {0}
           Walk(r, m) == \A k \in 0..m : r[k] = IF k = 0 THEN firstLive[b] ELSE At(nextLive, r[k - 1])
           S == {m \in Nat : \E r \in [0..m -> V] : Walk(r, m)}
<1>1. firstLive[b] \in V /\ \A x \in V : At(nextLive, x) \in V BY DEF LinkOK, Linked, Half, At
<1>2. 0 \in S
  <2>1. [k \in 0..0 |-> firstLive[b]] \in [0..0 -> V] /\ Walk([k \in 0..0 |-> firstLive[b]], 0) BY <1>1
  <2>2. QED BY <2>1
<1>3. ASSUME NEW m \in 0..(n - 1), m \in S PROVE m + 1 \in S
  <2>1. PICK h \in [0..m -> V] : Walk(h, m) BY <1>3
  <2> DEFINE e == [k \in 0..(m + 1) |-> IF k = m + 1 THEN At(nextLive, h[m]) ELSE h[k]]
  <2>2. m \in Nat /\ h[m] \in V OBVIOUS
  <2>3. e \in [0..(m + 1) -> V] BY <1>1, <2>2
  <2>4. ASSUME NEW k \in 0..(m + 1) PROVE e[k] = IF k = 0 THEN firstLive[b] ELSE At(nextLive, e[k - 1])
    <3>1. CASE k = 0 BY <2>1, <2>2, <3>1
    <3>2. CASE k = m + 1 BY <2>2, <3>2
    <3>3. CASE k \in 1..m
      <4>1. h[k] = At(nextLive, h[k - 1]) BY <2>1, <2>2, <3>3
      <4>2. e[k] = h[k] /\ e[k - 1] = h[k - 1] BY <2>2, <3>3
      <4>3. QED BY <3>3, <4>1, <4>2
    <3>4. QED BY <2>2, <3>1, <3>2, <3>3
  <2>5. m + 1 \in Nat BY <2>2
  <2> HIDE DEF e
  <2>6. Walk(e, m + 1) BY <2>4
  <2>7. \E r \in [0..(m + 1) -> V] : Walk(r, m + 1) BY <2>3, <2>6, Zenon
  <2>8. QED BY <2>5, <2>7
<1> HIDE DEF S
<1>4. \A k \in 0..n : k \in S BY <1>2, <1>3, UpTo
<1>5. n \in S BY <1>4
<1>6. QED BY <1>5 DEF S

(***************************************************************************)
(* The walk step by step: the rows under b are children of b.              *)
(***************************************************************************)
LEMMA RowIs ==
  ASSUME LinkOK, NEW b \in Node, NEW row, row = Row(b)
  PROVE  /\ row[0] = firstLive[b]
         /\ \A k \in 0..(MaxID - 1) : row[k + 1] = At(nextLive, row[k])
         /\ \A k \in 0..MaxID : row[k] \in Task \cup {0} /\ (row[k] # 0 => parent[row[k]] = b)
<1> DEFINE r == CHOOSE r : r = [k \in 0..MaxID |-> IF k = 0 THEN firstLive[b] ELSE At(nextLive, r[k - 1])]
<1>1. MaxID \in Nat BY MaxIDAssumption
<1>2. PICK h \in [0..MaxID -> Task \cup {0}] :
         \A k \in 0..MaxID : h[k] = IF k = 0 THEN firstLive[b] ELSE At(nextLive, h[k - 1])
  BY <1>1, WalkExists
<1>3. h = [k \in 0..MaxID |-> IF k = 0 THEN firstLive[b] ELSE At(nextLive, h[k - 1])] BY <1>2
<1>4. r = [k \in 0..MaxID |-> IF k = 0 THEN firstLive[b] ELSE At(nextLive, r[k - 1])] BY <1>3, Zenon
<1>5. row = r BY Zenon DEF Row
<1> HIDE DEF r
<1>6. row = [k \in 0..MaxID |-> IF k = 0 THEN firstLive[b] ELSE At(nextLive, row[k - 1])]
  BY <1>4, <1>5, Zenon
<1>7. row[0] = firstLive[b] BY <1>1, <1>6
<1>8. ASSUME NEW k \in 0..(MaxID - 1) PROVE row[k + 1] = At(nextLive, row[k])
  <2>1. k + 1 \in 0..MaxID /\ k + 1 # 0 /\ (k + 1) - 1 = k BY <1>1
  <2>2. row[k + 1] = IF k + 1 = 0 THEN firstLive[b] ELSE At(nextLive, row[(k + 1) - 1]) BY <1>6, <2>1
  <2>3. QED BY <2>1, <2>2
<1> DEFINE S == {k \in 0..MaxID : row[k] \in Task \cup {0} /\ (row[k] # 0 => parent[row[k]] = b)}
<1>9. 0 \in S BY <1>1, <1>7 DEF LinkOK, Linked, Half
<1>10. ASSUME NEW k \in 0..(MaxID - 1), k \in S PROVE k + 1 \in S
  <2>1. k + 1 \in 0..MaxID /\ row[k + 1] = At(nextLive, row[k]) BY <1>1, <1>8
  <2>2. row[k] \in Task \cup {0} /\ (row[k] # 0 => parent[row[k]] = b) BY <1>10
  <2>3. CASE row[k] = 0 BY <2>1, <2>3 DEF At
  <2>4. CASE row[k] # 0
    <3>1. row[k] \in Task /\ row[k + 1] = nextLive[row[k]] BY <2>1, <2>2, <2>4 DEF At
    <3>2. nextLive[row[k]] \in Task \cup {0} BY <3>1 DEF LinkOK, Linked, Half
    <3>3. nextLive[row[k]] # 0 => parent[nextLive[row[k]]] = parent[row[k]]
      BY <3>1 DEF LinkOK, Linked, Half
    <3>4. QED BY <2>1, <2>2, <2>4, <3>1, <3>2, <3>3
  <2>5. QED BY <2>3, <2>4
<1>11. \A k \in 0..MaxID : k \in S
  <2> HIDE DEF S
  <2>1. QED BY <1>1, <1>9, <1>10, UpTo
<1>12. QED BY <1>7, <1>8, <1>11

(***************************************************************************)
(* The rank grows along the walk, so a row k steps down the list has k     *)
(* tasks below its rank.                                                   *)
(***************************************************************************)
LEMMA RowRank ==
  ASSUME LinkOK, NEW b \in Node, NEW row, row = Row(b),
         NEW rank \in [Task -> Int], NEW lo \in Int, NEW hi \in Int, Ranks(nextLive, rank, lo, hi)
  PROVE  \A k \in 0..MaxID : row[k] # 0 => Cardinality({x \in Task : rank[x] < rank[row[k]]}) >= k
<1> DEFINE B(y) == {x \in Task : rank[x] < rank[y]}
           S == {k \in 0..MaxID : row[k] # 0 => Cardinality(B(row[k])) >= k}
<1>1. \A y : IsFiniteSet(B(y)) /\ Cardinality(B(y)) \in Nat
  <2>1. IsFiniteSet(Task) BY MaxIDAssumption, FS_Interval DEF Task
  <2>2. \A y : B(y) \subseteq Task OBVIOUS
  <2> HIDE DEF B
  <2>3. QED BY <2>1, <2>2, FS_Subset, FS_CardinalityType
<1>2. /\ \A k \in 0..(MaxID - 1) : row[k + 1] = At(nextLive, row[k])
      /\ \A k \in 0..MaxID : row[k] \in Task \cup {0}
  BY RowIs
<1>3. 0 \in S BY <1>1, MaxIDAssumption
<1>4. ASSUME NEW k \in 0..(MaxID - 1), k \in S PROVE k + 1 \in S
  <2>1. k + 1 \in 0..MaxID /\ k \in 0..MaxID /\ k \in Nat BY MaxIDAssumption
  <2>2. CASE row[k + 1] = 0 BY <2>1, <2>2
  <2>3. CASE row[k + 1] # 0
    <3>1. row[k] # 0 /\ row[k + 1] = nextLive[row[k]] BY <1>2, <2>3 DEF At
    <3>2. row[k] \in Task /\ row[k + 1] \in Task BY <1>2, <2>1, <2>3, <3>1
    <3>3. rank[row[k]] < rank[row[k + 1]] BY <2>3, <3>1, <3>2 DEF Ranks
    <3>4. rank[row[k]] \in Int /\ rank[row[k + 1]] \in Int BY <3>2
    <3>5. B(row[k]) \cup {row[k]} \subseteq B(row[k + 1]) /\ row[k] \notin B(row[k])
      BY <3>2, <3>3, <3>4
    <3>6. Cardinality(B(row[k])) >= k BY <1>4, <3>1
    <3> HIDE DEF B
    <3>7. /\ Cardinality(B(row[k]) \cup {row[k]}) = Cardinality(B(row[k])) + 1
          /\ IsFiniteSet(B(row[k]) \cup {row[k]})
      BY <1>1, <3>5, FS_AddElement
    <3>8. Cardinality(B(row[k]) \cup {row[k]}) <= Cardinality(B(row[k + 1]))
      BY <1>1, <3>5, FS_Subset
    <3>9. Cardinality(B(row[k + 1])) >= k + 1
      <4>1. Cardinality(B(row[k])) \in Nat /\ Cardinality(B(row[k + 1])) \in Nat BY <1>1
      <4>2. QED BY <2>1, <3>6, <3>7, <3>8, <4>1
    <3>10. QED BY <2>1, <3>9
  <2>4. QED BY <2>2, <2>3
<1>5. \A k \in 0..MaxID : k \in S
  <2> HIDE DEF S
  <2>1. QED BY <1>3, <1>4, UpTo, MaxIDAssumption
<1>6. QED BY <1>5

\* More steps than there are tasks are not possible.
LEMMA RowsEndIf == LinkOK => RowsEnd
<1> SUFFICES ASSUME LinkOK, NEW b \in Node PROVE Row(b)[MaxID] = 0 BY DEF RowsEnd
<1> DEFINE row == Row(b)
<1> HIDE DEF row
<1>1. PICK rank \in [Task -> Int] : \E lo, hi \in Int : Ranks(nextLive, rank, lo, hi)
  BY DEF LinkOK, Linked
<1> DEFINE B == {x \in Task : rank[x] < rank[row[MaxID]]}
<1>2. row[MaxID] # 0 => Cardinality(B) >= MaxID
  <2>1. MaxID \in 0..MaxID BY MaxIDAssumption
  <2>2. QED BY <1>1, <2>1, RowRank DEF row
<1>3. IsFiniteSet(Task) /\ Cardinality(Task) = MaxID - 1
  BY MaxIDAssumption, FS_Interval DEF Task
<1>4. B \subseteq Task OBVIOUS
<1> HIDE DEF B
<1>5. Cardinality(B) <= MaxID - 1 /\ Cardinality(B) \in Nat BY <1>3, <1>4, FS_Subset, FS_CardinalityType
<1>6. row[MaxID] = 0 BY <1>2, <1>5, MaxIDAssumption
<1>7. QED BY <1>6 DEF row

(***************************************************************************)
(* For any number of tasks, and even when a failure has crossed a claim    *)
(* and a list has lost a row: walkLive and List come to the end of every   *)
(* list.                                                                   *)
(***************************************************************************)
THEOREM WalksEnd == Spec => []RowsEnd
BY LinkInv, RowsEndIf, PTL

-----------------------------------------------------------------------------
(* The lists are whole as long as no failure has crossed a claim *)

(* Seen from one end: the rows of L are in the lists, and no other task.   *)
Covers(L, par, end, back) ==
  /\ \A c \in L : back[c] = 0 => end[par[c]] = c
  /\ \A c \in Task \ L : back[c] = 0
  /\ \A b \in Node : end[b] # 0 => end[b] \in L

Full(L, par, f, l, p, n) ==
  /\ Covers(L, par, f, p) /\ Covers(L, par, l, n)
  /\ \A b \in Node : f[b] = 0 <=> l[b] = 0

LiveTasks == {t \in Task : Live(t)}

(***************************************************************************)
(* unlinkLive takes the rows of U out of the lists and no other.           *)
(***************************************************************************)
LEMMA CoversUnlink ==
  ASSUME NEW end, NEW other, NEW link, NEW back, NEW U, Apart(U),
         Half(parent, end, link, back), Half(parent, other, back, link),
         \A x \in Task : link[x] # x,
         NEW L, L \subseteq Task, U \subseteq L, \A c \in L : parent[c] \in Node,
         Covers(L, parent, end, back)
  PROVE  Covers(L \ U, parent, NewEnd(end, link, back, U), Bypass(back, link, U))
<1> DEFINE E == NewEnd(end, link, back, U)
           B == Bypass(back, link, U)
<1>1. U \subseteq Task /\ 0 \notin U /\ 0 \notin Task BY DEF Apart, Task
<1>2. /\ \A x \in Task : link[x] \in Task \cup {0} /\ back[x] \in Task \cup {0}
      /\ \A x \in Task : link[x] # 0 => back[link[x]] = x /\ parent[link[x]] = parent[x]
      /\ \A x \in Task : back[x] # 0 => link[back[x]] = x /\ parent[back[x]] = parent[x]
      /\ \A b \in Node : end[b] # 0 => back[end[b]] = 0 /\ parent[end[b]] = b
  BY DEF Half
<1>3. \A x \in Task : B[x] = IF x \in U THEN 0 ELSE IF back[x] \in U THEN back[back[x]] ELSE back[x]
  BY BypassIs
<1>4. /\ \A b \in Node : \A u \in U : parent[u] = b => E[b] = IF back[u] = 0 THEN link[u] ELSE end[b]
      /\ \A b \in Node : (\A u \in U : parent[u] # b) => E[b] = end[b]
  BY NewEndIs
<1>5. \A u, v \in U : parent[u] = parent[v] => u = v BY DEF Apart
<1>6. /\ \A c \in L : back[c] = 0 => end[parent[c]] = c
      /\ \A c \in Task \ L : back[c] = 0
      /\ \A b \in Node : end[b] # 0 => end[b] \in L
  BY DEF Covers
<1> HIDE DEF E, B
<1>7. ASSUME NEW c \in L \ U, B[c] = 0 PROVE E[parent[c]] = c
  <2>1. c \in Task /\ parent[c] \in Node OBVIOUS
  <2>2. CASE back[c] \in U
    <3>1. PICK u \in U : u = back[c] BY <2>2
    <3>2. back[u] = 0 /\ link[u] = c /\ parent[u] = parent[c] BY <1>1, <1>2, <1>3, <1>7, <2>1, <3>1
    <3>3. QED BY <1>4, <2>1, <3>2
  <2>3. CASE back[c] \notin U
    <3>1. back[c] = 0 /\ end[parent[c]] = c BY <1>3, <1>6, <1>7, <2>1, <2>3
    <3>2. \A u \in U : parent[u] = parent[c] => back[u] # 0 BY <1>6, <1>7, <3>1
    <3>3. CASE \E u \in U : parent[u] = parent[c]
      <4>1. PICK u \in U : parent[u] = parent[c] BY <3>3
      <4>2. E[parent[c]] = end[parent[c]] BY <1>4, <2>1, <3>2, <4>1
      <4>3. QED BY <3>1, <4>2
    <3>4. CASE \A u \in U : parent[u] # parent[c] BY <1>4, <2>1, <3>1, <3>4
    <3>5. QED BY <3>3, <3>4
  <2>4. QED BY <2>2, <2>3
<1>8. ASSUME NEW c \in Task \ (L \ U) PROVE B[c] = 0
  <2>1. CASE c \in U BY <1>3, <2>1
  <2>2. CASE c \notin U
    <3>1. back[c] = 0 BY <1>6, <2>2
    <3>2. QED BY <1>1, <1>3, <2>2, <3>1
  <2>3. QED BY <2>1, <2>2
<1>9. ASSUME NEW b \in Node, E[b] # 0 PROVE E[b] \in L \ U
  <2>1. CASE \E u \in U : parent[u] = b /\ back[u] = 0
    <3>1. PICK u \in U : parent[u] = b /\ back[u] = 0 BY <2>1
    <3>2. E[b] = link[u] /\ u \in Task /\ u # 0 BY <1>1, <1>4, <3>1
    <3>3. link[u] \in Task /\ back[link[u]] = u /\ parent[link[u]] = parent[u] BY <1>2, <1>9, <3>2
    <3>4. link[u] \notin U
      <4>1. link[u] # u BY <3>2
      <4>2. QED BY <1>5, <3>3, <4>1
    <3>5. link[u] \in L BY <1>6, <3>2, <3>3
    <3>6. QED BY <3>2, <3>4, <3>5
  <2>2. CASE \A u \in U : parent[u] = b => back[u] # 0
    <3>1. E[b] = end[b]
      <4>1. CASE \E u \in U : parent[u] = b
        <5>1. PICK u \in U : parent[u] = b BY <4>1
        <5>2. QED BY <1>4, <2>2, <5>1
      <4>2. CASE \A u \in U : parent[u] # b BY <1>4, <4>2
      <4>3. QED BY <4>1, <4>2
    <3>2. end[b] \in L /\ back[end[b]] = 0 /\ parent[end[b]] = b BY <1>2, <1>6, <1>9, <3>1
    <3>3. QED BY <2>2, <3>1, <3>2
  <2>3. QED BY <2>1, <2>2
<1>10. Covers(L \ U, parent, E, B) BY <1>7, <1>8, <1>9 DEF Covers
<1>11. QED BY <1>10 DEF E, B

\* No row is its own neighbour.
LEMMA NoLoop ==
  ASSUME LinkOK
  PROVE  \A x \in Task : nextLive[x] # x /\ prevLive[x] # x
<1>1. PICK rank \in [Task -> Int] : \E lo, hi \in Int : Ranks(nextLive, rank, lo, hi)
  BY DEF LinkOK, Linked
<1>2. ASSUME NEW x \in Task, nextLive[x] = x PROVE FALSE
  <2>1. x # 0 /\ rank[x] \in Int BY DEF Task
  <2>2. rank[x] < rank[x] BY <1>1, <1>2, <2>1 DEF Ranks
  <2>3. QED BY <2>1, <2>2
<1>3. ASSUME NEW x \in Task, prevLive[x] = x PROVE FALSE
  <2>1. x # 0 BY DEF Task
  <2>2. nextLive[x] = x BY <1>3, <2>1 DEF LinkOK, Linked, Half
  <2>3. QED BY <1>2, <2>2
<1>4. QED BY <1>2, <1>3

\* unlinkLive, seen from both ends.
LEMMA FullUnlink ==
  ASSUME LinkOK, NEW U, Apart(U), NEW L, L \subseteq Task, U \subseteq L, \A c \in L : parent[c] \in Node,
         Full(L, parent, firstLive, lastLive, prevLive, nextLive), NEW l, l = unlinkLive(U)
  PROVE  Full(L \ U, parent, l.first, l.last, l.prev, l.next)
<1>1. Half(parent, firstLive, nextLive, prevLive) /\ Half(parent, lastLive, prevLive, nextLive)
  BY DEF LinkOK, Linked
<1>2. \A x \in Task : nextLive[x] # x /\ prevLive[x] # x BY NoLoop
<1>3. /\ Covers(L, parent, firstLive, prevLive) /\ Covers(L, parent, lastLive, nextLive)
      /\ \A b \in Node : firstLive[b] = 0 <=> lastLive[b] = 0
  BY DEF Full
<1>4. Covers(L \ U, parent, l.first, l.prev)
  <2>1. l.first = NewEnd(firstLive, nextLive, prevLive, U) /\ l.prev = Bypass(prevLive, nextLive, U)
    BY DEF unlinkLive
  <2>2. QED BY <1>1, <1>2, <1>3, <2>1, CoversUnlink
<1>5. Covers(L \ U, parent, l.last, l.next)
  <2>1. l.last = NewEnd(lastLive, prevLive, nextLive, U) /\ l.next = Bypass(nextLive, prevLive, U)
    BY DEF unlinkLive
  <2>2. QED BY <1>1, <1>2, <1>3, <2>1, CoversUnlink
<1>6. ASSUME NEW b \in Node PROVE l.first[b] = 0 <=> l.last[b] = 0
  <2>1. CASE \A u \in U : parent[u] # b
    <3>1. l.first[b] = firstLive[b] /\ l.last[b] = lastLive[b] BY <2>1, UnlinkIs
    <3>2. QED BY <1>3, <3>1
  <2>2. CASE \E u \in U : parent[u] = b
    <3>1. PICK u \in U : parent[u] = b BY <2>2
    <3>2. /\ l.first[parent[u]] = IF prevLive[u] = 0 THEN nextLive[u] ELSE firstLive[parent[u]]
          /\ l.last[parent[u]] = IF nextLive[u] = 0 THEN prevLive[u] ELSE lastLive[parent[u]]
      BY UnlinkIs
    <3>3. /\ prevLive[u] = 0 => firstLive[b] = u
          /\ nextLive[u] = 0 => lastLive[b] = u
      BY <1>3, <3>1 DEF Covers
    <3>4. u # 0 BY DEF Task
    <3>5. QED BY <1>3, <3>1, <3>2, <3>3, <3>4
  <2>3. QED BY <2>1, <2>2
<1>7. QED BY <1>4, <1>5, <1>6 DEF Full

(***************************************************************************)
(* A push adds its row to the rows and no other.                           *)
(***************************************************************************)
LEMMA FullPush ==
  ASSUME NEW par, NEW f, NEW l, NEW p, NEW n, Half(par, f, n, p), Half(par, l, p, n),
         NEW id \in Task, NEW b \in Node, NEW L, L \subseteq Task, id \notin L,
         \A c \in L : par[c] \in Node, Full(L, par, f, l, p, n),
         NEW par2, par2[id] = b, \A x \in Task : x # id => par2[x] = par[x],
         NEW f2, NEW l2, NEW p2, NEW n2, Pushes(id, b, f, l, p, n, f2, l2, p2, n2)
  PROVE  Full(L \cup {id}, par2, f2, l2, p2, n2)
<1> USE DEF Pushes
<1>1. 0 \notin Task /\ 0 \notin Node /\ id # 0 /\ b # 0 BY DEF Task, Node
<1>2. /\ \A c \in L : p[c] = 0 => f[par[c]] = c
      /\ \A c \in Task \ L : p[c] = 0
      /\ \A x \in Node : f[x] # 0 => f[x] \in L
      /\ \A c \in L : n[c] = 0 => l[par[c]] = c
      /\ \A c \in Task \ L : n[c] = 0
      /\ \A x \in Node : l[x] # 0 => l[x] \in L
      /\ \A x \in Node : f[x] = 0 <=> l[x] = 0
  BY DEF Full, Covers
<1>3. \A c \in L : c \in Task /\ c # id /\ c # 0 /\ par2[c] = par[c] /\ par[c] \in Node BY <1>1
<1>4. Covers(L \cup {id}, par2, f2, p2)
  <2>1. ASSUME NEW c \in L \cup {id}, p2[c] = 0 PROVE f2[par2[c]] = c
    <3>1. CASE c = id BY <3>1
    <3>2. CASE c \in L
      <4>1. c # f[b] /\ p[c] = 0 BY <1>1, <1>3, <2>1, <3>2
      <4>2. f[par[c]] = c /\ par[c] # b BY <1>2, <3>2, <4>1
      <4>3. QED BY <1>3, <3>2, <4>2
    <3>3. QED BY <3>1, <3>2
  <2>2. ASSUME NEW c \in Task \ (L \cup {id}) PROVE p2[c] = 0
    <3>1. c # f[b] BY <1>1, <1>2, <2>2
    <3>2. QED BY <1>2, <3>1
  <2>3. ASSUME NEW x \in Node, f2[x] # 0 PROVE f2[x] \in L \cup {id} BY <1>2, <2>3
  <2>4. QED BY <2>1, <2>2, <2>3 DEF Covers
<1>5. Covers(L \cup {id}, par2, l2, n2)
  <2>1. ASSUME NEW c \in L \cup {id}, n2[c] = 0 PROVE l2[par2[c]] = c
    <3>1. CASE c = id BY <2>1, <3>1
    <3>2. CASE c \in L
      <4>1. n[c] = 0 BY <1>3, <2>1, <3>2
      <4>2. l[par[c]] = c BY <1>2, <3>2, <4>1
      <4>3. ~(par[c] = b /\ f[b] = 0) BY <1>2, <1>3, <3>2, <4>2
      <4>4. QED BY <1>3, <3>2, <4>2, <4>3
    <3>3. QED BY <3>1, <3>2
  <2>2. ASSUME NEW c \in Task \ (L \cup {id}) PROVE n2[c] = 0 BY <1>2
  <2>3. ASSUME NEW x \in Node, l2[x] # 0 PROVE l2[x] \in L \cup {id} BY <1>2, <2>3
  <2>4. QED BY <2>1, <2>2, <2>3 DEF Covers
<1>6. \A x \in Node : f2[x] = 0 <=> l2[x] = 0 BY <1>1, <1>2
<1>7. QED BY <1>4, <1>5, <1>6 DEF Full

(* The rows of running tasks come first, and a task that run has claimed   *)
(* but not moved is unfinished.                                            *)
MovedFirst == \A c \in Task : nextLive[c] # 0 /\ phase[nextLive[c]] = "moved" => phase[c] = "moved"

ClaimedRuns == \A t \in Task : phase[t] = "claimed" => state[t] = "Running"

Whole ==
  /\ Full(LiveTasks, parent, firstLive, lastLive, prevLive, nextLive)
  /\ MovedFirst /\ ClaimedRuns

WholeOK == ~overtaken => Whole

(***************************************************************************)
(* What is live has a parent.                                              *)
(***************************************************************************)
LEMMA LiveHasParent ==
  ASSUME TreeOK, Paths
  PROVE  LiveTasks \subseteq Task /\ \A c \in LiveTasks : parent[c] \in Node
<1>1. ASSUME NEW c \in LiveTasks PROVE parent[c] \in Node
  <2>1. c \in Task /\ c \in Int /\ Live(c) BY DEF LiveTasks, Task
  <2>2. PICK u \in Unfinished : u = c \/ c \in anc[u] BY <2>1 DEF Live
  <2>3. u \in Task /\ u \in Node /\ u \in Int /\ u < next BY DEF Unfinished, TreeOK, Task, Node
  <2>4. c <= u
    <3>1. CASE u = c BY <2>1, <3>1
    <3>2. CASE c \in anc[u]
      <4>1. c < u BY <2>3, <3>2 DEF Paths
      <4>2. QED BY <2>1, <2>3, <4>1
    <3>3. QED BY <2>2, <3>1, <3>2
  <2>5. c < next BY <2>1, <2>3, <2>4 DEF TreeOK
  <2>6. QED BY <2>1, <2>5 DEF TreeOK
<1>2. QED BY <1>1 DEF LiveTasks

\* linkLive adds the new task, which does not run.
LEMMA WholeAlloc ==
  ASSUME TreeOK, Paths, CountOK, LinkOK, WholeOK, NEW b \in Node, alloc(b)
  PROVE  WholeOK'
<1> SUFFICES ASSUME ~overtaken' PROVE Whole' BY DEF WholeOK
<1>1. Whole /\ phase' = phase /\ state' = [state EXCEPT ![next] = "Pending"]
      /\ parent' = [parent EXCEPT ![next] = b]
  BY DEF WholeOK, alloc
<1>2. /\ next \in Task /\ nextLive[next] = 0 /\ prevLive[next] = 0
      /\ Pushes(next, b, lastLive, firstLive, nextLive, prevLive,
                lastLive', firstLive', nextLive', prevLive')
  BY AllocPushes
<1>3. LiveTasks' = LiveTasks \cup {next} /\ next \notin LiveTasks
  BY <1>2, CountAlloc DEF LiveTasks
<1>4. Full(LiveTasks', parent', firstLive', lastLive', prevLive', nextLive')
  <2>1. Full(LiveTasks, parent, lastLive, firstLive, nextLive, prevLive) BY <1>1 DEF Whole, Full
  <2>2. Half(parent, firstLive, nextLive, prevLive) /\ Half(parent, lastLive, prevLive, nextLive)
    BY DEF LinkOK, Linked
  <2>3. parent'[next] = b /\ \A x \in Task : x # next => parent'[x] = parent[x]
    BY <1>1, <1>2 DEF TreeOK
  <2>4. Full(LiveTasks \cup {next}, parent', lastLive', firstLive', nextLive', prevLive')
    BY <1>2, <1>3, <2>1, <2>2, <2>3, LiveHasParent, FullPush
  <2>5. QED BY <1>3, <2>4 DEF Full
<1>5. MovedFirst'
  <2>1. SUFFICES ASSUME NEW c \in Task, nextLive'[c] # 0, phase[nextLive'[c]] = "moved"
                 PROVE  phase[c] = "moved"
    BY <1>1 DEF MovedFirst
  <2>2. phase[next] = "no" BY <1>2 DEF TreeOK, Task
  <2>3. nextLive'[c] = IF c = lastLive[b] THEN next ELSE nextLive[c] BY <1>2 DEF Pushes
  <2>4. QED BY <1>1, <2>1, <2>2, <2>3 DEF Whole, MovedFirst
<1>6. ClaimedRuns'
  <2>1. phase[next] = "no" BY <1>2 DEF TreeOK, Task
  <2>2. QED BY <1>1, <1>2, <2>1 DEF Whole, ClaimedRuns, TreeOK
<1>7. QED BY <1>4, <1>5, <1>6 DEF Whole

\* moveLiveFront puts a task that runs before all others.
LEMMA WholeMove ==
  ASSUME TreeOK, Paths, LinkOK, WholeOK, NEW id \in Task, runMove(id)
  PROVE  WholeOK'
<1> SUFFICES ASSUME ~overtaken' PROVE Whole' BY DEF WholeOK
<1> DEFINE b == parent[id]
           l == unlinkLive({id})
<1>1. /\ Whole /\ moveLiveFront(id) /\ phase[id] = "claimed"
      /\ phase' = [phase EXCEPT ![id] = "moved"] /\ UNCHANGED <<state, parent, anc>>
  BY DEF WholeOK, runMove
<1>2. b \in Node /\ Unfinished' = Unfinished BY RunsOn
<1>3. LiveTasks' = LiveTasks
  <2>1. \A t : Live(t)' <=> Live(t) BY <1>1, <1>2, LiveSame
  <2>2. QED BY <2>1 DEF LiveTasks
<1>4. id \in LiveTasks BY <1>1 DEF Whole, ClaimedRuns, LiveTasks, Live, Unfinished
<1>5. \A x \in Task : phase'[x] = IF x = id THEN "moved" ELSE phase[x] BY <1>1 DEF TreeOK
<1>6. ClaimedRuns' BY <1>1, <1>5 DEF Whole, ClaimedRuns
<1>7. MovedFirst /\ Full(LiveTasks, parent, firstLive, lastLive, prevLive, nextLive) BY <1>1 DEF Whole
<1>8. /\ \A x \in Task : x # 0 /\ nextLive[x] \in Task \cup {0}
      /\ \A x \in Task : nextLive[x] # 0 => prevLive[nextLive[x]] = x
  BY DEF LinkOK, Linked, Half, Task
<1>9. CASE firstLive[b] = id
  <2>1. UNCHANGED links BY <1>1, <1>9 DEF moveLiveFront
  <2>2. Full(LiveTasks', parent', firstLive', lastLive', prevLive', nextLive')
    BY <1>1, <1>3, <1>7, <2>1 DEF links
  <2>3. prevLive[id] = 0 BY <1>2, <1>8, <1>9 DEF LinkOK, Linked, Half
  <2>4. MovedFirst'
    <3>1. SUFFICES ASSUME NEW c \in Task, nextLive[c] # 0, phase'[nextLive[c]] = "moved"
                   PROVE  phase'[c] = "moved"
      BY <2>1 DEF MovedFirst, links
    <3>2. nextLive[c] # id /\ nextLive[c] \in Task BY <1>8, <2>3, <3>1
    <3>3. QED BY <1>5, <1>7, <3>1, <3>2 DEF MovedFirst
  <2>5. QED BY <1>6, <2>2, <2>4 DEF Whole
<1>10. CASE firstLive[b] # id
  <2>1. /\ Apart({id}) /\ Linked(parent, l.first, l.last, l.prev, l.next)
        /\ Pushes(id, b, l.first, l.last, l.prev, l.next,
                  firstLive', lastLive', prevLive', nextLive')
    BY <1>1, <1>2, <1>10, MovePushes
  <2>2. LiveTasks \subseteq Task /\ \A c \in LiveTasks : parent[c] \in Node BY LiveHasParent
  <2>3. Full(LiveTasks \ {id}, parent, l.first, l.last, l.prev, l.next)
    BY <1>4, <1>7, <2>1, <2>2, FullUnlink
  <2>4. \A x \in Task : l.next[x] = IF x \in {id} THEN 0 ELSE IF nextLive[x] \in {id}
                                    THEN nextLive[nextLive[x]] ELSE nextLive[x]
    BY <2>1, UnlinkIs
  <2> HIDE DEF l
  <2>5. Full(LiveTasks', parent', firstLive', lastLive', prevLive', nextLive')
    <3>1. Half(parent, l.first, l.next, l.prev) /\ Half(parent, l.last, l.prev, l.next)
      BY <2>1 DEF Linked
    <3>2. LiveTasks \ {id} \subseteq Task /\ id \notin LiveTasks \ {id} BY <2>2
    <3>3. Full((LiveTasks \ {id}) \cup {id}, parent, firstLive', lastLive', prevLive', nextLive')
      <4> DEFINE L == LiveTasks \ {id}
      <4>1. L \subseteq Task /\ id \notin L /\ \A c \in L : parent[c] \in Node BY <2>2
      <4> HIDE DEF L
      <4>2. QED BY <1>2, <2>1, <2>3, <3>1, <4>1, FullPush DEF L
    <3>4. (LiveTasks \ {id}) \cup {id} = LiveTasks' BY <1>3, <1>4
    <3>5. QED BY <1>1, <3>3, <3>4
  <2>6. MovedFirst'
    <3>1. SUFFICES ASSUME NEW c \in Task, nextLive'[c] # 0, phase'[nextLive'[c]] = "moved"
                   PROVE  phase'[c] = "moved"
      BY DEF MovedFirst
    <3>2. CASE c = id BY <1>5, <3>2
    <3>3. CASE c # id
      <4>1. nextLive'[c] = l.next[c] BY <2>1, <3>3 DEF Pushes
      <4>2. CASE nextLive[c] = id
        <5>1. nextLive'[c] = nextLive[id] /\ nextLive[id] \in Task BY <1>8, <2>4, <3>1, <3>3, <4>1, <4>2
        <5>2. nextLive[id] # id BY NoLoop
        <5>3. phase[nextLive[id]] = "moved" BY <1>5, <3>1, <5>1, <5>2
        <5>4. phase[id] = "moved" BY <1>7, <1>8, <5>1, <5>3 DEF MovedFirst
        <5>5. QED BY <1>1, <5>4
      <4>3. CASE nextLive[c] # id
        <5>1. nextLive'[c] = nextLive[c] /\ nextLive[c] \in Task BY <1>8, <2>4, <3>1, <3>3, <4>1, <4>3
        <5>2. QED BY <1>5, <1>7, <3>1, <4>3, <5>1 DEF MovedFirst
      <4>4. QED BY <4>2, <4>3
    <3>4. QED BY <3>2, <3>3
  <2>7. QED BY <1>6, <2>5, <2>6 DEF Whole
<1>11. QED BY <1>9, <1>10

\* finishLocked takes out what is no longer live.
LEMMA WholeEnds ==
  ASSUME TreeOK, Paths, CountOK, LinkOK, WholeOK, NEW t \in Task, runFinish(t) \/ fail(t)
  PROVE  WholeOK'
<1> SUFFICES ASSUME ~overtaken' PROVE Whole' BY DEF WholeOK
<1>1. Ends(t) /\ IF liveN[t] = 0 THEN Unlink(Leaving(t)) ELSE UNCHANGED links BY FinishEnds
<1>2. Whole /\ phase' = phase /\ phase[t] # "claimed" /\ parent' = parent
  BY DEF WholeOK, runFinish, fail, TreeOK
<1>3. ClaimedRuns' BY <1>1, <1>2 DEF Whole, ClaimedRuns, Ends, TreeOK
<1>4. MovedFirst /\ Full(LiveTasks, parent, firstLive, lastLive, prevLive, nextLive) BY <1>2 DEF Whole
<1>5. LiveNIsExact BY DEF CountOK
<1>6. CASE liveN[t] # 0
  <2>1. UNCHANGED links BY <1>1, <1>6
  <2>2. \A x : Live(x)' <=> Live(x) BY <1>1, <1>5, <1>6, EndsAbove
  <2>3. LiveTasks' = LiveTasks BY <2>2 DEF LiveTasks
  <2>4. Full(LiveTasks', parent', firstLive', lastLive', prevLive', nextLive')
    BY <1>2, <1>4, <2>1, <2>3 DEF links
  <2>5. MovedFirst' BY <1>2, <1>4, <2>1 DEF MovedFirst, links
  <2>6. QED BY <1>3, <2>4, <2>5 DEF Whole
<1>7. CASE liveN[t] = 0
  <2> DEFINE U == Leaving(t)
             l == unlinkLive(U)
  <2>1. \A x \in Task : Live(x)' <=> Live(x) /\ x \notin U BY <1>1, <1>5, <1>7, EndsLeaves
  <2>2. Apart(U) BY <1>1, LeavingApart
  <2>3. U \subseteq LiveTasks BY <1>1, LeavingLive DEF LiveTasks
  <2>4. /\ nextLive' = l.next /\ prevLive' = l.prev /\ firstLive' = l.first /\ lastLive' = l.last
    BY <1>1, <1>7 DEF Unlink
  <2>5. LiveTasks' = LiveTasks \ U BY <2>1 DEF LiveTasks
  <2> HIDE DEF U
  <2>6. Full(LiveTasks \ U, parent, l.first, l.last, l.prev, l.next)
    BY <1>4, <2>2, <2>3, LiveHasParent, FullUnlink
  <2>7. \A x \in Task : l.next[x] = IF x \in U THEN 0 ELSE IF nextLive[x] \in U
                                    THEN nextLive[nextLive[x]] ELSE nextLive[x]
    BY <2>2, UnlinkIs
  <2> HIDE DEF l
  <2>8. Full(LiveTasks', parent', firstLive', lastLive', prevLive', nextLive')
    BY <1>2, <2>4, <2>5, <2>6
  <2>9. MovedFirst'
    <3>1. SUFFICES ASSUME NEW c \in Task, l.next[c] # 0, phase[l.next[c]] = "moved"
                   PROVE  phase[c] = "moved"
      BY <1>2, <2>4 DEF MovedFirst
    <3>2. c \notin U BY <2>7, <3>1
    <3>3. CASE nextLive[c] \in U
      <4>0. U \subseteq Task /\ 0 \notin Task
        <5>1. U \subseteq Task BY <2>2 DEF Apart
        <5>2. QED BY <5>1 DEF Task
      <4>1. nextLive[c] \in Task /\ nextLive[c] # 0 BY <3>3, <4>0
      <4>2. l.next[c] = nextLive[nextLive[c]] BY <2>7, <3>2, <3>3
      <4>3. phase[nextLive[c]] = "moved" BY <1>4, <3>1, <4>1, <4>2 DEF MovedFirst
      <4>4. QED BY <1>4, <4>1, <4>3 DEF MovedFirst
    <3>4. CASE nextLive[c] \notin U BY <1>4, <2>7, <3>1, <3>2, <3>4 DEF MovedFirst
    <3>5. QED BY <3>3, <3>4
  <2>10. QED BY <1>3, <2>8, <2>9 DEF Whole
<1>8. QED BY <1>6, <1>7

\* Every step keeps the lists whole.
LEMMA WholeNext == TreeOK /\ Paths /\ CountOK /\ LinkOK /\ WholeOK /\ [Next]_vars => WholeOK'
<1> SUFFICES ASSUME TreeOK, Paths, CountOK, LinkOK, WholeOK, [Next]_vars PROVE WholeOK' OBVIOUS
<1>1. CASE UNCHANGED vars
  <2>1. UNCHANGED <<state, phase, parent, anc, firstLive, lastLive, prevLive, nextLive, overtaken>>
    BY <1>1 DEF vars, links
  <2>2. LiveTasks' = LiveTasks BY <2>1 DEF LiveTasks, Live, Unfinished
  <2>3. QED BY <2>1, <2>2 DEF WholeOK, Whole, MovedFirst, ClaimedRuns
<1>2. ASSUME NEW b \in Node, alloc(b) PROVE WholeOK' BY <1>2, WholeAlloc
<1>3. ASSUME NEW t \in Task, runClaim(t) PROVE WholeOK'
  <2>1. SUFFICES ASSUME ~overtaken' PROVE Whole' BY DEF WholeOK
  <2>2. /\ state[t] = "Pending" /\ state' = [state EXCEPT ![t] = "Running"]
        /\ phase' = [phase EXCEPT ![t] = "claimed"]
        /\ UNCHANGED <<parent, anc, firstLive, lastLive, prevLive, nextLive, overtaken>>
    BY <1>3 DEF runClaim, links
  <2>3. Whole BY <2>1, <2>2 DEF WholeOK
  <2>4. LiveTasks' = LiveTasks
    <3>1. Unfinished' = Unfinished BY <1>3, RunsOn
    <3>2. \A x : Live(x)' <=> Live(x) BY <2>2, <3>1, LiveSame
    <3>3. QED BY <3>2 DEF LiveTasks
  <2>5. Full(LiveTasks', parent', firstLive', lastLive', prevLive', nextLive')
    BY <2>2, <2>3, <2>4 DEF Whole
  <2>6. ClaimedRuns' BY <2>2, <2>3 DEF Whole, ClaimedRuns, TreeOK
  <2>7. MovedFirst'
    <3>1. phase[t] = "no" BY <2>2 DEF TreeOK
    <3>2. \A x \in Task : phase'[x] = IF x = t THEN "claimed" ELSE phase[x] BY <2>2 DEF TreeOK
    <3>3. \A x \in Task : nextLive[x] \in Task \cup {0} BY DEF LinkOK, Linked, Half
    <3>4. QED BY <2>2, <2>3, <3>1, <3>2, <3>3 DEF Whole, MovedFirst
  <2>8. QED BY <2>5, <2>6, <2>7 DEF Whole
<1>4. ASSUME NEW t \in Task, runMove(t) PROVE WholeOK' BY <1>4, WholeMove
<1>5. ASSUME NEW t \in Task, runFinish(t) \/ fail(t) PROVE WholeOK' BY <1>5, WholeEnds
<1>6. QED BY <1>1, <1>2, <1>3, <1>4, <1>5 DEF Next

\* The lists of the empty tree are whole.
LEMMA WholeInit == Init => WholeOK
<1> SUFFICES ASSUME Init PROVE Whole BY DEF WholeOK
<1>1. LiveTasks = {} BY DEF LiveTasks, Live, Unfinished, Init
<1>2. Full(LiveTasks, parent, firstLive, lastLive, prevLive, nextLive) BY <1>1 DEF Full, Covers, Init
<1>3. QED BY <1>2 DEF Whole, MovedFirst, ClaimedRuns, Init

\* All of the invariant holds in every reachable state.
LEMMA WholeInv == Spec => [](TreeOK /\ Paths /\ CountOK /\ LinkOK /\ WholeOK)
BY LinkInv, WholeInit, WholeNext, PTL DEF Spec

(***************************************************************************)
(* The walk visits live children and misses none.                          *)
(***************************************************************************)
LEMMA WalkVisits ==
  ASSUME LinkOK, Full(LiveTasks, parent, firstLive, lastLive, prevLive, nextLive), NEW b \in Node
  PROVE  Listed(b) = {c \in Children(b) : Live(c)}
<1> DEFINE row == Row(b)
<1>1. /\ row[0] = firstLive[b]
      /\ \A k \in 0..(MaxID - 1) : row[k + 1] = At(nextLive, row[k])
      /\ \A k \in 0..MaxID : row[k] \in Task \cup {0} /\ (row[k] # 0 => parent[row[k]] = b)
  BY RowIs
<1>2. row[MaxID] = 0 BY RowsEndIf DEF RowsEnd
<1>3. Listed(b) = {row[k] : k \in 0..MaxID} \ {0} BY DEF Listed
<1> HIDE DEF row
<1>4. /\ \A x \in Task : x # 0 /\ nextLive[x] \in Task \cup {0} /\ prevLive[x] \in Task \cup {0}
      /\ \A x \in Task : nextLive[x] # 0 => prevLive[nextLive[x]] = x
      /\ \A x \in Task : prevLive[x] # 0 => nextLive[prevLive[x]] = x /\ parent[prevLive[x]] = parent[x]
  BY DEF LinkOK, Linked, Half, Task
<1>5. /\ \A c \in LiveTasks : prevLive[c] = 0 => firstLive[parent[c]] = c
      /\ \A c \in Task \ LiveTasks : prevLive[c] = 0 /\ nextLive[c] = 0
      /\ firstLive[b] # 0 => firstLive[b] \in LiveTasks
  BY DEF Full, Covers
<1>6. MaxID \in Nat BY MaxIDAssumption
<1>7. ASSUME NEW k \in 0..MaxID, row[k] # 0 PROVE row[k] \in Children(b) /\ Live(row[k])
  <2>1. row[k] \in Task /\ parent[row[k]] = b BY <1>1, <1>7
  <2>2. row[k] \in LiveTasks
    <3>1. CASE k = 0 BY <1>1, <1>5, <1>7, <3>1
    <3>2. CASE k # 0
      <4>1. k - 1 \in 0..(MaxID - 1) /\ k - 1 \in 0..MaxID /\ (k - 1) + 1 = k BY <1>6, <3>2
      <4>2. row[k] = At(nextLive, row[k - 1]) /\ row[k - 1] \in Task \cup {0} BY <1>1, <4>1
      <4>3. row[k - 1] \in Task /\ row[k] = nextLive[row[k - 1]] BY <1>7, <4>2 DEF At
      <4>4. prevLive[row[k]] = row[k - 1] /\ row[k - 1] # 0 BY <1>4, <1>7, <4>3
      <4>5. QED BY <1>5, <2>1, <4>4
    <3>3. QED BY <3>1, <3>2
  <2>3. QED BY <2>1, <2>2 DEF Children, LiveTasks
<1>8. PICK rank \in [Task -> Int] : \E lo, hi \in Int : Ranks(nextLive, rank, lo, hi)
  BY DEF LinkOK, Linked
<1>9. PICK lo \in Int : \E hi \in Int : Ranks(nextLive, rank, lo, hi) BY <1>8
<1> DEFINE X == {c \in LiveTasks : parent[c] = b /\ c \notin Listed(b)}
<1>10. X = {}
  <2>1. SUFFICES ASSUME X # {} PROVE FALSE OBVIOUS
  <2> DEFINE D == {rank[c] - lo : c \in X}
  <2>2. X \subseteq Task BY DEF LiveTasks
  <2>3. D \subseteq Nat /\ D # {}
    <3>1. ASSUME NEW c \in X PROVE rank[c] - lo \in Nat
      <4>1. c \in Task BY <2>2
      <4>2. lo < rank[c] /\ rank[c] \in Int BY <1>9, <4>1 DEF Ranks
      <4>3. QED BY <4>2
    <3> HIDE DEF X
    <3>2. QED BY <2>1, <3>1
  <2>4. PICK d \in D : \A e \in D : d <= e
    <3> HIDE DEF D
    <3>1. QED BY <2>3, LeastNat
  <2>5. PICK c \in X : d = rank[c] - lo OBVIOUS
  <2>6. c \in Task /\ c \in LiveTasks /\ parent[c] = b /\ c \notin Listed(b) BY <2>2
  <2>7. prevLive[c] # 0
    <3>1. SUFFICES ASSUME prevLive[c] = 0 PROVE FALSE OBVIOUS
    <3>2. row[0] = c BY <1>1, <1>5, <2>6, <3>1
    <3>3. c \in Listed(b) BY <1>3, <1>4, <1>6, <2>6, <3>2
    <3>4. QED BY <2>6, <3>3
  <2> DEFINE p == prevLive[c]
  <2>8. p \in Task /\ nextLive[p] = c /\ parent[p] = b /\ c # 0 BY <1>4, <2>6, <2>7
  <2>9. p \in LiveTasks BY <1>5, <2>8
  <2>10. rank[p] < rank[c] BY <1>9, <2>8 DEF Ranks
  <2> HIDE DEF p
  <2>11. p \notin X
    <3>1. SUFFICES ASSUME p \in X PROVE FALSE OBVIOUS
    <3>2. rank[p] - lo \in D BY <3>1
    <3>3. rank[c] - lo <= rank[p] - lo BY <2>4, <2>5, <3>2
    <3>4. rank[p] \in Int /\ rank[c] \in Int BY <2>6, <2>8
    <3>5. QED BY <2>10, <3>3, <3>4
  <2>12. p \in Listed(b) BY <2>8, <2>9, <2>11
  <2>13. PICK k \in 0..MaxID : row[k] = p BY <1>3, <2>12
  <2>14. p # 0 BY <1>4, <2>8
  <2>15. k \in 0..(MaxID - 1) /\ k + 1 \in 0..MaxID BY <1>2, <1>6, <2>13, <2>14
  <2>16. row[k + 1] = c BY <1>1, <2>8, <2>13, <2>14, <2>15 DEF At
  <2>17. c \in Listed(b) BY <1>3, <2>8, <2>15, <2>16
  <2>18. QED BY <2>6, <2>17
<1>11. ASSUME NEW c \in Children(b), Live(c) PROVE c \in Listed(b)
  BY <1>10, <1>11 DEF Children, LiveTasks
<1>12. ASSUME NEW c \in Listed(b) PROVE c \in Children(b) /\ Live(c) BY <1>3, <1>7
<1>13. QED BY <1>11, <1>12

\* What whole lists say about the rows.
LEMMA RowsAreLiveIf == LinkOK /\ WholeOK => RowsAreLiveChildren
<1> SUFFICES ASSUME LinkOK, WholeOK, ~overtaken, NEW b \in Node
             PROVE  /\ Listed(b) = {c \in Children(b) : Live(c)}
                    /\ \A c \in Listed(b) :
                         /\ IF prevLive[c] = 0 THEN firstLive[b] = c ELSE nextLive[prevLive[c]] = c
                         /\ IF nextLive[c] = 0 THEN lastLive[b] = c ELSE prevLive[nextLive[c]] = c
  BY DEF RowsAreLiveChildren
<1>1. Full(LiveTasks, parent, firstLive, lastLive, prevLive, nextLive) BY DEF WholeOK, Whole
<1>2. Listed(b) = {c \in Children(b) : Live(c)} BY <1>1, WalkVisits
<1>3. ASSUME NEW c \in Listed(b)
      PROVE  /\ IF prevLive[c] = 0 THEN firstLive[b] = c ELSE nextLive[prevLive[c]] = c
             /\ IF nextLive[c] = 0 THEN lastLive[b] = c ELSE prevLive[nextLive[c]] = c
  <2>1. c \in LiveTasks /\ c \in Task /\ parent[c] = b BY <1>2 DEF LiveTasks, Children
  <2>2. (prevLive[c] = 0 => firstLive[b] = c) /\ (nextLive[c] = 0 => lastLive[b] = c)
    BY <1>1, <2>1 DEF Full, Covers
  <2>3. /\ prevLive[c] # 0 => nextLive[prevLive[c]] = c
        /\ nextLive[c] # 0 => prevLive[nextLive[c]] = c
    BY <2>1 DEF LinkOK, Linked, Half
  <2>4. QED BY <2>2, <2>3
<1>4. QED BY <1>2, <1>3

(***************************************************************************)
(* For any number of tasks: until a failure crosses a claim, what walkLive *)
(* visits under a node is its live children, and the links read the same   *)
(* in both directions.                                                     *)
(***************************************************************************)
THEOREM ListsAreLiveChildren == Spec => []RowsAreLiveChildren
BY WholeInv, RowsAreLiveIf, PTL

\* The order of the rows, along a walk.
LEMMA RunningFirstIf == LinkOK /\ WholeOK => RunningRowsFirst
<1> SUFFICES ASSUME LinkOK, WholeOK, ~overtaken, NEW b \in Node, NEW k \in 0..(MaxID - 1),
                    Row(b)[k] # 0, Row(b)[k + 1] # 0, phase[Row(b)[k + 1]] = "moved"
             PROVE  phase[Row(b)[k]] = "moved"
  BY DEF RunningRowsFirst
<1> DEFINE row == Row(b)
<1>1. k \in 0..MaxID BY MaxIDAssumption
<1>2. row[k + 1] = At(nextLive, row[k]) /\ row[k] \in Task \cup {0} BY <1>1, RowIs
<1>3. row[k] \in Task /\ row[k + 1] = nextLive[row[k]] BY <1>2 DEF At
<1>4. MovedFirst BY DEF WholeOK, Whole
<1>5. row[k + 1] # 0 /\ phase[row[k + 1]] = "moved" OBVIOUS
<1> HIDE DEF row
<1>6. phase[row[k]] = "moved" BY <1>3, <1>4, <1>5 DEF MovedFirst
<1>7. QED BY <1>6 DEF row

(***************************************************************************)
(* For any number of tasks: until a failure crosses a claim, moveLiveFront *)
(* keeps the rows of tasks that run before the rows that wait, and no      *)
(* later step of linkLive or unlinkLive mixes them.                        *)
(***************************************************************************)
THEOREM RunningAreFirst == Spec => []RunningRowsFirst
BY WholeInv, RunningFirstIf, PTL

-----------------------------------------------------------------------------
(* waitUntil, which waitLive calls to wait for a count to become zero: for *)
(* every set of waiters and of goals.                                      *)

(* The mutex is held by the waiter that is between lock and cond.Wait, and *)
(* that waiter goes to sleep only over a goal that is not reached.  A      *)
(* callback that has run belongs to a done context, and was missed if its  *)
(* waiter had looked before and is not woken since.                        *)
WaitInv ==
  /\ pc \in [Waiters -> {"out", "woken", "test", "add", "asleep", "back"}]
  /\ asleep = {w \in Waiters : pc[w] = "asleep"}
  /\ \A w \in Waiters : pc[w] \in {"test", "add"} <=> mu = {w}
  /\ \A w \in Waiters : pc[w] \in {"add", "asleep"} => goal[w] \notin reached
  /\ \A w \in Waiters : pc[w] \notin {"out", "back"} /\ w \notin armed => w \in ctxDone
  /\ \A w \in Waiters : pc[w] \in {"add", "asleep"} /\ w \notin armed => w \in missed

\* Nobody waits at the start.
LEMMA WaitStart == WaitInit => WaitInv
BY DEF WaitInit, WaitInv

\* Every step of waitUntil keeps its invariant.
LEMMA WaitStep == WaitInv /\ [WaitNext]_waitVars => WaitInv'
<1> SUFFICES ASSUME WaitInv, [WaitNext]_waitVars PROVE WaitInv' OBVIOUS
<1> USE DEF WaitInv, Goto
<1>1. ASSUME NEW g \in Goals, finish(g) PROVE WaitInv' BY <1>1 DEF finish, Broadcast
<1>2. ASSUME NEW w \in Waiters, cancel(w) PROVE WaitInv' BY <1>2 DEF cancel
<1>3. ASSUME NEW w \in Waiters, ctxBroadcast(w) PROVE WaitInv'
  BY <1>3 DEF ctxBroadcast, Broadcast
<1>4. ASSUME NEW w \in Waiters, call(w) PROVE WaitInv' BY <1>4 DEF call
<1>5. ASSUME NEW w \in Waiters, lock(w) PROVE WaitInv' BY <1>5 DEF lock
<1>6. ASSUME NEW w \in Waiters, test(w) PROVE WaitInv' BY <1>6 DEF test
<1>7. ASSUME NEW w \in Waiters, sleep(w) PROVE WaitInv' BY <1>7 DEF sleep
<1>8. CASE UNCHANGED waitVars BY <1>8 DEF waitVars
<1> QED BY <1>1, <1>2, <1>3, <1>4, <1>5, <1>6, <1>7, <1>8 DEF WaitNext, Waiter

\* The invariant of waitUntil holds in every reachable state.
LEMMA WaitAlways == WaitSpec => []WaitInv
BY WaitStart, WaitStep, PTL DEF WaitSpec

(***************************************************************************)
(* A broadcast of finishLocked is never lost: whoever sleeps in waitUntil  *)
(* does so over a goal that is not reached.                                *)
(***************************************************************************)
THEOREM NoLostFinish == WaitSpec => []NoSleeperOverGoal
<1>1. WaitInv => NoSleeperOverGoal BY DEF WaitInv, NoSleeperOverGoal
<1>2. QED BY <1>1, WaitAlways, PTL

(***************************************************************************)
(* The broadcast of a context's callback is lost on its own waiter in one  *)
(* way only: it comes between the waiter's look at the context and its     *)
(* sleep.  Whoever sleeps over a done context without that still has its   *)
(* callback to come.                                                       *)
(***************************************************************************)
THEOREM ContextMissedOneWay == WaitSpec => []ContextWakesUnlessMissed
<1>1. WaitInv => ContextWakesUnlessMissed BY DEF WaitInv, ContextWakesUnlessMissed
<1>2. QED BY <1>1, WaitAlways, PTL
============================================================================
