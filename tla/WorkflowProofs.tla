--------------------------- MODULE WorkflowProofs ---------------------------
(***************************************************************************)
(* Theorems about WorkflowClosure and Workflow: for every set of graphs,   *)
(* closure's order is the part of the graph below the targets with         *)
(* dependencies first, a Run that succeeds leaves no output behind, and    *)
(* the next one repeats nothing.                                           *)
(***************************************************************************)
EXTENDS Workflow, FiniteSetTheorems, SequenceTheorems, WellFoundedInduction, TLAPS

-----------------------------------------------------------------------------
(* Induction and iteration *)

(***************************************************************************)
(* A set of naturals that is not empty has a least member.                 *)
(***************************************************************************)
LEMMA LeastNat ==
  ASSUME NEW T, T \subseteq Nat, T # {}
  PROVE  \E m \in T : \A k \in T : m <= k
<1> DEFINE R == {ss \in Nat \X Nat : ss[1] < ss[2]}
<1>1. IsWellFoundedOn(R, Nat) BY NatLessThanWellFounded DEF OpToRel
<1>2. PICK x \in T : \A y \in T : ~(<<y, x>> \in R) BY <1>1, WFMin, Zenon
<1>3. ASSUME NEW y \in T PROVE x <= y
  <2>1. x \in Nat /\ y \in Nat OBVIOUS
  <2>2. ~(y < x) BY <1>2, <2>1
  <2>3. QED BY <2>1, <2>2
<1>4. QED BY <1>3

(***************************************************************************)
(* Induction up to n, for membership in a set.                             *)
(***************************************************************************)
LEMMA UpTo ==
  ASSUME NEW n \in Nat, NEW S, 0 \in S, \A k \in 0..(n - 1) : k \in S => k + 1 \in S
  PROVE  \A k \in 0..n : k \in S
<1> DEFINE T == {k \in 0..n : k \notin S}
<1> SUFFICES ASSUME T # {} PROVE FALSE OBVIOUS
<1>2. PICK m \in T : \A k \in T : m <= k
  <2>1. T \subseteq Nat OBVIOUS
  <2> HIDE DEF T
  <2>2. QED BY <2>1, LeastNat
<1>3. m # 0 /\ m \in 0..n /\ m \notin S OBVIOUS
<1>4. m - 1 \in 0..(n - 1) /\ m - 1 \notin T BY <1>2, <1>3
<1>5. m - 1 \in S BY <1>4
<1>6. (m - 1) + 1 \in S BY <1>4, <1>5
<1>7. QED BY <1>3, <1>6

(***************************************************************************)
(* h is x, F of x, F of F of x and so on, n times.                         *)
(***************************************************************************)
Iterates(h, x, F, n) == h = [k \in 0..n |-> IF k = 0 THEN x ELSE F[h[k - 1]]]

LEMMA IteratesExist ==
  ASSUME NEW V, NEW x \in V, NEW F \in [V -> V], NEW n \in Nat
  PROVE  \E h \in [0..n -> V] : Iterates(h, x, F, n)
<1> DEFINE S == {k \in Nat : \E h \in [0..k -> V] : Iterates(h, x, F, k)}
<1>1. 0 \in S
  <2>1. [k \in 0..0 |-> x] \in [0..0 -> V] /\ Iterates([k \in 0..0 |-> x], x, F, 0) BY DEF Iterates
  <2>2. QED BY <2>1
<1>2. ASSUME NEW m \in 0..(n - 1), m \in S PROVE m + 1 \in S
  <2>1. PICK h \in [0..m -> V] : Iterates(h, x, F, m) BY <1>2
  <2> DEFINE e == [k \in 0..(m + 1) |-> IF k = m + 1 THEN F[h[m]] ELSE h[k]]
  <2>2. m \in Nat /\ h[m] \in V OBVIOUS
  <2>3. e \in [0..(m + 1) -> V] BY <2>2
  <2>4. ASSUME NEW k \in 0..(m + 1) PROVE e[k] = IF k = 0 THEN x ELSE F[e[k - 1]]
    <3>1. CASE k = 0 BY <2>1, <2>2, <3>1 DEF Iterates
    <3>2. CASE k = m + 1 BY <2>2, <3>2
    <3>3. CASE k \in 1..m
      <4>1. h[k] = F[h[k - 1]] BY <2>1, <2>2, <3>3 DEF Iterates
      <4>2. e[k] = h[k] /\ e[k - 1] = h[k - 1] BY <2>2, <3>3
      <4>3. QED BY <3>3, <4>1, <4>2
    <3>4. QED BY <2>2, <3>1, <3>2, <3>3
  <2>5. Iterates(e, x, F, m + 1) BY <2>4 DEF Iterates
  <2>6. QED BY <2>2, <2>3, <2>5
<1> HIDE DEF S
<1>3. \A k \in 0..n : k \in S BY <1>1, <1>2, UpTo
<1>4. n \in S BY <1>3
<1>5. QED BY <1>4 DEF S

(***************************************************************************)
(* What an iteration stays in: a set of values that F does not leave.      *)
(***************************************************************************)
LEMMA IteratesStay ==
  ASSUME NEW V, NEW x \in V, NEW F \in [V -> V], NEW n \in Nat, NEW h, Iterates(h, x, F, n),
         NEW C, x \in C, \A y \in V : y \in C => F[y] \in C
  PROVE  \A k \in 0..n : h[k] \in V /\ h[k] \in C
<1> DEFINE S == {k \in 0..n : h[k] \in V /\ h[k] \in C}
<1>1. 0 \in S BY DEF Iterates
<1>2. ASSUME NEW k \in 0..(n - 1), k \in S PROVE k + 1 \in S
  <2>1. h[k + 1] = F[h[k]] BY DEF Iterates
  <2>2. k + 1 \in 0..n OBVIOUS
  <2>3. QED BY <1>2, <2>1, <2>2
<1>3. QED BY <1>1, <1>2, UpTo

(***************************************************************************)
(* A set that grows in a finite one, as often as that has members, has     *)
(* stopped growing.                                                        *)
(***************************************************************************)
LEMMA IteratesClose ==
  ASSUME NEW A, IsFiniteSet(A), NEW x \in SUBSET A, x # {},
         NEW F \in [SUBSET A -> SUBSET A], \A y \in SUBSET A : y \subseteq F[y],
         NEW h, Iterates(h, x, F, Cardinality(A))
  PROVE  LET end == h[Cardinality(A)] IN end \in SUBSET A /\ x \subseteq end /\ F[end] = end
<1> DEFINE n == Cardinality(A)
<1>1. n \in Nat BY FS_CardinalityType
<1>2. \A k \in 0..n : h[k] \in SUBSET A /\ h[k] \in {y \in SUBSET A : x \subseteq y}
  <2> DEFINE C == {y \in SUBSET A : x \subseteq y}
  <2>0. ASSUME NEW y \in SUBSET A, y \in C PROVE F[y] \in C
    <3>1. F[y] \in SUBSET A /\ y \subseteq F[y] OBVIOUS
    <3>2. QED BY <2>0, <3>1
  <2>1. x \in C /\ \A y \in SUBSET A : y \in C => F[y] \in C BY <2>0
  <2> HIDE DEF C
  <2> DEFINE V == SUBSET A
  <2>2. x \in V /\ F \in [V -> V] /\ (\A y \in V : y \in C => F[y] \in C) /\ Iterates(h, x, F, n)
    BY <2>1
  <2> HIDE DEF V, n
  <2>3. \A k \in 0..n : h[k] \in V /\ h[k] \in C BY <1>1, <2>1, <2>2, IteratesStay
  <2>4. QED BY <2>3 DEF C, V
<1>3. \A k \in 0..n : IsFiniteSet(h[k]) /\ Cardinality(h[k]) \in Nat /\ Cardinality(h[k]) <= n
  BY <1>2, FS_Subset, FS_CardinalityType
<1> DEFINE S == {k \in 0..n : F[h[k]] = h[k] \/ Cardinality(h[k]) >= k + 1}
<1>4. 0 \in S
  <2>1. h[0] = x BY <1>1 DEF Iterates
  <2>2. IsFiniteSet(x) /\ Cardinality(x) \in Nat BY <1>1, <1>3, <2>1
  <2>3. Cardinality(x) # 0 BY <2>2, FS_EmptySet
  <2>4. QED BY <1>1, <2>1, <2>2, <2>3
<1>5. ASSUME NEW k \in 0..(n - 1), k \in S PROVE k + 1 \in S
  <2>1. h[k + 1] = F[h[k]] /\ k \in 0..n /\ k + 1 \in 0..n BY <1>1 DEF Iterates
  <2>2. CASE F[h[k]] = h[k] BY <2>1, <2>2
  <2>3. CASE F[h[k]] # h[k] /\ Cardinality(h[k]) >= k + 1
    <3>1. h[k] \in SUBSET h[k + 1] /\ h[k] # h[k + 1] BY <1>2, <2>1, <2>3
    <3>2. Cardinality(h[k]) <= Cardinality(h[k + 1]) /\ Cardinality(h[k]) # Cardinality(h[k + 1])
      BY <1>3, <2>1, <3>1, FS_Subset
    <3>3. QED BY <1>1, <1>3, <2>1, <2>3, <3>2
  <2>4. QED BY <1>5, <2>2, <2>3
<1>6. n \in S
  <2> HIDE DEF S, n
  <2>1. \A k \in 0..n : k \in S BY <1>1, <1>4, <1>5, UpTo
  <2>2. QED BY <1>1, <2>1
<1>7. F[h[n]] = h[n] BY <1>1, <1>3, <1>6
<1>8. QED BY <1>1, <1>2, <1>7

-----------------------------------------------------------------------------
(* resolveAlias *)

(***************************************************************************)
(* The graph, and the index of the steps of a walk.                        *)
(***************************************************************************)
GraphOK ==
  /\ g \in Graphs
  /\ targets \in Seq(Names)

N == Cardinality(Names)

LEMMA NIsNat == N \in Nat BY NamesAssumption, FS_CardinalityType DEF N

LEMMA HopType == ASSUME GraphOK, NEW n \in Names PROVE Hop(n) \in Names
BY GraphsAssumption DEF GraphOK, Hop

(***************************************************************************)
(* Aliases lead to a name.  A step stands for itself, and an alias of a    *)
(* step for that step.                                                     *)
(***************************************************************************)
LEMMA ChainEnds ==
  ASSUME GraphOK, NEW n \in Names
  PROVE  /\ Chain(n) \in Names
         /\ n \in byName => Chain(n) = n
         /\ g.alias[n] \in byName /\ n \notin byName /\ g.alias[n] \in Names => Chain(n) = g.alias[n]
<1> DEFINE F == [m \in Names |-> Hop(m)]
<1> DEFINE to[k \in 0..Cardinality(Names)] == IF k = 0 THEN n ELSE Hop(to[k - 1])
<1>1. F \in [Names -> Names] BY HopType
<1>2. PICK h \in [0..N -> Names] : Iterates(h, n, F, N) BY <1>1, NIsNat, IteratesExist
<1>3. h = [k \in 0..N |-> IF k = 0 THEN n ELSE Hop(h[k - 1])]
  <2>1. ASSUME NEW k \in 0..N, k # 0 PROVE h[k - 1] \in Names BY <2>1, NIsNat
  <2>2. QED BY <1>2, <2>1 DEF Iterates
<1>4. to = [k \in 0..N |-> IF k = 0 THEN n ELSE Hop(to[k - 1])] BY <1>3, Zenon DEF N
<1>5. Chain(n) = to[N] BY Zenon DEF Chain, N
<1> HIDE DEF to
<1>6. \A k \in 0..N : to[k] \in Names
  <2> DEFINE S == {k \in 0..N : to[k] \in Names}
  <2>1. 0 \in S BY <1>4, NIsNat
  <2>2. ASSUME NEW k \in 0..(N - 1), k \in S PROVE k + 1 \in S
    <3>1. k + 1 \in 0..N /\ to[k + 1] = Hop(to[k]) BY <1>4, NIsNat
    <3>2. QED BY <2>2, <3>1, HopType
  <2>3. QED BY <2>1, <2>2, NIsNat, UpTo
<1>7. ASSUME NEW j \in 0..N, to[j] \in byName PROVE to[N] = to[j]
  <2> DEFINE S == {k \in 0..N : k >= j => to[k] = to[j]}
  <2>1. 0 \in S BY NIsNat
  <2>2. ASSUME NEW k \in 0..(N - 1), k \in S PROVE k + 1 \in S
    <3>1. k + 1 \in 0..N /\ to[k + 1] = Hop(to[k]) BY <1>4, NIsNat
    <3>2. CASE k >= j BY <1>7, <2>2, <3>1, <3>2 DEF Hop
    <3>3. CASE ~(k >= j) BY <3>1, <3>3, NIsNat
    <3>4. QED BY <3>2, <3>3
  <2>3. \A k \in 0..N : k \in S
    <3> HIDE DEF S
    <3>1. QED BY <2>1, <2>2, NIsNat, UpTo
  <2>4. QED BY <2>3, NIsNat
<1>8. to[0] = n BY <1>4, NIsNat
<1>9. N >= 1
  <2>1. N # 0 BY NamesAssumption, FS_EmptySet DEF N
  <2>2. QED BY <2>1, NIsNat
<1>10. to[1] = Hop(n) BY <1>4, <1>8, <1>9, NIsNat
<1>11. n \in byName => Chain(n) = n BY <1>5, <1>7, <1>8, NIsNat
<1>12. ASSUME g.alias[n] \in byName, n \notin byName, g.alias[n] \in Names PROVE Chain(n) = g.alias[n]
  <2>1. to[1] = g.alias[n] BY <1>10, <1>12, NamesAssumption DEF Hop
  <2>2. QED BY <1>5, <1>7, <1>9, <1>12, <2>1, NIsNat
<1>13. QED BY <1>5, <1>6, <1>11, <1>12, NIsNat

LEMMA Resolved ==
  ASSUME NEW n
  PROVE  LET r == resolveAlias(n) IN
         /\ r.step = Chain(n) /\ r.err \in {"none", "unknown", "cycle"}
         /\ r.err = "none" <=> Chain(n) \in byName
BY DEF resolveAlias

-----------------------------------------------------------------------------
(* The part of the graph below a step *)

LEMMA DepsAreNames ==
  ASSUME GraphOK, NEW s \in Names
  PROVE  Elems(g.deps[s]) \subseteq Names /\ DepsOf(s) \subseteq Names
<1>1. g.deps[s] \in Seq(Names) BY GraphsAssumption DEF GraphOK
<1>2. Elems(g.deps[s]) \subseteq Names BY <1>1 DEF Elems
<1>3. ASSUME NEW d \in Elems(g.deps[s]) PROVE resolveAlias(d).step \in Names
  BY <1>2, Resolved, ChainEnds
<1>4. QED BY <1>2, <1>3 DEF DepsOf

LEMMA DeeperType == ASSUME GraphOK, NEW low \in SUBSET Names PROVE Deeper(low) \in SUBSET Names
BY DepsAreNames DEF Deeper

(***************************************************************************)
(* Below is the iteration of Deeper.                                       *)
(***************************************************************************)
LEMMA BelowIterates ==
  ASSUME GraphOK, NEW s \in Names
  PROVE  LET F == [low \in SUBSET Names |-> Deeper(low)] IN
         /\ F \in [SUBSET Names -> SUBSET Names]
         /\ \E h : Iterates(h, {s}, F, N) /\ Below(s) = h[N]
<1> DEFINE V == SUBSET Names
           F == [low \in V |-> Deeper(low)]
           x == {s}
<1> DEFINE up[k \in 0..Cardinality(Names)] == IF k = 0 THEN {s} ELSE Deeper(up[k - 1])
<1>1. F \in [V -> V] /\ x \in V BY DeeperType
<1>2. PICK h \in [0..N -> V] : Iterates(h, x, F, N)
  <2> HIDE DEF V, F, x
  <2>1. QED BY <1>1, NIsNat, IteratesExist
<1>3. h = [k \in 0..N |-> IF k = 0 THEN {s} ELSE Deeper(h[k - 1])]
  <2>1. ASSUME NEW k \in 0..N, k # 0 PROVE h[k - 1] \in V
    <3> HIDE DEF V
    <3>1. QED BY <2>1, NIsNat
  <2>2. QED BY <1>2, <2>1 DEF Iterates
<1>4. up = [k \in 0..N |-> IF k = 0 THEN {s} ELSE Deeper(up[k - 1])] BY <1>3, Zenon DEF N
<1>5. Below(s) = up[N] BY Zenon DEF Below, N
<1> HIDE DEF up
<1>6. up = h
  <2> DEFINE S == {k \in 0..N : up[k] = h[k]}
  <2>1. 0 \in S BY <1>3, <1>4, NIsNat
  <2>2. ASSUME NEW k \in 0..(N - 1), k \in S PROVE k + 1 \in S
    <3>1. k + 1 \in 0..N /\ k + 1 # 0 /\ (k + 1) - 1 = k BY NIsNat
    <3>2. up[k + 1] = Deeper(up[(k + 1) - 1]) /\ h[k + 1] = Deeper(h[(k + 1) - 1])
      BY <1>3, <1>4, <3>1, Zenon
    <3>3. QED BY <2>2, <3>1, <3>2
  <2>3. \A k \in 0..N : k \in S
    <3> HIDE DEF S
    <3>1. QED BY <2>1, <2>2, NIsNat, UpTo
  <2>4. QED BY <1>3, <1>4, <2>3
<1>7. QED BY <1>1, <1>2, <1>5, <1>6

(***************************************************************************)
(* A step and its dependencies, theirs and so on are below it.             *)
(***************************************************************************)
LEMMA BelowClosed ==
  ASSUME GraphOK, NEW s \in Names
  PROVE  /\ Below(s) \subseteq Names /\ s \in Below(s)
         /\ \A t \in Below(s) \cap byName : DepsOf(t) \subseteq Below(s)
<1> DEFINE F == [low \in SUBSET Names |-> Deeper(low)]
           x == {s}
<1>1. PICK h : Iterates(h, x, F, N) /\ Below(s) = h[N] BY BelowIterates
<1>2. F \in [SUBSET Names -> SUBSET Names] BY BelowIterates
<1>3. x \in SUBSET Names /\ x # {} /\ \A y \in SUBSET Names : y \subseteq F[y] BY DEF Deeper
<1>4. Below(s) \in SUBSET Names /\ x \subseteq Below(s) /\ F[Below(s)] = Below(s)
  <2> DEFINE n == Cardinality(Names)
  <2>1. Iterates(h, x, F, n) /\ Below(s) = h[n] BY <1>1 DEF N
  <2> HIDE DEF F, x
  <2>2. h[n] \in SUBSET Names /\ x \subseteq h[n] /\ F[h[n]] = h[n]
    BY <1>2, <1>3, <2>1, NamesAssumption, IteratesClose
  <2>3. QED BY <2>1, <2>2
<1>5. Deeper(Below(s)) = Below(s) BY <1>4
<1>6. QED BY <1>4, <1>5 DEF Deeper

(***************************************************************************)
(* Nothing else is.                                                        *)
(***************************************************************************)
LEMMA BelowLeast ==
  ASSUME GraphOK, NEW s \in Names, NEW C, s \in C, \A t \in C \cap byName : DepsOf(t) \subseteq C
  PROVE  Below(s) \subseteq C
<1> DEFINE V == SUBSET Names
           F == [low \in V |-> Deeper(low)]
           x == {s}
           D == SUBSET C
<1>1. PICK h : Iterates(h, x, F, N) /\ Below(s) = h[N] BY BelowIterates
<1>2. F \in [V -> V] /\ x \in V /\ x \in D BY BelowIterates
<1>3. ASSUME NEW y \in V, y \in D PROVE F[y] \in D BY <1>3 DEF Deeper
<1>4. h[N] \in D
  <2> HIDE DEF V, F, x, D
  <2>1. \A k \in 0..N : h[k] \in V /\ h[k] \in D BY <1>1, <1>2, <1>3, NIsNat, IteratesStay
  <2>2. QED BY <2>1, NIsNat
<1>5. QED BY <1>1, <1>4

-----------------------------------------------------------------------------
(* The walk *)

Frame == [step : Names, dep : Nat]
OnStack == {stack[i].step : i \in 1..Len(stack)}

ClosureType ==
  /\ GraphOK
  /\ mark \in [Names -> {0, 1, 2}]
  /\ order \in Seq(Names) /\ stack \in Seq(Frame) /\ at \in Nat \ {0}
  /\ pc \in {"idle", "index", "walk", "done", "fail", "run"}
  /\ pc = "index" => order = <<>> /\ stack = <<>> /\ at = 1 /\ mark = [n \in Names |-> 0]
  /\ pc \in {"walk", "done", "run"} => byName = StepsOf(g)
  /\ pc \in {"done", "run"} => stack = <<>> /\ at > Len(Targets)

(* The marks say where a step is, and it is there once. *)
Marks ==
  /\ \A n \in Names : (mark[n] = 2 <=> n \in Elems(order)) /\ (mark[n] = 1 <=> n \in OnStack)
  /\ \A i, j \in 1..Len(order) : order[i] = order[j] => i = j
  /\ \A i, j \in 1..Len(stack) : stack[i].step = stack[j].step => i = j

(* A step in the order comes after what it depends on. *)
Downward ==
  \A i \in 1..Len(order) :
     /\ order[i] \in byName
     /\ \A d \in Elems(g.deps[order[i]]) : \E j \in 1..(i - 1) : order[j] = Chain(d)

(* A call of walk is through with the dependencies before dep, but for the *)
(* one whose call is under way.                                            *)
Frames ==
  \A i \in 1..Len(stack) :
     /\ stack[i].step \in byName /\ stack[i].dep # 0
     /\ \A k \in 1..Len(g.deps[stack[i].step]) :
           k < stack[i].dep =>
              \/ Chain(g.deps[stack[i].step][k]) \in Elems(order)
              \/ i < Len(stack) /\ Chain(g.deps[stack[i].step][k]) = stack[i + 1].step

(* The calls under way go down the graph. *)
Descent ==
  /\ \A i \in 1..(Len(stack) - 1) : stack[i + 1].step \in DepsOf(stack[i].step)
  /\ \A i, j \in 1..Len(stack) : i <= j => stack[j].step \in Below(stack[i].step)

(* The targets before at are walked. *)
Within ==
  pc \in {"walk", "done", "run"} =>
     \A t \in 1..Len(Targets) : t < at =>
        \/ Chain(Targets[t]) \in Elems(order)
        \/ stack # <<>> /\ Chain(Targets[t]) = stack[1].step

FailOK == pc = "fail" /\ err \in {"unknown", "cycle"} => Broken

(***************************************************************************)
(* A sequence with one more element, and without its last one.             *)
(***************************************************************************)
LEMMA Pushed ==
  ASSUME NEW S, NEW s \in Seq(S), NEW x \in S
  PROVE  LET t == Append(s, x) IN
         /\ t \in Seq(S) /\ Len(t) = Len(s) + 1 /\ t[Len(s) + 1] = x
         /\ \A i \in 1..Len(s) : t[i] = s[i]
         /\ Elems(t) = Elems(s) \cup {x}
<1> DEFINE t == Append(s, x)
<1>1. t \in Seq(S) /\ Len(t) = Len(s) + 1 /\ t[Len(s) + 1] = x /\ Len(s) \in Nat OBVIOUS
<1>2. \A i \in 1..Len(s) : t[i] = s[i] OBVIOUS
<1> HIDE DEF t
<1>3. Elems(t) \subseteq Elems(s) \cup {x}
  <2>1. ASSUME NEW i \in 1..Len(t) PROVE t[i] \in Elems(s) \cup {x}
    <3>1. i \in 1..Len(s) \/ i = Len(s) + 1 BY <1>1
    <3>2. QED BY <1>1, <1>2, <3>1 DEF Elems
  <2>2. QED BY <2>1 DEF Elems
<1>4. Elems(s) \cup {x} \subseteq Elems(t)
  <2>1. \A i \in 1..Len(s) : i \in 1..Len(t) BY <1>1
  <2>2. Len(s) + 1 \in 1..Len(t) BY <1>1
  <2>3. QED BY <1>1, <1>2, <2>1, <2>2 DEF Elems
<1>5. QED BY <1>1, <1>2, <1>3, <1>4 DEF t

LEMMA Popped ==
  ASSUME NEW S, NEW s \in Seq(S), s # <<>>
  PROVE  LET t == SubSeq(s, 1, Len(s) - 1) IN
         /\ t \in Seq(S) /\ Len(t) = Len(s) - 1 /\ Len(s) \in Nat \ {0}
         /\ \A i \in 1..(Len(s) - 1) : t[i] = s[i]
<1>1. Len(s) \in Nat \ {0} BY EmptySeq
<1>2. \A i \in 1..(Len(s) - 1) : s[i] \in S BY <1>1
<1> DEFINE n == Len(s) - 1
           t == SubSeq(s, 1, n)
<1>3. n \in Int /\ n >= 0 /\ 1 \in Int BY <1>1
<1>4. /\ t \in Seq(S) /\ Len(t) = IF 1 <= n THEN n - 1 + 1 ELSE 0
      /\ \A i \in 1..(n - 1 + 1) : t[i] = s[1 + i - 1]
  <2> HIDE DEF n
  <2>1. QED BY <1>2, <1>3, SubSeqProperties DEF n
<1>5. Len(t) = n /\ \A i \in 1..n : t[i] = s[i]
  <2> HIDE DEF t, n
  <2>1. QED BY <1>3, <1>4
<1>6. QED BY <1>1, <1>4, <1>5

(***************************************************************************)
(* How a call of walk begins.                                              *)
(***************************************************************************)
LEMMA EnterCases ==
  ASSUME ClosureType, NEW name \in Names, NEW callers, enter(name, callers)
  PROVE  \/ /\ pc' = "fail" /\ UNCHANGED <<stack, mark>>
            /\ Chain(name) \notin byName \/ mark[Chain(name)] = 1
         \/ /\ Chain(name) \in byName /\ mark[Chain(name)] = 2
            /\ stack' = callers /\ UNCHANGED <<pc, err, mark>>
         \/ /\ Chain(name) \in byName /\ mark[Chain(name)] = 0
            /\ mark' = [mark EXCEPT ![Chain(name)] = 1]
            /\ stack' = Append(callers, [step |-> Chain(name), dep |-> 1])
            /\ UNCHANGED <<pc, err>>
<1> DEFINE r == resolveAlias(name)
<1>1. r.step = Chain(name) /\ (r.err = "none" <=> Chain(name) \in byName) BY Resolved
<1>2. Chain(name) \in Names BY ChainEnds DEF ClosureType
<1>3. mark[Chain(name)] \in {0, 1, 2} BY <1>2 DEF ClosureType
<1> HIDE DEF r
<1>4. \/ r.err # "none" /\ Fail(r.err) /\ UNCHANGED <<stack, mark>>
      \/ /\ r.err = "none"
         /\ \/ mark[r.step] = 2 /\ stack' = callers /\ UNCHANGED <<pc, err, mark>>
            \/ mark[r.step] = 1 /\ Fail("cycle") /\ UNCHANGED <<stack, mark>>
            \/ /\ mark[r.step] # 2 /\ mark[r.step] # 1
               /\ mark' = [mark EXCEPT ![r.step] = 1]
               /\ stack' = Append(callers, [step |-> r.step, dep |-> 1])
               /\ UNCHANGED <<pc, err>>
  BY DEF enter, r
<1>5. QED BY <1>1, <1>3, <1>4 DEF Fail

(***************************************************************************)
(* What a name stands for and what is below it depend on the graph only.   *)
(***************************************************************************)
LEMMA SameGraph ==
  ASSUME UNCHANGED <<g, byName>>
  PROVE  /\ \A n : Chain(n)' = Chain(n)
         /\ \A s : DepsOf(s)' = DepsOf(s) /\ Below(s)' = Below(s)
<1>1. g' = g /\ byName' = byName OBVIOUS
<1>2. \A n : Chain(n)' = Chain(n) BY <1>1 DEF Chain, Hop
<1>3. \A n : resolveAlias(n)' = resolveAlias(n) BY <1>1, <1>2 DEF resolveAlias
<1>4. \A s : DepsOf(s)' = DepsOf(s) BY <1>1, <1>3 DEF DepsOf
<1>5. ASSUME NEW s PROVE Below(s)' = Below(s)
  BY <1>1 DEF Below, Deeper, DepsOf, resolveAlias, Chain, Hop
<1>6. QED BY <1>2, <1>4, <1>5

LEMMA SameTargets ==
  ASSUME UNCHANGED <<g, byName, targets>>
  PROVE  Targets' = Targets /\ Visited' = Visited /\ Broken' = Broken
<1>1. Targets' = Targets BY DEF Targets
<1>2. Visited' = Visited BY DEF Visited, Targets, Below, Deeper, DepsOf, resolveAlias, Chain, Hop
<1>3. Broken' = Broken
  BY DEF Broken, Visited, Targets, Below, Deeper, DepsOf, resolveAlias, Chain, Hop
<1>4. QED BY <1>1, <1>2, <1>3

(***************************************************************************)
(* What is below a target is visited.                                      *)
(***************************************************************************)
LEMMA TargetNames == ASSUME GraphOK PROVE Targets \in Seq(Names) /\ Len(Targets) \in Nat
<1>1. Targets \in Seq(Names) BY GraphsAssumption DEF GraphOK, Targets
<1>2. QED BY <1>1, LenProperties

LEMMA VisitedClosed ==
  ASSUME GraphOK
  PROVE  /\ Visited \subseteq Names
         /\ \A t \in 1..Len(Targets) : Chain(Targets[t]) \in Visited
         /\ \A s \in Visited \cap byName : DepsOf(s) \subseteq Visited
<1>1. ASSUME NEW n \in Elems(Targets) PROVE n \in Names BY TargetNames DEF Elems
<1>2. ASSUME NEW n \in Elems(Targets)
      PROVE  resolveAlias(n).step = Chain(n) /\ Chain(n) \in Names
  BY <1>1, ChainEnds, Resolved
<1>3. Visited \subseteq Names BY <1>2, BelowClosed DEF Visited
<1>4. ASSUME NEW t \in 1..Len(Targets) PROVE Chain(Targets[t]) \in Visited
  <2>1. Targets[t] \in Elems(Targets) BY DEF Elems
  <2>2. Chain(Targets[t]) \in Below(Chain(Targets[t])) BY <1>2, <2>1, BelowClosed
  <2>3. QED BY <1>2, <2>1, <2>2 DEF Visited
<1>5. ASSUME NEW s \in Visited \cap byName PROVE DepsOf(s) \subseteq Visited
  <2>1. PICK n \in Elems(Targets) : s \in Below(resolveAlias(n).step) BY DEF Visited
  <2>2. DepsOf(s) \subseteq Below(resolveAlias(n).step) BY <1>2, <2>1, BelowClosed
  <2>3. QED BY <2>1, <2>2 DEF Visited
<1>6. QED BY <1>3, <1>4, <1>5

(***************************************************************************)
(* The stack that walk(name) is called with: the top is through with its   *)
(* dependencies up to name.                                                *)
(***************************************************************************)
Callers(c, name) ==
  /\ c \in Seq(Frame) /\ Len(c) = Len(stack)
  /\ \A i \in 1..Len(stack) :
        /\ c[i].step = stack[i].step /\ c[i].dep # 0
        /\ \A k \in 1..Len(g.deps[stack[i].step]) :
              k < c[i].dep =>
                 \/ Chain(g.deps[stack[i].step][k]) \in Elems(order)
                 \/ i < Len(stack) /\ Chain(g.deps[stack[i].step][k]) = stack[i + 1].step
                 \/ i = Len(stack) /\ Chain(g.deps[stack[i].step][k]) = Chain(name)
  /\ stack # <<>> => Chain(name) \in DepsOf(Top.step)
  /\ stack = <<>> => Chain(name) \in Visited

(***************************************************************************)
(* The facts about the walk; only what is below the targets is walked.     *)
(***************************************************************************)
WalkInv == Marks /\ Downward /\ Frames /\ Descent /\ Elems(order) \cup OnStack \subseteq Visited

CInv == ClosureType /\ WalkInv /\ Within /\ FailOK

Pushes(x, n, c) ==
  /\ stack' \in Seq(Frame) /\ Len(stack') = n + 1
  /\ stack'[n + 1].step = x /\ stack'[n + 1].dep = 1
  /\ \A i \in 1..n : stack'[i].step = stack[i].step /\ stack'[i].dep = c[i].dep

LEMMA EnterPushes ==
  ASSUME ClosureType, WalkInv, NEW name \in Names, NEW c, Callers(c, name),
         UNCHANGED <<g, targets, byName, order>>,
         NEW x \in Names, x = Chain(name), x \in byName, mark[x] = 0,
         \A m \in Names : mark'[m] = IF m = x THEN 1 ELSE mark[m],
         NEW n \in Nat, n = Len(stack), Pushes(x, n, c)
  PROVE  WalkInv'
<1>1. GraphOK BY DEF ClosureType
<1>2. stack \in Seq(Frame) BY DEF ClosureType
<1>4. Len(stack') = n + 1 BY DEF Pushes
<1>6. \A i \in 1..n : stack'[i].step = stack[i].step BY DEF Pushes
<1>7. stack'[n + 1].step = x /\ stack'[n + 1].dep = 1 BY DEF Pushes
<1>8. /\ \A m : Chain(m)' = Chain(m)
      /\ \A s : DepsOf(s)' = DepsOf(s) /\ Below(s)' = Below(s)
      /\ Visited' = Visited
  BY SameGraph, SameTargets
<1>9. OnStack' = OnStack \cup {x}
  <2>1. ASSUME NEW i \in 1..(n + 1) PROVE stack'[i].step \in OnStack \cup {x}
    <3>1. i \in 1..n \/ i = n + 1 BY <1>2
    <3>2. QED BY <1>2, <1>6, <1>7, <3>1 DEF OnStack
  <2>2. OnStack' \subseteq OnStack \cup {x} BY <1>4, <2>1 DEF OnStack
  <2>3. ASSUME NEW i \in 1..n PROVE stack[i].step \in OnStack'
    <3>1. i \in 1..Len(stack') BY <1>2, <1>4
    <3>2. QED BY <1>6, <3>1 DEF OnStack
  <2>4. x \in OnStack'
    <3>1. n + 1 \in 1..Len(stack') BY <1>2, <1>4
    <3>2. QED BY <1>7, <3>1 DEF OnStack
  <2>5. OnStack \subseteq OnStack' BY <2>3 DEF OnStack
  <2>6. QED BY <2>2, <2>4, <2>5
<1>10. x \notin OnStack /\ x \notin Elems(order) BY <1>1 DEF WalkInv, Marks
<1>11. Marks'
  <2>1. ASSUME NEW m \in Names
        PROVE  (mark'[m] = 2 <=> m \in Elems(order)') /\ (mark'[m] = 1 <=> m \in OnStack')
    <3>1. Elems(order)' = Elems(order) BY DEF Elems
    <3>2. mark'[m] = IF m = x THEN 1 ELSE mark[m] OBVIOUS
    <3>3. (mark[m] = 2 <=> m \in Elems(order)) /\ (mark[m] = 1 <=> m \in OnStack) BY DEF WalkInv, Marks
    <3>4. QED BY <1>9, <1>10, <3>1, <3>2, <3>3
  <2>2. ASSUME NEW i \in 1..(n + 1), NEW j \in 1..(n + 1), stack'[i].step = stack'[j].step PROVE i = j
    <3>1. (i \in 1..n \/ i = n + 1) /\ (j \in 1..n \/ j = n + 1) BY <1>2
    <3>2. \A k \in 1..n : stack[k].step \in OnStack BY <1>2 DEF OnStack
    <3>3. CASE i \in 1..n /\ j \in 1..n BY <1>2, <1>6, <2>2, <3>3 DEF WalkInv, Marks
    <3>4. QED BY <1>6, <1>7, <1>10, <2>2, <3>1, <3>2, <3>3
  <2>3. \A i, j \in 1..Len(order') : order'[i] = order'[j] => i = j BY DEF WalkInv, Marks
  <2>4. QED BY <1>4, <2>1, <2>2, <2>3 DEF Marks
<1>12. Downward' BY <1>8 DEF WalkInv, Downward
<1>13. Frames'
  <2> SUFFICES ASSUME NEW i \in 1..(n + 1)
               PROVE  /\ stack'[i].step \in byName /\ stack'[i].dep # 0
                      /\ \A k \in 1..Len(g.deps[stack'[i].step]) :
                            k < stack'[i].dep =>
                               \/ Chain(g.deps[stack'[i].step][k]) \in Elems(order)
                               \/ i < n + 1 /\ Chain(g.deps[stack'[i].step][k]) = stack'[i + 1].step
    <3>1. Elems(order)' = Elems(order) BY DEF Elems
    <3>2. g' = g /\ byName' = byName OBVIOUS
    <3>3. QED BY <1>4, <1>8, <3>1, <3>2 DEF Frames
  <2>1. CASE i = n + 1
    <3>1. x \in byName BY <1>1
    <3>2. \A k \in 1..Len(g.deps[x]) : ~(k < 1) OBVIOUS
    <3>3. QED BY <1>7, <2>1, <3>1, <3>2
  <2>2. CASE i \in 1..n
    <3>1. stack[i].step \in byName BY <1>2, <2>2 DEF WalkInv, Frames
    <3>2. stack'[i].step = stack[i].step /\ stack'[i].dep = c[i].dep /\ c[i].dep # 0
      BY <2>2 DEF Callers, Pushes
    <3>3. ASSUME NEW k \in 1..Len(g.deps[stack[i].step]), k < c[i].dep
          PROVE  \/ Chain(g.deps[stack[i].step][k]) \in Elems(order)
                 \/ Chain(g.deps[stack[i].step][k]) = stack'[i + 1].step
      <4>1. \/ Chain(g.deps[stack[i].step][k]) \in Elems(order)
            \/ i < n /\ Chain(g.deps[stack[i].step][k]) = stack[i + 1].step
            \/ i = n /\ Chain(g.deps[stack[i].step][k]) = x
        BY <1>1, <1>2, <2>2, <3>3 DEF Callers
      <4>2. ASSUME i < n PROVE stack'[i + 1].step = stack[i + 1].step BY <1>2, <1>6, <2>2, <4>2
      <4>3. QED BY <1>7, <4>1, <4>2
    <3>4. i < n + 1 BY <1>2, <2>2
    <3>5. QED BY <3>1, <3>2, <3>3, <3>4
  <2>3. QED BY <1>2, <2>1, <2>2
<1>14. ASSUME n # 0 PROVE n \in 1..n /\ stack # <<>> /\ Top = stack[n] /\ x \in DepsOf(stack[n].step)
  <2>1. stack # <<>> BY <1>2, <1>14
  <2>2. QED BY <1>1, <1>2, <1>14, <2>1 DEF Callers, Top
<1>15. Descent'
  <2>1. ASSUME NEW i \in 1..n PROVE stack'[i + 1].step \in DepsOf(stack'[i].step)
    <3>1. CASE i = n BY <1>6, <1>7, <1>14, <3>1
    <3>2. CASE i < n
      <4>1. i \in 1..(n - 1) /\ i + 1 \in 1..n BY <1>2, <3>2
      <4>2. stack[i + 1].step \in DepsOf(stack[i].step) BY <1>2, <4>1 DEF WalkInv, Descent
      <4>3. QED BY <1>6, <4>1, <4>2
    <3>3. QED BY <1>2, <3>1, <3>2
  <2>2. ASSUME NEW i \in 1..(n + 1), NEW j \in 1..(n + 1), i <= j
        PROVE  stack'[j].step \in Below(stack'[i].step)
    <3>1. CASE j \in 1..n
      <4>1. i \in 1..n BY <1>2, <2>2, <3>1
      <4>2. stack[j].step \in Below(stack[i].step) BY <1>2, <2>2, <3>1, <4>1 DEF WalkInv, Descent
      <4>3. QED BY <1>6, <3>1, <4>1, <4>2
    <3>2. CASE i = n + 1
      <4>1. j = n + 1 BY <1>2, <2>2, <3>2
      <4>2. QED BY <1>1, <1>7, <3>2, <4>1, BelowClosed
    <3>3. CASE i \in 1..n /\ j = n + 1
      <4>1. n # 0 /\ i <= n BY <1>2, <3>3
      <4>2. stack[n].step \in Below(stack[i].step) /\ stack[n].step \in byName
        BY <1>2, <1>14, <3>3, <4>1 DEF WalkInv, Descent, Frames
      <4>3. stack[i].step \in Names
        <5>1. stack[i] \in Frame BY <1>2, <3>3, ElementOfSeq
        <5>2. QED BY <5>1 DEF Frame
      <4>4. DepsOf(stack[n].step) \subseteq Below(stack[i].step) BY <1>1, <4>2, <4>3, BelowClosed
      <4>5. QED BY <1>6, <1>7, <1>14, <3>3, <4>1, <4>4
    <3>4. QED BY <1>2, <3>1, <3>2, <3>3
  <2>3. QED BY <1>2, <1>4, <1>8, <2>1, <2>2 DEF Descent
<1>16. x \in Visited
  <2>1. CASE n = 0
    <3>1. stack = <<>> BY <1>2, <2>1, EmptySeq
    <3>2. QED BY <1>1, <3>1 DEF Callers
  <2>2. CASE n # 0
    <3>1. stack[n].step \in byName /\ stack[n].step \in Visited
      BY <1>2, <1>14, <2>2 DEF WalkInv, Frames, OnStack
    <3>2. QED BY <1>1, <1>14, <2>2, <3>1, VisitedClosed
  <2>3. QED BY <2>1, <2>2
<1>17. Elems(order)' \cup OnStack' \subseteq Visited' BY <1>8, <1>9, <1>16 DEF WalkInv, Elems
<1>18. QED BY <1>11, <1>12, <1>13, <1>15, <1>17 DEF WalkInv

(***************************************************************************)
(* walk(name) returns at once: the step is in the order.                   *)
(***************************************************************************)
LEMMA EnterFinds ==
  ASSUME ClosureType, WalkInv, NEW name \in Names, NEW c, Callers(c, name),
         UNCHANGED <<g, targets, byName, order, mark>>,
         NEW x \in Names, x = Chain(name), mark[x] = 2, stack' = c
  PROVE  WalkInv'
<1>1. /\ \A m : Chain(m)' = Chain(m)
      /\ \A s : DepsOf(s)' = DepsOf(s) /\ Below(s)' = Below(s)
      /\ Visited' = Visited
  BY SameGraph, SameTargets
<1>2. PICK n : n = Len(stack) OBVIOUS
<1>3. Len(stack') = n /\ \A i \in 1..n : stack'[i].step = stack[i].step /\ stack'[i].dep = c[i].dep
  BY <1>2 DEF Callers
<1>4. OnStack' = OnStack BY <1>2, <1>3 DEF OnStack
<1>5. Elems(order)' = Elems(order) BY DEF Elems
<1>6. x \in Elems(order) BY DEF WalkInv, Marks
<1>7. Marks' BY <1>2, <1>3, <1>4, <1>5 DEF WalkInv, Marks
<1>8. Downward' BY <1>1 DEF WalkInv, Downward
<1>9. Frames'
  <2> SUFFICES ASSUME NEW i \in 1..n
               PROVE  /\ stack'[i].step \in byName /\ stack'[i].dep # 0
                      /\ \A k \in 1..Len(g.deps[stack'[i].step]) :
                            k < stack'[i].dep =>
                               \/ Chain(g.deps[stack'[i].step][k]) \in Elems(order)
                               \/ i < n /\ Chain(g.deps[stack'[i].step][k]) = stack'[i + 1].step
    <3>1. g' = g /\ byName' = byName OBVIOUS
    <3>2. QED BY <1>1, <1>3, <1>5, <3>1 DEF Frames
  <2>1. stack[i].step \in byName BY <1>2 DEF WalkInv, Frames
  <2>2. stack'[i].step = stack[i].step /\ stack'[i].dep = c[i].dep /\ c[i].dep # 0
    BY <1>2, <1>3 DEF Callers
  <2>3. ASSUME NEW k \in 1..Len(g.deps[stack[i].step]), k < c[i].dep
        PROVE  \/ Chain(g.deps[stack[i].step][k]) \in Elems(order)
               \/ i < n /\ Chain(g.deps[stack[i].step][k]) = stack'[i + 1].step
    <3>1. \/ Chain(g.deps[stack[i].step][k]) \in Elems(order)
          \/ i < n /\ Chain(g.deps[stack[i].step][k]) = stack[i + 1].step
          \/ i = n /\ Chain(g.deps[stack[i].step][k]) = x
      BY <1>2, <2>3 DEF Callers
    <3>2. ASSUME i < n PROVE stack'[i + 1].step = stack[i + 1].step
      <4>1. n \in Nat BY <1>2 DEF ClosureType
      <4>2. i + 1 \in 1..n BY <3>2, <4>1
      <4>3. QED BY <1>3, <4>2
    <3>3. QED BY <1>6, <3>1, <3>2
  <2>4. QED BY <2>1, <2>2, <2>3
<1>10. Descent'
  <2>1. n \in Nat BY <1>2 DEF ClosureType
  <2>2. ASSUME NEW i \in 1..(n - 1) PROVE stack'[i + 1].step \in DepsOf(stack'[i].step)
    <3>1. i \in 1..n /\ i + 1 \in 1..n BY <2>1
    <3>2. QED BY <1>2, <1>3, <3>1 DEF WalkInv, Descent
  <2>3. ASSUME NEW i \in 1..n, NEW j \in 1..n, i <= j PROVE stack'[j].step \in Below(stack'[i].step)
    BY <1>2, <1>3, <2>3 DEF WalkInv, Descent
  <2>4. QED BY <1>1, <1>3, <2>2, <2>3 DEF Descent
<1>11. QED BY <1>1, <1>4, <1>5, <1>7, <1>8, <1>9, <1>10 DEF WalkInv

(***************************************************************************)
(* walk returns: its step is the next one in the order.                    *)
(***************************************************************************)
Pops(x, n, m) ==
  /\ stack' \in Seq(Frame) /\ Len(stack') = n - 1
  /\ \A i \in 1..(n - 1) : stack'[i] = stack[i]
  /\ order' \in Seq(Names) /\ Len(order') = m + 1 /\ order'[m + 1] = x
  /\ \A i \in 1..m : order'[i] = order[i]
  /\ Elems(order') = Elems(order) \cup {x}

LEMMA ReturnPops ==
  ASSUME ClosureType, WalkInv, UNCHANGED <<g, targets, byName>>,
         NEW n \in Nat, n # 0, n = Len(stack), NEW m \in Nat, m = Len(order),
         NEW x \in Names, x = stack[n].step, stack[n].dep > Len(g.deps[x]),
         \A l \in Names : mark'[l] = IF l = x THEN 2 ELSE mark[l], Pops(x, n, m)
  PROVE  WalkInv'
<1>1. /\ \A l : Chain(l)' = Chain(l)
      /\ \A s : DepsOf(s)' = DepsOf(s) /\ Below(s)' = Below(s)
      /\ Visited' = Visited
  BY SameGraph, SameTargets
<1>2. /\ Len(stack') = n - 1 /\ \A i \in 1..(n - 1) : stack'[i] = stack[i]
      /\ Len(order') = m + 1 /\ order'[m + 1] = x
      /\ \A i \in 1..m : order'[i] = order[i]
      /\ Elems(order') = Elems(order) \cup {x}
  BY DEF Pops
<1>3. GraphOK /\ g.deps[x] \in Seq(Names) /\ Len(g.deps[x]) \in Nat
  BY GraphsAssumption DEF ClosureType, GraphOK
<1>4. Elems(order)' = Elems(order) \cup {x}
  <2>1. Elems(order)' = Elems(order') BY DEF Elems
  <2>2. QED BY <1>2, <2>1
<1>5. n \in 1..n /\ \A i \in 1..(n - 1) : i \in 1..n OBVIOUS
<1>6. x \in OnStack /\ x \in byName BY <1>5 DEF WalkInv, OnStack, Frames
<1>7. x \notin Elems(order) BY <1>6 DEF WalkInv, Marks
<1>8. OnStack' = OnStack \ {x}
  <2>1. ASSUME NEW i \in 1..(n - 1) PROVE stack[i].step # x BY <1>5 DEF WalkInv, Marks
  <2>2. OnStack' = {stack[i].step : i \in 1..(n - 1)} BY <1>2 DEF OnStack
  <2>3. ASSUME NEW i \in 1..n PROVE i = n \/ i \in 1..(n - 1) OBVIOUS
  <2>4. OnStack' \subseteq OnStack \ {x}
    <3>1. \A i \in 1..(n - 1) : stack[i].step \in OnStack BY <1>5 DEF OnStack
    <3>2. QED BY <2>1, <2>2, <3>1
  <2>5. OnStack \ {x} \subseteq OnStack' BY <2>2, <2>3 DEF OnStack
  <2>6. QED BY <2>4, <2>5
<1>9. Marks'
  <2>1. ASSUME NEW l \in Names
        PROVE  (mark'[l] = 2 <=> l \in Elems(order)') /\ (mark'[l] = 1 <=> l \in OnStack')
    <3>1. mark'[l] = IF l = x THEN 2 ELSE mark[l] OBVIOUS
    <3>2. (mark[l] = 2 <=> l \in Elems(order)) /\ (mark[l] = 1 <=> l \in OnStack) BY DEF WalkInv, Marks
    <3>3. QED BY <1>4, <1>8, <3>1, <3>2
  <2>2. ASSUME NEW i \in 1..(m + 1), NEW j \in 1..(m + 1), order'[i] = order'[j] PROVE i = j
    <3>1. (i \in 1..m \/ i = m + 1) /\ (j \in 1..m \/ j = m + 1) OBVIOUS
    <3>2. \A k \in 1..m : order[k] \in Elems(order) BY DEF Elems
    <3>3. CASE i \in 1..m /\ j \in 1..m BY <1>2, <2>2, <3>3 DEF WalkInv, Marks
    <3>4. QED BY <1>2, <1>7, <2>2, <3>1, <3>2, <3>3
  <2>3. ASSUME NEW i \in 1..(n - 1), NEW j \in 1..(n - 1), stack'[i].step = stack'[j].step PROVE i = j
    BY <1>2, <1>5, <2>3 DEF WalkInv, Marks
  <2>4. QED BY <1>2, <2>1, <2>2, <2>3 DEF Marks
<1>10. Downward'
  <2> SUFFICES ASSUME NEW i \in 1..(m + 1)
               PROVE  /\ order'[i] \in byName
                      /\ \A d \in Elems(g.deps[order'[i]]) : \E j \in 1..(i - 1) : order'[j] = Chain(d)
    <3>1. g' = g /\ byName' = byName OBVIOUS
    <3>2. \A s : Elems(g.deps[s])' = Elems(g.deps[s]) BY <3>1 DEF Elems
    <3>3. QED BY <1>1, <1>2, <3>1, <3>2 DEF Downward
  <2>1. CASE i \in 1..m
    <3>1. order'[i] = order[i] /\ order[i] \in byName BY <1>2, <2>1 DEF WalkInv, Downward
    <3>2. ASSUME NEW d \in Elems(g.deps[order[i]]) PROVE \E j \in 1..(i - 1) : order'[j] = Chain(d)
      <4>1. PICK j \in 1..(i - 1) : order[j] = Chain(d) BY <2>1 DEF WalkInv, Downward
      <4>2. order'[j] = order[j] BY <1>2, <2>1
      <4>3. QED BY <4>1, <4>2
    <3>3. QED BY <3>1, <3>2
  <2>2. CASE i = m + 1
    <3>1. order'[i] = x BY <1>2, <2>2
    <3>2. ASSUME NEW d \in Elems(g.deps[x]) PROVE \E j \in 1..(i - 1) : order'[j] = Chain(d)
      <4>1. PICK k \in 1..Len(g.deps[x]) : g.deps[x][k] = d BY DEF Elems
      <4>2. stack[n] \in Frame /\ stack[n].dep \in Nat
        <5>1. stack \in Seq(Frame) BY DEF ClosureType
        <5>2. stack[n] \in Frame BY <1>5, <5>1, ElementOfSeq
        <5>3. QED BY <5>2 DEF Frame
      <4>3. k < stack[n].dep BY <1>3, <4>2
      <4>4. Chain(g.deps[x][k]) \in Elems(order) BY <1>5, <4>3 DEF WalkInv, Frames
      <4>5. Chain(d) \in Elems(order) BY <4>1, <4>4
      <4>6. PICK j \in 1..m : order[j] = Chain(d) BY <4>5 DEF Elems
      <4>7. j \in 1..(i - 1) /\ order'[j] = Chain(d) BY <1>2, <2>2, <4>6
      <4>8. QED BY <4>7
    <3>3. QED BY <1>6, <3>1, <3>2
  <2>3. QED BY <2>1, <2>2
<1>11. Frames'
  <2> SUFFICES ASSUME NEW i \in 1..(n - 1)
               PROVE  /\ stack'[i].step \in byName /\ stack'[i].dep # 0
                      /\ \A k \in 1..Len(g.deps[stack'[i].step]) :
                            k < stack'[i].dep =>
                               \/ Chain(g.deps[stack'[i].step][k]) \in Elems(order)'
                               \/ i < n - 1 /\ Chain(g.deps[stack'[i].step][k]) = stack'[i + 1].step
    <3>1. g' = g /\ byName' = byName OBVIOUS
    <3>2. Len(stack') = n - 1 BY <1>2
    <3>3. \A l : Chain(l)' = Chain(l) BY <1>1
    <3>4. QED BY <3>1, <3>2, <3>3 DEF Frames
  <2>1. stack'[i] = stack[i] BY <1>2
  <2>2. ASSUME NEW k \in 1..Len(g.deps[stack[i].step]), k < stack[i].dep
        PROVE  \/ Chain(g.deps[stack[i].step][k]) \in Elems(order)'
               \/ i < n - 1 /\ Chain(g.deps[stack[i].step][k]) = stack'[i + 1].step
    <3>1. \/ Chain(g.deps[stack[i].step][k]) \in Elems(order)
          \/ Chain(g.deps[stack[i].step][k]) = stack[i + 1].step
      BY <1>5, <2>2 DEF WalkInv, Frames
    <3>2. CASE i + 1 = n BY <1>4, <3>1, <3>2
    <3>3. CASE i < n - 1
      <4>1. i + 1 \in 1..(n - 1) BY <3>3
      <4>2. stack'[i + 1] = stack[i + 1] BY <1>2, <4>1
      <4>3. QED BY <1>4, <3>1, <3>3, <4>2
    <3>4. QED BY <3>2, <3>3
  <2>3. stack[i].step \in byName /\ stack[i].dep # 0 BY <1>5 DEF WalkInv, Frames
  <2>4. QED BY <2>1, <2>2, <2>3
<1>12. Descent'
  <2>1. ASSUME NEW i \in 1..(n - 1 - 1) PROVE stack'[i + 1].step \in DepsOf(stack'[i].step)
    <3>1. i \in 1..(n - 1) /\ i + 1 \in 1..(n - 1) OBVIOUS
    <3>2. QED BY <1>2, <3>1 DEF WalkInv, Descent
  <2>2. ASSUME NEW i \in 1..(n - 1), NEW j \in 1..(n - 1), i <= j
        PROVE  stack'[j].step \in Below(stack'[i].step)
    BY <1>2, <1>5, <2>2 DEF WalkInv, Descent
  <2>3. QED BY <1>1, <1>2, <2>1, <2>2 DEF Descent
<1>13. Elems(order)' \cup OnStack' \subseteq Visited' BY <1>1, <1>4, <1>6, <1>8 DEF WalkInv
<1>14. QED BY <1>9, <1>10, <1>11, <1>12, <1>13 DEF WalkInv

(***************************************************************************)
(* walk(name) fails only where the graph is broken.                        *)
(***************************************************************************)
LEMMA EnterFails ==
  ASSUME ClosureType, WalkInv, NEW name \in Names, NEW c, Callers(c, name),
         NEW x \in Names, x = Chain(name), x \notin byName \/ mark[x] = 1
  PROVE  Broken
<1>1. GraphOK /\ stack \in Seq(Frame) BY DEF ClosureType
<1>2. PICK n \in Nat : n = Len(stack) BY <1>1
<1>3. ASSUME n # 0
      PROVE  /\ n \in 1..n /\ x \in DepsOf(stack[n].step)
             /\ stack[n].step \in byName /\ stack[n].step \in Visited
  <2>1. stack # <<>> /\ n \in 1..n BY <1>2, <1>3
  <2>2. Top = stack[n] BY <1>2 DEF Top
  <2>3. x \in DepsOf(stack[n].step) BY <2>1, <2>2 DEF Callers
  <2>4. stack[n].step \in byName /\ stack[n].step \in OnStack
    BY <1>2, <2>1 DEF WalkInv, Frames, OnStack
  <2>5. QED BY <2>1, <2>3, <2>4 DEF WalkInv
<1>4. x \in Visited
  <2>1. CASE n = 0
    <3>1. stack = <<>> BY <1>1, <1>2, <2>1, EmptySeq
    <3>2. QED BY <3>1 DEF Callers
  <2>2. CASE n # 0 BY <1>1, <1>3, <2>2, VisitedClosed
  <2>3. QED BY <2>1, <2>2
<1>5. CASE x \notin byName BY <1>4, <1>5 DEF Broken
<1>6. CASE mark[x] = 1
  <2>1. PICK i \in 1..n : x = stack[i].step BY <1>2, <1>6 DEF WalkInv, Marks, OnStack
  <2>2. n # 0 OBVIOUS
  <2>3. CASE i = n
    <3>1. x \in DepsOf(x) BY <1>3, <2>1, <2>2, <2>3
    <3>2. x \in Below(x) BY <1>1, BelowClosed
    <3>3. QED BY <1>4, <3>1, <3>2 DEF Broken
  <2>4. CASE i # n
    <3>1. i \in 1..(n - 1) /\ i + 1 \in 1..n /\ i + 1 <= n /\ n \in 1..n BY <2>2, <2>4
    <3>2. stack[i + 1].step \in DepsOf(x) BY <1>2, <2>1, <3>1 DEF WalkInv, Descent
    <3>3. stack[n].step \in Below(stack[i + 1].step) BY <1>2, <3>1 DEF WalkInv, Descent
    <3>4. stack[i + 1].step \in Names
      <4>1. stack[i + 1] \in Frame BY <1>1, <1>2, <3>1, ElementOfSeq
      <4>2. QED BY <4>1 DEF Frame
    <3>5. x \in Below(stack[i + 1].step) BY <1>1, <1>3, <2>2, <3>3, <3>4, BelowClosed
    <3>6. QED BY <1>4, <3>2, <3>5 DEF Broken
  <2>5. QED BY <2>3, <2>4
<1>7. QED BY <1>5, <1>6

(***************************************************************************)
(* A step that touches none of the walk's variables keeps its invariant.   *)
(***************************************************************************)
LEMMA WalkSame ==
  ASSUME WalkInv, UNCHANGED <<g, targets, byName, stack, mark, order>>
  PROVE  WalkInv'
<1>1. /\ \A m : Chain(m)' = Chain(m)
      /\ \A s : DepsOf(s)' = DepsOf(s) /\ Below(s)' = Below(s)
      /\ Visited' = Visited
  BY SameGraph, SameTargets
<1>2. OnStack' = OnStack /\ Elems(order)' = Elems(order) BY DEF OnStack, Elems
<1>3. Marks'
  <2>1. Marks /\ mark' = mark /\ order' = order /\ stack' = stack BY DEF WalkInv
  <2>2. \A n \in Names : (mark'[n] = 2 <=> n \in Elems(order)') /\ (mark'[n] = 1 <=> n \in OnStack')
    BY <1>2, <2>1, Zenon DEF Marks
  <2>3. \A i, j \in 1..Len(order') : order'[i] = order'[j] => i = j BY <2>1, Zenon DEF Marks
  <2>4. \A i, j \in 1..Len(stack') : stack'[i].step = stack'[j].step => i = j
    BY <2>1, Zenon DEF Marks
  <2>5. QED BY <2>2, <2>3, <2>4, Zenon DEF Marks
<1>4. Downward'
  <2>1. Downward /\ g' = g /\ byName' = byName /\ order' = order BY DEF WalkInv
  <2>2. SUFFICES ASSUME NEW i \in 1..Len(order)
                 PROVE  /\ order[i] \in byName
                        /\ \A d \in Elems(g.deps[order[i]]) : \E j \in 1..(i - 1) : order[j] = Chain(d)'
    BY <2>1 DEF Downward, Elems
  <2>3. QED BY <1>1, <2>1, Zenon DEF Downward
<1>5. Frames' BY <1>1, <1>2 DEF WalkInv, Frames
<1>6. Descent' BY <1>1 DEF WalkInv, Descent
<1>7. QED BY <1>1, <1>2, <1>3, <1>4, <1>5, <1>6 DEF WalkInv

(***************************************************************************)
(* A call of walk, up to its loop.                                         *)
(***************************************************************************)
LEMMA EnterStep ==
  ASSUME ClosureType, WalkInv, NEW name \in Names, NEW c, Callers(c, name), enter(name, c),
         UNCHANGED <<g, targets, byName, order>>
  PROVE  /\ WalkInv'
         /\ mark' \in [Names -> {0, 1, 2}] /\ stack' \in Seq(Frame)
         /\ \/ pc' = "fail" /\ Broken' /\ stack' = stack
            \/ /\ pc' = pc /\ Len(stack') >= Len(stack)
               /\ \A i \in 1..Len(stack) : stack'[i].step = stack[i].step
               /\ \/ Chain(name) \in Elems(order)
                  \/ /\ Len(stack') = Len(stack) + 1
                     /\ stack'[Len(stack) + 1].step = Chain(name)
<1>1. GraphOK /\ stack \in Seq(Frame) /\ mark \in [Names -> {0, 1, 2}] BY DEF ClosureType
<1>2. PICK n \in Nat : n = Len(stack) BY <1>1
<1>3. PICK x \in Names : x = Chain(name) BY <1>1, ChainEnds
<1>4. c \in Seq(Frame) /\ Len(c) = n /\ \A i \in 1..n : c[i].step = stack[i].step BY <1>2 DEF Callers
<1>5. CASE pc' = "fail" /\ UNCHANGED <<stack, mark>> /\ (x \notin byName \/ mark[x] = 1)
  <2>1. Broken BY <1>3, <1>5, EnterFails
  <2>2. Broken' BY <2>1, SameTargets
  <2>3. WalkInv' BY <1>5, WalkSame
  <2>4. QED BY <1>1, <1>5, <2>2, <2>3
<1>6. CASE x \in byName /\ mark[x] = 2 /\ stack' = c /\ UNCHANGED <<pc, err, mark>>
  <2>1. WalkInv' BY <1>3, <1>6, EnterFinds
  <2>2. x \in Elems(order) BY <1>6 DEF WalkInv, Marks
  <2>3. QED BY <1>1, <1>2, <1>3, <1>4, <1>6, <2>1, <2>2
<1>7. CASE /\ x \in byName /\ mark[x] = 0 /\ mark' = [mark EXCEPT ![x] = 1]
           /\ stack' = Append(c, [step |-> x, dep |-> 1]) /\ UNCHANGED <<pc, err>>
  <2> DEFINE f == [step |-> x, dep |-> 1]
  <2>1. f \in Frame /\ f.step = x /\ f.dep = 1 BY DEF Frame
  <2>2. stack' = Append(c, f) BY <1>7
  <2> HIDE DEF f
  <2>3. /\ stack' \in Seq(Frame) /\ Len(stack') = n + 1 /\ stack'[n + 1] = f
        /\ \A i \in 1..n : stack'[i] = c[i]
    BY <1>4, <2>1, <2>2, Pushed
  <2>4. Pushes(x, n, c) BY <1>4, <2>1, <2>3 DEF Pushes
  <2>5. \A m \in Names : mark'[m] = IF m = x THEN 1 ELSE mark[m] BY <1>1, <1>7
  <2>6. mark' \in [Names -> {0, 1, 2}] BY <1>1, <1>7
  <2>7. WalkInv' BY <1>2, <1>3, <1>7, <2>4, <2>5, EnterPushes
  <2>8. Len(stack') >= n /\ (\A i \in 1..n : stack'[i].step = stack[i].step) /\ stack'[n + 1].step = x
    BY <1>4, <2>1, <2>3
  <2>9. QED BY <1>2, <1>3, <1>7, <2>3, <2>6, <2>7, <2>8
<1>8. QED BY <1>3, <1>5, <1>6, <1>7, EnterCases

(***************************************************************************)
(* Nothing is walked yet.                                                  *)
(***************************************************************************)
NotWalked == order = <<>> /\ stack = <<>> /\ mark = [n \in Names |-> 0]

LEMMA WalkBegins == NotWalked => WalkInv
<1> SUFFICES ASSUME NotWalked PROVE WalkInv OBVIOUS
<1> USE DEF NotWalked
<1>1. Len(order) = 0 /\ Len(stack) = 0 OBVIOUS
<1>2. Elems(order) = {} /\ OnStack = {} BY <1>1 DEF Elems, OnStack
<1>3. Marks BY <1>1, <1>2 DEF Marks
<1>4. Downward /\ Frames /\ Descent BY <1>1 DEF Downward, Frames, Descent
<1>5. QED BY <1>2, <1>3, <1>4 DEF WalkInv

LEMMA IndexStep == ASSUME CInv, index PROVE CInv'
<1> DEFINE bad == {i \in 1..Len(g.steps) :
                     g.steps[i] = Empty \/ \E j \in 1..(i - 1) : g.steps[j] = g.steps[i]}
<1>1. /\ pc = "index" /\ byName' = Elems(g.steps)
      /\ UNCHANGED <<g, targets, at, stack, mark, order>>
      /\ \/ pc' = "fail" /\ err' \in {"empty", "duplicate", "no target"}
         \/ pc' = "walk" /\ bad = {}
  BY DEF index, Fail
<1>2. order' = <<>> /\ stack' = <<>> /\ at' = 1 /\ mark' = [n \in Names |-> 0]
  BY <1>1 DEF CInv, ClosureType
<1>3. WalkInv'
  <2>1. NotWalked' BY <1>2 DEF NotWalked
  <2>2. QED BY <2>1, WalkBegins, PTL
<1>4. ASSUME pc' = "walk" PROVE byName' = StepsOf(g)'
  <2>1. g \in Graphs BY DEF CInv, ClosureType, GraphOK
  <2>2. g.steps \in Seq(Names \cup {Empty}) BY <2>1, GraphsAssumption
  <2>3. ASSUME NEW i \in 1..Len(g.steps) PROVE g.steps[i] \in Names
    <3>1. g.steps[i] # Empty BY <1>1, <1>4
    <3>2. g.steps[i] \in Names \cup {Empty} BY <2>2, ElementOfSeq
    <3>3. QED BY <3>1, <3>2
  <2>4. Elems(g.steps) \subseteq Names BY <2>3 DEF Elems
  <2>5. StepsOf(g)' = StepsOf(g) BY <1>1 DEF StepsOf, Elems
  <2>6. QED BY <1>1, <2>4, <2>5 DEF StepsOf
<1>5. ClosureType' BY <1>1, <1>2, <1>4 DEF CInv, ClosureType, GraphOK
<1>6. Within'
  <2>1. ASSUME NEW t \in 1..Len(Targets') PROVE ~(t < at') BY <1>2
  <2>2. QED BY <2>1 DEF Within
<1>7. FailOK' BY <1>1 DEF FailOK
<1>8. QED BY <1>3, <1>5, <1>6, <1>7 DEF CInv

LEMMA WalkTargetStep == ASSUME CInv, walkTarget PROVE CInv'
<1>1. /\ pc = "walk" /\ stack = <<>> /\ at <= Len(Targets)
      /\ enter(Targets[at], <<>>) /\ at' = at + 1
      /\ UNCHANGED <<g, targets, byName, order>>
  BY DEF walkTarget
<1>2. ClosureType /\ WalkInv /\ GraphOK BY DEF CInv, ClosureType
<1>3. at \in 1..Len(Targets) BY <1>1, <1>2, TargetNames DEF ClosureType
<1>4. PICK name \in Names : name = Targets[at]
  <2>1. Targets[at] \in Names BY <1>2, <1>3, TargetNames, ElementOfSeq
  <2>2. QED BY <2>1
<1>5. Len(stack) = 0 BY <1>1
<1>6. Callers(<<>>, name)
  <2>1. Chain(name) \in Visited BY <1>2, <1>3, <1>4, VisitedClosed
  <2>2. <<>> \in Seq(Frame) /\ Len(<<>>) = 0 OBVIOUS
  <2>3. QED BY <1>1, <1>5, <2>1, <2>2 DEF Callers
<1>7. enter(name, <<>>) BY <1>1, <1>4
<1>8. /\ WalkInv'
      /\ mark' \in [Names -> {0, 1, 2}] /\ stack' \in Seq(Frame)
      /\ \/ pc' = "fail" /\ Broken' /\ stack' = stack
         \/ /\ pc' = pc
            /\ \/ Chain(name) \in Elems(order)
               \/ Len(stack') = Len(stack) + 1 /\ stack'[Len(stack) + 1].step = Chain(name)
  BY <1>1, <1>2, <1>6, <1>7, EnterStep
<1>9. ClosureType'
  <2>1. pc' \in {"walk", "fail"} BY <1>1, <1>8
  <2>2. byName' = byName /\ StepsOf(g)' = StepsOf(g) BY <1>1 DEF StepsOf, Elems
  <2>3. byName = StepsOf(g) BY <1>1, <1>2 DEF ClosureType
  <2>4. QED BY <1>1, <1>2, <1>8, <2>1, <2>2, <2>3 DEF ClosureType, GraphOK
<1>10. Within'
  <2>1. Targets' = Targets /\ Elems(order)' = Elems(order) /\ \A m : Chain(m)' = Chain(m)
    BY <1>1, SameGraph, SameTargets DEF Elems
  <2>2. ASSUME pc' = "walk", NEW t \in 1..Len(Targets), t < at'
        PROVE  \/ Chain(Targets[t]) \in Elems(order)
               \/ stack' # <<>> /\ Chain(Targets[t]) = stack'[1].step
    <3>1. CASE t < at BY <1>1, <3>1 DEF CInv, Within
    <3>2. CASE t = at
      <4>1. \/ Chain(name) \in Elems(order)
            \/ Len(stack') = 1 /\ stack'[1].step = Chain(name)
        BY <1>5, <1>8, <2>2
      <4>2. Len(stack') = 1 => stack' # <<>> OBVIOUS
      <4>3. QED BY <1>4, <3>2, <4>1, <4>2
    <3>3. QED BY <1>1, <1>3, <2>2, <3>1, <3>2
  <2>3. pc' \in {"walk", "fail"} BY <1>1, <1>8
  <2>4. QED BY <2>1, <2>2, <2>3 DEF Within
<1>11. FailOK' BY <1>1, <1>8 DEF FailOK
<1>12. QED BY <1>8, <1>9, <1>10, <1>11 DEF CInv

LEMMA WalkDepStep == ASSUME CInv, walkDep PROVE CInv'
<1>1. ClosureType /\ WalkInv /\ GraphOK /\ stack \in Seq(Frame) BY DEF CInv, ClosureType
<1>2. /\ pc = "walk" /\ stack # <<>> /\ Top.dep <= Len(g.deps[Top.step])
      /\ enter(g.deps[Top.step][Top.dep], [stack EXCEPT ![Len(stack)].dep = @ + 1])
      /\ UNCHANGED <<g, targets, byName, at, order>>
  BY DEF walkDep
<1>3. PICK n \in Nat : n = Len(stack) /\ n # 0 BY <1>1, <1>2, EmptySeq
<1>4. n \in 1..n /\ Top = stack[n] BY <1>3 DEF Top
<1>5. \A i \in 1..n : stack[i] \in Frame BY <1>1, <1>3, ElementOfSeq
<1>6. PICK x \in Names, k \in Nat : x = stack[n].step /\ k = stack[n].dep BY <1>4, <1>5 DEF Frame
<1>7. g.deps[x] \in Seq(Names) /\ Len(g.deps[x]) \in Nat BY <1>1, GraphsAssumption DEF GraphOK
<1>8. k \in 1..Len(g.deps[x])
  <2>1. k # 0 BY <1>3, <1>4, <1>6 DEF CInv, WalkInv, Frames
  <2>2. QED BY <1>2, <1>4, <1>6, <1>7, <2>1
<1>9. PICK name \in Names : name = g.deps[x][k]
  <2>1. g.deps[x][k] \in Names BY <1>7, <1>8, ElementOfSeq
  <2>2. QED BY <2>1
<1>10. PICK c : /\ enter(name, c) /\ c \in Seq(Frame) /\ Len(c) = n
                /\ c[n].step = x /\ c[n].dep = k + 1
                /\ \A i \in 1..n : i # n => c[i] = stack[i]
  <2> DEFINE c == [stack EXCEPT ![n].dep = @ + 1]
  <2>1. enter(name, c) BY <1>2, <1>3, <1>4, <1>6, <1>9
  <2>2. c[n] = [stack[n] EXCEPT !.dep = @ + 1] BY <1>1, <1>3, <1>4
  <2>3. c[n].step = x /\ c[n].dep = k + 1 /\ c[n] \in Frame BY <1>4, <1>5, <1>6, <2>2 DEF Frame
  <2>4. \A i \in 1..n : i # n => c[i] = stack[i] BY <1>1, <1>3
  <2>5. c = [stack EXCEPT ![n] = c[n]] BY <1>1, <1>3, <1>4
  <2>6. c \in Seq(Frame) /\ Len(c) = n BY <1>1, <1>3, <1>4, <2>3, <2>5, ExceptSeq
  <2> HIDE DEF c
  <2>7. QED BY <2>1, <2>3, <2>4, <2>6
<1>11. Chain(name) \in DepsOf(x)
  <2>1. name \in Elems(g.deps[x]) BY <1>8, <1>9 DEF Elems
  <2>2. QED BY <2>1, Resolved DEF DepsOf
<1>12. Callers(c, name)
  <2>1. ASSUME NEW i \in 1..n
        PROVE  /\ c[i].step = stack[i].step /\ c[i].dep # 0
               /\ \A j \in 1..Len(g.deps[stack[i].step]) :
                     j < c[i].dep =>
                        \/ Chain(g.deps[stack[i].step][j]) \in Elems(order)
                        \/ i < n /\ Chain(g.deps[stack[i].step][j]) = stack[i + 1].step
                        \/ i = n /\ Chain(g.deps[stack[i].step][j]) = Chain(name)
    <3>1. /\ stack[i].dep # 0
          /\ \A j \in 1..Len(g.deps[stack[i].step]) :
                j < stack[i].dep =>
                   \/ Chain(g.deps[stack[i].step][j]) \in Elems(order)
                   \/ i < n /\ Chain(g.deps[stack[i].step][j]) = stack[i + 1].step
      BY <1>1, <1>3 DEF WalkInv, Frames
    <3>2. CASE i # n BY <1>10, <3>1, <3>2
    <3>3. CASE i = n
      <4>1. ASSUME NEW j \in 1..Len(g.deps[x]), j < k + 1
            PROVE  Chain(g.deps[x][j]) \in Elems(order) \/ Chain(g.deps[x][j]) = Chain(name)
        <5>1. CASE j = k BY <1>9, <5>1
        <5>2. CASE j < k BY <1>6, <3>1, <3>3, <5>2
        <5>3. QED BY <1>7, <4>1, <5>1, <5>2
      <4>2. QED BY <1>6, <1>10, <3>3, <4>1
    <3>4. QED BY <3>2, <3>3
  <2>2. QED BY <1>2, <1>3, <1>4, <1>6, <1>10, <1>11, <2>1 DEF Callers
<1>13. /\ WalkInv'
       /\ mark' \in [Names -> {0, 1, 2}] /\ stack' \in Seq(Frame)
       /\ \/ pc' = "fail" /\ Broken' /\ stack' = stack
          \/ /\ pc' = pc /\ Len(stack') >= Len(stack)
             /\ \A i \in 1..Len(stack) : stack'[i].step = stack[i].step
  BY <1>1, <1>2, <1>10, <1>12, EnterStep
<1>14. ClosureType'
  <2>1. pc' \in {"walk", "fail"} BY <1>2, <1>13
  <2>2. byName' = byName /\ StepsOf(g)' = StepsOf(g) BY <1>2 DEF StepsOf, Elems
  <2>3. byName = StepsOf(g) BY <1>1, <1>2 DEF ClosureType
  <2>4. QED BY <1>1, <1>2, <1>13, <2>1, <2>2, <2>3 DEF ClosureType, GraphOK
<1>15. Within'
  <2>1. Targets' = Targets /\ Elems(order)' = Elems(order) /\ \A m : Chain(m)' = Chain(m)
    BY <1>2, SameGraph, SameTargets DEF Elems
  <2>2. pc' \in {"walk", "fail"} BY <1>2, <1>13
  <2>3. ASSUME pc' = "walk" PROVE stack' # <<>> /\ stack'[1].step = stack[1].step
    <3>1. Len(stack') >= n /\ 1 \in 1..n BY <1>3, <1>13, <2>3
    <3>2. QED BY <1>3, <1>13, <2>3, <3>1
  <2>4. \A t \in 1..Len(Targets) : t < at =>
           Chain(Targets[t]) \in Elems(order) \/ Chain(Targets[t]) = stack[1].step
    BY <1>2 DEF CInv, Within
  <2>5. at' = at BY <1>2
  <2>6. QED BY <2>1, <2>2, <2>3, <2>4, <2>5 DEF Within
<1>16. FailOK' BY <1>2, <1>13 DEF FailOK
<1>17. QED BY <1>13, <1>14, <1>15, <1>16 DEF CInv

LEMMA WalkReturnStep == ASSUME CInv, walkReturn PROVE CInv'
<1>1. ClosureType /\ WalkInv /\ GraphOK /\ stack \in Seq(Frame) /\ order \in Seq(Names)
  BY DEF CInv, ClosureType
<1>2. /\ pc = "walk" /\ stack # <<>> /\ Top.dep > Len(g.deps[Top.step])
      /\ mark' = [mark EXCEPT ![Top.step] = 2]
      /\ order' = Append(order, Top.step)
      /\ stack' = SubSeq(stack, 1, Len(stack) - 1)
      /\ UNCHANGED <<g, targets, pc, err, byName, at>>
  BY DEF walkReturn
<1>3. PICK n \in Nat, m \in Nat : n = Len(stack) /\ n # 0 /\ m = Len(order)
  BY <1>1, <1>2, EmptySeq
<1>4. n \in 1..n /\ Top = stack[n] BY <1>3 DEF Top
<1>5. PICK x \in Names : x = stack[n].step
  <2>1. stack[n] \in Frame BY <1>1, <1>3, <1>4, ElementOfSeq
  <2>2. QED BY <2>1 DEF Frame
<1>6. Pops(x, n, m)
  <2>1. stack' \in Seq(Frame) /\ Len(stack') = n - 1 /\ \A i \in 1..(n - 1) : stack'[i] = stack[i]
    BY <1>1, <1>2, <1>3, Popped
  <2>2. order' = Append(order, x) BY <1>2, <1>4, <1>5
  <2>3. /\ order' \in Seq(Names) /\ Len(order') = m + 1 /\ order'[m + 1] = x
        /\ \A i \in 1..m : order'[i] = order[i]
        /\ Elems(order') = Elems(order) \cup {x}
    BY <1>1, <1>3, <2>2, Pushed
  <2>4. QED BY <2>1, <2>3 DEF Pops
<1>7. mark' = [mark EXCEPT ![x] = 2] /\ mark \in [Names -> {0, 1, 2}]
  BY <1>1, <1>2, <1>4, <1>5 DEF ClosureType
<1>8. WalkInv'
  <2>1. \A l \in Names : mark'[l] = IF l = x THEN 2 ELSE mark[l] BY <1>7
  <2>2. stack[n].dep > Len(g.deps[x]) BY <1>2, <1>4, <1>5
  <2>3. UNCHANGED <<g, targets, byName>> BY <1>2
  <2>4. QED BY <1>1, <1>3, <1>5, <1>6, <2>1, <2>2, <2>3, ReturnPops
<1>9. ClosureType'
  <2>1. mark' \in [Names -> {0, 1, 2}] BY <1>7
  <2>2. byName' = byName /\ StepsOf(g)' = StepsOf(g) BY <1>2 DEF StepsOf, Elems
  <2>3. byName = StepsOf(g) BY <1>1, <1>2 DEF ClosureType
  <2>4. stack' \in Seq(Frame) /\ order' \in Seq(Names) BY <1>6 DEF Pops
  <2>5. QED BY <1>1, <1>2, <2>1, <2>2, <2>3, <2>4 DEF ClosureType, GraphOK
<1>10. Within'
  <2>1. Targets' = Targets /\ \A l : Chain(l)' = Chain(l) BY <1>2, SameGraph, SameTargets
  <2>2. Elems(order)' = Elems(order) \cup {x}
    <3>1. Elems(order)' = Elems(order') BY DEF Elems
    <3>2. QED BY <1>6, <3>1 DEF Pops
  <2>3. \A t \in 1..Len(Targets) : t < at =>
           Chain(Targets[t]) \in Elems(order) \/ Chain(Targets[t]) = stack[1].step
    BY <1>2 DEF CInv, Within
  <2>4. CASE n = 1 BY <1>2, <1>5, <2>1, <2>2, <2>3, <2>4 DEF Within
  <2>5. CASE n # 1
    <3>1. 1 \in 1..(n - 1) /\ Len(stack') = n - 1 BY <1>3, <1>6, <2>5 DEF Pops
    <3>2. stack' # <<>> /\ stack'[1] = stack[1] BY <1>6, <3>1 DEF Pops
    <3>3. QED BY <1>2, <2>1, <2>2, <2>3, <3>2 DEF Within
  <2>6. QED BY <2>4, <2>5
<1>11. FailOK' BY <1>2 DEF FailOK
<1>12. QED BY <1>8, <1>9, <1>10, <1>11 DEF CInv

(***************************************************************************)
(* The steps after the walk, and the ones of the Run, change pc alone.     *)
(***************************************************************************)
PcMoves ==
  \/ pc' = pc \/ pc' = "idle"
  \/ pc = "done" /\ pc' = "run"
  \/ pc = "walk" /\ pc' = "done" /\ stack = <<>> /\ at > Len(Targets)

LEMMA LocalsKept ==
  ASSUME CInv, g' = g, targets' = targets, locals' = locals, PcMoves
  PROVE  CInv'
<1>1. UNCHANGED <<g, targets, err, byName, at, stack, mark, order>> BY DEF locals
<1>2. WalkInv' BY <1>1, WalkSame DEF CInv
<1>3. /\ Targets' = Targets /\ Elems(order)' = Elems(order) /\ StepsOf(g)' = StepsOf(g)
      /\ \A m : Chain(m)' = Chain(m)
  BY <1>1, SameGraph, SameTargets DEF Elems, StepsOf
<1>4. Broken' = Broken BY <1>1, SameTargets
<1>5. ClosureType' BY <1>1, <1>3 DEF CInv, ClosureType, GraphOK, PcMoves
<1>6. Within' BY <1>1, <1>3 DEF CInv, Within, PcMoves
<1>7. FailOK' BY <1>1, <1>4 DEF CInv, FailOK, PcMoves
<1>8. QED BY <1>2, <1>5, <1>6, <1>7 DEF CInv

LEMMA CallStep ==
  ASSUME CInv, NEW ts \in g.asked, closureCall(ts)
  PROVE  CInv'
<1>1. /\ pc' = "index" /\ targets' = ts /\ at' = 1 /\ g' = g
      /\ stack' = <<>> /\ order' = <<>> /\ mark' = [n \in Names |-> 0]
  BY DEF closureCall
<1>2. NotWalked' BY <1>1 DEF NotWalked
<1>3. WalkInv' BY <1>2, WalkBegins, PTL
<1>4. GraphOK' BY <1>1, GraphsAssumption DEF CInv, ClosureType, GraphOK
<1>5. ClosureType' BY <1>1, <1>4 DEF ClosureType
<1>6. Within' /\ FailOK' BY <1>1 DEF Within, FailOK
<1>7. QED BY <1>3, <1>5, <1>6 DEF CInv

LEMMA ClosureInit == Init => CInv
<1> SUFFICES ASSUME Init PROVE CInv OBVIOUS
<1>1. /\ g \in Graphs /\ pc = "idle" /\ targets = <<>> /\ at = 1
      /\ stack = <<>> /\ order = <<>> /\ mark = [n \in Names |-> 0]
  BY DEF Init
<1>2. WalkInv BY <1>1, WalkBegins DEF NotWalked
<1>3. ClosureType BY <1>1 DEF ClosureType, GraphOK
<1>4. Within /\ FailOK BY <1>1 DEF Within, FailOK
<1>5. QED BY <1>2, <1>3, <1>4 DEF CInv

LEMMA ClosureNext == CInv /\ [Next]_vars => CInv'
<1> SUFFICES ASSUME CInv, [Next]_vars PROVE CInv' OBVIOUS
<1>1. ASSUME NEW ts \in g.asked, Run(ts) PROVE CInv' BY <1>1, CallStep DEF Run
<1>2. CASE closureStep
  <2>1. CASE index BY <2>1, IndexStep
  <2>2. CASE walkTarget BY <2>2, WalkTargetStep
  <2>3. CASE walkDep BY <2>3, WalkDepStep
  <2>4. CASE walkReturn BY <2>4, WalkReturnStep
  <2>5. CASE closureReturn
    <3>1. PcMoves /\ g' = g /\ targets' = targets /\ locals' = locals
      BY <2>5 DEF closureReturn, PcMoves
    <3>2. QED BY <3>1, LocalsKept
  <2>6. QED BY <1>2, <2>1, <2>2, <2>3, <2>4, <2>5 DEF closureStep, closure
<1>3. CASE schedule
  <2>1. PcMoves /\ g' = g /\ targets' = targets /\ locals' = locals BY <1>3 DEF schedule, PcMoves
  <2>2. QED BY <2>1, LocalsKept
<1>4. CASE return
  <2>1. PcMoves /\ g' = g /\ targets' = targets /\ locals' = locals BY <1>4 DEF return, PcMoves
  <2>2. QED BY <2>1, LocalsKept
<1>5. CASE UNCHANGED closureVars
  <2>1. PcMoves /\ g' = g /\ targets' = targets /\ locals' = locals
    BY <1>5 DEF closureVars, PcMoves
  <2>2. QED BY <2>1, LocalsKept
<1>6. ASSUME NEW s \in Names, StepStep(s) PROVE UNCHANGED closureVars
  BY <1>6 DEF StepStep, skip, idle, start, write, finish, fail
<1>7. ASSUME NEW x \in g.sources, edit(x) PROVE UNCHANGED closureVars BY <1>7 DEF edit
<1>8. CASE UNCHANGED vars BY <1>5, <1>8 DEF vars
<1>9. QED BY <1>1, <1>2, <1>3, <1>4, <1>5, <1>6, <1>7, <1>8 DEF Next

LEMMA ClosureInv == Spec => []CInv
BY ClosureInit, ClosureNext, PTL DEF Spec

(***************************************************************************)
(* For every graph: schedule finds the tasks of a step's dependencies      *)
(* among those of the steps before it, and calls Go once per step.         *)
(***************************************************************************)
THEOREM ClosureIsSchedulable == Spec => []OrderIsSchedulable
<1>1. ASSUME CInv PROVE OrderIsSchedulable
  <2>1. \A i, j \in 1..Len(order) : order[i] = order[j] => i = j BY <1>1 DEF CInv, WalkInv, Marks
  <2>2. ASSUME NEW i \in 1..Len(order), NEW d \in Elems(g.deps[order[i]])
        PROVE  \E j \in 1..(i - 1) : order[j] = resolveAlias(d).step
    <3>1. PICK j \in 1..(i - 1) : order[j] = Chain(d) BY <1>1 DEF CInv, WalkInv, Downward
    <3>2. QED BY <3>1, Resolved
  <2>3. QED BY <2>1, <2>2 DEF OrderIsSchedulable
<1>2. QED BY <1>1, ClosureInv, PTL

(***************************************************************************)
(* What is below a step of the order comes no later than the step.         *)
(***************************************************************************)
LEMMA BelowIsBefore ==
  ASSUME CInv, NEW i \in 1..Len(order), NEW s \in Below(order[i])
  PROVE  \E j \in 1..i : s = order[j]
<1> DEFINE C == {order[k] : k \in 1..i}
<1>1. GraphOK /\ order \in Seq(Names) /\ Len(order) \in Nat BY DEF CInv, ClosureType
<1>2. order[i] \in Names BY <1>1, ElementOfSeq
<1>3. order[i] \in C OBVIOUS
<1>4. ASSUME NEW t \in C \cap byName, NEW e \in DepsOf(t) PROVE e \in C
  <2>1. PICK k \in 1..i : t = order[k] OBVIOUS
  <2>2. PICK d \in Elems(g.deps[t]) : e = Chain(d) BY Resolved DEF DepsOf
  <2>3. k \in 1..Len(order) BY <1>1
  <2>4. PICK j \in 1..(k - 1) : order[j] = Chain(d) BY <2>1, <2>2, <2>3 DEF CInv, WalkInv, Downward
  <2>5. j \in 1..i BY <1>1
  <2>6. QED BY <2>2, <2>4, <2>5
<1>5. Below(order[i]) \subseteq C
  <2> HIDE DEF C
  <2>1. \A t \in C \cap byName : DepsOf(t) \subseteq C BY <1>4
  <2>2. QED BY <1>1, <1>2, <1>3, <2>1, BelowLeast
<1>6. QED BY <1>5

(***************************************************************************)
(* The order of a walk that is over is what is below the targets.          *)
(***************************************************************************)
LEMMA OrderIsVisited ==
  ASSUME CInv, pc \in {"done", "run"}
  PROVE  Elems(order) = Visited
<1>1. GraphOK /\ stack = <<>> /\ at > Len(Targets) /\ at \in Nat BY DEF CInv, ClosureType
<1>2. ASSUME NEW n \in Elems(Targets)
      PROVE  n \in Names /\ Chain(n) \in Elems(order) /\ resolveAlias(n).step = Chain(n)
  <2>1. PICK t \in 1..Len(Targets) : n = Targets[t] BY DEF Elems
  <2>2. n \in Names BY <1>1, <2>1, TargetNames, ElementOfSeq
  <2>3. t < at BY <1>1, TargetNames
  <2>4. Chain(n) \in Elems(order) BY <1>1, <2>1, <2>3 DEF CInv, Within
  <2>5. QED BY <2>2, <2>4, Resolved
<1>3. ASSUME NEW s \in Elems(order), NEW e \in DepsOf(s) PROVE e \in Elems(order)
  <2>1. PICK i \in 1..Len(order) : s = order[i] BY DEF Elems
  <2>2. PICK d \in Elems(g.deps[s]) : e = Chain(d) BY Resolved DEF DepsOf
  <2>3. PICK j \in 1..(i - 1) : order[j] = Chain(d) BY <2>1, <2>2 DEF CInv, WalkInv, Downward
  <2>4. Len(order) \in Nat BY DEF CInv, ClosureType
  <2>5. j \in 1..Len(order) BY <2>4
  <2>6. QED BY <2>2, <2>3, <2>5 DEF Elems
<1>4. ASSUME NEW n \in Elems(Targets) PROVE Below(Chain(n)) \subseteq Elems(order)
  <2>1. Chain(n) \in Names BY <1>1, <1>2, ChainEnds
  <2>2. \A t \in Elems(order) \cap byName : DepsOf(t) \subseteq Elems(order) BY <1>3
  <2>3. QED BY <1>1, <1>2, <2>1, <2>2, BelowLeast
<1>5. Visited \subseteq Elems(order) BY <1>2, <1>4 DEF Visited
<1>6. Elems(order) \subseteq Visited BY DEF CInv, WalkInv
<1>7. QED BY <1>5, <1>6

(***************************************************************************)
(* For every graph: closure succeeds exactly if the part below the targets *)
(* has every step it names and no cycle, and then the order is that part.  *)
(***************************************************************************)
THEOREM ClosureIsComplete == Spec => []OrderIsClosure
<1>1. ASSUME CInv, pc = "done" PROVE ~Broken /\ Elems(order) = Visited
  <2>1. Elems(order) = Visited BY <1>1, OrderIsVisited
  <2>2. GraphOK /\ order \in Seq(Names) /\ Len(order) \in Nat BY <1>1 DEF CInv, ClosureType
  <2>3. ASSUME NEW s \in Visited PROVE s \in byName
    <3>1. PICK i \in 1..Len(order) : s = order[i] BY <2>1 DEF Elems
    <3>2. QED BY <1>1, <3>1 DEF CInv, WalkInv, Downward
  <2>4. ASSUME NEW s \in Visited, NEW d \in DepsOf(s), s \in Below(d) PROVE FALSE
    <3>1. PICK i \in 1..Len(order) : s = order[i] BY <2>1 DEF Elems
    <3>2. PICK e \in Elems(g.deps[s]) : d = Chain(e) BY Resolved DEF DepsOf
    <3>3. PICK j \in 1..(i - 1) : order[j] = d BY <1>1, <3>1, <3>2 DEF CInv, WalkInv, Downward
    <3>4. j \in 1..Len(order) BY <2>2
    <3>5. PICK k \in 1..j : s = order[k] BY <1>1, <2>4, <3>3, <3>4, BelowIsBefore
    <3>6. k \in 1..Len(order) /\ k # i BY <2>2
    <3>7. QED BY <1>1, <3>1, <3>5, <3>6 DEF CInv, WalkInv, Marks
  <2>5. QED BY <2>1, <2>3, <2>4 DEF Broken
<1>2. ASSUME CInv PROVE OrderIsClosure BY <1>1, <1>2 DEF OrderIsClosure, CInv, FailOK
<1>3. QED BY <1>2, ClosureInv, PTL

-----------------------------------------------------------------------------
(* A Run *)

Makers == StepsOf(g) \ g.idle
Settled == {"skipped", "done"}

RunType ==
  /\ mtime \in [FilesOf(g) -> Nat] /\ now \in Nat
  /\ \A f \in FilesOf(g) : mtime[f] <= now
  /\ \A x \in g.sources : mtime[x] # 0
  /\ st \in [Names -> {"idle", "pending", "running", "skipped", "done", "failed"}]
  /\ written \in [Names -> SUBSET FilesOf(g)]
  /\ truth \in [Names -> {"current", "behind", "bad"}]

(* The steps of a Run are those of the order; one is started when what it  *)
(* depends on is settled.                                                  *)
Started ==
  /\ \A s \in Names :
        /\ st[s] # "idle" => pc = "run" /\ s \in Elems(order)
        /\ pc = "run" /\ st[s] = "idle" => s \notin Elems(order)
        /\ st[s] = "pending" => written[s] = {}
        /\ st[s] = "running" => s \in Makers /\ written[s] \subseteq Outputs(s)
        /\ st[s] \notin {"idle", "pending"} => \A d \in DepsOf(s) : st[d] \in Settled
  /\ pc = "run" => rebuilt \subseteq {n \in Makers : st[n] = "done"}

RInv == RunType /\ Started

LEMMA FileTypes ==
  ASSUME GraphOK
  PROVE  /\ StepsOf(g) \subseteq Names /\ g.sources \subseteq FilesOf(g)
         /\ \A s \in StepsOf(g) : Outputs(s) \subseteq FilesOf(g) /\ Inputs(s) \subseteq FilesOf(g)
         /\ \A s \in Makers : Outputs(s) \cap g.sources = {}
         /\ \A s, d \in StepsOf(g) : s # d => Outputs(s) \cap Outputs(d) = {}
<1>1. g \in Graphs BY DEF GraphOK
<1>2. StepsOf(g) \subseteq Names BY DEF StepsOf
<1>3. /\ g.sources \subseteq FilesOf(g)
      /\ \A s \in StepsOf(g) : Outputs(s) \subseteq FilesOf(g) /\ Inputs(s) \subseteq FilesOf(g)
  BY DEF FilesOf, Outputs, Inputs
<1>4. \A s \in Makers : Outputs(s) \cap g.sources = {} BY <1>1, FilesAssumption DEF Makers, Outputs
<1>5. \A s, d \in StepsOf(g) : s # d => Outputs(s) \cap Outputs(d) = {}
  BY <1>1, FilesAssumption DEF Outputs
<1>6. QED BY <1>2, <1>3, <1>4, <1>5

LEMMA SameFiles ==
  ASSUME g' = g
  PROVE  /\ StepsOf(g)' = StepsOf(g) /\ FilesOf(g)' = FilesOf(g) /\ Makers' = Makers
         /\ \A s : Outputs(s)' = Outputs(s) /\ Inputs(s)' = Inputs(s) /\ Reads(s)' = Reads(s)
         /\ \A s : Declared(s)' <=> Declared(s)
<1>1. StepsOf(g)' = StepsOf(g) BY DEF StepsOf, Elems
<1>2. FilesOf(g)' = FilesOf(g) BY <1>1 DEF FilesOf, StepsOf, Elems
<1>3. Makers' = Makers BY <1>1 DEF Makers, StepsOf, Elems
<1>4. \A s : Outputs(s)' = Outputs(s) /\ Inputs(s)' = Inputs(s) BY DEF Outputs, Inputs
<1>5. \A s : Reads(s)' = Reads(s) BY <1>1, <1>4 DEF Reads, Outputs, Inputs, StepsOf, Elems
<1>6. \A s : Declared(s)' <=> Declared(s) BY <1>1, <1>5 DEF Declared, StepsOf, Elems
<1>7. QED BY <1>1, <1>2, <1>3, <1>4, <1>5, <1>6

(***************************************************************************)
(* A step depends on the steps that it names, and on those whose outputs   *)
(* it reads if it declares them.                                           *)
(***************************************************************************)
LEMMA ReadsAreDeps ==
  ASSUME GraphOK, byName = StepsOf(g), NEW s \in StepsOf(g)
  PROVE  /\ Declared(s) => Reads(s) \subseteq DepsOf(s)
         /\ Elems(g.deps[s]) \cap StepsOf(g) \subseteq DepsOf(s)
<1>2. s \in Names BY FileTypes
<1>3. Elems(g.deps[s]) \subseteq Names BY <1>2, DepsAreNames
<1>4. ASSUME NEW n \in Elems(g.deps[s]) PROVE Chain(n) \in DepsOf(s) BY Resolved DEF DepsOf
<1>5. ASSUME Declared(s), NEW d \in Reads(s) PROVE d \in DepsOf(s)
  <2>1. d \in StepsOf(g) BY DEF Reads
  <2>2. PICK n \in Elems(g.deps[s]) : n = d \/ (n \notin StepsOf(g) /\ g.alias[n] = d)
    BY <1>5 DEF Declared
  <2>3. n \in Names /\ d \in Names BY <1>3, <2>1, FileTypes
  <2>4. Chain(n) = d BY <2>1, <2>2, <2>3, ChainEnds
  <2>5. QED BY <1>4, <2>4
<1>6. ASSUME NEW n \in Elems(g.deps[s]) \cap StepsOf(g) PROVE n \in DepsOf(s)
  <2>1. Chain(n) = n BY <1>3, ChainEnds
  <2>2. QED BY <1>4, <2>1
<1>7. QED BY <1>5, <1>6

(***************************************************************************)
(* Where the steps of a Run are taken.                                     *)
(***************************************************************************)
LEMMA RunGraph ==
  ASSUME CInv, pc = "run"
  PROVE  /\ GraphOK /\ byName = StepsOf(g) /\ Elems(order) \subseteq StepsOf(g)
         /\ \A s \in Elems(order) : DepsOf(s) \subseteq Elems(order)
<1>1. GraphOK /\ byName = StepsOf(g) BY DEF CInv, ClosureType
<1>2. ASSUME NEW i \in 1..Len(order) PROVE order[i] \in StepsOf(g)
  BY <1>1 DEF CInv, WalkInv, Downward
<1>3. Elems(order) \subseteq StepsOf(g) BY <1>2 DEF Elems
<1>4. Elems(order) = Visited BY OrderIsVisited
<1>5. QED BY <1>1, <1>3, <1>4, VisitedClosed

LEMMA StepInRun ==
  ASSUME CInv, RInv, NEW s \in Names, st[s] # "idle"
  PROVE  pc = "run" /\ s \in Elems(order) /\ s \in StepsOf(g)
<1>1. pc = "run" /\ s \in Elems(order) BY DEF RInv, Started
<1>2. QED BY <1>1, RunGraph

(***************************************************************************)
(* A step moves on to v.                                                   *)
(***************************************************************************)
Moves(s, v) ==
  /\ pc' = pc /\ g' = g /\ byName' = byName /\ order' = order
  /\ v \in {"running", "skipped", "done", "failed"} /\ st[s] \in {"pending", "running"}
  /\ \A t \in Names : st'[t] = IF t = s THEN v ELSE st[t]
  /\ \A t \in Names : t # s => written'[t] = written[t]
  /\ v = "running" => s \in Makers /\ written'[s] \subseteq Outputs(s)
  /\ \A n \in rebuilt' : n \in rebuilt \/ (n = s /\ v = "done" /\ s \in Makers)
  /\ \A d \in DepsOf(s) : st[d] \in Settled

LEMMA StartedMove ==
  ASSUME CInv, RInv, NEW s \in Names, NEW v, Moves(s, v)
  PROVE  Started'
<1>1. /\ pc' = pc /\ g' = g /\ byName' = byName /\ order' = order
      /\ v \in {"running", "skipped", "done", "failed"} /\ st[s] \in {"pending", "running"}
      /\ \A t \in Names : st'[t] = IF t = s THEN v ELSE st[t]
      /\ \A t \in Names : t # s => written'[t] = written[t]
      /\ v = "running" => s \in Makers /\ written'[s] \subseteq Outputs(s)
      /\ \A n \in rebuilt' : n \in rebuilt \/ (n = s /\ v = "done" /\ s \in Makers)
      /\ \A d \in DepsOf(s) : st[d] \in Settled
  BY DEF Moves
<1>2. pc = "run" /\ s \in Elems(order) BY <1>1, StepInRun
<1>3. /\ Makers' = Makers /\ (\A t : Outputs(t)' = Outputs(t)) /\ Elems(order)' = Elems(order)
      /\ \A t : DepsOf(t)' = DepsOf(t)
  BY <1>1, SameFiles, SameGraph DEF Elems
<1>4. Makers \subseteq Names /\ \A t \in Elems(order) : DepsOf(t) \subseteq Names
  <2>1. GraphOK /\ Elems(order) \subseteq StepsOf(g) BY <1>2, RunGraph
  <2>2. Elems(order) \subseteq Names BY <2>1, FileTypes
  <2>3. QED BY <2>1, <2>2, FileTypes, DepsAreNames DEF Makers
<1>5. ASSUME NEW t \in Names
      PROVE  /\ st'[t] # "idle" => pc' = "run" /\ t \in Elems(order)'
             /\ pc' = "run" /\ st'[t] = "idle" => t \notin Elems(order)'
             /\ st'[t] = "pending" => written'[t] = {}
             /\ st'[t] = "running" => t \in Makers' /\ written'[t] \subseteq Outputs(t)'
             /\ st'[t] \notin {"idle", "pending"} => \A d \in DepsOf(t)' : st'[d] \in Settled
  <2>1. CASE t = s
    <3>1. \A d \in DepsOf(s) : st'[d] \in Settled
      BY <1>1, <1>2, <1>4 DEF Settled
    <3>2. QED BY <1>1, <1>2, <1>3, <2>1, <3>1
  <2>2. CASE t # s
    <3>1. st'[t] = st[t] /\ written'[t] = written[t] BY <1>1, <2>2
    <3>2. ASSUME st[t] \notin {"idle", "pending"}, NEW d \in DepsOf(t) PROVE st'[d] \in Settled
      <4>1. st[d] \in Settled /\ t \in Elems(order) BY <3>2 DEF RInv, Started
      <4>2. d \in Names BY <1>4, <4>1
      <4>3. d # s BY <1>1, <4>1 DEF Settled
      <4>4. QED BY <1>1, <4>1, <4>2, <4>3
    <3>3. QED BY <1>1, <1>3, <3>1, <3>2 DEF RInv, Started
  <2>3. QED BY <2>1, <2>2
<1>6. ASSUME NEW n \in rebuilt' PROVE n \in Makers' /\ st'[n] = "done"
  <2>1. CASE n = s /\ v = "done" /\ s \in Makers BY <1>1, <1>3, <2>1
  <2>2. CASE n \in rebuilt
    <3>1. n \in Makers /\ st[n] = "done" BY <1>2, <2>2 DEF RInv, Started
    <3>2. n # s BY <1>1, <3>1
    <3>3. QED BY <1>1, <1>3, <1>4, <3>1, <3>2
  <2>3. QED BY <1>1, <2>1, <2>2
<1>7. QED BY <1>5, <1>6 DEF Started

(***************************************************************************)
(* The six steps of a step.                                                *)
(***************************************************************************)
LEMMA ReadyMoves ==
  ASSUME CInv, RInv, NEW s \in Names, Ready(s), UNCHANGED closureVars,
         NEW v \in {"running", "skipped", "done"}, st' = [st EXCEPT ![s] = v],
         v = "running" => s \notin g.idle,
         UNCHANGED <<mtime, now, rebuilt, written, truth>>
  PROVE  Moves(s, v) /\ RunType' /\ s \in StepsOf(g) /\ pc = "run"
<1>1. pc' = pc /\ g' = g /\ byName' = byName /\ order' = order BY DEF closureVars, locals
<1>2. st[s] = "pending" /\ \A d \in DepsOf(s) : st[d] \in Settled BY DEF Ready, Settled
<1>3. s \in StepsOf(g) /\ pc = "run" BY <1>2, StepInRun
<1>4. written[s] = {} BY <1>2 DEF RInv, Started
<1>5. st \in [Names -> {"idle", "pending", "running", "skipped", "done", "failed"}] BY DEF RInv, RunType
<1>6. Moves(s, v) BY <1>1, <1>2, <1>3, <1>4, <1>5 DEF Moves, Makers
<1>7. st' \in [Names -> {"idle", "pending", "running", "skipped", "done", "failed"}] BY <1>5
<1>8. RunType' BY <1>1, <1>7, SameFiles DEF RInv, RunType
<1>9. QED BY <1>3, <1>6, <1>8

Writes(s, o) ==
  /\ st[s] = "running" /\ s \in Makers /\ pc = "run"
  /\ o \in Outputs(s) /\ o \notin written[s] /\ o \in FilesOf(g)
  /\ now' = now + 1 /\ mtime'[o] = now + 1
  /\ \A f \in FilesOf(g) : f # o => mtime'[f] = mtime[f]
  /\ \A t \in Names : written'[t] = IF t = s THEN written[s] \cup {o} ELSE written[t]
  /\ g' = g /\ pc' = pc /\ byName' = byName /\ order' = order
  /\ UNCHANGED <<st, rebuilt, quiet, fresh, truth>>

LEMMA WriteMoves ==
  ASSUME CInv, RInv, NEW s \in Names, write(s)
  PROVE  RunType' /\ Moves(s, "running") /\ \E o : Writes(s, o)
<1>1. /\ st[s] = "running" /\ now' = now + 1
      /\ UNCHANGED <<closureVars, st, rebuilt, runs, edits, quiet, fresh, truth>>
  BY DEF write
<1>2. PICK o \in Outputs(s) \ written[s] :
         /\ mtime' = [mtime EXCEPT ![o] = now + 1]
         /\ written' = [written EXCEPT ![s] = @ \cup {o}]
  BY DEF write
<1>3. pc' = pc /\ g' = g /\ byName' = byName /\ order' = order BY <1>1 DEF closureVars, locals
<1>4. /\ s \in Makers /\ written[s] \subseteq Outputs(s) /\ pc = "run"
      /\ \A d \in DepsOf(s) : st[d] \in Settled
  BY <1>1 DEF RInv, Started
<1>5. GraphOK BY DEF CInv, ClosureType
<1>6. o \in FilesOf(g) BY <1>4, <1>5, FileTypes DEF Makers
<1>7. mtime \in [FilesOf(g) -> Nat] /\ now \in Nat /\ written \in [Names -> SUBSET FilesOf(g)]
  BY DEF RInv, RunType
<1>8. \A t \in Names : written'[t] = IF t = s THEN written[s] \cup {o} ELSE written[t]
  BY <1>2, <1>7
<1>9. mtime'[o] = now + 1 /\ \A f \in FilesOf(g) : f # o => mtime'[f] = mtime[f] BY <1>2, <1>6, <1>7
<1>10. Writes(s, o) BY <1>1, <1>2, <1>3, <1>4, <1>6, <1>8, <1>9 DEF Writes
<1>11. Moves(s, "running")
  BY <1>1, <1>2, <1>3, <1>4, <1>8 DEF Moves
<1>12. RunType'
  <2>1. mtime' \in [FilesOf(g) -> Nat] /\ now' \in Nat
    <3>1. PICK m \in Nat : m = now + 1 BY <1>7
    <3>2. mtime' = [mtime EXCEPT ![o] = m] BY <1>2, <3>1
    <3>3. QED BY <1>1, <1>7, <3>1, <3>2
  <2>2. \A f \in FilesOf(g) : mtime'[f] <= now'
    <3>1. \A f \in FilesOf(g) : mtime[f] <= now /\ mtime[f] \in Nat BY <1>7 DEF RInv, RunType
    <3>2. QED BY <1>1, <1>7, <1>9, <3>1
  <2>3. \A x \in g.sources : mtime'[x] # 0
    <3>1. \A x \in g.sources : mtime[x] # 0 /\ x \in FilesOf(g) BY <1>5, FileTypes DEF RInv, RunType
    <3>2. QED BY <1>7, <1>9, <3>1
  <2>4. written' \in [Names -> SUBSET FilesOf(g)] BY <1>2, <1>6, <1>7
  <2>5. st' = st /\ truth' = truth BY <1>1
  <2>6. FilesOf(g)' = FilesOf(g) BY <1>3, SameFiles
  <2>7. /\ st' \in [Names -> {"idle", "pending", "running", "skipped", "done", "failed"}]
        /\ truth' \in [Names -> {"current", "behind", "bad"}]
    BY <2>5 DEF RInv, RunType
  <2>8. QED BY <1>3, <2>1, <2>2, <2>3, <2>4, <2>6, <2>7 DEF RunType
<1>13. QED BY <1>10, <1>11, <1>12

LEMMA EndMoves ==
  ASSUME CInv, RInv, NEW s \in Names, finish(s) \/ fail(s),
         NEW v, v = IF finish(s) THEN "done" ELSE "failed"
  PROVE  RunType' /\ Moves(s, v) /\ s \in Makers /\ pc = "run"
<1>1. /\ st[s] = "running" /\ st' = [st EXCEPT ![s] = v]
      /\ UNCHANGED <<closureVars, mtime, now, written>>
      /\ rebuilt' = rebuilt \/ (v = "done" /\ rebuilt' = rebuilt \cup {s})
      /\ \E w \in {Made(s), truth[s], "bad"} : truth' = [truth EXCEPT ![s] = w]
  <2>1. CASE finish(s) BY <2>1 DEF finish
  <2>2. CASE fail(s) /\ ~finish(s)
    <3>1. truth' = [truth EXCEPT ![s] = IF written[s] = {} THEN truth[s] ELSE "bad"] BY <2>2 DEF fail
    <3>2. QED BY <2>2, <3>1 DEF fail
  <2>3. QED BY <2>1, <2>2
<1>2. v \in {"done", "failed"} OBVIOUS
<1>3. pc' = pc /\ g' = g /\ byName' = byName /\ order' = order BY <1>1 DEF closureVars, locals
<1>4. /\ s \in Makers /\ pc = "run"
      /\ \A d \in DepsOf(s) : st[d] \in Settled
  BY <1>1 DEF RInv, Started
<1>5. st \in [Names -> {"idle", "pending", "running", "skipped", "done", "failed"}] BY DEF RInv, RunType
<1>6. Moves(s, v)
  <2>1. \A t \in Names : st'[t] = IF t = s THEN v ELSE st[t] BY <1>1, <1>5
  <2>2. \A n \in rebuilt' : n \in rebuilt \/ (n = s /\ v = "done" /\ s \in Makers) BY <1>1, <1>4
  <2>3. \A t \in Names : t # s => written'[t] = written[t] BY <1>1
  <2>4. v \in {"running", "skipped", "done", "failed"} /\ v # "running" BY <1>2
  <2>5. QED BY <1>1, <1>3, <1>4, <2>1, <2>2, <2>3, <2>4 DEF Moves
<1>7. RunType'
  <2>1. truth \in [Names -> {"current", "behind", "bad"}] BY DEF RInv, RunType
  <2>2. truth' \in [Names -> {"current", "behind", "bad"}] BY <1>1, <2>1 DEF Made
  <2>3. st' \in [Names -> {"idle", "pending", "running", "skipped", "done", "failed"}]
    BY <1>1, <1>2, <1>5
  <2>4. FilesOf(g)' = FilesOf(g) BY <1>3, SameFiles
  <2>5. mtime' = mtime /\ now' = now /\ written' = written BY <1>1
  <2>6. QED BY <1>3, <2>2, <2>3, <2>4, <2>5 DEF RInv, RunType
<1>8. QED BY <1>4, <1>6, <1>7

Edits(x) ==
  /\ x \in FilesOf(g) /\ now' = now + 1 /\ mtime'[x] = now + 1
  /\ \A f \in FilesOf(g) : f # x => mtime'[f] = mtime[f]
  /\ \A s \in Names : truth'[s] = IF s \in Downstream(x) THEN "behind" ELSE truth[s]
  /\ quiet' = FALSE /\ fresh' = {}
  /\ g' = g /\ pc' = pc /\ byName' = byName /\ order' = order
  /\ UNCHANGED <<st, rebuilt, written>>

LEMMA EditMoves ==
  ASSUME CInv, RInv, NEW x \in g.sources, edit(x)
  PROVE  RInv' /\ Edits(x)
<1>1. /\ now' = now + 1 /\ mtime' = [mtime EXCEPT ![x] = now + 1]
      /\ truth' = [s \in Names |-> IF s \in Downstream(x) THEN "behind" ELSE truth[s]]
      /\ quiet' = FALSE /\ fresh' = {}
      /\ UNCHANGED <<closureVars, st, rebuilt, written, runs>>
  BY DEF edit
<1>2. pc' = pc /\ g' = g /\ byName' = byName /\ order' = order BY <1>1 DEF closureVars, locals
<1>3. GraphOK BY DEF CInv, ClosureType
<1>4. x \in FilesOf(g) BY <1>3, FileTypes
<1>5. mtime \in [FilesOf(g) -> Nat] /\ now \in Nat BY DEF RInv, RunType
<1>6. mtime'[x] = now + 1 /\ \A f \in FilesOf(g) : f # x => mtime'[f] = mtime[f] BY <1>1, <1>4, <1>5
<1>7. Edits(x) BY <1>1, <1>2, <1>4, <1>6 DEF Edits
<1>8. RunType'
  <2>1. mtime' \in [FilesOf(g) -> Nat] /\ now' \in Nat
    <3>1. PICK m \in Nat : m = now + 1 BY <1>5
    <3>2. mtime' = [mtime EXCEPT ![x] = m] BY <1>1, <3>1
    <3>3. QED BY <1>1, <1>5, <3>1, <3>2
  <2>2. \A f \in FilesOf(g) : mtime'[f] <= now'
    <3>1. \A f \in FilesOf(g) : mtime[f] <= now /\ mtime[f] \in Nat BY <1>5 DEF RInv, RunType
    <3>2. QED BY <1>1, <1>5, <1>6, <3>1
  <2>3. \A y \in g.sources : mtime'[y] # 0
    <3>1. \A y \in g.sources : mtime[y] # 0 /\ y \in FilesOf(g) BY <1>3, FileTypes DEF RInv, RunType
    <3>2. QED BY <1>5, <1>6, <3>1
  <2>4. st' = st /\ written' = written BY <1>1
  <2>5. FilesOf(g)' = FilesOf(g) BY <1>2, SameFiles
  <2>6. truth' \in [Names -> {"current", "behind", "bad"}]
    BY <1>1 DEF RInv, RunType
  <2>7. QED BY <1>2, <2>1, <2>2, <2>3, <2>4, <2>5, <2>6 DEF RInv, RunType
<1>9. Started'
  <2>1. /\ Makers' = Makers /\ (\A t : Outputs(t)' = Outputs(t)) /\ Elems(order)' = Elems(order)
        /\ \A t : DepsOf(t)' = DepsOf(t)
    BY <1>2, SameFiles, SameGraph DEF Elems
  <2>2. st' = st /\ written' = written /\ rebuilt' = rebuilt BY <1>1
  <2>3. QED BY <1>2, <2>1, <2>2 DEF RInv, Started
<1>10. QED BY <1>7, <1>8, <1>9 DEF RInv

(***************************************************************************)
(* The steps of Run itself touch no file.                                  *)
(***************************************************************************)
Quiet == g' = g /\ UNCHANGED <<mtime, now, truth>>

LEMMA OutsideMoves ==
  ASSUME CInv, RInv, Quiet, \A s \in Names : st[s] = "idle", UNCHANGED <<st, written, rebuilt>>, pc' # "run"
  PROVE  RInv'
<1>1. FilesOf(g)' = FilesOf(g) BY SameFiles DEF Quiet
<1>2. RunType' BY <1>1 DEF RInv, RunType, Quiet
<1>3. Started' BY DEF Started
<1>4. QED BY <1>2, <1>3 DEF RInv

LEMMA ScheduleMoves ==
  ASSUME CInv, RInv, schedule
  PROVE  /\ RInv' /\ Quiet /\ (\A s \in Names : st'[s] \in {"idle", "pending"})
         /\ rebuilt' = {} /\ quiet' = quiet /\ fresh' = fresh
<1>1. /\ pc' = "run" /\ st' = [s \in Names |-> IF s \in Elems(order) THEN "pending" ELSE "idle"]
      /\ rebuilt' = {} /\ written' = [s \in Names |-> {}]
      /\ UNCHANGED <<g, targets, locals, mtime, now, runs, edits, quiet, fresh, truth>>
  BY DEF schedule
<1>2. order' = order /\ Quiet BY <1>1 DEF locals, Quiet
<1>3. FilesOf(g)' = FilesOf(g) /\ Elems(order)' = Elems(order) BY <1>2, SameFiles DEF Quiet, Elems
<1>4. \A s \in Names : st'[s] = (IF s \in Elems(order) THEN "pending" ELSE "idle") /\ written'[s] = {}
  BY <1>1
<1>5. RunType'
  <2>1. st' \in [Names -> {"idle", "pending", "running", "skipped", "done", "failed"}] BY <1>1
  <2>2. written' \in [Names -> SUBSET FilesOf(g)] BY <1>1
  <2>3. QED BY <1>2, <1>3, <2>1, <2>2 DEF RInv, RunType, Quiet
<1>6. Started' BY <1>1, <1>3, <1>4 DEF Started
<1>7. QED BY <1>1, <1>2, <1>4, <1>5, <1>6 DEF RInv

LEMMA ReturnMoves ==
  ASSUME CInv, RInv, return
  PROVE  /\ RInv' /\ Quiet /\ pc' = "idle" /\ quiet' = quiet
         /\ \A s \in Names : st[s] # "running" /\ st'[s] = "idle"
<1>1. /\ pc = "fail" \/ Over
      /\ pc' = "idle" /\ st' = [s \in Names |-> "idle"]
      /\ UNCHANGED <<g, targets, locals, mtime, now, rebuilt, written, runs, edits, raced, quiet, truth>>
  BY DEF return
<1>2. Quiet BY <1>1 DEF Quiet
<1>3. FilesOf(g)' = FilesOf(g) BY <1>2, SameFiles DEF Quiet
<1>4. \A s \in Names : st[s] # "running" /\ st'[s] = "idle"
  <2>1. CASE pc = "fail" BY <1>1, <2>1 DEF RInv, Started
  <2>2. CASE Over BY <1>1, <2>2 DEF Over
  <2>3. QED BY <1>1, <2>1, <2>2
<1>5. RunType'
  <2>1. st' \in [Names -> {"idle", "pending", "running", "skipped", "done", "failed"}] BY <1>1
  <2>2. written' = written BY <1>1
  <2>3. QED BY <1>2, <1>3, <2>1, <2>2 DEF RInv, RunType, Quiet
<1>6. Started' BY <1>1, <1>4 DEF Started
<1>7. QED BY <1>1, <1>2, <1>4, <1>5, <1>6 DEF RInv

(***************************************************************************)
(* The steps that leave st alone outside a Run.                            *)
(***************************************************************************)
Outside ==
  /\ Quiet /\ (\A s \in Names : st[s] = "idle") /\ UNCHANGED <<st, written, rebuilt, fresh>>
  /\ pc' # "run"

LEMMA ClosureIsOutside ==
  ASSUME CInv, RInv, closureStep \/ \E ts \in g.asked : Run(ts)
  PROVE  Outside
<1>1. CASE \E ts \in g.asked : Run(ts)
  <2>1. pc = "idle" /\ pc' = "index" /\ g' = g /\ UNCHANGED <<mtime, now, st, rebuilt, written, fresh, truth>>
    BY <1>1 DEF Run, closureCall
  <2>2. QED BY <2>1 DEF Outside, Quiet, RInv, Started
<1>2. CASE closureStep
  <2>1. UNCHANGED <<mtime, now, st, rebuilt, written, fresh, truth>>
    BY <1>2 DEF closureStep, runVars, history
  <2>2. g' = g /\ pc # "run" /\ pc' # "run"
    <3>1. CASE index BY <3>1 DEF index, Fail
    <3>2. CASE walkTarget BY <3>2 DEF walkTarget, enter, Fail
    <3>3. CASE walkDep BY <3>3 DEF walkDep, enter, Fail
    <3>4. CASE walkReturn BY <3>4 DEF walkReturn
    <3>5. CASE closureReturn BY <3>5 DEF closureReturn
    <3>6. QED BY <1>2, <3>1, <3>2, <3>3, <3>4, <3>5 DEF closureStep, closure
  <2>3. QED BY <2>1, <2>2 DEF Outside, Quiet, RInv, Started
<1>3. QED BY <1>1, <1>2

LEMMA RunInit == Init => RInv
<1> SUFFICES ASSUME Init PROVE RInv OBVIOUS
<1>1. /\ g \in Graphs /\ pc = "idle" /\ now = 1
      /\ mtime = [f \in FilesOf(g) |->
                   IF f \in g.sources \/ \E s \in g.built : f \in Outputs(s) THEN 1 ELSE 0]
      /\ st = [s \in Names |-> "idle"] /\ written = [s \in Names |-> {}]
      /\ truth = [s \in Names |-> IF s \in g.built THEN "current" ELSE "behind"]
  BY DEF Init
<1>2. g.sources \subseteq FilesOf(g) BY DEF FilesOf
<1>3. RunType BY <1>1, <1>2 DEF RunType
<1>4. Started BY <1>1 DEF Started
<1>5. QED BY <1>3, <1>4 DEF RInv

LEMMA Stutters ==
  ASSUME UNCHANGED vars
  PROVE  /\ pc' = pc /\ g' = g /\ byName' = byName /\ order' = order
         /\ UNCHANGED <<mtime, now, st, rebuilt, written, quiet, fresh, truth>>
BY DEF vars, closureVars, locals, runVars, history

LEMMA RunNext == CInv /\ RInv /\ [Next]_vars => RInv'
<1> SUFFICES ASSUME CInv, RInv, [Next]_vars PROVE RInv' OBVIOUS
<1>1. CASE closureStep \/ \E ts \in g.asked : Run(ts)
  <2>1. Outside BY <1>1, ClosureIsOutside
  <2>2. QED BY <2>1, OutsideMoves DEF Outside
<1>2. CASE schedule BY <1>2, ScheduleMoves
<1>3. CASE return BY <1>3, ReturnMoves
<1>4. ASSUME NEW s \in Names, StepStep(s) PROVE RInv'
  <2>1. CASE skip(s)
    <3>1. Moves(s, "skipped") /\ RunType' BY <2>1, ReadyMoves DEF skip, history
    <3>2. QED BY <3>1, StartedMove DEF RInv
  <2>2. CASE idle(s)
    <3>1. Moves(s, "done") /\ RunType' BY <2>2, ReadyMoves DEF idle, history
    <3>2. QED BY <3>1, StartedMove DEF RInv
  <2>3. CASE start(s)
    <3>1. Moves(s, "running") /\ RunType' BY <2>3, ReadyMoves DEF start, history
    <3>2. QED BY <3>1, StartedMove DEF RInv
  <2>4. CASE write(s) BY <2>4, WriteMoves, StartedMove DEF RInv
  <2>5. CASE finish(s) \/ fail(s)
    <3>1. PICK v : v = IF finish(s) THEN "done" ELSE "failed" OBVIOUS
    <3>2. RunType' /\ Moves(s, v) BY <2>5, <3>1, EndMoves
    <3>3. QED BY <3>2, StartedMove DEF RInv
  <2>6. QED BY <1>4, <2>1, <2>2, <2>3, <2>4, <2>5 DEF StepStep
<1>5. ASSUME NEW x \in g.sources, edit(x) PROVE RInv' BY <1>5, EditMoves
<1>6. CASE UNCHANGED vars
  <2>1. /\ pc' = pc /\ g' = g /\ byName' = byName /\ order' = order
        /\ UNCHANGED <<mtime, now, st, rebuilt, written, truth>>
    BY <1>6, Stutters
  <2>2. /\ Makers' = Makers /\ (\A t : Outputs(t)' = Outputs(t)) /\ Elems(order)' = Elems(order)
        /\ FilesOf(g)' = FilesOf(g) /\ \A t : DepsOf(t)' = DepsOf(t)
    BY <2>1, SameFiles, SameGraph DEF Elems
  <2>3. RunType' BY <2>1, <2>2 DEF RInv, RunType
  <2>4. Started' BY <2>1, <2>2 DEF RInv, Started
  <2>5. QED BY <2>3, <2>4 DEF RInv
<1>7. QED BY <1>1, <1>2, <1>3, <1>4, <1>5, <1>6 DEF Next

LEMMA RunInv == Spec => [](CInv /\ RInv)
<1>1. Init => CInv /\ RInv BY ClosureInit, RunInit
<1>2. CInv /\ RInv /\ [Next]_vars => (CInv /\ RInv)' BY ClosureNext, RunNext
<1>3. QED BY <1>1, <1>2, PTL DEF Spec

-----------------------------------------------------------------------------
(* Nothing is left behind *)

(* L is a set of files that are not made from the sources as they are.  A  *)
(* step whose outputs are behind has them all there, but for what it is    *)
(* writing; stale has a reason to say so of its step: a time, or a step in *)
(* front of it with a file in L; and a Run that no edit disturbs takes the *)
(* outputs of a step out of L before the step is settled.  All of it is    *)
(* said of the steps that only declared reads go into.                     *)
Sure == {s \in Makers : Ordered(s)}

Behind(L) ==
  \A s \in Sure :
     truth[s] = "behind" => Outputs(s) \subseteq L \cup (IF st[s] = "running" THEN written[s] ELSE {})

Reason(L) ==
  \A s \in Sure : \A f \in L \cap Outputs(s) :
     \/ mtime[f] = 0
     \/ \E i \in Inputs(s) : mtime[i] = 0 \/ mtime[i] > mtime[f]
     \/ \E d \in Reads(s) : Outputs(d) \cap Inputs(s) \cap L # {}

Undisturbed(L) ==
  pc = "run" /\ quiet =>
     \A s \in Sure :
        /\ st[s] \in Settled => Outputs(s) \cap L = {}
        /\ st[s] = "running" => written[s] \cap L = {}

LateOK == \E L \in SUBSET FilesOf(g) : Behind(L) /\ Reason(L) /\ Undisturbed(L)

LEMMA SureReads ==
  ASSUME NEW s \in Sure
  PROVE  s \in Makers /\ Declared(s) /\ Reads(s) \subseteq Sure
<1>1. PICK C \in SUBSET StepsOf(g) : s \in C /\ \A d \in C : Declared(d) /\ Reads(d) \subseteq C
  BY DEF Sure, Ordered
<1>2. ASSUME NEW d \in Reads(s) PROVE d \in Sure
  <2>1. d \in C /\ d \in Makers BY <1>1 DEF Reads, Makers
  <2>2. QED BY <1>1, <2>1 DEF Sure, Ordered
<1>3. QED BY <1>1, <1>2 DEF Sure

LEMMA SameSure == ASSUME g' = g PROVE Sure' = Sure
<1>1. /\ StepsOf(g)' = StepsOf(g) /\ Makers' = Makers
      /\ \A s : Reads(s)' = Reads(s) /\ (Declared(s)' <=> Declared(s))
  BY SameFiles
<1>2. \A s : Ordered(s)' <=> Ordered(s) BY <1>1 DEF Ordered
<1>3. QED BY <1>1, <1>2 DEF Sure

(***************************************************************************)
(* Nothing about the files of L changes, and nothing is settled that has a *)
(* file in L.                                                              *)
(***************************************************************************)
LEMMA LateKept ==
  ASSUME CInv, RInv, Quiet, NEW L, Behind(L), Reason(L), \A s \in Names : st[s] # "running",
         pc' = "run" => \A s \in Names : st'[s] \in {"idle", "pending"}
  PROVE  Behind(L)' /\ Reason(L)' /\ Undisturbed(L)'
<1>1. g' = g /\ mtime' = mtime /\ truth' = truth BY DEF Quiet
<1>2. /\ Sure' = Sure
      /\ \A s : Outputs(s)' = Outputs(s) /\ Inputs(s)' = Inputs(s) /\ Reads(s)' = Reads(s)
  BY <1>1, SameFiles, SameSure
<1>3. Sure \subseteq Names BY FileTypes DEF Sure, Makers, CInv, ClosureType
<1>4. \A s \in Sure : truth[s] = "behind" => Outputs(s) \subseteq L BY <1>3 DEF Behind
<1>5. Behind(L)' BY <1>1, <1>2, <1>4 DEF Behind
<1>6. Reason(L)' BY <1>1, <1>2 DEF Reason
<1>7. Undisturbed(L)' BY <1>2, <1>3 DEF Undisturbed, Settled
<1>8. QED BY <1>5, <1>6, <1>7

LEMMA Inputs0 ==
  ASSUME CInv, RInv
  PROVE  /\ Makers \subseteq Names /\ Makers \subseteq StepsOf(g) /\ Sure \subseteq Makers
         /\ \A s \in Makers : Outputs(s) \subseteq FilesOf(g) /\ Inputs(s) \subseteq FilesOf(g)
         /\ \A s \in Makers : \A d \in Reads(s) : d \in Makers /\ Outputs(d) \cap Inputs(s) # {}
         /\ \A s \in Sure : \A d \in Reads(s) : d \in Sure
         /\ \A f \in FilesOf(g) : mtime[f] \in Nat /\ mtime[f] <= now
         /\ now \in Nat
<1>1. GraphOK BY DEF CInv, ClosureType
<1>2. Makers \subseteq Names /\ Makers \subseteq StepsOf(g) BY <1>1, FileTypes DEF Makers
<1>3. \A s \in Makers : Outputs(s) \subseteq FilesOf(g) /\ Inputs(s) \subseteq FilesOf(g)
  BY <1>1, FileTypes DEF Makers
<1>4. \A s \in Makers : \A d \in Reads(s) : d \in Makers /\ Outputs(d) \cap Inputs(s) # {}
  BY DEF Reads, Makers
<1>5. Sure \subseteq Makers /\ \A s \in Sure : \A d \in Reads(s) : d \in Sure BY SureReads
<1>6. QED BY <1>2, <1>3, <1>4, <1>5 DEF RInv, RunType

(***************************************************************************)
(* The steps that one which is ready or started declares are settled.      *)
(***************************************************************************)
LEMMA ReadsSettled ==
  ASSUME CInv, RInv, NEW s \in Names, Declared(s),
         Ready(s) \/ st[s] \notin {"idle", "pending"}
  PROVE  \A d \in Reads(s) : st[d] \in Settled
<1>1. st[s] # "idle" BY DEF Ready
<1>2. s \in StepsOf(g) /\ pc = "run" BY <1>1, StepInRun
<1>3. GraphOK /\ byName = StepsOf(g) BY <1>2, RunGraph
<1>4. Reads(s) \subseteq DepsOf(s) BY <1>2, <1>3, ReadsAreDeps
<1>5. \A d \in DepsOf(s) : st[d] \in Settled BY DEF RInv, Started, Ready, Settled
<1>6. QED BY <1>4, <1>5

(***************************************************************************)
(* A step is skipped, passed or started.                                   *)
(***************************************************************************)
Begins(s, v) ==
  /\ Ready(s) /\ s \in StepsOf(g)
  /\ \/ v = "skipped" /\ ~stale(s)
     \/ v = "done" /\ stale(s) /\ s \in g.idle
     \/ v = "running" /\ stale(s) /\ s \notin g.idle
  /\ UNCHANGED <<pc, g, byName, order, mtime, now, rebuilt, written, quiet, fresh, truth>>
  /\ \A t \in Names : st'[t] = IF t = s THEN v ELSE st[t]

LEMMA BeginMoves ==
  ASSUME CInv, RInv, NEW s \in Names, skip(s) \/ idle(s) \/ start(s)
  PROVE  \E v : Begins(s, v)
<1>1. Ready(s) /\ UNCHANGED <<closureVars, mtime, now, rebuilt, written, runs, edits, history>>
  BY DEF skip, idle, start
<1>2. /\ pc' = pc /\ g' = g /\ byName' = byName /\ order' = order
      /\ quiet' = quiet /\ fresh' = fresh /\ truth' = truth
  BY <1>1 DEF closureVars, locals, history
<1>3. s \in StepsOf(g) BY <1>1, StepInRun DEF Ready
<1>4. st \in [Names -> {"idle", "pending", "running", "skipped", "done", "failed"}] BY DEF RInv, RunType
<1>5. PICK v : /\ st' = [st EXCEPT ![s] = v]
               /\ \/ v = "skipped" /\ ~stale(s)
                  \/ v = "done" /\ stale(s) /\ s \in g.idle
                  \/ v = "running" /\ stale(s) /\ s \notin g.idle
  BY DEF skip, idle, start
<1>6. \A t \in Names : st'[t] = IF t = s THEN v ELSE st[t] BY <1>4, <1>5
<1>7. Begins(s, v) BY <1>1, <1>2, <1>3, <1>5, <1>6 DEF Begins
<1>8. QED BY <1>7

LEMMA LateBegin ==
  ASSUME CInv, RInv, NEW s \in Names, NEW v, Begins(s, v),
         NEW L, Behind(L), Reason(L), Undisturbed(L)
  PROVE  Behind(L)' /\ Reason(L)' /\ Undisturbed(L)'
<1>1. /\ Ready(s) /\ s \in StepsOf(g) /\ st[s] = "pending"
      /\ pc' = pc /\ g' = g /\ mtime' = mtime /\ written' = written /\ quiet' = quiet /\ truth' = truth
      /\ \A t \in Names : st'[t] = IF t = s THEN v ELSE st[t]
  BY DEF Begins, Ready
<1>2. /\ Sure' = Sure
      /\ \A t : Outputs(t)' = Outputs(t) /\ Inputs(t)' = Inputs(t) /\ Reads(t)' = Reads(t)
  BY <1>1, SameFiles, SameSure
<1>3. Sure \subseteq Names BY Inputs0
<1>4. written[s] = {} BY <1>1 DEF RInv, Started
<1>5. Reason(L)' BY <1>1, <1>2 DEF Reason
<1>6. Behind(L)'
  <2>1. ASSUME NEW t \in Sure, truth[t] = "behind"
        PROVE  Outputs(t) \subseteq L \cup (IF st'[t] = "running" THEN written[t] ELSE {})
    <3>1. Outputs(t) \subseteq L \cup (IF st[t] = "running" THEN written[t] ELSE {}) BY <2>1 DEF Behind
    <3>2. QED BY <1>1, <1>3, <1>4, <3>1
  <2>2. QED BY <1>1, <1>2, <2>1 DEF Behind
<1>7. Undisturbed(L)'
  <2>1. ASSUME pc = "run", quiet, NEW t \in Sure
        PROVE  /\ st'[t] \in Settled => Outputs(t) \cap L = {}
               /\ st'[t] = "running" => written[t] \cap L = {}
    <3>1. CASE t # s
      <4>1. st'[t] = st[t] BY <1>1, <1>3, <3>1
      <4>2. QED BY <2>1, <4>1 DEF Undisturbed
    <3>2. CASE t = s /\ v # "skipped"
      <4>1. v = "running" BY <2>1, <3>2 DEF Begins, Sure, Makers
      <4>2. QED BY <1>1, <1>4, <3>2, <4>1 DEF Settled
    <3>3. CASE t = s /\ v = "skipped"
      <4>1. ~stale(s) BY <3>3 DEF Begins
      <4>2. /\ \A o \in Outputs(s) : mtime[o] # 0
            /\ \A i \in Inputs(s) : mtime[i] # 0 /\ \A o \in Outputs(s) : ~(mtime[i] > mtime[o])
        BY <2>1, <3>3, <4>1 DEF stale, Always, Sure, Makers
      <4>3. ASSUME NEW f \in Outputs(s) \cap L PROVE FALSE
        <5>1. PICK d \in Reads(s) : Outputs(d) \cap Inputs(s) \cap L # {}
          BY <2>1, <3>3, <4>2 DEF Reason
        <5>2. d \in Sure /\ st[d] \in Settled BY <1>1, <2>1, <3>3, Inputs0, SureReads, ReadsSettled
        <5>3. Outputs(d) \cap L = {} BY <2>1, <5>2 DEF Undisturbed
        <5>4. QED BY <5>1, <5>3
      <4>4. QED BY <1>1, <3>3, <4>3
    <3>4. QED BY <3>1, <3>2, <3>3
  <2>2. QED BY <1>1, <1>2, <2>1 DEF Undisturbed
<1>8. QED BY <1>5, <1>6, <1>7

LEMMA LateWrite ==
  ASSUME CInv, RInv, NEW s \in Names, NEW o, Writes(s, o),
         NEW L, L \subseteq FilesOf(g), Behind(L), Reason(L), Undisturbed(L)
  PROVE  LET M == L \ {o} IN Behind(M)' /\ Reason(M)' /\ Undisturbed(M)'
<1> DEFINE M == L \ {o}
<1>1. /\ st[s] = "running" /\ s \in Makers
      /\ o \in Outputs(s) /\ o \in FilesOf(g)
      /\ now' = now + 1 /\ mtime'[o] = now + 1
      /\ \A f \in FilesOf(g) : f # o => mtime'[f] = mtime[f]
      /\ \A t \in Names : written'[t] = IF t = s THEN written[s] \cup {o} ELSE written[t]
      /\ g' = g /\ pc' = pc /\ st' = st /\ quiet' = quiet /\ truth' = truth
  BY DEF Writes
<1>2. /\ Sure' = Sure
      /\ \A t : Outputs(t)' = Outputs(t) /\ Inputs(t)' = Inputs(t) /\ Reads(t)' = Reads(t)
  BY <1>1, SameFiles, SameSure
<1>3. /\ Sure \subseteq Names /\ Sure \subseteq StepsOf(g) /\ Makers \subseteq StepsOf(g)
      /\ \A t \in Sure : Outputs(t) \subseteq FilesOf(g) /\ Inputs(t) \subseteq FilesOf(g)
      /\ \A f \in FilesOf(g) : mtime[f] \in Nat /\ mtime[f] <= now
      /\ now \in Nat
  BY Inputs0
<1>4. \A t \in Sure : t # s => o \notin Outputs(t)
  BY <1>1, <1>3, FileTypes DEF CInv, ClosureType
<1>5. Behind(M)'
  <2>1. ASSUME NEW t \in Sure, truth[t] = "behind"
        PROVE  Outputs(t) \subseteq M \cup (IF st[t] = "running" THEN written'[t] ELSE {})
    <3>1. Outputs(t) \subseteq L \cup (IF st[t] = "running" THEN written[t] ELSE {}) BY <2>1 DEF Behind
    <3>2. CASE t = s BY <1>1, <3>1, <3>2
    <3>3. CASE t # s BY <1>1, <1>3, <1>4, <3>1, <3>3
    <3>4. QED BY <3>2, <3>3
  <2> HIDE DEF M
  <2>2. QED BY <1>1, <1>2, <2>1 DEF Behind
<1>6. Reason(M)'
  <2>1. ASSUME NEW t \in Sure, NEW f \in M \cap Outputs(t)
        PROVE  \/ mtime'[f] = 0
               \/ \E i \in Inputs(t) : mtime'[i] = 0 \/ mtime'[i] > mtime'[f]
               \/ \E d \in Reads(t) : Outputs(d) \cap Inputs(t) \cap M # {}
    <3>1. f \in L \cap Outputs(t) /\ f # o /\ f \in FilesOf(g) BY <1>3
    <3>2. mtime'[f] = mtime[f] /\ mtime[f] \in Nat /\ mtime[f] < now + 1 BY <1>1, <1>3, <3>1
    <3>3. CASE o \in Inputs(t)
      <4>1. mtime'[o] > mtime'[f] BY <1>1, <1>3, <3>2
      <4>2. QED BY <3>3, <4>1
    <3>4. CASE o \notin Inputs(t)
      <4>1. \A i \in Inputs(t) : mtime'[i] = mtime[i] BY <1>1, <1>3, <3>4
      <4>2. \/ mtime[f] = 0
            \/ \E i \in Inputs(t) : mtime[i] = 0 \/ mtime[i] > mtime[f]
            \/ \E d \in Reads(t) : Outputs(d) \cap Inputs(t) \cap L # {}
        BY <3>1 DEF Reason
      <4>3. \A d \in Reads(t) : Outputs(d) \cap Inputs(t) \cap L # {} => Outputs(d) \cap Inputs(t) \cap M # {}
        BY <3>4
      <4>4. QED BY <3>2, <4>1, <4>2, <4>3
    <3>5. QED BY <3>3, <3>4
  <2> HIDE DEF M
  <2>2. QED BY <1>2, <2>1 DEF Reason
<1>7. Undisturbed(M)'
  <2>1. ASSUME pc = "run", quiet, NEW t \in Sure
        PROVE  /\ st[t] \in Settled => Outputs(t) \cap M = {}
               /\ st[t] = "running" => written'[t] \cap M = {}
    <3>1. /\ st[t] \in Settled => Outputs(t) \cap L = {}
          /\ st[t] = "running" => written[t] \cap L = {}
      BY <2>1 DEF Undisturbed
    <3>2. QED BY <1>1, <1>3, <3>1
  <2> HIDE DEF M
  <2>2. QED BY <1>1, <1>2, <2>1 DEF Undisturbed
<1>8. QED BY <1>5, <1>6, <1>7

(***************************************************************************)
(* The tasks of a step are over.                                           *)
(***************************************************************************)
Ends(s, v) ==
  /\ st[s] = "running" /\ s \in Makers /\ pc = "run"
  /\ \/ v = "done" /\ written[s] = Outputs(s) /\ truth'[s] = Made(s)
     \/ v = "failed" /\ truth'[s] = IF written[s] = {} THEN truth[s] ELSE "bad"
  /\ \A t \in Names : t # s => truth'[t] = truth[t]
  /\ \A t \in Names : st'[t] = IF t = s THEN v ELSE st[t]
  /\ UNCHANGED <<pc, g, byName, order, mtime, now, written, quiet, fresh>>

LEMMA EndIs ==
  ASSUME CInv, RInv, NEW s \in Names, finish(s) \/ fail(s)
  PROVE  \E v : Ends(s, v)
<1>1. st[s] = "running" /\ UNCHANGED <<closureVars, mtime, now, written, runs, edits, raced, quiet, fresh>>
  BY DEF finish, fail
<1>2. pc' = pc /\ g' = g /\ byName' = byName /\ order' = order BY <1>1 DEF closureVars, locals
<1>3. s \in Makers /\ pc = "run" BY <1>1 DEF RInv, Started
<1>4. /\ st \in [Names -> {"idle", "pending", "running", "skipped", "done", "failed"}]
      /\ truth \in [Names -> {"current", "behind", "bad"}]
  BY DEF RInv, RunType
<1>5. PICK v, w : /\ st' = [st EXCEPT ![s] = v] /\ truth' = [truth EXCEPT ![s] = w]
                  /\ \/ v = "done" /\ written[s] = Outputs(s) /\ w = Made(s)
                     \/ v = "failed" /\ w = IF written[s] = {} THEN truth[s] ELSE "bad"
  <2>1. CASE finish(s) BY <2>1 DEF finish
  <2>2. CASE fail(s)
    <3>1. truth' = [truth EXCEPT ![s] = IF written[s] = {} THEN truth[s] ELSE "bad"] BY <2>2 DEF fail
    <3>2. QED BY <2>2, <3>1 DEF fail
  <2>3. QED BY <2>1, <2>2
<1>6. /\ \A t \in Names : st'[t] = IF t = s THEN v ELSE st[t]
      /\ truth'[s] = w /\ \A t \in Names : t # s => truth'[t] = truth[t]
  BY <1>4, <1>5
<1>7. Ends(s, v) BY <1>1, <1>2, <1>3, <1>5, <1>6 DEF Ends
<1>8. QED BY <1>7

LEMMA LateEnd ==
  ASSUME CInv, RInv, NEW s \in Names, NEW v, Ends(s, v),
         NEW L, L \subseteq FilesOf(g), Behind(L), Reason(L), Undisturbed(L)
  PROVE  \E M \in SUBSET FilesOf(g) : Behind(M)' /\ Reason(M)' /\ Undisturbed(M)'
<1>1. /\ st[s] = "running" /\ s \in Makers /\ pc = "run"
      /\ \A t \in Names : t # s => truth'[t] = truth[t]
      /\ \A t \in Names : st'[t] = IF t = s THEN v ELSE st[t]
      /\ v \in {"done", "failed"}
      /\ pc' = pc /\ g' = g /\ mtime' = mtime /\ written' = written /\ quiet' = quiet
  BY DEF Ends
<1>2. /\ Sure' = Sure
      /\ \A t : Outputs(t)' = Outputs(t) /\ Inputs(t)' = Inputs(t) /\ Reads(t)' = Reads(t)
  BY <1>1, SameFiles, SameSure
<1>3. /\ Sure \subseteq Names /\ Outputs(s) \subseteq FilesOf(g)
      /\ \A d \in Reads(s) : Outputs(d) \cap Inputs(s) # {} /\ (s \in Sure => d \in Sure)
  BY <1>1, Inputs0
<1>4. ASSUME s \in Sure, NEW d \in Reads(s) PROVE st[d] \in Settled
  BY <1>1, <1>4, SureReads, ReadsSettled
<1>5. ASSUME s \in Sure, NEW d \in Reads(s), truth[d] = "behind" PROVE Outputs(d) \subseteq L
  BY <1>3, <1>4, <1>5 DEF Behind, Settled
<1>6. CASE s \in Sure /\ v = "done" /\ truth'[s] = "behind"
  <2>0. PICK M : M = L \cup Outputs(s) OBVIOUS
  <2>1. PICK d \in Reads(s) : truth[d] = "behind" BY <1>6 DEF Ends, Made
  <2>2. Outputs(d) \cap Inputs(s) \cap L # {} BY <1>3, <1>5, <1>6, <2>1
  <2>3. ~quiet
    <3>1. ASSUME quiet PROVE FALSE
      <4>1. Outputs(d) \cap L = {} BY <1>1, <1>3, <1>4, <1>6, <3>1 DEF Undisturbed
      <4>2. QED BY <2>2, <4>1
    <3>2. QED BY <3>1
  <2>4. Behind(M)'
    <3>1. ASSUME NEW t \in Sure, truth'[t] = "behind"
          PROVE  Outputs(t) \subseteq M \cup (IF st'[t] = "running" THEN written[t] ELSE {})
      <4>1. CASE t # s
        <5>1. truth[t] = "behind" /\ st'[t] = st[t] BY <1>1, <1>3, <3>1, <4>1
        <5>2. Outputs(t) \subseteq L \cup (IF st[t] = "running" THEN written[t] ELSE {}) BY <5>1 DEF Behind
        <5>3. QED BY <2>0, <5>1, <5>2
      <4>2. QED BY <2>0, <4>1
    <3>2. QED BY <1>1, <1>2, <3>1 DEF Behind
  <2>5. Reason(M)'
    <3>1. ASSUME NEW t \in Sure, NEW f \in M \cap Outputs(t)
          PROVE  \/ mtime[f] = 0
                 \/ \E i \in Inputs(t) : mtime[i] = 0 \/ mtime[i] > mtime[f]
                 \/ \E e \in Reads(t) : Outputs(e) \cap Inputs(t) \cap M # {}
      <4>1. CASE t = s
        <5>1. Outputs(d) \cap Inputs(s) \cap M # {} BY <2>0, <2>2
        <5>2. QED BY <2>1, <4>1, <5>1
      <4>2. CASE t # s
        <5>1. f \in L \cap Outputs(t) BY <1>1, <2>0, <4>2, FileTypes DEF CInv, ClosureType, Sure, Makers
        <5>2. \/ mtime[f] = 0
              \/ \E i \in Inputs(t) : mtime[i] = 0 \/ mtime[i] > mtime[f]
              \/ \E e \in Reads(t) : Outputs(e) \cap Inputs(t) \cap L # {}
          BY <5>1 DEF Reason
        <5>3. \A e \in Reads(t) :
                 Outputs(e) \cap Inputs(t) \cap L # {} => Outputs(e) \cap Inputs(t) \cap M # {}
          BY <2>0
        <5>4. QED BY <5>2, <5>3
      <4>3. QED BY <4>1, <4>2
    <3>2. QED BY <1>1, <1>2, <3>1 DEF Reason
  <2>6. Undisturbed(M)' BY <1>1, <2>3 DEF Undisturbed
  <2>7. M \in SUBSET FilesOf(g) BY <1>1, <1>3, <2>0
  <2>8. QED BY <2>4, <2>5, <2>6, <2>7
<1>7. CASE ~(s \in Sure /\ v = "done" /\ truth'[s] = "behind")
  <2>1. Behind(L)'
    <3>1. ASSUME NEW t \in Sure, truth'[t] = "behind"
          PROVE  Outputs(t) \subseteq L \cup (IF st'[t] = "running" THEN written[t] ELSE {})
      <4>1. CASE t # s
        <5>1. truth[t] = "behind" /\ st'[t] = st[t] BY <1>1, <1>3, <3>1, <4>1
        <5>2. QED BY <5>1 DEF Behind
      <4>2. CASE t = s
        <5>1. truth[s] = "behind" /\ written[s] = {} BY <1>7, <3>1, <4>2 DEF Ends
        <5>2. Outputs(s) \subseteq L BY <1>1, <3>1, <4>2, <5>1 DEF Behind
        <5>3. QED BY <4>2, <5>2
      <4>3. QED BY <4>1, <4>2
    <3>2. QED BY <1>1, <1>2, <3>1 DEF Behind
  <2>2. Reason(L)' BY <1>1, <1>2 DEF Reason
  <2>3. Undisturbed(L)'
    <3>1. ASSUME quiet, NEW t \in Sure
          PROVE  /\ st'[t] \in Settled => Outputs(t) \cap L = {}
                 /\ st'[t] = "running" => written[t] \cap L = {}
      <4>1. CASE t # s
        <5>1. st'[t] = st[t] BY <1>1, <1>3, <4>1
        <5>2. QED BY <1>1, <3>1, <5>1 DEF Undisturbed
      <4>2. CASE t = s /\ v = "done"
        <5>1. written[s] = Outputs(s) BY <4>2 DEF Ends
        <5>2. written[s] \cap L = {} BY <1>1, <3>1, <4>2 DEF Undisturbed
        <5>3. QED BY <1>1, <4>2, <5>1, <5>2
      <4>3. CASE t = s /\ v = "failed" BY <1>1, <4>3 DEF Settled
      <4>4. QED BY <1>1, <4>1, <4>2, <4>3
    <3>2. QED BY <1>1, <1>2, <3>1 DEF Undisturbed
  <2>4. QED BY <2>1, <2>2, <2>3
<1>8. QED BY <1>6, <1>7

(***************************************************************************)
(* A step whose outputs depend on x reads x, or a step whose outputs do.   *)
(***************************************************************************)
LEMMA DownstreamReads ==
  ASSUME GraphOK, NEW x
  PROVE  /\ Downstream(x) \subseteq StepsOf(g)
         /\ \A s \in Downstream(x) : x \in Inputs(s) \/ Reads(s) \cap Downstream(x) # {}
<1> DEFINE V == SUBSET StepsOf(g)
           F == [low \in V |-> Wider(low)]
           r == Readers(x)
           D == {low \in V : \A s \in low : x \in Inputs(s) \/ Reads(s) \cap low # {}}
<1> DEFINE up[k \in 0..Cardinality(Names)] == IF k = 0 THEN Readers(x) ELSE Wider(up[k - 1])
<1>1. F \in [V -> V] /\ r \in V BY DEF Wider, Readers
<1>2. PICK h \in [0..N -> V] : Iterates(h, r, F, N)
  <2> HIDE DEF V, F, r
  <2>1. QED BY <1>1, NIsNat, IteratesExist
<1>3. h = [k \in 0..N |-> IF k = 0 THEN Readers(x) ELSE Wider(h[k - 1])]
  <2>1. ASSUME NEW k \in 0..N, k # 0 PROVE h[k - 1] \in V
    <3> HIDE DEF V
    <3>1. QED BY <2>1, NIsNat
  <2>2. QED BY <1>2, <2>1 DEF Iterates
<1>4. up = [k \in 0..N |-> IF k = 0 THEN Readers(x) ELSE Wider(up[k - 1])] BY <1>3, Zenon DEF N
<1>5. Downstream(x) = up[N] BY Zenon DEF Downstream, N
<1> HIDE DEF up
<1>6. r \in D BY <1>1 DEF Readers
<1>7. ASSUME NEW low \in V, low \in D PROVE Wider(low) \in D
  <2>1. Wider(low) \in V BY DEF Wider
  <2>2. ASSUME NEW s \in Wider(low) PROVE x \in Inputs(s) \/ Reads(s) \cap Wider(low) # {}
    <3>1. low \subseteq Wider(low) BY DEF Wider
    <3>2. x \in Inputs(s) \/ Reads(s) \cap low # {} BY <1>7 DEF Wider
    <3>3. QED BY <3>1, <3>2
  <2>3. QED BY <2>1, <2>2
<1>8. \A k \in 0..N : up[k] \in V /\ up[k] \in D
  <2> DEFINE S == {k \in 0..N : up[k] \in V /\ up[k] \in D}
  <2>1. up[0] = r BY <1>4, NIsNat
  <2> HIDE DEF V, D, r
  <2>2. 0 \in S BY <1>1, <1>6, <2>1, NIsNat
  <2>3. ASSUME NEW k \in 0..(N - 1), k \in S PROVE k + 1 \in S
    <3>1. k + 1 \in 0..N /\ k + 1 # 0 /\ (k + 1) - 1 = k BY NIsNat
    <3>2. up[k + 1] = Wider(up[(k + 1) - 1]) BY <1>4, <3>1, Zenon
    <3>3. Wider(up[k]) \in D BY <1>7, <2>3
    <3>4. Wider(up[k]) \in V BY <3>3 DEF D
    <3>5. QED BY <3>1, <3>2, <3>3, <3>4
  <2>4. \A k \in 0..N : k \in S
    <3> HIDE DEF S
    <3>1. QED BY <2>2, <2>3, NIsNat, UpTo
  <2>5. QED BY <2>4
<1>9. Downstream(x) \in D BY <1>5, <1>8, NIsNat
<1>10. QED BY <1>9

LEMMA LateEdit ==
  ASSUME CInv, RInv, NEW x \in g.sources, Edits(x),
         NEW L, L \subseteq FilesOf(g), Behind(L), Reason(L)
  PROVE  \E M \in SUBSET FilesOf(g) : Behind(M)' /\ Reason(M)' /\ Undisturbed(M)'
<1>1. /\ x \in FilesOf(g) /\ mtime'[x] = now + 1
      /\ \A f \in FilesOf(g) : f # x => mtime'[f] = mtime[f]
      /\ \A s \in Names : truth'[s] = IF s \in Downstream(x) THEN "behind" ELSE truth[s]
      /\ quiet' = FALSE /\ g' = g /\ st' = st /\ written' = written
  BY DEF Edits
<1>2. /\ Sure' = Sure
      /\ \A t : Outputs(t)' = Outputs(t) /\ Inputs(t)' = Inputs(t) /\ Reads(t)' = Reads(t)
  BY <1>1, SameFiles, SameSure
<1>3. /\ Sure \subseteq Names /\ Sure \subseteq StepsOf(g)
      /\ \A t \in Sure : Outputs(t) \subseteq FilesOf(g) /\ Inputs(t) \subseteq FilesOf(g)
      /\ \A s \in Sure : \A d \in Reads(s) : d \in Sure /\ Outputs(d) \cap Inputs(s) # {}
      /\ \A f \in FilesOf(g) : mtime[f] \in Nat /\ mtime[f] <= now
      /\ now \in Nat
  BY Inputs0
<1>4. GraphOK BY DEF CInv, ClosureType
<1>5. PICK W : W = Downstream(x) OBVIOUS
<1>6. PICK M : M = L \cup UNION {Outputs(s) : s \in W \cap Sure} OBVIOUS
<1>7. L \subseteq M /\ M \subseteq FilesOf(g) /\ \A s \in W \cap Sure : Outputs(s) \subseteq M
  BY <1>3, <1>6
<1>8. ASSUME NEW f \in M PROVE f \in L \/ \E s \in W \cap Sure : f \in Outputs(s) BY <1>6
<1>9. Behind(M)'
  <2>1. ASSUME NEW t \in Sure, truth'[t] = "behind"
        PROVE  Outputs(t) \subseteq M \cup (IF st[t] = "running" THEN written[t] ELSE {})
    <3>1. CASE t \in W BY <1>7, <3>1
    <3>2. CASE t \notin W
      <4>1. truth[t] = "behind" BY <1>1, <1>3, <1>5, <2>1, <3>2
      <4>2. Outputs(t) \subseteq L \cup (IF st[t] = "running" THEN written[t] ELSE {}) BY <4>1 DEF Behind
      <4>3. QED BY <1>7, <4>2
    <3>3. QED BY <3>1, <3>2
  <2>2. QED BY <1>1, <1>2, <2>1 DEF Behind
<1>10. Reason(M)'
  <2>1. ASSUME NEW t \in Sure, NEW f \in M \cap Outputs(t)
        PROVE  \/ mtime'[f] = 0
               \/ \E i \in Inputs(t) : mtime'[i] = 0 \/ mtime'[i] > mtime'[f]
               \/ \E d \in Reads(t) : Outputs(d) \cap Inputs(t) \cap M # {}
    <3>1. f \in FilesOf(g) /\ f # x BY <1>3, <1>4, FileTypes, SureReads
    <3>2. mtime'[f] = mtime[f] /\ mtime[f] \in Nat /\ mtime[f] < now + 1 BY <1>1, <1>3, <3>1
    <3>3. CASE x \in Inputs(t)
      <4>1. mtime'[x] > mtime'[f] BY <1>1, <1>3, <3>2
      <4>2. QED BY <3>3, <4>1
    <3>4. CASE x \notin Inputs(t)
      <4>1. \A i \in Inputs(t) : mtime'[i] = mtime[i] BY <1>1, <1>3, <3>4
      <4>2. CASE f \in L
        <5>1. \/ mtime[f] = 0
              \/ \E i \in Inputs(t) : mtime[i] = 0 \/ mtime[i] > mtime[f]
              \/ \E d \in Reads(t) : Outputs(d) \cap Inputs(t) \cap L # {}
          BY <4>2 DEF Reason
        <5>2. \A d \in Reads(t) :
                 Outputs(d) \cap Inputs(t) \cap L # {} => Outputs(d) \cap Inputs(t) \cap M # {}
          BY <1>7
        <5>3. QED BY <3>2, <4>1, <5>1, <5>2
      <4>3. CASE f \notin L
        <5>1. PICK s \in W \cap Sure : f \in Outputs(s) BY <1>8, <4>3
        <5>2. s = t BY <1>3, <1>4, <5>1, FileTypes
        <5>3. PICK d \in Reads(t) : d \in W BY <1>4, <1>5, <3>4, <5>1, <5>2, DownstreamReads
        <5>4. Outputs(d) \cap Inputs(t) \cap M # {} BY <1>3, <1>7, <5>3
        <5>5. QED BY <5>3, <5>4
      <4>4. QED BY <4>2, <4>3
    <3>5. QED BY <3>3, <3>4
  <2>2. QED BY <1>2, <2>1 DEF Reason
<1>11. Undisturbed(M)' BY <1>1 DEF Undisturbed
<1>12. QED BY <1>7, <1>9, <1>10, <1>11

LEMMA LateInit == Init => LateOK
<1> SUFFICES ASSUME Init PROVE LateOK OBVIOUS
<1>1. /\ g \in Graphs /\ pc = "idle" /\ targets = <<>>
      /\ mtime = [f \in FilesOf(g) |->
                   IF f \in g.sources \/ \E s \in g.built : f \in Outputs(s) THEN 1 ELSE 0]
      /\ truth = [s \in Names |-> IF s \in g.built THEN "current" ELSE "behind"]
  BY DEF Init
<1>2. CInv /\ RInv BY ClosureInit, RunInit
<1>3. GraphOK BY <1>2 DEF CInv, ClosureType
<1>4. \A s \in Sure : Outputs(s) \subseteq FilesOf(g) /\ Outputs(s) \cap g.sources = {} /\ s \in Names
  BY <1>3, FileTypes DEF Sure, Makers
<1>5. \A s \in Sure : \A d \in g.built : s # d => Outputs(s) \cap Outputs(d) = {}
  BY <1>1, <1>3, FilesAssumption, FileTypes DEF Sure, Makers
<1>6. PICK L : L = {f \in FilesOf(g) : \A s \in g.built : f \notin Outputs(s)} OBVIOUS
<1>7. Behind(L)
  <2>1. ASSUME NEW s \in Sure, truth[s] = "behind" PROVE Outputs(s) \subseteq L
    <3>1. s \notin g.built BY <1>1, <1>4, <2>1
    <3>2. QED BY <1>4, <1>5, <1>6, <3>1
  <2>2. QED BY <2>1 DEF Behind
<1>8. Reason(L)
  <2>1. ASSUME NEW s \in Sure, NEW f \in L \cap Outputs(s) PROVE mtime[f] = 0
    BY <1>1, <1>4, <1>6
  <2>2. QED BY <2>1 DEF Reason
<1>9. Undisturbed(L) BY <1>1 DEF Undisturbed
<1>10. QED BY <1>6, <1>7, <1>8, <1>9 DEF LateOK

LEMMA LateNext == CInv /\ RInv /\ LateOK /\ [Next]_vars => LateOK'
<1> SUFFICES ASSUME CInv, RInv, LateOK, [Next]_vars PROVE LateOK' OBVIOUS
<1>1. PICK L \in SUBSET FilesOf(g) : Behind(L) /\ Reason(L) /\ Undisturbed(L) BY DEF LateOK
<1>2. ASSUME g' = g, NEW M \in SUBSET FilesOf(g), Behind(M)', Reason(M)', Undisturbed(M)' PROVE LateOK'
  BY <1>2, SameFiles DEF LateOK
<1>3. ASSUME g' = g, \E M \in SUBSET FilesOf(g) : Behind(M)' /\ Reason(M)' /\ Undisturbed(M)' PROVE LateOK'
  BY <1>2, <1>3
<1>4. CASE closureStep \/ \E ts \in g.asked : Run(ts)
  <2>1. Outside BY <1>4, ClosureIsOutside
  <2>2. g' = g BY <2>1 DEF Outside, Quiet
  <2>3. Behind(L)' /\ Reason(L)' /\ Undisturbed(L)' BY <1>1, <2>1, LateKept DEF Outside
  <2>4. QED BY <1>2, <2>2, <2>3
<1>5. CASE schedule
  <2>1. Quiet /\ \A s \in Names : st'[s] \in {"idle", "pending"} BY <1>5, ScheduleMoves
  <2>2. g' = g BY <2>1 DEF Quiet
  <2>3. \A s \in Names : st[s] # "running" BY <1>5 DEF schedule, RInv, Started
  <2>4. Behind(L)' /\ Reason(L)' /\ Undisturbed(L)' BY <1>1, <2>1, <2>3, LateKept
  <2>5. QED BY <1>2, <2>2, <2>4
<1>6. CASE return
  <2>1. Quiet /\ pc' = "idle" /\ \A s \in Names : st[s] # "running" BY <1>6, ReturnMoves
  <2>2. g' = g BY <2>1 DEF Quiet
  <2>3. Behind(L)' /\ Reason(L)' /\ Undisturbed(L)' BY <1>1, <2>1, LateKept
  <2>4. QED BY <1>2, <2>2, <2>3
<1>7. ASSUME NEW s \in Names, StepStep(s) PROVE LateOK'
  <2>1. CASE skip(s) \/ idle(s) \/ start(s)
    <3>1. PICK v : Begins(s, v) BY <2>1, BeginMoves
    <3>2. g' = g BY <3>1 DEF Begins
    <3>3. Behind(L)' /\ Reason(L)' /\ Undisturbed(L)' BY <1>1, <3>1, LateBegin
    <3>4. QED BY <1>2, <3>2, <3>3
  <2>2. CASE write(s)
    <3>1. PICK o : Writes(s, o) BY <2>2, WriteMoves
    <3>2. g' = g BY <3>1 DEF Writes
    <3>3. PICK M : M = L \ {o} OBVIOUS
    <3>4. Behind(M)' /\ Reason(M)' /\ Undisturbed(M)' BY <1>1, <3>1, <3>3, LateWrite
    <3>5. M \in SUBSET FilesOf(g) BY <3>3
    <3>6. QED BY <1>2, <3>2, <3>4, <3>5
  <2>3. CASE finish(s) \/ fail(s)
    <3>1. PICK v : Ends(s, v) BY <2>3, EndIs
    <3>2. g' = g BY <3>1 DEF Ends
    <3>3. \E M \in SUBSET FilesOf(g) : Behind(M)' /\ Reason(M)' /\ Undisturbed(M)'
      BY <1>1, <3>1, LateEnd
    <3>4. QED BY <1>3, <3>2, <3>3
  <2>4. QED BY <1>7, <2>1, <2>2, <2>3 DEF StepStep
<1>8. ASSUME NEW x \in g.sources, edit(x) PROVE LateOK'
  <2>1. Edits(x) BY <1>8, EditMoves
  <2>2. g' = g BY <2>1 DEF Edits
  <2>3. \E M \in SUBSET FilesOf(g) : Behind(M)' /\ Reason(M)' /\ Undisturbed(M)'
    BY <1>1, <2>1, LateEdit
  <2>4. QED BY <1>3, <2>2, <2>3
<1>9. CASE UNCHANGED vars
  <2>1. /\ pc' = pc /\ g' = g /\ UNCHANGED <<mtime, st, written, quiet, truth>> BY <1>9, Stutters
  <2>2. /\ Sure' = Sure
        /\ \A t : Outputs(t)' = Outputs(t) /\ Inputs(t)' = Inputs(t) /\ Reads(t)' = Reads(t)
    BY <2>1, SameFiles, SameSure
  <2>3. Behind(L)' BY <1>1, <2>1, <2>2 DEF Behind
  <2>4. Reason(L)' BY <1>1, <2>1, <2>2 DEF Reason
  <2>5. Undisturbed(L)' BY <1>1, <2>1, <2>2 DEF Undisturbed
  <2>6. QED BY <1>2, <2>1, <2>3, <2>4, <2>5
<1>10. QED BY <1>4, <1>5, <1>6, <1>7, <1>8, <1>9 DEF Next

LEMMA LateInv == Spec => [](CInv /\ RInv /\ LateOK)
<1>1. CInv /\ RInv /\ LateOK /\ [Next]_vars => LateOK' BY LateNext
<1>2. QED BY <1>1, LateInit, RunInv, PTL DEF Spec

(***************************************************************************)
(* For every graph, and any number of Runs, failures and edits before: a   *)
(* Run that succeeds and that no edit disturbs leaves no output behind, of *)
(* the steps that only declared reads go into.                             *)
(***************************************************************************)
THEOREM RunBuildsTruly == Spec => []BuildIsTrue
<1>1. ASSUME CInv, RInv, LateOK PROVE BuildIsTrue
  <2> SUFFICES ASSUME Over, ~Failed, quiet, NEW s \in Elems(order), Builds(s), Ordered(s),
                      truth[s] = "behind"
               PROVE  FALSE
    BY DEF BuildIsTrue
  <2>1. PICK L \in SUBSET FilesOf(g) : Behind(L) /\ Reason(L) /\ Undisturbed(L) BY <1>1 DEF LateOK
  <2>2. pc = "run" BY DEF Over
  <2>3. s \in StepsOf(g) /\ s \in Sure /\ s \in Names
    <3>1. s \in StepsOf(g) BY <1>1, <2>2, RunGraph
    <3>2. QED BY <3>1 DEF Builds, Sure, Makers, StepsOf
  <2>4. st[s] \in Settled
    <3>1. st[s] \in {"idle", "pending", "running", "skipped", "done", "failed"}
      BY <1>1, <2>3 DEF RInv, RunType
    <3>2. st[s] # "idle" BY <1>1, <2>2, <2>3 DEF RInv, Started
    <3>3. st[s] # "running" /\ st[s] # "pending" /\ st[s] # "failed" BY <2>3 DEF Over, Failed
    <3>4. QED BY <3>1, <3>2, <3>3 DEF Settled
  <2>5. Outputs(s) \cap L = {} BY <2>1, <2>2, <2>3, <2>4 DEF Undisturbed
  <2>6. Outputs(s) \subseteq L BY <2>1, <2>3, <2>4 DEF Behind, Settled
  <2>7. Outputs(s) # {} BY DEF Builds
  <2>8. QED BY <2>5, <2>6, <2>7
<1>2. QED BY <1>1, LateInv, PTL

-----------------------------------------------------------------------------
(* Nothing is done twice *)

(* The outputs of a step are there, with its inputs, and none is older     *)
(* than an input.                                                          *)
Up(s) ==
  /\ \A o \in Outputs(s) : mtime[o] # 0
  /\ \A i \in Inputs(s) : mtime[i] # 0 /\ \A o \in Outputs(s) : mtime[i] <= mtime[o]

(* The steps that a step names or reads. *)
Needs(s) == (Elems(g.deps[s]) \cap StepsOf(g)) \cup Reads(s)

(* Steps that need no others, none of which runs every time. *)
Sealed(C) ==
  \A s \in C :
     /\ s \in StepsOf(g) /\ ~Always(s)
     /\ s \in g.idle \/ (Needs(s) \subseteq C /\ Missing(s) = {} /\ Declared(s))

FreshUp ==
  /\ fresh \subseteq StepsOf(g) /\ \A s \in fresh : Declared(s) => Needs(s) \subseteq fresh
  /\ \A C \in SUBSET fresh : Sealed(C) =>
        \A s \in C : Builds(s) => Up(s) /\ st[s] \notin {"running", "done", "failed"}

(* What a Run that no edit disturbs has settled is up to date. *)
SettledUp ==
  /\ \A s \in Makers : st[s] \in Settled => \A o \in Outputs(s) : mtime[o] # 0
  /\ \A s \in Makers : st[s] = "running" => \A o \in written[s] : mtime[o] # 0
  /\ quiet => \A s \in Makers : Missing(s) = {} /\ Declared(s) =>
        /\ st[s] \in Settled => Up(s)
        /\ st[s] = "running" =>
              \A i \in Inputs(s) \ Outputs(s) : mtime[i] # 0 /\ \A o \in written[s] : mtime[i] <= mtime[o]

NInv == FreshUp /\ SettledUp

LEMMA SameSteps ==
  ASSUME g' = g
  PROVE  /\ \A s : Missing(s)' = Missing(s) /\ Needs(s)' = Needs(s)
         /\ \A s : (Always(s)' <=> Always(s)) /\ (Builds(s)' <=> Builds(s))
         /\ \A C : Sealed(C)' <=> Sealed(C)
         /\ mtime' = mtime => \A s : Up(s)' <=> Up(s)
<1>1. /\ StepsOf(g)' = StepsOf(g)
      /\ \A s : Outputs(s)' = Outputs(s) /\ Inputs(s)' = Inputs(s) /\ Reads(s)' = Reads(s)
      /\ \A s : Declared(s)' <=> Declared(s)
  BY SameFiles
<1>2. \A s : Missing(s)' = Missing(s) BY <1>1 DEF Missing, StepsOf, Elems, Outputs, Inputs
<1>3. \A s : Needs(s)' = Needs(s) BY <1>1 DEF Needs, Elems, StepsOf
<1>4. \A s : (Always(s)' <=> Always(s)) /\ (Builds(s)' <=> Builds(s)) BY <1>1 DEF Always, Builds
<1>5. ASSUME NEW C PROVE Sealed(C)' <=> Sealed(C) BY <1>1, <1>2, <1>3, <1>4 DEF Sealed
<1>6. mtime' = mtime => \A s : Up(s)' <=> Up(s) BY <1>1 DEF Up
<1>7. QED BY <1>2, <1>3, <1>4, <1>5, <1>6

Busy == {"running", "done", "failed"}

LEMMA FreshSame ==
  ASSUME FreshUp, g' = g, fresh' = fresh, mtime' = mtime,
         \A C \in SUBSET fresh : Sealed(C) => \A s \in C : Builds(s) => st'[s] \notin Busy
  PROVE  FreshUp'
<1>1. StepsOf(g)' = StepsOf(g) /\ \A s : Declared(s)' <=> Declared(s) BY SameFiles
<1>2. /\ \A s : Needs(s)' = Needs(s) /\ (Builds(s)' <=> Builds(s)) /\ (Up(s)' <=> Up(s))
      /\ \A C : Sealed(C)' <=> Sealed(C)
  BY SameSteps
<1>3. ASSUME NEW C \in SUBSET fresh, Sealed(C), NEW s \in C, Builds(s)
      PROVE  Up(s) /\ st'[s] \notin {"running", "done", "failed"}
  BY <1>3 DEF FreshUp, Busy
<1>4. QED BY <1>1, <1>2, <1>3 DEF FreshUp

(***************************************************************************)
(* In a sealed set only steps that build have tasks, and an input of one   *)
(* that another step writes comes from the set.                            *)
(***************************************************************************)
LEMMA SealedBuilds ==
  ASSUME NEW C, Sealed(C), NEW s \in C, s \in Makers
  PROVE  Builds(s)
BY DEF Sealed, Always, Builds, Makers

LEMMA InputFrom ==
  ASSUME NEW s \in Makers, Missing(s) = {}, NEW i \in Inputs(s) \ Outputs(s)
  PROVE  i \in g.sources \/ \E e \in Reads(s) : i \in Outputs(e)
BY DEF Missing, Reads, Makers

LEMMA WriterIsRead ==
  ASSUME NEW s \in Makers, NEW t \in Makers, s # t, NEW o \in Outputs(s), o \in Inputs(t)
  PROVE  s \in Reads(t)
BY DEF Reads, Makers

(***************************************************************************)
(* Its only output may be an input of a step.                              *)
(***************************************************************************)
LEMMA OwnInput ==
  ASSUME GraphOK, NEW s \in Makers, Missing(s) = {}, NEW i \in Inputs(s), i \in Outputs(s)
  PROVE  Outputs(s) = {i}
<1>1. i \notin g.sources BY FileTypes
<1>2. \A e \in StepsOf(g) : e # s => i \notin Outputs(e) BY FileTypes DEF Makers
<1>3. QED BY <1>1, <1>2 DEF Missing

(***************************************************************************)
(* stale has no reason to run a step of a sealed set.                      *)
(***************************************************************************)
LEMMA SealedNotStale ==
  ASSUME CInv, RInv, FreshUp, pc = "run", NEW C \in SUBSET fresh, Sealed(C), NEW s \in C, s \in Makers
  PROVE  ~stale(s)
<1>1. Builds(s) BY SealedBuilds
<1>2. Up(s) BY <1>1 DEF FreshUp
<1>3. ~Always(s) BY DEF Sealed
<1>4. Elems(g.deps[s]) \cap rebuilt = {}
  <2>1. ASSUME NEW n \in Elems(g.deps[s]) \cap rebuilt PROVE FALSE
    <3>1. n \in Makers /\ st[n] = "done" BY DEF RInv, Started
    <3>2. n \in C
      <4>1. Needs(s) \subseteq C BY DEF Sealed, Makers
      <4>2. QED BY <3>1, <4>1 DEF Needs, Makers
    <3>3. Builds(n) BY <3>1, <3>2, SealedBuilds
    <3>4. QED BY <3>1, <3>2, <3>3 DEF FreshUp
  <2>2. QED BY <2>1
<1>5. \A o \in Outputs(s) : mtime[o] # 0 BY <1>2 DEF Up
<1>6. ASSUME NEW i \in Inputs(s) PROVE mtime[i] # 0 /\ \A o \in Outputs(s) : ~(mtime[i] > mtime[o])
  <2>1. mtime[i] # 0 /\ \A o \in Outputs(s) : mtime[i] <= mtime[o] BY <1>2 DEF Up
  <2>2. mtime[i] \in Nat /\ \A o \in Outputs(s) : mtime[o] \in Nat BY Inputs0
  <2>3. QED BY <2>1, <2>2
<1>7. QED BY <1>3, <1>4, <1>5, <1>6 DEF stale

LEMMA FreshBegin ==
  ASSUME CInv, RInv, FreshUp, NEW s \in Names, NEW v, Begins(s, v)
  PROVE  FreshUp'
<1>1. /\ Ready(s) /\ g' = g /\ fresh' = fresh /\ mtime' = mtime
      /\ \A t \in Names : st'[t] = IF t = s THEN v ELSE st[t]
  BY DEF Begins
<1>2. pc = "run" BY <1>1, StepInRun DEF Ready
<1>3. ASSUME NEW C \in SUBSET fresh, Sealed(C), NEW t \in C, Builds(t) PROVE st'[t] \notin Busy
  <2>1. st[t] \notin Busy BY <1>3 DEF FreshUp, Busy
  <2>2. t \in Makers /\ t \in Names BY <1>3 DEF Sealed, Builds, Makers, StepsOf
  <2>3. CASE t # s BY <1>1, <2>1, <2>2, <2>3
  <2>4. CASE t = s
    <3>1. ~stale(s) BY <1>2, <1>3, <2>2, <2>4, SealedNotStale
    <3>2. v = "skipped" BY <3>1 DEF Begins
    <3>3. QED BY <1>1, <2>4, <3>2 DEF Busy
  <2>5. QED BY <2>3, <2>4
<1>4. QED BY <1>1, <1>3, FreshSame

LEMMA FreshWrite ==
  ASSUME CInv, RInv, FreshUp, NEW s \in Names, NEW o, Writes(s, o)
  PROVE  FreshUp'
<1>1. /\ st[s] = "running" /\ s \in Makers /\ o \in Outputs(s)
      /\ \A f \in FilesOf(g) : f # o => mtime'[f] = mtime[f]
      /\ g' = g /\ st' = st /\ fresh' = fresh
  BY DEF Writes
<1>2. GraphOK BY DEF CInv, ClosureType
<1>3. /\ StepsOf(g)' = StepsOf(g) /\ \A t : Outputs(t)' = Outputs(t) /\ Inputs(t)' = Inputs(t)
      /\ \A t : Declared(t)' <=> Declared(t)
      /\ \A t : Needs(t)' = Needs(t) /\ (Builds(t)' <=> Builds(t))
      /\ \A C : Sealed(C)' <=> Sealed(C)
  BY <1>1, SameFiles, SameSteps
<1>4. ASSUME NEW C \in SUBSET fresh, Sealed(C), NEW t \in C, Builds(t)
      PROVE  Up(t)' /\ st[t] \notin {"running", "done", "failed"}
  <2>1. Up(t) /\ st[t] \notin {"running", "done", "failed"} BY <1>4 DEF FreshUp
  <2>2. t \in Makers /\ Missing(t) = {} BY <1>4 DEF Sealed, Builds, Makers
  <2>3. s \notin C
    <3>1. ASSUME s \in C PROVE FALSE
      <4>1. Builds(s) BY <1>1, <1>4, <3>1, SealedBuilds
      <4>2. QED BY <1>1, <1>4, <3>1, <4>1 DEF FreshUp
    <3>2. QED BY <3>1
  <2>4. o \notin Outputs(t) BY <1>1, <1>2, <1>4, <2>2, <2>3, FileTypes DEF Makers
  <2>5. o \notin Inputs(t)
    <3>1. ASSUME o \in Inputs(t) PROVE FALSE
      <4>1. s \in Reads(t) BY <1>1, <1>4, <2>2, <2>3, <3>1, WriterIsRead
      <4>2. Needs(t) \subseteq C BY <1>4, <2>2 DEF Sealed, Makers
      <4>3. QED BY <2>3, <4>1, <4>2 DEF Needs
    <3>2. QED BY <3>1
  <2>6. \A f \in Outputs(t) \cup Inputs(t) : mtime'[f] = mtime[f] BY <1>1, <2>2, <2>4, <2>5, Inputs0
  <2>7. Up(t)' BY <1>3, <2>1, <2>6 DEF Up
  <2>8. QED BY <2>1, <2>7
<1>5. QED BY <1>1, <1>3, <1>4 DEF FreshUp

LEMMA FreshEnd ==
  ASSUME CInv, RInv, FreshUp, NEW s \in Names, NEW v, Ends(s, v)
  PROVE  FreshUp'
<1>1. /\ st[s] = "running" /\ s \in Makers /\ g' = g /\ fresh' = fresh /\ mtime' = mtime
      /\ \A t \in Names : st'[t] = IF t = s THEN v ELSE st[t]
  BY DEF Ends
<1>2. ASSUME NEW C \in SUBSET fresh, Sealed(C), NEW t \in C, Builds(t) PROVE st'[t] \notin Busy
  <2>1. st[t] \notin Busy BY <1>2 DEF FreshUp, Busy
  <2>2. t \in Names BY <1>2 DEF Sealed, StepsOf
  <2>3. t # s BY <1>1, <2>1 DEF Busy
  <2>4. QED BY <1>1, <2>1, <2>2, <2>3
<1>3. QED BY <1>1, <1>2, FreshSame

LEMMA SettledBegin ==
  ASSUME CInv, RInv, SettledUp, NEW s \in Names, NEW v, Begins(s, v)
  PROVE  SettledUp'
<1>1. /\ Ready(s) /\ st[s] = "pending" /\ g' = g /\ mtime' = mtime /\ written' = written /\ quiet' = quiet
      /\ \A t \in Names : st'[t] = IF t = s THEN v ELSE st[t]
  BY DEF Begins, Ready
<1>2. /\ Makers' = Makers
      /\ \A t : Outputs(t)' = Outputs(t) /\ Inputs(t)' = Inputs(t) /\ Missing(t)' = Missing(t)
      /\ \A t : Declared(t)' <=> Declared(t)
      /\ \A t : Up(t)' <=> Up(t)
  BY <1>1, SameFiles, SameSteps
<1>3. Makers \subseteq Names /\ \A t \in Makers : t # s => st'[t] = st[t] BY <1>1, Inputs0
<1>4. written[s] = {} BY <1>1 DEF RInv, Started
<1>5. ASSUME s \in Makers PROVE (v = "skipped" /\ Up(s)) \/ v = "running"
  <2>1. (v = "skipped" /\ ~stale(s)) \/ v = "running" BY <1>5 DEF Begins, Makers
  <2>2. ASSUME ~stale(s) PROVE Up(s)
    <3>1. /\ \A o \in Outputs(s) : mtime[o] # 0
          /\ \A i \in Inputs(s) : mtime[i] # 0 /\ \A o \in Outputs(s) : ~(mtime[i] > mtime[o])
      BY <1>5, <2>2 DEF stale, Always, Makers
    <3>2. \A i \in Inputs(s) \cup Outputs(s) : mtime[i] \in Nat BY <1>5, Inputs0
    <3>3. \A i \in Inputs(s) : \A o \in Outputs(s) : mtime[i] <= mtime[o] BY <3>1, <3>2
    <3>4. QED BY <3>1, <3>3 DEF Up
  <2>3. QED BY <2>1, <2>2
<1>6. ASSUME s \in Makers, Missing(s) = {}, Declared(s), NEW i \in Inputs(s) \ Outputs(s)
      PROVE  mtime[i] # 0
  <2>1. CASE i \in g.sources BY <2>1 DEF RInv, RunType
  <2>2. ASSUME NEW e \in Reads(s), i \in Outputs(e) PROVE mtime[i] # 0
    <3>1. e \in Makers /\ st[e] \in Settled BY <1>1, <1>6, Inputs0, ReadsSettled
    <3>2. QED BY <2>2, <3>1 DEF SettledUp
  <2>3. QED BY <1>6, <2>1, <2>2, InputFrom
<1>7. ASSUME NEW t \in Makers
      PROVE  /\ st'[t] \in Settled => \A o \in Outputs(t) : mtime[o] # 0
             /\ st'[t] = "running" => \A o \in written[t] : mtime[o] # 0
             /\ quiet /\ Missing(t) = {} /\ Declared(t) =>
                   /\ st'[t] \in Settled => Up(t)
                   /\ st'[t] = "running" =>
                         \A i \in Inputs(t) \ Outputs(t) : mtime[i] # 0 /\ \A o \in written[t] : mtime[i] <= mtime[o]
  <2>1. CASE t # s
    <3>1. st'[t] = st[t] BY <1>3, <2>1
    <3>2. QED BY <3>1 DEF SettledUp
  <2>2. CASE t = s /\ v = "skipped" BY <1>1, <1>5, <2>2 DEF Up
  <2>3. CASE t = s /\ v = "running" BY <1>1, <1>4, <1>6, <2>3 DEF Settled
  <2>4. QED BY <1>5, <2>1, <2>2, <2>3
<1>8. QED BY <1>1, <1>2, <1>7 DEF SettledUp

LEMMA SettledWrite ==
  ASSUME CInv, RInv, SettledUp, NEW s \in Names, NEW o, Writes(s, o)
  PROVE  SettledUp'
<1>1. /\ st[s] = "running" /\ s \in Makers /\ o \in Outputs(s) /\ mtime'[o] = now + 1
      /\ \A f \in FilesOf(g) : f # o => mtime'[f] = mtime[f]
      /\ \A t \in Names : written'[t] = IF t = s THEN written[s] \cup {o} ELSE written[t]
      /\ g' = g /\ st' = st /\ quiet' = quiet
  BY DEF Writes
<1>2. /\ Makers' = Makers
      /\ \A t : Outputs(t)' = Outputs(t) /\ Inputs(t)' = Inputs(t) /\ Missing(t)' = Missing(t)
      /\ \A t : Declared(t)' <=> Declared(t)
  BY <1>1, SameFiles, SameSteps
<1>3. /\ GraphOK /\ Makers \subseteq Names /\ Makers \subseteq StepsOf(g)
      /\ \A t \in Makers : Outputs(t) \subseteq FilesOf(g) /\ Inputs(t) \subseteq FilesOf(g)
      /\ \A f \in FilesOf(g) : mtime[f] \in Nat /\ mtime[f] <= now
      /\ now \in Nat
  BY Inputs0 DEF CInv, ClosureType
<1>4. \A f \in FilesOf(g) : mtime[f] # 0 => mtime'[f] # 0 BY <1>1, <1>3
<1>5. ASSUME NEW t \in Makers, Declared(t), st[t] \in Settled \/ st[t] = "running", t # s
      PROVE  o \notin Inputs(t)
  <2>1. ASSUME o \in Inputs(t) PROVE FALSE
    <3>1. s \in Reads(t) BY <1>1, <1>5, <2>1, WriterIsRead
    <3>2. st[s] \in Settled BY <1>3, <1>5, <3>1, ReadsSettled DEF Settled
    <3>3. QED BY <1>1, <3>2 DEF Settled
  <2>2. QED BY <2>1
<1>6. ASSUME NEW t \in Makers, t # s PROVE written'[t] = written[t] /\ o \notin Outputs(t)
  BY <1>1, <1>3, <1>6, FileTypes
<1>7. ASSUME NEW t \in Makers, st[t] \in Settled PROVE \A f \in Outputs(t) : mtime'[f] # 0
  BY <1>3, <1>4, <1>7 DEF SettledUp
<1>8. written'[s] = written[s] \cup {o} /\ written[s] \subseteq Outputs(s)
  BY <1>1 DEF RInv, Started
<1>9. ASSUME NEW t \in Makers, st[t] = "running", NEW f \in written'[t] PROVE mtime'[f] # 0
  <2>1. written[t] \subseteq Outputs(t) BY <1>3, <1>9 DEF RInv, Started
  <2>2. \A e \in written[t] : e \in FilesOf(g) /\ mtime[e] # 0 BY <1>3, <1>9, <2>1 DEF SettledUp
  <2>3. CASE f \in written[t] BY <1>4, <2>2, <2>3
  <2>4. CASE f = o BY <1>1, <1>3, <2>4
  <2>5. QED BY <1>6, <1>8, <1>9, <2>3, <2>4
<1>10. ASSUME quiet, NEW t \in Makers, Missing(t) = {}, Declared(t), st[t] \in Settled PROVE Up(t)'
  <2>1. Up(t) BY <1>10 DEF SettledUp
  <2>2. t # s BY <1>1, <1>10 DEF Settled
  <2>3. \A f \in Inputs(t) \cup Outputs(t) : mtime'[f] = mtime[f] BY <1>1, <1>3, <1>5, <1>6, <1>10, <2>2
  <2>4. QED BY <1>2, <2>1, <2>3 DEF Up
<1>11. ASSUME quiet, NEW t \in Makers, Missing(t) = {}, Declared(t), st[t] = "running",
              NEW i \in Inputs(t) \ Outputs(t)
       PROVE  mtime'[i] # 0 /\ \A f \in written'[t] : mtime'[i] <= mtime'[f]
  <2>1. mtime[i] # 0 /\ \A f \in written[t] : mtime[i] <= mtime[f] BY <1>11 DEF SettledUp
  <2>2. i # o /\ i \in FilesOf(g)
    <3>1. CASE t = s BY <1>1, <1>3, <1>11, <3>1
    <3>2. CASE t # s BY <1>3, <1>5, <1>11, <3>2
    <3>3. QED BY <3>1, <3>2
  <2>3. mtime'[i] = mtime[i] /\ mtime[i] \in Nat /\ mtime[i] <= now + 1 BY <1>1, <1>3, <2>2
  <2>4. written[t] \subseteq FilesOf(g) BY <1>3 DEF RInv, RunType
  <2>5. ASSUME NEW f \in written'[t] PROVE mtime'[i] <= mtime'[f]
    <3>1. CASE f = o BY <1>1, <2>3, <3>1
    <3>2. CASE f # o
      <4>1. f \in written[t] BY <1>6, <1>8, <3>2
      <4>2. mtime'[f] = mtime[f] BY <1>1, <2>4, <3>2, <4>1
      <4>3. QED BY <2>1, <2>3, <4>1, <4>2
    <3>3. QED BY <3>1, <3>2
  <2>6. QED BY <2>1, <2>3, <2>5
<1>12. QED BY <1>1, <1>2, <1>7, <1>9, <1>10, <1>11 DEF SettledUp

LEMMA SettledEnd ==
  ASSUME CInv, RInv, SettledUp, NEW s \in Names, NEW v, Ends(s, v)
  PROVE  SettledUp'
<1>1. /\ st[s] = "running" /\ s \in Makers /\ v \in {"done", "failed"}
      /\ v = "done" => written[s] = Outputs(s)
      /\ \A t \in Names : st'[t] = IF t = s THEN v ELSE st[t]
      /\ g' = g /\ mtime' = mtime /\ written' = written /\ quiet' = quiet
  BY DEF Ends
<1>2. /\ Makers' = Makers
      /\ \A t : Outputs(t)' = Outputs(t) /\ Inputs(t)' = Inputs(t) /\ Missing(t)' = Missing(t)
      /\ \A t : Declared(t)' <=> Declared(t)
      /\ \A t : Up(t)' <=> Up(t)
  BY <1>1, SameFiles, SameSteps
<1>3. Makers \subseteq Names BY Inputs0
<1>4. ASSUME NEW t \in Makers
      PROVE  /\ st'[t] \in Settled => \A o \in Outputs(t) : mtime[o] # 0
             /\ st'[t] = "running" => \A o \in written[t] : mtime[o] # 0
             /\ quiet /\ Missing(t) = {} /\ Declared(t) =>
                   /\ st'[t] \in Settled => Up(t)
                   /\ st'[t] = "running" =>
                         \A i \in Inputs(t) \ Outputs(t) : mtime[i] # 0 /\ \A o \in written[t] : mtime[i] <= mtime[o]
  <2>1. CASE t # s
    <3>1. st'[t] = st[t] BY <1>1, <1>3, <2>1
    <3>2. QED BY <3>1 DEF SettledUp
  <2>2. CASE t = s /\ v = "failed" BY <1>1, <2>2 DEF Settled
  <2>3. CASE t = s /\ v = "done"
    <3>1. \A o \in Outputs(s) : mtime[o] # 0 BY <1>1, <2>3 DEF SettledUp
    <3>2. ASSUME quiet, Missing(s) = {}, Declared(s) PROVE Up(s)
      <4>1. \A i \in Inputs(s) \ Outputs(s) : mtime[i] # 0 /\ \A o \in Outputs(s) : mtime[i] <= mtime[o]
        BY <1>1, <2>3, <3>2 DEF SettledUp
      <4>2. ASSUME NEW i \in Inputs(s), i \in Outputs(s)
            PROVE  mtime[i] # 0 /\ \A o \in Outputs(s) : mtime[i] <= mtime[o]
        <5>1. Outputs(s) = {i} BY <1>1, <3>2, <4>2, OwnInput DEF CInv, ClosureType
        <5>2. mtime[i] \in Nat BY <1>1, <4>2, Inputs0
        <5>3. QED BY <3>1, <5>1, <5>2
      <4>3. QED BY <3>1, <4>1, <4>2 DEF Up
    <3>3. QED BY <1>1, <2>3, <3>1, <3>2
  <2>4. QED BY <1>1, <2>1, <2>2, <2>3
<1>5. QED BY <1>1, <1>2, <1>4 DEF SettledUp

LEMMA EditUp ==
  ASSUME CInv, RInv, SettledUp, NEW x, Edits(x)
  PROVE  FreshUp' /\ SettledUp'
<1>1. /\ mtime'[x] = now + 1 /\ (\A f \in FilesOf(g) : f # x => mtime'[f] = mtime[f])
      /\ quiet' = FALSE /\ fresh' = {} /\ g' = g /\ st' = st /\ written' = written
  BY DEF Edits
<1>2. Makers' = Makers /\ \A t : Outputs(t)' = Outputs(t) BY <1>1, SameFiles
<1>3. /\ Makers \subseteq Names /\ now \in Nat
      /\ \A t \in Makers : Outputs(t) \subseteq FilesOf(g)
  BY Inputs0
<1>4. \A f \in FilesOf(g) : mtime[f] # 0 => mtime'[f] # 0 BY <1>1, <1>3
<1>5. \A t \in Makers : written[t] \subseteq FilesOf(g) BY <1>3 DEF RInv, RunType
<1>6. SettledUp' BY <1>1, <1>2, <1>3, <1>4, <1>5 DEF SettledUp
<1>7. FreshUp'
  <2>1. \A C \in SUBSET {} : \A s \in C : FALSE OBVIOUS
  <2>2. QED BY <1>1, <2>1 DEF FreshUp
<1>8. QED BY <1>6, <1>7

LEMMA ReturnUp ==
  ASSUME CInv, RInv, FreshUp, SettledUp, return
  PROVE  FreshUp' /\ SettledUp'
<1>1. /\ g' = g /\ mtime' = mtime
      /\ \A s \in Names : st'[s] = "idle"
  BY ReturnMoves DEF Quiet
<1>2. /\ StepsOf(g)' = StepsOf(g) /\ Makers' = Makers
      /\ \A s : Needs(s)' = Needs(s) /\ (Builds(s)' <=> Builds(s)) /\ (Up(s)' <=> Up(s))
      /\ \A s : Declared(s)' <=> Declared(s)
      /\ \A C : Sealed(C)' <=> Sealed(C)
  BY <1>1, SameFiles, SameSteps
<1>3. Makers \subseteq Names /\ StepsOf(g) \subseteq Names BY Inputs0 DEF StepsOf
<1>4. SettledUp' BY <1>1, <1>2, <1>3 DEF SettledUp, Settled
<1>5. CASE fresh' = fresh
  <2>1. ASSUME NEW C \in SUBSET fresh, Sealed(C), NEW s \in C, Builds(s) PROVE st'[s] \notin Busy
    BY <1>1, <1>3, <2>1 DEF Sealed, Busy
  <2>2. QED BY <1>1, <1>4, <1>5, <2>1, FreshSame
<1>6. CASE fresh' = {}
  <2>1. \A C \in SUBSET {} : \A s \in C : FALSE OBVIOUS
  <2>2. QED BY <1>4, <1>6, <2>1 DEF FreshUp
<1>7. CASE fresh' = fresh \cup Elems(order) /\ Over /\ ~Failed /\ quiet
  <2>1. pc = "run" BY <1>7 DEF Over
  <2>2. /\ GraphOK /\ byName = StepsOf(g) /\ Elems(order) \subseteq StepsOf(g)
        /\ \A s \in Elems(order) : DepsOf(s) \subseteq Elems(order)
    BY <2>1, RunGraph
  <2>3. ASSUME NEW s \in Elems(order), Declared(s) PROVE Needs(s) \subseteq Elems(order)
    <3>1. Needs(s) \subseteq DepsOf(s) BY <2>2, <2>3, ReadsAreDeps DEF Needs
    <3>2. QED BY <2>2, <3>1
  <2>4. ASSUME NEW s \in Elems(order) PROVE st[s] \in Settled
    <3>1. s \in Names BY <1>3, <2>2
    <3>2. st[s] \in {"idle", "pending", "running", "skipped", "done", "failed"}
      BY <3>1 DEF RInv, RunType
    <3>3. st[s] # "idle" BY <2>1, <3>1 DEF RInv, Started
    <3>4. st[s] # "running" /\ st[s] # "pending" /\ st[s] # "failed" BY <1>7, <3>1 DEF Over, Failed
    <3>5. QED BY <3>2, <3>3, <3>4 DEF Settled
  <2>5. ASSUME NEW C \in SUBSET (fresh \cup Elems(order)), Sealed(C), NEW s \in C, Builds(s)
        PROVE  Up(s) /\ st'[s] \notin {"running", "done", "failed"}
    <3>1. st'[s] = "idle" /\ s \in Makers /\ Missing(s) = {} /\ Declared(s)
      BY <1>1, <1>3, <2>5 DEF Sealed, Builds, Makers
    <3>2. CASE s \in Elems(order) BY <1>7, <2>4, <3>1, <3>2 DEF SettledUp
    <3>3. CASE s \in fresh
      <4>1. PICK D : D = C \cap fresh OBVIOUS
      <4>2. Sealed(D) BY <2>5, <4>1 DEF Sealed, FreshUp
      <4>3. D \in SUBSET fresh /\ s \in D BY <3>3, <4>1
      <4>4. Up(s) BY <2>5, <4>2, <4>3 DEF FreshUp
      <4>5. QED BY <3>1, <4>4
    <3>4. QED BY <2>5, <3>1, <3>2, <3>3
  <2>6. /\ fresh \cup Elems(order) \subseteq StepsOf(g)
        /\ \A s \in fresh \cup Elems(order) : Declared(s) => Needs(s) \subseteq fresh \cup Elems(order)
    BY <2>2, <2>3 DEF FreshUp
  <2>7. FreshUp' BY <1>2, <1>7, <2>5, <2>6 DEF FreshUp
  <2>8. QED BY <1>4, <2>7
<1>8. QED BY <1>5, <1>6, <1>7 DEF return

LEMMA NoWorkInit == Init => NInv
<1> SUFFICES ASSUME Init PROVE NInv OBVIOUS
<1>1. fresh = {} /\ st = [s \in Names |-> "idle"] BY DEF Init
<1>2. Makers \subseteq Names BY DEF Makers, StepsOf
<1>3. \A C \in SUBSET {} : \A s \in C : FALSE OBVIOUS
<1>4. FreshUp BY <1>1, <1>3 DEF FreshUp
<1>5. SettledUp BY <1>1, <1>2 DEF SettledUp, Settled
<1>6. QED BY <1>4, <1>5 DEF NInv

LEMMA NoWorkNext == CInv /\ RInv /\ NInv /\ [Next]_vars => NInv'
<1> SUFFICES ASSUME CInv, RInv, NInv, [Next]_vars PROVE NInv' OBVIOUS
<1>1. FreshUp /\ SettledUp BY DEF NInv
<1>2. Makers \subseteq Names /\ StepsOf(g) \subseteq Names BY Inputs0 DEF StepsOf
<1>3. ASSUME g' = g, mtime' = mtime, fresh' = fresh, \A s \in Names : st'[s] \in {"idle", "pending"}
      PROVE  NInv'
  <2>1. ASSUME NEW C \in SUBSET fresh, Sealed(C), NEW s \in C, Builds(s) PROVE st'[s] \notin Busy
    BY <1>2, <1>3, <2>1 DEF Sealed, Busy
  <2>2. FreshUp' BY <1>1, <1>3, <2>1, FreshSame
  <2>3. Makers' = Makers BY <1>3, SameFiles
  <2>4. SettledUp' BY <1>2, <1>3, <2>3 DEF SettledUp, Settled
  <2>5. QED BY <2>2, <2>4 DEF NInv
<1>4. CASE closureStep \/ \E ts \in g.asked : Run(ts)
  <2>1. Outside BY <1>4, ClosureIsOutside
  <2>2. QED BY <1>3, <2>1 DEF Outside, Quiet
<1>5. CASE schedule BY <1>3, <1>5, ScheduleMoves DEF Quiet
<1>6. CASE return BY <1>1, <1>6, ReturnUp DEF NInv
<1>7. ASSUME NEW s \in Names, StepStep(s) PROVE NInv'
  <2>1. CASE skip(s) \/ idle(s) \/ start(s)
    <3>1. PICK v : Begins(s, v) BY <2>1, BeginMoves
    <3>2. QED BY <1>1, <3>1, FreshBegin, SettledBegin DEF NInv
  <2>2. CASE write(s)
    <3>1. PICK o : Writes(s, o) BY <2>2, WriteMoves
    <3>2. QED BY <1>1, <3>1, FreshWrite, SettledWrite DEF NInv
  <2>3. CASE finish(s) \/ fail(s)
    <3>1. PICK v : Ends(s, v) BY <2>3, EndIs
    <3>2. QED BY <1>1, <3>1, FreshEnd, SettledEnd DEF NInv
  <2>4. QED BY <1>7, <2>1, <2>2, <2>3 DEF StepStep
<1>8. ASSUME NEW x \in g.sources, edit(x) PROVE NInv'
  <2>1. Edits(x) BY <1>8, EditMoves
  <2>2. QED BY <1>1, <2>1, EditUp DEF NInv
<1>9. CASE UNCHANGED vars
  <2>1. /\ g' = g /\ UNCHANGED <<mtime, st, written, quiet, fresh>> BY <1>9, Stutters
  <2>2. ASSUME NEW C \in SUBSET fresh, Sealed(C), NEW s \in C, Builds(s) PROVE st'[s] \notin Busy
    BY <1>1, <2>1, <2>2 DEF FreshUp, Busy
  <2>3. FreshUp' BY <1>1, <2>1, <2>2, FreshSame
  <2>4. /\ Makers' = Makers
        /\ \A t : Outputs(t)' = Outputs(t) /\ Inputs(t)' = Inputs(t) /\ Missing(t)' = Missing(t)
        /\ \A t : Declared(t)' <=> Declared(t)
        /\ \A t : Up(t)' <=> Up(t)
    BY <2>1, SameFiles, SameSteps
  <2>5. SettledUp' BY <1>1, <2>1, <2>4 DEF SettledUp
  <2>6. QED BY <2>3, <2>5 DEF NInv
<1>10. QED BY <1>4, <1>5, <1>6, <1>7, <1>8, <1>9 DEF Next

LEMMA NoWorkInv == Spec => [](CInv /\ RInv /\ NInv)
<1>1. CInv /\ RInv /\ NInv /\ [Next]_vars => NInv' BY NoWorkNext
<1>2. QED BY <1>1, NoWorkInit, RunInv, PTL DEF Spec

(***************************************************************************)
(* For every graph, and any Runs of other targets since: what a Run that   *)
(* succeeded has built is not built again until something changes, unless  *)
(* it depends on a step that runs every time, that misses an input or that *)
(* reads a step without declaring it.                                      *)
(***************************************************************************)
THEOREM RunRepeatsNothing == Spec => []NoWorkTwice
<1>1. ASSUME CInv, RInv, NInv PROVE NoWorkTwice
  <2> SUFFICES ASSUME pc = "run", NEW s \in fresh, Builds(s),
                      \A d \in Below(s) :
                         ~Always(d) /\ (d \in g.idle \/ (Missing(d) = {} /\ Declared(d)))
               PROVE  st[s] \notin {"running", "done"}
    BY DEF NoWorkTwice
  <2>1. GraphOK /\ byName = StepsOf(g) BY <1>1, RunGraph
  <2>2. /\ fresh \subseteq StepsOf(g) /\ \A t \in fresh : Declared(t) => Needs(t) \subseteq fresh
        /\ \A C \in SUBSET fresh : Sealed(C) =>
              \A t \in C : Builds(t) => Up(t) /\ st[t] \notin {"running", "done", "failed"}
    BY <1>1 DEF NInv, FreshUp
  <2>3. s \in Names BY <2>2 DEF StepsOf
  <2>4. s \in Below(s) /\ \A t \in Below(s) \cap byName : DepsOf(t) \subseteq Below(s)
    BY <2>1, <2>3, BelowClosed
  <2>5. PICK C : C = Below(s) \cap fresh OBVIOUS
  <2>6. ASSUME NEW t \in C, Declared(t) PROVE Needs(t) \subseteq C
    <3>1. t \in StepsOf(g) /\ t \in Below(s) /\ t \in fresh BY <2>2, <2>5
    <3>2. Needs(t) \subseteq DepsOf(t) BY <2>1, <2>6, <3>1, ReadsAreDeps DEF Needs
    <3>3. DepsOf(t) \subseteq Below(s) BY <2>1, <2>4, <3>1
    <3>4. QED BY <2>2, <2>5, <2>6, <3>1, <3>2, <3>3
  <2>7. Sealed(C) BY <2>2, <2>5, <2>6 DEF Sealed
  <2>8. s \in C /\ C \in SUBSET fresh BY <2>4, <2>5
  <2>9. QED BY <2>2, <2>7, <2>8
<1>2. QED BY <1>1, NoWorkInv, PTL
=============================================================================
