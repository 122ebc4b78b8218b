--------------------------- MODULE WorkflowClosure ---------------------------
(***************************************************************************)
(* Graph.closure of x/workflow/workflow.go: the depth-first walk from the  *)
(* targets that gives Run the order in which schedule calls taskgroup.Go.  *)
(* The recursion is a stack of frames, one action per call, turn of the    *)
(* loop over the dependencies, and return.                                 *)
(***************************************************************************)
EXTENDS Naturals, Sequences, FiniteSets

CONSTANTS
    Names,    \* step names and alias names
    Empty,    \* the empty step name, and no alias
    Graphs    \* the graphs of the instance

ASSUME NamesAssumption == Empty \notin Names /\ IsFiniteSet(Names)

\* A graph as the frontends hand it to Run, with the targets Run is called with.
\* deps is indexed by name; alias maps a name that is not an alias to Empty.
ASSUME GraphsAssumption ==
    \A h \in Graphs :
        /\ h.steps \in Seq(Names \cup {Empty}) /\ h.deps \in [Names -> Seq(Names)]
        /\ h.alias \in [Names -> Names \cup {Empty}]
        /\ h.defaults \in Seq(Names) /\ h.asked \subseteq Seq(Names)

VARIABLES
    g,        \* the graph
    targets,  \* the targets of the call
    pc,       \* "index", "walk", then "done" or "fail"
    err,      \* the error closure returns
    byName,   \* the steps by name
    at,       \* the index of the target that is walked next
    stack,    \* the calls of walk: the step and the index of its next dependency
    mark,     \* state: 0 unseen, 1 on the stack, 2 in order
    order     \* the steps, dependencies first

locals == <<err, byName, at, stack, mark, order>>
closureVars == <<g, targets, pc, locals>>

Targets == IF targets = <<>> THEN g.defaults ELSE targets

Elems(s) == {s[i] : i \in 1..Len(s)}

-----------------------------------------------------------------------------
(* resolveAlias *)

\* Where an alias leads: nowhere from a step, and from a name that is not one.
Hop(name) == IF name \in byName \/ g.alias[name] = Empty THEN name ELSE g.alias[name]

\* Where aliases lead from a name, as far as they go without coming back.
Chain(name) ==
    LET to[k \in 0..Cardinality(Names)] == IF k = 0 THEN name ELSE Hop(to[k - 1])
    IN  to[Cardinality(Names)]

\* The step that a name stands for; a walk that comes back to a name is a cycle.
resolveAlias(name) ==
    LET end == Chain(name)
    IN  IF end \in byName THEN [step |-> end, err |-> "none"]
        ELSE [step |-> end, err |-> IF g.alias[end] = Empty THEN "unknown" ELSE "cycle"]

-----------------------------------------------------------------------------
(* closure *)

Fail(e) == pc' = "fail" /\ err' = e

\* The map byName; the first step with no name or with a name already taken ends
\* it.
index ==
    LET n == Len(g.steps)
        bad == {i \in 1..n : g.steps[i] = Empty \/ \E j \in 1..(i - 1) : g.steps[j] = g.steps[i]}
        first == CHOOSE i \in bad : \A j \in bad : i <= j
    IN  /\ pc = "index"
        /\ byName' = Elems(g.steps)
        /\ IF bad # {} THEN Fail(IF g.steps[first] = Empty THEN "empty" ELSE "duplicate")
           ELSE IF Targets = <<>> THEN Fail("no target")
           ELSE pc' = "walk" /\ UNCHANGED err
        /\ UNCHANGED <<g, targets, at, stack, mark, order>>

\* Mutant: a step on the stack is taken for one that is in the order.
enterGrey(name, callers) ==
    LET r == resolveAlias(name)
    IN  IF r.err # "none" THEN Fail(r.err) /\ UNCHANGED <<stack, mark>>
        ELSE IF mark[r.step] # 0 THEN stack' = callers /\ UNCHANGED <<pc, err, mark>>
        ELSE /\ mark' = [mark EXCEPT ![r.step] = 1]
             /\ stack' = Append(callers, [step |-> r.step, dep |-> 1])
             /\ UNCHANGED <<pc, err>>

\* The call walk(name), up to its loop.
enter(name, callers) ==
    LET r == resolveAlias(name)
    IN  IF r.err # "none" THEN Fail(r.err) /\ UNCHANGED <<stack, mark>>
        ELSE IF mark[r.step] = 2 THEN stack' = callers /\ UNCHANGED <<pc, err, mark>>
        ELSE IF mark[r.step] = 1 THEN Fail("cycle") /\ UNCHANGED <<stack, mark>>
        ELSE /\ mark' = [mark EXCEPT ![r.step] = 1]
             /\ stack' = Append(callers, [step |-> r.step, dep |-> 1])
             /\ UNCHANGED <<pc, err>>

\* The loop over the targets.
walkTarget ==
    /\ pc = "walk" /\ stack = <<>> /\ at <= Len(Targets)
    /\ enter(Targets[at], <<>>)
    /\ at' = at + 1
    /\ UNCHANGED <<g, targets, byName, order>>

Top == stack[Len(stack)]

\* Mutant: the loop does not move on.
walkDepStuck ==
    /\ pc = "walk" /\ stack # <<>> /\ Top.dep <= Len(g.deps[Top.step])
    /\ enter(g.deps[Top.step][Top.dep], stack)
    /\ UNCHANGED <<g, targets, byName, at, order>>

\* The loop over the dependencies of the step on top.
walkDep ==
    /\ pc = "walk" /\ stack # <<>> /\ Top.dep <= Len(g.deps[Top.step])
    /\ enter(g.deps[Top.step][Top.dep], [stack EXCEPT ![Len(stack)].dep = @ + 1])
    /\ UNCHANGED <<g, targets, byName, at, order>>

\* Mutant: a step goes before what it depends on.
walkReturnFirst ==
    /\ pc = "walk" /\ stack # <<>> /\ Top.dep > Len(g.deps[Top.step])
    /\ mark' = [mark EXCEPT ![Top.step] = 2]
    /\ order' = <<Top.step>> \o order
    /\ stack' = SubSeq(stack, 1, Len(stack) - 1)
    /\ UNCHANGED <<g, targets, pc, err, byName, at>>

\* walk returns: the step is in the order.
walkReturn ==
    /\ pc = "walk" /\ stack # <<>> /\ Top.dep > Len(g.deps[Top.step])
    /\ mark' = [mark EXCEPT ![Top.step] = 2]
    /\ order' = Append(order, Top.step)
    /\ stack' = SubSeq(stack, 1, Len(stack) - 1)
    /\ UNCHANGED <<g, targets, pc, err, byName, at>>

closureReturn ==
    /\ pc = "walk" /\ stack = <<>> /\ at > Len(Targets)
    /\ pc' = "done"
    /\ UNCHANGED <<g, targets, locals>>

\* A call of closure: its locals are new.
closureCall(ts) ==
    /\ pc' = "index" /\ targets' = ts
    /\ err' = "none" /\ byName' = {} /\ at' = 1
    /\ stack' = <<>> /\ order' = <<>>
    /\ mark' = [n \in Names |-> 0]
    /\ UNCHANGED g

closure == index \/ walkTarget \/ walkDep \/ walkReturn \/ closureReturn

-----------------------------------------------------------------------------
(* Properties *)

\* schedule finds the task of every dependency of a step among the steps before
\* it and never returns ErrUnknownStep, and it calls Go once per step.
OrderIsSchedulable ==
    /\ \A i, j \in 1..Len(order) : order[i] = order[j] => i = j
    /\ \A i \in 1..Len(order) : \A d \in Elems(g.deps[order[i]]) :
          \E j \in 1..(i - 1) : order[j] = resolveAlias(d).step

\* What the walk visits: the steps of the targets and of their dependencies.
DepsOf(s) == {resolveAlias(d).step : d \in Elems(g.deps[s])}

\* A set of steps with their dependencies.
Deeper(low) == low \cup UNION {DepsOf(t) : t \in low \cap byName}

Below(s) ==
    LET up[k \in 0..Cardinality(Names)] == IF k = 0 THEN {s} ELSE Deeper(up[k - 1])
    IN  up[Cardinality(Names)]

Visited == UNION {Below(resolveAlias(t).step) : t \in Elems(Targets)}

\* A name in use that no step answers to, or a step below itself.
Broken ==
    \/ \E s \in Visited : s \notin byName
    \/ \E s \in Visited : \E d \in DepsOf(s) : s \in Below(d)

\* closure succeeds exactly on the graphs whose part below the targets is
\* complete and acyclic, and then its order is that part.
OrderIsClosure ==
    /\ pc = "done" => ~Broken /\ Elems(order) = Visited
    /\ pc = "fail" /\ err \in {"unknown", "cycle"} => Broken

\* closure returns, on cyclic graphs too.
ClosureReturns == pc \in {"index", "walk"} ~> pc \in {"done", "fail"}
=============================================================================
