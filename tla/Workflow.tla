------------------------------ MODULE Workflow ------------------------------
(***************************************************************************)
(* Runs of a workflow graph (x/workflow: Run, schedule, runStep, stale):   *)
(* which steps a Run executes and which it skips, over several runs, with  *)
(* edits of the sources, failures and cancels in between.  A Run gets its  *)
(* steps and their order from WorkflowClosure, which this module extends;  *)
(* TaskGroup starts a step only when its dependencies are done.            *)
(*                                                                         *)
(* Time is the file system's: every write gets a later modification time   *)
(* than the writes before it.                                              *)
(***************************************************************************)
EXTENDS WorkflowClosure

\* The steps of a graph, and every file that it names.
StepsOf(h) == Elems(h.steps) \cap Names
FilesOf(h) == h.sources \cup UNION {h.inputs[s] \cup h.outputs[s] : s \in StepsOf(h)}

\* inputs and outputs are Step.Inputs and Step.Outputs by name, phony the steps
\* with Step.Phony, idle the ones with no Tasks, sources the files that are there
\* and that no task writes, built the steps whose outputs are there at first, made
\* from the sources as they are (the makefile of a graph that has a rule for it).
\* The name of a phony step may be an input and is no file.  No file is an output
\* of two steps: ninja refuses it, and make's steps write their target.  runs and
\* edits bound the calls of Run and the edits.
ASSUME FilesAssumption ==
    \A h \in Graphs :
        /\ h.phony \subseteq Names /\ h.idle \subseteq Names
        /\ h.runs \in Nat /\ h.edits \in Nat
        /\ h.built \subseteq StepsOf(h) \ h.idle
        /\ \A s \in h.built :
              h.inputs[s] \subseteq h.sources \cup UNION {h.outputs[d] : d \in h.built}
        /\ \A s \in StepsOf(h) \ h.idle : h.outputs[s] \cap h.sources = {}
        /\ \A s, d \in StepsOf(h) : s # d => h.outputs[s] \cap h.outputs[d] = {}

Outputs(s) == g.outputs[s]
Inputs(s)  == g.inputs[s]

\* The other steps whose outputs a step reads; one with no tasks writes nothing.
Reads(s) == {d \in StepsOf(g) \ (g.idle \cup {s}) : Outputs(d) \cap Inputs(s) # {}}

\* The step depends on every step that it reads, by name or by an alias.  The
\* frontends do not see to it: make's steps read the makefile and do not depend on
\* a step that makes it, and ninja compares paths as they are spelt.
Declared(s) ==
    \A d \in Reads(s) : \E n \in Elems(g.deps[s]) :
        n = d \/ (n \notin StepsOf(g) /\ g.alias[n] = d)

VARIABLES
    mtime,      \* modification time of a file, 0 if there is none
    now,        \* the time of the last write
    st,         \* of a step: "idle" outside a Run, "pending", "running", "skipped",
                \* "done", "failed"
    rebuilt,    \* runtime.rebuilt of the Run
    written,    \* the outputs the running tasks of a step have written
    runs, edits,
    raced,      \* history: running steps one of whose inputs was edited or written
    quiet,      \* history: no source was edited since the Run began
    fresh,      \* history: the steps of Runs that succeeded, since the last edit
                \* and the last failure
    truth       \* history: "current" outputs are made from the sources as they
                \* are; "behind" ones are not; "bad" ones were left by a failure or
                \* made from files that changed under the step

history == <<raced, quiet, fresh, truth>>
runVars == <<mtime, now, st, rebuilt, written, runs, edits, history>>
vars == <<closureVars, runVars>>

-----------------------------------------------------------------------------
(* stale *)

\* A step that has tasks and runs every time.
Always(s) == (s \in g.phony \/ Outputs(s) = {}) /\ s \notin g.idle

\* Mutant: the newest output counts.
staleNewest(s) ==
    \/ Always(s)
    \/ /\ s \notin g.phony /\ Outputs(s) # {}
       /\ \/ Elems(g.deps[s]) \cap rebuilt # {}
          \/ \E o \in Outputs(s) : mtime[o] = 0
          \/ \E i \in Inputs(s) : mtime[i] = 0 \/ \A o \in Outputs(s) : mtime[i] > mtime[o]

\* Dependencies are asked for by the names that the step gives them.
stale(s) ==
    \/ Always(s)
    \/ /\ s \notin g.phony /\ Outputs(s) # {}
       /\ \/ Elems(g.deps[s]) \cap rebuilt # {}
          \/ \E o \in Outputs(s) : mtime[o] = 0
          \/ \E i \in Inputs(s) : mtime[i] = 0 \/ \E o \in Outputs(s) : mtime[i] > mtime[o]

-----------------------------------------------------------------------------
(* Run *)

Failed == \E s \in Names : st[s] = "failed"

\* Run is called; closure comes first.
Run(ts) ==
    /\ pc = "idle" /\ runs < g.runs
    /\ closureCall(ts)
    /\ runs' = runs + 1
    /\ quiet' = TRUE
    /\ UNCHANGED <<mtime, now, st, rebuilt, written, edits, raced, fresh, truth>>

\* schedule calls Go for every step of the order.  A step may start before the
\* later ones are scheduled: it is one that starts before them.
schedule ==
    /\ pc = "done" /\ pc' = "run"
    /\ st' = [s \in Names |-> IF s \in Elems(order) THEN "pending" ELSE "idle"]
    /\ rebuilt' = {} /\ written' = [s \in Names |-> {}] /\ raced' = {}
    /\ UNCHANGED <<g, targets, locals, mtime, now, runs, edits, quiet, fresh, truth>>

\* The task of a step starts when its dependencies are done, and in a session
\* without a failure.
Ready(s) ==
    /\ st[s] = "pending" /\ ~Failed
    /\ \A d \in DepsOf(s) : st[d] \in {"skipped", "done"}

\* Mutant: a step that is up to date is marked as well.
skipMarks(s) ==
    /\ Ready(s) /\ ~stale(s)
    /\ st' = [st EXCEPT ![s] = "skipped"]
    /\ rebuilt' = rebuilt \cup {s}
    /\ UNCHANGED <<closureVars, mtime, now, written, runs, edits, history>>

\* runStep: up to date.
skip(s) ==
    /\ Ready(s) /\ ~stale(s)
    /\ st' = [st EXCEPT ![s] = "skipped"]
    /\ UNCHANGED <<closureVars, mtime, now, rebuilt, written, runs, edits, history>>

\* runStep: out of date and nothing to do.
idle(s) ==
    /\ Ready(s) /\ stale(s) /\ s \in g.idle
    /\ st' = [st EXCEPT ![s] = "done"]
    /\ UNCHANGED <<closureVars, mtime, now, rebuilt, written, runs, edits, history>>

\* runStep: the tasks start.
start(s) ==
    /\ Ready(s) /\ stale(s) /\ s \notin g.idle
    /\ st' = [st EXCEPT ![s] = "running"]
    /\ UNCHANGED <<closureVars, mtime, now, rebuilt, written, runs, edits, history>>

\* The running steps that read x, which changes.
Disturbed(x) == {s \in StepsOf(g) : x \in Inputs(s) /\ st[s] = "running"}

\* A task writes an output.
write(s) ==
    /\ st[s] = "running"
    /\ \E o \in Outputs(s) \ written[s] :
          /\ mtime' = [mtime EXCEPT ![o] = now + 1]
          /\ written' = [written EXCEPT ![s] = @ \cup {o}]
          /\ raced' = raced \cup (Disturbed(o) \ {s})
    /\ now' = now + 1
    /\ UNCHANGED <<closureVars, st, rebuilt, runs, edits, quiet, fresh, truth>>

\* What the outputs of s are worth when its tasks succeed.
Made(s) ==
    IF s \in raced \/ \E d \in Reads(s) : truth[d] = "bad" THEN "bad"
    ELSE IF \E d \in Reads(s) : truth[d] = "behind" THEN "behind"
    ELSE "current"

\* The last task succeeds: mark.  The tasks are the user's commands: tasks that
\* succeed are taken to have written every output the step declares.
finish(s) ==
    /\ st[s] = "running" /\ written[s] = Outputs(s)
    /\ st' = [st EXCEPT ![s] = "done"]
    /\ rebuilt' = rebuilt \cup {s}
    /\ truth' = [truth EXCEPT ![s] = Made(s)]
    /\ UNCHANGED <<closureVars, mtime, now, written, runs, edits, raced, quiet, fresh>>

\* A task fails, or its context ends; what it wrote stays.
fail(s) ==
    /\ st[s] = "running"
    /\ st' = [st EXCEPT ![s] = "failed"]
    /\ truth' = [truth EXCEPT ![s] = IF written[s] = {} THEN @ ELSE "bad"]
    /\ UNCHANGED <<closureVars, mtime, now, rebuilt, written, runs, edits, raced, quiet, fresh>>

\* Everything that was started has finished.
Over ==
    /\ pc = "run"
    /\ \A s \in Names : st[s] # "running"
    /\ Failed \/ \A s \in Names : st[s] # "pending"

\* Run returns: the error of closure, or with every step over.
return ==
    /\ pc = "fail" \/ Over
    /\ pc' = "idle"
    /\ st' = [s \in Names |-> "idle"]
    /\ fresh' = IF pc = "fail" THEN fresh
                ELSE IF Failed THEN {}
                ELSE IF quiet THEN fresh \cup Elems(order) ELSE fresh
    /\ UNCHANGED <<g, targets, locals, mtime, now, rebuilt, written, runs, edits,
                   raced, quiet, truth>>

\* The steps that read x, a set of steps with those that read their outputs, and
\* the steps whose outputs depend on x.
Readers(x) == {s \in StepsOf(g) : x \in Inputs(s)}

Wider(low) == low \cup {s \in StepsOf(g) : Reads(s) \cap low # {}}

Downstream(x) ==
    LET up[k \in 0..Cardinality(Names)] == IF k = 0 THEN Readers(x) ELSE Wider(up[k - 1])
    IN  up[Cardinality(Names)]

\* Somebody changes a source, at any time.
edit(x) ==
    /\ edits < g.edits /\ edits' = edits + 1
    /\ now' = now + 1 /\ mtime' = [mtime EXCEPT ![x] = now + 1]
    /\ raced' = raced \cup Disturbed(x)
    /\ truth' = [s \in Names |-> IF s \in Downstream(x) THEN "behind" ELSE truth[s]]
    /\ quiet' = FALSE /\ fresh' = {}
    /\ UNCHANGED <<closureVars, st, rebuilt, written, runs>>

Init ==
    /\ g \in Graphs /\ pc = "idle" /\ targets = <<>>
    /\ err = "none" /\ byName = {} /\ at = 1 /\ stack = <<>> /\ order = <<>>
    /\ mark = [n \in Names |-> 0]
    /\ mtime = [f \in FilesOf(g) |->
                   IF f \in g.sources \/ \E s \in g.built : f \in Outputs(s) THEN 1 ELSE 0]
    /\ now = 1
    /\ st = [s \in Names |-> "idle"]
    /\ rebuilt = {} /\ written = [s \in Names |-> {}]
    /\ runs = 0 /\ edits = 0 /\ raced = {} /\ quiet = TRUE /\ fresh = {}
    /\ truth = [s \in Names |-> IF s \in g.built THEN "current" ELSE "behind"]

closureStep == closure /\ UNCHANGED runVars

StepStep(s) == skip(s) \/ idle(s) \/ start(s) \/ write(s) \/ finish(s) \/ fail(s)

Next ==
    \/ \E ts \in g.asked : Run(ts)
    \/ closureStep \/ schedule \/ return
    \/ \E s \in Names : StepStep(s)
    \/ \E x \in g.sources : edit(x)

Spec == Init /\ [][Next]_vars

\* closure is sequential code: it runs until it returns.
FairSpec == Spec /\ WF_vars(closureStep)

-----------------------------------------------------------------------------
(* Properties *)

\* The steps that write files and need not run every time.
Builds(s) == Outputs(s) # {} /\ s \notin g.phony \cup g.idle

\* Every step that goes into the outputs of s, s included, declares what it reads.
Ordered(s) ==
    \E C \in SUBSET StepsOf(g) : s \in C /\ \A d \in C : Declared(d) /\ Reads(d) \subseteq C

\* A Run that succeeds leaves no output behind the sources, although it decides
\* by modification times and by what this Run executed, and whatever earlier
\* runs, of other targets too, left unfinished.  Left out are outputs that a
\* failed step wrote, outputs whose inputs changed while the step ran, and those
\* of steps that an undeclared read goes into: Run may execute such a step before
\* the step that it reads.
BuildIsTrue ==
    Over /\ ~Failed /\ quiet =>
        \A s \in Elems(order) : Builds(s) /\ Ordered(s) => truth[s] # "behind"

\* An input that is neither a source nor made by another step: the name of a
\* phony step, above all.  The only output of d counts as made, since it is as new
\* as itself: make's rule for the makefile has the makefile as an input.
Missing(d) ==
    {i \in Inputs(d) \ g.sources :
        Outputs(d) # {i} /\ \A e \in StepsOf(g) \ (g.idle \cup {d}) : i \notin Outputs(e)}

\* A Run executes no step of an earlier Run that succeeded, if nothing changed
\* since, but the ones that run every time, the ones that find an input missing
\* every time, the ones that read a step without declaring it, and what depends
\* on them.
NoWorkTwice ==
    pc = "run" =>
        \A s \in fresh :
            /\ Builds(s)
            /\ \A d \in Below(s) : ~Always(d) /\ (d \in g.idle \/ (Missing(d) = {} /\ Declared(d)))
            => st[s] \notin {"running", "done"}
=============================================================================
