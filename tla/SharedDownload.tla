---------------------------- MODULE SharedDownload ----------------------------
(***************************************************************************)
(* DownloadFile of x/tool/materialize.go: callers of one URL and hash      *)
(* share a fetch (a downloadCall, here a flight) and copy its file each to *)
(* a destination of their own.  The last one to leave cancels the flight   *)
(* and a goroutine removes its directory.                                  *)
(*                                                                         *)
(* One key: flights of different keys share nothing but the mutex.         *)
(***************************************************************************)
EXTENDS Naturals, FiniteSets

CONSTANTS
    Callers,     \* goroutines that call DownloadFile, any number of times
    MaxFlights   \* bound: the fetches a run may start

ASSUME CallersAssumption == IsFiniteSet(Callers)
ASSUME MaxFlightsAssumption == MaxFlights \in Nat \ {0}

Flight == 1..MaxFlights

VARIABLES
    started,     \* the flights created so far
    current,     \* downloads[key], 0 if there is none
    refs,        \* downloadCall.refs
    cancelled,   \* the flights whose context is cancelled
    fetch,       \* of a flight: "none", "fetching", then the outcome: "ok", "failed"
                 \* or "stopped" by its context; done is closed with the outcome
    dir,         \* of a flight: its temporary directory
    cleaning,    \* the flights whose cleaner goroutine runs
    pc, call,    \* of a caller: where it is, and its flight
    ctxDone,     \* the callers whose own context is done
    result       \* what the last call of a caller returned

flightVars == <<started, current, refs, cancelled, fetch, dir, cleaning>>
vars == <<started, current, refs, cancelled, fetch, dir, cleaning, pc, call,
          ctxDone, result>>

Init ==
    /\ started = 0 /\ current = 0 /\ cancelled = {} /\ cleaning = {}
    /\ refs = [f \in Flight |-> 0]
    /\ fetch = [f \in Flight |-> "none"]
    /\ dir = [f \in Flight |-> "none"]
    /\ pc = [c \in Callers |-> "out"]
    /\ call = [c \in Callers |-> 0]
    /\ ctxDone = {}
    /\ result = [c \in Callers |-> "none"]

Goto(c, l) == pc' = [pc EXCEPT ![c] = l]

\* close(call.done) has happened.
Landed(f) == fetch[f] \in {"ok", "failed", "stopped"}

-----------------------------------------------------------------------------
(* The callers *)

\* joinDownload finds a flight.
joinFollow(c) ==
    /\ pc[c] = "out" /\ current # 0
    /\ refs' = [refs EXCEPT ![current] = @ + 1]
    /\ call' = [call EXCEPT ![c] = current]
    /\ Goto(c, "select")
    /\ UNCHANGED <<started, current, cancelled, fetch, dir, cleaning, ctxDone, result>>

\* joinDownload makes a flight, and the leader starts the fetch.
joinLead(c) ==
    /\ pc[c] = "out" /\ current = 0 /\ started < MaxFlights
    /\ started' = started + 1 /\ current' = started + 1
    /\ refs' = [refs EXCEPT ![started + 1] = 1]
    /\ fetch' = [fetch EXCEPT ![started + 1] = "fetching"]
    /\ call' = [call EXCEPT ![c] = started + 1]
    /\ Goto(c, "select")
    /\ UNCHANGED <<cancelled, dir, cleaning, ctxDone, result>>

\* Mutant: the context is looked at when the flight has landed.
giveUpLanded(c) ==
    /\ pc[c] = "select" /\ c \in ctxDone /\ Landed(call[c])
    /\ result' = [result EXCEPT ![c] = "ctx"]
    /\ Goto(c, "leave")
    /\ UNCHANGED <<flightVars, call, ctxDone>>

\* The select takes ctx.Done, even if the flight has landed.
giveUp(c) ==
    /\ pc[c] = "select" /\ c \in ctxDone
    /\ result' = [result EXCEPT ![c] = "ctx"]
    /\ Goto(c, "leave")
    /\ UNCHANGED <<flightVars, call, ctxDone>>

\* The select takes call.done: a failure is returned, a file is copied first.
land(c) ==
    /\ pc[c] = "select" /\ Landed(call[c])
    /\ result' = [result EXCEPT ![c] = fetch[call[c]]]
    /\ Goto(c, IF fetch[call[c]] = "ok" THEN "publish" ELSE "leave")
    /\ UNCHANGED <<flightVars, call, ctxDone>>

\* publishFile: the copy is in place, or the destination cannot be written.
publishFile(c) ==
    /\ pc[c] = "publish"
    /\ \E r \in {"ok", "unwritable"} : result' = [result EXCEPT ![c] = r]
    /\ Goto(c, "leave")
    /\ UNCHANGED <<flightVars, call, ctxDone>>

\* Mutants: the call stays in the map; the first to leave acts for all.
leaveDownloadKeeps(c) ==
    /\ pc[c] = "leave"
    /\ refs' = [refs EXCEPT ![call[c]] = @ - 1]
    /\ UNCHANGED current
    /\ Goto(c, IF refs[call[c]] = 1 THEN "last" ELSE "back")
    /\ UNCHANGED <<started, cancelled, fetch, dir, cleaning, call, ctxDone, result>>

leaveDownloadFirst(c) ==
    /\ pc[c] = "leave"
    /\ refs' = [refs EXCEPT ![call[c]] = @ - 1]
    /\ current' = 0
    /\ Goto(c, "last")
    /\ UNCHANGED <<started, cancelled, fetch, dir, cleaning, call, ctxDone, result>>

\* leaveDownload, with the mutex: the last caller takes the flight off the map.
leaveDownload(c) ==
    /\ pc[c] = "leave"
    /\ refs' = [refs EXCEPT ![call[c]] = @ - 1]
    /\ current' = IF refs[call[c]] = 1 THEN 0 ELSE current
    /\ Goto(c, IF refs[call[c]] = 1 THEN "last" ELSE "back")
    /\ UNCHANGED <<started, cancelled, fetch, dir, cleaning, call, ctxDone, result>>

\* leaveDownload, after the mutex: the last caller cancels the flight and
\* starts the cleaner.
leaveLast(c) ==
    /\ pc[c] = "last"
    /\ cancelled' = cancelled \cup {call[c]}
    /\ cleaning' = cleaning \cup {call[c]}
    /\ Goto(c, "back")
    /\ UNCHANGED <<started, current, refs, fetch, dir, call, ctxDone, result>>

\* DownloadFile returns; the caller may call it again, with a new context.
return(c) ==
    /\ pc[c] = "back"
    /\ Goto(c, "out")
    /\ call' = [call EXCEPT ![c] = 0]
    /\ ctxDone' = ctxDone \ {c}
    /\ result' = [result EXCEPT ![c] = "none"]
    /\ UNCHANGED flightVars

\* The context of a caller ends.
callerCancel(c) ==
    /\ pc[c] # "out" /\ c \notin ctxDone
    /\ ctxDone' = ctxDone \cup {c}
    /\ UNCHANGED <<flightVars, pc, call, result>>

-----------------------------------------------------------------------------
(* The fetch and the cleaner *)

\* fetchShared: the directory.
fetchDir(f) ==
    /\ fetch[f] = "fetching" /\ dir[f] = "none"
    /\ dir' = [dir EXCEPT ![f] = "there"]
    /\ UNCHANGED <<started, current, refs, cancelled, fetch, cleaning, pc, call, ctxDone, result>>

\* fetchShared has the file.
fetchOk(f) ==
    /\ fetch[f] = "fetching" /\ dir[f] = "there"
    /\ fetch' = [fetch EXCEPT ![f] = "ok"]
    /\ UNCHANGED <<started, current, refs, cancelled, dir, cleaning, pc, call, ctxDone, result>>

\* fetchShared fails, with or without a directory, and removes it: on its own
\* account, or because its context is cancelled.
fetchFails(f) ==
    /\ fetch[f] = "fetching"
    /\ \/ fetch' = [fetch EXCEPT ![f] = "failed"]
       \/ f \in cancelled /\ dir[f] = "there" /\ fetch' = [fetch EXCEPT ![f] = "stopped"]
    /\ dir' = [dir EXCEPT ![f] = IF @ = "there" THEN "removed" ELSE @]
    /\ UNCHANGED <<started, current, refs, cancelled, cleaning, pc, call, ctxDone, result>>

\* Mutant: the cleaner does not wait for the fetch.
cleanEarly(f) ==
    /\ f \in cleaning
    /\ cleaning' = cleaning \ {f}
    /\ dir' = [dir EXCEPT ![f] = IF @ = "there" THEN "removed" ELSE @]
    /\ UNCHANGED <<started, current, refs, cancelled, fetch, pc, call, ctxDone, result>>

\* The goroutine of leaveDownload, once done is closed.
clean(f) ==
    /\ f \in cleaning /\ Landed(f)
    /\ cleaning' = cleaning \ {f}
    /\ dir' = [dir EXCEPT ![f] = IF @ = "there" THEN "removed" ELSE @]
    /\ UNCHANGED <<started, current, refs, cancelled, fetch, pc, call, ctxDone, result>>

CallerStep(c) ==
    \/ giveUp(c) \/ land(c) \/ publishFile(c) \/ leaveDownload(c) \/ leaveLast(c)

FetchStep(f) == fetchDir(f) \/ fetchOk(f) \/ fetchFails(f)

Next ==
    \/ \E c \in Callers : joinFollow(c) \/ joinLead(c) \/ CallerStep(c)
                          \/ return(c) \/ callerCancel(c)
    \/ \E f \in Flight : FetchStep(f) \/ clean(f)

Spec == Init /\ [][Next]_vars

\* Goroutines are scheduled.  A fetch has to end only once its context is
\* cancelled: no timeout makes a server answer.
Fairness ==
    /\ \A c \in Callers : WF_vars(CallerStep(c))
    /\ \A f \in Flight : WF_vars(f \in cancelled /\ FetchStep(f)) /\ WF_vars(clean(f))

FairSpec == Spec /\ Fairness

-----------------------------------------------------------------------------
(* Properties *)

\* The callers that have not left a flight.
Aboard(f) == {c \in Callers : call[c] = f /\ pc[c] \in {"select", "publish", "leave"}}

\* The variables have their types.
TypeOK ==
    /\ started \in 0..MaxFlights /\ current \in 0..MaxFlights
    /\ refs \in [Flight -> Nat]
    /\ cancelled \subseteq Flight /\ cleaning \subseteq Flight
    /\ fetch \in [Flight -> {"none", "fetching", "ok", "failed", "stopped"}]
    /\ dir \in [Flight -> {"none", "there", "removed"}]
    /\ pc \in [Callers -> {"out", "select", "publish", "leave", "last", "back"}]
    /\ call \in [Callers -> 0..MaxFlights]
    /\ ctxDone \subseteq Callers
    /\ result \in [Callers -> {"none", "ok", "failed", "stopped", "ctx", "unwritable"}]

\* refs counts the callers that have not left, and the map holds a flight
\* exactly as long as there are any: delete never takes a later flight of the
\* same key off the map.
RefsCountAboard ==
    \A f \in Flight : /\ refs[f] = Cardinality(Aboard(f))
                      /\ current = f <=> Aboard(f) # {}

\* The shared file is there while a caller copies it, whoever leaves meanwhile.
FileThereForCopy == \A c \in Callers : pc[c] = "publish" => dir[call[c]] = "there"

\* No caller gets the cancellation of a flight that others gave up: a caller
\* whose own context lives sees a failure of the fetch only.
NoForeignCancel == \A c \in Callers : result[c] # "stopped"

\* A flight that everybody has left leaves no directory behind.
LeftoversGo == \A f \in Flight : (refs[f] = 0 /\ dir[f] = "there") ~> dir[f] # "there"

\* A caller whose context is done returns, however long the fetch takes.
CancelledCallerReturns ==
    \A c \in Callers : (pc[c] = "select" /\ c \in ctxDone) ~> pc[c] = "back"

-----------------------------------------------------------------------------
(* The inductive invariant that the proofs in SharedDownloadProofs rest on *)

\* A flight is cancelled and cleaned only when nobody is aboard, and keeps its
\* directory until then.
FlightInv ==
    \A f \in Flight :
        /\ f > started => Aboard(f) = {} /\ f \notin cancelled \cup cleaning
        /\ f \in cancelled \cup cleaning => Aboard(f) = {}
        /\ fetch[f] = "stopped" => f \in cancelled
        /\ fetch[f] = "ok" /\ Aboard(f) # {} => dir[f] = "there"

\* A caller in DownloadFile has a flight; the last one has left it to nobody.
CallerInv ==
    \A c \in Callers :
        /\ pc[c] # "out" => call[c] \in 1..started
        /\ pc[c] = "last" => Aboard(call[c]) = {}
        /\ pc[c] = "publish" => fetch[call[c]] = "ok"

IInv == TypeOK /\ RefsCountAboard /\ FlightInv /\ CallerInv /\ NoForeignCancel
===============================================================================
