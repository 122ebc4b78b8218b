-------------------------------- MODULE App --------------------------------
(***************************************************************************)
(* The windows of one process: the session of App.Run (x/app/session.go)   *)
(* on the UI thread of thread.Run (x/driver/thread), with the driver check *)
(* that every window makes when it opens and that one of them makes for    *)
(* all (cachedCheck of x/driver/driver.go on x/singleton).                 *)
(*                                                                         *)
(* main is the goroutine of Loop, fn the one of runSession, and each       *)
(* window one more: it joins the session, checks its driver, is created on *)
(* the UI thread, and closes when its user or its context says so.         *)
(***************************************************************************)
EXTENDS Naturals, Sequences, FiniteSets

CONSTANTS
  Window,     \* the windows the process may open
  First,      \* the window of runSession; the others come from Open
  Hosts,      \* how the host driver of each window uses the UI thread
  JobCap,     \* capacity of the channel of jobs
  None        \* no window

HostKind == {"none", "Do", "Go"}

ASSUME AppAssumption ==
  /\ IsFiniteSet(Window) /\ First \in Window /\ None \notin Window
  /\ Hosts \subseteq [Window -> HostKind] /\ JobCap \in Nat \ {0}

VARIABLES
  uses,       \* per window: its host creates on no other thread, or with Do and closes with Do or Go
  main,       \* thread.Run: "loop", "wait" (for fn) or "returned"
  jobs,       \* the queue of the UI thread: the window each job is for, and what it does
  fn,         \* runSession: "start", "open", "select", "await", "returned"
  bound,      \* appWindows is this session
  n,          \* windows.n
  sCancel,    \* windows.cancel has been called
  sDone,      \* windows.done is closed
  parent,     \* the context given to Run has ended
  caller,     \* the windows whose own caller's context has ended
  win,        \* per window: its next step
  early,      \* the windows that joined before the count was back at 0
  first,      \* the window whose context the driver check runs with
  check,      \* the check's cached result: "none", "ok", "unfit" or "cancelled"
  failed      \* the windows that the check turned away

appVars  == <<uses, early>>
mainVars == <<main, jobs>>
sessVars == <<fn, bound, n, sCancel, sDone>>
ctxVars  == <<parent, caller>>
chkVars  == <<first, check, failed>>
vars == <<appVars, mainVars, sessVars, ctxVars, chkVars, win>>

Init ==
  /\ uses \in Hosts
  /\ main = "loop" /\ jobs = <<>>
  /\ fn = "start" /\ bound = FALSE /\ n = 0 /\ sCancel = FALSE /\ sDone = FALSE
  /\ parent = FALSE /\ caller = {}
  /\ win = [w \in Window |-> "idle"] /\ early = {}
  /\ first = None /\ check = "none" /\ failed = {}

\* The context thread.Run gives to fn: it also ends when fn has returned.
runCtx == parent \/ fn = "returned"
\* The session's context, and the one a window is opened with.
sessCtx == runCtx \/ sCancel
winCtx(w) == sessCtx \/ w \in caller

\* The last window has been counted out.
Ending == sDone \/ \E w \in Window : win[w] = "last"

Goto(w, p) == win' = [win EXCEPT ![w] = p]

-----------------------------------------------------------------------------
(* thread.Run and the queue of the UI thread *)

\* Mutant: the job runs and its Do is not told.
MutantDoNeverDone ==
  /\ main = "loop" /\ jobs # <<>>
  /\ jobs' = Tail(jobs)
  /\ UNCHANGED <<appVars, main, sessVars, ctxVars, chkVars, win>>

(***************************************************************************)
(* Loop takes a job and runs it: a Do goes on then.                        *)
(***************************************************************************)
serveJobs ==
  /\ main = "loop" /\ jobs # <<>>
  /\ jobs' = Tail(jobs)
  /\ win' = IF win[Head(jobs)] = "creating" THEN [win EXCEPT ![Head(jobs)] = "up"]
            ELSE IF win[Head(jobs)] = "closing" THEN [win EXCEPT ![Head(jobs)] = "remove"]
            ELSE win
  /\ UNCHANGED <<appVars, main, sessVars, ctxVars, chkVars>>

(***************************************************************************)
(* Loop returns once its context has ended, whatever is queued by then:    *)
(* the select may prefer the context, and a job may follow the last drain. *)
(***************************************************************************)
Loop ==
  /\ main = "loop" /\ runCtx
  /\ main' = "wait"
  /\ UNCHANGED <<appVars, jobs, sessVars, ctxVars, chkVars, win>>

\* Run returns what fn returned.
Run ==
  /\ main = "wait" /\ fn = "returned"
  /\ main' = "returned"
  /\ UNCHANGED <<appVars, jobs, sessVars, ctxVars, chkVars, win>>

\* A send to the channel of jobs, which blocks while it is full.
Enqueue(w) == Len(jobs) < JobCap /\ jobs' = Append(jobs, w)

-----------------------------------------------------------------------------
(* The session *)

(***************************************************************************)
(* runSession binds the session, and counts its window in a later step:    *)
(* an Open may have come and gone by then.                                 *)
(***************************************************************************)
bindSession ==
  /\ fn = "start"
  /\ fn' = "open" /\ bound' = TRUE
  /\ Goto(First, "add")
  /\ UNCHANGED <<appVars, mainVars, n, sCancel, sDone, ctxVars, chkVars>>

runSession ==
  /\ \/ fn = "open" /\ win[First] = "gone" /\ fn' = "select" /\ UNCHANGED <<bound, sCancel>>
     \/ fn = "select" /\ runCtx /\ fn' = "await" /\ sCancel' = TRUE /\ UNCHANGED bound
     \/ /\ fn \in {"select", "await"} /\ sDone
        /\ fn' = "returned" /\ bound' = FALSE /\ sCancel' = TRUE      \* unbind
  /\ UNCHANGED <<appVars, mainVars, n, sDone, ctxVars, chkVars, win>>

(***************************************************************************)
(* Open reads the current session, and joins it in a later step.           *)
(***************************************************************************)
Open(w) ==
  /\ w # First /\ win[w] = "idle" /\ bound
  /\ Goto(w, "add")
  /\ UNCHANGED <<appVars, mainVars, sessVars, ctxVars, chkVars>>

\* Mutant: open does not count its window.
MutantCountsFirst(w) ==
  /\ win[w] = "add"
  /\ n' = IF w = First THEN n + 1 ELSE n
  /\ early' = IF Ending THEN early ELSE early \cup {w}
  /\ Goto(w, "check")
  /\ UNCHANGED <<uses, mainVars, fn, bound, sCancel, sDone, ctxVars, chkVars>>

\* runSession or open counts its window, whatever has become of the session since.
add(w) ==
  /\ win[w] = "add"
  /\ n' = n + 1
  /\ early' = IF Ending THEN early ELSE early \cup {w}
  /\ Goto(w, "check")
  /\ UNCHANGED <<uses, mainVars, fn, bound, sCancel, sDone, ctxVars, chkVars>>

(***************************************************************************)
(* remove under the lock, and its once after the lock.                     *)
(***************************************************************************)
remove(w) ==
  /\ win[w] = "remove"
  /\ n' = n - 1
  /\ Goto(w, IF n' = 0 THEN "last" ELSE "gone")
  /\ UNCHANGED <<appVars, mainVars, fn, bound, sCancel, sDone, ctxVars, chkVars>>

\* Mutant: the last window cancels and does not close done.
MutantCancelOnly(w) ==
  /\ win[w] = "last"
  /\ sCancel' = TRUE
  /\ Goto(w, "gone")
  /\ UNCHANGED <<appVars, mainVars, fn, bound, n, sDone, ctxVars, chkVars>>

lastClosed(w) ==
  /\ win[w] = "last"
  /\ sCancel' = TRUE /\ sDone' = TRUE
  /\ Goto(w, "gone")
  /\ UNCHANGED <<appVars, mainVars, fn, bound, n, ctxVars, chkVars>>

-----------------------------------------------------------------------------
(* The driver check *)

(***************************************************************************)
(* GetContext: a context that has ended is turned away, the first one that *)
(* has not is kept for the constructor.                                    *)
(***************************************************************************)
GetContext(w) ==
  /\ win[w] = "check"
  /\ \/ winCtx(w) /\ Goto(w, "remove") /\ UNCHANGED first
     \/ ~winCtx(w) /\ Goto(w, "checking") /\ first' = IF first = None THEN w ELSE first
  /\ UNCHANGED <<appVars, mainVars, sessVars, ctxVars, check, failed>>

\* Mutant: the check sees some other context.
MutantNoContext ==
  /\ first # None /\ check = "none"
  /\ check' \in {"ok", "unfit", "cancelled"}
  /\ UNCHANGED <<appVars, mainVars, sessVars, ctxVars, first, failed, win>>

(***************************************************************************)
(* The constructor runs once.  The check it runs may notice that the first *)
(* caller's context has ended.                                             *)
(***************************************************************************)
onceInit ==
  /\ first # None /\ check = "none"
  /\ check' \in {"ok", "unfit"} \cup (IF winCtx(first) THEN {"cancelled"} ELSE {})
  /\ UNCHANGED <<appVars, mainVars, sessVars, ctxVars, first, failed, win>>

(***************************************************************************)
(* The select of GetContext, then the driver's New.                        *)
(***************************************************************************)
checked(w) ==
  /\ win[w] = "checking"
  /\ \/ winCtx(w) /\ Goto(w, "remove") /\ UNCHANGED failed
     \/ check = "ok" /\ Goto(w, IF uses[w] = "none" THEN "up" ELSE "create") /\ UNCHANGED failed
     \/ check \in {"unfit", "cancelled"} /\ Goto(w, "remove") /\ failed' = failed \cup {w}
  /\ UNCHANGED <<appVars, mainVars, sessVars, ctxVars, first, check>>

-----------------------------------------------------------------------------
(* A window on its host *)

\* The host makes the window on the UI thread, and waits for it.
create(w) ==
  /\ win[w] = "create"
  /\ Enqueue(w) /\ Goto(w, "creating")
  /\ UNCHANGED <<appVars, main, sessVars, ctxVars, chkVars>>

\* The context of an open window ends: its loop or its select returns.
ctxClose(w) ==
  /\ win[w] = "up" /\ winCtx(w)
  /\ Goto(w, "close")
  /\ UNCHANGED <<appVars, mainVars, sessVars, ctxVars, chkVars>>

\* The deferred Close of the host, with or without the UI thread.
close(w) ==
  /\ win[w] = "close"
  /\ \/ uses[w] = "none" /\ Goto(w, "remove") /\ UNCHANGED jobs
     \/ uses[w] = "Do" /\ Enqueue(w) /\ Goto(w, "closing")
     \/ uses[w] = "Go" /\ Enqueue(w) /\ Goto(w, "remove")
  /\ UNCHANGED <<appVars, main, sessVars, ctxVars, chkVars>>

\* The user closes the window.
userClose(w) ==
  /\ win[w] = "up"
  /\ Goto(w, "close")
  /\ UNCHANGED <<appVars, mainVars, sessVars, ctxVars, chkVars>>

\* The context that the caller gave to Open ends.
cancelCaller(w) ==
  /\ w # First /\ win[w] \notin {"idle", "gone"} /\ w \notin caller
  /\ caller' = caller \cup {w}
  /\ UNCHANGED <<appVars, mainVars, sessVars, parent, chkVars, win>>

\* The context of Run ends.
cancelParent ==
  /\ ~parent
  /\ parent' = TRUE
  /\ UNCHANGED <<appVars, mainVars, sessVars, caller, chkVars, win>>

-----------------------------------------------------------------------------
\* What a window's goroutine does next.
winStep(w) ==
  \/ add(w) \/ remove(w) \/ lastClosed(w) \/ GetContext(w) \/ checked(w)
  \/ create(w) \/ ctxClose(w) \/ close(w)

Next ==
  \/ serveJobs \/ Loop \/ Run \/ bindSession \/ runSession \/ onceInit
  \/ \E w \in Window : winStep(w) \/ Open(w) \/ userClose(w) \/ cancelCaller(w)
  \/ cancelParent

Spec == Init /\ [][Next]_vars

(***************************************************************************)
(* Every goroutine that can go on does; users and callers need not.        *)
(***************************************************************************)
FairSpec ==
  /\ Spec
  /\ WF_vars(serveJobs) /\ WF_vars(Loop) /\ WF_vars(Run)
  /\ WF_vars(bindSession) /\ WF_vars(runSession) /\ WF_vars(onceInit)
  /\ \A w \in Window : WF_vars(winStep(w))

-----------------------------------------------------------------------------
(* Properties *)

\* The steps of a window that the session counts.
Opening == {"check", "checking", "create", "creating", "up", "close", "closing", "remove"}

(***************************************************************************)
(* Closing one window leaves the others up: as long as a window that       *)
(* joined in time is open and nobody cancelled the context of Run, the     *)
(* session stays bound and its context alive, so that runSession waits.    *)
(***************************************************************************)
SessionHoldsWindows ==
  ~parent /\ (\E w \in early : win[w] \in Opening) => bound /\ ~sDone /\ ~sCancel

(***************************************************************************)
(* The driver check that one window makes for all is spoilt by a           *)
(* cancellation only if the caller of that window cancelled it, or the app *)
(* was cancelled, or the window joined a session that was ending.          *)
(***************************************************************************)
SpoiltOnlyByFirst ==
  check = "cancelled" /\ ~parent /\ first \in early => first \in caller

Waiting(w) == win[w] \in {"create", "creating", "close", "closing"} /\ uses[w] # "none"

(***************************************************************************)
(* Whatever a window is doing when its context ends, its Open returns,     *)
(* unless Loop has gone and the window waits for the UI thread.            *)
(***************************************************************************)
ContextClosesWindow ==
  \A w \in Window :
     (winCtx(w) /\ win[w] # "idle") ~> (win[w] = "gone" \/ (main # "loop" /\ Waiting(w)))

(***************************************************************************)
(* Run returns after its last window has closed, and after its context has *)
(* ended, unless that has ended Loop under a window that waits for the UI  *)
(* thread.                                                                 *)
(***************************************************************************)
Stranded == parent /\ main = "wait" /\ \E w \in Window : Waiting(w)

RunReturns == (sDone \/ parent \/ (fn = "select" /\ n = 0)) ~> (main = "returned" \/ Stranded)
=============================================================================
