----------------------------- MODULE AppProofs -----------------------------
(***************************************************************************)
(* Closing one window leaves the others up (SessionHoldsWindows), for any  *)
(* number of windows.  The session counts them right: windows.n is the     *)
(* number of windows between add and remove, so that it comes back to 0    *)
(* only when none of those that joined in time is left.  From this, that   *)
(* only the window the driver check runs for can spoil it by leaving       *)
(* (SpoiltOnlyByFirst).                                                    *)
(***************************************************************************)
EXTENDS App, FiniteSetTheorems, TLAPS

WinState == Opening \cup {"idle", "add", "last", "gone"}

Opened == {w \in Window : win[w] \in Opening}

Counts ==
  /\ win \in [Window -> WinState] /\ early \subseteq Window
  /\ n \in Nat /\ n = Cardinality(Opened)

(* Where runSession is tells the flags of the session. *)
Flags ==
  /\ fn \in {"start", "open", "select", "await", "returned"}
  /\ fn = "start" => ~sDone /\ ~bound /\ \A w \in Window : win[w] = "idle"
  /\ fn \in {"open", "select", "await"} => bound
  /\ fn = "returned" => sDone
  /\ sCancel => parent \/ sDone

InTime ==
  /\ \A w \in early : win[w] \notin {"idle", "add"}
  /\ Ending => \A w \in early : win[w] \notin Opening

AInv == Counts /\ Flags /\ InTime

(***************************************************************************)
(* There are finitely many open windows.                                   *)
(***************************************************************************)
LEMMA OpenedFinite == IsFiniteSet(Opened)
BY AppAssumption, FS_Subset DEF Opened

(***************************************************************************)
(* No window is counted before runSession binds the session.               *)
(***************************************************************************)
LEMMA InitAInv == Init => AInv
<1> SUFFICES ASSUME Init PROVE AInv OBVIOUS
<1>1. Opened = {} BY DEF Init, Opened, Opening
<1>2. Counts BY <1>1, FS_EmptySet DEF Init, Counts, WinState
<1>3. Flags /\ InTime BY DEF Init, Flags, InTime
<1>4. QED BY <1>2, <1>3 DEF AInv

(***************************************************************************)
(* A step of a window from one open state to another changes no count.     *)
(***************************************************************************)
LEMMA OpenStep ==
  ASSUME AInv, NEW w \in Window, win[w] \in Opening, NEW p \in Opening, Goto(w, p),
         UNCHANGED <<early, sessVars, parent>>
  PROVE  AInv'
<1> USE DEF AInv, Goto, sessVars
<1>0. \A q \in Opening : q \notin {"idle", "add", "last", "gone"} BY DEF Opening
<1>1. Opened' = Opened BY DEF Opened, Counts
<1>2. Counts' BY <1>1 DEF Counts, WinState
<1>3. Flags'
  <2>1. fn # "start" BY <1>0 DEF Flags
  <2>2. QED BY <2>1 DEF Flags
<1>4. InTime'
  <2>1. Ending' = Ending BY <1>0 DEF Ending, Counts
  <2>2. QED BY <1>0, <2>1 DEF InTime, Counts
<1>5. QED BY <1>2, <1>3, <1>4

(***************************************************************************)
(* A step that moves no window and ends no session.                        *)
(***************************************************************************)
LEMMA QuietStep ==
  ASSUME AInv, UNCHANGED <<early, fn, bound, n, sDone, win>>,
         parent => parent', sCancel' => sCancel
  PROVE  AInv'
<1>1. Opened' = Opened /\ Ending' = Ending BY DEF Opened, Ending
<1>2. QED BY <1>1 DEF AInv, Counts, Flags, InTime

(***************************************************************************)
(* Counting a window in, and out.                                          *)
(***************************************************************************)
LEMMA CountIn ==
  ASSUME AInv, NEW w \in Window, win[w] \in {"idle", "add"}, n' = n + 1, Goto(w, "check")
  PROVE  win' \in [Window -> WinState] /\ n' \in Nat /\ n' = Cardinality(Opened')
<1>1. w \notin Opened /\ Opened' = Opened \cup {w} BY DEF AInv, Counts, Goto, Opened, Opening
<1>2. Cardinality(Opened') = Cardinality(Opened) + 1 BY <1>1, OpenedFinite, FS_AddElement
<1>3. QED BY <1>2 DEF AInv, Counts, Goto, WinState, Opening

LEMMA CountOut ==
  ASSUME AInv, NEW w \in Window, remove(w)
  PROVE  /\ win' \in [Window -> WinState] /\ n' \in Nat /\ n' = Cardinality(Opened')
         /\ n' = 0 => Opened' = {}
<1>1. w \in Opened /\ Opened' = Opened \ {w}
  BY DEF AInv, Counts, remove, Goto, Opened, Opening
<1>2. Cardinality(Opened') = Cardinality(Opened) - 1 /\ IsFiniteSet(Opened')
  BY <1>1, OpenedFinite, FS_RemoveElement
<1>3. Cardinality(Opened') \in Nat BY <1>2, FS_CardinalityType
<1>4. n' = Cardinality(Opened') BY <1>2 DEF AInv, Counts, remove
<1>5. n' = 0 => Opened' = {} BY <1>2, <1>4, FS_EmptySet
<1>6. win' \in [Window -> WinState] BY DEF AInv, Counts, remove, Goto, WinState
<1>7. QED BY <1>3, <1>4, <1>5, <1>6

(***************************************************************************)
(* A step of a window keeps the count right, and the session unended while *)
(* a window that joined in time is open.                                   *)
(***************************************************************************)
LEMMA WindowStep == ASSUME AInv, NEW w \in Window, winStep(w) PROVE AInv'
<1> USE DEF appVars, mainVars, sessVars, ctxVars, chkVars
<1>1. CASE add(w)
  <2>1. Counts' BY <1>1, CountIn DEF add, AInv, Counts
  <2>2. Flags' BY <1>1 DEF add, AInv, Flags, Goto
  <2>3. Ending' = Ending BY <1>1 DEF add, Goto, Ending, AInv, Counts
  <2>4. InTime'
    <3>1. \A v \in early' : win'[v] \notin {"idle", "add"}
      BY <1>1 DEF add, Goto, AInv, Counts, InTime
    <3>2. ASSUME Ending', NEW v \in early' PROVE win'[v] \notin Opening
      BY <1>1, <2>3, <3>2 DEF add, Goto, AInv, Counts, InTime
    <3>3. QED BY <3>1, <3>2 DEF InTime
  <2>5. QED BY <2>1, <2>2, <2>4 DEF AInv
<1>2. CASE remove(w)
  <2>1. Counts' BY <1>2, CountOut DEF remove, AInv, Counts
  <2>2. Flags' BY <1>2 DEF remove, AInv, Flags, Goto
  <2>3. \A v \in Window : win'[v] \in Opening => win[v] \in Opening
    BY <1>2 DEF remove, Goto, AInv, Counts, Opening
  <2>4. ASSUME n' # 0 PROVE Ending' => Ending
    BY <1>2, <2>4 DEF remove, Goto, Ending, AInv, Counts
  <2>5. ASSUME n' = 0 PROVE \A v \in Window : win'[v] \notin Opening
    BY <1>2, <2>5, CountOut DEF Opened
  <2>6. Ending' => \A v \in early' : win'[v] \notin Opening
    BY <1>2, <2>3, <2>4, <2>5 DEF remove, AInv, InTime, Counts
  <2>7. \A v \in early' : win'[v] \notin {"idle", "add"}
    BY <1>2 DEF remove, Goto, AInv, Counts, InTime
  <2>8. QED BY <2>1, <2>2, <2>6, <2>7 DEF AInv, InTime
<1>3. CASE lastClosed(w)
  <2>1. Opened' = Opened BY <1>3 DEF lastClosed, Goto, Opened, Opening, AInv, Counts
  <2>2. Counts' BY <1>3, <2>1 DEF lastClosed, Goto, AInv, Counts, WinState
  <2>3. Flags' BY <1>3 DEF lastClosed, AInv, Flags
  <2>4. Ending BY <1>3 DEF lastClosed, Ending
  <2>5. InTime' BY <1>3, <2>4 DEF lastClosed, Goto, AInv, Counts, InTime, Opening
  <2>6. QED BY <2>2, <2>3, <2>5 DEF AInv
<1>4. CASE GetContext(w) BY <1>4, OpenStep DEF GetContext, Opening
<1>5. CASE checked(w) BY <1>5, OpenStep DEF checked, Opening
<1>6. CASE create(w) BY <1>6, OpenStep DEF create, Opening
<1>7. CASE ctxClose(w) BY <1>7, OpenStep DEF ctxClose, Opening
<1>8. CASE close(w) BY <1>8, OpenStep DEF close, Opening
<1>9. QED BY <1>1, <1>2, <1>3, <1>4, <1>5, <1>6, <1>7, <1>8 DEF winStep

(***************************************************************************)
(* So does every other step: Loop and its jobs, runSession, Open, users    *)
(* and callers.                                                            *)
(***************************************************************************)
LEMMA AInvStep == ASSUME AInv, [Next]_vars PROVE AInv'
<1> USE DEF appVars, mainVars, sessVars, ctxVars, chkVars
<1>1. CASE serveJobs
  <2> DEFINE w == Head(jobs)
  <2>1. CASE w \in Window /\ win[w] = "creating"
    BY <1>1, <2>1, OpenStep DEF serveJobs, Goto, Opening
  <2>2. CASE w \in Window /\ win[w] = "closing"
    BY <1>1, <2>2, OpenStep DEF serveJobs, Goto, Opening
  <2>3. CASE win' = win BY <1>1, <2>3, QuietStep DEF serveJobs
  <2>4. CASE w \notin Window
    <3>1. win' = win BY <1>1, <2>4 DEF serveJobs, AInv, Counts
    <3>2. QED BY <2>3, <3>1
  <2>5. QED BY <1>1, <2>1, <2>2, <2>3, <2>4 DEF serveJobs
<1>2. CASE Loop \/ Run \/ onceInit BY <1>2, QuietStep DEF Loop, Run, onceInit
<1>3. CASE bindSession
  <2>1. First \in Window /\ win[First] = "idle" BY <1>3, AppAssumption DEF bindSession, AInv, Flags
  <2>2. Opened' = Opened BY <1>3, <2>1 DEF bindSession, Goto, Opened, Opening, AInv, Counts
  <2>3. Counts' BY <1>3, <2>2 DEF bindSession, Goto, AInv, Counts, WinState
  <2>4. Flags' BY <1>3 DEF bindSession, AInv, Flags
  <2>5. ~Ending' BY <1>3 DEF bindSession, Goto, Ending, AInv, Flags, Counts
  <2>6. InTime' BY <1>3, <2>1, <2>5 DEF bindSession, Goto, AInv, InTime, Counts
  <2>7. QED BY <2>3, <2>4, <2>6 DEF AInv
<1>4. CASE runSession
  <2>1. Opened' = Opened /\ Ending' = Ending BY <1>4 DEF runSession, Opened, Ending
  <2>2. Flags' BY <1>4 DEF runSession, runCtx, AInv, Flags
  <2>3. QED BY <1>4, <2>1, <2>2 DEF runSession, AInv, Counts, InTime
<1>5. ASSUME NEW w \in Window, Open(w) PROVE AInv'
  <2>1. Opened' = Opened BY <1>5 DEF Open, Goto, Opened, Opening, AInv, Counts
  <2>2. Counts' BY <1>5, <2>1 DEF Open, Goto, AInv, Counts, WinState
  <2>3. Flags' BY <1>5 DEF Open, AInv, Flags, Goto
  <2>4. Ending' = Ending BY <1>5 DEF Open, Goto, Ending, AInv, Counts
  <2>5. w \notin early BY <1>5 DEF Open, AInv, InTime
  <2>6. InTime' BY <1>5, <2>4, <2>5 DEF Open, Goto, AInv, InTime, Counts
  <2>7. QED BY <2>2, <2>3, <2>6 DEF AInv
<1>6. ASSUME NEW w \in Window, userClose(w) PROVE AInv'
  BY <1>6, OpenStep DEF userClose, Opening
<1>7. ASSUME NEW w \in Window, cancelCaller(w) PROVE AInv' BY <1>7, QuietStep DEF cancelCaller
<1>8. CASE cancelParent BY <1>8, QuietStep DEF cancelParent
<1>9. CASE UNCHANGED vars BY <1>9, QuietStep DEF vars
<1>10. QED BY <1>1, <1>2, <1>3, <1>4, <1>5, <1>6, <1>7, <1>8, <1>9, WindowStep DEF Next

(***************************************************************************)
(* For any number of windows: while one that joined in time is open and    *)
(* the context of Run is alive, the session stays bound and uncancelled.   *)
(***************************************************************************)
THEOREM SessionOutlivesWindows == Spec => []SessionHoldsWindows
<1>1. AInv => SessionHoldsWindows
  BY DEF AInv, Counts, Flags, InTime, SessionHoldsWindows, Ending, Opening
<1>2. QED BY InitAInv, AInvStep, <1>1, PTL DEF Spec

-----------------------------------------------------------------------------
(***************************************************************************)
(* The window that the check runs for has passed GetContext, and waits for *)
(* the check until its own context ends, which in a live session is its    *)
(* caller's.                                                               *)
(***************************************************************************)
CheckInv ==
  /\ first = None => check = "none"
  /\ first # None =>
       /\ first \in Window /\ win[first] \notin {"idle", "add", "check"}
       /\ check = "none" /\ ~parent /\ first \in early =>
             win[first] = "checking" \/ first \in caller

SInv == AInv /\ CheckInv /\ SpoiltOnlyByFirst

(***************************************************************************)
(* In a live session the context of an open window ends with its caller's. *)
(***************************************************************************)
LEMMA OpenContext ==
  ASSUME AInv, NEW w \in early, win[w] \in Opening, ~parent, winCtx(w)
  PROVE  w \in caller
BY DEF AInv, Flags, InTime, Ending, winCtx, sessCtx, runCtx

(***************************************************************************)
(* A step that leaves the check alone, and moves no window that is being   *)
(* checked, keeps what is known of the check.                              *)
(***************************************************************************)
LEMMA CheckKept ==
  ASSUME SInv, UNCHANGED <<first, check>>, parent => parent', caller \subseteq caller',
         \A w \in early' \ early : win[w] \in {"idle", "add"},
         \A w \in Window : /\ win[w] = "checking" => win'[w] = "checking"
                           /\ win'[w] \in {"idle", "add", "check"} =>
                                 win[w] \in {"idle", "add", "check"}
  PROVE  CheckInv' /\ SpoiltOnlyByFirst'
BY DEF SInv, CheckInv, SpoiltOnlyByFirst

(***************************************************************************)
(* For any number of windows: a cancellation spoils the check that is made *)
(* once for all of them only if the caller of the window it runs for       *)
(* cancelled it, or Run was cancelled, or that window came too late.       *)
(***************************************************************************)
THEOREM CheckSpoiltByFirst == Spec => []SpoiltOnlyByFirst
<1>1. Init => SInv BY InitAInv DEF Init, SInv, CheckInv, SpoiltOnlyByFirst
<1>2. SInv /\ [Next]_vars => SInv'
  <2> SUFFICES ASSUME SInv, [Next]_vars PROVE CheckInv' /\ SpoiltOnlyByFirst'
    BY AInvStep DEF SInv
  <2> USE DEF appVars, mainVars, sessVars, ctxVars, chkVars, Goto
  <2>0. win \in [Window -> WinState] /\ early \subseteq Window BY DEF SInv, AInv, Counts
  <2>1. CASE serveJobs BY <2>0, <2>1, CheckKept DEF serveJobs
  <2>2. CASE Loop \/ Run \/ runSession \/ cancelParent \/ UNCHANGED vars
    BY <2>2, CheckKept DEF Loop, Run, runSession, cancelParent, vars
  <2>3. CASE bindSession
    BY <2>0, <2>3, AppAssumption, CheckKept DEF bindSession, SInv, AInv, Flags
  <2>4. CASE onceInit
    <3>1. first \in Window BY <2>4 DEF onceInit, SInv, CheckInv
    <3>2. CheckInv' BY <2>4 DEF onceInit, SInv, CheckInv
    <3>3. ASSUME check' = "cancelled", ~parent, first \in early PROVE first \in caller
      <4>1. winCtx(first) BY <2>4, <3>3 DEF onceInit
      <4>2. CASE win[first] = "checking" BY <4>1, <4>2, <3>3, OpenContext DEF SInv, Opening
      <4>3. QED BY <2>4, <3>3, <4>2 DEF onceInit, SInv, CheckInv
    <3>4. QED BY <2>4, <3>2, <3>3 DEF onceInit, SpoiltOnlyByFirst
  <2>5. ASSUME NEW w \in Window, GetContext(w) PROVE CheckInv' /\ SpoiltOnlyByFirst'
    <3>1. CASE first' = first BY <2>0, <2>5, <3>1, CheckKept DEF GetContext
    <3>2. CASE first = None /\ first' = w
      BY <2>0, <2>5, <3>2, AppAssumption DEF GetContext, SInv, CheckInv, SpoiltOnlyByFirst
    <3>3. QED BY <2>5, <3>1, <3>2 DEF GetContext
  <2>6. ASSUME NEW w \in Window, checked(w) PROVE CheckInv' /\ SpoiltOnlyByFirst'
    <3>1. UNCHANGED <<first, check, early, parent, caller>> BY <2>6 DEF checked
    <3>2. CASE w # first
      BY <2>0, <2>6, <3>1, <3>2 DEF checked, SInv, CheckInv, SpoiltOnlyByFirst
    <3>3. CASE w = first
      <4>1. win'[w] \in {"remove", "up", "create"} BY <2>0, <2>6 DEF checked
      <4>2. check = "none" => winCtx(w) BY <2>6 DEF checked
      <4>3. win[w] \in Opening BY <2>6 DEF checked, Opening
      <4>4. check = "none" /\ ~parent /\ w \in early => w \in caller
        BY <4>2, <4>3, OpenContext DEF SInv
      <4>5. QED BY <3>1, <3>3, <4>1, <4>4 DEF SInv, CheckInv, SpoiltOnlyByFirst
    <3>4. QED BY <3>2, <3>3
  <2>7. ASSUME NEW w \in Window,
               add(w) \/ remove(w) \/ lastClosed(w) \/ create(w) \/ ctxClose(w) \/ close(w)
        PROVE  CheckInv' /\ SpoiltOnlyByFirst'
    BY <2>0, <2>7, CheckKept DEF add, remove, lastClosed, create, ctxClose, close
  <2>8. ASSUME NEW w \in Window, Open(w) \/ userClose(w) \/ cancelCaller(w)
        PROVE  CheckInv' /\ SpoiltOnlyByFirst'
    BY <2>0, <2>8, CheckKept DEF Open, userClose, cancelCaller
  <2>9. QED BY <2>1, <2>2, <2>3, <2>4, <2>5, <2>6, <2>7, <2>8 DEF Next, winStep
<1>3. SInv => SpoiltOnlyByFirst BY DEF SInv
<1>4. QED BY <1>1, <1>2, <1>3, PTL DEF Spec
=============================================================================
