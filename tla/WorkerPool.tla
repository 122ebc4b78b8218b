----------------------------- MODULE WorkerPool -----------------------------
(***************************************************************************)
(* What the workers of one leaf pool promise the session, and what         *)
(* TaskGroup assumes of them with pop and workerExit: ready leaves are     *)
(* taken in the order they became ready, each by one worker, and a worker  *)
(* leaves only an ended session with nothing ready.                        *)
(***************************************************************************)
EXTENDS Naturals, Sequences

CONSTANTS Workers, Items, None

VARIABLES ready,    \* the leaves that are ready, oldest first
          holds,    \* the leaf a worker runs, or None
          left,     \* the workers that returned
          ended     \* the session's context is done

poolVars == <<ready, holds, left, ended>>

Init == ready = <<>> /\ holds = [w \in Workers |-> None] /\ left = {} /\ ended = FALSE

Push(i) == ready' = Append(ready, i) /\ UNCHANGED <<holds, left, ended>>

Take(w) ==
    /\ w \notin left /\ holds[w] = None /\ ready # <<>>
    /\ ready' = Tail(ready)
    /\ holds' = [holds EXCEPT ![w] = Head(ready)]
    /\ UNCHANGED <<left, ended>>

Return(w) ==
    /\ holds[w] # None
    /\ holds' = [holds EXCEPT ![w] = None]
    /\ UNCHANGED <<ready, left, ended>>

End == ended' = TRUE /\ UNCHANGED <<ready, holds, left>>

Leave(w) ==
    /\ ended /\ ready = <<>> /\ holds[w] = None
    /\ left' = left \cup {w}
    /\ UNCHANGED <<ready, holds, ended>>

Next ==
    \/ \E i \in Items : Push(i)
    \/ \E w \in Workers : Take(w) \/ Return(w) \/ Leave(w)
    \/ End

Spec == Init /\ [][Next]_poolVars
=============================================================================
