------------------------------- MODULE Window -------------------------------
(***************************************************************************)
(* A window and the loop that draws it: x/driver/window/buffer.go, the bus *)
(* of its events (EventBus), and the Elm loop of x/ui/gui/run.go.          *)
(*                                                                         *)
(* Host goroutines change the buffer under Buffer.mu and publish after     *)
(* they have released it.  The loop subscribes, reads the buffer when it   *)
(* renders, and learns from events that it has to.  An attribute stands    *)
(* for what a picture is made for: the size, the scales, the dead zones.   *)
(* Pages and pixels are left out, and so is Android's fitHost, which asks  *)
(* for another frame when the swapchain turns (errRefit).                  *)
(***************************************************************************)
EXTENDS EventBus

CONSTANTS
    ui,         \* the loop's subscription
    MaxCalls,   \* bound: calls of the hosts
    Second      \* bound: hosts that call less

\* "scale" stands for the scale and the font scale, which storeScale keeps.
Attr == {"size", "dead", "scale"}

\* The event that a change of an attribute publishes.
EventOf(k) == CASE k = "size" -> "resize" [] k = "dead" -> "expose" [] k = "scale" -> "density"

ASSUME WindowAssumption ==
    /\ {"move", "key", "close"} \cup {EventOf(k) : k \in Attr} \subseteq Value
    /\ {ui} \X ({"close"} \cup {EventOf(k) : k \in Attr}) \subseteq Watched

VARIABLES
    closed,     \* Buffer.closed
    emit,       \* what a host is about to publish, at most one
    calls,      \* calls the hosts may still make
    unheard,    \* history: Close was published before the loop subscribed
    pc,         \* where the loop is
    cont,       \* where it goes on after flush
    saw,        \* sawResize
    dirty,      \* runner.dirty
    lazy,       \* the model has Consume
    bridged,    \* the loop draws on a bridgeDisplay, not on an imageDisplay
    old,        \* attributes the buffer has changed since it was read for the screen
    oldPict     \* the same for the picture that is rendered and not yet painted

bufVars == <<closed, emit, calls, unheard>>
loopVars == <<pc, cont, saw, dirty, lazy, bridged>>
vars == <<busVars, bufVars, loopVars, old, oldPict>>

Init ==
    /\ BusInit /\ subs = Sub \ {ui} /\ ctxDone = subs
    /\ chan = [s \in Sub |-> IF s = ui THEN <<>> ELSE [i \in 1..Cap |-> "move"]]
    /\ closed = FALSE
    /\ emit = [h \in Publisher |-> {}]
    /\ calls = MaxCalls /\ unheard = FALSE
    /\ pc = "start" /\ cont = "select"
    /\ saw = FALSE /\ dirty = FALSE
    /\ lazy \in BOOLEAN /\ bridged \in BOOLEAN
    /\ old = Attr /\ oldPict = {}

-----------------------------------------------------------------------------
(* Hosts: a critical section of the buffer, then the bus.                  *)

Call(h) ==
    /\ calls > 0
    /\ emit[h] = {} /\ pub[h] = Idle
    /\ calls' = calls - 1

keepEvent(ev) == ev # "move"

Emit(h, ev) ==
    /\ Call(h)
    /\ publish(h, ev, keepEvent(ev))
    /\ UNCHANGED <<closed, emit, unheard, loopVars, old, oldPict>>

\* Under Buffer.mu; the event goes out later, without it.
Change(h, ks, ev, keep) ==
    /\ Call(h) /\ ~closed
    /\ old' = old \cup ks
    /\ oldPict' = IF pc = "paint" THEN oldPict \cup ks ELSE {}
    /\ emit' = [emit EXCEPT ![h] = {[val |-> ev, keep |-> keep]}]
    /\ UNCHANGED <<busVars, unheard, loopVars>>

storeScale(h) == Change(h, {"scale"}, "density", TRUE) /\ UNCHANGED closed

SetDead(h) == Change(h, {"dead"}, "expose", FALSE) /\ UNCHANGED closed

Resize(h) == Change(h, {"size"}, "resize", FALSE) /\ UNCHANGED closed

Close(h) == Change(h, {}, "close", FALSE) /\ closed' = TRUE

emitLater(h) ==
    /\ \E m \in emit[h] :
          /\ publish(h, m.val, m.keep)
          /\ unheard' = (unheard \/ (m.val = "close" /\ pc = "start"))
    /\ emit' = [emit EXCEPT ![h] = {}]
    /\ UNCHANGED <<closed, calls, loopVars, old, oldPict>>

Host(h) == \/ storeScale(h) \/ Close(h) \/ emitLater(h)
           \/ h \notin Second /\ (Emit(h, "key") \/ Emit(h, "move") \/ SetDead(h) \/ Resize(h))

-----------------------------------------------------------------------------
(* The loop.                                                               *)

\* Update ran: without Consume the picture is to be made again.
Delivered == IF lazy THEN {dirty, TRUE} ELSE {TRUE}

\* loop returns and its deferred cancel ends the subscription's context.
Stop == pc' = "done" /\ ctxDone' = ctxDone \cup {ui}

\* A call of flush, forced or not, and what follows it; flush returns.
Flush(call, next) == pc' = call /\ cont' = next
Flushed == pc' = cont /\ cont' = "select"

loopStart ==
    /\ pc = "start"
    /\ Subscribe(ui)
    /\ dirty' = TRUE
    /\ Flush("force", "select")
    /\ UNCHANGED <<bufVars, saw, lazy, bridged, old, oldPict>>

\* handle of one event, in loop's select or in drainEvents.
handle(ev) ==
    /\ dirty' \in Delivered
    /\ CASE ev = "close" -> pc' = "done" /\ UNCHANGED cont
         [] ev \in {"expose", "density"} -> Flush("force", "drain")
         [] OTHER -> pc' = "drain" /\ UNCHANGED cont

\* Mutant: only the first event of a burst is asked whether it is a Resize.
MutantFirstOnly(ev) == IF pc = "select" THEN ev = "resize" ELSE saw

sawResize(ev) == (pc = "drain" /\ saw) \/ ev = "resize"

drainEvents ==
    /\ pc \in {"select", "drain"}
    /\ chan[ui] # <<>>
    /\ LET ev == Head(chan[ui]) IN
          /\ handle(ev)
          /\ saw' = sawResize(ev)
          /\ chan' = [chan EXCEPT ![ui] = Tail(@)]
          /\ ctxDone' = IF ev = "close" THEN ctxDone \cup {ui} ELSE ctxDone
    /\ UNCHANGED <<subs, shut, pub, raced, dropped, bufVars, lazy, bridged, old, oldPict>>

finishResize ==
    /\ pc = "drain" /\ chan[ui] = <<>>
    /\ LET next == IF ui \in shut THEN "done" ELSE "select" IN
       IF saw THEN Flush("force", next) ELSE pc' = next /\ UNCHANGED cont
    /\ saw' = FALSE
    /\ UNCHANGED <<busVars, bufVars, dirty, lazy, bridged, old, oldPict>>

\* ctx.Done, the closed channel, or a quit command.
loopReturn ==
    /\ pc = "select"
    /\ \/ ui \in ctxDone
       \/ ui \in shut /\ chan[ui] = <<>>
    /\ Stop
    /\ UNCHANGED <<subs, shut, chan, pub, raced, dropped, bufVars,
                   cont, saw, dirty, lazy, bridged, old, oldPict>>

\* A message of a command: a tick is followed by a frame, quit ends the loop.
command ==
    /\ pc = "select"
    /\ dirty' \in Delivered
    /\ \/ UNCHANGED <<pc, cont, ctxDone>>
       \/ Flush("flush", "select") /\ UNCHANGED ctxDone
       \/ Stop /\ UNCHANGED cont
    /\ UNCHANGED <<subs, shut, chan, pub, raced, dropped, bufVars, saw, lazy, bridged, old, oldPict>>

tick ==
    /\ pc = "select" /\ dirty
    /\ Flush("flush", "select")
    /\ UNCHANGED <<busVars, bufVars, saw, dirty, lazy, bridged, old, oldPict>>

\* flush up to the signature check.  Equal signatures are equal pictures.
render ==
    /\ pc \in {"flush", "force"}
    /\ IF pc = "flush" /\ ~dirty
         THEN Flushed /\ UNCHANGED <<dirty, old, oldPict>>
         ELSE /\ dirty' = FALSE
              /\ \/ pc' = "paint" /\ oldPict' = {} /\ UNCHANGED <<cont, old>>
                 \/ pc = "flush" /\ Flushed /\ old' = {} /\ UNCHANGED oldPict
    /\ UNCHANGED <<busVars, bufVars, saw, lazy, bridged>>

\* The frame is presented.  Draw swaps the pages of an open buffer only; a bridged
\* display paints on the surface, which knows nothing of the buffer.
paint ==
    /\ pc = "paint" /\ (bridged \/ ~closed)
    /\ old' = oldPict /\ oldPict' = {}
    /\ Flushed
    /\ UNCHANGED <<busVars, bufVars, saw, dirty, lazy, bridged>>

\* errHold: the host of a bridged display has no surface, or none to draw on now.
\* The frame is given up and the loop owes another.
hold ==
    /\ pc = "paint" /\ bridged
    /\ dirty' = TRUE
    /\ Flushed /\ oldPict' = {}
    /\ UNCHANGED <<busVars, bufVars, saw, lazy, bridged, old>>

\* Render or present fails: Draw with ErrClosed above all.
flushFails ==
    /\ pc \in {"flush", "force", "paint"}
    /\ Stop
    /\ UNCHANGED <<subs, shut, chan, pub, raced, dropped, bufVars,
                   cont, saw, dirty, lazy, bridged, old, oldPict>>

Loop == loopStart \/ drainEvents \/ finishResize \/ loopReturn \/ command
        \/ tick \/ render \/ paint \/ hold \/ flushFails

Bus ==
    /\ \/ \E s \in Sub : cancel(s) \/ unsubscribe(s)
       \/ \E p \in Publisher : Publishing(p)
    /\ UNCHANGED <<bufVars, loopVars, old, oldPict>>

\* The run ends with the loop.
Next ==
    /\ pc # "done"
    /\ Loop \/ Bus \/ \E h \in Publisher : Host(h)

Spec == Init /\ [][Next]_vars

Publish == (\E p \in Publisher : Publishing(p)) /\ UNCHANGED <<bufVars, loopVars, old, oldPict>>

\* Goroutines go on.  select picks among what is ready at random, so an event
\* or an end that is ready again and again is taken.  Nobody has to call, no
\* command has to come, and nothing has to fail but Draw on a closed buffer.
FairSpec ==
    /\ Spec
    /\ WF_vars(Publish \/ \E h \in Publisher : emitLater(h))
    /\ WF_vars(loopStart \/ finishResize \/ render \/ paint \/ hold
               \/ (pc = "paint" /\ closed /\ ~bridged /\ flushFails))
    /\ SF_vars(drainEvents \/ loopReturn)

-----------------------------------------------------------------------------

\* Nothing is under way: no host in a call, no event queued, no frame due.
Quiet ==
    /\ pc = "select" /\ ~dirty /\ ui \in subs
    /\ chan[ui] = <<>>
    /\ \A h \in Publisher : emit[h] = {} /\ pub[h] = Idle

\* Once things are quiet the picture on the screen is made for the size, the
\* scales and the dead zones the buffer has, in whatever order hosts stored
\* and published them.  A model that says with Consume when it has changed
\* loses this if the event of the change was dropped on a full channel.
ShownIsCurrent ==
    Quiet => \A k \in old : lazy /\ <<ui, EventOf(k)>> \in dropped

\* The loop of a closed window returns, unless the Close event was dropped
\* on, or taken out of, its full channel, or unless it came before the loop
\* subscribed and the display is bridged: presenting on it does not fail because
\* the window is closed, and the loop holds or paints frames for ever.  Other
\* subscribers come and go.
ClosedEndsLoop ==
    closed ~> (pc = "done" \/ <<ui, "close">> \in dropped \/ (bridged /\ unheard))
=============================================================================
