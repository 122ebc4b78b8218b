------------------------------ MODULE EventBus ------------------------------
(***************************************************************************)
(* x/event/event.go: a bus that fans values out to bounded channels.       *)
(*                                                                         *)
(* A publisher takes a snapshot of the subscribers under Bus.mu and then   *)
(* visits their channels one by one without it.  Each of its channel       *)
(* operations is a step: meanwhile other publishers send, the subscriber   *)
(* receives, and the subscription's goroutine closes the channel.          *)
(***************************************************************************)
EXTENDS Naturals, Sequences

CONSTANTS
    Sub,        \* channels, one for each call of Subscribe
    Publisher,  \* goroutines that publish
    Value,      \* what they publish
    Cap,        \* capacity of a channel, 16 in the code
    Watched     \* channels and values whose loss is recorded in dropped

ASSUME BusAssumption == Cap \in Nat \ {0} /\ Watched \subseteq Sub \X Value

VARIABLES
    subs,       \* Bus.subs
    shut,       \* channels that are closed
    chan,       \* what is queued in each channel
    ctxDone,    \* channels whose context has ended
    pub,        \* where each publisher is
    raced,      \* history: publishers that lost the place they had made
    dropped     \* history: values skipped at a channel or taken out of it

busVars == <<subs, shut, chan, ctxDone, pub, raced, dropped>>

\* Between two calls, and in the visit of one channel.
Idle == [at |-> "idle"]

Busy == [at : {"send", "take", "again"}, val : Value, keep : BOOLEAN,
         ch : Sub, left : SUBSET Sub]

\* New.
BusInit ==
    /\ shut = {} /\ raced = {}
    /\ dropped = {}
    /\ pub = [p \in Publisher |-> Idle]

-----------------------------------------------------------------------------
(* Subscribe, and the goroutine that waits for its context.                *)

Subscribe(s) ==
    /\ s \notin subs \cup shut
    /\ subs' = subs \cup {s}
    /\ UNCHANGED <<shut, chan, ctxDone, pub, raced, dropped>>

cancel(s) ==
    /\ s \in subs \ ctxDone
    /\ ctxDone' = ctxDone \cup {s}
    /\ UNCHANGED <<subs, shut, chan, pub, raced, dropped>>

unsubscribe(s) ==
    /\ s \in subs \cap ctxDone
    /\ subs' = subs \ {s}
    /\ shut' = shut \cup {s}
    /\ UNCHANGED <<chan, ctxDone, pub, raced, dropped>>

-----------------------------------------------------------------------------
(* publish: the snapshot, then three attempts on each channel.             *)

\* The loop over the snapshot goes on with some channel: map order is random.
Visit(p, m, todo) ==
    \/ /\ todo = {}
       /\ pub' = [pub EXCEPT ![p] = Idle]
    \/ \E s \in todo :
          pub' = [pub EXCEPT ![p] = [at |-> "send", val |-> m.val, keep |-> m.keep,
                                     ch |-> s, left |-> todo \ {s}]]

publish(p, v, keep) ==
    /\ pub[p] = Idle
    /\ Visit(p, [val |-> v, keep |-> keep], subs)
    /\ UNCHANGED <<subs, shut, chan, ctxDone, raced, dropped>>

\* A send that goes through.  It takes the place of those who made room here.
Send(p, s) ==
    /\ chan' = [chan EXCEPT ![s] = Append(@, pub[p].val)]
    /\ raced' = raced \cup {q \in Publisher \ {p} : pub[q].at = "again" /\ pub[q].ch = s}
    /\ UNCHANGED dropped

\* v is lost to the subscriber of s; only what is watched is remembered.
Lose(s, v) == dropped' = dropped \cup (Watched \cap {<<s, v>>})

\* A full channel is skipped.
Skip(s, v) == Lose(s, v) /\ UNCHANGED <<chan, raced>>

\* Mutant: the recover is around the loop instead of around one channel.
MutantRecoverStopsAll(p) ==
    IF pub[p].ch \in shut THEN Visit(p, pub[p], {}) ELSE Visit(p, pub[p], pub[p].left)

\* The end of the function for one channel.  A send on a closed channel
\* panics, which recover ends here too.
nextChannel(p) == Visit(p, pub[p], pub[p].left)

\* The first send: through, on a closed channel, or on a full one.
send(p) ==
    LET s == pub[p].ch IN
    /\ pub[p].at = "send"
    /\ \/ /\ s \in shut
          /\ nextChannel(p)
          /\ UNCHANGED <<chan, raced, dropped>>
       \/ /\ s \notin shut /\ Len(chan[s]) < Cap
          /\ Send(p, s)
          /\ nextChannel(p)
       \/ /\ s \notin shut /\ Len(chan[s]) = Cap /\ ~pub[p].keep
          /\ Skip(s, pub[p].val)
          /\ nextChannel(p)
       \/ /\ s \notin shut /\ Len(chan[s]) = Cap /\ pub[p].keep
          /\ pub' = [pub EXCEPT ![p].at = "take"]
          /\ UNCHANGED <<chan, raced, dropped>>
    /\ UNCHANGED <<subs, shut, ctxDone>>

\* Mutant: a full channel keeps its oldest value.
MutantTakesNothing(p) ==
    /\ pub[p].at = "take"
    /\ pub' = [pub EXCEPT ![p].at = "again"]
    /\ raced' = raced \ {p}
    /\ UNCHANGED <<subs, shut, chan, ctxDone, dropped>>

\* The receive that drops the oldest value; the channel may be empty by now.
take(p) ==
    LET s == pub[p].ch IN
    /\ pub[p].at = "take"
    /\ pub' = [pub EXCEPT ![p].at = "again"]
    /\ raced' = raced \ {p}
    /\ IF chan[s] = <<>>
         THEN UNCHANGED <<chan, dropped>>
         ELSE /\ chan' = [chan EXCEPT ![s] = Tail(@)]
              /\ Lose(s, Head(chan[s]))
    /\ UNCHANGED <<subs, shut, ctxDone>>

\* The second send, which may find the place taken again.
sendAgain(p) ==
    LET s == pub[p].ch IN
    /\ pub[p].at = "again"
    /\ \/ /\ s \in shut
          /\ UNCHANGED <<chan, raced, dropped>>
       \/ /\ s \notin shut /\ Len(chan[s]) < Cap
          /\ Send(p, s)
       \/ /\ s \notin shut /\ Len(chan[s]) = Cap
          /\ Skip(s, pub[p].val)
    /\ nextChannel(p)
    /\ UNCHANGED <<subs, shut, ctxDone>>

Publishing(p) == send(p) \/ take(p) \/ sendAgain(p)

\* The subscriber receives the oldest value.
Receive(s) ==
    /\ chan[s] # <<>>
    /\ chan' = [chan EXCEPT ![s] = Tail(@)]
    /\ UNCHANGED <<subs, shut, ctxDone, pub, raced, dropped>>

BusNext ==
    \/ \E s \in Sub : Subscribe(s) \/ cancel(s) \/ unsubscribe(s) \/ Receive(s)
    \/ \E p \in Publisher, v \in Value, keep \in BOOLEAN : publish(p, v, keep)
    \/ \E p \in Publisher : Publishing(p)

BusSpec == BusInit /\ subs = {} /\ ctxDone = {} /\ chan = [s \in Sub |-> <<>>] /\ [][BusNext]_busVars

-----------------------------------------------------------------------------

\* The variables have their types, a closed channel is off the bus, and no
\* channel holds more than its capacity.
BusTypeOK ==
    /\ subs \in SUBSET Sub /\ shut \in SUBSET Sub /\ ctxDone \in SUBSET Sub
    /\ subs \cap shut = {}
    /\ chan \in [Sub -> Seq(Value)]
    /\ \A s \in Sub : Len(chan[s]) <= Cap
    /\ pub \in [Publisher -> {Idle} \cup Busy]
    /\ raced \in SUBSET Publisher
    /\ dropped \in SUBSET Watched

\* A full subscriber drops its oldest value so that the kept one stays:
\* whoever has made room on an open channel finds it, unless another
\* publisher has sent there in between.
KeptUnlessRaced ==
    \A p \in Publisher :
        pub[p].at = "again" /\ p \notin raced /\ pub[p].ch \notin shut
            => Len(chan[pub[p].ch]) < Cap
=============================================================================
