---------------------------- MODULE WindowProofs ----------------------------
(***************************************************************************)
(* The bus keeps its types, and a kept value finds the room made for it    *)
(* unless another publisher took it (KeptUnlessRaced): first of the bus by *)
(* itself, then of the bus that a window and its loop use.  And once a     *)
(* window is quiet it shows a picture for what its buffer has              *)
(* (ShownIsCurrent).  All for any number of subscribers and publishers,    *)
(* any number of calls and any capacity.                                   *)
(***************************************************************************)
EXTENDS Window, SequenceTheorems, TLAPS

-----------------------------------------------------------------------------
(* The bus *)

(***************************************************************************)
(* Going to the next channel, or ending, touches one publisher, which is   *)
(* not about to send again then.                                           *)
(***************************************************************************)
LEMMA VisitResult ==
  ASSUME BusTypeOK, NEW p \in Publisher, NEW v \in Value, NEW k \in BOOLEAN,
         NEW todo \in SUBSET Sub, NEW m, m.val = v, m.keep = k, Visit(p, m, todo)
  PROVE  /\ pub' \in [Publisher -> {Idle} \cup Busy]
         /\ \A q \in Publisher \ {p} : pub'[q] = pub[q]
         /\ pub'[p].at # "again"
<1>1. CASE todo = {} /\ pub' = [pub EXCEPT ![p] = Idle]
  BY <1>1 DEF BusTypeOK, Idle
<1>2. CASE \E s \in todo :
             pub' = [pub EXCEPT ![p] = [at |-> "send", val |-> v, keep |-> k,
                                        ch |-> s, left |-> todo \ {s}]]
  <2>1. PICK s \in todo : pub' = [pub EXCEPT ![p] = [at |-> "send", val |-> v, keep |-> k,
                                                     ch |-> s, left |-> todo \ {s}]]
    BY <1>2
  <2>2. [at |-> "send", val |-> v, keep |-> k, ch |-> s, left |-> todo \ {s}] \in Busy
    BY DEF Busy
  <2>3. QED BY <2>1, <2>2 DEF BusTypeOK
<1>3. QED BY <1>1, <1>2 DEF Visit

(***************************************************************************)
(* A publisher that is not idle carries a value and a channel.             *)
(***************************************************************************)
LEMMA BusyFields ==
  ASSUME BusTypeOK, NEW p \in Publisher, pub[p].at # "idle"
  PROVE  /\ pub[p] \in Busy
         /\ pub[p].val \in Value /\ pub[p].keep \in BOOLEAN
         /\ pub[p].ch \in Sub /\ pub[p].left \in SUBSET Sub
<1>1. pub[p] \in Busy BY DEF BusTypeOK, Idle
<1>2. QED BY <1>1 DEF Busy

(***************************************************************************)
(* The end of the visit of one channel.                                    *)
(***************************************************************************)
LEMMA NextChannelResult ==
  ASSUME BusTypeOK, NEW p \in Publisher, pub[p].at # "idle", nextChannel(p)
  PROVE  /\ pub' \in [Publisher -> {Idle} \cup Busy]
         /\ \A q \in Publisher \ {p} : pub'[q] = pub[q]
         /\ pub'[p].at # "again"
BY BusyFields, VisitResult DEF nextChannel

(***************************************************************************)
(* Moving a publisher to its next attempt on the same channel.             *)
(***************************************************************************)
LEMMA AttemptResult ==
  ASSUME BusTypeOK, NEW p \in Publisher, pub[p].at # "idle", NEW a \in {"take", "again"},
         pub' = [pub EXCEPT ![p].at = a]
  PROVE  /\ pub' \in [Publisher -> {Idle} \cup Busy]
         /\ \A q \in Publisher \ {p} : pub'[q] = pub[q]
         /\ pub'[p].at = a /\ pub'[p].ch = pub[p].ch
<1>1. pub[p] \in Busy BY BusyFields
<1>2. [pub[p] EXCEPT !.at = a] \in Busy BY <1>1 DEF Busy
<1>3. pub' = [pub EXCEPT ![p] = [pub[p] EXCEPT !.at = a]] OBVIOUS
<1>4. [pub[p] EXCEPT !.at = a].at = a /\ [pub[p] EXCEPT !.at = a].ch = pub[p].ch
  BY <1>1 DEF Busy
<1>5. QED BY <1>2, <1>3, <1>4 DEF BusTypeOK

(***************************************************************************)
(* What the three channel operations do to the channels.                   *)
(***************************************************************************)
ChanOK(c) == c \in [Sub -> Seq(Value)] /\ \A s \in Sub : Len(c[s]) <= Cap

LEMMA SendResult ==
  ASSUME BusTypeOK, NEW p \in Publisher, pub[p].at # "idle",
         Len(chan[pub[p].ch]) < Cap, Send(p, pub[p].ch)
  PROVE  ChanOK(chan')
<1> DEFINE s == pub[p].ch
<1>1. s \in Sub /\ pub[p].val \in Value BY BusyFields
<1>2. chan[s] \in Seq(Value) BY <1>1 DEF BusTypeOK
<1>3. /\ Append(chan[s], pub[p].val) \in Seq(Value)
      /\ Len(Append(chan[s], pub[p].val)) = Len(chan[s]) + 1
  BY <1>1, <1>2
<1>4. Len(chan[s]) \in Nat BY <1>2
<1>5. Len(Append(chan[s], pub[p].val)) <= Cap BY <1>3, <1>4, BusAssumption
<1>6. chan' = [chan EXCEPT ![s] = Append(chan[s], pub[p].val)] BY DEF Send
<1>7. QED BY <1>1, <1>3, <1>5, <1>6 DEF BusTypeOK, ChanOK

(***************************************************************************)
(* A receive makes room.                                                   *)
(***************************************************************************)
LEMMA TailResult ==
  ASSUME BusTypeOK, NEW s \in Sub, chan[s] # <<>>, chan' = [chan EXCEPT ![s] = Tail(@)]
  PROVE  /\ ChanOK(chan') /\ Len(chan'[s]) < Cap
         /\ \A r \in Sub : Len(chan'[r]) <= Len(chan[r])
<1>1. chan[s] \in Seq(Value) BY DEF BusTypeOK
<1>2. Tail(chan[s]) \in Seq(Value) /\ Len(Tail(chan[s])) = Len(chan[s]) - 1 BY <1>1
<1>3. Len(chan[s]) \in Nat /\ Len(chan[s]) <= Cap BY <1>1 DEF BusTypeOK
<1>4. chan' = [chan EXCEPT ![s] = Tail(chan[s])] OBVIOUS
<1>5. \A r \in Sub : Len(chan[r]) \in Nat BY DEF BusTypeOK
<1>6. chan'[s] = Tail(chan[s]) /\ \A r \in Sub \ {s} : chan'[r] = chan[r]
  BY <1>4 DEF BusTypeOK
<1>7. \A r \in Sub : Len(chan'[r]) <= Len(chan[r]) BY <1>2, <1>3, <1>5, <1>6
<1>8. ChanOK(chan')
  <2>1. chan' \in [Sub -> Seq(Value)] BY <1>2, <1>4 DEF BusTypeOK
  <2>2. \A r \in Sub : Len(chan'[r]) <= Cap
    BY <1>2, <1>3, <1>6, BusAssumption DEF BusTypeOK
  <2>3. QED BY <2>1, <2>2 DEF ChanOK
<1>9. Len(chan'[s]) < Cap
  <2>1. Len(chan'[s]) = Len(chan[s]) - 1 BY <1>2, <1>6
  <2>2. Cap \in Nat BY BusAssumption
  <2>3. QED BY <1>3, <2>1, <2>2
<1>10. QED BY <1>7, <1>8, <1>9

(***************************************************************************)
(* Every step of the bus keeps the types.                                  *)
(***************************************************************************)
LEMMA BusTypeStep == ASSUME BusTypeOK, [BusNext]_busVars PROVE BusTypeOK'
<1>1. ASSUME NEW s \in Sub, Subscribe(s) \/ cancel(s) \/ unsubscribe(s) PROVE BusTypeOK'
  BY <1>1 DEF Subscribe, cancel, unsubscribe, BusTypeOK
<1>2. ASSUME NEW s \in Sub, Receive(s) PROVE BusTypeOK'
  <2>1. ChanOK(chan') BY <1>2, TailResult DEF Receive
  <2>2. QED BY <1>2, <2>1 DEF Receive, ChanOK, BusTypeOK
<1>3. ASSUME NEW p \in Publisher, NEW v \in Value, NEW keep \in BOOLEAN, publish(p, v, keep)
      PROVE  BusTypeOK'
  <2>1. pub' \in [Publisher -> {Idle} \cup Busy]
    BY <1>3, VisitResult DEF publish, BusTypeOK
  <2>2. QED BY <1>3, <2>1 DEF publish, BusTypeOK
<1>4. ASSUME NEW p \in Publisher, send(p) PROVE BusTypeOK'
  <2>1. pub[p].at # "idle" BY <1>4 DEF send
  <2>2. pub' \in [Publisher -> {Idle} \cup Busy]
    BY <1>4, <2>1, NextChannelResult, AttemptResult DEF send
  <2>3. ChanOK(chan')
    <3>1. CASE UNCHANGED chan BY <3>1 DEF ChanOK, BusTypeOK
    <3>2. CASE Len(chan[pub[p].ch]) < Cap /\ Send(p, pub[p].ch) BY <2>1, <3>2, SendResult
    <3>3. QED BY <1>4, <3>1, <3>2 DEF send, Skip
  <2>4. raced' \in SUBSET Publisher /\ dropped' \in SUBSET Watched
    BY <1>4 DEF send, Send, Skip, Lose, BusTypeOK
  <2>5. UNCHANGED <<subs, shut, ctxDone>> BY <1>4 DEF send
  <2>6. QED BY <2>2, <2>3, <2>4, <2>5 DEF ChanOK, BusTypeOK
<1>5. ASSUME NEW p \in Publisher, take(p) PROVE BusTypeOK'
  <2>1. pub[p].at # "idle" BY <1>5 DEF take
  <2>2. pub' \in [Publisher -> {Idle} \cup Busy] BY <1>5, <2>1, AttemptResult DEF take
  <2>3. ChanOK(chan')
    <3>1. CASE UNCHANGED chan BY <3>1 DEF ChanOK, BusTypeOK
    <3>2. CASE chan[pub[p].ch] # <<>> /\ chan' = [chan EXCEPT ![pub[p].ch] = Tail(@)]
      BY <2>1, <3>2, BusyFields, TailResult
    <3>3. QED BY <1>5, <3>1, <3>2 DEF take
  <2>4. raced' \in SUBSET Publisher /\ dropped' \in SUBSET Watched
    BY <1>5 DEF take, Lose, BusTypeOK
  <2>5. UNCHANGED <<subs, shut, ctxDone>> BY <1>5 DEF take
  <2>6. QED BY <2>2, <2>3, <2>4, <2>5 DEF ChanOK, BusTypeOK
<1>6. ASSUME NEW p \in Publisher, sendAgain(p) PROVE BusTypeOK'
  <2>1. pub[p].at # "idle" BY <1>6 DEF sendAgain
  <2>2. pub' \in [Publisher -> {Idle} \cup Busy] BY <1>6, <2>1, NextChannelResult DEF sendAgain
  <2>3. ChanOK(chan')
    <3>1. CASE UNCHANGED chan BY <3>1 DEF ChanOK, BusTypeOK
    <3>2. CASE Len(chan[pub[p].ch]) < Cap /\ Send(p, pub[p].ch) BY <2>1, <3>2, SendResult
    <3>3. QED BY <1>6, <3>1, <3>2 DEF sendAgain, Skip
  <2>4. raced' \in SUBSET Publisher /\ dropped' \in SUBSET Watched
    BY <1>6 DEF sendAgain, Send, Skip, Lose, BusTypeOK
  <2>5. UNCHANGED <<subs, shut, ctxDone>> BY <1>6 DEF sendAgain
  <2>6. QED BY <2>2, <2>3, <2>4, <2>5 DEF ChanOK, BusTypeOK
<1>7. CASE UNCHANGED busVars BY <1>7 DEF busVars, BusTypeOK
<1>8. QED BY <1>1, <1>2, <1>3, <1>4, <1>5, <1>6, <1>7 DEF BusNext, Publishing

(***************************************************************************)
(* A step that leaves the publishers about to send again as they are, and  *)
(* fills no channel, keeps the room they have made.                        *)
(***************************************************************************)
LEMMA RoomKept ==
  ASSUME BusTypeOK, BusTypeOK', KeptUnlessRaced, shut \subseteq shut', raced' = raced,
         \A r \in Sub : Len(chan'[r]) <= Len(chan[r]),
         \A q \in Publisher : pub'[q].at = "again" => pub'[q] = pub[q]
  PROVE  KeptUnlessRaced'
<1> SUFFICES ASSUME NEW q \in Publisher,
                    pub'[q].at = "again", q \notin raced', pub'[q].ch \notin shut'
             PROVE  Len(chan'[pub'[q].ch]) < Cap
  BY DEF KeptUnlessRaced
<1>1. pub[q].ch \in Sub /\ pub'[q] = pub[q] BY BusyFields
<1>2. Len(chan[pub[q].ch]) < Cap BY <1>1 DEF KeptUnlessRaced
<1>3. Len(chan[pub[q].ch]) \in Nat /\ Len(chan'[pub[q].ch]) \in Nat BY <1>1 DEF BusTypeOK
<1>4. QED BY <1>1, <1>2, <1>3, BusAssumption

(***************************************************************************)
(* A send may take the room of others, which are raced from then on.       *)
(***************************************************************************)
LEMMA SendRaces ==
  ASSUME BusTypeOK, BusTypeOK', KeptUnlessRaced, NEW p \in Publisher, pub[p].at # "idle",
         Send(p, pub[p].ch), shut' = shut, pub'[p].at # "again",
         \A q \in Publisher \ {p} : pub'[q] = pub[q]
  PROVE  KeptUnlessRaced'
<1> SUFFICES ASSUME NEW q \in Publisher,
                    pub'[q].at = "again", q \notin raced', pub'[q].ch \notin shut'
             PROVE  Len(chan'[pub'[q].ch]) < Cap
  BY DEF KeptUnlessRaced
<1>1. q # p /\ pub'[q] = pub[q] OBVIOUS
<1>2. pub[q].ch \in Sub /\ pub[p].ch \in Sub BY <1>1, BusyFields
<1>3. pub[q].ch # pub[p].ch /\ q \notin raced BY <1>1 DEF Send
<1>4. chan'[pub[q].ch] = chan[pub[q].ch] BY <1>2, <1>3 DEF Send, BusTypeOK
<1>5. QED BY <1>1, <1>3, <1>4 DEF KeptUnlessRaced

(***************************************************************************)
(* Every step of the bus keeps the room that was made.                     *)
(***************************************************************************)
LEMMA KeptStep ==
  ASSUME BusTypeOK, BusTypeOK', KeptUnlessRaced, [BusNext]_busVars PROVE KeptUnlessRaced'
<1>0. \A r \in Sub : Len(chan[r]) \in Nat BY DEF BusTypeOK
<1>1. ASSUME NEW s \in Sub, Subscribe(s) \/ cancel(s) \/ unsubscribe(s) PROVE KeptUnlessRaced'
  BY <1>0, <1>1, RoomKept DEF Subscribe, cancel, unsubscribe
<1>2. ASSUME NEW s \in Sub, Receive(s) PROVE KeptUnlessRaced'
  BY <1>2, RoomKept, TailResult DEF Receive
<1>3. ASSUME NEW p \in Publisher, NEW v \in Value, NEW keep \in BOOLEAN, publish(p, v, keep)
      PROVE  KeptUnlessRaced'
  <2>1. pub'[p].at # "again" /\ \A q \in Publisher \ {p} : pub'[q] = pub[q]
    BY <1>3, VisitResult DEF publish, BusTypeOK
  <2>2. QED BY <1>0, <1>3, <2>1, RoomKept DEF publish
<1>4. ASSUME NEW p \in Publisher, send(p) PROVE KeptUnlessRaced'
  <2>1. pub[p].at # "idle" BY <1>4 DEF send
  <2>2. pub'[p].at # "again" /\ \A q \in Publisher \ {p} : pub'[q] = pub[q]
    BY <1>4, <2>1, NextChannelResult, AttemptResult DEF send
  <2>3. CASE Send(p, pub[p].ch) BY <1>4, <2>1, <2>2, <2>3, SendRaces DEF send
  <2>4. CASE UNCHANGED <<chan, raced>> BY <1>0, <1>4, <2>2, <2>4, RoomKept DEF send
  <2>5. QED BY <1>4, <2>3, <2>4 DEF send, Skip
<1>5. ASSUME NEW p \in Publisher, take(p) PROVE KeptUnlessRaced'
  <2>1. pub[p].at # "idle" /\ pub[p].ch \in Sub BY <1>5, BusyFields DEF take
  <2>2. /\ pub'[p].ch = pub[p].ch
        /\ \A q \in Publisher \ {p} : pub'[q] = pub[q]
    BY <1>5, <2>1, AttemptResult DEF take
  <2>3. /\ Len(chan'[pub[p].ch]) < Cap
        /\ \A r \in Sub : Len(chan'[r]) <= Len(chan[r])
    <3>1. CASE chan[pub[p].ch] = <<>> /\ UNCHANGED chan
      <4>1. Len(chan[pub[p].ch]) = 0 BY <3>1
      <4>2. QED BY <1>0, <3>1, <4>1, BusAssumption
    <3>2. CASE chan[pub[p].ch] # <<>> /\ chan' = [chan EXCEPT ![pub[p].ch] = Tail(@)]
      BY <2>1, <3>2, TailResult
    <3>3. QED BY <1>5, <3>1, <3>2 DEF take
  <2>4. ASSUME NEW q \in Publisher \ {p}, pub'[q].at = "again", q \notin raced', pub'[q].ch \notin shut'
        PROVE  Len(chan'[pub'[q].ch]) < Cap
    <3>1. pub'[q] = pub[q] /\ pub[q].ch \in Sub BY <2>2, <2>4, BusyFields
    <3>2. q \notin raced /\ pub[q].ch \notin shut BY <1>5, <2>4, <3>1 DEF take
    <3>3. Len(chan[pub[q].ch]) < Cap BY <2>4, <3>1, <3>2 DEF KeptUnlessRaced
    <3>4. Len(chan'[pub[q].ch]) \in Nat BY <3>1 DEF BusTypeOK
    <3>5. QED BY <1>0, <2>3, <3>1, <3>3, <3>4, BusAssumption
  <2>5. QED BY <2>2, <2>3, <2>4 DEF KeptUnlessRaced
<1>6. ASSUME NEW p \in Publisher, sendAgain(p) PROVE KeptUnlessRaced'
  <2>1. pub[p].at # "idle" BY <1>6 DEF sendAgain
  <2>2. pub'[p].at # "again" /\ \A q \in Publisher \ {p} : pub'[q] = pub[q]
    BY <1>6, <2>1, NextChannelResult DEF sendAgain
  <2>3. CASE Send(p, pub[p].ch) BY <1>6, <2>1, <2>2, <2>3, SendRaces DEF sendAgain
  <2>4. CASE UNCHANGED <<chan, raced>> BY <1>0, <1>6, <2>2, <2>4, RoomKept DEF sendAgain
  <2>5. QED BY <1>6, <2>3, <2>4 DEF sendAgain, Skip
<1>7. CASE UNCHANGED busVars BY <1>7 DEF busVars, KeptUnlessRaced
<1>8. QED BY <1>1, <1>2, <1>3, <1>4, <1>5, <1>6, <1>7 DEF BusNext, Publishing

(***************************************************************************)
(* For any capacity and any number of subscribers and publishers: no       *)
(* channel is filled beyond its capacity and none is both subscribed and   *)
(* closed, and a publisher that has dropped the oldest value for a kept    *)
(* one finds the room, unless another publisher has sent there since.      *)
(***************************************************************************)
THEOREM BusKeepsNewest == BusSpec => [](BusTypeOK /\ KeptUnlessRaced)
<1> DEFINE Start == BusInit /\ subs = {} /\ ctxDone = {} /\ chan = [s \in Sub |-> <<>>]
<1>1. Start => BusTypeOK /\ KeptUnlessRaced
  <2> SUFFICES ASSUME Start PROVE BusTypeOK /\ KeptUnlessRaced OBVIOUS
  <2>1. <<>> \in Seq(Value) /\ Len(<<>>) = 0 /\ 0 <= Cap BY BusAssumption
  <2>2. chan \in [Sub -> Seq(Value)] /\ \A s \in Sub : Len(chan[s]) <= Cap BY <2>1
  <2>3. BusTypeOK BY <2>2 DEF BusInit, BusTypeOK
  <2>4. KeptUnlessRaced BY DEF BusInit, KeptUnlessRaced, Idle
  <2>5. QED BY <2>3, <2>4
<1>2. BusTypeOK /\ KeptUnlessRaced /\ [BusNext]_busVars => (BusTypeOK /\ KeptUnlessRaced)'
  BY BusTypeStep, KeptStep
<1>3. QED BY <1>1, <1>2, PTL DEF BusSpec

-----------------------------------------------------------------------------
(* The window *)

EmitOK == emit \in [Publisher -> SUBSET [val : Value, keep : BOOLEAN]]

WInv == BusTypeOK /\ KeptUnlessRaced /\ EmitOK

(***************************************************************************)
(* A step of the bus by itself keeps what is proved of it.                 *)
(***************************************************************************)
LEMMA BusStep ==
  ASSUME BusTypeOK, KeptUnlessRaced, [BusNext]_busVars PROVE BusTypeOK' /\ KeptUnlessRaced'
BY BusTypeStep, KeptStep

(***************************************************************************)
(* The loop has a channel, and what hosts publish are values of the bus.   *)
(***************************************************************************)
LEMMA Constants == /\ ui \in Sub
                   /\ {"move", "key", "resize", "expose", "density", "close"} \subseteq Value
<1>1. <<ui, "close">> \in Sub \X Value BY BusAssumption, WindowAssumption
<1>2. {EventOf(k) : k \in Attr} = {"resize", "expose", "density"} BY DEF EventOf, Attr
<1>3. QED BY <1>1, <1>2, WindowAssumption

(***************************************************************************)
(* The end of a context alone concerns neither.                            *)
(***************************************************************************)
LEMMA ContextStep ==
  ASSUME BusTypeOK, KeptUnlessRaced, ctxDone' \in {ctxDone, ctxDone \cup {ui}},
         UNCHANGED <<subs, shut, chan, pub, raced, dropped>>
  PROVE  BusTypeOK' /\ KeptUnlessRaced'
BY Constants DEF BusTypeOK, KeptUnlessRaced

(***************************************************************************)
(* The loop uses the bus as a subscriber may: it subscribes, receives and  *)
(* ends its context.                                                       *)
(***************************************************************************)
LEMMA LoopStep == ASSUME WInv, Loop PROVE WInv'
<1> USE DEF WInv
<1>1. CASE loopStart
  <2>1. BusNext BY <1>1, Constants DEF loopStart, BusNext
  <2>2. QED BY <1>1, <2>1, BusStep DEF loopStart, bufVars, EmitOK
<1>2. CASE drainEvents
  <2>1. EmitOK' BY <1>2 DEF drainEvents, bufVars, EmitOK
  <2>2. ui \in Sub /\ chan[ui] # <<>> /\ chan' = [chan EXCEPT ![ui] = Tail(@)]
    BY <1>2, Constants DEF drainEvents
  <2>3. ChanOK(chan') /\ \A r \in Sub : Len(chan'[r]) <= Len(chan[r]) BY <2>2, TailResult
  <2>4. UNCHANGED <<subs, shut, pub, raced, dropped>> /\ ctxDone' \subseteq ctxDone \cup {ui}
    BY <1>2 DEF drainEvents
  <2>5. BusTypeOK' BY <2>2, <2>3, <2>4 DEF BusTypeOK, ChanOK
  <2>6. KeptUnlessRaced' BY <2>3, <2>4, <2>5, RoomKept
  <2>7. QED BY <2>1, <2>5, <2>6
<1>3. CASE finishResize \/ tick \/ render \/ paint \/ hold
  <2>1. UNCHANGED busVars /\ UNCHANGED emit
    BY <1>3 DEF finishResize, tick, render, paint, hold, bufVars
  <2>2. QED BY <2>1, BusStep DEF EmitOK
<1>4. CASE loopReturn \/ command \/ flushFails
  <2>1. /\ ctxDone' \in {ctxDone, ctxDone \cup {ui}} /\ UNCHANGED emit
        /\ UNCHANGED <<subs, shut, chan, pub, raced, dropped>>
    BY <1>4 DEF loopReturn, command, flushFails, Stop, bufVars
  <2>2. QED BY <2>1, ContextStep DEF EmitOK
<1>5. QED BY <1>1, <1>2, <1>3, <1>4 DEF Loop

(***************************************************************************)
(* Hosts use the bus as publishers do, with what they stored to publish.   *)
(***************************************************************************)
LEMMA HostStep == ASSUME WInv, NEW h \in Publisher, Host(h) PROVE WInv'
<1> USE DEF WInv
<1>1. ASSUME NEW ev \in {"key", "move"}, Emit(h, ev) PROVE WInv'
  <2>1. keepEvent(ev) \in BOOLEAN BY DEF keepEvent
  <2>2. BusNext BY <1>1, <2>1, Constants DEF Emit, BusNext
  <2>3. QED BY <1>1, <2>2, BusStep DEF Emit, EmitOK
<1>2. ASSUME NEW ks, NEW ev \in {"density", "expose", "resize", "close"}, NEW k \in BOOLEAN,
             Change(h, ks, ev, k)
      PROVE  WInv'
  <2>1. [val |-> ev, keep |-> k] \in [val : Value, keep : BOOLEAN] BY Constants
  <2>2. EmitOK' BY <1>2, <2>1 DEF Change, EmitOK
  <2>3. QED BY <1>2, <2>2, BusStep DEF Change
<1>3. CASE emitLater(h)
  <2>1. PICK m \in emit[h] : publish(h, m.val, m.keep) BY <1>3 DEF emitLater
  <2>2. m.val \in Value /\ m.keep \in BOOLEAN BY DEF EmitOK
  <2>3. BusNext BY <2>1, <2>2 DEF BusNext
  <2>4. EmitOK' BY <1>3 DEF emitLater, EmitOK
  <2>5. QED BY <2>3, <2>4, BusStep
<1>4. QED BY <1>1, <1>2, <1>3 DEF Host, storeScale, Close, SetDead, Resize

(***************************************************************************)
(* The bus of a window starts with the other subscribers' channels full,   *)
(* and every step of the window keeps what is proved of the bus.           *)
(***************************************************************************)
LEMMA InitWInv == Init => WInv
<1> SUFFICES ASSUME Init PROVE WInv OBVIOUS
<1>1. \A s \in Sub : chan[s] \in Seq(Value) /\ Len(chan[s]) <= Cap
  <2>1. [i \in 1..Cap |-> "move"] \in Seq(Value) /\ Len([i \in 1..Cap |-> "move"]) = Cap
    BY BusAssumption, Constants
  <2>2. <<>> \in Seq(Value) /\ Len(<<>>) = 0 OBVIOUS
  <2>3. \A s \in Sub : chan[s] \in {<<>>, [i \in 1..Cap |-> "move"]} BY DEF Init
  <2>4. 0 <= Cap /\ Cap <= Cap BY BusAssumption
  <2>5. QED BY <2>1, <2>2, <2>3, <2>4
<1>2. chan \in [Sub -> Seq(Value)]
  <2>1. chan = [s \in Sub |-> chan[s]] BY DEF Init
  <2>2. QED BY <1>1, <2>1
<1>3. BusTypeOK BY <1>1, <1>2 DEF Init, BusInit, BusTypeOK
<1>4. KeptUnlessRaced BY DEF Init, BusInit, KeptUnlessRaced, Idle
<1>5. EmitOK BY DEF Init, EmitOK
<1>6. QED BY <1>3, <1>4, <1>5 DEF WInv

LEMMA WInvStep == ASSUME WInv, [Next]_vars PROVE WInv'
<1>1. CASE Loop BY <1>1, LoopStep
<1>2. CASE Bus
  <2>1. BusNext /\ UNCHANGED emit BY <1>2 DEF Bus, BusNext, bufVars
  <2>2. QED BY <2>1, BusStep DEF WInv, EmitOK
<1>3. CASE \E h \in Publisher : Host(h) BY <1>3, HostStep
<1>4. CASE UNCHANGED vars
  <2>1. UNCHANGED busVars /\ UNCHANGED emit BY <1>4 DEF vars, bufVars
  <2>2. QED BY <2>1, BusStep DEF WInv, EmitOK
<1>5. QED BY <1>1, <1>2, <1>3, <1>4 DEF Next

(***************************************************************************)
(* In a window with any number of hosts and other subscribers, a host that *)
(* publishes a kept event to a full subscriber finds the room it has made, *)
(* unless another host has sent there since.                               *)
(***************************************************************************)
THEOREM WindowKeepsNewest == Spec => []KeptUnlessRaced
<1>1. WInv => KeptUnlessRaced BY DEF WInv
<1>2. QED BY InitWInv, WInvStep, <1>1, PTL DEF Spec

-----------------------------------------------------------------------------
(* The picture *)

(***************************************************************************)
(* A publisher has the loop's channel still to do.                         *)
(***************************************************************************)
ToUi(h) == pub[h].at # "idle" /\ ui \in {pub[h].ch} \cup pub[h].left

(***************************************************************************)
(* An event is on its way to the loop: a host is about to publish it, a    *)
(* publisher has it, or it is queued.                                      *)
(***************************************************************************)
Carried(v) ==
  \/ \E h \in Publisher : (\E m \in emit[h] : m.val = v) \/ (ToUi(h) /\ pub[h].val = v)
  \/ \E i \in 1..Len(chan[ui]) : chan[ui][i] = v

(***************************************************************************)
(* Why the loop will make a picture for a change of k: because of where it *)
(* is, or because the event of the change, or with a model that has no     *)
(* Consume any event, is on its way.                                       *)
(***************************************************************************)
LoopDue(k) == pc \in {"start", "force", "done"} \/ dirty \/ (k = "size" /\ saw)

BusDue(k) ==
  \/ ui \notin subs
  \/ Carried(EventOf(k))
  \/ lazy /\ <<ui, EventOf(k)>> \in dropped
  \/ ~lazy /\ (chan[ui] # <<>> \/ \E h \in Publisher : ToUi(h))

Flushing == pc \in {"flush", "force", "paint"}

LoopOK ==
  /\ pc \in {"start", "select", "drain", "flush", "force", "paint", "done"}
  /\ cont \in {"select", "drain", "done"}
  /\ saw \in BOOLEAN /\ dirty \in BOOLEAN /\ lazy \in BOOLEAN
  /\ old \subseteq Attr /\ oldPict \subseteq Attr
  /\ pc \in {"start", "select"} \/ (Flushing /\ cont = "select") => ~saw

(***************************************************************************)
(* Every attribute the screen is old in is one that the picture about to   *)
(* be painted has right, or one for which another picture is due.          *)
(***************************************************************************)
Shown ==
  /\ \A k \in old : (pc = "paint" /\ k \notin oldPict) \/ LoopDue(k) \/ BusDue(k)
  /\ pc = "paint" => oldPict \subseteq old

(* A host publishes what it stored before it is called again. *)
OneEmit == \A h \in Publisher : \A m, n \in emit[h] : m = n

PInv == WInv /\ OneEmit /\ LoopOK /\ Shown

(***************************************************************************)
(* A publisher that goes on with channels todo has the loop's among them.  *)
(***************************************************************************)
LEMMA VisitUi ==
  ASSUME BusTypeOK, NEW p \in Publisher, NEW v, NEW k, NEW todo,
         NEW m, m.val = v, m.keep = k, Visit(p, m, todo), ui \in todo
  PROVE  ToUi(p)' /\ pub'[p].val = v
<1>1. PICK s \in todo : pub' = [pub EXCEPT ![p] = [at |-> "send", val |-> v, keep |-> k,
                                                   ch |-> s, left |-> todo \ {s}]]
  BY DEF Visit
<1>2. pub'[p] = [at |-> "send", val |-> v, keep |-> k, ch |-> s, left |-> todo \ {s}]
  BY <1>1 DEF BusTypeOK
<1>3. QED BY <1>2 DEF ToUi

(***************************************************************************)
(* What a step of a publisher does to the loop's channel: nothing, with    *)
(* the channel still to do; a send; a skip of a full channel; or the       *)
(* receive that makes room.                                                *)
(***************************************************************************)
Lost(v) == <<ui, v>> \in Watched => <<ui, v>> \in dropped'

LEMMA UiStep ==
  ASSUME BusTypeOK, NEW p \in Publisher, Publishing(p), ui \in subs
  PROVE  /\ subs' = subs /\ dropped \subseteq dropped'
         /\ \A q \in Publisher \ {p} : pub'[q] = pub[q]
         /\ \/ chan'[ui] = chan[ui] /\ (ToUi(p) => ToUi(p)' /\ pub'[p].val = pub[p].val)
            \/ chan'[ui] = Append(chan[ui], pub[p].val)
            \/ chan'[ui] = chan[ui] /\ chan[ui] # <<>> /\ Lost(pub[p].val)
            \/ /\ chan[ui] # <<>> /\ chan'[ui] = Tail(chan[ui]) /\ Lost(Head(chan[ui]))
               /\ ToUi(p)' /\ pub'[p].val = pub[p].val
<1>1. ui \in Sub /\ ui \notin shut BY Constants DEF BusTypeOK
<1>2. pub[p].at # "idle" BY DEF Publishing, send, take, sendAgain
<1>3. pub[p] \in Busy /\ pub[p].ch \in Sub /\ pub[p].left \in SUBSET Sub BY <1>2, BusyFields
<1>4. chan \in [Sub -> Seq(Value)] /\ chan[ui] \in Seq(Value) BY <1>1 DEF BusTypeOK
<1>5. Cap \in Nat /\ Cap # 0 BY BusAssumption
<1>6. subs' = subs BY DEF Publishing, send, take, sendAgain
<1>7. dropped \subseteq dropped' BY DEF Publishing, send, take, sendAgain, Send, Skip, Lose
<1>8. ASSUME nextChannel(p) PROVE \A q \in Publisher \ {p} : pub'[q] = pub[q]
  BY <1>2, <1>8, NextChannelResult
<1>9. ASSUME nextChannel(p), ui \in pub[p].left PROVE ToUi(p)' /\ pub'[p].val = pub[p].val
  BY <1>9, VisitUi DEF nextChannel
<1>10. ASSUME NEW a \in {"take", "again"}, pub' = [pub EXCEPT ![p].at = a]
       PROVE  /\ \A q \in Publisher \ {p} : pub'[q] = pub[q]
              /\ pub'[p].val = pub[p].val /\ (ToUi(p) => ToUi(p)')
  <2>1. pub'[p] = [pub[p] EXCEPT !.at = a] BY <1>10 DEF BusTypeOK
  <2>2. pub'[p].val = pub[p].val /\ pub'[p].ch = pub[p].ch /\ pub'[p].left = pub[p].left /\ pub'[p].at = a
    BY <1>3, <2>1 DEF Busy
  <2>3. QED BY <1>2, <1>10, <2>2, AttemptResult DEF ToUi
<1>11. ASSUME nextChannel(p), Send(p, pub[p].ch)
       PROVE  \/ chan'[ui] = chan[ui] /\ (ToUi(p) => ToUi(p)' /\ pub'[p].val = pub[p].val)
              \/ chan'[ui] = Append(chan[ui], pub[p].val)
  <2>1. CASE pub[p].ch = ui BY <1>1, <1>4, <1>11, <2>1 DEF Send
  <2>2. CASE pub[p].ch # ui
    <3>1. chan'[ui] = chan[ui] BY <1>1, <1>4, <1>11, <2>2 DEF Send
    <3>2. QED BY <1>9, <1>11, <2>2, <3>1 DEF ToUi
  <2>3. QED BY <2>1, <2>2
<1>12. ASSUME nextChannel(p), UNCHANGED chan, pub[p].ch # ui
       PROVE  chan'[ui] = chan[ui] /\ (ToUi(p) => ToUi(p)' /\ pub'[p].val = pub[p].val)
  BY <1>9, <1>12 DEF ToUi
<1>13. ASSUME nextChannel(p), Len(chan[pub[p].ch]) = Cap, Skip(pub[p].ch, pub[p].val)
       PROVE  \/ chan'[ui] = chan[ui] /\ (ToUi(p) => ToUi(p)' /\ pub'[p].val = pub[p].val)
              \/ chan'[ui] = chan[ui] /\ chan[ui] # <<>> /\ Lost(pub[p].val)
  <2>1. CASE pub[p].ch = ui
    <3>1. chan[ui] # <<>> BY <1>4, <1>5, <1>13, <2>1
    <3>2. Lost(pub[p].val) BY <1>13, <2>1 DEF Skip, Lose, Lost
    <3>3. QED BY <1>13, <3>1, <3>2 DEF Skip
  <2>2. CASE pub[p].ch # ui BY <1>12, <1>13, <2>2 DEF Skip
  <2>3. QED BY <2>1, <2>2
<1>14. CASE send(p)
  <2>1. CASE pub[p].ch \in shut /\ nextChannel(p) /\ UNCHANGED <<chan, raced, dropped>>
    BY <1>1, <1>6, <1>7, <1>8, <1>12, <2>1
  <2>2. CASE Send(p, pub[p].ch) /\ nextChannel(p) BY <1>6, <1>7, <1>8, <1>11, <2>2
  <2>3. CASE Len(chan[pub[p].ch]) = Cap /\ Skip(pub[p].ch, pub[p].val) /\ nextChannel(p)
    BY <1>6, <1>7, <1>8, <1>13, <2>3
  <2>4. CASE pub' = [pub EXCEPT ![p].at = "take"] /\ UNCHANGED chan
    BY <1>6, <1>7, <1>10, <2>4
  <2>5. QED BY <1>14, <2>1, <2>2, <2>3, <2>4 DEF send
<1>15. CASE take(p)
  <2>1. pub' = [pub EXCEPT ![p].at = "again"] BY <1>15 DEF take
  <2>2. CASE pub[p].ch = ui /\ chan[ui] # <<>>
    <3>1. chan'[ui] = Tail(chan[ui]) /\ Lost(Head(chan[ui]))
      BY <1>1, <1>4, <1>15, <2>2 DEF take, Lose, Lost
    <3>2. ToUi(p) BY <1>2, <2>2 DEF ToUi
    <3>3. QED BY <1>6, <1>7, <1>10, <2>1, <2>2, <3>1, <3>2
  <2>3. CASE pub[p].ch # ui \/ chan[ui] = <<>>
    <3>1. chan'[ui] = chan[ui] BY <1>1, <1>3, <1>4, <1>15, <2>3 DEF take
    <3>2. QED BY <1>6, <1>7, <1>10, <2>1, <3>1
  <2>4. QED BY <2>2, <2>3
<1>16. CASE sendAgain(p)
  <2>1. CASE pub[p].ch \in shut /\ UNCHANGED <<chan, raced, dropped>>
    BY <1>1, <1>6, <1>7, <1>8, <1>12, <1>16, <2>1 DEF sendAgain
  <2>2. CASE Send(p, pub[p].ch) BY <1>6, <1>7, <1>8, <1>11, <1>16, <2>2 DEF sendAgain
  <2>3. CASE Len(chan[pub[p].ch]) = Cap /\ Skip(pub[p].ch, pub[p].val)
    BY <1>6, <1>7, <1>8, <1>13, <1>16, <2>3 DEF sendAgain
  <2>4. QED BY <1>16, <2>1, <2>2, <2>3 DEF sendAgain
<1>17. QED BY <1>14, <1>15, <1>16 DEF Publishing

(***************************************************************************)
(* The events that the loop is told of are watched.                        *)
(***************************************************************************)
LEMMA EventWatched == ASSUME NEW k \in Attr PROVE <<ui, EventOf(k)>> \in Watched
BY WindowAssumption

(***************************************************************************)
(* A sequence with one more element.                                       *)
(***************************************************************************)
LEMMA AppendFacts ==
  ASSUME NEW S, NEW s \in Seq(S), NEW x \in S
  PROVE  /\ Append(s, x) # <<>> /\ Len(Append(s, x)) = Len(s) + 1
         /\ Append(s, x)[Len(s) + 1] = x
         /\ \A i \in 1..Len(s) : Append(s, x)[i] = s[i]
<1>1. Len(Append(s, x)) = Len(s) + 1 /\ Append(s, x)[Len(s) + 1] = x OBVIOUS
<1>2. Append(s, x) # <<>> BY <1>1
<1>3. \A i \in 1..Len(s) : Append(s, x)[i] = s[i] OBVIOUS
<1>4. QED BY <1>1, <1>2, <1>3

(***************************************************************************)
(* What is due stays due when a publisher goes on, which at worst loses    *)
(* the event on a channel that is full of others.                          *)
(***************************************************************************)
LEMMA PublishingDue ==
  ASSUME BusTypeOK, NEW p \in Publisher, Publishing(p), NEW k \in Attr, lazy \in BOOLEAN,
         UNCHANGED <<emit, lazy>>, BusDue(k)
  PROVE  BusDue(k)'
<1> DEFINE v == EventOf(k)
<1>1. CASE ui \notin subs
  <2>1. subs' = subs BY DEF Publishing, send, take, sendAgain
  <2>2. QED BY <1>1, <2>1 DEF BusDue
<1>2. CASE ui \in subs
  <2>0. <<ui, v>> \in Watched BY EventWatched
  <2>1. /\ subs' = subs /\ dropped \subseteq dropped'
        /\ \A q \in Publisher \ {p} : pub'[q] = pub[q]
    BY <1>2, UiStep
  <2>2. chan[ui] \in Seq(Value) BY Constants DEF BusTypeOK
  <2>3. \A q \in Publisher \ {p} : ToUi(q) => ToUi(q)' /\ pub'[q].val = pub[q].val
    BY <2>1 DEF ToUi
  <2>4. ASSUME NEW h \in Publisher, NEW m \in emit[h], m.val = v PROVE BusDue(k)'
    BY <2>4 DEF BusDue, Carried
  <2>5. ASSUME lazy, <<ui, v>> \in dropped PROVE BusDue(k)' BY <2>1, <2>5 DEF BusDue
  <2>6. ASSUME NEW q \in Publisher \ {p}, ToUi(q), pub[q].val = v \/ ~lazy PROVE BusDue(k)'
    BY <2>3, <2>6 DEF BusDue, Carried
  <2>7. CASE chan'[ui] = chan[ui] /\ (ToUi(p) => ToUi(p)' /\ pub'[p].val = pub[p].val)
    <3>1. ASSUME ToUi(p), pub[p].val = v \/ ~lazy PROVE BusDue(k)'
      BY <2>7, <3>1 DEF BusDue, Carried
    <3>2. ASSUME NEW i \in 1..Len(chan[ui]), chan[ui][i] = v PROVE BusDue(k)'
      BY <2>7, <3>2 DEF BusDue, Carried
    <3>3. ASSUME ~lazy, chan[ui] # <<>> PROVE BusDue(k)' BY <2>7, <3>3 DEF BusDue
    <3>4. QED BY <1>2, <2>4, <2>5, <2>6, <3>1, <3>2, <3>3 DEF BusDue, Carried
  <2>8. CASE chan'[ui] = Append(chan[ui], pub[p].val)
    <3>1. pub[p].at # "idle" BY DEF Publishing, send, take, sendAgain
    <3>2. pub[p].val \in Value BY <3>1, BusyFields
    <3>3. /\ chan'[ui] # <<>> /\ Len(chan'[ui]) = Len(chan[ui]) + 1
          /\ chan'[ui][Len(chan[ui]) + 1] = pub[p].val
          /\ \A i \in 1..Len(chan[ui]) : chan'[ui][i] = chan[ui][i]
      BY <2>2, <2>8, <3>2, AppendFacts
    <3>4. Len(chan[ui]) \in Nat BY <2>2
    <3>5. CASE lazy
      <4>1. ASSUME pub[p].val = v PROVE BusDue(k)'
        <5>1. Len(chan[ui]) + 1 \in 1..Len(chan'[ui]) BY <3>3, <3>4
        <5>2. QED BY <3>3, <4>1, <5>1 DEF BusDue, Carried
      <4>2. ASSUME NEW i \in 1..Len(chan[ui]), chan[ui][i] = v PROVE BusDue(k)'
        <5>1. i \in 1..Len(chan'[ui]) BY <3>3, <3>4
        <5>2. QED BY <3>3, <4>2, <5>1 DEF BusDue, Carried
      <4>3. QED BY <1>2, <2>4, <2>5, <2>6, <3>5, <4>1, <4>2 DEF BusDue, Carried
    <3>6. CASE ~lazy BY <3>3, <3>6 DEF BusDue
    <3>7. QED BY <3>5, <3>6
  <2>9. CASE chan'[ui] = chan[ui] /\ chan[ui] # <<>> /\ Lost(pub[p].val)
    <3>1. CASE lazy
      <4>1. ASSUME pub[p].val = v PROVE BusDue(k)' BY <2>0, <2>9, <3>1, <4>1 DEF BusDue, Lost
      <4>2. ASSUME NEW i \in 1..Len(chan[ui]), chan[ui][i] = v PROVE BusDue(k)'
        BY <2>9, <4>2 DEF BusDue, Carried
      <4>3. QED BY <1>2, <2>4, <2>5, <2>6, <3>1, <4>1, <4>2 DEF BusDue, Carried
    <3>2. CASE ~lazy BY <2>9, <3>2 DEF BusDue
    <3>3. QED BY <3>1, <3>2
  <2>10. CASE /\ chan[ui] # <<>> /\ chan'[ui] = Tail(chan[ui]) /\ Lost(Head(chan[ui]))
              /\ ToUi(p)' /\ pub'[p].val = pub[p].val
    <3>1. CASE lazy
      <4>1. ASSUME pub[p].val = v PROVE BusDue(k)' BY <2>10, <4>1 DEF BusDue, Carried
      <4>2. ASSUME NEW i \in 1..Len(chan[ui]), chan[ui][i] = v PROVE BusDue(k)'
        <5>1. CASE i = 1
          <6>1. Head(chan[ui]) = v BY <2>2, <2>10, <4>2, <5>1
          <6>2. QED BY <2>0, <2>10, <3>1, <6>1 DEF BusDue, Lost
        <5>2. CASE i # 1
          <6>1. i - 1 \in 1..Len(chan'[ui]) /\ chan'[ui][i - 1] = v BY <2>2, <2>10, <4>2, <5>2
          <6>2. QED BY <6>1 DEF BusDue, Carried
        <5>3. QED BY <5>1, <5>2
      <4>3. QED BY <1>2, <2>4, <2>5, <2>6, <3>1, <4>1, <4>2 DEF BusDue, Carried
    <3>2. CASE ~lazy BY <2>10, <3>2 DEF BusDue
    <3>3. QED BY <3>1, <3>2
  <2>11. QED BY <1>2, <2>7, <2>8, <2>9, <2>10, UiStep
<1>3. QED BY <1>1, <1>2

(***************************************************************************)
(* It stays due when a host begins to publish.                             *)
(***************************************************************************)
LEMMA PublishDue ==
  ASSUME BusTypeOK, NEW h \in Publisher, NEW v, NEW keep, publish(h, v, keep), lazy' = lazy,
         NEW k \in Attr, BusDue(k),
         \A q \in Publisher \ {h} : emit'[q] = emit[q],
         \A m \in emit[h] : m.val = v
  PROVE  BusDue(k)'
<1>1. /\ UNCHANGED <<subs, chan, dropped>> /\ pub[h] = Idle
      /\ Visit(h, [val |-> v, keep |-> keep], subs)
  BY DEF publish
<1>2. \A q \in Publisher \ {h} : pub'[q] = pub[q] BY <1>1 DEF Visit, BusTypeOK
<1>3. ~ToUi(h) BY <1>1 DEF ToUi, Idle
<1>4. ui \in subs => ToUi(h)' /\ pub'[h].val = v BY <1>1, VisitUi
<1>5. \A q \in Publisher \ {h} : ToUi(q) => ToUi(q)' /\ pub'[q].val = pub[q].val BY <1>2 DEF ToUi
<1>6. CASE ui \notin subs BY <1>1, <1>6 DEF BusDue
<1>7. CASE ui \in subs
  <2>1. ASSUME Carried(EventOf(k)) PROVE Carried(EventOf(k))'
    BY <1>1, <1>3, <1>4, <1>5, <1>7, <2>1 DEF Carried
  <2>2. QED BY <1>1, <1>3, <1>5, <1>7, <2>1 DEF BusDue
<1>8. QED BY <1>6, <1>7

(***************************************************************************)
(* It stays due when nothing but contexts, and what hosts have still to    *)
(* publish, changes.                                                       *)
(***************************************************************************)
LEMMA DueKept ==
  ASSUME NEW k \in Attr, BusDue(k), UNCHANGED <<chan, pub, dropped, lazy>>,
         ui \in subs' => ui \in subs, \A h \in Publisher : emit[h] \subseteq emit'[h]
  PROVE  BusDue(k)'
<1>1. \A h \in Publisher : ToUi(h) <=> ToUi(h)' BY DEF ToUi
<1>2. Carried(EventOf(k)) => Carried(EventOf(k))' BY <1>1 DEF Carried
<1>3. QED BY <1>1, <1>2 DEF BusDue

(***************************************************************************)
(* A step that changes neither the loop nor the buffer's attributes, and   *)
(* keeps what is due by the bus.                                           *)
(***************************************************************************)
LEMMA QuietStep ==
  ASSUME PInv, UNCHANGED <<loopVars, old, oldPict>>,
         \A k \in Attr : BusDue(k) => BusDue(k)'
  PROVE  LoopOK' /\ Shown'
<1>1. LoopOK' BY DEF PInv, LoopOK, loopVars, Flushing
<1>2. \A k \in Attr : LoopDue(k)' <=> LoopDue(k) BY DEF LoopDue, loopVars
<1>3. Shown' BY <1>2 DEF PInv, LoopOK, Shown, loopVars
<1>4. QED BY <1>1, <1>3

(***************************************************************************)
(* A host's change makes the screen old in an attribute whose event the    *)
(* host then has to publish.                                               *)
(***************************************************************************)
LEMMA ChangeShown ==
  ASSUME PInv, NEW h \in Publisher, NEW ks \in SUBSET Attr, NEW ev, NEW keep,
         \A k \in ks : EventOf(k) = ev, Change(h, ks, ev, keep)
  PROVE  LoopOK' /\ Shown'
<1>1. /\ emit[h] = {} /\ emit' = [emit EXCEPT ![h] = {[val |-> ev, keep |-> keep]}]
      /\ old' = old \cup ks /\ oldPict' = (IF pc = "paint" THEN oldPict \cup ks ELSE {})
      /\ UNCHANGED <<busVars, loopVars>>
  BY DEF Change, Call
<1>2. emit \in [Publisher -> SUBSET [val : Value, keep : BOOLEAN]] BY DEF PInv, WInv, EmitOK
<1>3. \A q \in Publisher : emit[q] \subseteq emit'[q] BY <1>1, <1>2
<1>4. \A k \in Attr : BusDue(k) => BusDue(k)' BY <1>1, <1>3, DueKept DEF busVars, loopVars
<1>5. ASSUME NEW k \in ks PROVE BusDue(k)'
  <2>1. [val |-> ev, keep |-> keep] \in emit'[h] BY <1>1, <1>2
  <2>2. [val |-> ev, keep |-> keep].val = EventOf(k) OBVIOUS
  <2>3. QED BY <2>1, <2>2 DEF BusDue, Carried
<1>6. \A k \in Attr : LoopDue(k)' <=> LoopDue(k) BY <1>1 DEF LoopDue, loopVars
<1>7. LoopOK' BY <1>1 DEF PInv, LoopOK, loopVars, Flushing
<1>8. Shown' BY <1>1, <1>4, <1>5, <1>6 DEF PInv, LoopOK, Shown, loopVars
<1>9. QED BY <1>7, <1>8

LEMMA HostShown == ASSUME PInv, NEW h \in Publisher, Host(h) PROVE LoopOK' /\ Shown'
<1>0. BusTypeOK BY DEF PInv, WInv
<1>1. ASSUME NEW ev, Emit(h, ev) PROVE LoopOK' /\ Shown'
  <2>1. /\ emit[h] = {} /\ publish(h, ev, keepEvent(ev))
        /\ UNCHANGED <<emit, loopVars, old, oldPict>>
    BY <1>1 DEF Emit, Call
  <2>2. \A k \in Attr : BusDue(k) => BusDue(k)' BY <1>0, <2>1, PublishDue DEF loopVars
  <2>3. QED BY <2>1, <2>2, QuietStep
<1>2. CASE emitLater(h)
  <2>1. PICK m \in emit[h] : publish(h, m.val, m.keep) BY <1>2 DEF emitLater
  <2>2. emit' = [emit EXCEPT ![h] = {}] /\ UNCHANGED <<loopVars, old, oldPict>>
    BY <1>2 DEF emitLater
  <2>3. \A q \in Publisher \ {h} : emit'[q] = emit[q] BY <2>2 DEF PInv, WInv, EmitOK
  <2>4. ASSUME NEW n \in emit[h] PROVE n = m BY DEF PInv, OneEmit
  <2>5. \A k \in Attr : BusDue(k) => BusDue(k)'
    BY <1>0, <2>1, <2>2, <2>3, <2>4, PublishDue DEF loopVars
  <2>6. QED BY <2>2, <2>5, QuietStep
<1>3. EventOf("size") = "resize" /\ EventOf("dead") = "expose" /\ EventOf("scale") = "density"
  BY DEF EventOf
<1>4. CASE storeScale(h)
  <2>1. {"scale"} \in SUBSET Attr /\ Change(h, {"scale"}, "density", TRUE)
    BY <1>4 DEF storeScale, Attr
  <2>2. QED BY <1>3, <2>1, ChangeShown
<1>5. CASE SetDead(h)
  <2>1. {"dead"} \in SUBSET Attr /\ Change(h, {"dead"}, "expose", FALSE) BY <1>5 DEF SetDead, Attr
  <2>2. QED BY <1>3, <2>1, ChangeShown
<1>6. CASE Resize(h)
  <2>1. {"size"} \in SUBSET Attr /\ Change(h, {"size"}, "resize", FALSE) BY <1>6 DEF Resize, Attr
  <2>2. QED BY <1>3, <2>1, ChangeShown
<1>7. CASE Close(h)
  <2>1. {} \in SUBSET Attr /\ Change(h, {}, "close", FALSE) BY <1>7 DEF Close
  <2>2. QED BY <2>1, ChangeShown
<1>8. QED BY <1>1, <1>2, <1>4, <1>5, <1>6, <1>7 DEF Host

(***************************************************************************)
(* The loop receives an event: it makes a picture for it, or notes to.     *)
(***************************************************************************)
LEMMA DrainShown == ASSUME PInv, drainEvents PROVE LoopOK' /\ Shown'
<1> DEFINE ev == Head(chan[ui])
<1>1. /\ pc \in {"select", "drain"} /\ chan[ui] # <<>>
      /\ handle(ev) /\ saw' = sawResize(ev)
      /\ chan' = [chan EXCEPT ![ui] = Tail(@)]
      /\ UNCHANGED <<subs, pub, dropped, emit, lazy, old, oldPict>>
  BY DEF drainEvents, bufVars
<1>2. chan \in [Sub -> Seq(Value)] /\ ui \in Sub /\ chan[ui] \in Seq(Value)
  BY Constants DEF PInv, WInv, BusTypeOK
<1>3. LoopOK BY DEF PInv
<1>4. chan'[ui] = Tail(chan[ui]) BY <1>1, <1>2
<1>5. dirty' \in BOOLEAN /\ (dirty \/ ~lazy => dirty') BY <1>1, <1>3 DEF handle, Delivered, LoopOK
<1>6. saw' \in BOOLEAN /\ (saw \/ ev = "resize" => saw')
  BY <1>1, <1>3 DEF LoopOK, sawResize
<1>7. /\ ev = "close" => pc' = "done" /\ cont' = cont
      /\ ev \in {"expose", "density"} => pc' = "force" /\ cont' = "drain"
      /\ ev \notin {"close", "expose", "density"} => pc' = "drain" /\ cont' = cont
  BY <1>1 DEF handle, Flush
<1>8. LoopOK' BY <1>1, <1>3, <1>5, <1>6, <1>7 DEF LoopOK, Flushing
<1>9. \A h \in Publisher : ToUi(h) <=> ToUi(h)' BY <1>1 DEF ToUi
<1>10. ASSUME NEW k \in Attr, Carried(EventOf(k)) PROVE LoopDue(k)' \/ BusDue(k)'
  <2>1. ASSUME NEW h \in Publisher, \/ \E m \in emit[h] : m.val = EventOf(k)
                                    \/ ToUi(h) /\ pub[h].val = EventOf(k)
        PROVE  BusDue(k)'
    BY <1>1, <1>9, <2>1 DEF BusDue, Carried
  <2>2. ASSUME NEW i \in 1..Len(chan[ui]), chan[ui][i] = EventOf(k) PROVE LoopDue(k)' \/ BusDue(k)'
    <3>1. CASE i = 1
      <4>1. ev = EventOf(k) BY <1>1, <1>2, <2>2, <3>1
      <4>2. QED BY <1>6, <1>7, <4>1 DEF EventOf, Attr, LoopDue
    <3>2. CASE i # 1
      <4>1. i - 1 \in 1..Len(chan'[ui]) /\ chan'[ui][i - 1] = EventOf(k)
        BY <1>1, <1>2, <1>4, <2>2, <3>2
      <4>2. QED BY <4>1 DEF BusDue, Carried
    <3>3. QED BY <3>1, <3>2
  <2>3. QED BY <1>10, <2>1, <2>2 DEF Carried
<1>11. ASSUME NEW k \in Attr, BusDue(k) PROVE LoopDue(k)' \/ BusDue(k)'
  <2>1. CASE ui \notin subs BY <1>1, <2>1 DEF BusDue
  <2>2. CASE Carried(EventOf(k)) BY <1>10, <2>2
  <2>3. CASE lazy /\ <<ui, EventOf(k)>> \in dropped BY <1>1, <2>3 DEF BusDue
  <2>4. CASE ~lazy BY <1>5, <2>4 DEF LoopDue
  <2>5. QED BY <1>11, <2>1, <2>2, <2>3, <2>4 DEF BusDue
<1>12. ASSUME NEW k \in Attr, LoopDue(k) PROVE LoopDue(k)' BY <1>1, <1>5, <1>6, <1>12 DEF LoopDue
<1>13. Shown' BY <1>1, <1>3, <1>7, <1>11, <1>12 DEF PInv, LoopOK, Shown
<1>14. QED BY <1>8, <1>13

(***************************************************************************)
(* A step of the loop that leaves the bus and the hosts alone.             *)
(***************************************************************************)
LEMMA BusKept ==
  ASSUME UNCHANGED <<subs, chan, pub, dropped, emit, lazy>>, NEW k \in Attr
  PROVE  BusDue(k) <=> BusDue(k)'
<1>1. \A h \in Publisher : ToUi(h) <=> ToUi(h)' BY DEF ToUi
<1>2. Carried(EventOf(k)) <=> Carried(EventOf(k))' BY <1>1 DEF Carried
<1>3. QED BY <1>1, <1>2 DEF BusDue

LEMMA LoopShown == ASSUME PInv, Loop PROVE LoopOK' /\ Shown'
<1>1. LoopOK /\ Shown BY DEF PInv
<1>2. CASE loopStart
  <2>1. LoopOK' BY <1>1, <1>2 DEF loopStart, Flush, LoopOK, Flushing
  <2>2. Shown' BY <1>1, <1>2 DEF loopStart, Flush, Shown, LoopDue
  <2>3. QED BY <2>1, <2>2
<1>3. CASE drainEvents BY <1>3, DrainShown
<1>4. CASE finishResize
  <2>1. \A k \in Attr : BusDue(k) <=> BusDue(k)' BY <1>4, BusKept DEF finishResize, busVars, bufVars
  <2>2. LoopOK' BY <1>1, <1>4 DEF finishResize, Flush, LoopOK, Flushing
  <2>3. \A k \in Attr : LoopDue(k) => LoopDue(k)' BY <1>4 DEF finishResize, Flush, LoopDue
  <2>4. Shown' BY <1>1, <1>4, <2>1, <2>3 DEF finishResize, Flush, Shown, LoopOK
  <2>5. QED BY <2>2, <2>4
<1>5. CASE pc' = "done" /\ UNCHANGED <<cont, saw, dirty, lazy, old, oldPict>>
  BY <1>1, <1>5 DEF LoopOK, Shown, LoopDue, Flushing
<1>6. CASE loopReturn \/ flushFails BY <1>5, <1>6 DEF loopReturn, flushFails, Stop
<1>7. CASE command
  <2>1. \A k \in Attr : BusDue(k) <=> BusDue(k)' BY <1>7, BusKept DEF command, bufVars
  <2>2. dirty' \in BOOLEAN /\ (dirty => dirty') BY <1>1, <1>7 DEF command, Delivered, LoopOK
  <2>3. LoopOK' BY <1>1, <1>7, <2>2 DEF command, Flush, Stop, LoopOK, Flushing
  <2>4. \A k \in Attr : LoopDue(k) => LoopDue(k)' BY <1>7, <2>2 DEF command, LoopDue
  <2>5. Shown' BY <1>1, <1>7, <2>1, <2>4 DEF command, Flush, Stop, Shown, LoopOK
  <2>6. QED BY <2>3, <2>5
<1>8. CASE tick
  <2>1. \A k \in Attr : BusDue(k) <=> BusDue(k)' BY <1>8, BusKept DEF tick, busVars, bufVars
  <2>2. LoopOK' BY <1>1, <1>8 DEF tick, Flush, LoopOK, Flushing
  <2>3. \A k \in Attr : LoopDue(k)' BY <1>8 DEF tick, LoopDue
  <2>4. Shown' BY <1>1, <1>8, <2>3 DEF tick, Flush, Shown, LoopOK
  <2>5. QED BY <2>2, <2>4
<1>9. CASE render
  <2>1. \A k \in Attr : BusDue(k) <=> BusDue(k)' BY <1>9, BusKept DEF render, busVars, bufVars
  <2>2. LoopOK' BY <1>1, <1>9 DEF render, Flushed, LoopOK, Flushing
  <2>3. CASE pc = "flush" /\ ~dirty
    <3>1. pc' = cont /\ UNCHANGED <<dirty, old, oldPict, saw>> BY <1>9, <2>3 DEF render, Flushed
    <3>2. \A k \in Attr : LoopDue(k) => LoopDue(k)' BY <2>3, <3>1 DEF LoopDue
    <3>3. QED BY <1>1, <2>1, <2>2, <2>3, <3>1, <3>2 DEF Shown, LoopOK
  <2>4. CASE pc' = "paint" /\ oldPict' = {} BY <2>2, <2>4 DEF Shown
  <2>5. CASE pc' = cont /\ old' = {} BY <1>1, <2>2, <2>5 DEF Shown, LoopOK
  <2>6. QED BY <1>9, <2>3, <2>4, <2>5 DEF render, Flushed
<1>10. CASE paint
  <2>1. \A k \in Attr : BusDue(k) <=> BusDue(k)' BY <1>10, BusKept DEF paint, busVars, bufVars
  <2>2. LoopOK' BY <1>1, <1>10 DEF paint, Flushed, LoopOK, Flushing
  <2>3. \A k \in Attr : LoopDue(k) => LoopDue(k)' BY <1>10 DEF paint, Flushed, LoopDue
  <2>4. Shown' BY <1>1, <1>10, <2>1, <2>3 DEF paint, Flushed, Shown, LoopOK
  <2>5. QED BY <2>2, <2>4
<1>11. CASE hold
  <2>1. LoopOK' BY <1>1, <1>11 DEF hold, Flushed, LoopOK, Flushing
  <2>2. pc' # "paint" /\ \A k \in Attr : LoopDue(k)' BY <1>1, <1>11 DEF hold, Flushed, LoopOK, LoopDue
  <2>3. Shown' BY <1>1, <1>11, <2>2 DEF hold, Shown, LoopOK
  <2>4. QED BY <2>1, <2>3
<1>12. QED BY <1>2, <1>3, <1>4, <1>6, <1>7, <1>8, <1>9, <1>10, <1>11 DEF Loop

LEMMA InitPInv == Init => PInv
<1> SUFFICES ASSUME Init PROVE PInv OBVIOUS
<1>1. WInv BY InitWInv
<1>2. OneEmit BY DEF Init, OneEmit
<1>3. LoopOK BY DEF Init, LoopOK, Flushing
<1>4. Shown BY DEF Init, Shown, LoopDue
<1>5. QED BY <1>1, <1>2, <1>3, <1>4 DEF PInv

LEMMA OneEmitStep == ASSUME PInv, Next PROVE OneEmit'
<1>1. emit \in [Publisher -> SUBSET [val : Value, keep : BOOLEAN]] /\ OneEmit
  BY DEF PInv, WInv, EmitOK
<1>2. CASE emit' = emit BY <1>1, <1>2 DEF OneEmit
<1>3. ASSUME NEW h \in Publisher, NEW x, emit' = [emit EXCEPT ![h] = {x}] PROVE OneEmit'
  BY <1>1, <1>3 DEF OneEmit
<1>4. ASSUME NEW h \in Publisher, emit' = [emit EXCEPT ![h] = {}] PROVE OneEmit'
  BY <1>1, <1>4 DEF OneEmit
<1>5. CASE Loop \/ Bus
  <2>1. emit' = emit
    BY <1>5 DEF Loop, Bus, loopStart, drainEvents, finishResize, loopReturn, command, tick,
                render, paint, hold, flushFails, bufVars
  <2>2. QED BY <1>2, <2>1
<1>6. ASSUME NEW h \in Publisher, Host(h) PROVE OneEmit'
  <2>1. ASSUME NEW ks, NEW ev, NEW keep, Change(h, ks, ev, keep) PROVE OneEmit'
    BY <1>3, <2>1 DEF Change
  <2>2. CASE storeScale(h) \/ SetDead(h) \/ Resize(h) \/ Close(h)
    BY <2>1, <2>2 DEF storeScale, SetDead, Resize, Close
  <2>3. CASE emitLater(h) BY <1>4, <2>3 DEF emitLater
  <2>4. ASSUME NEW ev, Emit(h, ev) PROVE OneEmit' BY <1>2, <2>4 DEF Emit
  <2>5. QED BY <1>6, <2>2, <2>3, <2>4 DEF Host
<1>7. QED BY <1>5, <1>6 DEF Next

LEMMA PInvStep == PInv /\ [Next]_vars => PInv'
<1>1. ASSUME PInv, UNCHANGED vars PROVE PInv'
  <2>1. WInv' BY <1>1, WInvStep DEF PInv
  <2>2. OneEmit' BY <1>1 DEF PInv, OneEmit, vars, bufVars
  <2>3. \A k \in Attr : BusDue(k) => BusDue(k)' BY <1>1, BusKept DEF vars, busVars, bufVars, loopVars
  <2>4. LoopOK' /\ Shown' BY <1>1, <2>3, QuietStep DEF vars
  <2>5. QED BY <2>1, <2>2, <2>4 DEF PInv
<1>2. ASSUME PInv, Next PROVE PInv'
  <2>1. WInv' BY <1>2, WInvStep DEF PInv
  <2>2. OneEmit' BY <1>2, OneEmitStep
  <2>3. CASE Bus
    <3>1. lazy \in BOOLEAN /\ BusTypeOK BY <1>2 DEF PInv, LoopOK, WInv
    <3>2. UNCHANGED <<emit, loopVars, old, oldPict>> BY <2>3 DEF Bus, bufVars
    <3>3. lazy' = lazy BY <3>2 DEF loopVars
    <3>4. ASSUME NEW s \in Sub, cancel(s) \/ unsubscribe(s), NEW k \in Attr, BusDue(k) PROVE BusDue(k)'
      BY <3>2, <3>3, <3>4, DueKept DEF cancel, unsubscribe
    <3>5. ASSUME NEW p \in Publisher, Publishing(p), NEW k \in Attr, BusDue(k) PROVE BusDue(k)'
      BY <3>1, <3>2, <3>3, <3>5, PublishingDue
    <3>6. \A k \in Attr : BusDue(k) => BusDue(k)' BY <2>3, <3>4, <3>5 DEF Bus
    <3>7. QED BY <1>2, <2>1, <2>2, <3>2, <3>6, QuietStep DEF PInv
  <2>4. QED BY <1>2, <2>1, <2>2, <2>3, LoopShown, HostShown DEF Next, PInv
<1>3. QED BY <1>1, <1>2

(***************************************************************************)
(* With any number of hosts, calls and subscribers, and channels of any    *)
(* capacity, once nothing is under way the screen shows the size, scales   *)
(* and dead zones the buffer has, except for a model that says itself when *)
(* it has changed and an event that was dropped on a full channel.         *)
(***************************************************************************)
THEOREM WindowShownIsCurrent == Spec => []ShownIsCurrent
<1>1. PInv => ShownIsCurrent
  <2> SUFFICES ASSUME PInv, Quiet, NEW k \in old PROVE lazy /\ <<ui, EventOf(k)>> \in dropped
    BY DEF ShownIsCurrent
  <2>1. ~LoopDue(k) /\ pc # "paint" BY DEF PInv, LoopOK, Quiet, LoopDue
  <2>2. \A h \in Publisher : ~ToUi(h) BY DEF Quiet, ToUi, Idle
  <2>3. ~Carried(EventOf(k)) BY <2>2 DEF Quiet, Carried
  <2>4. BusDue(k) BY <2>1 DEF PInv, Shown
  <2>5. QED BY <2>2, <2>3, <2>4 DEF BusDue, Quiet
<1>2. QED BY InitPInv, PInvStep, <1>1, PTL DEF Spec
=============================================================================
