-------------------------- MODULE SharedDownloadProofs --------------------------
(***************************************************************************)
(* The safety of SharedDownload, for every number of callers and flights.  *)
(***************************************************************************)
EXTENDS SharedDownload, FiniteSetTheorems, TLAPS

\* Everybody aboard is counted by a natural number.
LEMMA AboardFinite ==
    \A f : IsFiniteSet(Aboard(f)) /\ Cardinality(Aboard(f)) \in Nat
<1> TAKE f
<1>1. Aboard(f) \subseteq Callers
  BY DEF Aboard
<1> QED
  BY <1>1, CallersAssumption, FS_Subset, FS_CardinalityType

LEMMA InitIInv == Init => IInv
<1> SUFFICES ASSUME Init PROVE IInv
  OBVIOUS
<1>1. \A f : Aboard(f) = {}
  BY DEF Init, Aboard
<1>2. TypeOK
  BY MaxFlightsAssumption DEF Init, TypeOK
<1>3. RefsCountAboard
  BY <1>1, FS_EmptySet DEF Init, RefsCountAboard, Flight
<1>4. FlightInv /\ CallerInv /\ NoForeignCancel
  BY <1>1 DEF Init, FlightInv, CallerInv, NoForeignCancel, Flight
<1> QED
  BY <1>2, <1>3, <1>4 DEF IInv

\* A caller comes aboard the flight f: the one in the map, or a new one.
LEMMA JoinStep == ASSUME IInv, NEW c \in Callers, joinFollow(c) \/ joinLead(c) PROVE IInv'
<1> USE MaxFlightsAssumption
<1>1. PICK f \in Flight :
         /\ f = IF current = 0 THEN started + 1 ELSE current
         /\ pc[c] = "out" /\ f \in 1..started'
         /\ pc' = [pc EXCEPT ![c] = "select"] /\ call' = [call EXCEPT ![c] = f]
         /\ current' = f /\ refs' = [refs EXCEPT ![f] = IF current = 0 THEN 1 ELSE @ + 1]
         /\ fetch' = IF current = 0 THEN [fetch EXCEPT ![f] = "fetching"] ELSE fetch
         /\ started' \in started..MaxFlights
         /\ UNCHANGED <<cancelled, cleaning, dir, ctxDone, result>>
  <2>1. current \in 0..MaxFlights /\ started \in 0..MaxFlights
    BY DEF IInv, TypeOK
  <2>2. CASE joinFollow(c)
    <3>1. current \in Flight /\ current <= started /\ current # 0
      BY <2>1, <2>2 DEF joinFollow, IInv, RefsCountAboard, FlightInv, Flight
    <3> USE <3>1
    <3> WITNESS current \in Flight
    <3> QED
      BY <2>1, <2>2, <3>1 DEF joinFollow, Goto
  <2>3. CASE joinLead(c)
    <3>1. started + 1 \in Flight
      BY <2>1, <2>3 DEF joinLead, Flight
    <3> USE <3>1
    <3> WITNESS started + 1 \in Flight
    <3> QED
      BY <2>1, <2>3, <3>1 DEF joinLead, Goto
  <2> QED
    BY <2>2, <2>3
<1>3. /\ pc \in [Callers -> {"out", "select", "publish", "leave", "last", "back"}]
      /\ call \in [Callers -> 0..MaxFlights]
      /\ started \in 0..MaxFlights
  BY DEF IInv, TypeOK
<1>4. c \notin Aboard(f) /\ Aboard(f)' = Aboard(f) \cup {c}
  BY <1>1, <1>3 DEF Aboard
<1>5. \A g \in Flight : g # f => Aboard(g)' = Aboard(g)
  BY <1>1, <1>3 DEF Aboard
<1>6. Cardinality(Aboard(f)') = Cardinality(Aboard(f)) + 1
  BY <1>4, AboardFinite, FS_AddElement
<1>7. current = 0 => f = started + 1 /\ Aboard(f) = {} /\ f \notin cancelled \cup cleaning
  BY <1>1, <1>3 DEF IInv, FlightInv
<1>8. current # 0 => f = current /\ Aboard(f) # {}
  BY <1>1 DEF IInv, RefsCountAboard
<1>9. TypeOK'
  BY <1>1 DEF IInv, TypeOK, Flight
<1>10. RefsCountAboard'
  <2>1. SUFFICES ASSUME NEW g \in Flight
                 PROVE  (refs'[g] = Cardinality(Aboard(g)') /\ (current' = g <=> Aboard(g)' # {}))
    BY DEF RefsCountAboard
  <2>2. refs[g] = Cardinality(Aboard(g)) /\ (current = g <=> Aboard(g) # {}) /\ refs \in [Flight -> Nat]
    BY DEF IInv, RefsCountAboard, TypeOK
  <2>3. CASE g = f
    BY <1>1, <1>4, <1>6, <1>7, <1>8, <2>2, <2>3, FS_EmptySet
  <2>4. CASE g # f
    BY <1>1, <1>5, <1>7, <1>8, <2>2, <2>4 DEF Flight
  <2> QED
    BY <2>3, <2>4
<1>11. FlightInv'
  <2>1. SUFFICES ASSUME NEW g \in Flight
                 PROVE  /\ g > started' => Aboard(g)' = {} /\ g \notin (cancelled \cup cleaning)'
                        /\ g \in (cancelled \cup cleaning)' => Aboard(g)' = {}
                        /\ fetch'[g] = "stopped" => g \in cancelled'
                        /\ fetch'[g] = "ok" /\ Aboard(g)' # {} => dir'[g] = "there"
    BY DEF FlightInv
  <2>2. /\ g > started => Aboard(g) = {} /\ g \notin cancelled \cup cleaning
        /\ g \in cancelled \cup cleaning => Aboard(g) = {}
        /\ fetch[g] = "stopped" => g \in cancelled
        /\ fetch[g] = "ok" /\ Aboard(g) # {} => dir[g] = "there"
        /\ fetch \in [Flight -> {"none", "fetching", "ok", "failed", "stopped"}]
    BY DEF IInv, FlightInv, TypeOK
  <2>3. CASE g = f
    BY <1>1, <1>3, <1>7, <1>8, <2>2, <2>3 DEF Flight
  <2>4. CASE g # f
    BY <1>1, <1>3, <1>5, <2>2, <2>4 DEF Flight
  <2> QED
    BY <2>3, <2>4
<1>12. CallerInv'
  <2>1. SUFFICES ASSUME NEW d \in Callers
                 PROVE  /\ pc'[d] # "out" => call'[d] \in 1..started'
                        /\ pc'[d] = "last" => Aboard(call[d])' = {}
                        /\ pc'[d] = "publish" => fetch'[call'[d]] = "ok"
    BY DEF CallerInv
  <2>2. /\ pc[d] # "out" => call[d] \in 1..started
        /\ pc[d] = "last" => Aboard(call[d]) = {}
        /\ pc[d] = "publish" => fetch[call[d]] = "ok"
    BY DEF IInv, CallerInv
  <2>3. CASE d = c
    BY <1>1, <1>3, <2>3
  <2>4. CASE d # c
    <3>1. pc'[d] = pc[d] /\ call'[d] = call[d]
      BY <1>1, <1>3, <2>4
    <3>2. pc[d] # "out" /\ current = 0 => call[d] # f
      BY <1>3, <1>7, <2>2
    <3>3. pc[d] = "last" => call[d] # f
      BY <1>8, <2>2, <3>2
    <3>4. pc[d] = "last" => Aboard(call[d])' = {}
      BY <1>1, <1>3, <2>2, <2>4, <3>1, <3>3 DEF Aboard
    <3>5. pc[d] = "publish" => fetch'[call'[d]] = "ok"
      BY <1>1, <2>2, <3>1, <3>2
    <3>6. pc[d] # "out" => call'[d] \in 1..started'
      BY <1>1, <1>3, <2>2, <3>1
    <3> QED
      BY <3>1, <3>4, <3>5, <3>6
  <2> QED
    BY <2>3, <2>4
<1>13. NoForeignCancel'
  BY <1>1 DEF IInv, NoForeignCancel
<1> QED
  BY <1>9, <1>10, <1>11, <1>12, <1>13 DEF IInv

\* A step after which everybody aboard is still aboard, and nobody else is.
LEMMA SameAboard ==
    ASSUME IInv, \A f : Aboard(f)' = Aboard(f), UNCHANGED <<started, current, refs>>, TypeOK',
           \A c \in Callers : \/ pc'[c] = pc[c] /\ call'[c] = call[c]
                              \/ pc'[c] \notin {"last", "publish", "out"} /\ call'[c] = call[c] /\ pc[c] # "out"
                              \/ pc'[c] = "out"
                              \/ pc[c] = "select" /\ pc'[c] # "last" /\ call'[c] = call[c] /\ fetch'[call[c]] = "ok",
           \A f \in Flight : fetch[f] = "ok" => fetch'[f] = "ok",
           \A f \in Flight : /\ f \in (cancelled \cup cleaning)' => Aboard(f) = {} /\ f <= started
                             /\ fetch'[f] = "stopped" => f \in cancelled'
                             /\ fetch'[f] = "ok" /\ Aboard(f) # {} => dir'[f] = "there",
           NoForeignCancel'
    PROVE  IInv'
<1>1. RefsCountAboard'
  BY DEF IInv, RefsCountAboard
<1>2. FlightInv'
  BY DEF IInv, FlightInv, Flight, TypeOK
<1>3. CallerInv'
  <2>1. SUFFICES ASSUME NEW c \in Callers
                 PROVE  /\ pc'[c] # "out" => call'[c] \in 1..started'
                        /\ pc'[c] = "last" => Aboard(call[c])' = {}
                        /\ pc'[c] = "publish" => fetch'[call'[c]] = "ok"
    BY DEF CallerInv
  <2>2. /\ pc[c] # "out" => call[c] \in 1..started
        /\ pc[c] = "last" => Aboard(call[c]) = {}
        /\ pc[c] = "publish" => fetch[call[c]] = "ok"
        /\ started \in 0..MaxFlights
    BY DEF IInv, CallerInv, TypeOK
  <2>3. pc[c] # "out" => call[c] \in Flight
    BY <2>2, MaxFlightsAssumption DEF Flight
  <2>4. pc'[c] = "last" => pc[c] = "last" /\ call'[c] = call[c]
    OBVIOUS
  <2>5. \A f : Aboard(f) = {} => Aboard(f)' = {}
    OBVIOUS
  <2>6. pc'[c] = "last" => Aboard(call[c])' = {}
    <3> SUFFICES ASSUME pc'[c] = "last" PROVE Aboard(call[c])' = {}
      OBVIOUS
    <3>1. PICK g : g = call[c]
      OBVIOUS
    <3>2. Aboard(g)' = {} /\ call'[c] = g
      BY <2>2, <2>4, <2>5, <3>1
    <3> QED
      BY <3>2 DEF Aboard
  <2>7. pc'[c] # "out" => call'[c] \in 1..started'
    BY <2>2
  <2>8. pc'[c] = "publish" => fetch'[call'[c]] = "ok"
    BY <2>2, <2>3
  <2> QED
    BY <2>6, <2>7, <2>8
<1> QED
  BY <1>1, <1>2, <1>3 DEF IInv

\* The steps of a caller that stays aboard, or is off board already.
LEMMA CallerStays ==
    ASSUME IInv, NEW c \in Callers,
           giveUp(c) \/ land(c) \/ publishFile(c) \/ leaveLast(c) \/ return(c) \/ callerCancel(c)
    PROVE  IInv'
<1> USE DEF Goto, flightVars
<1>1. /\ pc \in [Callers -> {"out", "select", "publish", "leave", "last", "back"}]
      /\ call \in [Callers -> 0..MaxFlights]
      /\ result \in [Callers -> {"none", "ok", "failed", "stopped", "ctx", "unwritable"}]
      /\ fetch \in [Flight -> {"none", "fetching", "ok", "failed", "stopped"}]
  BY DEF IInv, TypeOK
<1>2. pc[c] # "out" => call[c] \in Flight /\ call[c] <= started
  BY MaxFlightsAssumption DEF IInv, TypeOK, CallerInv, Flight
<1>3. land(c) => fetch[call[c]] # "stopped"
  <2> SUFFICES ASSUME pc[c] = "select" PROVE fetch[call[c]] # "stopped"
    BY DEF land
  <2>1. c \in Aboard(call[c])
    BY DEF Aboard
  <2> QED
    BY <1>2, <2>1 DEF IInv, FlightInv
<1>4. \A f : Aboard(f)' = Aboard(f)
  <2>1. CASE giveUp(c) \/ land(c) \/ publishFile(c)
    BY <1>1, <2>1 DEF Aboard, giveUp, land, publishFile
  <2>2. CASE leaveLast(c) \/ return(c) \/ callerCancel(c)
    BY <1>1, <2>2 DEF Aboard, leaveLast, return, callerCancel
  <2> QED
    BY <2>1, <2>2
<1>5. UNCHANGED <<started, current, refs, fetch, dir>>
  BY DEF giveUp, land, publishFile, leaveLast, return, callerCancel
<1>6. TypeOK'
  <2>1. CASE giveUp(c) \/ publishFile(c)
    BY <1>1, <2>1 DEF IInv, TypeOK, giveUp, publishFile
  <2>2. CASE land(c)
    <3>1. fetch[call[c]] \in {"ok", "failed", "stopped"}
      BY <2>2 DEF land, Landed
    <3> QED
      BY <1>1, <2>2, <3>1 DEF IInv, TypeOK, land
  <2>3. CASE leaveLast(c)
    BY <1>1, <1>2, <2>3 DEF IInv, TypeOK, leaveLast
  <2>4. CASE return(c) \/ callerCancel(c)
    BY <1>1, <2>4, MaxFlightsAssumption DEF IInv, TypeOK, return, callerCancel
  <2> QED
    BY <2>1, <2>2, <2>3, <2>4
<1>7. NoForeignCancel'
  <2>1. CASE land(c)
    BY <1>1, <1>3, <2>1 DEF IInv, NoForeignCancel, land
  <2>2. CASE giveUp(c) \/ publishFile(c) \/ leaveLast(c) \/ return(c) \/ callerCancel(c)
    BY <1>1, <2>2 DEF IInv, NoForeignCancel, giveUp, publishFile, leaveLast, return, callerCancel
  <2> QED
    BY <2>1, <2>2
<1>8. \A d \in Callers :
         \/ pc'[d] = pc[d] /\ call'[d] = call[d]
         \/ pc'[d] \notin {"last", "publish", "out"} /\ call'[d] = call[d] /\ pc[d] # "out"
         \/ pc'[d] = "out"
         \/ pc[d] = "select" /\ pc'[d] # "last" /\ call'[d] = call[d] /\ fetch'[call[d]] = "ok"
  <2>1. CASE giveUp(c) \/ publishFile(c) \/ leaveLast(c) \/ return(c) \/ callerCancel(c)
    BY <1>1, <2>1 DEF giveUp, publishFile, leaveLast, return, callerCancel
  <2>2. CASE land(c)
    BY <1>1, <1>5, <2>2 DEF land
  <2> QED
    BY <2>1, <2>2
<1>9. \A f \in Flight : f \in (cancelled \cup cleaning)' => Aboard(f) = {} /\ f <= started
  <2>1. \A f \in Flight : f \in cancelled \cup cleaning => Aboard(f) = {} /\ f <= started
    BY DEF IInv, FlightInv, TypeOK, Flight
  <2>2. CASE leaveLast(c)
    BY <1>2, <2>1, <2>2 DEF leaveLast, IInv, CallerInv
  <2>3. CASE giveUp(c) \/ land(c) \/ publishFile(c) \/ return(c) \/ callerCancel(c)
    BY <2>1, <2>3 DEF giveUp, land, publishFile, return, callerCancel
  <2> QED
    BY <2>2, <2>3
<1>10. \A f \in Flight : /\ fetch'[f] = "stopped" => f \in cancelled'
                         /\ fetch'[f] = "ok" /\ Aboard(f) # {} => dir'[f] = "there"
  <2>1. cancelled \subseteq cancelled'
    BY DEF giveUp, land, publishFile, leaveLast, return, callerCancel
  <2> QED
    BY <1>5, <2>1 DEF IInv, FlightInv
<1> QED
  BY <1>4, <1>5, <1>6, <1>7, <1>8, <1>9, <1>10, SameAboard

\* The steps of a fetch and of a cleaner.
LEMMA FetchStays ==
    ASSUME IInv, NEW f \in Flight, FetchStep(f) \/ clean(f) PROVE IInv'
<1> USE DEF FetchStep
<1>1. /\ fetch \in [Flight -> {"none", "fetching", "ok", "failed", "stopped"}]
      /\ dir \in [Flight -> {"none", "there", "removed"}]
  BY DEF IInv, TypeOK
<1>2. UNCHANGED <<started, current, refs, cancelled, pc, call, ctxDone, result>> /\ cleaning' \subseteq cleaning
  BY DEF fetchDir, fetchOk, fetchFails, clean
<1>3. \A g : Aboard(g)' = Aboard(g)
  BY <1>2 DEF Aboard
<1>4. TypeOK'
  <2>1. fetch' \in [Flight -> {"none", "fetching", "ok", "failed", "stopped"}]
    BY <1>1 DEF fetchDir, fetchOk, fetchFails, clean
  <2>2. dir' \in [Flight -> {"none", "there", "removed"}]
    BY <1>1 DEF fetchDir, fetchOk, fetchFails, clean
  <2> QED
    BY <1>2, <2>1, <2>2 DEF IInv, TypeOK
<1>5. \A g \in Flight : fetch[g] = "ok" => fetch'[g] = "ok"
  BY <1>1 DEF fetchDir, fetchOk, fetchFails, clean
<1>6. \A g \in Flight :
         /\ g \in (cancelled \cup cleaning)' => Aboard(g) = {} /\ g <= started
         /\ fetch'[g] = "stopped" => g \in cancelled'
         /\ fetch'[g] = "ok" /\ Aboard(g) # {} => dir'[g] = "there"
  <2> TAKE g \in Flight
  <2>1. /\ g \in cancelled \cup cleaning => Aboard(g) = {} /\ g <= started
        /\ fetch[g] = "stopped" => g \in cancelled
        /\ fetch[g] = "ok" /\ Aboard(g) # {} => dir[g] = "there"
    BY DEF IInv, FlightInv, TypeOK, Flight
  <2>2. fetch'[g] = "stopped" => g \in cancelled'
    BY <1>1, <1>2, <2>1 DEF fetchDir, fetchOk, fetchFails, clean
  <2>3. fetch'[g] = "ok" /\ Aboard(g) # {} => dir'[g] = "there"
    BY <1>1, <2>1 DEF fetchDir, fetchOk, fetchFails, clean
  <2> QED
    BY <1>2, <2>1, <2>2, <2>3
<1>7. NoForeignCancel'
  BY <1>2 DEF IInv, NoForeignCancel
<1> QED
  BY <1>2, <1>3, <1>4, <1>5, <1>6, <1>7, SameAboard

\* A caller leaves its flight, the last one with the flight off the map.
LEMMA LeaveStep == ASSUME IInv, NEW c \in Callers, leaveDownload(c) PROVE IInv'
<1>1. PICK f : f = call[c]
  OBVIOUS
<1>2. /\ pc \in [Callers -> {"out", "select", "publish", "leave", "last", "back"}]
      /\ call \in [Callers -> 0..MaxFlights]
      /\ refs \in [Flight -> Nat]
      /\ started \in 0..MaxFlights /\ MaxFlights \in Nat
  BY MaxFlightsAssumption DEF IInv, TypeOK
<1>3. /\ pc[c] = "leave" /\ f \in Flight
      /\ refs' = [refs EXCEPT ![f] = @ - 1]
      /\ current' = IF refs[f] = 1 THEN 0 ELSE current
      /\ pc' = [pc EXCEPT ![c] = IF refs[f] = 1 THEN "last" ELSE "back"]
      /\ UNCHANGED <<started, cancelled, fetch, dir, cleaning, call, ctxDone, result>>
  BY <1>1, <1>2 DEF leaveDownload, Goto, IInv, CallerInv, Flight
<1>4. c \in Aboard(f) /\ Aboard(f)' = Aboard(f) \ {c}
  BY <1>1, <1>2, <1>3 DEF Aboard
<1>5. \A g : g # f => Aboard(g)' = Aboard(g)
  BY <1>1, <1>2, <1>3 DEF Aboard
<1>6. refs[f] = Cardinality(Aboard(f)) /\ current = f
  BY <1>3, <1>4 DEF IInv, RefsCountAboard
<1>7. Cardinality(Aboard(f)') = Cardinality(Aboard(f)) - 1 /\ IsFiniteSet(Aboard(f)')
  BY <1>4, AboardFinite, FS_RemoveElement
<1>8. refs'[f] = Cardinality(Aboard(f)') /\ refs'[f] \in Nat
  <2>1. IsFiniteSet(Aboard(f)') /\ Cardinality(Aboard(f)') \in Nat
    BY <1>7, FS_CardinalityType
  <2> QED
    BY <1>2, <1>3, <1>6, <1>7, <2>1
<1>9. refs[f] = 1 <=> Aboard(f)' = {}
  <2>1. Cardinality(Aboard(f)') = 0 <=> Aboard(f)' = {}
    BY <1>7, FS_EmptySet
  <2> QED
    BY <1>2, <1>3, <1>6, <1>7, <2>1
<1>10. TypeOK'
  BY <1>2, <1>3, <1>8 DEF IInv, TypeOK
<1>11. RefsCountAboard'
  <2>1. SUFFICES ASSUME NEW g \in Flight
                 PROVE  (refs'[g] = Cardinality(Aboard(g)') /\ (current' = g <=> Aboard(g)' # {}))
    BY DEF RefsCountAboard
  <2>2. CASE g = f
    BY <1>3, <1>6, <1>8, <1>9, <2>2 DEF Flight
  <2>3. CASE g # f
    <3>1. refs[g] = Cardinality(Aboard(g)) /\ (current = g <=> Aboard(g) # {})
      BY DEF IInv, RefsCountAboard
    <3>2. refs'[g] = refs[g] /\ Aboard(g)' = Aboard(g) /\ Aboard(g) = {} /\ current' # g
      BY <1>2, <1>3, <1>5, <1>6, <2>3, <3>1 DEF Flight
    <3>3. refs'[g] = Cardinality(Aboard(g)')
      BY <3>1, <3>2
    <3> QED
      BY <3>2, <3>3
  <2> QED
    BY <2>2, <2>3
<1>12. \A g : Aboard(g)' \subseteq Aboard(g)
  BY <1>4, <1>5
<1>13. FlightInv'
  <2>1. SUFFICES ASSUME NEW g \in Flight
                 PROVE  /\ g > started => Aboard(g)' = {} /\ g \notin cancelled \cup cleaning
                        /\ g \in cancelled \cup cleaning => Aboard(g)' = {}
                        /\ fetch[g] = "stopped" => g \in cancelled
                        /\ fetch[g] = "ok" /\ Aboard(g)' # {} => dir[g] = "there"
    BY <1>3 DEF FlightInv
  <2> QED
    BY <1>12, <2>1 DEF IInv, FlightInv
<1>14. CallerInv'
  <2>1. SUFFICES ASSUME NEW d \in Callers
                 PROVE  /\ pc'[d] # "out" => call'[d] \in 1..started'
                        /\ pc'[d] = "last" => Aboard(call[d])' = {}
                        /\ pc'[d] = "publish" => fetch'[call'[d]] = "ok"
    BY DEF CallerInv
  <2>2. /\ pc[d] # "out" => call[d] \in 1..started
        /\ pc[d] = "last" => Aboard(call[d]) = {}
        /\ pc[d] = "publish" => fetch[call[d]] = "ok"
    BY DEF IInv, CallerInv
  <2>3. PICK g : g = call[d]
    OBVIOUS
  <2>4. pc'[d] = "last" => Aboard(g)' = {}
    <3>1. CASE d = c
      BY <1>1, <1>2, <1>3, <1>9, <2>3, <3>1
    <3>2. CASE d # c
      BY <1>2, <1>3, <1>12, <2>2, <2>3, <3>2
    <3> QED
      BY <3>1, <3>2
  <2>5. pc'[d] = "last" => Aboard(call[d])' = {}
    BY <1>3, <2>3, <2>4 DEF Aboard
  <2>6. pc'[d] # "out" => call'[d] \in 1..started'
    BY <1>2, <1>3, <2>2
  <2>7. pc'[d] = "publish" => fetch'[call'[d]] = "ok"
    BY <1>2, <1>3, <2>2
  <2> QED
    BY <2>5, <2>6, <2>7
<1>15. NoForeignCancel'
  BY <1>3 DEF IInv, NoForeignCancel
<1> QED
  BY <1>10, <1>11, <1>13, <1>14, <1>15 DEF IInv

\* A step that changes nothing.
LEMMA StutterStep == ASSUME IInv, UNCHANGED vars PROVE IInv'
<1>1. \A f : Aboard(f)' = Aboard(f)
  BY DEF vars, Aboard
<1>2. TypeOK' /\ NoForeignCancel'
  BY DEF vars, IInv, TypeOK, NoForeignCancel
<1>3. \A f \in Flight :
         /\ f \in (cancelled \cup cleaning)' => Aboard(f) = {} /\ f <= started
         /\ fetch'[f] = "stopped" => f \in cancelled'
         /\ fetch'[f] = "ok" /\ Aboard(f) # {} => dir'[f] = "there"
  BY DEF vars, IInv, FlightInv, TypeOK, Flight
<1> QED
  BY <1>1, <1>2, <1>3, SameAboard DEF vars

LEMMA NextIInv == IInv /\ [Next]_vars => IInv'
<1> SUFFICES ASSUME IInv, [Next]_vars PROVE IInv'
  OBVIOUS
<1>1. ASSUME NEW c \in Callers, joinFollow(c) \/ joinLead(c) PROVE IInv'
  BY <1>1, JoinStep
<1>2. ASSUME NEW c \in Callers, leaveDownload(c) PROVE IInv'
  BY <1>2, LeaveStep
<1>3. ASSUME NEW c \in Callers,
             giveUp(c) \/ land(c) \/ publishFile(c) \/ leaveLast(c) \/ return(c) \/ callerCancel(c)
      PROVE  IInv'
  BY <1>3, CallerStays
<1>4. ASSUME NEW f \in Flight, FetchStep(f) \/ clean(f) PROVE IInv'
  BY <1>4, FetchStays
<1>5. CASE UNCHANGED vars
  BY <1>5, StutterStep
<1> QED
  BY <1>1, <1>2, <1>3, <1>4, <1>5 DEF Next, CallerStep

\* The inductive invariant holds in every behaviour of DownloadFile.
THEOREM Invariance == Spec => []IInv
BY InitIInv, NextIInv, PTL DEF Spec

\* leaveDownload never takes a flight off the map that somebody is aboard of,
\* nor a later flight of the same key.
THEOREM RefsExact == Spec => []RefsCountAboard
<1>1. IInv => RefsCountAboard
  BY DEF IInv
<1> QED
  BY <1>1, Invariance, PTL

\* publishFile never copies from a directory that a cleaner has removed.
THEOREM CopyIsSafe == Spec => []FileThereForCopy
<1>1. IInv => FileThereForCopy
  <2> SUFFICES ASSUME IInv, NEW c \in Callers, pc[c] = "publish" PROVE dir[call[c]] = "there"
    BY DEF FileThereForCopy
  <2>1. c \in Aboard(call[c])
    BY DEF Aboard
  <2>2. fetch[call[c]] = "ok" /\ call[c] \in Flight
    BY MaxFlightsAssumption DEF IInv, TypeOK, CallerInv, Flight
  <2> QED
    BY <2>1, <2>2 DEF IInv, FlightInv
<1> QED
  BY <1>1, Invariance, PTL

\* DownloadFile returns the cancellation of nobody's context but the caller's.
THEOREM OthersCancelHidden == Spec => []NoForeignCancel
<1>1. IInv => NoForeignCancel
  BY DEF IInv
<1> QED
  BY <1>1, Invariance, PTL
===============================================================================
