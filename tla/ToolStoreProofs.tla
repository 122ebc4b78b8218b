-------------------------- MODULE ToolStoreProofs --------------------------
(***************************************************************************)
(* A good tree is never lost by an install (GoodTreeKept), leftovers are   *)
(* reported (LeftoverIsReported), and an installed version ends up in      *)
(* place (EndsInPlace), for any number of calls.                           *)
(***************************************************************************)
EXTENDS ToolStore, TLAPS

Pc == {"start", "check", "wipe", "find", "mkdir", "fill", "verify", "displace", "rename",
       "restore", "unstage", "remove", "committed", "rollback", "done", "crashed"}

Before == {"start", "check", "wipe", "mkdir", "fill", "verify", "displace"}

Typed ==
  /\ TypeOK
  /\ pc \in [Caller -> Pc]

(* What reaches Commit is whole, and nobody writes to it any more. *)
StagedIsGood ==
  \A c \in Caller :
     /\ pc[c] \in {"displace", "rename"} => stage[c] = "good"
     /\ pc[c] \in Before => disp[c] = "none"
     /\ c \in orphan => pc[c] \in {"rollback", "done"}

(* Where a call may hold a displaced tree, and where a staged one. *)
Held ==
  \A c \in Caller :
     /\ disp[c] # "none" =>
          /\ moved[c]
          /\ \/ pc[c] \in {"rename", "restore", "unstage", "remove", "crashed"}
             \/ pc[c] \in {"rollback", "done"} /\ result[c] = "error"
     /\ stage[c] # "none" =>
          \/ pc[c] \in {"fill", "verify", "displace", "rename", "restore", "unstage", "crashed"}
          \/ pc[c] \in {"rollback", "done"} /\ result[c] = "error"
     /\ pc[c] = "done" /\ stage[c] # "none" => faults > 0 \/ c \in ctxDone
     /\ c \in orphan => c \in ctxDone /\ result[c] = "error"

(* The tree that Commit is about to remove is not the one that is kept. *)
Kept ==
  hadGood /\ "good" \notin wiped /\ ~undone =>
     \/ final = "good"
     \/ \E c \in Caller : disp[c] = "good" /\ pc[c] # "remove"

IInv == Typed /\ StagedIsGood /\ Kept

(***************************************************************************)
(* The initial states satisfy the inductive invariant.                     *)
(***************************************************************************)
LEMMA InitIInv == Init => IInv
<1> SUFFICES ASSUME Init PROVE IInv OBVIOUS
<1>1. Typed BY StoreAssumption DEF Init, Typed, TypeOK, Tree, Pc
<1>2. StagedIsGood BY DEF Init, StagedIsGood, Before
<1>3. Kept BY DEF Init, Kept
<1>4. QED BY <1>1, <1>2, <1>3 DEF IInv

(***************************************************************************)
(* A step of a call, of the environment or of an orphan keeps the types.   *)
(***************************************************************************)
LEMMA TypedStep == ASSUME Typed, [Next]_vars PROVE Typed'
<1> USE StoreAssumption DEF Typed, TypeOK, Tree, Pc, Goto, Return, Fault, callVars, diskVars
<1>1. ASSUME NEW c \in Caller, Step(c) PROVE Typed'
  <2>1. CASE Ensure(c) BY <2>1 DEF Ensure
  <2>2. CASE checkFinal(c) BY <2>2 DEF checkFinal
  <2>3. CASE wipe(c) BY <2>3 DEF wipe
  <2>4. CASE find(c) BY <2>4 DEF find
  <2>5. CASE mkdir(c) BY <2>5 DEF mkdir
  <2>6. CASE fill(c) BY <2>6 DEF fill
  <2>7. CASE verify(c) BY <2>7 DEF verify
  <2>8. CASE displace(c)
    <3>1. pc' \in [Caller -> Pc] /\ final' \in Tree BY <2>8 DEF displace
    <3>2. disp' \in [Caller -> Tree] BY <2>8 DEF displace
    <3>3. moved' \in [Caller -> BOOLEAN] BY <2>8, Zenon DEF displace
    <3>4. result' \in [Caller -> {"none", "ok", "error"}] BY <2>8 DEF displace
    <3>5. faults' \in 0..MaxFaults BY <2>8 DEF displace
    <3>6. UNCHANGED <<stage, ctxDone, orphan>> BY <2>8 DEF displace
    <3>7. QED BY <3>1, <3>2, <3>3, <3>4, <3>5, <3>6
  <2>9. CASE rename(c)
    <3>1. pc' \in [Caller -> Pc] BY <2>9 DEF rename
    <3>2. final' \in Tree /\ stage' \in [Caller -> Tree] BY <2>9 DEF rename
    <3>3. faults' \in 0..MaxFaults BY <2>9 DEF rename
    <3>4. UNCHANGED <<disp, moved, result, ctxDone, orphan>> BY <2>9 DEF rename
    <3>5. QED BY <3>1, <3>2, <3>3, <3>4
  <2>10. CASE restore(c) BY <2>10 DEF restore
  <2>11. CASE unstage(c) BY <2>11 DEF unstage
  <2>12. CASE remove(c) BY <2>12 DEF remove
  <2>13. CASE committed(c) BY <2>13 DEF committed
  <2>14. CASE Rollback(c) BY <2>14 DEF Rollback
  <2>15. QED BY <1>1, <2>1, <2>2, <2>3, <2>4, <2>5, <2>6, <2>7, <2>8, <2>9, <2>10, <2>11,
                <2>12, <2>13, <2>14 DEF Step
<1>2. ASSUME NEW c \in Caller, lateInstall(c) PROVE Typed' BY <1>2 DEF lateInstall
<1>3. ASSUME NEW c \in Caller, ctxEnds(c) PROVE Typed' BY <1>3 DEF ctxEnds
<1>4. ASSUME NEW c \in Caller, crash(c) PROVE Typed' BY <1>4 DEF crash, HalfRemoved
<1>5. CASE UNCHANGED vars BY <1>5 DEF vars
<1>6. QED BY <1>1, <1>2, <1>3, <1>4, <1>5 DEF Next

(***************************************************************************)
(* What is staged at Commit stays whole: only the call itself writes there *)
(* before it, and an install nobody waits for belongs to a call that is    *)
(* past it.                                                                *)
(***************************************************************************)
LEMMA StagedStep == ASSUME Typed, StagedIsGood, [Next]_vars PROVE StagedIsGood'
<1> USE DEF Typed, TypeOK, StagedIsGood, Before, Pc, Goto, Return, callVars, diskVars
<1>1. ASSUME NEW c \in Caller, Step(c) PROVE StagedIsGood'
  <2>1. CASE Ensure(c) BY <2>1 DEF Ensure
  <2>2. CASE checkFinal(c) BY <2>2 DEF checkFinal
  <2>3. CASE wipe(c) BY <2>3 DEF wipe
  <2>4. CASE find(c) BY <2>4 DEF find
  <2>5. CASE mkdir(c) BY <2>5 DEF mkdir
  <2>6. CASE fill(c) BY <2>6 DEF fill, IsFile
  <2>7. CASE verify(c) BY <2>7 DEF verify
  <2>8. CASE displace(c) BY <2>8 DEF displace
  <2>9. CASE rename(c) BY <2>9 DEF rename
  <2>10. CASE restore(c) BY <2>10 DEF restore
  <2>11. CASE unstage(c) BY <2>11 DEF unstage
  <2>12. CASE remove(c) BY <2>12 DEF remove
  <2>13. CASE committed(c) BY <2>13 DEF committed
  <2>14. CASE Rollback(c) BY <2>14 DEF Rollback
  <2>15. QED BY <1>1, <2>1, <2>2, <2>3, <2>4, <2>5, <2>6, <2>7, <2>8, <2>9, <2>10, <2>11,
                <2>12, <2>13, <2>14 DEF Step
<1>2. ASSUME NEW c \in Caller, lateInstall(c) PROVE StagedIsGood' BY <1>2 DEF lateInstall
<1>3. ASSUME NEW c \in Caller, ctxEnds(c) PROVE StagedIsGood' BY <1>3 DEF ctxEnds
<1>4. ASSUME NEW c \in Caller, crash(c) PROVE StagedIsGood' BY <1>4 DEF crash, Over
<1>5. CASE UNCHANGED vars BY <1>5 DEF vars
<1>6. QED BY <1>1, <1>2, <1>3, <1>4, <1>5 DEF Next

(***************************************************************************)
(* A good tree that is not about to be removed stays where it is or moves  *)
(* to a place where it is not about to be removed.                         *)
(***************************************************************************)
LEMMA KeptStep == ASSUME IInv, [Next]_vars PROVE Kept'
<1> USE DEF IInv, Typed, TypeOK, Kept, Pc, Goto, Return, callVars, diskVars
<1>1. ASSUME NEW c \in Caller, Step(c) PROVE Kept'
  <2>1. CASE Ensure(c) BY <2>1 DEF Ensure
  <2>2. CASE checkFinal(c) BY <2>2 DEF checkFinal
  <2>3. CASE wipe(c) BY <2>3 DEF wipe, Wiped
  <2>4. CASE find(c) BY <2>4 DEF find
  <2>5. CASE mkdir(c) BY <2>5 DEF mkdir
  <2>6. CASE fill(c) BY <2>6 DEF fill
  <2>7. CASE verify(c) BY <2>7 DEF verify
  <2>8. CASE displace(c)
    <3>1. CASE UNCHANGED <<final, disp>>
      <4>1. pc[c] # "remove" /\ \A d \in Caller \ {c} : pc'[d] = pc[d] BY <2>8 DEF displace
      <4>2. pc'[c] # "remove" BY <2>8 DEF displace
      <4>3. UNCHANGED <<hadGood, wiped, undone>> BY <2>8 DEF displace
      <4>4. QED BY <3>1, <4>1, <4>2, <4>3
    <3>2. CASE disp' = [disp EXCEPT ![c] = final] /\ final' = "none" /\ final # "none"
      <4>1. pc[c] # "remove" /\ pc' = [pc EXCEPT ![c] = "rename"] BY <2>8, <3>2 DEF displace
      <4>2. UNCHANGED <<hadGood, wiped, undone>> BY <2>8 DEF displace
      <4>3. ASSUME final = "good" PROVE disp'[c] = "good" /\ pc'[c] # "remove" BY <3>2, <4>1, <4>3
      <4>4. ASSUME NEW d \in Caller, disp[d] = "good", pc[d] # "remove", final # "good", d # c
            PROVE disp'[d] = "good" /\ pc'[d] # "remove"
        BY <3>2, <4>1, <4>4
      <4>5. disp[c] = "none" BY <2>8 DEF displace, StagedIsGood, Before
      <4>6. QED BY <4>2, <4>3, <4>4, <4>5
    <3>3. QED BY <2>8, <3>1, <3>2 DEF displace
  <2>9. CASE rename(c) BY <2>9 DEF rename, StagedIsGood, MayRenameOnto
  <2>10. CASE restore(c) BY <2>10 DEF restore, MayRenameOnto
  <2>11. CASE unstage(c) BY <2>11 DEF unstage
  <2>12. CASE remove(c) BY <2>12 DEF remove
  <2>13. CASE committed(c) BY <2>13 DEF committed
  <2>14. CASE Rollback(c) BY <2>14 DEF Rollback
  <2>15. QED BY <1>1, <2>1, <2>2, <2>3, <2>4, <2>5, <2>6, <2>7, <2>8, <2>9, <2>10, <2>11,
                <2>12, <2>13, <2>14 DEF Step
<1>2. ASSUME NEW c \in Caller, lateInstall(c) PROVE Kept' BY <1>2 DEF lateInstall
<1>3. ASSUME NEW c \in Caller, ctxEnds(c) PROVE Kept' BY <1>3 DEF ctxEnds
<1>4. ASSUME NEW c \in Caller, crash(c) PROVE Kept' BY <1>4 DEF crash, HalfRemoved, Wiped
<1>5. CASE UNCHANGED vars BY <1>5 DEF vars
<1>6. QED BY <1>1, <1>2, <1>3, <1>4, <1>5 DEF Next

(***************************************************************************)
(* For any number of calls that interleave, fail and crash: once the       *)
(* version directory has held a good tree, one is left at the final or at  *)
(* a displaced path, unless a check or a failed Commit of a file took it.  *)
(***************************************************************************)
THEOREM StoreKeepsGoodTree == Spec => []GoodTreeKept
<1>1. IInv /\ [Next]_vars => IInv'
  BY TypedStep, StagedStep, KeptStep DEF IInv
<1>2. IInv => GoodTreeKept
  BY DEF IInv, Kept, GoodTreeKept
<1>3. QED BY InitIInv, <1>1, <1>2, PTL DEF Spec

(***************************************************************************)
(* A call holds a displaced tree only between its two renames and the      *)
(* removal, or after it has failed, and a staged one only before Commit is *)
(* over, or after it has failed.                                           *)
(***************************************************************************)
LEMMA HeldStep == ASSUME Typed, StagedIsGood, Held, [Next]_vars PROVE Held'
<1> USE StoreAssumption DEF Typed, TypeOK, Held, Pc, Goto, Return, Fault, callVars, diskVars
<1>1. ASSUME NEW c \in Caller, Step(c) PROVE Held'
  <2>1. CASE Ensure(c) BY <2>1 DEF Ensure, StagedIsGood
  <2>2. CASE checkFinal(c) BY <2>2 DEF checkFinal
  <2>3. CASE wipe(c) BY <2>3 DEF wipe
  <2>4. CASE find(c) BY <2>4 DEF find, StagedIsGood
  <2>5. CASE mkdir(c) BY <2>5 DEF mkdir
  <2>6. CASE fill(c) BY <2>6 DEF fill
  <2>7. CASE verify(c) BY <2>7 DEF verify
  <2>8. CASE displace(c) BY <2>8 DEF displace
  <2>9. CASE rename(c) BY <2>9 DEF rename
  <2>10. CASE restore(c) BY <2>10 DEF restore
  <2>11. CASE unstage(c) BY <2>11 DEF unstage
  <2>12. CASE remove(c) BY <2>12 DEF remove
  <2>13. CASE committed(c) BY <2>13 DEF committed, StagedIsGood
  <2>14. CASE Rollback(c) BY <2>14 DEF Rollback
  <2>15. QED BY <1>1, <2>1, <2>2, <2>3, <2>4, <2>5, <2>6, <2>7, <2>8, <2>9, <2>10, <2>11,
                <2>12, <2>13, <2>14 DEF Step
<1>2. ASSUME NEW c \in Caller, lateInstall(c) PROVE Held' BY <1>2 DEF lateInstall, StagedIsGood
<1>3. ASSUME NEW c \in Caller, ctxEnds(c) PROVE Held' BY <1>3 DEF ctxEnds
<1>4. ASSUME NEW c \in Caller, crash(c) PROVE Held' BY <1>4 DEF crash, HalfRemoved, Over
<1>5. CASE UNCHANGED vars BY <1>5 DEF vars
<1>6. QED BY <1>1, <1>2, <1>3, <1>4, <1>5 DEF Next

(***************************************************************************)
(* For any number of calls: what a call leaves beside the version          *)
(* directory after it returned, it left with an error, and a staged tree   *)
(* only after a failed removal or a context that ended.                    *)
(***************************************************************************)
THEOREM StoreReportsLeftovers == Spec => []LeftoverIsReported
<1> DEFINE Inv == Typed /\ StagedIsGood /\ Held
<1>1. Init => Inv
  <2> SUFFICES ASSUME Init PROVE Held BY InitIInv DEF IInv
  <2>1. QED BY DEF Init, Held
<1>2. Inv /\ [Next]_vars => Inv'
  BY TypedStep, StagedStep, HeldStep
<1>3. Inv => LeftoverIsReported
  BY DEF Held, LeftoverIsReported
<1>4. QED BY <1>1, <1>2, <1>3, PTL DEF Spec

-----------------------------------------------------------------------------
(***************************************************************************)
(* A call that will put a tree at the final path as long as no second file *)
(* operation fails: its next step renames the staged tree there, or puts   *)
(* the displaced one back after that has failed.                           *)
(***************************************************************************)
WillPlace(d) ==
  /\ moved[d] /\ disp[d] # "none"
  /\ pc[d] = "rename" \/ (pc[d] = "restore" /\ faults > 0)

Clean ==
  /\ \A c \in Caller : pc[c] # "crashed"
  /\ faults <= 1 /\ hadGood /\ wiped = {} /\ ~undone

(* Whenever the final path is empty, the call that emptied it is not done. *)
Placed == Clean /\ final = "none" => \E d \in Caller : WillPlace(d)

(***************************************************************************)
(* A call between its steps of Commit is not disturbed by the steps of     *)
(* another call.                                                           *)
(***************************************************************************)
LEMMA OthersStep ==
  ASSUME Typed, NEW c \in Caller, NEW d \in Caller, d # c, WillPlace(d),
         \A e \in Caller \ {c} : pc'[e] = pc[e] /\ disp'[e] = disp[e] /\ moved'[e] = moved[e],
         faults' \in 0..MaxFaults, faults <= faults'
  PROVE  WillPlace(d)'
BY StoreAssumption DEF WillPlace, Typed, TypeOK

(***************************************************************************)
(* Only displace empties the final path of a clean run, and its call is    *)
(* then the one that will fill it.                                         *)
(***************************************************************************)
LEMMA PlacedStep == ASSUME IInv, Placed, [Next]_vars PROVE Placed'
<1> SUFFICES ASSUME Clean', final' = "none" PROVE \E d \in Caller : WillPlace(d)'
  BY DEF Placed
<1> USE StoreAssumption DEF IInv, Typed, TypeOK, Tree, Goto, Return, Fault, callVars, diskVars
<1>1. Typed' BY TypedStep
<1>2. ASSUME NEW c \in Caller, pc[c] \notin {"rename", "restore"}, Clean, final = "none",
             \A e \in Caller \ {c} : pc'[e] = pc[e] /\ disp'[e] = disp[e] /\ moved'[e] = moved[e],
             faults <= faults'
      PROVE  \E d \in Caller : WillPlace(d)'
  <2>1. PICK d \in Caller : WillPlace(d) BY <1>2 DEF Placed
  <2>2. d # c BY <1>2, <2>1 DEF WillPlace
  <2>3. faults' \in 0..MaxFaults BY <1>1
  <2>4. WillPlace(d)' BY <1>2, <2>1, <2>2, <2>3, OthersStep
  <2>5. QED BY <2>4
<1>3. ASSUME NEW c \in Caller, Step(c) PROVE \E d \in Caller : WillPlace(d)'
  <2>1. CASE Ensure(c) BY <1>2, <2>1 DEF Ensure, Clean
  <2>2. CASE checkFinal(c) BY <1>2, <2>2 DEF checkFinal, Clean
  <2>3. CASE wipe(c)
    <3>1. final = "none" /\ wiped = {} BY <2>3 DEF wipe, Wiped, Clean
    <3>2. Clean BY <2>3, <3>1 DEF wipe, Clean
    <3>3. QED BY <1>2, <2>3, <3>1, <3>2 DEF wipe
  <2>4. CASE find(c) BY <1>2, <2>4 DEF find, Clean
  <2>5. CASE mkdir(c) BY <1>2, <2>5 DEF mkdir, Clean
  <2>6. CASE fill(c) BY <1>2, <2>6 DEF fill, Clean
  <2>7. CASE verify(c) BY <1>2, <2>7 DEF verify, Clean
  <2>8. CASE displace(c)
    <3>1. CASE final # "none"
      <4>1. /\ disp' = [disp EXCEPT ![c] = final] /\ moved' = [moved EXCEPT ![c] = TRUE]
            /\ pc' = [pc EXCEPT ![c] = "rename"]
        BY <2>8, <3>1 DEF displace
      <4>2. moved'[c] /\ disp'[c] = final /\ pc'[c] = "rename" BY <4>1
      <4>3. QED BY <3>1, <4>2 DEF WillPlace
    <3>2. CASE final = "none"
      <4>1. Clean BY <2>8 DEF displace, Clean
      <4>2. QED BY <1>2, <2>8, <3>2, <4>1 DEF displace
    <3>3. QED BY <3>1, <3>2
  <2>9. CASE rename(c)
    <3>1. stage[c] = "good" BY <2>9 DEF rename, StagedIsGood
    <3>2. /\ pc' = [pc EXCEPT ![c] = "restore"] /\ final = "none" /\ faults' = faults + 1
          /\ UNCHANGED <<disp, moved, hadGood, wiped, undone>>
      BY <2>9, <3>1 DEF rename, MayRenameOnto
    <3>3. Clean BY <2>9, <3>2 DEF Clean, rename
    <3>4. PICK d \in Caller : WillPlace(d) BY <3>2, <3>3 DEF Placed
    <3>5. CASE d = c BY <3>2, <3>4, <3>5 DEF WillPlace
    <3>6. CASE d # c BY <1>1, <3>2, <3>4, <3>6, OthersStep
    <3>7. QED BY <3>5, <3>6
  <2>10. CASE restore(c)
    <3>1. UNCHANGED <<moved, hadGood, wiped>> /\ pc' = [pc EXCEPT ![c] = "unstage"]
          /\ faults <= faults'
      BY <2>10 DEF restore
    <3>2. Clean
      <4>1. ~undone BY <2>10, Zenon DEF restore, Clean
      <4>2. QED BY <2>10, <3>1, <4>1 DEF Clean, restore
    <3>3. CASE final = "none" /\ disp' = disp
      <4>1. PICK d \in Caller : WillPlace(d) BY <3>2, <3>3 DEF Placed
      <4>2. ASSUME d = c PROVE FALSE
        <5>1. moved[c] /\ faults > 0 BY <2>10, <4>1, <4>2 DEF WillPlace, restore
        <5>2. faults' = faults + 1 /\ faults' <= 1
          BY <2>10, <3>3, <4>1, <4>2, <5>1 DEF restore, MayRenameOnto, WillPlace, Clean
        <5>3. QED BY <5>1, <5>2
      <4>3. QED BY <1>1, <3>1, <3>3, <4>1, <4>2, OthersStep
    <3>4. CASE final' = disp[c] /\ disp' = [disp EXCEPT ![c] = "none"] /\ final = "none"
      <4>1. PICK d \in Caller : WillPlace(d) BY <3>2, <3>4 DEF Placed
      <4>2. d # c BY <3>4, <4>1 DEF WillPlace
      <4>3. QED BY <1>1, <3>1, <3>4, <4>1, <4>2, OthersStep
    <3>5. QED BY <2>10, <3>1, <3>2, <3>3, <3>4 DEF restore, Clean
  <2>11. CASE unstage(c)
    <3>1. UNCHANGED <<stage, final, undone>> BY <2>11 DEF unstage, Clean
    <3>2. QED BY <1>2, <2>11, <3>1 DEF unstage, Clean
  <2>12. CASE remove(c) BY <1>2, <2>12 DEF remove, Clean
  <2>13. CASE committed(c) BY <1>2, <2>13 DEF committed, Clean
  <2>14. CASE Rollback(c) BY <1>2, <2>14 DEF Rollback, Clean
  <2>15. QED BY <1>3, <2>1, <2>2, <2>3, <2>4, <2>5, <2>6, <2>7, <2>8, <2>9, <2>10, <2>11,
                <2>12, <2>13, <2>14 DEF Step
<1>4. ASSUME NEW c \in Caller, lateInstall(c) \/ ctxEnds(c) PROVE \E d \in Caller : WillPlace(d)'
  <2>1. UNCHANGED <<final, pc, disp, moved, faults, hadGood, wiped, undone>>
    BY <1>4 DEF lateInstall, ctxEnds
  <2>2. QED BY <2>1 DEF Placed, Clean, WillPlace
<1>5. ASSUME NEW c \in Caller, crash(c) PROVE FALSE BY <1>5 DEF crash, Clean, Over
<1>6. CASE UNCHANGED vars BY <1>6 DEF vars, Placed, Clean, WillPlace
<1>7. QED BY <1>3, <1>4, <1>5, <1>6 DEF Next

(***************************************************************************)
(* For any number of calls: when all have returned, at most one file       *)
(* operation has failed and no check has removed anything, a version that  *)
(* was installed is at the final path.                                     *)
(***************************************************************************)
THEOREM StoreEndsInPlace == Spec => []EndsInPlace
<1> DEFINE Inv == IInv /\ Placed
<1>1. Init => Inv
  BY InitIInv DEF Init, Placed, Clean
<1>2. Inv /\ [Next]_vars => Inv'
  BY TypedStep, StagedStep, KeptStep, PlacedStep DEF IInv
<1>3. Inv => EndsInPlace
  BY DEF Placed, Clean, WillPlace, EndsInPlace
<1>4. QED BY <1>1, <1>2, <1>3, PTL DEF Spec
=============================================================================
