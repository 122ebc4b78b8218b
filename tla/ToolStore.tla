----------------------------- MODULE ToolStore -----------------------------
(***************************************************************************)
(* Installs of one version of one tool into the store (x/tool/store.go),   *)
(* each a temporary tree beside the version directory that Commit          *)
(* (x/io/atomic/atomic.go) renames into place.  Nothing locks the version  *)
(* directory: the callers are the goroutines and the processes that share  *)
(* the store, and every rename or removal is a step of its own.            *)
(*                                                                         *)
(* A tree is "good" when it passes the tool's checks and "bad" when it has *)
(* files and does not.  RemoveAll is one step, which a crash may leave     *)
(* half done.  The same Commit serves WriteFileFunction, where the path is *)
(* a file: then a rename replaces its target, while os.Rename refuses a    *)
(* target that is a directory.                                             *)
(***************************************************************************)
EXTENDS Naturals, FiniteSets

CONSTANTS
  Caller,     \* the calls that share the version directory
  Kind,       \* what a call may be, out of KindOfCall
  MaxFaults   \* bound on the file operations that fail for reasons of their own

KindOfCall == {"Ensure", "EnsureNoCache", "Install", "WriteFile"}

ASSUME StoreAssumption == Kind \subseteq KindOfCall /\ MaxFaults \in Nat

VARIABLES
  kind,       \* per call: its kind; all of a run are files or none is
  final,      \* the tree at finalPath: "none", "bad" or "good"
  stage,      \* per call: the tree at tempPath
  disp,       \* per call: the tree at the displaced path
  pc,         \* per call: its next step
  moved,      \* per call: displaced # ""
  result,     \* per call: "none", "ok" or "error"
  ctxDone,    \* the calls whose context has ended
  orphan,     \* the calls whose GoIsolated returned before its task
  faults,     \* the failures so far
  hadGood,    \* the final path has once held a good tree
  wiped,      \* what checks have removed since the final path has held a good tree
  undone      \* a failed Commit of a file has overwritten the file in place, or moved it away

vars == <<kind, final, stage, disp, pc, moved, result, ctxDone, orphan, faults,
          hadGood, wiped, undone>>

Tree == {"none", "bad", "good"}
IsFile(c) == kind[c] = "WriteFile"
Over == {"done", "crashed"}

(***************************************************************************)
(* Go to step p of call c, leaving result, trees and the rest to others.   *)
(***************************************************************************)
Goto(c, p) == pc' = [pc EXCEPT ![c] = p]

Return(c, r) == Goto(c, "rollback") /\ result' = [result EXCEPT ![c] = r]

Fault == faults < MaxFaults /\ faults' = faults + 1

Init ==
  /\ kind \in [Caller -> Kind]
  /\ \A c, d \in Caller : IsFile(c) <=> IsFile(d)
  /\ final \in Tree
  /\ stage = [c \in Caller |-> "none"] /\ disp = [c \in Caller |-> "none"]
  /\ pc = [c \in Caller |-> IF kind[c] \in {"Install", "WriteFile"} THEN "mkdir" ELSE "start"]
  /\ moved = [c \in Caller |-> FALSE]
  /\ result = [c \in Caller |-> "none"]
  /\ ctxDone = {} /\ orphan = {} /\ faults = 0
  /\ hadGood = (final = "good") /\ wiped = {} /\ undone = FALSE

-----------------------------------------------------------------------------
(* Ensure *)

diskVars == <<final, stage, disp, moved, faults, hadGood, wiped, undone>>
callVars == <<kind, ctxDone, orphan>>

(***************************************************************************)
(* versionHasFiles and the context flags decide between the cached install *)
(* and a new one.  A no-cache call that is a dry run returns the binary of *)
(* the existing tree, and installs when FindBinary does not find one.      *)
(***************************************************************************)
Ensure(c) ==
  /\ pc[c] = "start"
  /\ \/ kind[c] = "Ensure" /\ final # "none" /\ Goto(c, "check") /\ UNCHANGED result
     \/ kind[c] = "Ensure" /\ final = "none" /\ Goto(c, "mkdir") /\ UNCHANGED result
     \/ kind[c] = "EnsureNoCache" /\ final # "none" /\ Return(c, "ok")
     \/ kind[c] = "EnsureNoCache" /\ Goto(c, "mkdir") /\ UNCHANGED result
  /\ UNCHANGED <<callVars, diskVars>>

(***************************************************************************)
(* fixAndCheck of the existing install: RunChecks fails on a bad tree, on  *)
(* a missing one, and whenever the context has ended.                      *)
(***************************************************************************)
checkFinal(c) ==
  /\ pc[c] = "check"
  /\ Goto(c, IF final = "good" /\ c \notin ctxDone THEN "find" ELSE "wipe")
  /\ UNCHANGED <<callVars, diskVars, result>>

(***************************************************************************)
(* A tree is removed from the final path, and was the one that counts or   *)
(* may hide it.                                                            *)
(***************************************************************************)
Wiped(t) == wiped' = IF hadGood THEN wiped \cup ({t} \ {"none"}) ELSE wiped

(***************************************************************************)
(* fixAndCheck removes what is at the path by then.                        *)
(***************************************************************************)
wipe(c) ==
  /\ pc[c] = "wipe"
  /\ Goto(c, "mkdir")
  /\ \/ final' = "none" /\ Wiped(final) /\ UNCHANGED faults
     \/ Fault /\ UNCHANGED <<final, wiped>>
  /\ UNCHANGED <<callVars, stage, disp, moved, hadGood, undone, result>>

(***************************************************************************)
(* FindBinary, or lookup after an install.                                 *)
(***************************************************************************)
find(c) ==
  /\ pc[c] = "find"
  /\ \/ final # "none" /\ Return(c, "ok")
     \/ Return(c, "error")
  /\ UNCHANGED <<callVars, diskVars>>

-----------------------------------------------------------------------------
(* install, ensureBinaryTool and WriteFileFunction up to Commit *)

(***************************************************************************)
(* MkdirAll (os.Create) of the staging path.                               *)
(***************************************************************************)
mkdir(c) ==
  /\ pc[c] = "mkdir"
  /\ \/ Goto(c, "fill") /\ stage' = [stage EXCEPT ![c] = "bad"] /\ UNCHANGED <<result, faults>>
     \/ Fault /\ Return(c, "error") /\ UNCHANGED stage
  /\ UNCHANGED <<callVars, final, disp, moved, hadGood, wiped, undone>>

(***************************************************************************)
(* The tool's Install under GoIsolated.  A call whose context has ended    *)
(* gets an error back while the install may still be running.              *)
(***************************************************************************)
fill(c) ==
  /\ pc[c] = "fill"
  /\ \/ /\ \E t \in IF IsFile(c) THEN {"good"} ELSE {"bad", "good"} :
             stage' = [stage EXCEPT ![c] = t]
        /\ Goto(c, IF IsFile(c) THEN "displace" ELSE "verify")
        /\ UNCHANGED <<result, orphan>>
     \/ Return(c, "error") /\ UNCHANGED <<stage, orphan>>
     \/ /\ c \in ctxDone /\ ~IsFile(c) /\ Return(c, "error")
        /\ orphan' = orphan \cup {c} /\ UNCHANGED stage
  /\ UNCHANGED <<kind, ctxDone, final, disp, moved, faults, hadGood, wiped, undone>>

(***************************************************************************)
(* The install nobody waits for writes its files, whether or not the       *)
(* directory has been removed, and ends.                                   *)
(***************************************************************************)
lateInstall(c) ==
  /\ c \in orphan
  /\ orphan' = orphan \ {c}
  /\ stage' = [stage EXCEPT ![c] = "bad"]
  /\ UNCHANGED <<kind, ctxDone, final, disp, pc, moved, result, faults, hadGood, wiped, undone>>

(***************************************************************************)
(* fixAndCheck of the staged tree.                                         *)
(***************************************************************************)
verify(c) ==
  /\ pc[c] = "verify"
  /\ \/ stage[c] = "good" /\ c \notin ctxDone /\ Goto(c, "displace") /\ UNCHANGED <<stage, result>>
     \/ /\ stage[c] # "good" \/ c \in ctxDone
        /\ stage' = [stage EXCEPT ![c] = "none"] /\ Return(c, "error")
  /\ UNCHANGED <<callVars, final, disp, moved, faults, hadGood, wiped, undone>>

-----------------------------------------------------------------------------
(* Commit and Rollback *)

\* Mutant: the tree in place is removed before the new one is renamed.
MutantRemovesFirst(c) ==
  /\ pc[c] = "displace"
  /\ final' = "none" /\ Goto(c, "rename")
  /\ UNCHANGED <<callVars, stage, disp, moved, result, faults, hadGood, wiped, undone>>

(***************************************************************************)
(* The first rename, of what is in place to the displaced path.            *)
(***************************************************************************)
displace(c) ==
  /\ pc[c] = "displace"
  /\ \/ /\ final = "none"
        /\ Goto(c, "rename") /\ UNCHANGED <<final, disp, moved, result, faults>>
     \/ /\ final # "none"
        /\ disp' = [disp EXCEPT ![c] = final] /\ final' = "none"
        /\ moved' = [moved EXCEPT ![c] = TRUE]
        /\ Goto(c, "rename") /\ UNCHANGED <<result, faults>>
     \/ Fault /\ Return(c, "error") /\ UNCHANGED <<final, disp, moved>>
  /\ UNCHANGED <<callVars, stage, hadGood, wiped, undone>>

(***************************************************************************)
(* The second rename, of the staged tree to the final path.                *)
(***************************************************************************)
MayRenameOnto(c, target) == target = "none" \/ IsFile(c)

rename(c) ==
  /\ pc[c] = "rename"
  /\ \/ /\ MayRenameOnto(c, final)
        /\ final' = stage[c] /\ stage' = [stage EXCEPT ![c] = "none"]
        /\ hadGood' = (hadGood \/ stage[c] = "good")
        /\ Goto(c, IF moved[c] THEN "remove" ELSE "committed") /\ UNCHANGED faults
     \/ /\ \/ ~MayRenameOnto(c, final) /\ UNCHANGED faults
           \/ Fault
        /\ Goto(c, "restore") /\ UNCHANGED <<final, stage, hadGood>>
  /\ UNCHANGED <<callVars, disp, moved, result, wiped, undone>>

\* Mutant: the displaced tree stays displaced.
MutantNoRestore(c) ==
  /\ pc[c] = "restore"
  /\ Goto(c, "unstage")
  /\ UNCHANGED <<callVars, diskVars, result>>

(***************************************************************************)
(* After a failed second rename, the displaced tree goes back.             *)
(***************************************************************************)
restore(c) ==
  /\ pc[c] = "restore"
  /\ Goto(c, "unstage")
  /\ \/ /\ moved[c] /\ MayRenameOnto(c, final)
        /\ final' = disp[c] /\ disp' = [disp EXCEPT ![c] = "none"]
        /\ undone' = (undone \/ final # "none") /\ UNCHANGED faults
     \/ /\ \/ (moved[c] => ~MayRenameOnto(c, final)) /\ UNCHANGED faults
           \/ moved[c] /\ Fault
        /\ UNCHANGED <<final, disp, undone>>
  /\ UNCHANGED <<callVars, stage, moved, result, hadGood, wiped>>

(***************************************************************************)
(* The last rename of a failed Commit takes the final path to the staging  *)
(* path.  A staged directory is still there and refuses it; a staged file  *)
(* is replaced, and Rollback then removes it.                              *)
(***************************************************************************)
unstage(c) ==
  /\ pc[c] = "unstage"
  /\ Return(c, "error")
  /\ \/ /\ final # "none" /\ MayRenameOnto(c, stage[c])
        /\ stage' = [stage EXCEPT ![c] = final] /\ final' = "none"
        /\ undone' = TRUE
     \/ UNCHANGED <<stage, final, undone>>
  /\ UNCHANGED <<callVars, disp, moved, faults, hadGood, wiped>>

\* Mutant: an error of the removal is ignored.
MutantIgnoresError(c) ==
  /\ pc[c] = "remove"
  /\ Goto(c, "committed")
  /\ \/ disp' = [disp EXCEPT ![c] = "none"] /\ UNCHANGED faults
     \/ Fault /\ UNCHANGED disp
  /\ UNCHANGED <<callVars, final, stage, moved, result, hadGood, wiped, undone>>

(***************************************************************************)
(* RemoveAll of the displaced tree: its error is Commit's.                 *)
(***************************************************************************)
remove(c) ==
  /\ pc[c] = "remove"
  /\ \/ disp' = [disp EXCEPT ![c] = "none"] /\ Goto(c, "committed") /\ UNCHANGED <<result, faults>>
     \/ Fault /\ Return(c, "error") /\ UNCHANGED disp
  /\ UNCHANGED <<callVars, final, stage, moved, hadGood, wiped, undone>>

committed(c) ==
  /\ pc[c] = "committed"
  /\ \/ kind[c] \in {"Install", "WriteFile"} /\ Return(c, "ok")
     \/ kind[c] \notin {"Install", "WriteFile"} /\ Goto(c, "find") /\ UNCHANGED result
  /\ UNCHANGED <<callVars, diskVars>>

(***************************************************************************)
(* The deferred Rollback; its error is only logged.                        *)
(***************************************************************************)
Rollback(c) ==
  /\ pc[c] = "rollback"
  /\ Goto(c, "done")
  /\ \/ stage' = [stage EXCEPT ![c] = "none"] /\ UNCHANGED faults
     \/ stage[c] # "none" /\ Fault /\ UNCHANGED stage
  /\ UNCHANGED <<callVars, final, disp, moved, result, hadGood, wiped, undone>>

-----------------------------------------------------------------------------
(* The environment *)

(***************************************************************************)
(* The context of call c ends; nothing reads it once the tree is verified. *)
(***************************************************************************)
ctxEnds(c) ==
  /\ pc[c] \in {"start", "check", "mkdir", "fill", "verify"} /\ ~IsFile(c)
  /\ ctxDone' = ctxDone \cup {c}
  /\ UNCHANGED <<kind, orphan, diskVars, pc, result>>

(***************************************************************************)
(* The process of call c ends.  What it was removing may be half gone.     *)
(***************************************************************************)
HalfRemoved(p, at, t) == IF p = at /\ t # "none" THEN {t, "bad"} ELSE {t}

crash(c) ==
  /\ pc[c] \notin Over
  /\ Goto(c, "crashed")
  /\ \E t \in HalfRemoved(pc[c], "wipe", final) :
        final' = t /\ Wiped(IF t = final THEN "none" ELSE final)
  /\ \E t \in HalfRemoved(pc[c], "remove", disp[c]) : disp' = [disp EXCEPT ![c] = t]
  /\ orphan' = orphan \ {c}
  /\ UNCHANGED <<kind, ctxDone, stage, moved, result, faults, hadGood, undone>>

Step(c) ==
  \/ Ensure(c) \/ checkFinal(c) \/ wipe(c) \/ find(c)
  \/ mkdir(c) \/ fill(c) \/ verify(c)
  \/ displace(c) \/ rename(c) \/ restore(c) \/ unstage(c) \/ remove(c) \/ committed(c)
  \/ Rollback(c)

AllOver == \A c \in Caller : pc[c] \in Over

Next ==
  \/ \E c \in Caller : Step(c) \/ lateInstall(c) \/ ctxEnds(c) \/ crash(c)
  \/ AllOver /\ UNCHANGED vars

Spec == Init /\ [][Next]_vars

-----------------------------------------------------------------------------
(* Properties *)

(***************************************************************************)
(* The variables have their types.                                         *)
(***************************************************************************)
TypeOK ==
  /\ final \in Tree /\ stage \in [Caller -> Tree] /\ disp \in [Caller -> Tree]
  /\ result \in [Caller -> {"none", "ok", "error"}] /\ moved \in [Caller -> BOOLEAN]
  /\ ctxDone \subseteq Caller /\ orphan \subseteq Caller /\ faults \in 0..MaxFaults

(***************************************************************************)
(* A good tree is never lost by an install: whichever calls interleave,    *)
(* fail or crash, once the final path has held one, a good tree is at the  *)
(* final path or at a displaced path, unless a check removed it or a       *)
(* failed Commit of a file undid more than its own work.                   *)
(***************************************************************************)
GoodTreeKept ==
  hadGood /\ "good" \notin wiped /\ ~undone => "good" \in {final} \cup {disp[c] : c \in Caller}

(***************************************************************************)
(* A displaced tree that stays behind belongs to a call that returned an   *)
(* error or crashed, and a staged one to a call that crashed, could not    *)
(* remove it, or left its install running.                                 *)
(***************************************************************************)
LeftoverIsReported ==
  \A c \in Caller : pc[c] = "done" =>
     /\ disp[c] # "none" => result[c] = "error"
     /\ stage[c] # "none" => result[c] = "error" /\ (faults > 0 \/ c \in ctxDone)

(***************************************************************************)
(* With no crash, at most one failing file operation and nothing removed   *)
(* by a check, a version that has been installed is still there once all   *)
(* calls have returned: however the renames of several calls get in each   *)
(* other's way, one tree ends up at the final path.                        *)
(***************************************************************************)
EndsInPlace ==
  (\A c \in Caller : pc[c] = "done") /\ faults <= 1 /\ hadGood /\ wiped = {} /\ ~undone
     => final # "none"
=============================================================================
