----------------------------- MODULE MCTaskGroup -----------------------------
(* Instances of TaskGroup for TLC. *)
EXTENDS TaskGroup

\* One leaf pool with one worker: every order of the steps of a leaf, and every
\* way to leave its queue unserved, appears with a single worker.
OnePool  == {"io"}
OneLimit == [p \in OnePool |-> 1]
=============================================================================
