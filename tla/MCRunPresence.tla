----------------------------- MODULE MCRunPresence -----------------------------
(***************************************************************************)
(* Instances of RunPresence for TLC.                                       *)
(***************************************************************************)
EXTENDS RunPresence, TLC

\* Runs are interchangeable, and so are process numbers; used by
\* the runs that check no liveness.
Symmetry == Permutations(Runs) \cup Permutations(Pids)

================================================================================
