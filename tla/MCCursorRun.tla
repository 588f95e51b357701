----------------------------- MODULE MCCursorRun -----------------------------
(***************************************************************************)
(* CursorRun on small instances.  Runs, credentials and contracts are      *)
(* interchangeable, and so are the requests when all of them stream: the   *)
(* symmetry is used by the instances that check no liveness.               *)
(***************************************************************************)
EXTENDS CursorRun, TLC

CONSTANTS r1, r2, q1, q2, q3, c1, c2, k1, k2

Symmetry ==
    Permutations(Runs) \cup Permutations(Requests)
    \cup Permutations(Creds) \cup Permutations(Contracts)
=============================================================================
