---------------------------- MODULE MCAutoBackend -----------------------------
(***************************************************************************)
(* AutoBackend on small instances.  Requests are interchangeable.          *)
(***************************************************************************)
EXTENDS AutoBackend, TLC

CONSTANTS q1, q2, q3

Symmetry == Permutations(Requests)
=============================================================================
