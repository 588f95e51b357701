------------------------- MODULE MCCredentialRouting -------------------------
(***************************************************************************)
(* CredentialRouting on small instances.  Requests are interchangeable, and*)
(* so are the credentials that are not Ultra.                              *)
(***************************************************************************)
EXTENDS CredentialRouting, TLC

CONSTANTS c1, c2, c3, q1, q2

Symmetry == Permutations(Requests) \cup Permutations(Creds \ Ultra)
=============================================================================
