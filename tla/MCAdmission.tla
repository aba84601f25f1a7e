---------------------------- MODULE MCAdmission -----------------------------
(* Small instances of Admission for TLC.                                   *)
EXTENDS Admission, TLC

Symmetry == Permutations(Requests) \cup Permutations(Clients)
=============================================================================
