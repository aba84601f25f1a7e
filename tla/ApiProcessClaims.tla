-------------------------- MODULE ApiProcessClaims --------------------------
(***************************************************************************)
(* What the repository's documents say of the questions it accepts and the *)
(* code does not do.  The run that checks it finds a counterexample.       *)
(***************************************************************************)
EXTENDS MCApiProcess

(* docs/02-api-contract.md: ASCII domain names only in v1; so nothing else *)
(* is traced.                                                              *)
AsciiOnly ==
  reply = "traced" =>
    \A i \in DOMAIN asked.text.labels : Kind[asked.text.labels[i]] # "foreign"
=============================================================================
