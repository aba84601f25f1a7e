--------------------------- MODULE TraceAppClaims ---------------------------
(***************************************************************************)
(* What the repository's documents say of the page and the page does not   *)
(* do.  Each is checked by a run of its own that finds a counterexample.   *)
(***************************************************************************)
EXTENDS MCTraceApp

(* docs/07-acceptance-criteria.md: recent trace metadata is stored locally *)
(* and reused; so a stored trace is only displaced by newer ones, also     *)
(* when two runs overlap.                                                  *)
RecentsForgetNothing == storage = MostRecent
=============================================================================
