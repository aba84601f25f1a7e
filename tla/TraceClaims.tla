---------------------------- MODULE TraceClaims ----------------------------
(***************************************************************************)
(* What the repository's documents say of a trace and the engine does not  *)
(* do.  Each is checked by a run of its own that finds a counterexample.   *)
(***************************************************************************)
EXTENDS MCTraceEngine

Page == INSTANCE Presenters

(* docs/03-frontend-screens-and-ux.md: "Support nameserver-address lookups *)
(* are rendered as expandable substeps underneath the hop that triggered   *)
(* them": the page can group the hops of every trace, and shows them all.  *)
HopsCanBeGrouped ==
  result # NoResult => Page!GroupingEnds(hops) /\ Page!Shown(hops) = DOMAIN hops

(* docs/02-api-contract.md: truncated says whether the response required   *)
(* TCP fallback, so also on the hop of a fallback that failed.             *)
FallbackIsReported ==
  [][ At("tcp") /\ Len(stack') = Len(stack) /\ stack'[Len(stack)].pc = "query"
        => stack'[Len(stack)].last.truncated ]_vars
=============================================================================
