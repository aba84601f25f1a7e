---------------------------- MODULE MCTraceApp ------------------------------
(* Small instances of TraceApp for TLC: traces with one and with three     *)
(* hops, the support lookups' hops (1, 2) before their referral (0).       *)
EXTENDS TraceApp, TLC

TwoHopLists == {<<0>>, <<1, 2, 0>>}

Symmetry == Permutations(Questions)
=============================================================================
