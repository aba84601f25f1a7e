----------------------------- MODULE MCService ------------------------------
(* A small instance of Service for TLC: traces with a single hop.          *)
EXTENDS Service

OneHopList == {<<0>>}
=============================================================================
