--------------------------- MODULE MCTraceEngine ---------------------------
(***************************************************************************)
(* Small instances of TraceEngine for TLC.  The messages are the smallest  *)
(* set with one response of every kind the engine tells apart; a .cfg      *)
(* picks the ones its question needs.                                      *)
(***************************************************************************)
EXTENDS TraceEngine

CONSTANTS n1, n2, n3,       \* the queried name, an alias target, a nameserver
          ip1, ip2, ip3     \* ip3 is outside the destination policy

NoGlue == [n \in Names |-> << >>]
Plain == [tc |-> FALSE, aa |-> TRUE, rcode |-> "NOERROR", alias |-> NoName,
          addrs |-> << >>, soa |-> FALSE, ns |-> << >>, glue |-> NoGlue]

AnswerMsg == [Plain EXCEPT !.addrs = <<ip2, ip2>>]
BlockedAnswer == [Plain EXCEPT !.addrs = <<ip3>>]
NoDataMsg == [Plain EXCEPT !.soa = TRUE]
Nxdomain == [Plain EXCEPT !.rcode = "NXDOMAIN", !.soa = TRUE]
Alias == [Plain EXCEPT !.alias = n2]
Glued == [Plain EXCEPT !.ns = <<n3>>, !.glue[n3] = <<ip3, ip1, ip2>>]
Glueless == [Plain EXCEPT !.ns = <<n3, n3>>, !.glue[n2] = <<ip1>>]
BlockedGlue == [Plain EXCEPT !.ns = <<n3, n2>>, !.glue[n3] = <<ip3>>]
Lame == [Plain EXCEPT !.aa = FALSE, !.soa = TRUE]
Truncated == [Plain EXCEPT !.tc = TRUE]

AllNames == {n1, n2, n3}
AllIPs == {ip1, ip2, ip3}
AllowedIPs == {ip1, ip2}
TwoRoots == <<ip1, ip2>>
ThreeRoots == <<ip1, ip3, ip2>>
OneRoot == <<ip1>>

MixedMessages == {AnswerMsg, NoDataMsg, Nxdomain, Alias, Glued, Glueless}
GluelessMessages == {AnswerMsg, BlockedAnswer, Alias, Glueless, BlockedGlue, Lame}
HopMessages == MixedMessages \cup {Truncated}
=============================================================================
