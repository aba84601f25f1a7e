---------------------------- MODULE TraceJourney ----------------------------
(***************************************************************************)
(* What a trace promises its reader, without saying how servers are found: *)
(* a journey of hops from the queried name, each asking about the name the *)
(* one before it led to, that costs at least one upstream query per hop,   *)
(* respects the two guardrails (depth and query budget), and ends exactly  *)
(* once: successfully at an answer or NODATA, or with a failure.           *)
(* TraceEngine implements it (the support lookups are its internal steps). *)
(***************************************************************************)
EXTENDS Naturals, Sequences

CONSTANTS Names, QName, MaxDepth, MaxUpstreamQueries, NoName

VARIABLES
  journey,            \* the top-level hops: queried name, kind, alias target
  queries,            \* upstream queries spent
  status              \* "running", "success" or "failure"

vars == <<journey, queries, status>>

Kinds == {"answer", "nodata", "cname", "referral", "error"}

HopOf(qname, kinds) ==
  [qname : {qname}, kind : kinds, alias : Names \cup {NoName}]

Current ==
  IF journey = << >> THEN QName
  ELSE LET h == journey[Len(journey)]
       IN  IF h.kind = "cname" THEN h.alias ELSE h.qname

Init == journey = << >> /\ queries = 0 /\ status = "running"

Query ==
  /\ status = "running" /\ queries < MaxUpstreamQueries
  /\ queries' = queries + 1
  /\ UNCHANGED <<journey, status>>

Advance ==
  /\ status = "running"
  /\ Len(journey) < MaxDepth /\ Len(journey) < queries
  /\ \E h \in HopOf(Current, {"cname", "referral"}) :
       /\ h.kind = "cname" => h.alias # NoName
       /\ journey' = Append(journey, h)
  /\ UNCHANGED <<queries, status>>

Succeed ==
  /\ status = "running"
  /\ Len(journey) < MaxDepth /\ Len(journey) < queries
  /\ \E h \in HopOf(Current, {"answer", "nodata"}) : journey' = Append(journey, h)
  /\ status' = "success"
  /\ UNCHANGED queries

FailAtHop ==
  /\ status = "running" /\ Len(journey) < MaxDepth
  /\ \E h \in HopOf(Current, {"error"}) : journey' = Append(journey, h)
  /\ status' = "failure"
  /\ UNCHANGED queries

HitGuardrail ==
  /\ status = "running"
  /\ Len(journey) = MaxDepth \/ queries = MaxUpstreamQueries
  /\ status' = "failure"
  /\ UNCHANGED <<journey, queries>>

Next == Query \/ Advance \/ Succeed \/ FailAtHop \/ HitGuardrail

Spec == Init /\ [][Next]_vars

=============================================================================
