---------------------------- MODULE TokenBuckets ----------------------------
(***************************************************************************)
(* What the admission control of POST /api/v1/traces promises: every       *)
(* client has one token bucket of its own, for ever, and an admitted       *)
(* request takes one token from it; at most MaxConcurrent admitted         *)
(* requests are being traced at any time.  There is no limiter map, no     *)
(* clean-up and no handler here: Admission, the model of                   *)
(* backend/internal/httpapi/server.go, implements this module.             *)
(***************************************************************************)
EXTENDS Integers, FiniteSets

CONSTANTS
  Clients,            \* rate-limit keys
  Requests,           \* requests
  Capacity,           \* credit of a full bucket
  Cost,               \* credit a request takes
  MaxConcurrent       \* traces that may run at a time

VARIABLES
  credit,             \* the credit of every client
  running             \* the requests that hold a slot

vars == <<credit, running>>

Init ==
  /\ credit = [c \in Clients |-> Capacity]
  /\ running = {}

(* Time passes: a bucket that is not full gains one unit of credit.        *)
Refill ==
  /\ credit' = [c \in Clients |->
                  IF credit[c] < Capacity THEN credit[c] + 1 ELSE Capacity]
  /\ UNCHANGED running

(* The limiter lets a request of c through.                                *)
Take(c) ==
  /\ credit[c] >= Cost
  /\ credit' = [credit EXCEPT ![c] = @ - Cost]
  /\ UNCHANGED running

Enter(r) ==
  /\ r \notin running /\ Cardinality(running) < MaxConcurrent
  /\ running' = running \cup {r}
  /\ UNCHANGED credit

Leave(r) ==
  /\ r \in running
  /\ running' = running \ {r}
  /\ UNCHANGED credit

Next ==
  \/ Refill
  \/ \E c \in Clients : Take(c)
  \/ \E r \in Requests : Enter(r) \/ Leave(r)

Spec == Init /\ [][Next]_vars
=============================================================================
