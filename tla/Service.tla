------------------------------- MODULE Service ------------------------------
(***************************************************************************)
(* The page and the server together: run of frontend/src/App.tsx posts a   *)
(* question (runTrace, frontend/src/lib/api/client.ts), createTrace of     *)
(* backend/internal/httpapi/server.go handles it, and the answer settles   *)
(* the run.  TraceApp assumes that every request is answered or fails;     *)
(* here the answers are those of Admission, and the assumption is shown.   *)
(*                                                                         *)
(* Run i of the page is request i of the server.  The network is external: *)
(* it delivers a request once or the connection fails, at any moment.  A   *)
(* handler whose visitor has gone goes on to its end, and competes with    *)
(* the visitor's next run for tokens and slots.  The process may be ended  *)
(* and started again at any moment: main does not wait for its handlers,   *)
(* and limiters and slots are kept in memory only.                         *)
(***************************************************************************)
EXTENDS Integers, Sequences

CONSTANTS
  Questions, Blank, HopLists, StorageLimit, None, MaxRuns,        \* TraceApp
  Clients, Cost, Burst, MaxConcurrent, TTL, CleanupInterval, MaxPause, MaxClock
                      \* Admission

VARIABLES
  state, queued, storage, runs, saved, serial,                    \* TraceApp
  clock, req, limiters, lastCleanup, bucket, slots,
  lost                \* history: the requests whose handler a restart ended

page == <<state, queued, storage, runs, saved, serial>>

server == <<clock, req, limiters, lastCleanup, bucket, slots>>

vars == <<page, server, lost>>

PageRuns == 1..MaxRuns

App == INSTANCE TraceApp

Api == INSTANCE Admission WITH Requests <- PageRuns, NoRequest <- None

-----------------------------------------------------------------------------
Init == App!Init /\ Api!Init /\ lost = {}

Visitor == App!Visitor /\ UNCHANGED <<server, lost>>

(* The browser renders an answer that has been delivered.                  *)
Commit == App!Commit /\ UNCHANGED <<server, lost>>

(* A request of the page arrives after it was sent, and with the method    *)
(* and the content type the handler asks for.                              *)
Arrive(i) ==
  /\ i \in DOMAIN runs
  /\ Api!ReadClock(i)
  /\ UNCHANGED <<page, lost>>

Handle(i) == ~Api!At(i, "arrived") /\ Api!Handle(i) /\ UNCHANGED <<page, lost>>

Tick == Api!Tick /\ UNCHANGED <<page, lost>>

(* Mutant: the page waits until the handler has returned with a result.    *)
DeliverTracedOnly(i) ==
  /\ i \in App!Pending /\ req[i].reply = "traced"
  /\ App!Response(i)
  /\ UNCHANGED <<server, lost>>

(* The answer is delivered as soon as it is written: runTrace returns the  *)
(* trace of a 200 and throws for every other status.                       *)
Deliver(i) ==
  /\ i \in App!Pending /\ req[i].reply # "none"
  /\ \/ req[i].reply = "traced" /\ App!ResponseOK(i)
     \/ App!ResponseError(i)
  /\ UNCHANGED <<server, lost>>

(* fetch rejects: the connection could not be made, or broke.              *)
Disconnect(i) == i \in App!Pending /\ App!ResponseError(i) /\ UNCHANGED <<server, lost>>

Running(i) == req[i].pc \notin {"arrived", "done"}

(* The process ends, with its handlers, and NewServer begins anew.  What   *)
(* has been written may still reach the page.                              *)
Restart ==
  /\ lost' = lost \cup {i \in PageRuns : Running(i) /\ req[i].reply = "none"}
  /\ req' = [i \in PageRuns |->
               IF Running(i) THEN [req[i] EXCEPT !.pc = "done"] ELSE req[i]]
  /\ limiters' = [c \in Clients |-> Api!NoEntry] /\ lastCleanup' = clock
  /\ slots' = 0
  /\ UNCHANGED <<page, clock, bucket>>

Next ==
  \/ Visitor \/ Commit \/ Tick \/ Restart
  \/ \E i \in PageRuns : Arrive(i) \/ Handle(i) \/ Deliver(i) \/ Disconnect(i)

Spec == Init /\ [][Next]_vars

(* The Go scheduler runs every goroutine: a handler that has started waits *)
(* for nothing but a mutex held for a few statements, its body arrives     *)
(* within the read timeout, and its trace ends (Terminates of TraceEngine).*)
(* The network delivers a request or refuses the connection, and delivers  *)
(* an answer that has been written; the connections of a process that ends *)
(* are closed.  While a handler runs nothing makes its connection break.   *)
(* React renders an answer in the end.  The visitor, the clock and the     *)
(* restarts owe nothing.                                                   *)
FairSpec ==
  /\ Spec /\ WF_vars(Commit)
  /\ \A i \in PageRuns :
       /\ WF_vars(Handle(i))
       /\ WF_vars(i \in App!Pending /\ Api!At(i, "arrived") /\ (Arrive(i) \/ Disconnect(i)))
       /\ WF_vars(Deliver(i))
       /\ WF_vars(i \in lost /\ Disconnect(i))

-----------------------------------------------------------------------------
(* Properties.                                                             *)

(* The page together with the server implements the page that assumes that *)
(* its requests are answered: every run that is still wanted is settled,   *)
(* whether it was traced, refused for the rate or the concurrency, cut     *)
(* off, or in work when the process ended.                                 *)
ImplementsPage == App!FairSpec

(* The Run button becomes usable again after every run, also when other    *)
(* runs, their answers and the rendering of these come in between.         *)
SubmitRecovers == App!SubmitRecovers

(* Every request that has arrived is answered unless its process ended     *)
(* first, also when its visitor has reloaded the page and nobody waits.    *)
EveryRequestAnswered ==
  \A i \in PageRuns :
    Api!At(i, "locking") ~> (Api!At(i, "done") /\ (req[i].reply # "none" \/ i \in lost))

=============================================================================
