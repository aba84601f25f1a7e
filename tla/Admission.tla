----------------------------- MODULE Admission ------------------------------
(***************************************************************************)
(* Admission control of POST /api/v1/traces: the handler createTrace and   *)
(* limiterFor in backend/internal/httpapi/server.go.                       *)
(*                                                                         *)
(* Every request runs createTrace on a goroutine of its own.  The handlers *)
(* share the limiter map (behind limiterMu), the limiters it points to and *)
(* the semaphore.  limiterFor reads the clock BEFORE it takes the mutex    *)
(* and createTrace calls Allow AFTER the mutex is released, so another     *)
(* handler may clean the map up, or write an older lastSeen, in between.   *)
(*                                                                         *)
(* Time is counted in ticks of an arbitrary length; rate.Limiter           *)
(* (golang.org/x/time/rate) is modelled as a bucket that gains one unit of *)
(* credit a tick and from which Allow takes Cost units.  Allow is one step *)
(* here, which is idealised a little: it reads the clock just before it    *)
(* takes its own mutex.  A limiter is named by the request that created    *)
(* it.                                                                     *)
(***************************************************************************)
EXTENDS Integers, FiniteSets

CONSTANTS
  Clients,            \* rate-limit keys (resolveClientIdentity)
  Requests,           \* requests, each handled once
  NoRequest,          \* no limiter
  Cost,               \* ticks in which a limiter gains one token
  Burst,              \* s.limiterBurst
  MaxConcurrent,      \* capacity of s.semaphore
  TTL,                \* s.limiterTTL
  CleanupInterval,    \* s.limiterCleanupInterval
  MaxPause,           \* ticks a handler may need from the clock to Allow
  MaxClock            \* bound: the clock stops there

Capacity == Burst * Cost

(* The defaults are a token every 3 s, 5 tokens, a TTL of 15 min and a     *)
(* clean-up interval of 5 min: an idle limiter is full again long before   *)
(* it may be dropped, even if handlers are held up for minutes.            *)
ASSUME AdmissionAssumption ==
  /\ NoRequest \notin Requests
  /\ Cost \in Nat \ {0} /\ Burst \in Nat \ {0} /\ MaxConcurrent \in Nat \ {0}
  /\ CleanupInterval \in Nat \ {0} /\ MaxPause \in Nat /\ MaxClock \in Nat
  /\ TTL \in Nat /\ TTL >= Burst * Cost + 2 * MaxPause

VARIABLES
  clock,              \* the time
  req,                \* the handlers of the requests
  limiters,           \* s.limiters: the limiter and lastSeen of a client
  lastCleanup,        \* s.lastLimiterCleanup
  bucket,             \* the limiters: their credit, at the time of last
  slots               \* len(s.semaphore)

vars == <<clock, req, limiters, lastCleanup, bucket, slots>>

(* Where a handler is: before limiterFor, waiting for limiterMu with its   *)
(* clock reading, before Allow, before the semaphore, with a slot before   *)
(* the body is decoded, tracing, about to run the deferred release, done.  *)
Pcs == {"arrived", "locking", "allow", "acquire", "decode", "trace", "release", "done"}

(* "rejected" stands for the replies 405 and 415, "traced" for the replies *)
(* after Trace has returned: 200, and the errors of writeTraceError.       *)
Replies == {"none", "rejected", "rate_limited", "concurrency_limited",
            "invalid_request", "traced"}

Handler ==
  [pc : Pcs, client : Clients, now : Nat, limiter : Requests \cup {NoRequest},
   reply : Replies]

Entry == [limiter : Requests, lastSeen : Nat]
NoEntry == [limiter |-> NoRequest, lastSeen |-> 0]

Bucket == [credit : 0..Capacity, last : Nat]

Least(a, b) == IF a < b THEN a ELSE b

(* Mutant: an idle limiter goes on saving.                                 *)
LevelUncapped(b) == b.credit + (clock - b.last)

Level(b) == Least(Capacity, b.credit + (clock - b.last))

-----------------------------------------------------------------------------
Init ==
  /\ clock = 0
  /\ \E client \in [Requests -> Clients] :
       req = [r \in Requests |->
                [pc |-> "arrived", client |-> client[r], now |-> 0,
                 limiter |-> NoRequest, reply |-> "none"]]
  /\ limiters = [c \in Clients |-> NoEntry]
  /\ lastCleanup = 0
  /\ bucket = [r \in Requests |-> [credit |-> Capacity, last |-> 0]]
  /\ slots = 0

At(r, pc) == req[r].pc = pc

Goto(r, pc) == req' = [req EXCEPT ![r].pc = pc]

(* The handler has no slot and returns with this reply.                    *)
Refuse(r, reply) == req' = [req EXCEPT ![r].pc = "done", ![r].reply = reply]

(* The handler holds a slot, and its reply is written before the deferred  *)
(* function gives the slot back.                                           *)
Answer(r, reply) == req' = [req EXCEPT ![r].pc = "release", ![r].reply = reply]

(* Wrong method or content type.                                           *)
Reject(r) ==
  /\ At(r, "arrived")
  /\ Refuse(r, "rejected")
  /\ UNCHANGED <<clock, limiters, lastCleanup, bucket, slots>>

(* now := time.Now(), before the mutex.                                    *)
ReadClock(r) ==
  /\ At(r, "arrived")
  /\ req' = [req EXCEPT ![r].pc = "locking", ![r].now = clock]
  /\ UNCHANGED <<clock, limiters, lastCleanup, bucket, slots>>

CleanupDue(now) == now - lastCleanup >= CleanupInterval

(* Mutant: a limiter may be dropped before it is full again.               *)
ExpiredAtInterval(e, now) == now - e.lastSeen > CleanupInterval

(* Mutant: the clean-up drops limiters that are in use.                    *)
ExpiredAtOnce(e, now) == now >= e.lastSeen

Expired(e, now) == now - e.lastSeen > TTL

(* Mutant: the clean-up is only noted.                                     *)
CleanedNever(now) == limiters

(* The map after the clean-up a handler with this clock reading does.      *)
Cleaned(now) ==
  [c \in Clients |->
     IF CleanupDue(now) /\ Expired(limiters[c], now) THEN NoEntry ELSE limiters[c]]

(* Mutant: the request of a known client does not refresh lastSeen.        *)
LimiterForUnseen(r) ==
  /\ At(r, "locking")
  /\ LET now   == req[r].now
         c     == req[r].client
         known == Cleaned(now)[c].limiter # NoRequest
         mine  == IF known THEN Cleaned(now)[c].limiter ELSE r
     IN  /\ limiters' = IF known THEN Cleaned(now)
                        ELSE [Cleaned(now) EXCEPT ![c] = [limiter |-> r, lastSeen |-> now]]
         /\ lastCleanup' = IF CleanupDue(now) THEN now ELSE lastCleanup
         /\ bucket' = IF known THEN bucket
                      ELSE [bucket EXCEPT ![r] = [credit |-> Capacity, last |-> clock]]
         /\ req' = [req EXCEPT ![r].pc = "allow", ![r].limiter = mine]
  /\ UNCHANGED <<clock, slots>>

(* The part of limiterFor under limiterMu.                                 *)
LimiterFor(r) ==
  /\ At(r, "locking")
  /\ LET now   == req[r].now
         c     == req[r].client
         known == Cleaned(now)[c].limiter # NoRequest
         mine  == IF known THEN Cleaned(now)[c].limiter ELSE r
     IN  /\ limiters' = [Cleaned(now) EXCEPT ![c] = [limiter |-> mine, lastSeen |-> now]]
         /\ lastCleanup' = IF CleanupDue(now) THEN now ELSE lastCleanup
         /\ bucket' = IF known THEN bucket
                      ELSE [bucket EXCEPT ![r] = [credit |-> Capacity, last |-> clock]]
         /\ req' = [req EXCEPT ![r].pc = "allow", ![r].limiter = mine]
  /\ UNCHANGED <<clock, slots>>

Allow(r) ==
  /\ At(r, "allow")
  /\ Level(bucket[req[r].limiter]) >= Cost
  /\ bucket' = [bucket EXCEPT ![req[r].limiter] =
                  [credit |-> Level(@) - Cost, last |-> clock]]
  /\ Goto(r, "acquire")
  /\ UNCHANGED <<clock, limiters, lastCleanup, slots>>

RateLimit(r) ==
  /\ At(r, "allow")
  /\ Level(bucket[req[r].limiter]) < Cost
  /\ Refuse(r, "rate_limited")
  /\ UNCHANGED <<clock, limiters, lastCleanup, bucket, slots>>

Acquire(r) ==
  /\ At(r, "acquire") /\ slots < MaxConcurrent
  /\ slots' = slots + 1
  /\ Goto(r, "decode")
  /\ UNCHANGED <<clock, limiters, lastCleanup, bucket>>

(* The token is spent, the request is not traced.                          *)
ConcurrencyLimit(r) ==
  /\ At(r, "acquire") /\ slots >= MaxConcurrent
  /\ Refuse(r, "concurrency_limited")
  /\ UNCHANGED <<clock, limiters, lastCleanup, bucket, slots>>

(* Mutant: the slot is only given back after a trace.                      *)
InvalidBodyKeepsSlot(r) ==
  /\ At(r, "decode")
  /\ Refuse(r, "invalid_request")
  /\ UNCHANGED <<clock, limiters, lastCleanup, bucket, slots>>

InvalidBody(r) ==
  /\ At(r, "decode")
  /\ Answer(r, "invalid_request")
  /\ UNCHANGED <<clock, limiters, lastCleanup, bucket, slots>>

StartTrace(r) ==
  /\ At(r, "decode")
  /\ Goto(r, "trace")
  /\ UNCHANGED <<clock, limiters, lastCleanup, bucket, slots>>

(* Mutant: the error of a trace is logged and never written.               *)
FinishTraceSilent(r) ==
  /\ At(r, "trace")
  /\ Goto(r, "release")
  /\ UNCHANGED <<clock, limiters, lastCleanup, bucket, slots>>

(* Trace returns a result or an error (writeTraceError).                   *)
FinishTrace(r) ==
  /\ At(r, "trace")
  /\ Answer(r, "traced")
  /\ UNCHANGED <<clock, limiters, lastCleanup, bucket, slots>>

(* defer func() { <-s.semaphore }()                                        *)
Release(r) ==
  /\ At(r, "release")
  /\ slots' = slots - 1
  /\ Goto(r, "done")
  /\ UNCHANGED <<clock, limiters, lastCleanup, bucket>>

(* Time passes, but no handler is held up for longer than MaxPause between *)
(* its clock reading and Allow.                                            *)
Tick ==
  /\ clock < MaxClock
  /\ \A r \in Requests :
       req[r].pc \in {"locking", "allow"} => clock - req[r].now < MaxPause
  /\ clock' = clock + 1
  /\ UNCHANGED <<req, limiters, lastCleanup, bucket, slots>>

Handle(r) ==
  \/ Reject(r) \/ ReadClock(r) \/ LimiterFor(r)
  \/ Allow(r) \/ RateLimit(r)
  \/ Acquire(r) \/ ConcurrencyLimit(r)
  \/ InvalidBody(r) \/ StartTrace(r) \/ FinishTrace(r) \/ Release(r)

(* Every request has been answered.                                        *)
Done == (\A r \in Requests : At(r, "done")) /\ UNCHANGED vars

Next == Tick \/ (\E r \in Requests : Handle(r)) \/ Done

Spec == Init /\ [][Next]_vars

-----------------------------------------------------------------------------
(* Properties.                                                             *)

(* Type invariant.                                                         *)
TypeOK ==
  /\ clock \in 0..MaxClock
  /\ req \in [Requests -> Handler]
  /\ limiters \in [Clients -> Entry \cup {NoEntry}]
  /\ lastCleanup \in Nat
  /\ bucket \in [Requests -> Bucket]
  /\ slots \in Nat

HoldsSlot(r) == req[r].pc \in {"decode", "trace", "release"}

(* "Conservative concurrency caps": at most MaxConcurrent requests are     *)
(* decoded or traced at a time, and no way out of createTrace leaks a slot *)
(* or gives one back that it does not hold.                                *)
SlotsAccounted ==
  /\ slots = Cardinality({r \in Requests : HoldsSlot(r)})
  /\ slots <= MaxConcurrent

Passed(r) == req[r].pc = "acquire" \/ HoldsSlot(r)
             \/ (At(r, "done") /\ req[r].reply \notin {"rejected", "rate_limited"})

(* The rate limit is the client's, whatever happens to the map: since the  *)
(* server started no client had more requests let through than one burst   *)
(* and the tokens of the time that has passed.                             *)
RateRespected ==
  \A c \in Clients :
    Cost * Cardinality({r \in Requests : req[r].client = c /\ Passed(r)})
      <= Capacity + clock

(* A handler on its way to Allow holds the limiter the map has for its     *)
(* client: nobody's clean-up has replaced it, so two requests of a client  *)
(* never spend from two buckets.                                           *)
OneLimiterPerClient ==
  \A r \in Requests :
    At(r, "allow") => limiters[req[r].client].limiter = req[r].limiter

(* The map does not grow for ever: the clean-up has left no client behind  *)
(* that was idle for the TTL at the time.                                  *)
IdleClientsForgotten ==
  \A c \in Clients :
    limiters[c] # NoEntry => limiters[c].lastSeen >= lastCleanup - TTL

(* A client that has no entry has a full bucket.                           *)
Credit(c) ==
  IF limiters[c] = NoEntry THEN Capacity ELSE Level(bucket[limiters[c].limiter])

Buckets ==
  INSTANCE TokenBuckets WITH
    credit  <- [c \in Clients |-> Credit(c)],
    running <- {r \in Requests : HoldsSlot(r)}

(* The limiter map with its clean-up implements one bucket per client that *)
(* lives for ever: dropping an entry and making a new one is never seen.   *)
ImplementsTokenBuckets == Buckets!Spec

=============================================================================
