-------------------------- MODULE AdmissionProofs ---------------------------
(***************************************************************************)
(* Theorems about Admission, for every set of clients and of requests,     *)
(* every rate, burst and cap, every clean-up interval and every TTL that   *)
(* AdmissionAssumption allows.                                             *)
(***************************************************************************)
EXTENDS Admission, FiniteSetTheorems, TLAPS

-----------------------------------------------------------------------------
(* The inductive invariant.                                                *)

(* Between its clock reading and Allow a handler is at most MaxPause old.  *)
ReadingsRecent ==
  \A r \in Requests :
    req[r].pc \in {"locking", "allow"} =>
      req[r].now <= clock /\ clock <= req[r].now + MaxPause

(* A limiter in the map belongs to the client it was made for, and the     *)
(* handler that made it has left limiterFor.                               *)
LimitersOwned ==
  \A c \in Clients :
    limiters[c] # NoEntry =>
      /\ req[limiters[c].limiter].client = c
      /\ req[limiters[c].limiter].pc \notin {"arrived", "locking"}

(* lastSeen may be older than the reading of a handler on its way to Allow *)
(* (another handler of the client wrote its own), but not by much.         *)
HoldersSeen ==
  \A r \in Requests :
    At(r, "allow") =>
      /\ limiters[req[r].client] # NoEntry
      /\ limiters[req[r].client].limiter = req[r].limiter
      /\ req[r].now <= limiters[req[r].client].lastSeen + MaxPause

(* Nor is lastSeen much older than the last use of the limiter.            *)
UsesSeen ==
  \A c \in Clients :
    limiters[c] # NoEntry =>
      bucket[limiters[c].limiter].last <= limiters[c].lastSeen + 2 * MaxPause

(* Nothing was done in the future.                                         *)
PastOnly ==
  /\ lastCleanup <= clock
  /\ \A r \in Requests : bucket[r].last <= clock

Holders == {r \in Requests : HoldsSlot(r)}

SlotsInv == IsFiniteSet(Holders) /\ SlotsAccounted

Core ==
  /\ TypeOK
  /\ ReadingsRecent
  /\ LimitersOwned
  /\ HoldersSeen
  /\ UsesSeen
  /\ PastOnly
  /\ SlotsInv

(* A request that passed the limiter keeps a reply that says so.           *)
ReleasesAnswered ==
  \A r \in Requests :
    At(r, "release") => req[r].reply \in {"invalid_request", "traced"}

PassedOf(c) == {r \in Requests : req[r].client = c /\ Passed(r)}

(* What a client has used and what it has left never exceed a burst and    *)
(* the tokens of the time that has passed.                                 *)
CreditAccounted ==
  \A c \in Clients :
    /\ IsFiniteSet(PassedOf(c))
    /\ Cost * Cardinality(PassedOf(c)) + Credit(c) <= Capacity + clock

IInv == Core /\ ReleasesAnswered /\ CreditAccounted

-----------------------------------------------------------------------------
(* Lemmas.                                                                 *)

(* The constants are numbers.                                              *)
LEMMA Constants ==
  /\ Capacity \in Nat /\ Cost \in Nat /\ Cost >= 1
  /\ MaxPause \in Nat /\ TTL \in Nat /\ CleanupInterval \in Nat /\ CleanupInterval >= 1
  /\ TTL >= Capacity + 2 * MaxPause /\ Cost <= Capacity
  /\ MaxConcurrent \in Nat /\ MaxClock \in Nat /\ NoRequest \notin Requests
<1>1. Burst \in Nat /\ Burst >= 1 /\ Cost \in Nat /\ Cost >= 1
  BY AdmissionAssumption
<1>2. Burst * Cost \in Nat
  BY <1>1
<1>3. Burst * Cost = (Burst - 1) * Cost + Cost /\ (Burst - 1) * Cost \in Nat
  BY <1>1
<1> QED  BY <1>1, <1>2, <1>3, AdmissionAssumption DEF Capacity

(* A limiter never has more than a burst to give, and never less than      *)
(* nothing.                                                                *)
LEMMA LevelType ==
  ASSUME TypeOK, NEW b \in Bucket, b.last <= clock
  PROVE  Level(b) \in 0..Capacity
BY Constants DEF TypeOK, Bucket, Level, Least

(* An entry is made of the limiter of a request, or there is none.         *)
LEMMA EntryShape ==
  ASSUME TypeOK, NEW c \in Clients
  PROVE  /\ limiters[c] # NoEntry =>
              limiters[c].limiter \in Requests /\ limiters[c].lastSeen \in Nat
         /\ limiters[c] = NoEntry => limiters[c].limiter = NoRequest
         /\ limiters[c].limiter = NoRequest <=> limiters[c] = NoEntry
BY Constants DEF TypeOK, Entry, NoEntry

(* The clean-up leaves an entry alone or drops it, and it only drops one   *)
(* that has not been seen for the TTL.                                     *)
LEMMA CleanedShape ==
  ASSUME NEW now, NEW c \in Clients
  PROVE  /\ Cleaned(now)[c] = IF CleanupDue(now) /\ Expired(limiters[c], now)
                              THEN NoEntry ELSE limiters[c]
         /\ Cleaned(now)[c] # NoEntry => Cleaned(now)[c] = limiters[c]
         /\ Cleaned(now)[c] # limiters[c] => now - limiters[c].lastSeen > TTL
BY DEF Cleaned, Expired

(* What the clean-up drops is a limiter that is full and that no handler   *)
(* is about to use.                                                        *)
LEMMA DroppedIsFull ==
  ASSUME Core, NEW r \in Requests, At(r, "locking"), NEW c \in Clients,
         limiters[c] # NoEntry, Cleaned(req[r].now)[c] = NoEntry
  PROVE  /\ Level(bucket[limiters[c].limiter]) = Capacity
         /\ \A q \in Requests : At(q, "allow") => req[q].client # c
<1> DEFINE now == req[r].now
           e == limiters[c]
<1>1. now - e.lastSeen > TTL
  BY CleanedShape
<1>2. now \in Nat /\ now <= clock /\ clock \in Nat /\ e.lastSeen \in Nat /\ e.limiter \in Requests
  BY EntryShape, Constants DEF Core, TypeOK, ReadingsRecent, At, Handler
<1>3. Level(bucket[e.limiter]) = Capacity
  <2>1. bucket[e.limiter].last <= e.lastSeen + 2 * MaxPause
    BY DEF Core, UsesSeen
  <2>2. bucket[e.limiter].last \in Nat /\ bucket[e.limiter].credit \in 0..Capacity
    BY <1>2 DEF Core, TypeOK, Bucket
  <2>3. clock - bucket[e.limiter].last > Capacity
    BY <1>1, <1>2, <2>1, <2>2, Constants
  <2> QED  BY <1>2, <2>2, <2>3, Constants DEF Level, Least
<1>4. ASSUME NEW q \in Requests, At(q, "allow"), req[q].client = c  PROVE FALSE
  <2>1. req[q].now \in Nat /\ req[q].now <= e.lastSeen + MaxPause
    BY <1>4 DEF Core, HoldersSeen, TypeOK, Handler
  <2>2. clock <= req[q].now + MaxPause
    BY <1>4 DEF Core, ReadingsRecent, At
  <2> QED  BY <1>1, <1>2, <2>1, <2>2, Constants
<1> QED  BY <1>3, <1>4

(* LimiterFor, said by what it does to every client and every handler: the *)
(* handler's client has an entry seen at its reading, either with the      *)
(* limiter it had or with a new one that is full; any other client keeps   *)
(* its entry or loses it to the clean-up.                                  *)
LEMMA LimiterForStep ==
  ASSUME Core, NEW r \in Requests, LimiterFor(r)
  PROVE  LET now == req[r].now
             me  == req[r].client
             m   == req'[r].limiter
         IN  /\ now \in Nat /\ me \in Clients /\ m \in Requests
             /\ At(r, "locking") /\ now <= clock /\ clock <= now + MaxPause
             /\ req' = [req EXCEPT ![r].pc = "allow", ![r].limiter = m]
             /\ limiters'[me] = [limiter |-> m, lastSeen |-> now]
             /\ limiters' \in [Clients -> Entry \cup {NoEntry}]
             /\ \A c \in Clients : c # me => limiters'[c] = Cleaned(now)[c]
             /\ lastCleanup' = IF CleanupDue(now) THEN now ELSE lastCleanup
             /\ \/ /\ limiters[me] # NoEntry /\ Cleaned(now)[me] = limiters[me]
                   /\ m = limiters[me].limiter /\ bucket' = bucket
                \/ /\ m = r /\ Cleaned(now)[me] = NoEntry
                   /\ bucket' = [bucket EXCEPT ![r] = [credit |-> Capacity, last |-> clock]]
             /\ clock' = clock /\ slots' = slots
<1> DEFINE now == req[r].now
           me == req[r].client
           known == Cleaned(now)[me].limiter # NoRequest
           mine == IF known THEN Cleaned(now)[me].limiter ELSE r
<1>1. now \in Nat /\ me \in Clients /\ req \in [Requests -> Handler]
  BY DEF Core, TypeOK, Handler
<1>2. At(r, "locking") /\ now <= clock /\ clock <= now + MaxPause
  BY DEF LimiterFor, Core, ReadingsRecent, At
<1>3. /\ limiters' = [Cleaned(now) EXCEPT ![me] = [limiter |-> mine, lastSeen |-> now]]
      /\ lastCleanup' = IF CleanupDue(now) THEN now ELSE lastCleanup
      /\ bucket' = IF known THEN bucket
                   ELSE [bucket EXCEPT ![r] = [credit |-> Capacity, last |-> clock]]
      /\ req' = [req EXCEPT ![r].pc = "allow", ![r].limiter = mine]
      /\ clock' = clock /\ slots' = slots
  BY DEF LimiterFor
<1>4. Cleaned(now) \in [Clients -> Entry \cup {NoEntry}]
  BY CleanedShape DEF Core, TypeOK, Cleaned
<1>5. known => /\ Cleaned(now)[me] = limiters[me] /\ limiters[me] # NoEntry
               /\ mine = limiters[me].limiter
  BY <1>1, CleanedShape, Constants DEF NoEntry
<1>6. ~known => Cleaned(now)[me] = NoEntry /\ mine = r
  BY <1>1, <1>4, Constants DEF Entry, NoEntry
<1>7. mine \in Requests
  BY <1>1, <1>5, <1>6, EntryShape DEF Core
<1>8. req'[r].limiter = mine
  BY <1>1, <1>3 DEF Handler
<1> HIDE DEF known, mine
<1>9. limiters'[me] = [limiter |-> mine, lastSeen |-> now]
  BY <1>1, <1>3, <1>4
<1>10. limiters' \in [Clients -> Entry \cup {NoEntry}]
  BY <1>1, <1>3, <1>4, <1>7 DEF Entry
<1>11. \A c \in Clients : c # me => limiters'[c] = Cleaned(now)[c]
  BY <1>1, <1>3, <1>4
<1> QED
  BY <1>1, <1>2, <1>3, <1>5, <1>6, <1>7, <1>8, <1>9, <1>10, <1>11

(* A handler moves on, and is neither before Allow nor after its reading   *)
(* of the clock.                                                           *)
MovesTo(r, pc) ==
  /\ req' = [req EXCEPT ![r] = req'[r]]
  /\ req'[r] \in Handler /\ req'[r].pc = pc
  /\ req'[r].client = req[r].client
  /\ pc \notin {"arrived", "locking", "allow"}

(* The handlers that hold a slot after a step of one handler.              *)
LEMMA HoldersAfter ==
  ASSUME TypeOK, NEW r \in Requests,
         req' = [req EXCEPT ![r] = req'[r]]
  PROVE  Holders' = IF req'[r].pc \in {"decode", "trace", "release"}
                    THEN Holders \cup {r} ELSE Holders \ {r}
BY DEF TypeOK, Holders, HoldsSlot

(* Such a step keeps the accounts when it takes a slot with a slot, gives  *)
(* back its own, or does neither.                                          *)
LEMMA SlotsAfter ==
  ASSUME TypeOK, SlotsInv, NEW r \in Requests,
         req' = [req EXCEPT ![r] = req'[r]],
         \/ HoldsSlot(r) /\ HoldsSlot(r)' /\ slots' = slots
         \/ ~HoldsSlot(r) /\ ~HoldsSlot(r)' /\ slots' = slots
         \/ ~HoldsSlot(r) /\ HoldsSlot(r)' /\ slots < MaxConcurrent /\ slots' = slots + 1
         \/ HoldsSlot(r) /\ ~HoldsSlot(r)' /\ slots' = slots - 1
  PROVE  SlotsInv' /\ slots' \in Nat
<1>1. IsFiniteSet(Holders) /\ slots = Cardinality(Holders) /\ slots <= MaxConcurrent
  BY DEF SlotsInv, SlotsAccounted, Holders
<1>2. r \in Holders <=> HoldsSlot(r)
  BY DEF Holders
<1>3. Holders' = IF HoldsSlot(r)' THEN Holders \cup {r} ELSE Holders \ {r}
  BY HoldersAfter DEF HoldsSlot
<1>4. /\ IsFiniteSet(Holders \cup {r}) /\ IsFiniteSet(Holders \ {r})
      /\ Cardinality(Holders \cup {r}) =
           IF HoldsSlot(r) THEN Cardinality(Holders) ELSE Cardinality(Holders) + 1
      /\ Cardinality(Holders \ {r}) =
           IF HoldsSlot(r) THEN Cardinality(Holders) - 1 ELSE Cardinality(Holders)
  BY <1>1, <1>2, FS_AddElement, FS_RemoveElement
<1>5. IsFiniteSet(Holders') /\ slots' = Cardinality(Holders') /\ slots' <= MaxConcurrent
  BY <1>1, <1>3, <1>4, Constants DEF TypeOK
<1>6. Cardinality(Holders') \in Nat
  BY <1>5, FS_CardinalityType
<1> QED  BY <1>5, <1>6 DEF SlotsInv, SlotsAccounted, Holders

(* A step of a handler that is past Allow, or refused before it, leaves    *)
(* the limiters as they are.                                               *)
LEMMA CoreAfterMove ==
  ASSUME Core, NEW r \in Requests, NEW pc, MovesTo(r, pc),
         UNCHANGED <<clock, limiters, lastCleanup, bucket>>,
         SlotsInv', slots' \in Nat
  PROVE  Core'
<1>1. req' \in [Requests -> Handler]
      /\ \A q \in Requests : q # r => req'[q] = req[q]
  BY DEF Core, TypeOK, MovesTo
<1>2. \A q \in Requests : req'[q].client = req[q].client
  BY <1>1 DEF MovesTo
<1>3. TypeOK'
  BY <1>1 DEF Core, TypeOK
<1>4. ReadingsRecent'
  BY <1>1 DEF Core, ReadingsRecent, MovesTo
<1>5. LimitersOwned'
  <2> SUFFICES ASSUME NEW c \in Clients, limiters[c] # NoEntry
               PROVE  /\ req'[limiters[c].limiter].client = c
                      /\ req'[limiters[c].limiter].pc \notin {"arrived", "locking"}
    BY DEF LimitersOwned
  <2>1. limiters[c].limiter \in Requests
    BY EntryShape DEF Core
  <2> QED  BY <1>1, <1>2, <2>1 DEF Core, LimitersOwned, MovesTo
<1>6. HoldersSeen'
  BY <1>1, <1>2 DEF Core, HoldersSeen, MovesTo, At
<1>7. UsesSeen' /\ PastOnly'
  BY DEF Core, UsesSeen, PastOnly
<1> QED  BY <1>3, <1>4, <1>5, <1>6, <1>7 DEF Core

(* The steps that only move a handler.                                     *)
Quiet(r) ==
  \/ Reject(r) \/ RateLimit(r) \/ Acquire(r) \/ ConcurrencyLimit(r)
  \/ InvalidBody(r) \/ StartTrace(r) \/ FinishTrace(r) \/ Release(r)

(* A step that touches no limiter and no clock.                            *)
LEMMA QuietStep ==
  ASSUME Core, NEW r \in Requests, Quiet(r)
  PROVE  Core'
<1>1. TypeOK /\ SlotsInv /\ req[r] \in Handler /\ req \in [Requests -> Handler]
  BY DEF Core, TypeOK
<1>2. CASE Reject(r) \/ RateLimit(r) \/ ConcurrencyLimit(r)
  <2>1. MovesTo(r, "done") /\ ~HoldsSlot(r) /\ ~HoldsSlot(r)' /\ slots' = slots
    BY <1>1, <1>2 DEF Reject, RateLimit, ConcurrencyLimit, Refuse, MovesTo, Handler, Replies,
                      Pcs, At, HoldsSlot
  <2>2. SlotsInv' /\ slots' \in Nat
    BY <1>1, <2>1, SlotsAfter DEF MovesTo
  <2> QED  BY <1>2, <2>1, <2>2, CoreAfterMove DEF Reject, RateLimit, ConcurrencyLimit
<1>3. CASE Acquire(r)
  <2>1. MovesTo(r, "decode") /\ ~HoldsSlot(r) /\ HoldsSlot(r)'
        /\ slots < MaxConcurrent /\ slots' = slots + 1
    BY <1>1, <1>3 DEF Acquire, Goto, MovesTo, Handler, Pcs, At, HoldsSlot
  <2>2. SlotsInv' /\ slots' \in Nat
    BY <1>1, <2>1, SlotsAfter DEF MovesTo
  <2> QED  BY <1>3, <2>1, <2>2, CoreAfterMove DEF Acquire
<1>4. CASE InvalidBody(r) \/ FinishTrace(r)
  <2>1. MovesTo(r, "release") /\ HoldsSlot(r) /\ HoldsSlot(r)' /\ slots' = slots
    BY <1>1, <1>4 DEF InvalidBody, FinishTrace, Answer, MovesTo, Handler, Pcs, Replies, At,
       HoldsSlot
  <2>2. SlotsInv' /\ slots' \in Nat
    BY <1>1, <2>1, SlotsAfter DEF MovesTo
  <2> QED  BY <1>4, <2>1, <2>2, CoreAfterMove DEF InvalidBody, FinishTrace
<1>5. CASE StartTrace(r)
  <2>1. MovesTo(r, "trace") /\ HoldsSlot(r) /\ HoldsSlot(r)' /\ slots' = slots
    BY <1>1, <1>5 DEF StartTrace, Goto, MovesTo, Handler, Pcs, At, HoldsSlot
  <2>2. SlotsInv' /\ slots' \in Nat
    BY <1>1, <2>1, SlotsAfter DEF MovesTo
  <2> QED  BY <1>5, <2>1, <2>2, CoreAfterMove DEF StartTrace
<1>6. CASE Release(r)
  <2>1. MovesTo(r, "done") /\ HoldsSlot(r) /\ ~HoldsSlot(r)' /\ slots' = slots - 1
    BY <1>1, <1>6 DEF Release, Goto, MovesTo, Handler, Pcs, At, HoldsSlot
  <2>2. SlotsInv' /\ slots' \in Nat
    BY <1>1, <2>1, SlotsAfter DEF MovesTo
  <2> QED  BY <1>6, <2>1, <2>2, CoreAfterMove DEF Release
<1> QED  BY <1>2, <1>3, <1>4, <1>5, <1>6 DEF Quiet

(* A handler reads the clock.                                              *)
LEMMA ReadClockStep ==
  ASSUME Core, NEW r \in Requests, ReadClock(r)
  PROVE  Core'
<1>1. /\ req[r] \in Handler /\ req \in [Requests -> Handler] /\ clock \in Nat
      /\ clock' = clock /\ limiters' = limiters /\ lastCleanup' = lastCleanup
      /\ bucket' = bucket /\ slots' = slots
      /\ req' = [req EXCEPT ![r].pc = "locking", ![r].now = clock]
      /\ req[r].pc = "arrived"
  BY Constants DEF Core, TypeOK, ReadClock, At
<1>2. /\ req' \in [Requests -> Handler]
      /\ req'[r].pc = "locking" /\ req'[r].now = clock /\ req'[r].client = req[r].client
      /\ \A q \in Requests : q # r => req'[q] = req[q]
  BY <1>1 DEF Handler, Pcs
<1>3. TypeOK'
  BY <1>1, <1>2 DEF Core, TypeOK
<1>4. ReadingsRecent'
  BY <1>1, <1>2, Constants DEF Core, ReadingsRecent
<1>5. LimitersOwned'
  <2> SUFFICES ASSUME NEW c \in Clients, limiters[c] # NoEntry
               PROVE  /\ req'[limiters[c].limiter].client = c
                      /\ req'[limiters[c].limiter].pc \notin {"arrived", "locking"}
    BY <1>1 DEF LimitersOwned
  <2>1. limiters[c].limiter \in Requests /\ limiters[c].limiter # r
    BY <1>1, EntryShape DEF Core, LimitersOwned
  <2> QED  BY <1>2, <2>1 DEF Core, LimitersOwned
<1>6. HoldersSeen'
  BY <1>1, <1>2 DEF Core, HoldersSeen, At
<1>7. UsesSeen' /\ PastOnly'
  BY <1>1 DEF Core, UsesSeen, PastOnly
<1>8. SlotsInv'
  <2>1. ~HoldsSlot(r) /\ ~HoldsSlot(r)' /\ req' = [req EXCEPT ![r] = req'[r]]
    BY <1>1, <1>2 DEF HoldsSlot
  <2> QED  BY <1>1, <2>1, SlotsAfter DEF Core
<1> QED  BY <1>3, <1>4, <1>5, <1>6, <1>7, <1>8 DEF Core

(* Time passes, and every bucket gains a unit of credit.                   *)
LEMMA TickStep ==
  ASSUME Core, Tick
  PROVE  Core'
<1>1. /\ clock \in 0..MaxClock /\ clock < MaxClock /\ clock' = clock + 1 /\ MaxClock \in Nat
      /\ req' = req /\ limiters' = limiters /\ lastCleanup' = lastCleanup
      /\ bucket' = bucket /\ slots' = slots
  BY Constants DEF Core, TypeOK, Tick
<1>2. TypeOK'
  BY <1>1 DEF Core, TypeOK
<1>3. ReadingsRecent'
  <2> SUFFICES ASSUME NEW r \in Requests, req[r].pc \in {"locking", "allow"}
               PROVE  req[r].now <= clock + 1 /\ clock + 1 <= req[r].now + MaxPause
    BY <1>1 DEF ReadingsRecent
  <2>1. req[r].now \in Nat
    BY DEF Core, TypeOK, Handler
  <2> QED  BY <1>1, <2>1, Constants DEF Core, ReadingsRecent, Tick
<1>4. LimitersOwned' /\ HoldersSeen' /\ UsesSeen'
  BY <1>1 DEF Core, LimitersOwned, HoldersSeen, UsesSeen, At
<1>5. PastOnly'
  BY <1>1 DEF Core, TypeOK, PastOnly, Bucket
<1>6. SlotsInv'
  BY <1>1 DEF Core, SlotsInv, SlotsAccounted, Holders, HoldsSlot
<1> QED  BY <1>2, <1>3, <1>4, <1>5, <1>6 DEF Core

(* Allow, said by what it does: it takes Cost from the limiter the map has *)
(* for the handler's client.                                               *)
LEMMA AllowEffect ==
  ASSUME Core, NEW r \in Requests, Allow(r)
  PROVE  LET m == req[r].limiter
             me == req[r].client
         IN  /\ m \in Requests /\ me \in Clients /\ At(r, "allow")
             /\ limiters[me] # NoEntry /\ limiters[me].limiter = m
             /\ Level(bucket[m]) \in Cost..Capacity
             /\ bucket' = [bucket EXCEPT ![m] =
                             [credit |-> Level(bucket[m]) - Cost, last |-> clock]]
             /\ req' = [req EXCEPT ![r].pc = "acquire"]
             /\ clock' = clock /\ limiters' = limiters /\ lastCleanup' = lastCleanup
             /\ slots' = slots
<1> DEFINE m == req[r].limiter
           me == req[r].client
<1>1. me \in Clients /\ At(r, "allow") /\ limiters[me] # NoEntry /\ limiters[me].limiter = m
  BY DEF Core, TypeOK, Handler, HoldersSeen, Allow
<1>2. m \in Requests
  BY <1>1, EntryShape DEF Core
<1>3. bucket[m] \in Bucket /\ bucket[m].last <= clock
  BY <1>2 DEF Core, TypeOK, PastOnly
<1>4. Level(bucket[m]) \in 0..Capacity
  BY <1>3, LevelType DEF Core
<1>5. Level(bucket[m]) >= Cost
  BY DEF Allow
<1> QED  BY <1>1, <1>2, <1>4, <1>5, Constants DEF Allow, Goto

(* A limiter is asked for a token.                                         *)
LEMMA AllowStep ==
  ASSUME Core, NEW r \in Requests, Allow(r)
  PROVE  Core'
<1> DEFINE m == req[r].limiter
           me == req[r].client
<1>1. /\ m \in Requests /\ me \in Clients /\ req[r].pc = "allow"
      /\ limiters[me] # NoEntry /\ limiters[me].limiter = m
      /\ Level(bucket[m]) \in Cost..Capacity
      /\ bucket' = [bucket EXCEPT ![m] = [credit |-> Level(bucket[m]) - Cost, last |-> clock]]
      /\ req' = [req EXCEPT ![r].pc = "acquire"]
      /\ clock' = clock /\ limiters' = limiters /\ lastCleanup' = lastCleanup /\ slots' = slots
  BY AllowEffect DEF At
<1>2. /\ req[r] \in Handler /\ req \in [Requests -> Handler] /\ clock \in Nat
      /\ bucket \in [Requests -> Bucket]
  BY Constants DEF Core, TypeOK
<1>3. /\ req' \in [Requests -> Handler]
      /\ req'[r].pc = "acquire" /\ req'[r].client = req[r].client
      /\ \A q \in Requests : q # r => req'[q] = req[q]
  BY <1>1, <1>2 DEF Handler, Pcs
<1>4. /\ bucket' \in [Requests -> Bucket] /\ bucket'[m].last = clock
      /\ \A q \in Requests : q # m => bucket'[q] = bucket[q]
  BY <1>1, <1>2, Constants DEF Bucket
<1>5. TypeOK'
  BY <1>1, <1>3, <1>4 DEF Core, TypeOK
<1>6. ReadingsRecent'
  BY <1>1, <1>3 DEF Core, ReadingsRecent
<1>7. LimitersOwned'
  <2> SUFFICES ASSUME NEW c \in Clients, limiters[c] # NoEntry
               PROVE  /\ req'[limiters[c].limiter].client = c
                      /\ req'[limiters[c].limiter].pc \notin {"arrived", "locking"}
    BY <1>1 DEF LimitersOwned
  <2>1. limiters[c].limiter \in Requests
    BY EntryShape DEF Core
  <2> QED  BY <1>3, <2>1 DEF Core, LimitersOwned
<1>8. HoldersSeen'
  BY <1>1, <1>3 DEF Core, HoldersSeen, At
<1>9. UsesSeen'
  <2> SUFFICES ASSUME NEW c \in Clients, limiters[c] # NoEntry
               PROVE  bucket'[limiters[c].limiter].last <= limiters[c].lastSeen + 2 * MaxPause
    BY <1>1 DEF UsesSeen
  <2>1. limiters[c].limiter \in Requests /\ limiters[c].lastSeen \in Nat
    BY EntryShape DEF Core
  <2>2. CASE limiters[c].limiter # m
    BY <1>4, <2>1, <2>2 DEF Core, UsesSeen
  <2>3. CASE limiters[c].limiter = m
    <3>1. c = me
      BY <1>1, <2>3 DEF Core, LimitersOwned
    <3>2. req[r].now \in Nat /\ req[r].now <= limiters[c].lastSeen + MaxPause
      BY <1>1, <3>1 DEF Core, HoldersSeen, At, TypeOK, Handler
    <3>3. clock <= req[r].now + MaxPause
      BY <1>1 DEF Core, ReadingsRecent
    <3>4. clock <= limiters[c].lastSeen + 2 * MaxPause
      BY <1>2, <2>1, <3>2, <3>3, Constants
    <3> QED  BY <1>4, <2>3, <3>4
  <2> QED  BY <2>2, <2>3
<1>10. PastOnly'
  BY <1>1, <1>2, <1>4 DEF Core, PastOnly
<1>11. SlotsInv'
  <2>1. ~HoldsSlot(r) /\ ~HoldsSlot(r)' /\ req' = [req EXCEPT ![r] = req'[r]]
    BY <1>1, <1>2, <1>3 DEF HoldsSlot
  <2> QED  BY <1>1, <2>1, SlotsAfter DEF Core
<1> QED  BY <1>5, <1>6, <1>7, <1>8, <1>9, <1>10, <1>11 DEF Core

(* The limiter map is cleaned up and consulted.                            *)
LEMMA LimiterForKeepsCore ==
  ASSUME Core, NEW r \in Requests, LimiterFor(r)
  PROVE  Core'
<1> DEFINE now == req[r].now
           me == req[r].client
           m == req'[r].limiter
<1>1. /\ now \in Nat /\ me \in Clients /\ m \in Requests
      /\ req[r].pc = "locking" /\ now <= clock /\ clock <= now + MaxPause
      /\ req' = [req EXCEPT ![r].pc = "allow", ![r].limiter = m]
      /\ limiters'[me] = [limiter |-> m, lastSeen |-> now]
      /\ limiters' \in [Clients -> Entry \cup {NoEntry}]
      /\ \A c \in Clients : c # me => limiters'[c] = Cleaned(now)[c]
      /\ lastCleanup' = IF CleanupDue(now) THEN now ELSE lastCleanup
      /\ clock' = clock /\ slots' = slots
  BY LimiterForStep DEF At
<1>2. \/ /\ limiters[me] # NoEntry /\ Cleaned(now)[me] = limiters[me]
         /\ m = limiters[me].limiter /\ bucket' = bucket
      \/ /\ m = r /\ Cleaned(now)[me] = NoEntry
         /\ bucket' = [bucket EXCEPT ![r] = [credit |-> Capacity, last |-> clock]]
  BY LimiterForStep
<1> HIDE DEF m
<1>3. /\ req[r] \in Handler /\ req \in [Requests -> Handler] /\ clock \in Nat
      /\ bucket \in [Requests -> Bucket]
  BY Constants DEF Core, TypeOK
<1>4. /\ req' \in [Requests -> Handler]
      /\ req'[r].pc = "allow" /\ req'[r].client = me /\ req'[r].limiter = m /\ req'[r].now = now
      /\ \A q \in Requests : q # r => req'[q] = req[q]
  BY <1>1, <1>3 DEF Handler, Pcs
<1>5. /\ bucket' \in [Requests -> Bucket]
      /\ \A q \in Requests : q # r => bucket'[q] = bucket[q]
      /\ m = r /\ bucket' # bucket => bucket'[r].last = clock
  BY <1>2, <1>3, Constants DEF Bucket
<1>6. \A c \in Clients : limiters[c] # NoEntry => limiters[c].limiter \in Requests \ {r}
  BY <1>1, EntryShape DEF Core, LimitersOwned
<1>7. \A c \in Clients : c # me /\ limiters'[c] # NoEntry => limiters'[c] = limiters[c]
  BY <1>1, CleanedShape
<1>8. limiters'[me] # NoEntry
  BY <1>1, Constants DEF NoEntry
<1>9. TypeOK'
  BY <1>1, <1>4, <1>5 DEF Core, TypeOK
<1>10. ReadingsRecent'
  BY <1>1, <1>4 DEF Core, ReadingsRecent
<1>11. LimitersOwned'
  <2> SUFFICES ASSUME NEW c \in Clients, limiters'[c] # NoEntry
               PROVE  /\ req'[limiters'[c].limiter].client = c
                      /\ req'[limiters'[c].limiter].pc \notin {"arrived", "locking"}
    BY DEF LimitersOwned
  <2>1. CASE c # me
    BY <1>4, <1>6, <1>7, <2>1 DEF Core, LimitersOwned
  <2>2. CASE c = me /\ m = r
    BY <1>1, <1>4, <2>2
  <2>3. CASE c = me /\ m # r
    BY <1>1, <1>2, <1>4, <1>6, <2>3 DEF Core, LimitersOwned
  <2> QED  BY <2>1, <2>2, <2>3
<1>12. HoldersSeen'
  <2> SUFFICES ASSUME NEW q \in Requests, req'[q].pc = "allow"
               PROVE  LET c == req'[q].client
                      IN  /\ limiters'[c] # NoEntry
                          /\ limiters'[c].limiter = req'[q].limiter
                          /\ req'[q].now <= limiters'[c].lastSeen + MaxPause
    BY DEF HoldersSeen, At
  <2>1. CASE q = r
    BY <1>1, <1>4, <1>8, <2>1, Constants
  <2>2. CASE q # r
    <3> DEFINE c == req[q].client
    <3>1. /\ req'[q] = req[q] /\ At(q, "allow") /\ c \in Clients /\ req[q].now \in Nat
          /\ req[q].now <= clock /\ limiters[c] # NoEntry
          /\ limiters[c].limiter = req[q].limiter
          /\ req[q].now <= limiters[c].lastSeen + MaxPause
      BY <1>4, <2>2 DEF Core, HoldersSeen, ReadingsRecent, At, TypeOK, Handler
    <3>2. Cleaned(now)[c] = limiters[c]
      BY <1>1, <3>1, DroppedIsFull, CleanedShape DEF At
    <3>3. CASE c = me
      BY <1>1, <1>2, <1>3, <1>8, <3>1, <3>2, <3>3, Constants
    <3>4. CASE c # me
      BY <1>1, <3>1, <3>2, <3>4
    <3> QED  BY <3>3, <3>4
  <2> QED  BY <2>1, <2>2
<1>13. UsesSeen'
  <2> SUFFICES ASSUME NEW c \in Clients, limiters'[c] # NoEntry
               PROVE  bucket'[limiters'[c].limiter].last <= limiters'[c].lastSeen + 2 * MaxPause
    BY DEF UsesSeen
  <2>1. CASE c # me
    BY <1>5, <1>6, <1>7, <2>1 DEF Core, UsesSeen
  <2>2. CASE c = me
    <3>1. bucket'[m].last \in Nat /\ bucket'[m].last <= clock
      <4>1. bucket[m].last <= clock
        BY <1>1 DEF Core, PastOnly
      <4>2. bucket' = bucket \/ bucket'[m].last = clock
        BY <1>2, <1>3
      <4>3. bucket'[m] \in Bucket
        BY <1>1, <1>5
      <4> QED  BY <4>1, <4>2, <4>3 DEF Bucket
    <3> QED  BY <1>1, <1>3, <2>2, <3>1, Constants
  <2> QED  BY <2>1, <2>2
<1>14. PastOnly'
  <2>1. lastCleanup' <= clock'
    BY <1>1 DEF Core, PastOnly
  <2>2. \A q \in Requests : bucket'[q].last <= clock
    BY <1>2, <1>3 DEF Core, PastOnly
  <2> QED  BY <1>1, <2>1, <2>2 DEF PastOnly
<1>15. SlotsInv'
  <2>1. ~HoldsSlot(r) /\ ~HoldsSlot(r)' /\ req' = [req EXCEPT ![r] = req'[r]]
    BY <1>1, <1>3, <1>4 DEF HoldsSlot
  <2> QED  BY <1>1, <2>1, SlotsAfter DEF Core
<1> QED  BY <1>9, <1>10, <1>11, <1>12, <1>13, <1>14, <1>15 DEF Core

(* A server that just started has no limiters.                             *)
LEMMA CoreInit == Init => Core
<1> SUFFICES ASSUME Init PROVE Core
  OBVIOUS
<1>1. PICK client \in [Requests -> Clients] :
        req = [r \in Requests |->
                 [pc |-> "arrived", client |-> client[r], now |-> 0,
                  limiter |-> NoRequest, reply |-> "none"]]
  BY DEF Init
<1>2. TypeOK
  BY <1>1, Constants DEF Init, TypeOK, Handler, Pcs, Replies, Bucket
<1>3. \A r \in Requests : req[r].pc = "arrived"
  BY <1>1
<1>4. ReadingsRecent /\ LimitersOwned /\ HoldersSeen /\ UsesSeen
  BY <1>3 DEF Init, ReadingsRecent, LimitersOwned, HoldersSeen, UsesSeen, At
<1>5. PastOnly
  BY DEF Init, PastOnly
<1>6. SlotsInv
  <2>1. Holders = {}
    BY <1>3 DEF Holders, HoldsSlot
  <2>2. IsFiniteSet(Holders) /\ Cardinality(Holders) = 0
    BY <2>1, FS_EmptySet
  <2>3. slots = Cardinality(Holders) /\ slots <= MaxConcurrent
    BY <2>2, Constants DEF Init
  <2> QED  BY <2>2, <2>3 DEF SlotsInv, SlotsAccounted, Holders
<1> QED  BY <1>2, <1>4, <1>5, <1>6 DEF Core

(* Every step keeps the core of the invariant.                             *)
LEMMA CoreStep ==
  ASSUME Core, [Next]_vars
  PROVE  Core'
<1>1. CASE Tick
  BY <1>1, TickStep
<1>2. ASSUME NEW r \in Requests, Handle(r)  PROVE Core'
  BY <1>2, QuietStep, ReadClockStep, LimiterForKeepsCore, AllowStep DEF Handle, Quiet
<1>3. CASE UNCHANGED vars
  BY <1>3 DEF vars, Core, TypeOK, ReadingsRecent, LimitersOwned, HoldersSeen, UsesSeen,
              PastOnly, SlotsInv, SlotsAccounted, Holders, HoldsSlot, At
<1> QED  BY <1>1, <1>2, <1>3 DEF Next, Done

(* The core of the invariant holds in every reachable state.               *)
LEMMA CoreInvariance == Spec => []Core
BY CoreInit, CoreStep, PTL DEF Spec

-----------------------------------------------------------------------------
(* What every reachable state satisfies.                                   *)

(* The variables of createTrace and limiterFor have their types.           *)
THEOREM TypeCorrectness == Spec => []TypeOK
<1>1. Core => TypeOK
  BY DEF Core
<1> QED  BY <1>1, CoreInvariance, PTL

(* s.semaphore: the slots taken are the slots of the requests being        *)
(* decoded, traced or released, and never more than MaxConcurrent.         *)
THEOREM SlotsAreAccounted == Spec => []SlotsAccounted
<1>1. Core => SlotsAccounted
  BY DEF Core, SlotsInv
<1> QED  BY <1>1, CoreInvariance, PTL

(* Between limiterFor and Allow no other handler replaces the limiter a    *)
(* handler has been given, although it holds no lock.                      *)
THEOREM OneLimiter == Spec => []OneLimiterPerClient
<1>1. Core => OneLimiterPerClient
  BY DEF Core, HoldersSeen, OneLimiterPerClient
<1> QED  BY <1>1, CoreInvariance, PTL

(* The clean-up forgets every client that was idle for the TTL, although   *)
(* a handler may write a reading of the clock that is older than the       *)
(* clean-up.                                                               *)
THEOREM IdleForgotten == Spec => []IdleClientsForgotten
<1>1. Init => IdleClientsForgotten
  BY DEF Init, IdleClientsForgotten
<1>2. Core /\ IdleClientsForgotten /\ [Next]_vars => IdleClientsForgotten'
  <2> SUFFICES ASSUME Core, IdleClientsForgotten, [Next]_vars PROVE IdleClientsForgotten'
    OBVIOUS
  <2>1. ASSUME UNCHANGED <<limiters, lastCleanup>>  PROVE IdleClientsForgotten'
    BY <2>1 DEF IdleClientsForgotten
  <2>2. ASSUME NEW r \in Requests, LimiterFor(r)  PROVE IdleClientsForgotten'
    <3> DEFINE now == req[r].now
               me == req[r].client
               m == req'[r].limiter
    <3>1. /\ now \in Nat /\ now <= clock /\ clock <= now + MaxPause
          /\ limiters'[me] = [limiter |-> m, lastSeen |-> now]
          /\ \A c \in Clients : c # me => limiters'[c] = Cleaned(now)[c]
          /\ lastCleanup' = IF CleanupDue(now) THEN now ELSE lastCleanup
      BY <2>2, LimiterForStep
    <3>2. lastCleanup \in Nat /\ lastCleanup <= clock /\ clock \in Nat
      BY Constants DEF Core, TypeOK, PastOnly
    <3>3. ASSUME NEW c \in Clients, limiters'[c] # NoEntry
          PROVE  limiters'[c].lastSeen >= lastCleanup' - TTL
      <4>1. CASE c = me
        BY <3>1, <3>2, <4>1, Constants
      <4>2. CASE c # me
        <5>1. limiters'[c] = limiters[c] /\ limiters[c] # NoEntry
              /\ ~(CleanupDue(now) /\ Expired(limiters[c], now))
          BY <3>1, <3>3, <4>2, CleanedShape
        <5>2. limiters[c].lastSeen \in Nat /\ limiters[c].lastSeen >= lastCleanup - TTL
          BY <5>1, EntryShape DEF Core, IdleClientsForgotten
        <5> QED  BY <3>1, <3>2, <5>1, <5>2, Constants DEF Expired
      <4> QED  BY <4>1, <4>2
    <3> QED  BY <3>3 DEF IdleClientsForgotten
  <2> QED
    BY <2>1, <2>2 DEF Next, Done, vars, Tick, Handle, Reject, ReadClock, Allow, RateLimit,
       Acquire, ConcurrencyLimit, InvalidBody, StartTrace, FinishTrace, Release
<1> QED  BY <1>1, <1>2, CoreInvariance, PTL DEF Spec

-----------------------------------------------------------------------------
(* The credit of a client.                                                 *)

(* The credit of a client is a natural number.                             *)
LEMMA CreditType ==
  ASSUME Core, NEW c \in Clients
  PROVE  /\ Credit(c) \in 0..Capacity
         /\ limiters[c] # NoEntry =>
              bucket[limiters[c].limiter] \in Bucket /\ bucket[limiters[c].limiter].last <= clock
<1>1. ASSUME limiters[c] # NoEntry
      PROVE  /\ bucket[limiters[c].limiter] \in Bucket
             /\ bucket[limiters[c].limiter].last <= clock
  BY <1>1, EntryShape DEF Core, TypeOK, PastOnly
<1>2. limiters[c] # NoEntry => Level(bucket[limiters[c].limiter]) \in 0..Capacity
  BY <1>1, LevelType DEF Core
<1> QED  BY <1>1, <1>2, Constants DEF Credit

(* A tick gives every client a unit of credit it has room for.             *)
LEMMA CreditAfterTick ==
  ASSUME Core, Tick, NEW c \in Clients
  PROVE  Credit(c)' = IF Credit(c) < Capacity THEN Credit(c) + 1 ELSE Capacity
<1>1. clock \in Nat /\ clock' = clock + 1 /\ limiters' = limiters /\ bucket' = bucket
  BY DEF Core, TypeOK, Tick
<1>2. CASE limiters[c] = NoEntry
  BY <1>1, <1>2, Constants DEF Credit
<1>3. CASE limiters[c] # NoEntry
  <2> DEFINE b == bucket[limiters[c].limiter]
  <2>1. b.credit \in 0..Capacity /\ b.last \in Nat /\ b.last <= clock
    BY <1>3, CreditType DEF Bucket
  <2>2. Credit(c) = Least(Capacity, b.credit + (clock - b.last))
    BY <1>3 DEF Credit, Level
  <2>3. Credit(c)' = Least(Capacity, b.credit + (clock' - b.last))
    BY <1>1, <1>3 DEF Credit, Level
  <2> HIDE DEF b
  <2> QED  BY <1>1, <2>1, <2>2, <2>3, Constants DEF Least
<1> QED  BY <1>2, <1>3

(* Allow takes Cost from the handler's client and from nobody else.        *)
LEMMA CreditAfterAllow ==
  ASSUME Core, NEW r \in Requests, Allow(r), NEW c \in Clients
  PROVE  /\ req[r].client \in Clients /\ Credit(req[r].client) >= Cost
         /\ Credit(c)' = IF c = req[r].client THEN Credit(c) - Cost ELSE Credit(c)
<1> DEFINE m == req[r].limiter
           me == req[r].client
           left == Level(bucket[m]) - Cost
<1>1. /\ m \in Requests /\ me \in Clients
      /\ limiters[me] # NoEntry /\ limiters[me].limiter = m
      /\ Level(bucket[m]) \in Cost..Capacity
      /\ bucket' = [bucket EXCEPT ![m] = [credit |-> left, last |-> clock]]
      /\ clock' = clock /\ limiters' = limiters
  BY AllowEffect
<1>2. Credit(me) = Level(bucket[m])
  BY <1>1 DEF Credit
<1>3. bucket \in [Requests -> Bucket] /\ clock \in Nat
  BY DEF Core, TypeOK
<1>4. left \in 0..Capacity /\ left = Credit(me) - Cost
  BY <1>1, <1>2, Constants
<1> HIDE DEF left
<1>5. ASSUME c = me  PROVE Credit(c)' = left
  <2>1. bucket'[m] = [credit |-> left, last |-> clock]
    BY <1>1, <1>3
  <2>2. Credit(c)' = Least(Capacity, left + (clock - clock))
    BY <1>1, <1>5, <2>1 DEF Credit, Level
  <2> QED  BY <1>3, <1>4, <2>2, Constants DEF Least
<1>6. ASSUME c # me  PROVE Credit(c)' = Credit(c)
  <2>1. CASE limiters[c] = NoEntry
    BY <1>1, <2>1 DEF Credit
  <2>2. CASE limiters[c] # NoEntry
    <3>1. limiters[c].limiter \in Requests /\ limiters[c].limiter # m
      BY <1>1, <1>6, <2>2, EntryShape DEF Core, LimitersOwned
    <3>2. bucket'[limiters[c].limiter] = bucket[limiters[c].limiter]
      BY <1>1, <1>3, <3>1
    <3> QED  BY <1>1, <2>2, <3>2 DEF Credit, Level
  <2> QED  BY <2>1, <2>2
<1> QED  BY <1>1, <1>2, <1>4, <1>5, <1>6, Constants

(* limiterFor, its clean-up included, changes nobody's credit.             *)
LEMMA CreditAfterLimiterFor ==
  ASSUME Core, NEW r \in Requests, LimiterFor(r), NEW c \in Clients
  PROVE  Credit(c)' = Credit(c)
<1> DEFINE now == req[r].now
           me == req[r].client
           m == req'[r].limiter
<1>1. /\ me \in Clients /\ m \in Requests /\ At(r, "locking")
      /\ limiters'[me] = [limiter |-> m, lastSeen |-> now]
      /\ \A d \in Clients : d # me => limiters'[d] = Cleaned(now)[d]
      /\ clock' = clock
  BY LimiterForStep
<1>2. \/ /\ limiters[me] # NoEntry /\ Cleaned(now)[me] = limiters[me]
         /\ m = limiters[me].limiter /\ bucket' = bucket
      \/ /\ m = r /\ Cleaned(now)[me] = NoEntry
         /\ bucket' = [bucket EXCEPT ![r] = [credit |-> Capacity, last |-> clock]]
  BY LimiterForStep
<1> HIDE DEF m
<1>3. bucket \in [Requests -> Bucket] /\ clock \in Nat
  BY DEF Core, TypeOK
<1>4. ASSUME NEW d \in Clients, limiters[d] # NoEntry
      PROVE  limiters[d].limiter \in Requests \ {r}
  BY <1>1, <1>4, EntryShape DEF Core, LimitersOwned, At
<1>5. ASSUME NEW d \in Clients, Cleaned(now)[d] = NoEntry  PROVE Credit(d) = Capacity
  BY <1>1, <1>5, DroppedIsFull DEF Credit
<1>6. limiters'[me] # NoEntry
  BY <1>1, Constants DEF NoEntry
<1>7. CASE c = me /\ bucket' = bucket /\ limiters[me] # NoEntry /\ m = limiters[me].limiter
  BY <1>1, <1>6, <1>7 DEF Credit, Level
<1>8. CASE /\ c = me /\ m = r /\ Cleaned(now)[me] = NoEntry
           /\ bucket' = [bucket EXCEPT ![r] = [credit |-> Capacity, last |-> clock]]
  <2>1. bucket'[r] = [credit |-> Capacity, last |-> clock]
    BY <1>3, <1>8
  <2>2. Credit(c)' = Least(Capacity, Capacity + (clock - clock))
    BY <1>1, <1>6, <1>8, <2>1 DEF Credit, Level
  <2> QED  BY <1>3, <1>5, <1>8, <2>2, Constants DEF Least
<1>9. CASE c # me /\ Cleaned(now)[c] = NoEntry
  BY <1>1, <1>5, <1>9 DEF Credit
<1>10. CASE c # me /\ Cleaned(now)[c] # NoEntry
  <2>1. limiters'[c] = limiters[c] /\ limiters[c] # NoEntry
    BY <1>1, <1>10, CleanedShape
  <2>2. bucket'[limiters[c].limiter] = bucket[limiters[c].limiter]
    BY <1>2, <1>3, <1>4, <2>1
  <2> QED  BY <1>1, <2>1, <2>2 DEF Credit, Level
<1> QED  BY <1>2, <1>7, <1>8, <1>9, <1>10

(* No other step changes it.                                               *)
LEMMA CreditOtherwise ==
  ASSUME UNCHANGED <<clock, limiters, bucket>>, NEW c \in Clients
  PROVE  Credit(c)' = Credit(c)
BY DEF Credit, Level

(* No step but limiterFor and Allow touches the limiters.                  *)
LEMMA LimitersKept ==
  ASSUME NEW r \in Requests, Quiet(r) \/ ReadClock(r)
  PROVE  UNCHANGED <<clock, limiters, bucket>>
BY DEF Quiet, Reject, ReadClock, RateLimit, Acquire, ConcurrencyLimit, InvalidBody,
       StartTrace, FinishTrace, Release

-----------------------------------------------------------------------------
(* The limiter map, its clean-up and the semaphore implement TokenBuckets. *)

Credits == [c \in Clients |-> Credit(c)]

(* A step that changes neither the credits nor the slots is a stutter.     *)
LEMMA Stutters ==
  ASSUME Holders' = Holders, \A c \in Clients : Credit(c)' = Credit(c)
  PROVE  UNCHANGED Buckets!vars
<1>1. [c \in Clients |-> Credit(c)]' = [c \in Clients |-> Credit(c)]
  OBVIOUS
<1> QED  BY <1>1 DEF Buckets!vars, Holders

(* Every client begins with a full bucket.                                 *)
LEMMA RefinesInit == Init => Buckets!Init
<1> SUFFICES ASSUME Init PROVE Buckets!Init
  OBVIOUS
<1>1. [c \in Clients |-> Credit(c)] = [c \in Clients |-> Capacity]
  BY DEF Init, Credit
<1>2. \A r \in Requests : req[r].pc = "arrived"
  BY DEF Init
<1>3. {r \in Requests : HoldsSlot(r)} = {}
  BY <1>2 DEF HoldsSlot
<1> QED  BY <1>1, <1>3 DEF Buckets!Init

(* Time passes for the buckets too.                                        *)
LEMMA RefinesTick ==
  ASSUME Core, Tick
  PROVE  Buckets!Refill
<1>1. Holders' = Holders
  BY DEF Tick, Holders, HoldsSlot
<1>2. \A c \in Clients : Credit(c)' = IF Credit(c) < Capacity THEN Credit(c) + 1 ELSE Capacity
  BY CreditAfterTick
<1>3. [c \in Clients |-> Credit(c)]' =
        [c \in Clients |-> IF Credit(c) < Capacity THEN Credit(c) + 1 ELSE Capacity]
  BY <1>2
<1>4. \A c \in Clients : [d \in Clients |-> Credit(d)][c] = Credit(c)
  OBVIOUS
<1> QED  BY <1>1, <1>3, <1>4 DEF Buckets!Refill, Holders

(* A token taken from a limiter is taken from its client's bucket.         *)
LEMMA RefinesAllow ==
  ASSUME Core, NEW r \in Requests, Allow(r)
  PROVE  Buckets!Take(req[r].client)
<1> DEFINE me == req[r].client
<1>1. Holders' = Holders
  <2>1. At(r, "allow") /\ req' = [req EXCEPT ![r].pc = "acquire"] /\ req \in [Requests -> Handler]
    BY AllowEffect DEF Core, TypeOK
  <2> QED  BY <2>1 DEF Holders, HoldsSlot, At, Handler
<1>2. me \in Clients
  BY DEF Core, TypeOK, Handler
<1>3. /\ Credit(me) >= Cost
      /\ \A c \in Clients : Credit(c)' = IF c = me THEN Credit(c) - Cost ELSE Credit(c)
  BY <1>2, CreditAfterAllow
<1>4. [c \in Clients |-> Credit(c)]' = [[c \in Clients |-> Credit(c)] EXCEPT ![me] = @ - Cost]
  BY <1>2, <1>3
<1>5. [c \in Clients |-> Credit(c)][me] >= Cost
  BY <1>2, <1>3
<1> QED  BY <1>1, <1>4, <1>5 DEF Buckets!Take, Holders

(* What a handler's step past Allow is to TokenBuckets.                    *)
LEMMA RefinesQuiet ==
  ASSUME Core, NEW r \in Requests, Quiet(r)
  PROVE  \/ Buckets!Enter(r) \/ Buckets!Leave(r) \/ UNCHANGED Buckets!vars
<1>1. req[r] \in Handler /\ req \in [Requests -> Handler]
  BY DEF Core, TypeOK
<1>2. \A c \in Clients : Credit(c)' = Credit(c)
  BY LimitersKept, CreditOtherwise
<1>3. [c \in Clients |-> Credit(c)]' = [c \in Clients |-> Credit(c)]
  BY <1>2
<1>4. CASE Acquire(r)
  <2>1. /\ ~HoldsSlot(r) /\ HoldsSlot(r)' /\ req' = [req EXCEPT ![r] = req'[r]]
        /\ slots < MaxConcurrent
    BY <1>1, <1>4 DEF Acquire, Goto, At, HoldsSlot
  <2>2. Holders' = Holders \cup {r} /\ r \notin Holders
    BY <2>1, HoldersAfter DEF Core, HoldsSlot, Holders
  <2>3. Cardinality(Holders) < MaxConcurrent
    BY <2>1 DEF Core, SlotsInv, SlotsAccounted, Holders
  <2>4. Buckets!Cardinality(Holders) = Cardinality(Holders)
    BY DEF Buckets!Cardinality, Cardinality
  <2> QED  BY <1>3, <2>2, <2>3, <2>4 DEF Buckets!Enter, Holders
<1>5. CASE Release(r)
  <2>1. HoldsSlot(r) /\ ~HoldsSlot(r)' /\ req' = [req EXCEPT ![r] = req'[r]]
    BY <1>1, <1>5 DEF Release, Goto, At, HoldsSlot
  <2>2. Holders' = Holders \ {r} /\ r \in Holders
    BY <2>1, HoldersAfter DEF Core, HoldsSlot, Holders
  <2> QED  BY <1>3, <2>2 DEF Buckets!Leave, Holders
<1>6. CASE Quiet(r) /\ ~Acquire(r) /\ ~Release(r)
  <2>1. (HoldsSlot(r)' <=> HoldsSlot(r)) /\ req' = [req EXCEPT ![r] = req'[r]]
    <3>1. CASE Reject(r) \/ RateLimit(r) \/ ConcurrencyLimit(r)
      BY <1>1, <3>1 DEF Reject, RateLimit, ConcurrencyLimit, Refuse, Handler, At, HoldsSlot
    <3>2. CASE InvalidBody(r) \/ FinishTrace(r) \/ StartTrace(r)
      BY <1>1, <3>2 DEF InvalidBody, FinishTrace, StartTrace, Answer, Goto, Handler, At, HoldsSlot
    <3> QED  BY <1>6, <3>1, <3>2 DEF Quiet
  <2>2. Holders' = Holders
    BY <2>1, HoldersAfter DEF Core, HoldsSlot, Holders
  <2> QED  BY <1>2, <2>2, Stutters
<1> QED  BY <1>4, <1>5, <1>6

(* Every step is a step of TokenBuckets or leaves it as it is.             *)
LEMMA RefinesStep ==
  ASSUME Core, [Next]_vars
  PROVE  [Buckets!Next]_Buckets!vars
<1>1. CASE Tick
  BY <1>1, RefinesTick DEF Buckets!Next
<1>2. ASSUME NEW r \in Requests, Handle(r)  PROVE [Buckets!Next]_Buckets!vars
  <2>1. CASE Quiet(r)
    BY <2>1, RefinesQuiet DEF Buckets!Next
  <2>2. CASE Allow(r)
    <3>1. req[r].client \in Clients
      BY DEF Core, TypeOK, Handler
    <3> QED  BY <2>2, <3>1, RefinesAllow DEF Buckets!Next
  <2>3. CASE ReadClock(r) \/ LimiterFor(r)
    <3>1. \A c \in Clients : Credit(c)' = Credit(c)
      BY <2>3, LimitersKept, CreditOtherwise, CreditAfterLimiterFor
    <3>2. ~HoldsSlot(r) /\ ~HoldsSlot(r)' /\ req' = [req EXCEPT ![r] = req'[r]]
      <4>1. req[r] \in Handler /\ req \in [Requests -> Handler]
        BY DEF Core, TypeOK
      <4>2. CASE ReadClock(r)
        BY <4>1, <4>2 DEF ReadClock, At, HoldsSlot, Handler
      <4>3. CASE LimiterFor(r)
        <5> DEFINE m == req'[r].limiter
        <5>1. At(r, "locking") /\ req' = [req EXCEPT ![r].pc = "allow", ![r].limiter = m]
          BY <4>3, LimiterForStep
        <5> HIDE DEF m
        <5> QED  BY <4>1, <5>1 DEF At, HoldsSlot, Handler
      <4> QED  BY <2>3, <4>2, <4>3
    <3>3. Holders' = Holders
      BY <3>2, HoldersAfter DEF Core, HoldsSlot, Holders
    <3> QED  BY <3>1, <3>3, Stutters
  <2> QED  BY <1>2, <2>1, <2>2, <2>3 DEF Handle, Quiet
<1>3. CASE UNCHANGED vars
  BY <1>3, CreditOtherwise, Stutters DEF vars, Holders, HoldsSlot
<1> QED  BY <1>1, <1>2, <1>3 DEF Next, Done

(* The limiter map with its clean-up is one token bucket per client that   *)
(* lives for ever, and the semaphore a set of at most MaxConcurrent        *)
(* requests: dropping an idle limiter and making a new one is never seen.  *)
THEOREM Refinement == Spec => ImplementsTokenBuckets
<1>1. Spec => []Core
  BY CoreInvariance
<1>2. Core /\ [Next]_vars => [Buckets!Next]_Buckets!vars
  BY RefinesStep
<1> QED  BY <1>1, <1>2, RefinesInit, PTL DEF Spec, ImplementsTokenBuckets, Buckets!Spec

-----------------------------------------------------------------------------
(* The rate of a client.                                                   *)

(* A handler that lets go of a slot has answered, and no answer is lost.   *)
LEMMA ReleasesAnsweredStep ==
  ASSUME Core, ReleasesAnswered, [Next]_vars
  PROVE  ReleasesAnswered'
<1>1. req \in [Requests -> Handler]
  BY DEF Core, TypeOK
<1>2. CASE req' = req
  BY <1>2 DEF ReleasesAnswered, At
<1>3. ASSUME NEW r \in Requests, Handle(r)  PROVE ReleasesAnswered'
  <2>1. \A q \in Requests : q # r => req'[q] = req[q]
    BY <1>1, <1>3 DEF Handle, Reject, ReadClock, LimiterFor, Allow, RateLimit, Acquire,
       ConcurrencyLimit, InvalidBody, StartTrace, FinishTrace, Release, Goto, Refuse, Answer
  <2>2. req'[r].pc = "release" => req'[r].reply \in {"invalid_request", "traced"}
    <3>1. CASE InvalidBody(r) \/ FinishTrace(r)
      BY <1>1, <3>1 DEF InvalidBody, FinishTrace, Answer, Handler
    <3>2. CASE LimiterFor(r)
      <4>1. req'[r].pc = "allow"
        BY <1>1, <3>2 DEF LimiterFor, Handler
      <4> QED  BY <4>1
    <3>3. CASE Allow(r)
      BY <1>1, <3>3 DEF Allow, Goto, Handler
    <3>4. CASE ReadClock(r) \/ StartTrace(r) \/ Release(r) \/ Acquire(r)
      BY <1>1, <3>4 DEF ReadClock, StartTrace, Release, Acquire, Goto, Handler
    <3>5. CASE Reject(r) \/ RateLimit(r) \/ ConcurrencyLimit(r)
      BY <1>1, <3>5 DEF Reject, RateLimit, ConcurrencyLimit, Refuse, Handler
    <3> QED  BY <1>3, <3>1, <3>2, <3>3, <3>4, <3>5 DEF Handle
  <2> QED  BY <2>1, <2>2 DEF ReleasesAnswered, At
<1> QED  BY <1>2, <1>3 DEF Next, Tick, Done, vars

(* Only Allow makes a request one that passed the limiter, and nothing     *)
(* makes it one that did not.                                              *)
LEMMA PassedKept ==
  ASSUME Core, ReleasesAnswered, NEW r \in Requests,
         Quiet(r) \/ ReadClock(r) \/ LimiterFor(r), NEW c \in Clients
  PROVE  PassedOf(c)' = PassedOf(c)
<1>1. req \in [Requests -> Handler] /\ req[r] \in Handler
  BY DEF Core, TypeOK
<1>2. \A q \in Requests : q # r => req'[q] = req[q]
  BY <1>1 DEF Quiet, Reject, ReadClock, LimiterFor, RateLimit, Acquire, ConcurrencyLimit,
     InvalidBody, StartTrace, FinishTrace, Release, Goto, Refuse, Answer
<1>3. req'[r].client = req[r].client /\ (Passed(r)' <=> Passed(r))
  <2>1. CASE Reject(r) \/ RateLimit(r)
    BY <1>1, <2>1 DEF Reject, RateLimit, Refuse, Handler, At, Passed, HoldsSlot
  <2>2. CASE ConcurrencyLimit(r)
    BY <1>1, <2>2 DEF ConcurrencyLimit, Refuse, Handler, At, Passed, HoldsSlot
  <2>3. CASE Acquire(r) \/ StartTrace(r)
    BY <1>1, <2>3 DEF Acquire, StartTrace, Goto, Handler, At, Passed, HoldsSlot
  <2>4. CASE InvalidBody(r) \/ FinishTrace(r)
    BY <1>1, <2>4 DEF InvalidBody, FinishTrace, Answer, Handler, At, Passed, HoldsSlot
  <2>5. CASE Release(r)
    BY <1>1, <2>5 DEF Release, Goto, Handler, At, Passed, HoldsSlot, ReleasesAnswered
  <2>6. CASE ReadClock(r)
    BY <1>1, <2>6 DEF ReadClock, Handler, At, Passed, HoldsSlot
  <2>7. CASE LimiterFor(r)
    <3> DEFINE m == req'[r].limiter
    <3>1. At(r, "locking") /\ req' = [req EXCEPT ![r].pc = "allow", ![r].limiter = m]
      BY <2>7, LimiterForStep
    <3> HIDE DEF m
    <3> QED  BY <1>1, <3>1 DEF Handler, At, Passed, HoldsSlot
  <2> QED  BY <2>1, <2>2, <2>3, <2>4, <2>5, <2>6, <2>7 DEF Quiet
<1>4. \A q \in Requests : req'[q].client = req[q].client /\ (Passed(q)' <=> Passed(q))
  BY <1>2, <1>3 DEF Passed, HoldsSlot, At
<1> QED  BY <1>4 DEF PassedOf

(* The requests of a client that passed, after one more was asked for.     *)
LEMMA PassedAfterAllow ==
  ASSUME Core, NEW r \in Requests, Allow(r), NEW c \in Clients
  PROVE  /\ r \notin PassedOf(c)
         /\ PassedOf(c)' = IF c = req[r].client THEN PassedOf(c) \cup {r} ELSE PassedOf(c)
<1>1. /\ req \in [Requests -> Handler] /\ req[r] \in Handler
      /\ req' = [req EXCEPT ![r].pc = "acquire"] /\ req[r].pc = "allow"
  BY AllowEffect DEF Core, TypeOK, At
<1>2. \A q \in Requests : q # r => req'[q] = req[q]
  BY <1>1
<1>3. req'[r].client = req[r].client /\ Passed(r)' /\ ~Passed(r)
  BY <1>1 DEF Handler, At, Passed, HoldsSlot
<1>4. \A q \in Requests : q # r => (Passed(q)' <=> Passed(q))
  BY <1>2 DEF Passed, HoldsSlot, At
<1> QED  BY <1>2, <1>3, <1>4 DEF PassedOf

(* Nothing was spent yet.                                                  *)
LEMMA CreditAccountedInit == Init => ReleasesAnswered /\ CreditAccounted
<1> SUFFICES ASSUME Init PROVE ReleasesAnswered /\ CreditAccounted
  OBVIOUS
<1>1. \A r \in Requests : req[r].pc = "arrived"
  BY DEF Init
<1>2. ReleasesAnswered
  BY <1>1 DEF ReleasesAnswered, At
<1>3. ASSUME NEW c \in Clients
      PROVE  /\ IsFiniteSet(PassedOf(c))
             /\ Cost * Cardinality(PassedOf(c)) + Credit(c) <= Capacity + clock
  <2>1. PassedOf(c) = {}
    BY <1>1 DEF PassedOf, Passed, HoldsSlot, At
  <2>2. IsFiniteSet(PassedOf(c)) /\ Cardinality(PassedOf(c)) = 0
    BY <2>1, FS_EmptySet
  <2>3. Credit(c) = Capacity /\ clock = 0
    BY DEF Init, Credit
  <2> QED  BY <2>2, <2>3, Constants
<1> QED  BY <1>2, <1>3 DEF CreditAccounted

(* Every step keeps the account of the credit.                             *)
LEMMA CreditAccountedStep ==
  ASSUME Core, ReleasesAnswered, CreditAccounted, [Next]_vars
  PROVE  CreditAccounted'
<1> SUFFICES ASSUME NEW c \in Clients
             PROVE  /\ IsFiniteSet(PassedOf(c)')
                    /\ Cost * Cardinality(PassedOf(c)') + Credit(c)' <= Capacity + clock'
  BY DEF CreditAccounted
<1> DEFINE n == Cardinality(PassedOf(c))
<1>1. /\ IsFiniteSet(PassedOf(c)) /\ n \in Nat /\ Credit(c) \in Nat /\ clock \in Nat
      /\ Cost * n + Credit(c) <= Capacity + clock
  BY CreditType, FS_CardinalityType DEF CreditAccounted, Core, TypeOK
<1>2. CASE PassedOf(c)' = PassedOf(c) /\ Credit(c)' = Credit(c) /\ clock' = clock
  BY <1>1, <1>2
<1>3. CASE Tick
  <2>1. PassedOf(c)' = PassedOf(c) /\ clock' = clock + 1
    BY <1>3 DEF Tick, PassedOf, Passed, HoldsSlot, At
  <2>2. Credit(c)' \in Nat /\ Credit(c)' <= Credit(c) + 1
    BY <1>1, <1>3, CreditAfterTick, CreditType, Constants
  <2>3. Cost * n \in Nat
    BY <1>1, Constants
  <2> HIDE DEF n
  <2>4. Cost * n + Credit(c)' <= Capacity + (clock + 1)
    BY <1>1, <2>2, <2>3, Constants
  <2> QED  BY <1>1, <2>1, <2>4 DEF n
<1>4. ASSUME NEW r \in Requests, Handle(r)
      PROVE  /\ IsFiniteSet(PassedOf(c)')
             /\ Cost * Cardinality(PassedOf(c)') + Credit(c)' <= Capacity + clock'
  <2>1. CASE Quiet(r) \/ ReadClock(r)
    BY <1>2, <2>1, PassedKept, LimitersKept, CreditOtherwise
  <2>2. CASE LimiterFor(r)
    BY <1>2, <2>2, PassedKept, CreditAfterLimiterFor, LimiterForStep
  <2>3. CASE Allow(r) /\ c # req[r].client
    BY <1>2, <2>3, PassedAfterAllow, CreditAfterAllow, AllowEffect
  <2>4. CASE Allow(r) /\ c = req[r].client
    <3>1. Credit(c)' = Credit(c) - Cost /\ clock' = clock
      BY <2>4, CreditAfterAllow, AllowEffect
    <3>2. PassedOf(c)' = PassedOf(c) \cup {r} /\ r \notin PassedOf(c)
      BY <2>4, PassedAfterAllow
    <3>3. IsFiniteSet(PassedOf(c)') /\ Cardinality(PassedOf(c)') = n + 1
      BY <1>1, <3>2, FS_AddElement
    <3>4. Cost * (n + 1) = Cost * n + Cost /\ Cost * n \in Nat
      BY <1>1, Constants
    <3> HIDE DEF n
    <3>5. Cost * (n + 1) + Credit(c)' <= Capacity + clock'
      BY <1>1, <3>1, <3>4, Constants
    <3> QED  BY <3>3, <3>5
  <2> QED  BY <1>4, <2>1, <2>2, <2>3, <2>4 DEF Handle, Quiet
<1>5. CASE UNCHANGED vars
  <2>1. PassedOf(c)' = PassedOf(c)
    BY <1>5 DEF vars, PassedOf, Passed, HoldsSlot, At
  <2> QED  BY <1>2, <1>5, <2>1, CreditOtherwise DEF vars
<1> QED  BY <1>3, <1>4, <1>5 DEF Next, Done

(* No client has ever had more requests let through than a burst and the   *)
(* tokens of the time that has passed, whatever the clean-up of the map    *)
(* and the handlers between limiterFor and Allow did.                      *)
THEOREM RateIsRespected == Spec => []RateRespected
<1>1. Init => IInv
  BY CoreInit, CreditAccountedInit DEF IInv
<1>2. IInv /\ [Next]_vars => IInv'
  BY CoreStep, ReleasesAnsweredStep, CreditAccountedStep DEF IInv
<1>3. IInv => RateRespected
  <2> SUFFICES ASSUME IInv, NEW c \in Clients
               PROVE  Cost * Cardinality(PassedOf(c)) <= Capacity + clock
    BY DEF RateRespected, PassedOf
  <2> DEFINE n == Cardinality(PassedOf(c))
  <2>1. /\ n \in Nat /\ Credit(c) \in Nat /\ clock \in Nat
        /\ Cost * n + Credit(c) <= Capacity + clock
    BY CreditType, FS_CardinalityType DEF IInv, CreditAccounted, Core, TypeOK
  <2>2. Cost * n \in Nat
    BY <2>1, Constants
  <2> HIDE DEF n
  <2>3. Cost * n <= Capacity + clock
    BY <2>1, <2>2, Constants
  <2> QED  BY <2>3 DEF n
<1> QED  BY <1>1, <1>2, <1>3, PTL DEF Spec
=============================================================================
