----------------------------- MODULE TraceEngine -----------------------------
(***************************************************************************)
(* One iterative DNS trace: Engine.Trace and the functions it calls in     *)
(* backend/internal/trace/engine.go.                                       *)
(*                                                                         *)
(* traceName calls queryCandidates, which on a referral without usable     *)
(* glue calls traceName again for the address of every nameserver.  The    *)
(* variable stack holds the activations of traceName, innermost last, and  *)
(* ret the outcome an activation has just returned to its caller.  The     *)
(* network is an adversary: a query is answered by any message of          *)
(* Messages, times out or fails; the overall deadline may pass and the     *)
(* client may go away at any moment.  The dns package is external: its     *)
(* ExchangeContext does not dial once the context is done, but of the      *)
(* context it gives the socket only the deadline, so that an exchange      *)
(* under way when the client goes is still answered.                       *)
(*                                                                         *)
(* Left out: wording, latencies, server names and zones (they only reach   *)
(* the display), and the additional/authority record sets copied to a hop. *)
(***************************************************************************)
EXTENDS Integers, Sequences, FiniteSets, SequencesExt

CONSTANTS
  Names,              \* fully qualified domain names
  IPs,                \* addresses a response or the root hints may name
  Types,              \* query types, the two address types among them
  QName, QType,       \* the question of the request, normalised
  Roots,              \* e.cfg.Roots: the root servers' addresses, in order
  Allowed,            \* the addresses e.cfg.DestinationPolicy allows
  Messages,           \* the responses upstream servers may give
  MaxDepth, MaxUpstreamQueries,
  NoName, NoIP        \* the empty strings of a zero Hop

(* A DNS response, as far as the engine tells responses apart: tc and aa   *)
(* are header bits; alias is the target of a CNAME of the queried name;    *)
(* addrs are the records that match the question (their addresses, as far  *)
(* as it asks for addresses); soa says the authority section has a SOA; ns *)
(* are the targets of its NS records; glue the additional addresses.       *)
Rcodes == {"NOERROR", "NXDOMAIN", "SERVFAIL", "REFUSED", "NOTIMP", "FORMERR"}

Message ==
  [tc : BOOLEAN, aa : BOOLEAN, rcode : Rcodes, alias : Names \cup {NoName},
   addrs : Seq(IPs), soa : BOOLEAN, ns : Seq(Names), glue : [Names -> Seq(IPs)]]

ASSUME EngineAssumption ==
  /\ NoName \notin Names /\ NoIP \notin IPs
  /\ QName \in Names /\ {"A", "AAAA"} \subseteq Types /\ QType \in Types
  /\ Roots \in Seq(IPs) /\ Roots # << >>
  /\ Allowed \subseteq IPs
  /\ \A m \in Messages : m \in Message
  /\ MaxDepth \in Nat \ {0} /\ MaxUpstreamQueries \in Nat \ {0}

(* Some root server may be asked: the root hints are public addresses.     *)
ASSUME RootAssumption == \E i \in DOMAIN Roots : Roots[i] \in Allowed

VARIABLES
  stack,              \* activations of traceName
  ret,                \* the outcome being returned, or NoOutcome
  hops,               \* state.hops
  visited,            \* state.visited
  upstreamQueries,    \* state.upstreamQueries
  exchanges,          \* history: UDP and TCP exchanges started
  ctx,                \* the request context, see TypeOK
  result              \* what Trace returns, or NoResult

vars == <<stack, ret, hops, visited, upstreamQueries, exchanges, ctx, result>>

NoParent == -1

Support == "nameserver_address_lookup"
Purposes == {"delegation", "cname_follow", Support}

HopRcodes == Rcodes \cup {"TIMEOUT", "ERROR", "LOOP", ""}
HopKinds == {"answer", "nodata", "cname", "referral", "error", ""}

Hop ==
  [index : Nat, parent : Nat \cup {NoParent}, purpose : Purposes \cup {""},
   ip : IPs \cup {NoIP}, qname : Names \cup {NoName}, qtype : Types \cup {""},
   transport : {"udp", "tcp", ""}, truncated : BOOLEAN, rcode : HopRcodes,
   kind : HopKinds, addrs : Seq(IPs), alias : Names \cup {NoName}]

ZeroHop ==
  [index |-> 0, parent |-> NoParent, purpose |-> "", ip |-> NoIP,
   qname |-> NoName, qtype |-> "", transport |-> "", truncated |-> FALSE,
   rcode |-> "", kind |-> "", addrs |-> << >>, alias |-> NoName]

OutcomeKinds == {"success", "max_depth", "timeout", "loop_detected", "nxdomain",
                 "unusable_referral", "servfail", "refused", "not_implemented"}
Outcome ==
  [kind : OutcomeKinds, rcode : HopRcodes \cup {"BUDGET", "MAX_DEPTH"},
   terminal : Nat \cup {-1}]
NoOutcome == [kind |-> "none", rcode |-> "", terminal |-> -1]

Result ==
  [status : {"success", "failure"}, outcome : Outcome, totalHops : Nat, cnames : Nat]
NoResult == [status |-> "none"]

(* The errors queryCandidates returns; "other" is an error of the network. *)
Errors == {"none", "timeout", "unusable", "other"}

(* An activation of traceName.  pc is "loop" at the top of its for loop,   *)
(* "query" in the candidate loop of queryCandidates, "udp" or "tcp" while  *)
(* an exchange is under way, and "resolve" while nextCandidatesForReferral *)
(* looks up nameserver addresses for the referral in hop.                  *)
Frame ==
  [pc : {"loop", "query", "udp", "tcp", "resolve"},
   qname : Names, qtype : Types, cands : Seq(IPs),
   base : Purposes, purpose : Purposes, parent : Nat \cup {NoParent},
   depth : Nat,
   next : Nat \ {0}, timeouts : Nat, err : Errors, last : Hop,
   hop : Hop, ns : Seq(Names), pos : Nat \ {0}, family : {"A", "AAAA"},
   found : Seq(IPs)]

Activation(qname, qtype, parent, purpose) ==
  [pc |-> "loop", qname |-> qname, qtype |-> qtype, cands |-> Roots,
   base |-> purpose, purpose |-> purpose, parent |-> parent, depth |-> 0,
   next |-> 1, timeouts |-> 0, err |-> "none", last |-> ZeroHop,
   hop |-> ZeroHop, ns |-> << >>, pos |-> 1, family |-> "A", found |-> << >>]

-----------------------------------------------------------------------------
(* Pure helpers.                                                           *)

Distinct(s) ==
  FlattenSeq([i \in DOMAIN s |->
                IF \E j \in 1..(i - 1) : s[j] = s[i] THEN << >> ELSE <<s[i]>>])

(* Mutant: the destination policy is not consulted.                        *)
Unfiltered(ips) == ips

Permitted(ips) ==
  FlattenSeq([i \in DOMAIN ips |->
                IF ips[i] \in Allowed THEN <<ips[i]>> ELSE << >>])

GlueCandidates(m) ==
  LET ns == Distinct(m.ns)
  IN  FlattenSeq([i \in DOMAIN ns |-> Permitted(m.glue[ns[i]])])

HasAnswer(m) == m.addrs # << >>

IsNoData(m) == m.aa /\ ~HasAnswer(m) /\ m.alias = NoName /\ m.soa

LastHopIndex == IF hops = << >> THEN -1 ELSE Last(hops).index

(* Mutant: a non-existent name is taken for a negative answer.             *)
LenientRcodeKind(rcode) ==
  CASE rcode = "NXDOMAIN" -> "success"
    [] OTHER              -> "servfail"

(* The outcome traceName returns for a response code.                      *)
RcodeKind(rcode) ==
  CASE rcode = "NXDOMAIN" -> "nxdomain"
    [] rcode = "REFUSED"  -> "refused"
    [] rcode = "NOTIMP"   -> "not_implemented"
    [] OTHER              -> "servfail"

RcodeOutcome(h) ==
  [kind |-> RcodeKind(h.rcode), rcode |-> h.rcode, terminal |-> h.index]

(* The outcome traceName returns when queryCandidates ran out of           *)
(* candidates with lastErr = err.                                          *)
ErrorOutcome(err, h) ==
  CASE err = "timeout"  -> [kind |-> "timeout", rcode |-> "TIMEOUT",
                            terminal |-> h.index]
    [] err = "other"    -> RcodeOutcome(h)
    [] OTHER            -> [kind |-> "unusable_referral", rcode |-> h.rcode,
                            terminal |-> h.index]

-----------------------------------------------------------------------------
Init ==
  /\ stack = <<Activation(QName, QType, NoParent, "delegation")>>
  /\ ret = NoOutcome
  /\ hops = << >>
  /\ visited = {}
  /\ upstreamQueries = 0
  /\ exchanges = 0
  /\ ctx = "live"
  /\ result = NoResult

Top == stack[Len(stack)]

At(pc) == stack # << >> /\ ret = NoOutcome /\ Top.pc = pc

SetTop(f) == stack' = [stack EXCEPT ![Len(stack)] = f]

Return(o) ==
  /\ ret' = o
  /\ stack' = Front(stack)

Record(h) == hops' = Append(hops, h)

(* The for loop of traceName goes round again, asking cands.               *)
Continue(f, qname, purpose, cands) ==
  /\ SetTop([f EXCEPT !.pc = "loop", !.depth = f.depth + 1, !.qname = qname,
                      !.purpose = purpose, !.cands = cands])
  /\ UNCHANGED ret

ContinuePurpose(f) == IF f.base = Support THEN Support ELSE "delegation"

(* Mutant: the index of the last hop instead of the next one.              *)
ErrorHopOffByOne(f, rcode) ==
  [index |-> Len(hops) - 1, parent |-> f.parent, purpose |-> f.purpose,
   ip |-> f.cands[f.next], qname |-> f.qname, qtype |-> f.qtype,
   transport |-> "udp", truncated |-> FALSE, rcode |-> rcode,
   kind |-> "error", addrs |-> << >>, alias |-> NoName]

ErrorHop(f, rcode) ==
  [index |-> Len(hops), parent |-> f.parent, purpose |-> f.purpose,
   ip |-> f.cands[f.next], qname |-> f.qname, qtype |-> f.qtype,
   transport |-> "udp", truncated |-> FALSE, rcode |-> rcode,
   kind |-> "error", addrs |-> << >>, alias |-> NoName]

ResponseHop(f, m, kind) ==
  [index |-> Len(hops), parent |-> f.parent, purpose |-> f.purpose,
   ip |-> f.cands[f.next], qname |-> f.qname, qtype |-> f.qtype,
   transport |-> f.pc, truncated |-> f.pc = "tcp", rcode |-> m.rcode,
   kind |-> kind, addrs |-> m.addrs, alias |-> m.alias]

-----------------------------------------------------------------------------
(* The head of the for loop in traceName.                                  *)

DepthExceeded ==
  /\ At("loop") /\ Top.depth >= MaxDepth
  /\ Return([kind |-> "max_depth", rcode |-> "MAX_DEPTH", terminal |-> LastHopIndex])
  /\ UNCHANGED <<hops, visited, upstreamQueries, exchanges, ctx, result>>

(* Mutant: stops one query short of the budget.                            *)
BudgetExceededEarly ==
  /\ At("loop") /\ Top.depth < MaxDepth
  /\ upstreamQueries + 1 >= MaxUpstreamQueries
  /\ Return([kind |-> "max_depth", rcode |-> "BUDGET", terminal |-> LastHopIndex])
  /\ UNCHANGED <<hops, visited, upstreamQueries, exchanges, ctx, result>>

BudgetExceeded ==
  /\ At("loop") /\ Top.depth < MaxDepth
  /\ upstreamQueries >= MaxUpstreamQueries
  /\ Return([kind |-> "max_depth", rcode |-> "BUDGET", terminal |-> LastHopIndex])
  /\ UNCHANGED <<hops, visited, upstreamQueries, exchanges, ctx, result>>

StartQuery ==
  /\ At("loop") /\ Top.depth < MaxDepth
  /\ upstreamQueries < MaxUpstreamQueries
  /\ SetTop([Top EXCEPT !.pc = "query", !.next = 1, !.timeouts = 0,
                        !.err = "none", !.last = ZeroHop])
  /\ UNCHANGED <<ret, hops, visited, upstreamQueries, exchanges, ctx, result>>

-----------------------------------------------------------------------------
(* The candidate loop of queryCandidates.                                  *)

MoreCandidates == Top.next <= Len(Top.cands)

Candidate == Top.cands[Top.next]

Key(f) == <<f.cands[f.next], f.qname, f.qtype, f.purpose>>

BudgetExhausted ==
  /\ At("query") /\ MoreCandidates
  /\ upstreamQueries >= MaxUpstreamQueries
  /\ Record(Top.last)
  /\ Return([kind |-> "max_depth", rcode |-> "MAX_DEPTH",
             terminal |-> Top.last.index])
  /\ UNCHANGED <<visited, upstreamQueries, exchanges, ctx, result>>

SkipBlocked ==
  /\ At("query") /\ MoreCandidates
  /\ upstreamQueries < MaxUpstreamQueries
  /\ Candidate \notin Allowed
  /\ SetTop([Top EXCEPT !.next = @ + 1, !.err = "unusable"])
  /\ UNCHANGED <<ret, hops, visited, upstreamQueries, exchanges, ctx, result>>

LoopDetected ==
  /\ At("query") /\ MoreCandidates
  /\ upstreamQueries < MaxUpstreamQueries
  /\ Candidate \in Allowed /\ Key(Top) \in visited
  /\ Record(ErrorHop(Top, "LOOP"))
  /\ Return([kind |-> "loop_detected", rcode |-> "LOOP", terminal |-> Len(hops)])
  /\ UNCHANGED <<visited, upstreamQueries, exchanges, ctx, result>>

(* An exchange that starts after the client has gone brings nothing.       *)
Dial == ctx' = IF ctx = "cancelled" THEN "done" ELSE ctx

(* Mutant: the budget is only checked when an activation starts to query.  *)
SendQueryUnbudgeted ==
  /\ At("query") /\ MoreCandidates
  /\ Candidate \in Allowed /\ Key(Top) \notin visited
  /\ visited' = visited \cup {Key(Top)}
  /\ upstreamQueries' = upstreamQueries + 1
  /\ exchanges' = exchanges + 1
  /\ SetTop([Top EXCEPT !.pc = "udp"])
  /\ Dial
  /\ UNCHANGED <<ret, hops, result>>

(* Mutant: support lookups do not count against the budget.                *)
SendQueryFreeSupport ==
  /\ At("query") /\ MoreCandidates
  /\ upstreamQueries < MaxUpstreamQueries
  /\ Candidate \in Allowed /\ Key(Top) \notin visited
  /\ visited' = visited \cup {Key(Top)}
  /\ upstreamQueries' = upstreamQueries + (IF Top.base = Support THEN 0 ELSE 1)
  /\ exchanges' = exchanges + 1
  /\ SetTop([Top EXCEPT !.pc = "udp"])
  /\ Dial
  /\ UNCHANGED <<ret, hops, result>>

SendQuery ==
  /\ At("query") /\ MoreCandidates
  /\ upstreamQueries < MaxUpstreamQueries
  /\ Candidate \in Allowed /\ Key(Top) \notin visited
  /\ visited' = visited \cup {Key(Top)}
  /\ upstreamQueries' = upstreamQueries + 1
  /\ exchanges' = exchanges + 1
  /\ SetTop([Top EXCEPT !.pc = "udp"])
  /\ Dial
  /\ UNCHANGED <<ret, hops, result>>

CandidatesExhausted ==
  /\ At("query") /\ ~MoreCandidates
  /\ LET err == IF Top.timeouts = Len(Top.cands) THEN "timeout" ELSE Top.err
     IN  Return(ErrorOutcome(err, Top.last))
  /\ Record(Top.last)
  /\ UNCHANGED <<visited, upstreamQueries, exchanges, ctx, result>>

-----------------------------------------------------------------------------
(* An exchange under way: exchange and what queryCandidates does with it.  *)

Exchanging == At("udp") \/ At("tcp")

(* Mutant: a query that timed out is taken back and the server asked again. *)
ExchangeTimeoutRetried ==
  /\ Exchanging
  /\ visited' = visited \ {Key(Top)}
  /\ upstreamQueries' = upstreamQueries - 1
  /\ exchanges' = exchanges - 1
  /\ SetTop([Top EXCEPT !.pc = "query"])
  /\ UNCHANGED <<ret, hops, ctx, result>>

ExchangeTimeout ==
  /\ Exchanging
  /\ SetTop([Top EXCEPT !.pc = "query", !.next = @ + 1, !.timeouts = @ + 1,
                        !.err = "timeout", !.last = ErrorHop(Top, "TIMEOUT")])
  /\ UNCHANGED <<ret, hops, visited, upstreamQueries, exchanges, ctx, result>>

ExchangeError ==
  /\ Exchanging
  /\ SetTop([Top EXCEPT !.pc = "query", !.next = @ + 1, !.err = "other",
                        !.last = ErrorHop(Top, "ERROR")])
  /\ UNCHANGED <<ret, hops, visited, upstreamQueries, exchanges, ctx, result>>

TruncatedResponse(m) ==
  /\ At("udp") /\ ctx # "done" /\ m.tc
  /\ SetTop([Top EXCEPT !.pc = "tcp"])
  /\ exchanges' = exchanges + 1
  /\ Dial
  /\ UNCHANGED <<ret, hops, visited, upstreamQueries, result>>

(* Mutant: the exchanges are made without the request's context.           *)
ReceivedLate(m) == (At("udp") /\ ~m.tc) \/ At("tcp")

(* The response m is the one queryCandidates looks at.                     *)
Received(m) == ctx # "done" /\ ((At("udp") /\ ~m.tc) \/ At("tcp"))

ReceiveRcode(m) ==
  /\ Received(m)
  /\ m.rcode # "NOERROR"
  /\ LET h == ResponseHop(Top, m, "error")
     IN  Record(h) /\ Return(RcodeOutcome(h))
  /\ UNCHANGED <<visited, upstreamQueries, exchanges, ctx, result>>

(* Mutant: the restart forgets which questions were asked.                 *)
ReceiveAliasForgetful(m) ==
  /\ Received(m)
  /\ m.rcode = "NOERROR" /\ m.alias # NoName /\ ~HasAnswer(m)
  /\ Record(ResponseHop(Top, m, "cname"))
  /\ Continue(Top, m.alias, "cname_follow", Roots)
  /\ visited' = {}
  /\ UNCHANGED <<upstreamQueries, exchanges, ctx, result>>

(* Mutant: the restart asks for the old name again.                        *)
ReceiveAliasSameName(m) ==
  /\ Received(m)
  /\ m.rcode = "NOERROR" /\ m.alias # NoName /\ ~HasAnswer(m)
  /\ Record(ResponseHop(Top, m, "cname"))
  /\ Continue(Top, Top.qname, "cname_follow", Roots)
  /\ UNCHANGED <<visited, upstreamQueries, exchanges, ctx, result>>

ReceiveAlias(m) ==
  /\ Received(m)
  /\ m.rcode = "NOERROR" /\ m.alias # NoName /\ ~HasAnswer(m)
  /\ Record(ResponseHop(Top, m, "cname"))
  /\ Continue(Top, m.alias, "cname_follow", Roots)
  /\ UNCHANGED <<visited, upstreamQueries, exchanges, ctx, result>>

(* Both an answer and NODATA end the activation with success.              *)
ReceiveAnswer(m) ==
  /\ Received(m)
  /\ m.rcode = "NOERROR"
  /\ \/ HasAnswer(m) /\ Record(ResponseHop(Top, m, "answer"))
     \/ IsNoData(m) /\ Record(ResponseHop(Top, m, "nodata"))
  /\ Return([kind |-> "success", rcode |-> m.rcode, terminal |-> Len(hops)])
  /\ UNCHANGED <<visited, upstreamQueries, exchanges, ctx, result>>

IsReferral(m) ==
  m.rcode = "NOERROR" /\ m.alias = NoName /\ ~HasAnswer(m) /\ ~IsNoData(m)

ReceiveReferralWithGlue(m) ==
  /\ Received(m)
  /\ IsReferral(m) /\ GlueCandidates(m) # << >>
  /\ Record(ResponseHop(Top, m, "referral"))
  /\ Continue(Top, Top.qname, ContinuePurpose(Top), GlueCandidates(m))
  /\ UNCHANGED <<visited, upstreamQueries, exchanges, ctx, result>>

ReceiveUnusable(m) ==
  /\ Received(m)
  /\ IsReferral(m) /\ m.ns = << >>
  /\ LET h == ResponseHop(Top, m, "error")
     IN  Record(h) /\ Return(ErrorOutcome("unusable", h))
  /\ UNCHANGED <<visited, upstreamQueries, exchanges, ctx, result>>

(* No safe glue: the hop has its index now and is appended only after the  *)
(* hops of the support lookups.                                            *)
ReceiveReferralWithoutGlue(m) ==
  /\ Received(m)
  /\ IsReferral(m) /\ m.ns # << >> /\ GlueCandidates(m) = << >>
  /\ SetTop([Top EXCEPT !.pc = "resolve", !.hop = ResponseHop(Top, m, "referral"),
                        !.ns = Distinct(m.ns), !.pos = 1, !.family = "A",
                        !.found = << >>])
  /\ UNCHANGED <<ret, hops, visited, upstreamQueries, exchanges, ctx, result>>

Receive(m) ==
  \/ TruncatedResponse(m)
  \/ ReceiveRcode(m)
  \/ ReceiveAlias(m)
  \/ ReceiveAnswer(m)
  \/ ReceiveReferralWithGlue(m)
  \/ ReceiveUnusable(m)
  \/ ReceiveReferralWithoutGlue(m)

-----------------------------------------------------------------------------
(* nextCandidatesForReferral without glue, and resolveNameServerAddresses. *)

SupportLookup ==
  /\ At("resolve") /\ Top.pos <= Len(Top.ns)
  /\ stack' = Append(stack, Activation(Top.ns[Top.pos], Top.family,
                                       Top.hop.index, Support))
  /\ UNCHANGED <<ret, hops, visited, upstreamQueries, exchanges, ctx, result>>

(* The addresses read back from the hops recorded under the referral f.    *)
Addresses(f) ==
  Distinct(FlattenSeq([i \in DOMAIN hops |->
     IF /\ hops[i].parent = f.hop.index
        /\ hops[i].purpose = Support
        /\ hops[i].kind = "answer"
        /\ hops[i].qname = f.ns[f.pos]
        /\ hops[i].qtype = f.family
     THEN hops[i].addrs ELSE << >>]))

Returned == stack # << >> /\ ret # NoOutcome

LookupSucceeded == ret.kind = "success" /\ Addresses(Top) # << >>

AddressesFound ==
  /\ Returned /\ LookupSucceeded
  /\ ret' = NoOutcome
  /\ SetTop([Top EXCEPT !.pos = @ + 1, !.family = "A",
                        !.found = @ \o Permitted(Addresses(Top))])
  /\ UNCHANGED <<hops, visited, upstreamQueries, exchanges, ctx, result>>

TryIPv6 ==
  /\ Returned /\ ~LookupSucceeded /\ Top.family = "A"
  /\ ret' = NoOutcome
  /\ SetTop([Top EXCEPT !.family = "AAAA"])
  /\ UNCHANGED <<hops, visited, upstreamQueries, exchanges, ctx, result>>

NoAddress ==
  /\ Returned /\ ~LookupSucceeded /\ Top.family = "AAAA"
  /\ ret' = NoOutcome
  /\ SetTop([Top EXCEPT !.pos = @ + 1, !.family = "A"])
  /\ UNCHANGED <<hops, visited, upstreamQueries, exchanges, ctx, result>>

ReferralResolved ==
  /\ At("resolve") /\ Top.pos > Len(Top.ns) /\ Top.found # << >>
  /\ Record(Top.hop)
  /\ Continue(Top, Top.qname, ContinuePurpose(Top), Top.found)
  /\ UNCHANGED <<visited, upstreamQueries, exchanges, ctx, result>>

(* Mutant: the referral that could not be resolved leaves no hop.          *)
ReferralUnusableUnrecorded ==
  /\ At("resolve") /\ Top.pos > Len(Top.ns) /\ Top.found = << >>
  /\ Return(ErrorOutcome("unusable", Top.hop))
  /\ UNCHANGED <<hops, visited, upstreamQueries, exchanges, ctx, result>>

ReferralUnusable ==
  /\ At("resolve") /\ Top.pos > Len(Top.ns) /\ Top.found = << >>
  /\ Record([Top.hop EXCEPT !.kind = "error"])
  /\ Return(ErrorOutcome("unusable", Top.hop))
  /\ UNCHANGED <<visited, upstreamQueries, exchanges, ctx, result>>

-----------------------------------------------------------------------------
(* Trace: the outermost activation has returned.                           *)
Finish ==
  /\ stack = << >> /\ result = NoResult
  /\ result' = [status |-> IF ret.kind = "success" THEN "success" ELSE "failure",
                outcome |-> ret,
                totalHops |-> Len(hops),
                cnames |-> Cardinality({i \in DOMAIN hops : hops[i].kind = "cname"})]
  /\ UNCHANGED <<stack, ret, hops, visited, upstreamQueries, exchanges, ctx>>

(* OverallTimeout passes.                                                  *)
DeadlinePasses ==
  /\ ctx # "done" /\ result = NoResult
  /\ ctx' = "done"
  /\ UNCHANGED <<stack, ret, hops, visited, upstreamQueries, exchanges, result>>

(* The connection of the request is closed: net/http cancels its context.  *)
ClientGone ==
  /\ ctx = "live" /\ result = NoResult
  /\ ctx' = "cancelled"
  /\ UNCHANGED <<stack, ret, hops, visited, upstreamQueries, exchanges, result>>

ContextDone == DeadlinePasses \/ ClientGone

Step ==
  \/ DepthExceeded \/ BudgetExceeded \/ StartQuery
  \/ BudgetExhausted \/ SkipBlocked \/ LoopDetected \/ SendQuery
  \/ CandidatesExhausted
  \/ ExchangeTimeout \/ ExchangeError
  \/ \E m \in Messages : Receive(m)
  \/ SupportLookup \/ AddressesFound \/ TryIPv6 \/ NoAddress
  \/ ReferralResolved \/ ReferralUnusable
  \/ Finish

(* The trace has returned: nothing more happens.                           *)
Done == result # NoResult /\ UNCHANGED vars

Next == Step \/ ContextDone \/ Done

(* The engine runs on its own goroutine and every exchange ends within     *)
(* PerHopTimeout, so a step that can be taken is eventually taken.         *)
Spec == Init /\ [][Next]_vars

FairSpec == Spec /\ WF_vars(Step)

-----------------------------------------------------------------------------
(* Properties.                                                             *)

(* Type invariant: every variable holds a value of its type, in every      *)
(* activation on the stack.  The context is "cancelled" when the client    *)
(* has gone and no exchange has started since, and "done" when no response *)
(* can come any more: the deadline has passed, or one has.                 *)
TypeOK ==
  /\ stack \in Seq(Frame)
  /\ ret \in Outcome \cup {NoOutcome}
  /\ hops \in Seq(Hop)
  /\ visited \subseteq IPs \X Names \X Types \X Purposes
  /\ upstreamQueries \in Nat /\ exchanges \in Nat
  /\ ctx \in {"live", "cancelled", "done"}
  /\ result \in Result \cup {NoResult}

(* The guardrail on upstream traffic (MaxUpstreamQueries) holds over the   *)
(* whole trace, support lookups included: each question is put to a server *)
(* once, and a question costs at most a UDP and a TCP exchange.            *)
QueryBudget ==
  /\ upstreamQueries <= MaxUpstreamQueries
  /\ IsFiniteSet(visited) /\ Cardinality(visited) = upstreamQueries
  /\ upstreamQueries <= exchanges /\ exchanges <= 2 * upstreamQueries

(* traceName, which calls itself through the support lookups without a     *)
(* depth limit of its own, is never nested deeper than the queries spent:  *)
(* every suspended activation waits on a referral it paid a query for.     *)
RecursionBounded ==
  /\ Len(stack) <= upstreamQueries + 1
  /\ At("resolve") => Len(stack) <= upstreamQueries

(* Public destinations only: no server outside the destination policy is   *)
(* ever asked, and whatever glue and answers say, a referral continues     *)
(* with a non-empty list of permitted servers.                             *)
EgressPolicy ==
  /\ \A q \in visited : q[1] \in Allowed
  /\ \A i \in DOMAIN stack :
       stack[i].cands # Roots =>
         /\ stack[i].cands # << >>
         /\ \A j \in DOMAIN stack[i].cands : stack[i].cands[j] \in Allowed

(* The inductive strengthening of the three invariants above.  An exchange *)
(* under way asks a candidate of the list; candidates are the roots or     *)
(* permitted servers; every activation but the innermost, and the          *)
(* innermost too while an outcome is returned to it, waits for a support   *)
(* lookup; an activation with an exchange or a referral in hand has paid a *)
(* query for it, and a UDP exchange leaves room for its TCP fallback.      *)
FrameOK(f) ==
  /\ f.pc \in {"udp", "tcp"} => f.next <= Len(f.cands)
  /\ f.cands = Roots \/ f.cands \in Seq(Allowed) \ {<< >>}
  /\ f.found \in Seq(Allowed)

StackOK ==
  /\ stack \in Seq(Frame)
  /\ \A i \in 1..Len(stack) : FrameOK(stack[i])
  /\ \A i \in 1..(Len(stack) - 1) : stack[i].pc = "resolve"
  /\ ret # NoOutcome /\ stack # << >> => Top.pc = "resolve"
  /\ stack = << >> => ret # NoOutcome

PaidFor ==
  stack # << >> =>
    /\ Top.pc \in {"udp", "tcp", "resolve"} => Len(stack) <= upstreamQueries
    /\ Top.pc = "udp" => exchanges < 2 * upstreamQueries

IInv ==
  /\ TypeOK /\ StackOK /\ PaidFor
  /\ QueryBudget
  /\ \A q \in visited : q[1] \in Allowed
  /\ Len(stack) <= upstreamQueries + 1

HopKey(h) == <<h.ip, h.qname, h.qtype, h.purpose>>

(* "Do not fabricate hops": every hop shown stands for a question the      *)
(* engine really put to that server, and only a LOOP hop repeats one.      *)
NoFabricatedHops ==
  /\ \A i \in DOMAIN hops : HopKey(hops[i]) \in visited
  /\ \A i, j \in DOMAIN hops :
       i < j /\ HopKey(hops[i]) = HopKey(hops[j]) => "LOOP" \in {hops[i].rcode, hops[j].rcode}

(* Every support hop has its referral: once the trace has returned, a hop  *)
(* with a parent is followed by the top-level or support hop it was a      *)
(* support lookup for, a referral or the error that came of it.            *)
SupportHopsHaveReferral ==
  result # NoResult =>
    \A i \in DOMAIN hops : hops[i].parent # NoParent =>
      \E j \in i + 1 .. Len(hops) :
        hops[j].index = hops[i].parent /\ hops[j].kind \in {"referral", "error"}

(* The outcome describes the last hop: it is a hop of the journey itself   *)
(* and not of a support lookup, the terminal index is its index, and       *)
(* success means exactly that it is an answer or NODATA; a failure other   *)
(* than a guardrail carries what that hop shows.                           *)
OutcomeDescribesLastHop ==
  result # NoResult =>
    /\ hops # << >> /\ Last(hops).parent = NoParent
    /\ result.outcome.terminal = Last(hops).index
    /\ (result.status = "success") <=> Last(hops).kind \in {"answer", "nodata"}
    /\ result.outcome.kind # "max_depth" => result.outcome.rcode = Last(hops).rcode

TopLevel(h) == h.parent = NoParent

(* A guardrail outcome is never reported early: the depth or the query     *)
(* budget is spent.                                                        *)
GuardrailOnlyWhenSpent ==
  result # NoResult /\ result.outcome.kind = "max_depth" =>
    \/ upstreamQueries = MaxUpstreamQueries
    \/ Cardinality({i \in DOMAIN hops : TopLevel(hops[i])}) = MaxDepth

(* Every trace comes to an end, whatever upstream servers answer.          *)
Terminates == <>(result # NoResult)

(* Once the deadline has passed nothing can turn a trace that is under way *)
(* into a success, not even a support lookup that has succeeded; nor once  *)
(* the client has gone, unless an exchange is under way at that moment,    *)
(* whose answer is used and may be the last one needed.                    *)
DeadlineEndsInFailure ==
  (stack # << >> /\ (ctx = "done" \/ (ctx = "cancelled" /\ ~Exchanging))) ~>
    (result # NoResult /\ result.status = "failure")

(* The abstract journey of a trace: its top-level hops, in order.          *)
JourneyHop(h) == [qname |-> h.qname, kind |-> h.kind, alias |-> h.alias]

TopLevelJourney ==
  FlattenSeq([i \in DOMAIN hops |->
                IF TopLevel(hops[i]) THEN <<JourneyHop(hops[i])>> ELSE << >>])

JourneyStatus ==
  IF stack # << >> THEN "running"
  ELSE IF ret.kind = "success" THEN "success" ELSE "failure"

Journey ==
  INSTANCE TraceJourney WITH
    journey <- TopLevelJourney, queries <- upstreamQueries, status <- JourneyStatus

(* The engine implements TraceJourney.                                     *)
ImplementsJourney == Journey!Spec

=============================================================================
