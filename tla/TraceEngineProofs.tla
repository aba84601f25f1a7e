-------------------------- MODULE TraceEngineProofs --------------------------
(***************************************************************************)
(* Theorems about TraceEngine, for every set of servers, names and         *)
(* responses and every guardrail.                                          *)
(***************************************************************************)
EXTENDS TraceEngine, SequenceLemmas, FiniteSetTheorems,
        WellFoundedInduction, TLAPS

(* uniqueStrings invents nothing.                                          *)
LEMMA DistinctType ==
  ASSUME NEW S, NEW s \in Seq(S)
  PROVE  Distinct(s) \in Seq(S)
<1> DEFINE ss == [i \in DOMAIN s |->
                    IF \E j \in 1..(i - 1) : s[j] = s[i] THEN << >> ELSE <<s[i]>>]
<1>1. \A i \in 1..Len(s) : ss[i] \in Seq(S)
  OBVIOUS
<1>2. ss \in Seq(Seq(S))
  <2>1. ss \in [1..Len(s) -> Seq(S)] /\ Len(s) \in Nat  BY <1>1
  <2> HIDE DEF ss
  <2> QED  BY <2>1, FunctionIsSeq
<1> HIDE DEF ss
<1>3. FlattenSeq(ss) \in Seq(S)
  BY <1>2, FlattenSeqType
<1> QED  BY <1>3 DEF Distinct, ss

(* The policy filter leaves only permitted addresses.                      *)
LEMMA PermittedType ==
  ASSUME NEW ips \in Seq(IPs)
  PROVE  Permitted(ips) \in Seq(Allowed)
<1> DEFINE ss == [i \in DOMAIN ips |-> IF ips[i] \in Allowed THEN <<ips[i]>> ELSE << >>]
<1>1. \A i \in 1..Len(ips) : ss[i] \in Seq(Allowed)
  OBVIOUS
<1>2. ss \in Seq(Seq(Allowed))
  <2>1. ss \in [1..Len(ips) -> Seq(Allowed)] /\ Len(ips) \in Nat  BY <1>1
  <2> HIDE DEF ss
  <2> QED  BY <2>1, FunctionIsSeq
<1> HIDE DEF ss
<1>3. FlattenSeq(ss) \in Seq(Allowed)
  BY <1>2, FlattenSeqType
<1> QED  BY <1>3 DEF Permitted, ss

(* So are the candidates taken from glue.                                  *)
LEMMA GlueCandidatesType ==
  ASSUME NEW m \in Message
  PROVE  GlueCandidates(m) \in Seq(Allowed)
<1> DEFINE ns == Distinct(m.ns)
           ss == [i \in DOMAIN ns |-> Permitted(m.glue[ns[i]])]
<1>1. m.ns \in Seq(Names) /\ m.glue \in [Names -> Seq(IPs)]
  BY DEF Message
<1>2. ns \in Seq(Names)
  BY <1>1, DistinctType
<1> HIDE DEF ns
<1>3. ASSUME NEW i \in DOMAIN ns PROVE Permitted(m.glue[ns[i]]) \in Seq(Allowed)
  <2>1. m.glue[ns[i]] \in Seq(IPs)
    BY <1>1, <1>2
  <2> QED  BY <2>1, PermittedType
<1>4. ss \in Seq(Seq(Allowed))
  <2>1. ss \in [DOMAIN ns -> Seq(Allowed)]  BY <1>3
  <2>2. DOMAIN ns = 1..Len(ns) /\ Len(ns) \in Nat  BY <1>2
  <2> HIDE DEF ss
  <2> QED  BY <2>1, <2>2, FunctionIsSeq
<1> HIDE DEF ss
<1>5. FlattenSeq(ss) \in Seq(Allowed)
  BY <1>4, FlattenSeqType
<1> QED  BY <1>5 DEF GlueCandidates, ns, ss

(* The addresses read back from the recorded hops are addresses.           *)
LEMMA AddressesType ==
  ASSUME hops \in Seq(Hop), NEW f
  PROVE  Addresses(f) \in Seq(IPs)
<1> DEFINE ss == [i \in DOMAIN hops |->
     IF /\ hops[i].parent = f.hop.index
        /\ hops[i].purpose = Support
        /\ hops[i].kind = "answer"
        /\ hops[i].qname = f.ns[f.pos]
        /\ hops[i].qtype = f.family
     THEN hops[i].addrs ELSE << >>]
<1>1. \A i \in 1..Len(hops) : hops[i] \in Hop
  OBVIOUS
<1>2. \A h \in Hop : h.addrs \in Seq(IPs)
  BY DEF Hop
<1>3. ss \in Seq(Seq(IPs))
  <2>1. ss \in [1..Len(hops) -> Seq(IPs)] /\ Len(hops) \in Nat  BY <1>1, <1>2
  <2> HIDE DEF ss
  <2> QED  BY <2>1, FunctionIsSeq
<1> HIDE DEF ss
<1>4. FlattenSeq(ss) \in Seq(IPs)
  BY <1>3, FlattenSeqType
<1>5. Distinct(FlattenSeq(ss)) \in Seq(IPs)
  BY <1>4, DistinctType
<1> QED  BY <1>5 DEF Addresses, ss

-----------------------------------------------------------------------------
(* How the three ways of changing the stack keep its shape.                *)

(* Replacing the innermost activation by a sound one keeps the stack sound. *)
LEMMA SetTopOK ==
  ASSUME StackOK, stack # << >>, ret' = NoOutcome,
         NEW f \in Frame, FrameOK(f), SetTop(f)
  PROVE  StackOK' /\ Len(stack') = Len(stack) /\ stack' # << >> /\ Top' = f
<1>1. stack \in Seq(Frame) /\ Len(stack) \in Nat \ {0}
  BY DEF StackOK
<1>2. /\ stack' \in Seq(Frame) /\ Len(stack') = Len(stack)
      /\ stack'[Len(stack)] = f
      /\ \A i \in 1..(Len(stack) - 1) : stack'[i] = stack[i]
  BY <1>1 DEF SetTop
<1>3. \A i \in 1..Len(stack') : FrameOK(stack'[i])
  BY <1>1, <1>2 DEF StackOK
<1> QED  BY <1>1, <1>2, <1>3 DEF StackOK, Top, FrameOK

(* Returning from the innermost activation leaves a sound stack.           *)
LEMMA ReturnOK ==
  ASSUME StackOK, stack # << >>, NEW o \in Outcome, Return(o)
  PROVE  /\ StackOK' /\ ret' \in Outcome
         /\ Len(stack') = Len(stack) - 1
         /\ stack' # << >> => Top'.pc = "resolve"
<1>1. stack \in Seq(Frame) /\ Len(stack) \in Nat \ {0}
  BY DEF StackOK
<1>2. /\ stack' \in Seq(Frame) /\ Len(stack') = Len(stack) - 1
      /\ \A i \in 1..(Len(stack) - 1) : stack'[i] = stack[i]
  BY <1>1, FrontType DEF Return
<1>3. \A i \in 1..Len(stack') : FrameOK(stack'[i]) /\ stack'[i].pc = "resolve"
  BY <1>1, <1>2 DEF StackOK
<1>4. ret' \in Outcome /\ ret' # NoOutcome
  <2>1. o.kind \in OutcomeKinds /\ ret' = o
    BY DEF Return, Outcome
  <2>2. NoOutcome.kind = "none"
    BY DEF NoOutcome
  <2> QED  BY <2>1, <2>2 DEF OutcomeKinds
<1>5. stack' # << >> => Top'.pc = "resolve"
  BY <1>2, <1>3 DEF Top
<1> QED  BY <1>1, <1>2, <1>3, <1>4, <1>5 DEF StackOK, FrameOK

(* Starting a support lookup leaves a sound stack.                         *)
LEMMA PushOK ==
  ASSUME StackOK, stack # << >>, ret' = NoOutcome, Top.pc = "resolve",
         NEW f \in Frame, FrameOK(f), stack' = Append(stack, f)
  PROVE  StackOK' /\ Len(stack') = Len(stack) + 1 /\ stack' # << >> /\ Top' = f
<1>1. stack \in Seq(Frame) /\ Len(stack) \in Nat \ {0}
  BY DEF StackOK
<1>2. /\ stack' \in Seq(Frame) /\ Len(stack') = Len(stack) + 1
      /\ stack'[Len(stack) + 1] = f
      /\ \A i \in 1..Len(stack) : stack'[i] = stack[i]
  BY <1>1
<1>3. \A i \in 1..Len(stack') : FrameOK(stack'[i])
  BY <1>1, <1>2 DEF StackOK
<1>4. \A i \in 1..(Len(stack') - 1) : stack'[i].pc = "resolve"
  BY <1>1, <1>2 DEF StackOK, Top
<1> QED  BY <1>1, <1>2, <1>3, <1>4 DEF StackOK, Top, FrameOK

-----------------------------------------------------------------------------
(* Types of the records the actions build.                                 *)

(* The innermost activation is a frame.                                    *)
LEMMA TopType ==
  ASSUME StackOK, stack # << >>
  PROVE  Top \in Frame /\ FrameOK(Top) /\ Len(stack) \in Nat \ {0}
  BY DEF StackOK, Top

(* newErrorHop makes a hop.                                                *)
LEMMA ErrorHopType ==
  ASSUME hops \in Seq(Hop), NEW f \in Frame, f.cands[f.next] \in IPs,
         NEW rcode \in HopRcodes
  PROVE  ErrorHop(f, rcode) \in Hop
<1>1. /\ f.parent \in Nat \cup {NoParent} /\ f.purpose \in Purposes
      /\ f.qname \in Names /\ f.qtype \in Types
  BY DEF Frame
<1>2. Len(hops) \in Nat /\ FALSE \in BOOLEAN /\ "error" \in HopKinds
  BY DEF HopKinds
<1>3. << >> \in Seq(IPs)
  OBVIOUS
<1> QED  BY <1>1, <1>2, <1>3 DEF ErrorHop, Hop

(* The hop of a response is a hop.                                         *)
LEMMA ResponseHopType ==
  ASSUME hops \in Seq(Hop), NEW f \in Frame, f.cands[f.next] \in IPs,
         f.pc \in {"udp", "tcp"}, NEW m \in Message, NEW kind \in HopKinds
  PROVE  ResponseHop(f, m, kind) \in Hop
<1>1. /\ f.parent \in Nat \cup {NoParent} /\ f.purpose \in Purposes
      /\ f.qname \in Names /\ f.qtype \in Types
  BY DEF Frame
<1>2. m.rcode \in HopRcodes /\ m.addrs \in Seq(IPs) /\ m.alias \in Names \cup {NoName}
  BY DEF Message, HopRcodes
<1>3. Len(hops) \in Nat /\ (f.pc = "tcp") \in BOOLEAN
  OBVIOUS
<1> QED  BY <1>1, <1>2, <1>3 DEF ResponseHop, Hop

(* The outcome of a response code is an outcome.                           *)
LEMMA RcodeOutcomeType ==
  ASSUME NEW h \in Hop
  PROVE  RcodeOutcome(h) \in Outcome
<1>1. h.rcode \in HopRcodes /\ h.index \in Nat
  BY DEF Hop
<1>2. RcodeKind(h.rcode) \in OutcomeKinds
  BY DEF RcodeKind, OutcomeKinds
<1> QED  BY <1>1, <1>2 DEF RcodeOutcome, Outcome

(* The outcome of the candidate loop's error is an outcome.                *)
LEMMA ErrorOutcomeType ==
  ASSUME NEW h \in Hop, NEW err
  PROVE  ErrorOutcome(err, h) \in Outcome
<1>1. h.rcode \in HopRcodes /\ h.index \in Nat
  BY DEF Hop
<1>2. RcodeOutcome(h) \in Outcome
  BY RcodeOutcomeType
<1> QED  BY <1>1, <1>2 DEF ErrorOutcome, Outcome, OutcomeKinds, HopRcodes

(* lastHopIndex is an index or -1.                                         *)
LEMMA LastHopIndexType ==
  ASSUME hops \in Seq(Hop)
  PROVE  LastHopIndex \in Nat \cup {-1}
<1>1. hops # << >> => Last(hops) \in Hop
  BY DEF Last
<1> QED  BY <1>1 DEF LastHopIndex, Hop

-----------------------------------------------------------------------------
(* The invariant is inductive.                                             *)

(* The inductive invariant holds when a trace starts.                      *)
LEMMA InitIInv == Init => IInv
<1> SUFFICES ASSUME Init PROVE IInv
  OBVIOUS
<1> USE EngineAssumption
<1> DEFINE f == Activation(QName, QType, NoParent, "delegation")
<1>1. f \in Frame /\ FrameOK(f)
  <2>1. ZeroHop \in Hop
    BY DEF ZeroHop, Hop, HopRcodes, HopKinds
  <2>2. << >> \in Seq(IPs) /\ << >> \in Seq(Names) /\ << >> \in Seq(Allowed)
    OBVIOUS
  <2> QED  BY <2>1, <2>2 DEF Activation, Frame, FrameOK, Purposes, Support, Errors
<1>2. stack = <<f>>
  BY DEF Init
<1> HIDE DEF f
<1>3. /\ stack \in Seq(Frame) /\ Len(stack) = 1 /\ stack[1] = f
  BY <1>1, <1>2
<1>4. f.pc = "loop"
  BY DEF f, Activation
<1>5. StackOK /\ PaidFor
  BY <1>1, <1>3, <1>4 DEF Init, StackOK, PaidFor, Top
<1>6. QueryBudget
  BY FS_EmptySet DEF Init, QueryBudget
<1>7. TypeOK
  BY <1>3 DEF Init, TypeOK
<1> QED  BY <1>3, <1>5, <1>6, <1>7 DEF IInv, Init

(* Counting is untouched: all there is to show is that the stack is well   *)
(* formed and not too deep.                                                *)
LEMMA QuietStep ==
  ASSUME IInv, StackOK', ret' \in Outcome \cup {NoOutcome}, hops' \in Seq(Hop),
         UNCHANGED <<visited, upstreamQueries, exchanges, ctx, result>>,
         Len(stack') <= upstreamQueries + 1,
         stack' # << >> => /\ Top'.pc # "udp"
                           /\ Top'.pc \in {"tcp", "resolve"} => Len(stack') <= upstreamQueries
  PROVE  IInv'
<1>1. TypeOK'
  BY DEF IInv, TypeOK, StackOK
<1>2. PaidFor'
  BY DEF PaidFor
<1>3. QueryBudget'
  BY DEF IInv, QueryBudget
<1> QED  BY <1>1, <1>2, <1>3 DEF IInv

(* A step that returns from an activation keeps the invariant.             *)
LEMMA ReturnStep ==
  ASSUME IInv, stack # << >>, NEW o \in Outcome, Return(o), hops' \in Seq(Hop),
         UNCHANGED <<visited, upstreamQueries, exchanges, ctx, result>>
  PROVE  IInv'
<1>1. /\ StackOK' /\ ret' \in Outcome /\ Len(stack') = Len(stack) - 1
      /\ stack' # << >> => Top'.pc = "resolve"
  BY ReturnOK DEF IInv
<1>2. Len(stack) <= upstreamQueries + 1 /\ Len(stack) \in Nat /\ upstreamQueries \in Nat
  BY DEF IInv, StackOK, TypeOK
<1> QED  BY <1>1, <1>2, QuietStep

(* A step that only changes the innermost activation keeps the invariant.  *)
LEMMA SetTopStep ==
  ASSUME IInv, stack # << >>, NEW f \in Frame, FrameOK(f), SetTop(f),
         ret' = NoOutcome, hops' \in Seq(Hop), f.pc # "udp",
         f.pc \in {"tcp", "resolve"} => Len(stack) <= upstreamQueries,
         UNCHANGED <<visited, upstreamQueries, exchanges, ctx, result>>
  PROVE  IInv'
<1>1. StackOK' /\ Len(stack') = Len(stack) /\ stack' # << >> /\ Top' = f
  BY SetTopOK DEF IInv
<1>2. Len(stack) <= upstreamQueries + 1
  BY DEF IInv
<1> QED  BY <1>1, <1>2, QuietStep

(* Appending a hop keeps the type of hops.                                 *)
LEMMA RecordType ==
  ASSUME TypeOK, NEW h \in Hop, Record(h)
  PROVE  hops' \in Seq(Hop)
  BY DEF TypeOK, Record

(* An activation that goes round its loop again is sound.                  *)
LEMMA ContinueFrame ==
  ASSUME NEW f \in Frame, FrameOK(f), NEW qname \in Names, NEW purpose \in Purposes,
         NEW cands \in Seq(IPs), cands = Roots \/ cands \in Seq(Allowed) \ {<< >>}
  PROVE  LET g == [f EXCEPT !.pc = "loop", !.depth = f.depth + 1, !.qname = qname,
                            !.purpose = purpose, !.cands = cands]
         IN  g \in Frame /\ FrameOK(g) /\ g.pc = "loop"
<1> DEFINE g == [f EXCEPT !.pc = "loop", !.depth = f.depth + 1, !.qname = qname,
                          !.purpose = purpose, !.cands = cands]
<1>1. f.depth + 1 \in Nat
  BY DEF Frame
<1>2. g \in Frame
  BY <1>1 DEF Frame
<1>3. g.pc = "loop" /\ g.cands = cands /\ g.found = f.found
  BY DEF Frame
<1> HIDE DEF g
<1>4. FrameOK(g)
  BY <1>3 DEF FrameOK
<1> QED  BY <1>2, <1>3, <1>4 DEF g

(* A step that records a hop and continues keeps the invariant.            *)
LEMMA ContinueStep ==
  ASSUME IInv, stack # << >>, NEW qname \in Names, NEW purpose \in Purposes,
         NEW cands \in Seq(IPs), cands = Roots \/ cands \in Seq(Allowed) \ {<< >>},
         ret = NoOutcome, Continue(Top, qname, purpose, cands), hops' \in Seq(Hop),
         UNCHANGED <<visited, upstreamQueries, exchanges, ctx, result>>
  PROVE  IInv'
<1> DEFINE g == [Top EXCEPT !.pc = "loop", !.depth = Top.depth + 1, !.qname = qname,
                            !.purpose = purpose, !.cands = cands]
<1>1. Top \in Frame /\ FrameOK(Top)
  BY TopType DEF IInv
<1>2. g \in Frame /\ FrameOK(g) /\ g.pc = "loop"
  BY <1>1, ContinueFrame
<1>3. SetTop(g) /\ ret' = NoOutcome
  BY DEF Continue
<1> HIDE DEF g
<1> QED  BY <1>2, <1>3, SetTopStep

(* Init and every step of the engine establish or keep the invariant.      *)
LEMMA LoopSteps ==
  ASSUME IInv, DepthExceeded \/ BudgetExceeded \/ StartQuery
  PROVE  IInv'
<1>1. hops' \in Seq(Hop) /\ hops \in Seq(Hop)
  BY DEF IInv, TypeOK, DepthExceeded, BudgetExceeded, StartQuery
<1>2. CASE DepthExceeded \/ BudgetExceeded
  <2>1. PICK rcode \in {"MAX_DEPTH", "BUDGET"} :
          Return([kind |-> "max_depth", rcode |-> rcode, terminal |-> LastHopIndex])
    BY <1>2 DEF DepthExceeded, BudgetExceeded
  <2>2. [kind |-> "max_depth", rcode |-> rcode, terminal |-> LastHopIndex] \in Outcome
    BY <1>1, LastHopIndexType DEF Outcome, OutcomeKinds
  <2>3. stack # << >>
        /\ UNCHANGED <<visited, upstreamQueries, exchanges, ctx, result>>
    BY <1>2 DEF DepthExceeded, BudgetExceeded, At
  <2> QED  BY <1>1, <2>1, <2>2, <2>3, ReturnStep
<1>3. CASE StartQuery
  <2> DEFINE f == [Top EXCEPT !.pc = "query", !.next = 1, !.timeouts = 0,
                              !.err = "none", !.last = ZeroHop]
  <2>1. SetTop(f) /\ stack # << >> /\ ret' = NoOutcome
        /\ UNCHANGED <<visited, upstreamQueries, exchanges, ctx, result>>
    BY <1>3 DEF StartQuery, At
  <2>2. Top \in Frame /\ FrameOK(Top)
    BY <2>1, TopType DEF IInv
  <2>3. ZeroHop \in Hop
    BY DEF ZeroHop, Hop, HopRcodes, HopKinds
  <2>4. f \in Frame
    <3>1. "none" \in Errors /\ 1 \in Nat \ {0} /\ 0 \in Nat
      BY DEF Errors
    <3> QED  BY <2>2, <2>3, <3>1 DEF Frame
  <2>5. f.pc = "query" /\ f.cands = Top.cands /\ f.found = Top.found
    BY <2>2 DEF Frame
  <2> HIDE DEF f
  <2>6. FrameOK(f)
    BY <2>2, <2>5 DEF FrameOK
  <2> QED  BY <1>1, <2>1, <2>4, <2>5, <2>6, SetTopStep
<1> QED  BY <1>2, <1>3

(* The candidate loop, except for sending a query.                         *)
LEMMA QuerySteps ==
  ASSUME IInv, BudgetExhausted \/ SkipBlocked \/ LoopDetected \/ CandidatesExhausted
  PROVE  IInv'
<1>1. /\ stack # << >> /\ ret = NoOutcome /\ Top.pc = "query" /\ hops \in Seq(Hop)
      /\ UNCHANGED <<visited, upstreamQueries, exchanges, ctx, result>>
  BY DEF IInv, TypeOK, BudgetExhausted, SkipBlocked, LoopDetected,
         CandidatesExhausted, At
<1>2. Top \in Frame /\ FrameOK(Top)
  BY <1>1, TopType DEF IInv
<1>3. Top.last \in Hop /\ Top.last.index \in Nat
  BY <1>2 DEF Frame, Hop
<1>4. CASE BudgetExhausted
  <2> DEFINE o == [kind |-> "max_depth", rcode |-> "MAX_DEPTH",
                   terminal |-> Top.last.index]
  <2>1. o \in Outcome
    BY <1>3 DEF Outcome, OutcomeKinds
  <2>2. Return(o) /\ hops' \in Seq(Hop)
    BY <1>3, <1>4, RecordType DEF BudgetExhausted, IInv
  <2> HIDE DEF o
  <2> QED  BY <1>1, <2>1, <2>2, ReturnStep
<1>5. CASE SkipBlocked
  <2> DEFINE f == [Top EXCEPT !.next = @ + 1, !.err = "unusable"]
  <2>1. SetTop(f) /\ ret' = NoOutcome /\ hops' \in Seq(Hop)
    BY <1>1, <1>5 DEF SkipBlocked
  <2>2. f \in Frame
    <3>1. "unusable" \in Errors
      BY DEF Errors
    <3>2. Top.next + 1 \in Nat \ {0}
      BY <1>2 DEF Frame
    <3> QED  BY <1>2, <3>1, <3>2 DEF Frame
  <2>3. f.pc = "query" /\ f.cands = Top.cands /\ f.found = Top.found
    BY <1>1, <1>2 DEF Frame
  <2> HIDE DEF f
  <2>4. FrameOK(f)
    BY <1>2, <2>3 DEF FrameOK
  <2> QED  BY <1>1, <2>1, <2>2, <2>3, <2>4, SetTopStep
<1>6. CASE LoopDetected
  <2>1. Top.cands[Top.next] \in IPs
    BY <1>6, EngineAssumption DEF LoopDetected, Candidate
  <2>2. ErrorHop(Top, "LOOP") \in Hop
    BY <1>1, <1>2, <2>1, ErrorHopType DEF HopRcodes
  <2> DEFINE o == [kind |-> "loop_detected", rcode |-> "LOOP", terminal |-> Len(hops)]
  <2>3. o \in Outcome
    BY <1>1 DEF Outcome, OutcomeKinds, HopRcodes
  <2>4. Return(o) /\ hops' \in Seq(Hop)
    BY <1>6, <2>2, RecordType DEF LoopDetected, IInv
  <2> HIDE DEF o
  <2> QED  BY <1>1, <2>3, <2>4, ReturnStep
<1>7. CASE CandidatesExhausted
  <2>1. PICK err : Return(ErrorOutcome(err, Top.last))
    BY <1>7 DEF CandidatesExhausted
  <2>2. ErrorOutcome(err, Top.last) \in Outcome
    BY <1>3, ErrorOutcomeType
  <2>3. hops' \in Seq(Hop)
    BY <1>3, <1>7, RecordType DEF CandidatesExhausted, IInv
  <2> QED  BY <1>1, <2>1, <2>2, <2>3, ReturnStep
<1> QED  BY <1>4, <1>5, <1>6, <1>7

(* Sending a query: the counter, the visited keys and the policy.          *)
LEMMA SendQueryStep ==
  ASSUME IInv, SendQuery
  PROVE  IInv'
<1> DEFINE f == [Top EXCEPT !.pc = "udp"]
<1>1. /\ stack # << >> /\ ret = NoOutcome /\ ret' = NoOutcome
      /\ SetTop(f) /\ Top.next <= Len(Top.cands)
      /\ Top.cands[Top.next] \in Allowed /\ Key(Top) \notin visited
      /\ visited' = visited \cup {Key(Top)}
      /\ upstreamQueries < MaxUpstreamQueries
      /\ upstreamQueries' = upstreamQueries + 1 /\ exchanges' = exchanges + 1
      /\ UNCHANGED <<hops, result>> /\ Dial
  BY DEF SendQuery, At, MoreCandidates, Candidate
<1>2. Top \in Frame /\ FrameOK(Top)
  BY <1>1, TopType DEF IInv
<1>3. f \in Frame
  BY <1>2 DEF Frame
<1>4. f.pc = "udp" /\ f.cands = Top.cands /\ f.found = Top.found /\ f.next = Top.next
  BY <1>2 DEF Frame
<1> HIDE DEF f
<1>5. FrameOK(f)
  BY <1>1, <1>2, <1>4 DEF FrameOK
<1>6. StackOK' /\ Len(stack') = Len(stack) /\ stack' # << >> /\ Top' = f
  BY <1>1, <1>3, <1>5, SetTopOK DEF IInv
<1>7. Key(Top) \in IPs \X Names \X Types \X Purposes /\ Key(Top)[1] \in Allowed
  BY <1>1, <1>2, EngineAssumption DEF Key, Frame
<1>8. /\ upstreamQueries \in Nat /\ exchanges \in Nat /\ Len(stack) \in Nat
      /\ MaxUpstreamQueries \in Nat
  BY EngineAssumption DEF IInv, TypeOK, StackOK
<1>9. TypeOK'
  BY <1>1, <1>6, <1>7, <1>8 DEF IInv, TypeOK, StackOK, Dial
<1>10. IsFiniteSet(visited') /\ Cardinality(visited') = upstreamQueries + 1
  BY <1>1, FS_AddElement DEF IInv, QueryBudget
<1>11. QueryBudget'
  BY <1>1, <1>8, <1>10 DEF IInv, QueryBudget
<1>12. PaidFor'
  BY <1>1, <1>6, <1>8 DEF IInv, QueryBudget, PaidFor
<1> QED  BY <1>1, <1>6, <1>7, <1>8, <1>9, <1>11, <1>12 DEF IInv

(* An exchange that times out or fails.                                    *)
LEMMA FailedExchangeSteps ==
  ASSUME IInv, ExchangeTimeout \/ ExchangeError
  PROVE  IInv'
<1>1. /\ stack # << >> /\ ret = NoOutcome /\ ret' = NoOutcome
      /\ Top.pc \in {"udp", "tcp"} /\ hops \in Seq(Hop) /\ hops' \in Seq(Hop)
      /\ UNCHANGED <<visited, upstreamQueries, exchanges, ctx, result>>
  BY DEF IInv, TypeOK, ExchangeTimeout, ExchangeError, Exchanging, At
<1>2. Top \in Frame /\ FrameOK(Top)
  BY <1>1, TopType DEF IInv
<1>3. Top.cands[Top.next] \in IPs
  BY <1>1, <1>2 DEF FrameOK, Frame
<1>4. Top.next + 1 \in Nat \ {0} /\ Top.timeouts + 1 \in Nat
  BY <1>2 DEF Frame
<1>5. CASE ExchangeTimeout
  <2> DEFINE f == [Top EXCEPT !.pc = "query", !.next = @ + 1, !.timeouts = @ + 1,
                              !.err = "timeout", !.last = ErrorHop(Top, "TIMEOUT")]
  <2>1. SetTop(f)
    BY <1>5 DEF ExchangeTimeout
  <2>2. ErrorHop(Top, "TIMEOUT") \in Hop /\ "timeout" \in Errors
    BY <1>1, <1>2, <1>3, ErrorHopType DEF HopRcodes, Errors
  <2>3. f \in Frame
    BY <1>2, <1>4, <2>2 DEF Frame
  <2>4. f.pc = "query" /\ f.cands = Top.cands /\ f.found = Top.found
    BY <1>2 DEF Frame
  <2> HIDE DEF f
  <2>5. FrameOK(f)
    BY <1>2, <2>4 DEF FrameOK
  <2> QED  BY <1>1, <2>1, <2>3, <2>4, <2>5, SetTopStep
<1>6. CASE ExchangeError
  <2> DEFINE f == [Top EXCEPT !.pc = "query", !.next = @ + 1, !.err = "other",
                              !.last = ErrorHop(Top, "ERROR")]
  <2>1. SetTop(f)
    BY <1>6 DEF ExchangeError
  <2>2. ErrorHop(Top, "ERROR") \in Hop /\ "other" \in Errors
    BY <1>1, <1>2, <1>3, ErrorHopType DEF HopRcodes, Errors
  <2>3. f \in Frame
    BY <1>2, <1>4, <2>2 DEF Frame
  <2>4. f.pc = "query" /\ f.cands = Top.cands /\ f.found = Top.found
    BY <1>2 DEF Frame
  <2> HIDE DEF f
  <2>5. FrameOK(f)
    BY <1>2, <2>4 DEF FrameOK
  <2> QED  BY <1>1, <2>1, <2>3, <2>4, <2>5, SetTopStep
<1> QED  BY <1>5, <1>6

(* A truncated UDP response is the only step that spends an exchange       *)
(* without a query.                                                        *)
LEMMA TruncatedStep ==
  ASSUME IInv, NEW m \in Messages, TruncatedResponse(m)
  PROVE  IInv'
<1> DEFINE f == [Top EXCEPT !.pc = "tcp"]
<1>1. /\ stack # << >> /\ ret = NoOutcome /\ ret' = NoOutcome /\ Top.pc = "udp"
      /\ SetTop(f) /\ exchanges' = exchanges + 1
      /\ UNCHANGED <<hops, visited, upstreamQueries, result>> /\ Dial
  BY DEF TruncatedResponse, At
<1>2. Top \in Frame /\ FrameOK(Top)
  BY <1>1, TopType DEF IInv
<1>3. f \in Frame
  BY <1>2 DEF Frame
<1>4. f.pc = "tcp" /\ f.cands = Top.cands /\ f.found = Top.found /\ f.next = Top.next
  BY <1>2 DEF Frame
<1> HIDE DEF f
<1>5. FrameOK(f)
  BY <1>1, <1>2, <1>4 DEF FrameOK
<1>6. StackOK' /\ Len(stack') = Len(stack) /\ stack' # << >> /\ Top' = f
  BY <1>1, <1>3, <1>5, SetTopOK DEF IInv
<1>7. /\ upstreamQueries \in Nat /\ exchanges \in Nat
      /\ exchanges < 2 * upstreamQueries /\ Len(stack) <= upstreamQueries
  BY <1>1 DEF IInv, TypeOK, PaidFor
<1>8. TypeOK'
  BY <1>1, <1>6, <1>7 DEF IInv, TypeOK, StackOK, Dial
<1>9. QueryBudget'
  BY <1>1, <1>7 DEF IInv, QueryBudget
<1>10. PaidFor'
  BY <1>1, <1>4, <1>6, <1>7 DEF PaidFor
<1> QED  BY <1>1, <1>6, <1>8, <1>9, <1>10 DEF IInv

(* The purpose of the next round is a purpose.                             *)
LEMMA ContinuePurposeType ==
  ASSUME NEW f PROVE ContinuePurpose(f) \in Purposes
  BY DEF ContinuePurpose, Purposes, Support

(* A response that is not truncated.                                       *)
LEMMA ReceiveSteps ==
  ASSUME IInv, NEW m \in Messages,
         \/ ReceiveRcode(m) \/ ReceiveAlias(m) \/ ReceiveAnswer(m)
         \/ ReceiveReferralWithGlue(m) \/ ReceiveUnusable(m)
         \/ ReceiveReferralWithoutGlue(m)
  PROVE  IInv'
<1>1. Received(m) /\ UNCHANGED <<visited, upstreamQueries, exchanges, ctx, result>>
  BY DEF ReceiveRcode, ReceiveAlias, ReceiveAnswer, ReceiveReferralWithGlue,
         ReceiveUnusable, ReceiveReferralWithoutGlue
<1>2. stack # << >> /\ ret = NoOutcome /\ Top.pc \in {"udp", "tcp"}
  BY <1>1 DEF Received, At
<1>3. Top \in Frame /\ FrameOK(Top)
  BY <1>2, TopType DEF IInv
<1>4. hops \in Seq(Hop) /\ m \in Message
  BY EngineAssumption DEF IInv, TypeOK
<1>5. Top.cands[Top.next] \in IPs
  BY <1>2, <1>3 DEF FrameOK, Frame
<1>6. \A kind \in HopKinds : ResponseHop(Top, m, kind) \in Hop
  BY <1>2, <1>3, <1>4, <1>5, ResponseHopType
<1>7. \A h \in Hop : Record(h) => hops' \in Seq(Hop)
  BY RecordType DEF IInv
<1>8. CASE ReceiveRcode(m)
  <2> DEFINE h == ResponseHop(Top, m, "error")
  <2>1. h \in Hop
    BY <1>6 DEF HopKinds
  <2>2. Record(h) /\ Return(RcodeOutcome(h))
    BY <1>8 DEF ReceiveRcode
  <2> HIDE DEF h
  <2> QED  BY <1>1, <1>2, <1>7, <2>1, <2>2, RcodeOutcomeType, ReturnStep
<1>9. CASE ReceiveAlias(m)
  <2>1. Continue(Top, m.alias, "cname_follow", Roots) /\ m.alias \in Names
    BY <1>4, <1>9 DEF ReceiveAlias, Message
  <2>2. hops' \in Seq(Hop)
    BY <1>6, <1>7, <1>9 DEF ReceiveAlias, HopKinds
  <2>3. Roots \in Seq(IPs) /\ "cname_follow" \in Purposes
    BY EngineAssumption DEF Purposes
  <2> QED  BY <1>1, <1>2, <2>1, <2>2, <2>3, ContinueStep
<1>10. CASE ReceiveAnswer(m)
  <2> DEFINE o == [kind |-> "success", rcode |-> m.rcode, terminal |-> Len(hops)]
  <2>1. o \in Outcome
    BY <1>4, <1>10 DEF ReceiveAnswer, Outcome, OutcomeKinds, HopRcodes, Rcodes
  <2>2. Return(o)
    BY <1>10 DEF ReceiveAnswer
  <2>3. hops' \in Seq(Hop)
    BY <1>6, <1>7, <1>10 DEF ReceiveAnswer, HopKinds
  <2> HIDE DEF o
  <2> QED  BY <1>1, <1>2, <2>1, <2>2, <2>3, ReturnStep
<1>11. CASE ReceiveReferralWithGlue(m)
  <2>1. /\ Continue(Top, Top.qname, ContinuePurpose(Top), GlueCandidates(m))
        /\ GlueCandidates(m) # << >>
    BY <1>11 DEF ReceiveReferralWithGlue
  <2>2. hops' \in Seq(Hop)
    BY <1>6, <1>7, <1>11 DEF ReceiveReferralWithGlue, HopKinds
  <2>3. GlueCandidates(m) \in Seq(Allowed)
    BY <1>4, GlueCandidatesType
  <2>4. GlueCandidates(m) \in Seq(IPs)
    BY <2>3, EngineAssumption
  <2>5. Top.qname \in Names /\ ContinuePurpose(Top) \in Purposes
    BY <1>3, ContinuePurposeType DEF Frame
  <2> QED  BY <1>1, <1>2, <2>1, <2>2, <2>3, <2>4, <2>5, ContinueStep
<1>12. CASE ReceiveUnusable(m)
  <2> DEFINE h == ResponseHop(Top, m, "error")
  <2>1. h \in Hop
    BY <1>6 DEF HopKinds
  <2>2. Record(h) /\ Return(ErrorOutcome("unusable", h))
    BY <1>12 DEF ReceiveUnusable
  <2> HIDE DEF h
  <2> QED  BY <1>1, <1>2, <1>7, <2>1, <2>2, ErrorOutcomeType, ReturnStep
<1>13. CASE ReceiveReferralWithoutGlue(m)
  <2> DEFINE h == ResponseHop(Top, m, "referral")
             f == [Top EXCEPT !.pc = "resolve", !.hop = h, !.ns = Distinct(m.ns),
                              !.pos = 1, !.family = "A", !.found = << >>]
  <2>1. SetTop(f) /\ ret' = NoOutcome /\ hops' \in Seq(Hop)
    BY <1>2, <1>4, <1>13 DEF ReceiveReferralWithoutGlue
  <2>2. h \in Hop
    BY <1>6 DEF HopKinds
  <2>3. Distinct(m.ns) \in Seq(Names)
    BY <1>4, DistinctType DEF Message
  <2>4. << >> \in Seq(IPs) /\ << >> \in Seq(Allowed)
    OBVIOUS
  <2> HIDE DEF h
  <2>5. f \in Frame
    <3> DEFINE ns == Distinct(m.ns)
    <3>1. ns \in Seq(Names)  BY <2>3
    <3>2. 1 \in Nat \ {0}  OBVIOUS
    <3> HIDE DEF ns
    <3>3. [Top EXCEPT !.pc = "resolve", !.hop = h, !.ns = ns,
                      !.pos = 1, !.family = "A", !.found = << >>] \in Frame
      BY <1>3, <2>2, <2>4, <3>1, <3>2 DEF Frame
    <3> QED  BY <3>3 DEF ns
  <2>6. f.pc = "resolve" /\ f.cands = Top.cands /\ f.found = << >>
    BY <1>3 DEF Frame
  <2> HIDE DEF f
  <2>7. FrameOK(f)
    BY <1>3, <2>4, <2>6 DEF FrameOK
  <2>8. Len(stack) <= upstreamQueries
    BY <1>2 DEF IInv, PaidFor
  <2> QED  BY <1>1, <1>2, <2>1, <2>5, <2>6, <2>7, <2>8, SetTopStep
<1> QED  BY <1>8, <1>9, <1>10, <1>11, <1>12, <1>13

(* Support lookups for a referral without glue.                            *)
LEMMA ResolveSteps ==
  ASSUME IInv, SupportLookup \/ ReferralResolved \/ ReferralUnusable
  PROVE  IInv'
<1>1. /\ stack # << >> /\ ret = NoOutcome /\ Top.pc = "resolve" /\ hops \in Seq(Hop)
      /\ UNCHANGED <<visited, upstreamQueries, exchanges, ctx, result>>
  BY DEF IInv, TypeOK, SupportLookup, ReferralResolved, ReferralUnusable, At
<1>2. Top \in Frame /\ FrameOK(Top)
  BY <1>1, TopType DEF IInv
<1>3. Top.hop \in Hop /\ Top.hop.index \in Nat
  BY <1>2 DEF Frame, Hop
<1>4. CASE SupportLookup
  <2> DEFINE f == Activation(Top.ns[Top.pos], Top.family, Top.hop.index, Support)
  <2>1. Top.ns[Top.pos] \in Names /\ Top.family \in Types
    BY <1>2, <1>4, EngineAssumption DEF SupportLookup, Frame
  <2>2. f \in Frame
    <3>1. ZeroHop \in Hop
      BY DEF ZeroHop, Hop, HopRcodes, HopKinds
    <3>2. << >> \in Seq(IPs) /\ << >> \in Seq(Names) /\ Roots \in Seq(IPs)
      BY EngineAssumption
    <3>3. Support \in Purposes /\ "none" \in Errors
      BY DEF Purposes, Errors
    <3> QED  BY <1>3, <2>1, <3>1, <3>2, <3>3 DEF Activation, Frame
  <2>3. f.pc = "loop" /\ f.cands = Roots /\ f.found = << >>
    BY DEF Activation
  <2>4. stack' = Append(stack, f) /\ ret' = NoOutcome /\ hops' \in Seq(Hop)
    BY <1>1, <1>4 DEF SupportLookup
  <2> HIDE DEF f
  <2>5. FrameOK(f)
    BY <2>3 DEF FrameOK
  <2>6. StackOK' /\ Len(stack') = Len(stack) + 1 /\ stack' # << >> /\ Top' = f
    BY <1>1, <2>2, <2>4, <2>5, PushOK DEF IInv
  <2>7. Len(stack) <= upstreamQueries /\ upstreamQueries \in Nat /\ Len(stack) \in Nat
    BY <1>1 DEF IInv, PaidFor, TypeOK, StackOK
  <2>8. ret' \in Outcome \cup {NoOutcome}
    BY <2>4
  <2> QED  BY <1>1, <2>3, <2>4, <2>6, <2>7, <2>8, QuietStep
<1>5. CASE ReferralResolved
  <2>1. /\ Continue(Top, Top.qname, ContinuePurpose(Top), Top.found)
        /\ Record(Top.hop) /\ Top.found # << >>
    BY <1>5 DEF ReferralResolved
  <2>2. hops' \in Seq(Hop)
    BY <1>3, <2>1, RecordType DEF IInv
  <2>3. Top.found \in Seq(Allowed) /\ Top.found \in Seq(IPs) /\ Top.qname \in Names
    BY <1>2 DEF FrameOK, Frame
  <2>4. ContinuePurpose(Top) \in Purposes
    BY ContinuePurposeType
  <2> QED  BY <1>1, <2>1, <2>2, <2>3, <2>4, ContinueStep
<1>6. CASE ReferralUnusable
  <2>1. [Top.hop EXCEPT !.kind = "error"] \in Hop
    BY <1>3 DEF Hop, HopKinds
  <2>2. hops' \in Seq(Hop)
    BY <1>6, <2>1, RecordType DEF ReferralUnusable, IInv
  <2>3. ErrorOutcome("unusable", Top.hop) \in Outcome
    BY <1>3, ErrorOutcomeType
  <2>4. Return(ErrorOutcome("unusable", Top.hop))
    BY <1>6 DEF ReferralUnusable
  <2> QED  BY <1>1, <2>2, <2>3, <2>4, ReturnStep
<1> QED  BY <1>4, <1>5, <1>6

(* The outcome of a support lookup is taken up.                            *)
LEMMA ReturnedSteps ==
  ASSUME IInv, AddressesFound \/ TryIPv6 \/ NoAddress
  PROVE  IInv'
<1>1. /\ stack # << >> /\ ret # NoOutcome /\ ret' = NoOutcome
      /\ hops \in Seq(Hop) /\ hops' \in Seq(Hop)
      /\ UNCHANGED <<visited, upstreamQueries, exchanges, ctx, result>>
  BY DEF IInv, TypeOK, AddressesFound, TryIPv6, NoAddress, Returned
<1>2. Top.pc = "resolve"
  BY <1>1 DEF IInv, StackOK
<1>3. Top \in Frame /\ FrameOK(Top) /\ Len(stack) <= upstreamQueries
  BY <1>1, <1>2, TopType DEF IInv, PaidFor
<1>4. Top.pos + 1 \in Nat \ {0}
  BY <1>3 DEF Frame
<1>5. CASE AddressesFound
  <2> DEFINE more == Permitted(Addresses(Top))
             found == Top.found \o more
             f == [Top EXCEPT !.pos = @ + 1, !.family = "A", !.found = @ \o more]
  <2>1. SetTop(f)
    BY <1>5 DEF AddressesFound
  <2>2. more \in Seq(Allowed)
    BY <1>1, AddressesType, PermittedType
  <2> HIDE DEF more
  <2>3. found \in Seq(Allowed) /\ found \in Seq(IPs)
    BY <1>3, <2>2, EngineAssumption DEF FrameOK, Frame
  <2>4. f = [Top EXCEPT !.pos = Top.pos + 1, !.family = "A", !.found = found]
    OBVIOUS
  <2> HIDE DEF found, f
  <2>5. f \in Frame
    BY <1>3, <1>4, <2>3, <2>4 DEF Frame
  <2>6. f.pc = "resolve" /\ f.cands = Top.cands /\ f.found = found
    BY <1>2, <1>3, <2>4 DEF Frame
  <2>7. FrameOK(f)
    BY <1>3, <2>3, <2>6 DEF FrameOK
  <2> QED  BY <1>1, <1>3, <2>1, <2>5, <2>6, <2>7, SetTopStep
<1>6. CASE TryIPv6
  <2> DEFINE f == [Top EXCEPT !.family = "AAAA"]
  <2>1. SetTop(f)
    BY <1>6 DEF TryIPv6
  <2>2. f \in Frame
    BY <1>3 DEF Frame
  <2>3. f.pc = "resolve" /\ f.cands = Top.cands /\ f.found = Top.found
    BY <1>2, <1>3 DEF Frame
  <2> HIDE DEF f
  <2>4. FrameOK(f)
    BY <1>3, <2>3 DEF FrameOK
  <2> QED  BY <1>1, <1>3, <2>1, <2>2, <2>3, <2>4, SetTopStep
<1>7. CASE NoAddress
  <2> DEFINE f == [Top EXCEPT !.pos = @ + 1, !.family = "A"]
  <2>1. SetTop(f)
    BY <1>7 DEF NoAddress
  <2>2. f \in Frame
    BY <1>3, <1>4 DEF Frame
  <2>3. f.pc = "resolve" /\ f.cands = Top.cands /\ f.found = Top.found
    BY <1>2, <1>3 DEF Frame
  <2> HIDE DEF f
  <2>4. FrameOK(f)
    BY <1>3, <2>3 DEF FrameOK
  <2> QED  BY <1>1, <1>3, <2>1, <2>2, <2>3, <2>4, SetTopStep
<1> QED  BY <1>5, <1>6, <1>7

(* The steps that leave the activations alone.                             *)
LEMMA OutsideSteps ==
  ASSUME IInv, Finish \/ ContextDone \/ UNCHANGED vars
  PROVE  IInv'
<1>1. UNCHANGED <<stack, ret, hops, visited, upstreamQueries, exchanges>>
  BY DEF Finish, ContextDone, DeadlinePasses, ClientGone, vars
<1>2. ctx' \in {"live", "cancelled", "done"}
  BY DEF Finish, ContextDone, DeadlinePasses, ClientGone, vars, IInv, TypeOK
<1>3. result' \in Result \cup {NoResult}
  <2>1. CASE Finish
    <3>1. ret \in Outcome
      BY <2>1 DEF Finish, IInv, StackOK, TypeOK
    <3>2. Len(hops) \in Nat
      BY DEF IInv, TypeOK
    <3> DEFINE C == {i \in DOMAIN hops : hops[i].kind = "cname"}
    <3>3. IsFiniteSet(1..Len(hops)) /\ C \in SUBSET (1..Len(hops))
      <4>1. hops \in Seq(Hop) /\ DOMAIN hops = 1..Len(hops)
        BY DEF IInv, TypeOK
      <4>2. IsFiniteSet(1..Len(hops))
        BY <3>2, FS_Interval
      <4> QED  BY <4>1, <4>2
    <3>4. Cardinality(C) \in Nat
      BY <3>3, FS_Subset, FS_CardinalityType
    <3> DEFINE c == Cardinality(C)
    <3>5. result' = [status |-> IF ret.kind = "success" THEN "success" ELSE "failure",
                     outcome |-> ret, totalHops |-> Len(hops), cnames |-> c]
      BY <2>1 DEF Finish
    <3> HIDE DEF c
    <3>6. c \in Nat
      BY <3>4 DEF c
    <3> QED  BY <3>1, <3>2, <3>5, <3>6 DEF Result
  <2>2. CASE ContextDone \/ UNCHANGED vars
    BY <2>2 DEF ContextDone, DeadlinePasses, ClientGone, vars, IInv, TypeOK
  <2> QED  BY <2>1, <2>2
<1>4. TypeOK'
  BY <1>1, <1>2, <1>3 DEF IInv, TypeOK
<1>5. StackOK' /\ PaidFor' /\ QueryBudget'
  BY <1>1 DEF IInv, StackOK, PaidFor, QueryBudget, Top, FrameOK
<1> QED  BY <1>1, <1>4, <1>5 DEF IInv

(* Every step keeps the inductive invariant.                               *)
LEMMA NextIInv == IInv /\ [Next]_vars => IInv'
<1> SUFFICES ASSUME IInv, [Next]_vars PROVE IInv'
  OBVIOUS
<1>1. CASE DepthExceeded \/ BudgetExceeded \/ StartQuery
  BY <1>1, LoopSteps
<1>2. CASE BudgetExhausted \/ SkipBlocked \/ LoopDetected \/ CandidatesExhausted
  BY <1>2, QuerySteps
<1>3. CASE SendQuery
  BY <1>3, SendQueryStep
<1>4. CASE ExchangeTimeout \/ ExchangeError
  BY <1>4, FailedExchangeSteps
<1>5. CASE \E m \in Messages : Receive(m)
  <2>1. PICK m \in Messages : Receive(m)
    BY <1>5
  <2>2. CASE TruncatedResponse(m)
    BY <2>2, TruncatedStep
  <2>3. CASE \/ ReceiveRcode(m) \/ ReceiveAlias(m) \/ ReceiveAnswer(m)
             \/ ReceiveReferralWithGlue(m) \/ ReceiveUnusable(m)
             \/ ReceiveReferralWithoutGlue(m)
    BY <2>3, ReceiveSteps
  <2> QED  BY <2>1, <2>2, <2>3 DEF Receive
<1>6. CASE SupportLookup \/ ReferralResolved \/ ReferralUnusable
  BY <1>6, ResolveSteps
<1>7. CASE AddressesFound \/ TryIPv6 \/ NoAddress
  BY <1>7, ReturnedSteps
<1>8. CASE Finish \/ ContextDone \/ UNCHANGED vars
  BY <1>8, OutsideSteps
<1> QED
  BY <1>1, <1>2, <1>3, <1>4, <1>5, <1>6, <1>7, <1>8 DEF Next, Step, Done

(* The inductive invariant: every activation is well typed and asks only   *)
(* permitted servers, has paid for what it waits for, and the counters     *)
(* agree with the questions put.                                           *)
THEOREM Invariance == Spec => []IInv
  BY InitIInv, NextIInv, PTL DEF Spec

-----------------------------------------------------------------------------
(* The results.                                                            *)

(* Type correctness of every reachable state.                              *)
THEOREM TypeCorrect == Spec => []TypeOK
<1>1. IInv => TypeOK
  BY DEF IInv
<1> QED  BY <1>1, Invariance, PTL

(* Upstream traffic stays within the budget, support lookups and TCP       *)
(* fallbacks included.                                                     *)
THEOREM BudgetRespected == Spec => []QueryBudget
<1>1. IInv => QueryBudget
  BY DEF IInv
<1> QED  BY <1>1, Invariance, PTL

(* The recursion of traceName is bounded by the queries spent.             *)
THEOREM RecursionIsBounded == Spec => []RecursionBounded
<1>1. IInv => RecursionBounded
  BY DEF IInv, PaidFor, RecursionBounded, At
<1> QED  BY <1>1, Invariance, PTL

(* Only servers the destination policy allows are asked, and a referral    *)
(* continues with nothing else.                                            *)
THEOREM EgressRespected == Spec => []EgressPolicy
<1>1. IInv => EgressPolicy
  <2> SUFFICES ASSUME IInv PROVE EgressPolicy
    OBVIOUS
  <2>1. DOMAIN stack = 1..Len(stack)
    BY DEF IInv, StackOK
  <2>2. ASSUME NEW i \in 1..Len(stack), stack[i].cands # Roots
        PROVE  /\ stack[i].cands # << >>
               /\ \A j \in DOMAIN stack[i].cands : stack[i].cands[j] \in Allowed
    <3>1. stack[i].cands \in Seq(Allowed) \ {<< >>}
      BY <2>2 DEF IInv, StackOK, FrameOK
    <3> QED  BY <3>1
  <2> QED  BY <2>1, <2>2 DEF IInv, EgressPolicy
<1> QED  BY <1>1, Invariance, PTL

=============================================================================
