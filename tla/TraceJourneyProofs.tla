-------------------------- MODULE TraceJourneyProofs --------------------------
(***************************************************************************)
(* TraceEngine implements TraceJourney, for every set of servers, names    *)
(* and responses and every guardrail.                                      *)
(***************************************************************************)
EXTENDS TraceHopsProofs

(* Whatever activation f may still record is about the name it asks for.   *)
AsksForName(f) ==
  /\ f.pc \in {"query", "udp", "tcp"} /\ f.last # ZeroHop => f.last.qname = f.qname
  /\ f.pc = "resolve" => f.hop.qname = f.qname

(* The outermost activation is where the journey is: as deep as there are  *)
(* hops, at the name the last of them led to, and every round of its loop  *)
(* has cost a query.                                                       *)
OuterOK(f) ==
  /\ Len(TopLevelJourney) = f.depth /\ f.depth <= upstreamQueries
  /\ f.pc \in {"udp", "tcp", "resolve"} => f.depth < upstreamQueries
  /\ Journey!Current = f.qname

JourneyInv ==
  /\ \A i \in 1..Len(stack) : AsksForName(stack[i])
  /\ stack # << >> => OuterOK(stack[1])

-----------------------------------------------------------------------------
(* The journey.                                                            *)

JourneyHops == [qname : Names \cup {NoName}, kind : HopKinds, alias : Names \cup {NoName}]

(* A top-level hop stands for one hop of the journey.                      *)
LEMMA JourneyHopType ==
  ASSUME NEW h \in Hop
  PROVE  /\ JourneyHop(h) \in JourneyHops /\ JourneyHop(h).qname = h.qname
         /\ JourneyHop(h).kind = h.kind /\ JourneyHop(h).alias = h.alias
  BY DEF Hop, JourneyHop, JourneyHops

(* The journey of a trace is a sequence of hops of TraceJourney.           *)
LEMMA JourneyType ==
  ASSUME hops \in Seq(Hop)
  PROVE  TopLevelJourney \in Seq(JourneyHops) /\ Len(TopLevelJourney) \in Nat
<1> DEFINE ss == [i \in DOMAIN hops |->
                    IF TopLevel(hops[i]) THEN <<JourneyHop(hops[i])>> ELSE << >>]
<1>1. \A i \in 1..Len(hops) : hops[i] \in Hop /\ JourneyHop(hops[i]) \in JourneyHops
  BY JourneyHopType
<1>2. ss \in [1..Len(hops) -> Seq(JourneyHops)] /\ Len(hops) \in Nat
  BY <1>1
<1> HIDE DEF ss
<1>3. ss \in Seq(Seq(JourneyHops))
  BY <1>2, FunctionIsSeq
<1>4. FlattenSeq(ss) \in Seq(JourneyHops)
  BY <1>3, FlattenSeqType
<1> QED  BY <1>4 DEF TopLevelJourney, ss

(* A hop that is recorded continues the journey if it is a top-level one.  *)
LEMMA JourneyRecorded ==
  ASSUME IInv, NEW h \in Hop, Record(h)
  PROVE  TopLevelJourney' = IF TopLevel(h) THEN Append(TopLevelJourney, JourneyHop(h))
                            ELSE TopLevelJourney
<1> DEFINE ss == [i \in DOMAIN hops |->
                    IF TopLevel(hops[i]) THEN <<JourneyHop(hops[i])>> ELSE << >>]
           us == [i \in DOMAIN hops' |->
                    IF TopLevel(hops'[i]) THEN <<JourneyHop(hops'[i])>> ELSE << >>]
           t  == IF TopLevel(h) THEN <<JourneyHop(h)>> ELSE << >>
<1>1. /\ hops \in Seq(Hop) /\ Len(hops) \in Nat /\ DOMAIN hops = 1..Len(hops)
      /\ \A i \in 1..Len(hops) : hops[i] \in Hop
  BY StackShape
<1>2. /\ hops' \in Seq(Hop) /\ Len(hops') = Len(hops) + 1 /\ DOMAIN hops' = 1..(Len(hops) + 1)
      /\ \A i \in 1..Len(hops) : hops'[i] = hops[i]
      /\ hops'[Len(hops) + 1] = h
  BY Recorded
<1>3. t \in Seq(JourneyHops)
  BY JourneyHopType
<1>4. ss \in [1..Len(hops) -> Seq(JourneyHops)]
  <2>1. \A i \in 1..Len(hops) : JourneyHop(hops[i]) \in JourneyHops
    BY <1>1, JourneyHopType
  <2> QED  BY <1>1, <2>1
<1>5. us = [i \in 1..(Len(hops) + 1) |-> IF i = Len(hops) + 1 THEN t ELSE ss[i]]
  BY <1>1, <1>2
<1>6. FlattenSeq(ss) = TopLevelJourney /\ FlattenSeq(us) = TopLevelJourney'
  BY DEF TopLevelJourney, TopLevel, JourneyHop
<1> HIDE DEF ss, us
<1>7. ss \in Seq(Seq(JourneyHops)) /\ Len(ss) = Len(hops)
  BY <1>1, <1>4, FunctionIsSeq
<1>8. us = Append(ss, t)
  <2> HIDE DEF t
  <2>1. /\ us \in [1..(Len(hops) + 1) -> Seq(JourneyHops)]
        /\ Append(ss, t) \in Seq(Seq(JourneyHops))
        /\ Len(Append(ss, t)) = Len(hops) + 1
        /\ \A i \in 1..(Len(hops) + 1) : us[i] = Append(ss, t)[i]
    BY <1>1, <1>3, <1>4, <1>5, <1>7
  <2>2. Len(hops) + 1 \in Nat
    BY <1>1
  <2>3. us \in Seq(Seq(JourneyHops)) /\ Len(us) = Len(hops) + 1
    BY <2>1, <2>2, FunctionIsSeq
  <2> QED  BY <2>1, <2>3, SeqEqual
<1>9. TopLevelJourney' = TopLevelJourney \o t
  BY <1>3, <1>6, <1>7, <1>8, FlattenSeqAppend
<1>10. TopLevelJourney \in Seq(JourneyHops)
  BY <1>1, JourneyType
<1>11. CASE TopLevel(h)
  <2>1. JourneyHop(h) \in JourneyHops
    BY JourneyHopType
  <2>2. TopLevelJourney' = TopLevelJourney \o <<JourneyHop(h)>>
    BY <1>9, <1>11
  <2> QED  BY <1>10, <1>11, <2>1, <2>2, AppendIsConcat
<1>12. CASE ~TopLevel(h)
  <2>1. TopLevelJourney' = TopLevelJourney \o << >>
    BY <1>9, <1>12
  <2> QED  BY <1>10, <1>12, <2>1, ConcatEmptySeq, Zenon
<1> QED  BY <1>11, <1>12

(* The name the next hop asks for.                                         *)
LEMMA CurrentIs ==
  Journey!Current =
    IF TopLevelJourney = << >> THEN QName
    ELSE IF TopLevelJourney[Len(TopLevelJourney)].kind = "cname"
         THEN TopLevelJourney[Len(TopLevelJourney)].alias
         ELSE TopLevelJourney[Len(TopLevelJourney)].qname
  BY DEF Journey!Current

(* No hop, no journey.                                                     *)
LEMMA JourneyKept ==
  ASSUME hops' = hops
  PROVE  TopLevelJourney' = TopLevelJourney
  BY DEF TopLevelJourney, TopLevel, JourneyHop

-----------------------------------------------------------------------------
(* The ways a step changes the stack and the hops.                         *)

(* The innermost activation asks for its own name.                         *)
LEMMA TopAsks ==
  ASSUME IInv, JourneyInv, stack # << >>
  PROVE  AsksForName(Top)
<1>1. Len(stack) \in Nat \ {0}
  BY StackShape
<1>2. Len(stack) \in 1..Len(stack)
  BY <1>1
<1> QED  BY <1>2 DEF JourneyInv, Top

(* The outermost activation made every hop of the journey.                 *)
LEMMA OuterDepth ==
  ASSUME IInv, stack # << >>
  PROVE  upstreamQueries \in Nat /\ stack[1] \in Frame /\ stack[1].depth \in Nat
<1>1. Len(stack) \in Nat \ {0}
  BY StackShape
<1>2. 1 \in 1..Len(stack)
  BY <1>1
<1>3. stack[1] \in Frame
  BY <1>2, StackShape
<1> QED  BY <1>3, StackShape DEF Frame

(* The outermost activation and the journey stay as they were.             *)
LEMMA InnerJourney ==
  ASSUME JourneyInv, stack # << >>, stack' # << >>, stack'[1] = stack[1],
         TopLevelJourney' = TopLevelJourney,
         upstreamQueries \in Nat, upstreamQueries' \in Nat,
         upstreamQueries <= upstreamQueries', stack[1].depth \in Nat,
         \A i \in 1..Len(stack') : AsksForName(stack'[i])
  PROVE  JourneyInv'
<1>1. OuterOK(stack[1])'
  <2>1. Journey!Current' = Journey!Current
    BY DEF Journey!Current
  <2> QED  BY <2>1 DEF JourneyInv, OuterOK
<1>2. \A i \in 1..Len(stack') : AsksForName(stack[i])'
  BY DEF AsksForName
<1> QED  BY <1>1, <1>2 DEF JourneyInv

(* Nothing the journey shows has changed.                                  *)
LEMMA JourneyStutters ==
  ASSUME stack # << >>, stack' # << >>, TopLevelJourney' = TopLevelJourney,
         upstreamQueries' = upstreamQueries
  PROVE  [Journey!Next]_Journey!vars
<1>1. UNCHANGED Journey!vars
  BY DEF Journey!vars, JourneyStatus
<1> QED  BY <1>1

(* The innermost activation goes on without recording.                     *)
LEMMA ReplaceJourney ==
  ASSUME IInv, JourneyInv, stack # << >>, NEW f, SetTop(f), hops' = hops,
         upstreamQueries' \in Nat, upstreamQueries <= upstreamQueries',
         f.depth = Top.depth, f.qname = Top.qname, AsksForName(f),
         f.pc \in {"udp", "tcp", "resolve"} =>
           Top.pc \in {"udp", "tcp", "resolve"} \/ upstreamQueries < upstreamQueries'
  PROVE  /\ JourneyInv' /\ stack' # << >> /\ TopLevelJourney' = TopLevelJourney
<1>1. /\ Len(stack') = Len(stack) /\ Len(stack) \in Nat \ {0} /\ stack' # << >>
      /\ stack'[Len(stack)] = f
      /\ \A i \in 1..(Len(stack) - 1) : stack'[i] = stack[i]
  BY TopReplaced
<1>2. TopLevelJourney' = TopLevelJourney
  BY JourneyKept
<1>3. \A i \in 1..Len(stack') : AsksForName(stack'[i])
  <2>1. \A i \in 1..Len(stack) : i = Len(stack) \/ i \in 1..(Len(stack) - 1)
    BY <1>1
  <2> QED  BY <1>1, <2>1 DEF JourneyInv
<1>4. upstreamQueries \in Nat /\ stack[1].depth \in Nat
  BY OuterDepth
<1>5. CASE Len(stack) = 1
  <2>1. stack'[1] = f /\ Top = stack[1]
    BY <1>1, <1>5 DEF Top
  <2>2. Journey!Current' = Journey!Current
    BY <1>2 DEF Journey!Current
  <2>3. OuterOK(stack[1])'
    BY <1>2, <1>4, <2>1, <2>2 DEF JourneyInv, OuterOK
  <2>4. \A i \in 1..Len(stack') : AsksForName(stack[i])'
    BY <1>3 DEF AsksForName
  <2> QED  BY <1>1, <1>2, <2>3, <2>4 DEF JourneyInv
<1>6. CASE Len(stack) # 1
  <2>1. stack'[1] = stack[1]
    BY <1>1, <1>6
  <2> QED  BY <1>1, <1>2, <1>3, <1>4, <2>1, InnerJourney
<1> QED  BY <1>5, <1>6

(* The innermost activation records a hop and goes round again: the        *)
(* journey advances if it is the outermost one.                            *)
LEMMA ContinueJourney ==
  ASSUME IInv, HopInv, JourneyInv, stack # << >>, NEW h \in Hop, Record(h),
         Top.pc \in {"udp", "tcp", "resolve"}, upstreamQueries' = upstreamQueries,
         h.parent = Top.parent, h.qname = Top.qname, h.kind \in {"cname", "referral"},
         NEW qname, qname = IF h.kind = "cname" THEN h.alias ELSE h.qname,
         h.kind = "cname" => h.alias # NoName,
         NEW purpose, NEW cands, Continue(Top, qname, purpose, cands)
  PROVE  JourneyInv' /\ [Journey!Next]_Journey!vars
<1> DEFINE f == [Top EXCEPT !.pc = "loop", !.depth = Top.depth + 1, !.qname = qname,
                            !.purpose = purpose, !.cands = cands]
<1>1. /\ Top \in Frame /\ FrameInv(Top) /\ Top.depth \in Nat
      /\ Len(stack) \in Nat \ {0} /\ stack \in Seq(Frame)
  BY TopFacts, StackShape
<1>2. /\ f.pc = "loop" /\ f.depth = Top.depth + 1 /\ f.qname = qname /\ SetTop(f)
  BY <1>1 DEF Frame, Continue
<1> HIDE DEF f
<1>3. /\ Len(stack') = Len(stack) /\ stack' # << >> /\ stack'[Len(stack)] = f
      /\ \A i \in 1..(Len(stack) - 1) : stack'[i] = stack[i]
  BY <1>1, <1>2 DEF SetTop
<1>4. \A i \in 1..Len(stack') : AsksForName(stack'[i])
  <2>1. \A i \in 1..Len(stack) : i = Len(stack) \/ i \in 1..(Len(stack) - 1)
    BY <1>1
  <2>2. AsksForName(f)
    BY <1>2 DEF AsksForName
  <2> QED  BY <1>3, <2>1, <2>2 DEF JourneyInv
<1>5. upstreamQueries \in Nat /\ stack[1].depth \in Nat
  BY OuterDepth
<1>6. TopLevel(h) <=> Len(stack) = 1
  BY Outermost DEF TopLevel, HopInv
<1>7. CASE Len(stack) = 1
  <2>1. stack'[1] = f /\ Top = stack[1]
    BY <1>3, <1>7 DEF Top
  <2>2. /\ Len(TopLevelJourney) = Top.depth /\ Top.depth < upstreamQueries
        /\ Journey!Current = Top.qname /\ Top.depth < MaxDepth
    BY <1>1, <2>1 DEF JourneyInv, OuterOK, FrameInv
  <2> DEFINE j == JourneyHop(h)
  <2>3. /\ TopLevelJourney' = Append(TopLevelJourney, j)
        /\ TopLevelJourney \in Seq(JourneyHops) /\ Len(TopLevelJourney) \in Nat
    BY <1>6, <1>7, JourneyRecorded, JourneyType, StackShape
  <2>4. /\ j \in JourneyHops /\ j.qname = h.qname /\ j.kind = h.kind /\ j.alias = h.alias
    BY JourneyHopType
  <2>5. j = [qname |-> h.qname, kind |-> h.kind, alias |-> h.alias]
    BY DEF JourneyHop
  <2>6. h.alias \in Names \cup {NoName}
    BY DEF Hop
  <2> HIDE DEF j
  <2>7. j \in Journey!HopOf(Journey!Current, {"cname", "referral"})
    BY <2>2, <2>5, <2>6 DEF Journey!HopOf
  <2>8. Journey!Advance
    <3>1. JourneyStatus = "running" /\ JourneyStatus' = "running"
      BY <1>3 DEF JourneyStatus
    <3> QED  BY <2>2, <2>3, <2>4, <2>7, <3>1 DEF Journey!Advance
  <2>9. /\ Len(TopLevelJourney') = Len(TopLevelJourney) + 1
        /\ TopLevelJourney' # << >> /\ TopLevelJourney'[Len(TopLevelJourney')] = j
    BY <2>3, <2>4
  <2>10. Journey!Current' = qname
    BY <2>4, <2>9 DEF Journey!Current
  <2>11. OuterOK(stack[1])'
    BY <1>1, <1>2, <1>5, <2>1, <2>2, <2>9, <2>10 DEF OuterOK
  <2>12. \A i \in 1..Len(stack') : AsksForName(stack[i])'
    BY <1>4 DEF AsksForName
  <2> QED  BY <2>8, <2>11, <2>12 DEF JourneyInv, Journey!Next
<1>8. CASE Len(stack) # 1
  <2>1. stack'[1] = stack[1]
    <3>1. 1 \in 1..(Len(stack) - 1)
      BY <1>1, <1>8, AtLeastTwo, Zenon
    <3> QED  BY <1>3, <3>1
  <2>2. TopLevelJourney' = TopLevelJourney
    BY <1>6, <1>8, JourneyRecorded
  <2>3. JourneyInv'
    BY <1>3, <1>4, <1>5, <2>1, <2>2, InnerJourney
  <2> QED  BY <1>3, <2>2, <2>3, JourneyStutters
<1> QED  BY <1>7, <1>8

(* A return leaves the suspended activations as they were.                 *)
LEMMA ReturnJourney ==
  ASSUME IInv, JourneyInv, stack # << >>, NEW o, Return(o),
         upstreamQueries' = upstreamQueries,
         Len(stack) # 1 => TopLevelJourney' = TopLevelJourney
  PROVE  /\ JourneyInv' /\ ret' = o
         /\ stack' = << >> <=> Len(stack) = 1
         /\ Len(stack) # 1 => [Journey!Next]_Journey!vars
<1>1. /\ Len(stack') = Len(stack) - 1 /\ Len(stack) \in Nat \ {0} /\ ret' = o
      /\ stack' = << >> <=> Len(stack) = 1
      /\ \A i \in 1..(Len(stack) - 1) : stack'[i] = stack[i]
  BY TopReturned
<1>2. \A i \in 1..Len(stack') : AsksForName(stack'[i])
  <2>1. \A i \in 1..Len(stack') : i \in 1..Len(stack) /\ stack'[i] = stack[i]
    BY <1>1
  <2> QED  BY <2>1 DEF JourneyInv
<1>3. CASE Len(stack) = 1
  <2>1. \A i \in 1..Len(stack') : AsksForName(stack[i])'
    BY <1>2 DEF AsksForName
  <2> QED  BY <1>1, <1>3, <2>1 DEF JourneyInv
<1>4. CASE Len(stack) # 1
  <2>1. 1 \in 1..(Len(stack) - 1)
    BY <1>1, <1>4, AtLeastTwo, Zenon
  <2>2. upstreamQueries \in Nat /\ stack[1].depth \in Nat
    BY OuterDepth
  <2>3. JourneyInv'
    BY <1>1, <1>2, <1>4, <2>1, <2>2, InnerJourney
  <2> QED  BY <1>1, <1>4, <2>3, JourneyStutters
<1> QED  BY <1>3, <1>4

(* The innermost activation returns what it has recorded a hop for: the    *)
(* journey ends if it is the outermost one.                                *)
LEMMA RecordJourney ==
  ASSUME IInv, HopInv, JourneyInv, stack # << >>, NEW h \in Hop, Record(h),
         NEW o, Return(o), upstreamQueries' = upstreamQueries, Top.pc # "loop",
         h.parent = Top.parent, h.qname = Top.qname,
         \/ h.kind = "error" /\ o.kind # "success"
         \/ /\ h.kind \in {"answer", "nodata"} /\ o.kind = "success"
            /\ Top.pc \in {"udp", "tcp", "resolve"}
  PROVE  JourneyInv' /\ [Journey!Next]_Journey!vars
<1>1. TopLevel(h) <=> Len(stack) = 1
  BY Outermost DEF TopLevel, HopInv
<1>2. TopLevelJourney' = IF TopLevel(h) THEN Append(TopLevelJourney, JourneyHop(h))
                         ELSE TopLevelJourney
  BY JourneyRecorded
<1>3. /\ JourneyInv' /\ ret' = o /\ (stack' = << >> <=> Len(stack) = 1)
      /\ Len(stack) # 1 => [Journey!Next]_Journey!vars
  BY <1>1, <1>2, ReturnJourney
<1>4. CASE Len(stack) = 1
  <2>1. Top = stack[1] /\ FrameInv(Top)
    BY <1>4, TopFacts DEF Top
  <2>2. /\ Len(TopLevelJourney) = Top.depth /\ Journey!Current = Top.qname
        /\ Top.depth < MaxDepth
        /\ Top.pc \in {"udp", "tcp", "resolve"} => Top.depth < upstreamQueries
    BY <2>1 DEF JourneyInv, OuterOK, FrameInv
  <2> DEFINE j == JourneyHop(h)
  <2>3. TopLevelJourney' = Append(TopLevelJourney, j)
    BY <1>1, <1>2, <1>4
  <2>4. j = [qname |-> h.qname, kind |-> h.kind, alias |-> h.alias]
    BY DEF JourneyHop
  <2>5. h.alias \in Names \cup {NoName}
    BY DEF Hop
  <2> HIDE DEF j
  <2>6. \A kinds : h.kind \in kinds => j \in Journey!HopOf(Journey!Current, kinds)
    BY <2>2, <2>4, <2>5 DEF Journey!HopOf
  <2>7. /\ JourneyStatus = "running"
        /\ JourneyStatus' = IF o.kind = "success" THEN "success" ELSE "failure"
    BY <1>3, <1>4 DEF JourneyStatus
  <2>8. CASE h.kind = "error" /\ o.kind # "success"
    <3>1. j \in Journey!HopOf(Journey!Current, {"error"})
      BY <2>6, <2>8
    <3>2. Journey!FailAtHop
      BY <2>2, <2>3, <2>7, <2>8, <3>1 DEF Journey!FailAtHop
    <3> QED  BY <1>3, <3>2 DEF Journey!Next
  <2>9. CASE /\ h.kind \in {"answer", "nodata"} /\ o.kind = "success"
             /\ Top.pc \in {"udp", "tcp", "resolve"}
    <3>1. j \in Journey!HopOf(Journey!Current, {"answer", "nodata"})
      BY <2>6, <2>9
    <3>2. Journey!Succeed
      BY <2>2, <2>3, <2>7, <2>9, <3>1 DEF Journey!Succeed
    <3> QED  BY <1>3, <3>2 DEF Journey!Next
  <2> QED  BY <2>8, <2>9
<1> QED  BY <1>3, <1>4

(* The innermost activation gives up at the head of its loop: the journey  *)
(* hits a guardrail if it is the outermost one.                            *)
LEMMA GiveUpJourney ==
  ASSUME IInv, HopInv, JourneyInv, stack # << >>, NEW o, Return(o),
         UNCHANGED <<hops, upstreamQueries>>, o.kind # "success",
         Top.depth = MaxDepth \/ upstreamQueries = MaxUpstreamQueries
  PROVE  JourneyInv' /\ [Journey!Next]_Journey!vars
<1>1. TopLevelJourney' = TopLevelJourney
  BY JourneyKept
<1>2. /\ JourneyInv' /\ ret' = o /\ (stack' = << >> <=> Len(stack) = 1)
      /\ Len(stack) # 1 => [Journey!Next]_Journey!vars
  BY <1>1, ReturnJourney
<1>3. CASE Len(stack) = 1
  <2>1. Len(TopLevelJourney) = Top.depth
    BY <1>3 DEF Top, JourneyInv, OuterOK
  <2>2. JourneyStatus = "running" /\ JourneyStatus' = "failure"
    BY <1>2, <1>3 DEF JourneyStatus
  <2>3. Journey!HitGuardrail
    BY <1>1, <2>1, <2>2 DEF Journey!HitGuardrail
  <2> QED  BY <1>2, <2>3 DEF Journey!Next
<1> QED  BY <1>2, <1>3

-----------------------------------------------------------------------------
(* Every step of the engine is a step of the journey or is not seen in it. *)

(* A trace begins as a journey that has not begun.                         *)
LEMMA InitJourney == Init => JourneyInv /\ Journey!Init
<1> SUFFICES ASSUME Init PROVE JourneyInv /\ Journey!Init
  OBVIOUS
<1> DEFINE f == Activation(QName, QType, NoParent, "delegation")
<1>1. f.pc = "loop" /\ f.depth = 0 /\ f.qname = QName
  BY DEF Activation
<1>2. stack = <<f>>
  BY DEF Init
<1> HIDE DEF f
<1>3. stack # << >> /\ Len(stack) = 1 /\ stack[1] = f
  BY <1>2
<1>4. TopLevelJourney = << >>
  <2> DEFINE ss == [i \in DOMAIN hops |->
                      IF TopLevel(hops[i]) THEN <<JourneyHop(hops[i])>> ELSE << >>]
  <2>1. ss = << >>
    BY DEF Init
  <2> HIDE DEF ss
  <2>2. FlattenSeq(ss) = << >>
    BY <2>1 DEF FlattenSeq
  <2> QED  BY <2>2 DEF TopLevelJourney, ss
<1>5. upstreamQueries = 0
  BY DEF Init
<1>6. Journey!Init
  BY <1>3, <1>4, <1>5 DEF Journey!Init, JourneyStatus
<1>7. Journey!Current = QName
  BY <1>4 DEF Journey!Current
<1> QED  BY <1>1, <1>3, <1>4, <1>5, <1>6, <1>7 DEF JourneyInv, OuterOK, AsksForName

(* The loop head of the outermost activation is a step of the journey.     *)
LEMMA LoopJourney ==
  ASSUME IInv, HopInv, JourneyInv, DepthExceeded \/ BudgetExceeded \/ StartQuery
  PROVE  JourneyInv' /\ [Journey!Next]_Journey!vars
<1>1. stack # << >> /\ Top.pc = "loop" /\ UNCHANGED <<hops, upstreamQueries>>
  BY DEF DepthExceeded, BudgetExceeded, StartQuery, At
<1>2. Top \in Frame /\ FrameInv(Top) /\ Top.depth \in Nat
  BY <1>1, TopFacts
<1>3. upstreamQueries \in Nat /\ upstreamQueries <= MaxUpstreamQueries
  BY StackShape
<1>4. CASE DepthExceeded \/ BudgetExceeded
  <2>1. PICK rcode \in {"MAX_DEPTH", "BUDGET"} :
          Return([kind |-> "max_depth", rcode |-> rcode, terminal |-> LastHopIndex])
    BY <1>4 DEF DepthExceeded, BudgetExceeded
  <2> DEFINE o == [kind |-> "max_depth", rcode |-> rcode, terminal |-> LastHopIndex]
  <2>2. Return(o) /\ o.kind # "success"
    BY <2>1
  <2> HIDE DEF o
  <2>3. Top.depth = MaxDepth \/ upstreamQueries = MaxUpstreamQueries
    BY <1>2, <1>3, <1>4, EngineAssumption DEF DepthExceeded, BudgetExceeded, FrameInv
  <2> QED  BY <1>1, <2>2, <2>3, GiveUpJourney
<1>5. CASE StartQuery
  <2> DEFINE f == [Top EXCEPT !.pc = "query", !.next = 1, !.timeouts = 0,
                              !.err = "none", !.last = ZeroHop]
  <2>1. SetTop(f)
    BY <1>5 DEF StartQuery
  <2>2. /\ f.pc = "query" /\ f.last = ZeroHop /\ f.qname = Top.qname
        /\ f.depth = Top.depth
    BY <1>2 DEF Frame
  <2> HIDE DEF f
  <2>3. AsksForName(f)
    BY <2>2 DEF AsksForName
  <2>4. upstreamQueries' \in Nat /\ upstreamQueries <= upstreamQueries'
    BY <1>1, <1>3
  <2>5. JourneyInv' /\ stack' # << >> /\ TopLevelJourney' = TopLevelJourney
    BY <1>1, <2>1, <2>2, <2>3, <2>4, ReplaceJourney
  <2> QED  BY <1>1, <2>5, JourneyStutters
<1> QED  BY <1>4, <1>5

(* The candidate loop, except for sending a query.                         *)
LEMMA QueryJourney ==
  ASSUME IInv, HopInv, JourneyInv,
         BudgetExhausted \/ SkipBlocked \/ LoopDetected \/ CandidatesExhausted
  PROVE  JourneyInv' /\ [Journey!Next]_Journey!vars
<1>1. stack # << >> /\ Top.pc = "query" /\ upstreamQueries' = upstreamQueries
  BY DEF BudgetExhausted, SkipBlocked, LoopDetected, CandidatesExhausted, At
<1>2. /\ Top \in Frame /\ FrameInv(Top) /\ Top.last \in Hop /\ AsksForName(Top)
      /\ FrameOK(Top) /\ upstreamQueries \in Nat /\ hops \in Seq(Hop)
  BY <1>1, TopFacts, TopAsks, StackShape
<1>3. CASE SkipBlocked
  <2> DEFINE f == [Top EXCEPT !.next = @ + 1, !.err = "unusable"]
  <2>1. SetTop(f) /\ hops' = hops
    BY <1>3 DEF SkipBlocked
  <2>2. /\ f.pc = "query" /\ f.last = Top.last /\ f.qname = Top.qname
        /\ f.depth = Top.depth
    BY <1>1, <1>2 DEF Frame
  <2> HIDE DEF f
  <2>3. AsksForName(f)
    BY <1>1, <1>2, <2>2 DEF AsksForName
  <2>4. JourneyInv' /\ stack' # << >> /\ TopLevelJourney' = TopLevelJourney
    BY <1>1, <1>2, <2>1, <2>2, <2>3, ReplaceJourney
  <2> QED  BY <1>1, <2>4, JourneyStutters
<1>4. CASE LoopDetected
  <2> DEFINE o == [kind |-> "loop_detected", rcode |-> "LOOP", terminal |-> Len(hops)]
             h == ErrorHop(Top, "LOOP")
  <2>1. o.kind # "success" /\ Return(o) /\ Record(h)
    BY <1>4 DEF LoopDetected
  <2>2. h.kind = "error" /\ h.parent = Top.parent /\ h.qname = Top.qname
    BY DEF ErrorHop
  <2>3. h \in Hop
    <3>1. Top.cands[Top.next] \in IPs
      BY <1>4, EngineAssumption DEF LoopDetected, Candidate
    <3> QED  BY <1>2, <3>1, ErrorHopType DEF HopRcodes
  <2> HIDE DEF o, h
  <2> QED  BY <1>1, <2>1, <2>2, <2>3, RecordJourney
<1>5. CASE BudgetExhausted \/ CandidatesExhausted
  <2>1. PICK o : Return(o) /\ o.kind # "success"
    <3>1. CASE BudgetExhausted
      <4>1. Return([kind |-> "max_depth", rcode |-> "MAX_DEPTH", terminal |-> Top.last.index])
        BY <3>1 DEF BudgetExhausted
      <4> QED  BY <4>1
    <3>2. CASE CandidatesExhausted
      <4>1. PICK err : Return(ErrorOutcome(err, Top.last))
        BY <3>2 DEF CandidatesExhausted
      <4>2. ErrorOutcome(err, Top.last).kind # "success"
        BY ErrorOutcomeFails
      <4> QED  BY <4>1, <4>2
    <3> QED  BY <1>5, <3>1, <3>2
  <2>2. Record(Top.last)
    BY <1>5 DEF BudgetExhausted, CandidatesExhausted
  <2>3. Top.last # ZeroHop
    BY <1>5, LastHopMade
  <2>4. /\ Top.last.kind = "error" /\ Top.last.parent = Top.parent
        /\ Top.last.qname = Top.qname
    BY <1>1, <1>2, <2>3 DEF FrameInv, AsksForName
  <2> QED  BY <1>1, <1>2, <2>1, <2>2, <2>4, RecordJourney
<1> QED  BY <1>3, <1>4, <1>5

(* Sending a query, the only step that spends one.                         *)
LEMMA SendJourney ==
  ASSUME IInv, HopInv, JourneyInv, SendQuery
  PROVE  JourneyInv' /\ [Journey!Next]_Journey!vars
<1> DEFINE f == [Top EXCEPT !.pc = "udp"]
<1>1. /\ stack # << >> /\ Top.pc = "query" /\ SetTop(f) /\ hops' = hops
      /\ upstreamQueries < MaxUpstreamQueries /\ upstreamQueries' = upstreamQueries + 1
  BY DEF SendQuery, At
<1>2. Top \in Frame /\ AsksForName(Top) /\ upstreamQueries \in Nat
  BY <1>1, TopFacts, TopAsks, StackShape
<1>3. /\ f.pc = "udp" /\ f.last = Top.last /\ f.qname = Top.qname
      /\ f.depth = Top.depth
  BY <1>2 DEF Frame
<1> HIDE DEF f
<1>4. AsksForName(f)
  BY <1>1, <1>2, <1>3 DEF AsksForName
<1>5. /\ upstreamQueries' \in Nat /\ upstreamQueries <= upstreamQueries'
      /\ upstreamQueries < upstreamQueries'
  BY <1>1, <1>2
<1>6. JourneyInv' /\ stack' # << >> /\ TopLevelJourney' = TopLevelJourney
  BY <1>1, <1>3, <1>4, <1>5, ReplaceJourney
<1>7. JourneyStatus = "running" /\ JourneyStatus' = "running"
  BY <1>1, <1>6 DEF JourneyStatus
<1>8. Journey!Query
  BY <1>1, <1>6, <1>7 DEF Journey!Query
<1> QED  BY <1>6, <1>8 DEF Journey!Next

(* An exchange that fails, times out or falls back to TCP.                 *)
LEMMA ExchangeJourney ==
  ASSUME IInv, HopInv, JourneyInv,
         ExchangeTimeout \/ ExchangeError \/ \E m \in Messages : TruncatedResponse(m)
  PROVE  JourneyInv' /\ [Journey!Next]_Journey!vars
<1>1. /\ stack # << >> /\ Top.pc \in {"udp", "tcp"}
      /\ UNCHANGED <<hops, upstreamQueries>>
  BY DEF ExchangeTimeout, ExchangeError, TruncatedResponse, Exchanging, At
<1>2. Top \in Frame /\ AsksForName(Top) /\ upstreamQueries \in Nat
  BY <1>1, TopFacts, TopAsks, StackShape
<1>3. PICK f : /\ SetTop(f) /\ f.pc \in {"query", "tcp"}
               /\ f.qname = Top.qname /\ f.depth = Top.depth
               /\ f.last = Top.last \/ f.last.qname = Top.qname
  <2>1. CASE ExchangeTimeout
    <3> DEFINE f == [Top EXCEPT !.pc = "query", !.next = @ + 1, !.timeouts = @ + 1,
                                !.err = "timeout", !.last = ErrorHop(Top, "TIMEOUT")]
    <3>1. /\ f.pc = "query" /\ f.qname = Top.qname /\ f.depth = Top.depth
          /\ f.last.qname = Top.qname
      BY <1>2 DEF Frame, ErrorHop
    <3>2. SetTop(f)
      BY <2>1 DEF ExchangeTimeout
    <3> HIDE DEF f
    <3> QED  BY <3>1, <3>2
  <2>2. CASE ExchangeError
    <3> DEFINE f == [Top EXCEPT !.pc = "query", !.next = @ + 1, !.err = "other",
                                !.last = ErrorHop(Top, "ERROR")]
    <3>1. /\ f.pc = "query" /\ f.qname = Top.qname /\ f.depth = Top.depth
          /\ f.last.qname = Top.qname
      BY <1>2 DEF Frame, ErrorHop
    <3>2. SetTop(f)
      BY <2>2 DEF ExchangeError
    <3> HIDE DEF f
    <3> QED  BY <3>1, <3>2
  <2>3. CASE \E m \in Messages : TruncatedResponse(m)
    <3> DEFINE f == [Top EXCEPT !.pc = "tcp"]
    <3>1. /\ f.pc = "tcp" /\ f.qname = Top.qname /\ f.depth = Top.depth
          /\ f.last = Top.last
      BY <1>2 DEF Frame
    <3>2. SetTop(f)
      BY <2>3 DEF TruncatedResponse
    <3> HIDE DEF f
    <3> QED  BY <3>1, <3>2
  <2> QED  BY <2>1, <2>2, <2>3
<1>4. AsksForName(f)
  BY <1>1, <1>2, <1>3 DEF AsksForName
<1>5. upstreamQueries' \in Nat /\ upstreamQueries <= upstreamQueries'
  BY <1>1, <1>2
<1>6. JourneyInv' /\ stack' # << >> /\ TopLevelJourney' = TopLevelJourney
  BY <1>1, <1>3, <1>4, <1>5, ReplaceJourney
<1> QED  BY <1>1, <1>6, JourneyStutters

(* A response that is not truncated.                                       *)
LEMMA ReceiveJourney ==
  ASSUME IInv, HopInv, JourneyInv, NEW m \in Messages,
         \/ ReceiveRcode(m) \/ ReceiveAlias(m) \/ ReceiveAnswer(m)
         \/ ReceiveReferralWithGlue(m) \/ ReceiveUnusable(m)
         \/ ReceiveReferralWithoutGlue(m)
  PROVE  JourneyInv' /\ [Journey!Next]_Journey!vars
<1>1. Received(m) /\ upstreamQueries' = upstreamQueries
  BY DEF ReceiveRcode, ReceiveAlias, ReceiveAnswer, ReceiveReferralWithGlue,
         ReceiveUnusable, ReceiveReferralWithoutGlue
<1>2. stack # << >> /\ Top.pc \in {"udp", "tcp"}
  BY <1>1 DEF Received, At
<1>3. /\ Top \in Frame /\ FrameOK(Top) /\ upstreamQueries \in Nat /\ m \in Message
      /\ hops \in Seq(Hop)
  BY <1>2, TopFacts, StackShape, EngineAssumption
<1>4. Top.cands[Top.next] \in IPs
  BY <1>2, <1>3 DEF FrameOK, Frame
<1>5. ASSUME NEW kind \in HopKinds
      PROVE  /\ ResponseHop(Top, m, kind) \in Hop
             /\ ResponseHop(Top, m, kind).kind = kind
             /\ ResponseHop(Top, m, kind).parent = Top.parent
             /\ ResponseHop(Top, m, kind).qname = Top.qname
             /\ ResponseHop(Top, m, kind).alias = m.alias
  <2>1. ResponseHop(Top, m, kind) \in Hop
    BY <1>2, <1>3, <1>4, ResponseHopType
  <2> QED  BY <2>1 DEF ResponseHop
<1>6. CASE ReceiveRcode(m) \/ ReceiveUnusable(m)
  <2> DEFINE h == ResponseHop(Top, m, "error")
  <2>1. PICK o : Return(o) /\ (o = RcodeOutcome(h) \/ o = ErrorOutcome("unusable", h))
    BY <1>6 DEF ReceiveRcode, ReceiveUnusable
  <2>2. Record(h)
    BY <1>6 DEF ReceiveRcode, ReceiveUnusable
  <2>3. h \in Hop /\ h.kind = "error" /\ h.parent = Top.parent /\ h.qname = Top.qname
    BY <1>5 DEF HopKinds
  <2> HIDE DEF h
  <2>4. o.kind # "success"
    BY <2>1, RcodeOutcomeFacts, ErrorOutcomeFails
  <2> QED  BY <1>1, <1>2, <2>1, <2>2, <2>3, <2>4, RecordJourney
<1>7. CASE ReceiveAnswer(m)
  <2>1. PICK kind \in {"answer", "nodata"} : Record(ResponseHop(Top, m, kind))
    BY <1>7 DEF ReceiveAnswer
  <2> DEFINE h == ResponseHop(Top, m, kind)
             o == [kind |-> "success", rcode |-> m.rcode, terminal |-> Len(hops)]
  <2>2. o.kind = "success" /\ Return(o)
    BY <1>7 DEF ReceiveAnswer
  <2>3. h \in Hop /\ h.kind = kind /\ h.parent = Top.parent /\ h.qname = Top.qname
    BY <1>5 DEF HopKinds
  <2>4. Record(h)
    BY <2>1
  <2> HIDE DEF h, o
  <2> QED  BY <1>1, <1>2, <2>1, <2>2, <2>3, <2>4, RecordJourney
<1>8. CASE ReceiveAlias(m)
  <2> DEFINE h == ResponseHop(Top, m, "cname")
  <2>1. /\ Record(h) /\ Continue(Top, m.alias, "cname_follow", Roots)
        /\ m.alias # NoName
    BY <1>8 DEF ReceiveAlias
  <2>2. /\ h \in Hop /\ h.kind = "cname" /\ h.parent = Top.parent
        /\ h.qname = Top.qname /\ h.alias = m.alias
    BY <1>5 DEF HopKinds
  <2> HIDE DEF h
  <2> QED  BY <1>1, <1>2, <2>1, <2>2, ContinueJourney
<1>9. CASE ReceiveReferralWithGlue(m)
  <2> DEFINE h == ResponseHop(Top, m, "referral")
  <2>1. Record(h)
    BY <1>9 DEF ReceiveReferralWithGlue
  <2>2. PICK purpose, cands : Continue(Top, Top.qname, purpose, cands)
    BY <1>9 DEF ReceiveReferralWithGlue
  <2>3. h \in Hop /\ h.kind = "referral" /\ h.parent = Top.parent /\ h.qname = Top.qname
    BY <1>5 DEF HopKinds
  <2> HIDE DEF h
  <2> QED  BY <1>1, <1>2, <2>1, <2>2, <2>3, ContinueJourney
<1>10. CASE ReceiveReferralWithoutGlue(m)
  <2> DEFINE h == ResponseHop(Top, m, "referral")
             f == [Top EXCEPT !.pc = "resolve", !.hop = h, !.ns = Distinct(m.ns),
                              !.pos = 1, !.family = "A", !.found = << >>]
  <2>1. SetTop(f) /\ hops' = hops
    BY <1>10 DEF ReceiveReferralWithoutGlue
  <2>2. h.qname = Top.qname
    BY <1>5 DEF HopKinds
  <2> HIDE DEF h
  <2>3. f.pc = "resolve" /\ f.hop = h /\ f.qname = Top.qname /\ f.depth = Top.depth
    BY <1>3 DEF Frame
  <2> HIDE DEF f
  <2>4. AsksForName(f)
    BY <2>2, <2>3 DEF AsksForName
  <2>5. upstreamQueries' \in Nat /\ upstreamQueries <= upstreamQueries'
    BY <1>1, <1>3
  <2>6. JourneyInv' /\ stack' # << >> /\ TopLevelJourney' = TopLevelJourney
    BY <1>2, <2>1, <2>3, <2>4, <2>5, ReplaceJourney
  <2> QED  BY <1>1, <1>2, <2>6, JourneyStutters
<1> QED  BY <1>6, <1>7, <1>8, <1>9, <1>10

(* Support lookups start, return, and lead on or nowhere.                  *)
LEMMA ResolveJourney ==
  ASSUME IInv, HopInv, JourneyInv,
         \/ SupportLookup \/ AddressesFound \/ TryIPv6 \/ NoAddress
         \/ ReferralResolved \/ ReferralUnusable
  PROVE  JourneyInv' /\ [Journey!Next]_Journey!vars
<1>1. stack # << >> /\ upstreamQueries' = upstreamQueries
  BY DEF SupportLookup, AddressesFound, TryIPv6, NoAddress, Returned,
         ReferralResolved, ReferralUnusable, At
<1>2. Top.pc = "resolve"
  BY <1>1 DEF SupportLookup, AddressesFound, TryIPv6, NoAddress, Returned,
         ReferralResolved, ReferralUnusable, At, IInv, StackOK
<1>3. /\ Top \in Frame /\ FrameInv(Top) /\ Top.hop \in Hop /\ AsksForName(Top)
      /\ upstreamQueries \in Nat
  BY <1>1, TopFacts, TopAsks, StackShape
<1>4. /\ Top.hop.kind = "referral" /\ Top.hop.parent = Top.parent
      /\ Top.hop.qname = Top.qname
  BY <1>2, <1>3 DEF FrameInv, AsksForName
<1>5. CASE SupportLookup
  <2> DEFINE f == Activation(Top.ns[Top.pos], Top.family, Top.hop.index, Support)
  <2>1. stack' = Append(stack, f) /\ hops' = hops /\ f.pc = "loop"
    BY <1>5 DEF SupportLookup, Activation
  <2> HIDE DEF f
  <2>2. stack \in Seq(Frame) /\ Len(stack) \in Nat \ {0}
    BY <1>1, StackShape
  <2>3. /\ Len(stack') = Len(stack) + 1 /\ stack' # << >> /\ stack'[1] = stack[1]
        /\ stack'[Len(stack) + 1] = f /\ \A i \in 1..Len(stack) : stack'[i] = stack[i]
    BY <2>1, <2>2
  <2>4. \A i \in 1..Len(stack') : AsksForName(stack'[i])
    <3>1. \A i \in 1..Len(stack') : i \in 1..Len(stack) \/ i = Len(stack) + 1
      BY <2>2, <2>3
    <3>2. AsksForName(f)
      BY <2>1 DEF AsksForName
    <3> QED  BY <2>3, <3>1, <3>2 DEF JourneyInv
  <2>5. stack[1].depth \in Nat /\ TopLevelJourney' = TopLevelJourney
    BY <1>1, <2>1, OuterDepth, JourneyKept
  <2>6. JourneyInv'
    BY <1>1, <1>3, <2>3, <2>4, <2>5, InnerJourney
  <2> QED  BY <1>1, <2>3, <2>5, <2>6, JourneyStutters
<1>6. CASE AddressesFound \/ TryIPv6 \/ NoAddress
  <2>1. PICK pos, family, found :
          SetTop([Top EXCEPT !.pos = pos, !.family = family, !.found = found])
    BY <1>6, ReturnedTop
  <2> DEFINE f == [Top EXCEPT !.pos = pos, !.family = family, !.found = found]
  <2>2. SetTop(f) /\ hops' = hops
    BY <1>6, <2>1 DEF AddressesFound, TryIPv6, NoAddress
  <2>3. /\ f.pc = "resolve" /\ f.hop = Top.hop /\ f.qname = Top.qname
        /\ f.depth = Top.depth
    BY <1>2, <1>3 DEF Frame
  <2> HIDE DEF f
  <2>4. AsksForName(f)
    BY <1>4, <2>3 DEF AsksForName
  <2>5. upstreamQueries' \in Nat /\ upstreamQueries <= upstreamQueries'
    BY <1>1, <1>3
  <2>6. JourneyInv' /\ stack' # << >> /\ TopLevelJourney' = TopLevelJourney
    BY <1>1, <1>2, <2>2, <2>3, <2>4, <2>5, ReplaceJourney
  <2> QED  BY <1>1, <2>6, JourneyStutters
<1>7. CASE ReferralResolved
  <2>1. /\ Record(Top.hop)
        /\ Continue(Top, Top.qname, ContinuePurpose(Top), Top.found)
    BY <1>7 DEF ReferralResolved
  <2> QED  BY <1>1, <1>2, <1>3, <1>4, <2>1, ContinueJourney
<1>8. CASE ReferralUnusable
  <2> DEFINE h == [Top.hop EXCEPT !.kind = "error"]
             o == ErrorOutcome("unusable", Top.hop)
  <2>1. Record(h) /\ Return(o)
    BY <1>8 DEF ReferralUnusable
  <2>2. /\ h \in Hop /\ h.kind = "error" /\ h.parent = Top.parent /\ h.qname = Top.qname
    BY <1>3, <1>4 DEF Hop, HopKinds
  <2>3. o.kind # "success"
    BY ErrorOutcomeFails
  <2> HIDE DEF h, o
  <2> QED  BY <1>1, <1>2, <2>1, <2>2, <2>3, RecordJourney
<1> QED  BY <1>5, <1>6, <1>7, <1>8

(* The steps that leave the activations alone are not seen in the journey. *)
LEMMA OutsideJourney ==
  ASSUME JourneyInv, Finish \/ ContextDone \/ UNCHANGED vars
  PROVE  JourneyInv' /\ [Journey!Next]_Journey!vars
<1>1. UNCHANGED <<stack, ret, hops, upstreamQueries>>
  BY DEF Finish, ContextDone, DeadlinePasses, ClientGone, vars
<1>2. TopLevelJourney' = TopLevelJourney
  BY <1>1, JourneyKept
<1>3. UNCHANGED Journey!vars
  BY <1>1, <1>2 DEF Journey!vars, JourneyStatus
<1>4. Journey!Current' = Journey!Current
  BY <1>2 DEF Journey!Current
<1>5. JourneyInv'
  BY <1>1, <1>2, <1>4 DEF JourneyInv, OuterOK, AsksForName
<1> QED  BY <1>3, <1>5

(* Every step of the engine is a step of the journey or leaves it as it is. *)
LEMMA NextJourney ==
  IInv /\ HopInv /\ JourneyInv /\ [Next]_vars => JourneyInv' /\ [Journey!Next]_Journey!vars
<1> SUFFICES ASSUME IInv, HopInv, JourneyInv, [Next]_vars
             PROVE  JourneyInv' /\ [Journey!Next]_Journey!vars
  OBVIOUS
<1>1. CASE DepthExceeded \/ BudgetExceeded \/ StartQuery
  BY <1>1, LoopJourney
<1>2. CASE BudgetExhausted \/ SkipBlocked \/ LoopDetected \/ CandidatesExhausted
  BY <1>2, QueryJourney
<1>3. CASE SendQuery
  BY <1>3, SendJourney
<1>4. CASE ExchangeTimeout \/ ExchangeError
  BY <1>4, ExchangeJourney
<1>5. CASE \E m \in Messages : Receive(m)
  <2>1. PICK m \in Messages : Receive(m)
    BY <1>5
  <2>2. CASE TruncatedResponse(m)
    BY <2>2, ExchangeJourney
  <2>3. CASE \/ ReceiveRcode(m) \/ ReceiveAlias(m) \/ ReceiveAnswer(m)
             \/ ReceiveReferralWithGlue(m) \/ ReceiveUnusable(m)
             \/ ReceiveReferralWithoutGlue(m)
    BY <2>3, ReceiveJourney
  <2> QED  BY <2>1, <2>2, <2>3 DEF Receive
<1>6. CASE \/ SupportLookup \/ AddressesFound \/ TryIPv6 \/ NoAddress
           \/ ReferralResolved \/ ReferralUnusable
  BY <1>6, ResolveJourney
<1>7. CASE Finish \/ ContextDone \/ UNCHANGED vars
  BY <1>7, OutsideJourney
<1> QED
  BY <1>1, <1>2, <1>3, <1>4, <1>5, <1>6, <1>7 DEF Next, Step, Done

(* A trace is one journey: each top-level hop traceName records asks for   *)
(* the name the one before it led to and has cost a query, the guardrails  *)
(* hold, and the journey ends once, with success only at an answer or      *)
(* NODATA.  The support lookups, however deep, are never seen in it.       *)
THEOREM JourneyRefinement == Spec => ImplementsJourney
<1>1. Spec => [](IInv /\ HopInv)
  BY Invariance, HopInvariance, PTL
<1> QED
  BY <1>1, InitJourney, NextJourney, PTL DEF Spec, ImplementsJourney, Journey!Spec
=============================================================================
