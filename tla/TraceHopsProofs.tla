--------------------------- MODULE TraceHopsProofs ---------------------------
(***************************************************************************)
(* Theorems about the hops a trace shows and the outcome it reports, for   *)
(* every set of servers, names and responses and every guardrail.          *)
(***************************************************************************)
EXTENDS TraceEngineProofs

(* A question that a recorded hop stands for; a LOOP hop only repeats one. *)
Shown(k) == \E i \in DOMAIN hops : HopKey(hops[i]) = k /\ hops[i].rcode # "LOOP"

(* A question that was put and whose hop activation f may still record:    *)
(* that of the referral it resolves, of its last error or of its exchange. *)
Holds(f, k) ==
  \/ f.pc = "resolve" /\ k = HopKey(f.hop)
  \/ f.pc \in {"query", "udp", "tcp"} /\ f.last # ZeroHop /\ k = HopKey(f.last)
  \/ f.pc \in {"udp", "tcp"} /\ k = Key(f)

NoClash(f) ==
  f.pc \in {"udp", "tcp"} /\ f.last # ZeroHop => HopKey(f.last) # Key(f)

(* A question is shown, or held by one activation, or neither.             *)
QuestionsInv ==
  /\ NoFabricatedHops
  /\ \A i \in 1..Len(stack) : \A k : Holds(stack[i], k) => k \in visited /\ ~Shown(k)
  /\ \A i, j \in 1..Len(stack) : \A k : Holds(stack[i], k) /\ Holds(stack[j], k) => i = j
  /\ \A i \in 1..Len(stack) : NoClash(stack[i])

(* What an activation knows of itself.  In the candidate loop, no last     *)
(* error means that every candidate so far was blocked.                    *)
FrameInv(f) ==
  /\ f.last # ZeroHop => f.last.kind = "error" /\ f.last.parent = f.parent
  /\ f.pc = "resolve" => f.hop.parent = f.parent /\ f.hop.kind = "referral"
  /\ f.pc \in {"query", "udp", "tcp"} =>
       /\ f.next <= Len(f.cands) + 1
       /\ f.last = ZeroHop => \A j \in 1..(f.next - 1) : f.cands[j] \notin Allowed
       /\ f.err = "timeout" => f.last.rcode = "TIMEOUT"
       /\ f.timeouts < f.next
       /\ f.timeouts = f.next - 1 /\ f.next > 1 => f.err = "timeout"
  /\ f.depth <= MaxDepth /\ (f.pc # "loop" => f.depth < MaxDepth)

TopLevelPlaces == {i \in DOMAIN hops : TopLevel(hops[i])}

(* The outermost activation has recorded as many top-level hops as it went *)
(* round; every other one is the child of the referral below it; one that  *)
(* goes round again has recorded the last hop.                             *)
StackInv ==
  /\ \A i \in 1..Len(stack) : FrameInv(stack[i])
  /\ stack # << >> => stack[1].parent = NoParent /\ Cardinality(TopLevelPlaces) = stack[1].depth
  /\ \A i \in 2..Len(stack) : stack[i].parent = stack[i - 1].hop.index
  /\ stack # << >> /\ Top.pc = "loop" =>
       /\ Top.depth > 0 => /\ hops # << >> /\ Last(hops).parent = Top.parent
                           /\ Last(hops).kind \in {"cname", "referral"}
       /\ Top.depth = 0 /\ Len(stack) = 1 => upstreamQueries = 0
  /\ stack # << >> /\ Top.pc = "query" /\ Top.last = ZeroHop =>
       upstreamQueries < MaxUpstreamQueries

(* The referral of a support hop is recorded after it or still held.       *)
Covered ==
  \A i \in DOMAIN hops : hops[i].parent # NoParent =>
    \/ \E j \in i + 1 .. Len(hops) :
         hops[j].index = hops[i].parent /\ hops[j].kind \in {"referral", "error"}
    \/ \E s \in 1..Len(stack) : stack[s].pc = "resolve" /\ stack[s].hop.index = hops[i].parent

(* o describes the last hop, and a guardrail is spent.                     *)
Describes(o) ==
  /\ hops # << >> /\ Last(hops).parent = NoParent
  /\ o.terminal = Last(hops).index
  /\ (o.kind = "success") <=> (Last(hops).kind \in {"answer", "nodata"})
  /\ o.kind # "max_depth" => o.rcode = Last(hops).rcode
  /\ o.kind = "max_depth" =>
       \/ upstreamQueries = MaxUpstreamQueries
       \/ Cardinality(TopLevelPlaces) = MaxDepth

Ended ==
  /\ stack = << >> => Describes(ret)
  /\ result # NoResult =>
       /\ stack = << >> /\ result.outcome = ret
       /\ (result.status = "success") <=> (ret.kind = "success")

HopInv == QuestionsInv /\ StackInv /\ Covered /\ Ended

-----------------------------------------------------------------------------
(* The innermost activation and the hops.                                  *)

(* The stack is a sequence of frames, the hops a sequence of hops.         *)
LEMMA StackShape ==
  ASSUME IInv
  PROVE  /\ stack \in Seq(Frame) /\ Len(stack) \in Nat /\ hops \in Seq(Hop)
         /\ Len(hops) \in Nat /\ DOMAIN hops = 1..Len(hops)
         /\ upstreamQueries \in Nat /\ upstreamQueries <= MaxUpstreamQueries
         /\ \A i \in 1..Len(stack) : stack[i] \in Frame
         /\ \A i \in 1..Len(hops) : hops[i] \in Hop
BY DEF IInv, TypeOK, QueryBudget

(* Positions in a stack of more than one activation.                       *)
LEMMA AtLeastTwo ==
  ASSUME NEW n \in Nat \ {0}, n # 1
  PROVE  /\ n >= 2 /\ n \in 2..n /\ n - 1 \in 1..n
         /\ 1 \in 1..(n - 1) /\ n - 1 \in 1..(n - 1)
  OBVIOUS

(* An activation is the outermost one exactly when it has no parent.       *)
LEMMA Outermost ==
  ASSUME IInv, StackInv, stack # << >>
  PROVE  Len(stack) = 1 <=> Top.parent = NoParent
<1>1. /\ stack \in Seq(Frame) /\ Len(stack) \in Nat \ {0}
      /\ \A i \in 1..Len(stack) : stack[i] \in Frame
  BY StackShape
<1>2. CASE Len(stack) = 1
  BY <1>2 DEF StackInv, Top
<1>3. CASE Len(stack) # 1
  <2>1. Len(stack) \in 2..Len(stack) /\ Len(stack) - 1 \in 1..Len(stack)
    BY <1>1, <1>3, AtLeastTwo, Zenon
  <2>2. Top.parent = stack[Len(stack) - 1].hop.index
    BY <2>1 DEF StackInv, Top
  <2>3. stack[Len(stack) - 1].hop \in Hop
    BY <1>1, <2>1 DEF Frame
  <2>4. stack[Len(stack) - 1].hop.index \in Nat
    BY <2>3 DEF Hop
  <2> QED  BY <1>3, <2>2, <2>4 DEF NoParent
<1> QED  BY <1>2, <1>3

(* One more hop: the last one, top-level or not.                           *)
LEMMA Recorded ==
  ASSUME IInv, NEW h \in Hop, Record(h)
  PROVE  /\ hops' \in Seq(Hop) /\ Len(hops') = Len(hops) + 1 /\ hops' # << >>
         /\ DOMAIN hops' = 1..(Len(hops) + 1)
         /\ \A i \in 1..Len(hops) : hops'[i] = hops[i]
         /\ hops'[Len(hops) + 1] = h /\ Last(hops)' = h
         /\ Cardinality(TopLevelPlaces) \in Nat
         /\ Cardinality(TopLevelPlaces') =
              IF TopLevel(h) THEN Cardinality(TopLevelPlaces) + 1
              ELSE Cardinality(TopLevelPlaces)
<1>1. hops \in Seq(Hop) /\ Len(hops) \in Nat /\ DOMAIN hops = 1..Len(hops)
  BY StackShape
<1>2. /\ hops' \in Seq(Hop) /\ Len(hops') = Len(hops) + 1 /\ hops' # << >>
      /\ DOMAIN hops' = 1..(Len(hops) + 1)
      /\ \A i \in 1..Len(hops) : hops'[i] = hops[i]
      /\ hops'[Len(hops) + 1] = h
  BY <1>1 DEF Record
<1>3. Last(hops)' = h
  BY <1>2 DEF Last
<1>4. IsFiniteSet(TopLevelPlaces)
  <2>1. TopLevelPlaces \in SUBSET (1..Len(hops)) /\ IsFiniteSet(1..Len(hops))
    BY <1>1, FS_Interval DEF TopLevelPlaces
  <2> QED  BY <2>1, FS_Subset
<1>5. Len(hops) + 1 \notin TopLevelPlaces
  BY <1>1 DEF TopLevelPlaces
<1>6. TopLevelPlaces' = IF TopLevel(h) THEN TopLevelPlaces \cup {Len(hops) + 1}
                        ELSE TopLevelPlaces
  BY <1>1, <1>2 DEF TopLevelPlaces, TopLevel
<1>7. /\ Cardinality(TopLevelPlaces) \in Nat
      /\ Cardinality(TopLevelPlaces \cup {Len(hops) + 1}) = Cardinality(TopLevelPlaces) + 1
  BY <1>4, <1>5, FS_CardinalityType, FS_AddElement
<1> QED  BY <1>2, <1>3, <1>6, <1>7

(* The stack after the innermost activation changes, returns or calls.     *)
LEMMA TopReplaced ==
  ASSUME IInv, stack # << >>, NEW f, SetTop(f)
  PROVE  /\ Len(stack') = Len(stack) /\ Len(stack) \in Nat \ {0} /\ stack' # << >>
         /\ stack'[Len(stack)] = f /\ Top' = f
         /\ \A i \in 1..(Len(stack) - 1) : stack'[i] = stack[i]
<1>1. stack \in Seq(Frame) /\ Len(stack) \in Nat \ {0}
  BY StackShape
<1>2. stack \in Seq(Frame \cup {f})
  BY <1>1
<1> QED  BY <1>1, <1>2 DEF SetTop, Top

(* Returning from an activation leaves a shorter stack.                    *)
LEMMA TopReturned ==
  ASSUME IInv, stack # << >>, NEW o, Return(o)
  PROVE  /\ Len(stack') = Len(stack) - 1 /\ Len(stack) \in Nat \ {0} /\ ret' = o
         /\ stack' \in Seq(Frame)
         /\ stack' = << >> <=> Len(stack) = 1
         /\ \A i \in 1..(Len(stack) - 1) : stack'[i] = stack[i] /\ stack[i].pc = "resolve"
<1>1. stack \in Seq(Frame) /\ Len(stack) \in Nat \ {0}
  BY StackShape
<1>2. \A i \in 1..(Len(stack) - 1) : stack[i].pc = "resolve"
  BY DEF IInv, StackOK
<1>3. stack' = Front(stack) /\ ret' = o
  BY DEF Return
<1>4. /\ stack' \in Seq(Frame) /\ Len(stack') = Len(stack) - 1
      /\ \A i \in 1..(Len(stack) - 1) : stack'[i] = stack[i]
  BY <1>1, <1>3, FrontType
<1>5. stack' = << >> <=> Len(stack') = 0
  BY <1>4
<1> QED  BY <1>1, <1>2, <1>3, <1>4, <1>5

-----------------------------------------------------------------------------
(* Questions.                                                              *)

(* A step that records nothing: the innermost activation holds what it     *)
(* held, or a question that has just been put.                             *)
LEMMA ReplaceQuestions ==
  ASSUME IInv, QuestionsInv, stack # << >>, NEW f, SetTop(f), NoClash(f),
         hops' = hops, visited \subseteq visited',
         \A k : Holds(f, k) => Holds(Top, k) \/ (k \in visited' /\ k \notin visited)
  PROVE  QuestionsInv'
<1>1. /\ Len(stack') = Len(stack) /\ Len(stack) \in Nat \ {0} /\ stack'[Len(stack)] = f
      /\ \A i \in 1..(Len(stack) - 1) : stack'[i] = stack[i]
  BY TopReplaced
<1>2. \A k : Shown(k)' <=> Shown(k)
  BY DEF Shown, HopKey
<1>3. \A k : Shown(k) => k \in visited
  BY DEF QuestionsInv, NoFabricatedHops, Shown
<1>4. NoFabricatedHops'
  BY DEF QuestionsInv, NoFabricatedHops, HopKey
<1>5. \A i \in 1..Len(stack) : \A k :
        Holds(stack'[i], k) =>
          \/ Holds(stack[i], k)
          \/ i = Len(stack) /\ k \in visited' /\ k \notin visited
  BY <1>1 DEF Top
<1>6. \A i \in 1..Len(stack) : \A k : Holds(stack[i], k) => k \in visited /\ ~Shown(k)
  BY DEF QuestionsInv
<1>7. \A i \in 1..Len(stack') : \A k : Holds(stack'[i], k) => k \in visited' /\ ~Shown(k)
  BY <1>1, <1>3, <1>5, <1>6
<1>8. ASSUME NEW i \in 1..Len(stack), NEW j \in 1..Len(stack), NEW k,
             Holds(stack'[i], k), Holds(stack'[j], k)
      PROVE  i = j
  BY <1>5, <1>6, <1>8 DEF QuestionsInv
<1>9. \A i \in 1..Len(stack) : NoClash(stack'[i])
  BY <1>1 DEF QuestionsInv
<1>10. \A i \in 1..Len(stack') : \A k : Holds(stack[i], k)' <=> Holds(stack'[i], k)
  BY DEF Holds, HopKey, Key
<1>11. \A i \in 1..Len(stack') : NoClash(stack[i])' <=> NoClash(stack'[i])
  BY DEF NoClash, HopKey, Key
<1> QED  BY <1>1, <1>2, <1>4, <1>7, <1>8, <1>9, <1>10, <1>11 DEF QuestionsInv

(* A step that records nothing: every activation that holds anything was   *)
(* there before.                                                           *)
LEMMA QuietQuestions ==
  ASSUME IInv, QuestionsInv, hops' = hops, visited' = visited,
         \A i \in 1..Len(stack') :
           (i \in 1..Len(stack) /\ stack'[i] = stack[i]) \/ stack'[i].pc = "loop"
  PROVE  QuestionsInv'
<1>1. \A k : Shown(k)' <=> Shown(k)
  BY DEF Shown, HopKey
<1>2. NoFabricatedHops'
  BY DEF QuestionsInv, NoFabricatedHops, HopKey
<1>3. \A i \in 1..Len(stack') : \A k :
        Holds(stack[i], k)' => i \in 1..Len(stack) /\ Holds(stack[i], k)
  BY DEF Holds, HopKey, Key
<1>4. \A i \in 1..Len(stack') : NoClash(stack[i])'
  BY DEF QuestionsInv, NoClash, HopKey, Key
<1> QED  BY <1>1, <1>2, <1>3, <1>4 DEF QuestionsInv

(* A step that records a hop: the question the innermost activation held   *)
(* for it, or, by a LOOP hop, one that was put before.                     *)
LEMMA RecordQuestions ==
  ASSUME IInv, QuestionsInv, stack # << >>, NEW h \in Hop, Record(h), visited' = visited,
         HopKey(h) \in visited, Holds(Top, HopKey(h)) \/ h.rcode = "LOOP",
         \A i \in 1..Len(stack') :
           (i \in 1..(Len(stack) - 1) /\ stack'[i] = stack[i]) \/ stack'[i].pc = "loop"
  PROVE  QuestionsInv'
<1>1. /\ Len(hops') = Len(hops) + 1 /\ DOMAIN hops' = 1..(Len(hops) + 1)
      /\ \A i \in 1..Len(hops) : hops'[i] = hops[i]
      /\ hops'[Len(hops) + 1] = h
  BY Recorded
<1>2. /\ Len(hops) \in Nat /\ DOMAIN hops = 1..Len(hops) /\ Len(stack) \in Nat \ {0}
  BY StackShape
<1>3. \A k : Shown(k)' => Shown(k) \/ (h.rcode # "LOOP" /\ k = HopKey(h))
  BY <1>1, <1>2 DEF Shown, HopKey
<1>4. h.rcode = "LOOP" \/ ~Shown(HopKey(h))
  BY <1>2 DEF QuestionsInv, Top
<1>5. NoFabricatedHops'
  <2>1. \A i \in 1..(Len(hops) + 1) : HopKey(hops'[i]) \in visited
    BY <1>1, <1>2 DEF QuestionsInv, NoFabricatedHops
  <2>2. ASSUME NEW i \in 1..(Len(hops) + 1), NEW j \in 1..(Len(hops) + 1), i < j,
               HopKey(hops'[i]) = HopKey(hops'[j])
        PROVE  "LOOP" \in {hops'[i].rcode, hops'[j].rcode}
    <3>1. i \in 1..Len(hops) /\ hops'[i] = hops[i]
      BY <1>1, <1>2, <2>2
    <3>2. CASE j = Len(hops) + 1
      BY <1>1, <1>2, <1>4, <2>2, <3>1, <3>2 DEF Shown
    <3>3. CASE j # Len(hops) + 1
      <4>1. j \in 1..Len(hops)
        BY <1>2, <3>3
      <4> QED  BY <1>1, <1>2, <2>2, <3>1, <4>1 DEF QuestionsInv, NoFabricatedHops
    <3> QED  BY <3>2, <3>3
  <2> QED  BY <1>1, <2>1, <2>2 DEF NoFabricatedHops, HopKey
<1>6. \A i \in 1..Len(stack') : \A k :
        Holds(stack[i], k)' => i \in 1..(Len(stack) - 1) /\ Holds(stack[i], k)
  BY DEF Holds, HopKey, Key
<1>7. \A i \in 1..(Len(stack) - 1) : \A k :
        Holds(stack[i], k) => /\ k \in visited /\ ~Shown(k)
                              /\ h.rcode = "LOOP" \/ k # HopKey(h)
  <2> SUFFICES ASSUME NEW i \in 1..(Len(stack) - 1), NEW k, Holds(stack[i], k)
               PROVE  k \in visited /\ ~Shown(k) /\ (h.rcode = "LOOP" \/ k # HopKey(h))
    OBVIOUS
  <2>1. i \in 1..Len(stack) /\ Len(stack) \in 1..Len(stack) /\ i # Len(stack)
    BY <1>2
  <2> QED  BY <2>1 DEF QuestionsInv, Top
<1>8. \A i \in 1..Len(stack') : \A k : Holds(stack[i], k)' => k \in visited /\ ~Shown(k)'
  BY <1>3, <1>6, <1>7
<1>9. \A i, j \in 1..Len(stack') : \A k :
        Holds(stack[i], k)' /\ Holds(stack[j], k)' => i = j
  <2>1. \A i \in 1..(Len(stack) - 1) : i \in 1..Len(stack)
    BY <1>2
  <2> QED  BY <1>6, <2>1 DEF QuestionsInv
<1>10. \A i \in 1..Len(stack') : NoClash(stack[i])'
  <2>1. \A i \in 1..(Len(stack) - 1) : i \in 1..Len(stack)
    BY <1>2
  <2> QED  BY <2>1 DEF QuestionsInv, NoClash, HopKey, Key
<1> QED  BY <1>5, <1>8, <1>9, <1>10 DEF QuestionsInv

-----------------------------------------------------------------------------
(* The stack and the hops.                                                 *)

(* The innermost activation goes on without recording.                     *)
LEMMA ReplaceStack ==
  ASSUME IInv, StackInv, stack # << >>, NEW f, SetTop(f), hops' = hops,
         FrameInv(f), f.pc # "loop", f.parent = Top.parent, f.depth = Top.depth,
         f.pc = "query" /\ f.last = ZeroHop => upstreamQueries' < MaxUpstreamQueries
  PROVE  StackInv'
<1>1. /\ Len(stack') = Len(stack) /\ Len(stack) \in Nat \ {0} /\ stack' # << >>
      /\ stack'[Len(stack)] = f /\ Top' = f
      /\ \A i \in 1..(Len(stack) - 1) : stack'[i] = stack[i]
  BY TopReplaced
<1>2. \A i \in 1..Len(stack) : FrameInv(stack'[i])
  BY <1>1 DEF StackInv
<1>3. \A i \in 1..Len(stack') : FrameInv(stack[i])' <=> FrameInv(stack'[i])
  BY DEF FrameInv
<1>4. stack'[1].parent = NoParent /\ Cardinality(TopLevelPlaces)' = stack'[1].depth
  <2>1. Cardinality(TopLevelPlaces)' = Cardinality(TopLevelPlaces)
    BY DEF TopLevelPlaces, TopLevel
  <2>2. stack[1].parent = NoParent /\ Cardinality(TopLevelPlaces) = stack[1].depth
    BY DEF StackInv
  <2>3. stack'[1].parent = stack[1].parent /\ stack'[1].depth = stack[1].depth
    BY <1>1 DEF Top
  <2> QED  BY <2>1, <2>2, <2>3
<1>5. ASSUME NEW i \in 2..Len(stack)  PROVE stack'[i].parent = stack'[i - 1].hop.index
  <2>1. i - 1 \in 1..(Len(stack) - 1)
    BY <1>1
  <2>2. stack'[i].parent = stack[i].parent
    BY <1>1 DEF Top
  <2> QED  BY <1>1, <2>1, <2>2 DEF StackInv
<1> QED  BY <1>1, <1>2, <1>3, <1>4, <1>5 DEF StackInv

(* The innermost activation records a hop and goes round again.            *)
LEMMA ContinueStack ==
  ASSUME IInv, StackInv, stack # << >>, NEW h \in Hop, Record(h), Top.pc # "loop",
         h.parent = Top.parent, h.kind \in {"cname", "referral"},
         NEW qname, NEW purpose, NEW cands, Continue(Top, qname, purpose, cands)
  PROVE  StackInv'
<1> DEFINE f == [Top EXCEPT !.pc = "loop", !.depth = Top.depth + 1, !.qname = qname,
                            !.purpose = purpose, !.cands = cands]
<1>1. Top \in Frame /\ Len(stack) \in Nat \ {0} /\ stack \in Seq(Frame)
  BY TopType, StackShape DEF IInv
<1>2. /\ f.pc = "loop" /\ f.depth = Top.depth + 1 /\ f.parent = Top.parent
      /\ f.last = Top.last /\ f.hop = Top.hop /\ Top.depth \in Nat
  BY <1>1 DEF Frame
<1>3. SetTop(f)
  BY DEF Continue
<1> HIDE DEF f
<1>4. /\ Len(stack') = Len(stack) /\ stack' # << >>
      /\ stack'[Len(stack)] = f /\ Top' = f
      /\ \A i \in 1..(Len(stack) - 1) : stack'[i] = stack[i]
  BY <1>1, <1>3 DEF SetTop, Top
<1>5. /\ hops' # << >> /\ Last(hops)' = h
      /\ Cardinality(TopLevelPlaces) \in Nat
      /\ Cardinality(TopLevelPlaces') = IF TopLevel(h) THEN Cardinality(TopLevelPlaces) + 1
                                        ELSE Cardinality(TopLevelPlaces)
  BY Recorded
<1>6. FrameInv(Top)
  BY <1>1 DEF StackInv, Top
<1>7. FrameInv(f)
  <2>1. f.depth <= MaxDepth
    BY <1>2, <1>6, EngineAssumption DEF FrameInv
  <2> QED  BY <1>2, <1>6, <2>1 DEF FrameInv
<1>8. \A i \in 1..Len(stack) : FrameInv(stack'[i])
  BY <1>1, <1>4, <1>7 DEF StackInv
<1>9. \A i \in 1..Len(stack') : FrameInv(stack[i])' <=> FrameInv(stack'[i])
  BY DEF FrameInv
<1>10. stack'[1].parent = NoParent /\ Cardinality(TopLevelPlaces)' = stack'[1].depth
  <2>1. stack[1].parent = NoParent /\ Cardinality(TopLevelPlaces) = stack[1].depth
    BY DEF StackInv
  <2>2. Len(stack) = 1 <=> TopLevel(h)
    BY Outermost DEF TopLevel
  <2>3. CASE Len(stack) = 1
    BY <1>2, <1>4, <1>5, <2>1, <2>2, <2>3 DEF Top
  <2>4. CASE Len(stack) # 1
    <3>1. 1 \in 1..(Len(stack) - 1)
      BY <1>1, <2>4, AtLeastTwo, Zenon
    <3> QED  BY <1>4, <1>5, <2>1, <2>2, <2>4, <3>1
  <2> QED  BY <2>3, <2>4
<1>11. ASSUME NEW i \in 2..Len(stack)  PROVE stack'[i].parent = stack'[i - 1].hop.index
  <2>1. i - 1 \in 1..(Len(stack) - 1)
    BY <1>1
  <2>2. stack'[i].parent = stack[i].parent
    BY <1>1, <1>2, <1>4 DEF Top
  <2> QED  BY <1>4, <2>1, <2>2 DEF StackInv
<1>12. f.depth # 0
  BY <1>2
<1> QED  BY <1>2, <1>4, <1>5, <1>8, <1>9, <1>10, <1>11, <1>12 DEF StackInv

(* The innermost activation returns; a hop it has recorded is no top-level *)
(* one unless it was the outermost.                                        *)
LEMMA ReturnStack ==
  ASSUME IInv, StackInv, stack # << >>, NEW o, Return(o),
         \/ hops' = hops
         \/ \E h \in Hop : Record(h) /\ h.parent = Top.parent
  PROVE  StackInv'
<1>1. /\ Len(stack') = Len(stack) - 1 /\ Len(stack) \in Nat \ {0} /\ ret' = o
      /\ stack' \in Seq(Frame)
      /\ stack' = << >> <=> Len(stack) = 1
      /\ \A i \in 1..(Len(stack) - 1) : stack'[i] = stack[i] /\ stack[i].pc = "resolve"
  BY TopReturned
<1>2. \A i \in 1..Len(stack') : FrameInv(stack[i])'
  <2>1. \A i \in 1..Len(stack') : FrameInv(stack'[i])
    BY <1>1 DEF StackInv
  <2> QED  BY <2>1 DEF FrameInv
<1>3. ASSUME Len(stack) # 1
      PROVE  stack'[1].parent = NoParent /\ Cardinality(TopLevelPlaces)' = stack'[1].depth
  <2>1. stack[1].parent = NoParent /\ Cardinality(TopLevelPlaces) = stack[1].depth
    BY DEF StackInv
  <2>2. Cardinality(TopLevelPlaces)' = Cardinality(TopLevelPlaces)
    <3>1. CASE hops' = hops
      BY <3>1 DEF TopLevelPlaces, TopLevel
    <3>2. CASE hops' # hops
      <4>1. PICK h \in Hop : Record(h) /\ h.parent = Top.parent
        BY <3>2
      <4>2. ~TopLevel(h)
        BY <1>3, <4>1, Outermost DEF TopLevel
      <4> QED  BY <4>1, <4>2, Recorded
    <3> QED  BY <3>1, <3>2
  <2>3. stack'[1] = stack[1]
    BY <1>1, <1>3
  <2> QED  BY <2>1, <2>2, <2>3
<1>4. ASSUME NEW i \in 2..Len(stack')  PROVE stack'[i].parent = stack'[i - 1].hop.index
  <2>1. i \in 1..(Len(stack) - 1) /\ i - 1 \in 1..(Len(stack) - 1) /\ i \in 2..Len(stack)
    BY <1>1
  <2> QED  BY <1>1, <2>1 DEF StackInv
<1>5. stack' # << >> => Top'.pc = "resolve"
  BY <1>1 DEF Top
<1> QED  BY <1>1, <1>2, <1>3, <1>4, <1>5 DEF StackInv

-----------------------------------------------------------------------------
(* Support hops and their referrals.                                       *)

(* No hop is recorded, and every referral that was held still is.          *)
LEMMA CoveredKept ==
  ASSUME Covered, hops' = hops,
         \A s \in 1..Len(stack) : stack[s].pc = "resolve" =>
           \E t \in 1..Len(stack') :
             stack'[t].pc = "resolve" /\ stack'[t].hop.index = stack[s].hop.index
  PROVE  Covered'
<1> SUFFICES ASSUME NEW i \in DOMAIN hops, hops[i].parent # NoParent
             PROVE  \/ \E j \in i + 1 .. Len(hops) :
                         /\ hops[j].index = hops[i].parent
                         /\ hops[j].kind \in {"referral", "error"}
                    \/ \E t \in 1..Len(stack') :
                         stack'[t].pc = "resolve" /\ stack'[t].hop.index = hops[i].parent
  BY DEF Covered
<1> QED  BY DEF Covered

(* A hop is recorded whose referral, if it is a support hop, is held; a    *)
(* referral that is held no more is the hop recorded.                      *)
LEMMA CoveredRecorded ==
  ASSUME IInv, Covered, NEW h \in Hop, Record(h),
         h.parent # NoParent =>
           \E t \in 1..Len(stack') :
             stack'[t].pc = "resolve" /\ stack'[t].hop.index = h.parent,
         \A s \in 1..Len(stack) : stack[s].pc = "resolve" =>
           \/ \E t \in 1..Len(stack') :
                stack'[t].pc = "resolve" /\ stack'[t].hop.index = stack[s].hop.index
           \/ h.index = stack[s].hop.index /\ h.kind \in {"referral", "error"}
  PROVE  Covered'
<1>1. /\ Len(hops') = Len(hops) + 1 /\ DOMAIN hops' = 1..(Len(hops) + 1)
      /\ \A i \in 1..Len(hops) : hops'[i] = hops[i]
      /\ hops'[Len(hops) + 1] = h
  BY Recorded
<1>2. Len(hops) \in Nat /\ DOMAIN hops = 1..Len(hops)
  BY StackShape
<1> SUFFICES ASSUME NEW i \in 1..(Len(hops) + 1), hops'[i].parent # NoParent
             PROVE  \/ \E j \in i + 1 .. Len(hops) + 1 :
                         /\ hops'[j].index = hops'[i].parent
                         /\ hops'[j].kind \in {"referral", "error"}
                    \/ \E t \in 1..Len(stack') :
                         stack'[t].pc = "resolve" /\ stack'[t].hop.index = hops'[i].parent
  BY <1>1 DEF Covered
<1>3. CASE i = Len(hops) + 1
  BY <1>1, <1>3
<1>4. CASE i # Len(hops) + 1
  <2>1. i \in 1..Len(hops) /\ hops'[i] = hops[i]
    BY <1>1, <1>2, <1>4
  <2>2. CASE \E j \in i + 1 .. Len(hops) :
               hops[j].index = hops[i].parent /\ hops[j].kind \in {"referral", "error"}
    <3>1. PICK j \in i + 1 .. Len(hops) :
               hops[j].index = hops[i].parent /\ hops[j].kind \in {"referral", "error"}
      BY <2>2
    <3>2. j \in 1..Len(hops) /\ j \in i + 1 .. Len(hops) + 1
      BY <1>2, <2>1
    <3> QED  BY <1>1, <2>1, <3>1, <3>2
  <2>3. CASE \E s \in 1..Len(stack) :
               stack[s].pc = "resolve" /\ stack[s].hop.index = hops[i].parent
    <3>1. PICK s \in 1..Len(stack) :
               stack[s].pc = "resolve" /\ stack[s].hop.index = hops[i].parent
      BY <2>3
    <3>2. Len(hops) + 1 \in i + 1 .. Len(hops) + 1
      BY <1>2, <2>1
    <3> QED  BY <1>1, <2>1, <3>1, <3>2
  <2> QED  BY <1>2, <2>1, <2>2, <2>3 DEF Covered
<1> QED  BY <1>3, <1>4

-----------------------------------------------------------------------------
(* The five ways a step changes the stack and the hops.                    *)

(* While an activation is on the stack the trace has no result.            *)
LEMMA NotEnded ==
  ASSUME Ended, stack' # << >>, stack # << >>, result' = result
  PROVE  Ended'
  BY DEF Ended

(* The innermost activation goes on without recording.                     *)
LEMMA ReplaceHopInv ==
  ASSUME IInv, HopInv, stack # << >>, NEW f, SetTop(f), NoClash(f),
         hops' = hops, visited \subseteq visited', result' = result,
         \A k : Holds(f, k) => Holds(Top, k) \/ (k \in visited' /\ k \notin visited),
         FrameInv(f), f.pc # "loop", f.parent = Top.parent, f.depth = Top.depth,
         f.pc = "query" /\ f.last = ZeroHop => upstreamQueries' < MaxUpstreamQueries,
         Top.pc = "resolve" => f.pc = "resolve" /\ f.hop = Top.hop
  PROVE  HopInv'
<1>1. /\ Len(stack') = Len(stack) /\ Len(stack) \in Nat \ {0} /\ stack' # << >>
      /\ stack'[Len(stack)] = f
      /\ \A i \in 1..(Len(stack) - 1) : stack'[i] = stack[i]
  BY TopReplaced
<1>2. QuestionsInv'
  BY ReplaceQuestions DEF HopInv
<1>3. StackInv'
  BY ReplaceStack DEF HopInv
<1>4. Covered'
  <2>1. \A s \in 1..Len(stack) : stack[s].pc = "resolve" =>
          s \in 1..Len(stack') /\ stack'[s].pc = "resolve" /\ stack'[s].hop = stack[s].hop
    BY <1>1 DEF Top
  <2> QED  BY <2>1, CoveredKept DEF HopInv
<1>5. Ended'
  BY <1>1, NotEnded DEF HopInv
<1> QED  BY <1>2, <1>3, <1>4, <1>5 DEF HopInv

(* The innermost activation records a hop and goes round again.            *)
LEMMA ContinueHopInv ==
  ASSUME IInv, HopInv, stack # << >>, NEW h \in Hop, Record(h), Top.pc # "loop",
         visited' = visited, result' = result, Holds(Top, HopKey(h)),
         h.parent = Top.parent, h.kind \in {"cname", "referral"},
         Top.pc = "resolve" => h.index = Top.hop.index /\ h.kind = "referral",
         NEW qname, NEW purpose, NEW cands, Continue(Top, qname, purpose, cands)
  PROVE  HopInv'
<1> DEFINE f == [Top EXCEPT !.pc = "loop", !.depth = Top.depth + 1, !.qname = qname,
                            !.purpose = purpose, !.cands = cands]
<1>1. Top \in Frame /\ Len(stack) \in Nat \ {0} /\ stack \in Seq(Frame)
  BY TopType, StackShape DEF IInv
<1>2. f.pc = "loop" /\ SetTop(f)
  BY <1>1 DEF Frame, Continue
<1> HIDE DEF f
<1>3. /\ Len(stack') = Len(stack) /\ stack' # << >> /\ stack'[Len(stack)].pc = "loop"
      /\ \A i \in 1..(Len(stack) - 1) : stack'[i] = stack[i]
  BY <1>1, <1>2 DEF SetTop
<1>4. HopKey(h) \in visited
  BY <1>1 DEF HopInv, QuestionsInv, Top
<1>5. QuestionsInv'
  <2>1. \A i \in 1..Len(stack') :
          (i \in 1..(Len(stack) - 1) /\ stack'[i] = stack[i]) \/ stack'[i].pc = "loop"
    BY <1>1, <1>3
  <2> QED  BY <1>4, <2>1, RecordQuestions DEF HopInv
<1>6. StackInv'
  BY ContinueStack DEF HopInv
<1>7. Covered'
  <2>1. ASSUME h.parent # NoParent
        PROVE  \E t \in 1..Len(stack') :
                 stack'[t].pc = "resolve" /\ stack'[t].hop.index = h.parent
    <3>1. Len(stack) # 1
      BY <2>1, Outermost DEF HopInv
    <3>2. Len(stack) \in 2..Len(stack) /\ Len(stack) - 1 \in 1..(Len(stack) - 1)
      BY <1>1, <3>1, AtLeastTwo, Zenon
    <3>3. Len(stack) - 1 \in 1..Len(stack')
      BY <1>1, <1>3, <3>2
    <3>4. /\ stack[Len(stack) - 1].pc = "resolve"
          /\ stack[Len(stack)].parent = stack[Len(stack) - 1].hop.index
      BY <3>2 DEF IInv, StackOK, HopInv, StackInv
    <3> QED  BY <1>3, <3>2, <3>3, <3>4 DEF Top
  <2>2. ASSUME NEW s \in 1..Len(stack), stack[s].pc = "resolve"
        PROVE  \/ \E t \in 1..Len(stack') :
                    stack'[t].pc = "resolve" /\ stack'[t].hop.index = stack[s].hop.index
               \/ h.index = stack[s].hop.index /\ h.kind \in {"referral", "error"}
    <3>1. CASE s = Len(stack)
      BY <2>2, <3>1 DEF Top
    <3>2. CASE s # Len(stack)
      <4>1. s \in 1..(Len(stack) - 1) /\ s \in 1..Len(stack')
        BY <1>1, <1>3, <3>2
      <4> QED  BY <1>3, <2>2, <4>1
    <3> QED  BY <3>1, <3>2
  <2> QED  BY <2>1, <2>2, CoveredRecorded DEF HopInv
<1>8. Ended'
  BY <1>3, NotEnded DEF HopInv
<1> QED  BY <1>5, <1>6, <1>7, <1>8 DEF HopInv

(* The innermost activation returns what describes the hop it records.     *)
LEMMA RecordHopInv ==
  ASSUME IInv, HopInv, stack # << >>, NEW h \in Hop, Record(h), NEW o, Return(o),
         visited' = visited, upstreamQueries' = upstreamQueries, result' = result,
         HopKey(h) \in visited, Holds(Top, HopKey(h)) \/ h.rcode = "LOOP",
         h.parent = Top.parent,
         Top.pc = "resolve" => h.index = Top.hop.index /\ h.kind \in {"referral", "error"},
         o.terminal = h.index,
         (o.kind = "success") <=> (h.kind \in {"answer", "nodata"}),
         o.kind # "max_depth" => o.rcode = h.rcode,
         o.kind = "max_depth" => upstreamQueries = MaxUpstreamQueries
  PROVE  HopInv'
<1>1. /\ Len(stack') = Len(stack) - 1 /\ Len(stack) \in Nat \ {0} /\ ret' = o
      /\ stack' = << >> <=> Len(stack) = 1
      /\ \A i \in 1..(Len(stack) - 1) : stack'[i] = stack[i] /\ stack[i].pc = "resolve"
  BY TopReturned
<1>2. QuestionsInv'
  <2>1. \A i \in 1..Len(stack') : i \in 1..(Len(stack) - 1) /\ stack'[i] = stack[i]
    BY <1>1
  <2> QED  BY <2>1, RecordQuestions DEF HopInv
<1>3. StackInv'
  BY ReturnStack DEF HopInv
<1>4. Covered'
  <2>1. ASSUME h.parent # NoParent
        PROVE  \E t \in 1..Len(stack') :
                 stack'[t].pc = "resolve" /\ stack'[t].hop.index = h.parent
    <3>1. Len(stack) # 1
      BY <2>1, Outermost DEF HopInv
    <3>2. Len(stack) \in 2..Len(stack) /\ Len(stack) - 1 \in 1..(Len(stack) - 1)
      BY <1>1, <3>1, AtLeastTwo, Zenon
    <3>3. stack[Len(stack)].parent = stack[Len(stack) - 1].hop.index
      BY <3>2 DEF HopInv, StackInv
    <3> QED  BY <1>1, <3>2, <3>3 DEF Top
  <2>2. ASSUME NEW s \in 1..Len(stack), stack[s].pc = "resolve"
        PROVE  \/ \E t \in 1..Len(stack') :
                    stack'[t].pc = "resolve" /\ stack'[t].hop.index = stack[s].hop.index
               \/ h.index = stack[s].hop.index /\ h.kind \in {"referral", "error"}
    <3>1. CASE s = Len(stack)
      BY <2>2, <3>1 DEF Top
    <3>2. CASE s # Len(stack)
      <4>1. s \in 1..(Len(stack) - 1)
        BY <1>1, <3>2
      <4> QED  BY <1>1, <4>1
    <3> QED  BY <3>1, <3>2
  <2> QED  BY <2>1, <2>2, CoveredRecorded DEF HopInv
<1>5. Ended'
  <2>1. result = NoResult
    BY DEF HopInv, Ended
  <2>2. ASSUME stack' = << >>  PROVE Describes(o)'
    <3>1. hops' # << >> /\ Last(hops)' = h
      BY Recorded
    <3>2. h.parent = NoParent
      BY <1>1, <2>2, Outermost DEF HopInv
    <3> QED  BY <3>1, <3>2 DEF Describes
  <2> QED  BY <1>1, <2>1, <2>2 DEF Ended, Describes
<1> QED  BY <1>2, <1>3, <1>4, <1>5 DEF HopInv

(* The innermost activation gives up at the head of its loop.              *)
LEMMA GiveUpHopInv ==
  ASSUME IInv, HopInv, stack # << >>, Top.pc = "loop", NEW o, Return(o),
         UNCHANGED <<hops, visited, upstreamQueries, result>>,
         Len(stack) = 1 => Describes(o)
  PROVE  HopInv'
<1>1. /\ Len(stack') = Len(stack) - 1 /\ Len(stack) \in Nat \ {0} /\ ret' = o
      /\ stack' = << >> <=> Len(stack) = 1
      /\ \A i \in 1..(Len(stack) - 1) : stack'[i] = stack[i] /\ stack[i].pc = "resolve"
  BY TopReturned
<1>2. QuestionsInv'
  <2>1. \A i \in 1..Len(stack') : i \in 1..Len(stack) /\ stack'[i] = stack[i]
    BY <1>1
  <2> QED  BY <2>1, QuietQuestions DEF HopInv
<1>3. StackInv'
  BY ReturnStack DEF HopInv
<1>4. Covered'
  <2>1. \A s \in 1..Len(stack) : stack[s].pc = "resolve" => s # Len(stack)
    BY DEF Top
  <2>2. \A s \in 1..Len(stack) : stack[s].pc = "resolve" =>
          s \in 1..Len(stack') /\ stack'[s] = stack[s]
    BY <1>1, <2>1
  <2> QED  BY <2>2, CoveredKept DEF HopInv
<1>5. Ended'
  <2>1. result = NoResult
    BY DEF HopInv, Ended
  <2>2. Describes(o) => Describes(o)'
    BY DEF Describes, TopLevelPlaces, TopLevel
  <2> QED  BY <1>1, <2>1, <2>2 DEF Ended, Describes
<1> QED  BY <1>2, <1>3, <1>4, <1>5 DEF HopInv

-----------------------------------------------------------------------------
(* The hops and the outcomes the actions build.                            *)

(* The hops made for activation f stand for the question it has put.       *)
LEMMA ErrorHopFacts ==
  ASSUME NEW f, NEW rcode
  PROVE  /\ HopKey(ErrorHop(f, rcode)) = Key(f) /\ ErrorHop(f, rcode) # ZeroHop
         /\ ErrorHop(f, rcode).kind = "error" /\ ErrorHop(f, rcode).rcode = rcode
         /\ ErrorHop(f, rcode).parent = f.parent
         /\ ErrorHop(f, rcode).index = Len(hops)
  BY DEF HopKey, Key, ErrorHop, ZeroHop

(* The hop recorded for a response describes it.                           *)
LEMMA ResponseHopFacts ==
  ASSUME NEW f, NEW m, NEW kind
  PROVE  /\ HopKey(ResponseHop(f, m, kind)) = Key(f)
         /\ ResponseHop(f, m, kind).kind = kind
         /\ ResponseHop(f, m, kind).rcode = m.rcode
         /\ ResponseHop(f, m, kind).parent = f.parent
         /\ ResponseHop(f, m, kind).index = Len(hops)
  BY DEF HopKey, Key, ResponseHop

(* An outcome made from an error hop carries what the hop shows and is a   *)
(* failure of the upstream, never a guardrail.                             *)
LEMMA RcodeOutcomeFacts ==
  ASSUME NEW h, NEW o, o = RcodeOutcome(h)
  PROVE  /\ o.terminal = h.index /\ o.rcode = h.rcode
         /\ o.kind # "success" /\ o.kind # "max_depth"
  BY DEF RcodeOutcome, RcodeKind

(* The outcome of a round in which no candidate answered.                  *)
LEMMA ErrorOutcomeFacts ==
  ASSUME NEW h, NEW err, err = "timeout" => h.rcode = "TIMEOUT",
         NEW o, o = ErrorOutcome(err, h)
  PROVE  /\ o.terminal = h.index /\ o.rcode = h.rcode
         /\ o.kind # "success" /\ o.kind # "max_depth"
<1>1. CASE err = "timeout"
  BY <1>1 DEF ErrorOutcome
<1>2. CASE err = "other"
  <2>1. o = RcodeOutcome(h)
    BY <1>2 DEF ErrorOutcome
  <2> QED  BY <2>1, RcodeOutcomeFacts
<1>3. CASE err # "timeout" /\ err # "other"
  BY <1>3 DEF ErrorOutcome
<1> QED  BY <1>1, <1>2, <1>3

(* Such an outcome never ends a trace successfully.                        *)
LEMMA ErrorOutcomeFails ==
  ASSUME NEW h, NEW err
  PROVE  ErrorOutcome(err, h).kind # "success"
<1>1. CASE err = "timeout"
  BY <1>1 DEF ErrorOutcome
<1>2. CASE err = "other"
  <2>1. ErrorOutcome(err, h) = RcodeOutcome(h)
    BY <1>2 DEF ErrorOutcome
  <2> QED  BY <2>1, RcodeOutcomeFacts
<1>3. CASE err # "timeout" /\ err # "other"
  BY <1>3 DEF ErrorOutcome
<1> QED  BY <1>1, <1>2, <1>3

(* What the innermost activation knows of itself.                          *)
LEMMA TopFacts ==
  ASSUME IInv, HopInv, stack # << >>
  PROVE  /\ Top \in Frame /\ FrameOK(Top) /\ FrameInv(Top) /\ NoClash(Top)
         /\ Top.last \in Hop /\ Top.hop \in Hop /\ Top.cands \in Seq(IPs)
         /\ Top.next \in Nat \ {0} /\ Top.timeouts \in Nat /\ Top.depth \in Nat
         /\ \A k : Holds(Top, k) => k \in visited /\ ~Shown(k)
<1>1. Top \in Frame /\ FrameOK(Top) /\ Len(stack) \in Nat \ {0}
  BY TopType DEF IInv
<1>2. Len(stack) \in 1..Len(stack)
  BY <1>1
<1> QED  BY <1>1, <1>2 DEF Frame, HopInv, QuestionsInv, StackInv, Top

-----------------------------------------------------------------------------
(* The invariant is inductive.                                             *)

(* A trace that has not begun has no hops.                                 *)
LEMMA InitHopInv == Init => HopInv
<1> SUFFICES ASSUME Init PROVE HopInv
  OBVIOUS
<1> DEFINE f == Activation(QName, QType, NoParent, "delegation")
<1>1. /\ f.pc = "loop" /\ f.depth = 0 /\ f.parent = NoParent /\ f.last = ZeroHop
  BY DEF Activation
<1>2. stack = <<f>>
  BY DEF Init
<1> HIDE DEF f
<1>3. stack # << >> /\ Len(stack) = 1 /\ stack[1] = f
  BY <1>2
<1>4. hops = << >> /\ DOMAIN hops = {} /\ upstreamQueries = 0 /\ result = NoResult
  BY DEF Init
<1>5. FrameInv(f) /\ NoClash(f) /\ \A k : ~Holds(f, k)
  BY <1>1, EngineAssumption DEF FrameInv, NoClash, Holds
<1>6. QuestionsInv
  BY <1>3, <1>4, <1>5 DEF QuestionsInv, NoFabricatedHops
<1>7. StackInv
  <2>1. Cardinality(TopLevelPlaces) = 0
    <3>1. TopLevelPlaces = {}
      BY <1>4 DEF TopLevelPlaces
    <3> QED  BY <3>1, FS_EmptySet
  <2> QED  BY <1>1, <1>3, <1>4, <1>5, <2>1 DEF StackInv, Top
<1>8. Covered
  BY <1>4 DEF Covered
<1>9. Ended
  BY <1>3, <1>4 DEF Ended
<1> QED  BY <1>6, <1>7, <1>8, <1>9 DEF HopInv

(* The head of the loop of traceName.                                      *)
LEMMA LoopHopSteps ==
  ASSUME IInv, HopInv, DepthExceeded \/ BudgetExceeded \/ StartQuery
  PROVE  HopInv'
<1>1. /\ stack # << >> /\ Top.pc = "loop"
      /\ UNCHANGED <<hops, visited, upstreamQueries, result>>
  BY DEF DepthExceeded, BudgetExceeded, StartQuery, At
<1>2. /\ Top \in Frame /\ FrameOK(Top) /\ FrameInv(Top) /\ Top.depth \in Nat
      /\ Top.cands \in Seq(IPs)
  BY <1>1, TopFacts
<1>3. CASE DepthExceeded \/ BudgetExceeded
  <2>1. PICK rcode \in {"MAX_DEPTH", "BUDGET"} :
          Return([kind |-> "max_depth", rcode |-> rcode, terminal |-> LastHopIndex])
    BY <1>3 DEF DepthExceeded, BudgetExceeded
  <2> DEFINE o == [kind |-> "max_depth", rcode |-> rcode, terminal |-> LastHopIndex]
  <2>2. o.kind = "max_depth" /\ o.terminal = LastHopIndex /\ Return(o)
    BY <2>1
  <2> HIDE DEF o
  <2>3. upstreamQueries \in Nat /\ upstreamQueries <= MaxUpstreamQueries
    BY StackShape
  <2>4. Top.depth > 0 \/ (upstreamQueries >= MaxUpstreamQueries /\ Top.depth = 0)
    BY <1>2, <1>3, EngineAssumption DEF DepthExceeded, BudgetExceeded
  <2>5. ASSUME Len(stack) = 1  PROVE Describes(o)
    <3>1. Top.depth > 0
      BY <1>1, <2>4, <2>5, EngineAssumption DEF HopInv, StackInv
    <3>2. /\ hops # << >> /\ Last(hops).parent = NoParent
          /\ Last(hops).kind \in {"cname", "referral"}
      BY <1>1, <2>5, <3>1, Outermost DEF HopInv, StackInv
    <3>3. \/ upstreamQueries = MaxUpstreamQueries
          \/ Cardinality(TopLevelPlaces) = MaxDepth
      <4>1. CASE BudgetExceeded
        BY <2>3, <4>1, EngineAssumption DEF BudgetExceeded
      <4>2. CASE DepthExceeded
        <5>1. Top.depth = MaxDepth
          BY <1>2, <4>2, EngineAssumption DEF DepthExceeded, FrameInv
        <5>2. Cardinality(TopLevelPlaces) = Top.depth
          BY <1>1, <2>5 DEF HopInv, StackInv, Top
        <5> QED  BY <5>1, <5>2
      <4> QED  BY <1>3, <4>1, <4>2
    <3> QED  BY <2>2, <3>2, <3>3 DEF Describes, LastHopIndex
  <2> QED  BY <1>1, <2>2, <2>5, GiveUpHopInv
<1>4. CASE StartQuery
  <2> DEFINE f == [Top EXCEPT !.pc = "query", !.next = 1, !.timeouts = 0,
                              !.err = "none", !.last = ZeroHop]
  <2>1. SetTop(f) /\ Top.depth < MaxDepth /\ upstreamQueries < MaxUpstreamQueries
    BY <1>4 DEF StartQuery
  <2>2. /\ f.pc = "query" /\ f.next = 1 /\ f.timeouts = 0 /\ f.err = "none"
        /\ f.last = ZeroHop /\ f.parent = Top.parent /\ f.depth = Top.depth
        /\ f.cands = Top.cands
    BY <1>2 DEF Frame
  <2> HIDE DEF f
  <2>3. FrameInv(f)
    <3>1. Len(f.cands) \in Nat
      BY <1>2, <2>2
    <3> QED  BY <1>2, <2>1, <2>2, <3>1 DEF FrameInv
  <2>4. NoClash(f) /\ \A k : ~Holds(f, k)
    BY <2>2 DEF NoClash, Holds
  <2> QED  BY <1>1, <2>1, <2>2, <2>3, <2>4, ReplaceHopInv
<1> QED  BY <1>3, <1>4

(* The candidate loop: a candidate that is skipped or asked.               *)
LEMMA CandidateHopSteps ==
  ASSUME IInv, HopInv, SkipBlocked \/ SendQuery
  PROVE  HopInv'
<1>1. /\ stack # << >> /\ Top.pc = "query" /\ Top.next <= Len(Top.cands)
      /\ upstreamQueries < MaxUpstreamQueries
      /\ UNCHANGED <<hops, result>>
  BY DEF SkipBlocked, SendQuery, At, MoreCandidates
<1>2. /\ Top \in Frame /\ FrameInv(Top) /\ NoClash(Top) /\ Top.cands \in Seq(IPs)
      /\ Top.next \in Nat \ {0} /\ Top.timeouts \in Nat
      /\ \A k : Holds(Top, k) => k \in visited
  BY <1>1, TopFacts
<1>3. CASE SkipBlocked
  <2> DEFINE f == [Top EXCEPT !.next = @ + 1, !.err = "unusable"]
  <2>1. SetTop(f) /\ Top.cands[Top.next] \notin Allowed /\ visited' = visited
        /\ upstreamQueries' = upstreamQueries
    BY <1>3 DEF SkipBlocked, Candidate
  <2>2. /\ f.pc = "query" /\ f.next = Top.next + 1 /\ f.timeouts = Top.timeouts
        /\ f.err = "unusable" /\ f.last = Top.last /\ f.parent = Top.parent
        /\ f.depth = Top.depth /\ f.cands = Top.cands
    BY <1>1, <1>2 DEF Frame
  <2> HIDE DEF f
  <2>3. FrameInv(f)
    <3>1. f.next <= Len(f.cands) + 1
      BY <1>1, <1>2, <2>2
    <3>2. ASSUME f.last = ZeroHop, NEW j \in 1..(f.next - 1)  PROVE f.cands[j] \notin Allowed
      <4>1. j = Top.next \/ j \in 1..(Top.next - 1)
        BY <1>2, <2>2
      <4> QED  BY <1>1, <1>2, <2>1, <2>2, <3>2, <4>1 DEF FrameInv
    <3>3. f.timeouts < f.next - 1
      BY <1>1, <1>2, <2>2 DEF FrameInv
    <3>4. /\ f.timeouts < f.next /\ f.timeouts # f.next - 1
      BY <1>2, <2>2, <3>3
    <3> QED  BY <1>1, <1>2, <2>2, <3>1, <3>2, <3>4 DEF FrameInv
  <2>4. NoClash(f) /\ \A k : Holds(f, k) => Holds(Top, k)
    BY <1>1, <2>2 DEF NoClash, Holds
  <2> QED  BY <1>1, <2>1, <2>2, <2>3, <2>4, ReplaceHopInv
<1>4. CASE SendQuery
  <2> DEFINE f == [Top EXCEPT !.pc = "udp"]
  <2>1. SetTop(f) /\ Key(Top) \notin visited /\ visited' = visited \cup {Key(Top)}
    BY <1>4 DEF SendQuery
  <2>2. /\ f.pc = "udp" /\ f.next = Top.next /\ f.timeouts = Top.timeouts
        /\ f.err = Top.err /\ f.last = Top.last /\ f.parent = Top.parent
        /\ f.depth = Top.depth /\ f.cands = Top.cands
        /\ f.qname = Top.qname /\ f.qtype = Top.qtype /\ f.purpose = Top.purpose
    BY <1>2 DEF Frame
  <2> HIDE DEF f
  <2>3. FrameInv(f)
    BY <1>1, <1>2, <2>2 DEF FrameInv
  <2>4. Key(f) = Key(Top)
    BY <2>2 DEF Key
  <2>5. \A k : Holds(f, k) => Holds(Top, k) \/ (k \in visited' /\ k \notin visited)
    BY <1>1, <2>1, <2>2, <2>4 DEF Holds
  <2>6. NoClash(f)
    BY <1>1, <1>2, <2>1, <2>2, <2>4 DEF Holds, NoClash
  <2> QED  BY <1>1, <2>1, <2>2, <2>3, <2>5, <2>6, ReplaceHopInv
<1> QED  BY <1>3, <1>4

(* When the candidate loop ends there is a last error to report: some      *)
(* candidate may be asked, and the loop does not begin without budget.     *)
LEMMA LastHopMade ==
  ASSUME IInv, HopInv, BudgetExhausted \/ CandidatesExhausted
  PROVE  Top.last # ZeroHop
<1>1. stack # << >> /\ Top.pc = "query"
  BY DEF BudgetExhausted, CandidatesExhausted, At
<1>2. /\ FrameOK(Top) /\ FrameInv(Top) /\ Top.cands \in Seq(IPs)
      /\ Top.next \in Nat \ {0}
  BY <1>1, TopFacts
<1>3. CASE BudgetExhausted
  <2>1. ~(upstreamQueries < MaxUpstreamQueries)
    BY <1>3, StackShape, EngineAssumption DEF BudgetExhausted
  <2> QED  BY <1>1, <2>1 DEF HopInv, StackInv
<1>4. CASE CandidatesExhausted
  <2>1. Top.next = Len(Top.cands) + 1 /\ Len(Top.cands) \in Nat
    BY <1>1, <1>2, <1>4 DEF CandidatesExhausted, MoreCandidates, FrameInv
  <2>2. PICK j \in 1..Len(Top.cands) : Top.cands[j] \in Allowed
    <3>1. CASE Top.cands = Roots
      BY <3>1, EngineAssumption, RootAssumption
    <3>2. CASE Top.cands \in Seq(Allowed) \ {<< >>}
      <4>1. Len(Top.cands) # 0 /\ 1 \in 1..Len(Top.cands)
        BY <1>2, <3>2
      <4>2. Top.cands[1] \in Allowed
        BY <3>2, <4>1
      <4> QED  BY <4>1, <4>2
    <3> QED  BY <1>2, <3>1, <3>2 DEF FrameOK
  <2>3. j \in 1..(Top.next - 1)
    BY <2>1
  <2> QED  BY <1>1, <1>2, <2>2, <2>3 DEF FrameInv
<1> QED  BY <1>3, <1>4

(* The candidate loop ends: the budget is spent, a question would be put   *)
(* again, or no candidate is left.                                         *)
LEMMA CandidateLoopEnds ==
  ASSUME IInv, HopInv, BudgetExhausted \/ LoopDetected \/ CandidatesExhausted
  PROVE  HopInv'
<1>1. /\ stack # << >> /\ Top.pc = "query"
      /\ UNCHANGED <<visited, upstreamQueries, result>>
  BY DEF BudgetExhausted, LoopDetected, CandidatesExhausted, At
<1>2. /\ Top \in Frame /\ FrameOK(Top) /\ FrameInv(Top) /\ Top.cands \in Seq(IPs)
      /\ Top.last \in Hop /\ Top.next \in Nat \ {0} /\ Top.timeouts \in Nat
      /\ \A k : Holds(Top, k) => k \in visited
  BY <1>1, TopFacts
<1>3. /\ upstreamQueries \in Nat /\ upstreamQueries <= MaxUpstreamQueries
      /\ hops \in Seq(Hop)
  BY StackShape
<1>4. Top.last # ZeroHop =>
        /\ Holds(Top, HopKey(Top.last)) /\ HopKey(Top.last) \in visited
        /\ Top.last.kind = "error" /\ Top.last.parent = Top.parent
  BY <1>1, <1>2 DEF Holds, FrameInv
<1>5. CASE BudgetExhausted
  <2> DEFINE o == [kind |-> "max_depth", rcode |-> "MAX_DEPTH",
                   terminal |-> Top.last.index]
  <2>1. /\ o.kind = "max_depth" /\ o.terminal = Top.last.index
        /\ Return(o) /\ Record(Top.last)
    BY <1>5 DEF BudgetExhausted
  <2> HIDE DEF o
  <2>2. upstreamQueries = MaxUpstreamQueries
    BY <1>3, <1>5, EngineAssumption DEF BudgetExhausted
  <2>3. Top.last # ZeroHop
    BY <1>5, LastHopMade
  <2> QED  BY <1>1, <1>2, <1>4, <2>1, <2>2, <2>3, RecordHopInv
<1>6. CASE LoopDetected
  <2> DEFINE o == [kind |-> "loop_detected", rcode |-> "LOOP", terminal |-> Len(hops)]
             h == ErrorHop(Top, "LOOP")
  <2>1. /\ o.kind = "loop_detected" /\ o.rcode = "LOOP" /\ o.terminal = Len(hops)
        /\ Return(o) /\ Record(h) /\ Key(Top) \in visited
    BY <1>6 DEF LoopDetected
  <2>2. /\ HopKey(h) = Key(Top) /\ h.kind = "error" /\ h.rcode = "LOOP"
        /\ h.parent = Top.parent /\ h.index = Len(hops)
    BY ErrorHopFacts
  <2>3. h \in Hop
    <3>1. Top.cands[Top.next] \in IPs
      BY <1>6, EngineAssumption DEF LoopDetected, Candidate
    <3> QED  BY <1>2, <1>3, <3>1, ErrorHopType DEF HopRcodes
  <2> HIDE DEF o, h
  <2> QED  BY <1>1, <2>1, <2>2, <2>3, RecordHopInv
<1>7. CASE CandidatesExhausted
  <2> DEFINE err == IF Top.timeouts = Len(Top.cands) THEN "timeout" ELSE Top.err
             o   == ErrorOutcome(err, Top.last)
  <2>1. Return(o) /\ Record(Top.last) /\ ~(Top.next <= Len(Top.cands))
    BY <1>7 DEF CandidatesExhausted, MoreCandidates
  <2>2. Top.next = Len(Top.cands) + 1 /\ Len(Top.cands) \in Nat
    BY <1>1, <1>2, <2>1 DEF FrameInv
  <2>3. Top.last # ZeroHop
    BY <1>7, LastHopMade
  <2>4. Len(Top.cands) # 0
    BY <1>2, EngineAssumption DEF FrameOK
  <2>5. err = "timeout" => Top.last.rcode = "TIMEOUT"
    <3>1. Top.timeouts = Len(Top.cands) => Top.timeouts = Top.next - 1 /\ Top.next > 1
      BY <2>2, <2>4
    <3> QED  BY <1>1, <1>2, <3>1 DEF FrameInv
  <2> HIDE DEF err
  <2>6. /\ o.terminal = Top.last.index /\ o.rcode = Top.last.rcode
        /\ o.kind # "success" /\ o.kind # "max_depth"
    BY <2>5, ErrorOutcomeFacts
  <2> HIDE DEF o
  <2> QED  BY <1>1, <1>2, <1>4, <2>1, <2>3, <2>6, RecordHopInv
<1> QED  BY <1>5, <1>6, <1>7

(* An exchange that fails, times out or falls back to TCP.                 *)
LEMMA ExchangeHopSteps ==
  ASSUME IInv, HopInv,
         ExchangeTimeout \/ ExchangeError \/ \E m \in Messages : TruncatedResponse(m)
  PROVE  HopInv'
<1>1. /\ stack # << >> /\ Top.pc \in {"udp", "tcp"}
      /\ UNCHANGED <<hops, visited, upstreamQueries, result>>
  BY DEF ExchangeTimeout, ExchangeError, TruncatedResponse, Exchanging, At
<1>2. /\ Top \in Frame /\ FrameOK(Top) /\ FrameInv(Top) /\ NoClash(Top)
      /\ Top.cands \in Seq(IPs) /\ Top.next \in Nat \ {0} /\ Top.timeouts \in Nat
  BY <1>1, TopFacts
<1>3. Top.next <= Len(Top.cands) /\ Top.cands[Top.next] \in IPs /\ hops \in Seq(Hop)
  BY <1>1, <1>2, StackShape DEF FrameOK
<1>4. Holds(Top, Key(Top))
  BY <1>1 DEF Holds
<1>5. CASE ExchangeTimeout \/ ExchangeError
  <2>1. PICK rcode \in {"TIMEOUT", "ERROR"}, timeouts \in Nat, err \in {"timeout", "other"} :
          /\ SetTop([Top EXCEPT !.pc = "query", !.next = Top.next + 1,
                                !.timeouts = timeouts, !.err = err,
                                !.last = ErrorHop(Top, rcode)])
          /\ timeouts <= Top.timeouts + 1
          /\ err = "timeout" => rcode = "TIMEOUT"
          /\ err # "timeout" => timeouts = Top.timeouts
    <3>1. CASE ExchangeTimeout
      <4>1. SetTop([Top EXCEPT !.pc = "query", !.next = Top.next + 1,
                               !.timeouts = Top.timeouts + 1, !.err = "timeout",
                               !.last = ErrorHop(Top, "TIMEOUT")])
        BY <3>1 DEF ExchangeTimeout
      <4>2. Top.timeouts + 1 \in Nat /\ Top.timeouts + 1 <= Top.timeouts + 1
        BY <1>2
      <4> QED  BY <4>1, <4>2
    <3>2. CASE ExchangeError
      <4>1. [Top EXCEPT !.pc = "query", !.next = @ + 1, !.err = "other",
                        !.last = ErrorHop(Top, "ERROR")]
            = [Top EXCEPT !.pc = "query", !.next = Top.next + 1,
                          !.timeouts = Top.timeouts, !.err = "other",
                          !.last = ErrorHop(Top, "ERROR")]
        BY <1>2 DEF Frame
      <4>2. SetTop([Top EXCEPT !.pc = "query", !.next = Top.next + 1,
                               !.timeouts = Top.timeouts, !.err = "other",
                               !.last = ErrorHop(Top, "ERROR")])
        BY <3>2, <4>1 DEF ExchangeError
      <4>3. Top.timeouts \in Nat /\ Top.timeouts <= Top.timeouts + 1
        BY <1>2
      <4> QED  BY <4>2, <4>3
    <3> QED  BY <1>5, <3>1, <3>2
  <2> DEFINE h == ErrorHop(Top, rcode)
             f == [Top EXCEPT !.pc = "query", !.next = Top.next + 1,
                              !.timeouts = timeouts, !.err = err, !.last = h]
  <2>2. /\ HopKey(h) = Key(Top) /\ h # ZeroHop /\ h.kind = "error"
        /\ h.rcode = rcode /\ h.parent = Top.parent
    BY ErrorHopFacts
  <2>3. SetTop(f)
    BY <2>1
  <2> HIDE DEF h
  <2>4. /\ f.pc = "query" /\ f.next = Top.next + 1 /\ f.timeouts = timeouts
        /\ f.err = err /\ f.last = h /\ f.parent = Top.parent
        /\ f.depth = Top.depth /\ f.cands = Top.cands
    BY <1>2 DEF Frame
  <2> HIDE DEF f
  <2>5. FrameInv(f)
    <3>1. f.next <= Len(f.cands) + 1
      BY <1>2, <1>3, <2>4
    <3>2. f.timeouts < f.next
      BY <1>1, <1>2, <2>1, <2>4 DEF FrameInv
    <3>3. f.timeouts = f.next - 1 => f.err = "timeout"
      BY <1>1, <1>2, <2>1, <2>4 DEF FrameInv
    <3>4. f.depth <= MaxDepth /\ f.depth < MaxDepth
      BY <1>1, <1>2, <2>4 DEF FrameInv
    <3> QED  BY <2>1, <2>2, <2>4, <3>1, <3>2, <3>3, <3>4 DEF FrameInv
  <2>6. NoClash(f) /\ \A k : Holds(f, k) => Holds(Top, k)
    BY <1>4, <2>2, <2>4 DEF NoClash, Holds
  <2> QED  BY <1>1, <2>2, <2>3, <2>4, <2>5, <2>6, ReplaceHopInv
<1>6. CASE \E m \in Messages : TruncatedResponse(m)
  <2> DEFINE f == [Top EXCEPT !.pc = "tcp"]
  <2>1. SetTop(f)
    BY <1>6 DEF TruncatedResponse
  <2>2. /\ f.pc = "tcp" /\ f.next = Top.next /\ f.timeouts = Top.timeouts
        /\ f.err = Top.err /\ f.last = Top.last /\ f.parent = Top.parent
        /\ f.depth = Top.depth /\ f.cands = Top.cands
        /\ f.qname = Top.qname /\ f.qtype = Top.qtype /\ f.purpose = Top.purpose
    BY <1>2 DEF Frame
  <2> HIDE DEF f
  <2>3. FrameInv(f)
    BY <1>1, <1>2, <2>2 DEF FrameInv
  <2>4. Key(f) = Key(Top)
    BY <2>2 DEF Key
  <2>5. NoClash(f) /\ \A k : Holds(f, k) => Holds(Top, k)
    BY <1>1, <1>2, <2>2, <2>4 DEF NoClash, Holds
  <2> QED  BY <1>1, <2>1, <2>2, <2>3, <2>5, ReplaceHopInv
<1> QED  BY <1>5, <1>6

(* A response that is not truncated.                                       *)
LEMMA ReceiveHopSteps ==
  ASSUME IInv, HopInv, NEW m \in Messages,
         \/ ReceiveRcode(m) \/ ReceiveAlias(m) \/ ReceiveAnswer(m)
         \/ ReceiveReferralWithGlue(m) \/ ReceiveUnusable(m)
         \/ ReceiveReferralWithoutGlue(m)
  PROVE  HopInv'
<1>1. Received(m) /\ UNCHANGED <<visited, upstreamQueries, result>>
  BY DEF ReceiveRcode, ReceiveAlias, ReceiveAnswer, ReceiveReferralWithGlue,
         ReceiveUnusable, ReceiveReferralWithoutGlue
<1>2. stack # << >> /\ Top.pc \in {"udp", "tcp"}
  BY <1>1 DEF Received, At
<1>3. /\ Top \in Frame /\ FrameOK(Top) /\ FrameInv(Top)
      /\ Top.cands \in Seq(IPs) /\ Top.next \in Nat \ {0}
      /\ \A k : Holds(Top, k) => k \in visited
  BY <1>2, TopFacts
<1>4. hops \in Seq(Hop) /\ m \in Message /\ Top.cands[Top.next] \in IPs
  BY <1>2, <1>3, StackShape, EngineAssumption DEF FrameOK
<1>5. Holds(Top, Key(Top)) /\ Key(Top) \in visited
  BY <1>2, <1>3 DEF Holds
<1>6. ASSUME NEW kind \in HopKinds
      PROVE  /\ ResponseHop(Top, m, kind) \in Hop
             /\ HopKey(ResponseHop(Top, m, kind)) = Key(Top)
             /\ ResponseHop(Top, m, kind).kind = kind
             /\ ResponseHop(Top, m, kind).rcode = m.rcode
             /\ ResponseHop(Top, m, kind).parent = Top.parent
             /\ ResponseHop(Top, m, kind).index = Len(hops)
  BY <1>2, <1>3, <1>4, ResponseHopType, ResponseHopFacts
<1>7. CASE ReceiveRcode(m) \/ ReceiveUnusable(m)
  <2> DEFINE h == ResponseHop(Top, m, "error")
  <2>1. PICK o : Return(o) /\ (o = RcodeOutcome(h) \/ o = ErrorOutcome("unusable", h))
    BY <1>7 DEF ReceiveRcode, ReceiveUnusable
  <2>2. Record(h)
    BY <1>7 DEF ReceiveRcode, ReceiveUnusable
  <2>3. /\ h \in Hop /\ HopKey(h) = Key(Top) /\ h.kind = "error"
        /\ h.parent = Top.parent
    BY <1>6 DEF HopKinds
  <2> HIDE DEF h
  <2>4. /\ o.terminal = h.index /\ o.rcode = h.rcode
        /\ o.kind # "success" /\ o.kind # "max_depth"
    BY <2>1, RcodeOutcomeFacts, ErrorOutcomeFacts
  <2> QED  BY <1>1, <1>2, <1>5, <2>1, <2>2, <2>3, <2>4, RecordHopInv
<1>8. CASE ReceiveAnswer(m)
  <2>1. PICK kind \in {"answer", "nodata"} : Record(ResponseHop(Top, m, kind))
    BY <1>8 DEF ReceiveAnswer
  <2> DEFINE h == ResponseHop(Top, m, kind)
             o == [kind |-> "success", rcode |-> m.rcode, terminal |-> Len(hops)]
  <2>2. /\ o.kind = "success" /\ o.rcode = m.rcode /\ o.terminal = Len(hops)
        /\ Return(o)
    BY <1>8 DEF ReceiveAnswer
  <2>3. /\ h \in Hop /\ HopKey(h) = Key(Top) /\ h.kind = kind /\ h.rcode = m.rcode
        /\ h.parent = Top.parent /\ h.index = Len(hops)
    BY <1>6 DEF HopKinds
  <2>4. Record(h)
    BY <2>1
  <2> HIDE DEF h, o
  <2> QED  BY <1>1, <1>2, <1>5, <2>2, <2>3, <2>4, RecordHopInv
<1>9. CASE ReceiveAlias(m) \/ ReceiveReferralWithGlue(m)
  <2>1. PICK kind \in {"cname", "referral"} : Record(ResponseHop(Top, m, kind))
    BY <1>9 DEF ReceiveAlias, ReceiveReferralWithGlue
  <2>2. PICK qname, purpose, cands : Continue(Top, qname, purpose, cands)
    BY <1>9, Zenon DEF ReceiveAlias, ReceiveReferralWithGlue
  <2> DEFINE h == ResponseHop(Top, m, kind)
  <2>3. /\ h \in Hop /\ HopKey(h) = Key(Top) /\ h.kind = kind /\ h.parent = Top.parent
    BY <1>6 DEF HopKinds
  <2>4. Record(h)
    BY <2>1
  <2> HIDE DEF h
  <2> QED  BY <1>1, <1>2, <1>5, <2>2, <2>3, <2>4, ContinueHopInv
<1>10. CASE ReceiveReferralWithoutGlue(m)
  <2> DEFINE h == ResponseHop(Top, m, "referral")
             ns == Distinct(m.ns)
             f == [Top EXCEPT !.pc = "resolve", !.hop = h, !.ns = ns,
                              !.pos = 1, !.family = "A", !.found = << >>]
  <2>1. SetTop(f) /\ hops' = hops
    BY <1>10 DEF ReceiveReferralWithoutGlue
  <2>2. /\ h \in Hop /\ HopKey(h) = Key(Top) /\ h.kind = "referral"
        /\ h.parent = Top.parent
    BY <1>6 DEF HopKinds
  <2> HIDE DEF h, ns
  <2>3. /\ f.pc = "resolve" /\ f.hop = h /\ f.last = Top.last
        /\ f.parent = Top.parent /\ f.depth = Top.depth
    BY <1>3 DEF Frame
  <2> HIDE DEF f
  <2>4. FrameInv(f)
    BY <1>2, <1>3, <2>2, <2>3 DEF FrameInv
  <2>5. NoClash(f) /\ \A k : Holds(f, k) => Holds(Top, k)
    BY <1>5, <2>2, <2>3 DEF NoClash, Holds
  <2> QED  BY <1>1, <1>2, <2>1, <2>3, <2>4, <2>5, ReplaceHopInv
<1> QED  BY <1>7, <1>8, <1>9, <1>10

(* The lookups for a referral without glue have all returned.              *)
LEMMA ReferralHopSteps ==
  ASSUME IInv, HopInv, ReferralResolved \/ ReferralUnusable
  PROVE  HopInv'
<1>1. /\ stack # << >> /\ Top.pc = "resolve"
      /\ UNCHANGED <<visited, upstreamQueries, result>>
  BY DEF ReferralResolved, ReferralUnusable, At
<1>2. /\ Top \in Frame /\ FrameInv(Top) /\ Top.hop \in Hop
      /\ \A k : Holds(Top, k) => k \in visited
  BY <1>1, TopFacts
<1>3. Top.hop.kind = "referral" /\ Top.hop.parent = Top.parent
  BY <1>1, <1>2 DEF FrameInv
<1>4. Holds(Top, HopKey(Top.hop)) /\ HopKey(Top.hop) \in visited
  BY <1>1, <1>2 DEF Holds
<1>5. CASE ReferralResolved
  <2>1. /\ Record(Top.hop)
        /\ Continue(Top, Top.qname, ContinuePurpose(Top), Top.found)
    BY <1>5 DEF ReferralResolved
  <2> QED  BY <1>1, <1>2, <1>3, <1>4, <2>1, ContinueHopInv
<1>6. CASE ReferralUnusable
  <2> DEFINE h == [Top.hop EXCEPT !.kind = "error"]
             o == ErrorOutcome("unusable", Top.hop)
  <2>1. Record(h) /\ Return(o)
    BY <1>6 DEF ReferralUnusable
  <2>2. h \in Hop
    BY <1>2 DEF Hop, HopKinds
  <2>3. /\ h.kind = "error" /\ h.index = Top.hop.index /\ h.parent = Top.parent
        /\ h.rcode = Top.hop.rcode /\ HopKey(h) = HopKey(Top.hop)
    BY <1>2, <1>3 DEF Hop, HopKey
  <2>4. /\ o.terminal = Top.hop.index /\ o.rcode = Top.hop.rcode
        /\ o.kind # "success" /\ o.kind # "max_depth"
    BY ErrorOutcomeFacts
  <2> HIDE DEF h, o
  <2> QED  BY <1>1, <1>4, <2>1, <2>2, <2>3, <2>4, RecordHopInv
<1> QED  BY <1>5, <1>6

(* The outcome of a support lookup is taken up.                            *)
LEMMA ReturnedTop ==
  ASSUME IInv, AddressesFound \/ TryIPv6 \/ NoAddress
  PROVE  \E pos, family, found :
           SetTop([Top EXCEPT !.pos = pos, !.family = family, !.found = found])
<1>1. Top \in Frame
  BY TopType DEF IInv, AddressesFound, TryIPv6, NoAddress, Returned
<1>2. CASE AddressesFound
  <2>1. [Top EXCEPT !.pos = @ + 1, !.family = "A", !.found = @ \o Permitted(Addresses(Top))]
        = [Top EXCEPT !.pos = Top.pos + 1, !.family = "A",
                      !.found = Top.found \o Permitted(Addresses(Top))]
    BY <1>1 DEF Frame
  <2> QED  BY <1>2, <2>1 DEF AddressesFound
<1>3. CASE TryIPv6
  <2>1. [Top EXCEPT !.family = "AAAA"]
        = [Top EXCEPT !.pos = Top.pos, !.family = "AAAA", !.found = Top.found]
    BY <1>1 DEF Frame
  <2> QED  BY <1>3, <2>1 DEF TryIPv6
<1>4. CASE NoAddress
  <2>1. [Top EXCEPT !.pos = @ + 1, !.family = "A"]
        = [Top EXCEPT !.pos = Top.pos + 1, !.family = "A", !.found = Top.found]
    BY <1>1 DEF Frame
  <2>2. SetTop([Top EXCEPT !.pos = Top.pos + 1, !.family = "A", !.found = Top.found])
    BY <1>4, <2>1 DEF NoAddress
  <2> QED  BY <2>2
<1> QED  BY <1>2, <1>3, <1>4

(* A support lookup returns to the referral that waits for it.             *)
LEMMA ReturnedHopSteps ==
  ASSUME IInv, HopInv, AddressesFound \/ TryIPv6 \/ NoAddress
  PROVE  HopInv'
<1>1. /\ stack # << >> /\ ret # NoOutcome
      /\ UNCHANGED <<hops, visited, upstreamQueries, result>>
  BY DEF AddressesFound, TryIPv6, NoAddress, Returned
<1>2. Top.pc = "resolve" /\ Top \in Frame /\ FrameOK(Top) /\ FrameInv(Top)
  BY <1>1, TopFacts DEF IInv, StackOK
<1>3. PICK pos, family, found :
        SetTop([Top EXCEPT !.pos = pos, !.family = family, !.found = found])
  BY ReturnedTop
<1> DEFINE f == [Top EXCEPT !.pos = pos, !.family = family, !.found = found]
<1>4. SetTop(f)
  BY <1>3
<1>5. /\ f.pc = "resolve" /\ f.hop = Top.hop /\ f.last = Top.last
      /\ f.parent = Top.parent /\ f.depth = Top.depth
  BY <1>2 DEF Frame
<1> HIDE DEF f
<1>6. FrameInv(f)
  BY <1>2, <1>5 DEF FrameInv
<1>7. NoClash(f) /\ \A k : Holds(f, k) => Holds(Top, k)
  BY <1>2, <1>5 DEF NoClash, Holds
<1> QED  BY <1>1, <1>2, <1>4, <1>5, <1>6, <1>7, ReplaceHopInv

(* A support lookup starts: a new activation that holds nothing.           *)
LEMMA SupportLookupHopStep ==
  ASSUME IInv, HopInv, SupportLookup
  PROVE  HopInv'
<1> DEFINE f == Activation(Top.ns[Top.pos], Top.family, Top.hop.index, Support)
<1>1. /\ stack # << >> /\ Top.pc = "resolve" /\ stack' = Append(stack, f)
      /\ UNCHANGED <<hops, visited, upstreamQueries, result>>
  BY DEF SupportLookup, At
<1>2. /\ f.pc = "loop" /\ f.depth = 0 /\ f.parent = Top.hop.index /\ f.last = ZeroHop
  BY DEF Activation
<1> HIDE DEF f
<1>3. stack \in Seq(Frame) /\ Len(stack) \in Nat \ {0}
  BY <1>1, StackShape
<1>4. /\ Len(stack') = Len(stack) + 1 /\ stack' # << >>
      /\ stack'[Len(stack) + 1] = f /\ Top' = f
      /\ \A i \in 1..Len(stack) : stack'[i] = stack[i]
  BY <1>1, <1>3 DEF Top
<1>5. \A i \in 1..Len(stack') : i \in 1..Len(stack) \/ i = Len(stack) + 1
  BY <1>3, <1>4
<1>6. QuestionsInv'
  <2>1. \A i \in 1..Len(stack') :
          (i \in 1..Len(stack) /\ stack'[i] = stack[i]) \/ stack'[i].pc = "loop"
    BY <1>2, <1>4, <1>5
  <2> QED  BY <1>1, <2>1, QuietQuestions DEF HopInv
<1>7. StackInv'
  <2>1. FrameInv(f)
    BY <1>2, EngineAssumption DEF FrameInv
  <2>2. \A i \in 1..Len(stack') : FrameInv(stack'[i])
    BY <1>4, <1>5, <2>1 DEF HopInv, StackInv
  <2>3. \A i \in 1..Len(stack') : FrameInv(stack[i])' <=> FrameInv(stack'[i])
    BY DEF FrameInv
  <2>4. stack'[1].parent = NoParent /\ Cardinality(TopLevelPlaces)' = stack'[1].depth
    <3>1. stack'[1] = stack[1]
      BY <1>3, <1>4
    <3>2. Cardinality(TopLevelPlaces)' = Cardinality(TopLevelPlaces)
      BY <1>1 DEF TopLevelPlaces, TopLevel
    <3> QED  BY <1>1, <3>1, <3>2 DEF HopInv, StackInv
  <2>5. ASSUME NEW i \in 2..Len(stack')  PROVE stack'[i].parent = stack'[i - 1].hop.index
    <3>1. i - 1 \in 1..Len(stack)
      BY <1>3, <1>4
    <3>2. CASE i = Len(stack) + 1
      <4>1. i - 1 = Len(stack)
        BY <1>3, <3>2
      <4> QED  BY <1>2, <1>4, <3>1, <3>2, <4>1 DEF Top
    <3>3. CASE i # Len(stack) + 1
      <4>1. i \in 1..Len(stack) /\ i \in 2..Len(stack)
        BY <1>3, <1>4, <3>3
      <4> QED  BY <1>4, <3>1, <4>1 DEF HopInv, StackInv
    <3> QED  BY <3>2, <3>3
  <2>6. Len(stack') # 1 /\ ~(f.depth > 0)
    BY <1>2, <1>3, <1>4
  <2> QED  BY <1>2, <1>4, <2>2, <2>3, <2>4, <2>5, <2>6 DEF StackInv
<1>8. Covered'
  <2>1. \A s \in 1..Len(stack) : s \in 1..Len(stack')
    BY <1>3, <1>4
  <2> QED  BY <1>1, <1>4, <2>1, CoveredKept DEF HopInv
<1>9. Ended'
  BY <1>1, <1>4, NotEnded DEF HopInv
<1> QED  BY <1>6, <1>7, <1>8, <1>9 DEF HopInv

(* The steps that leave the activations alone.                             *)
LEMMA OutsideHopSteps ==
  ASSUME IInv, HopInv, Finish \/ ContextDone \/ UNCHANGED vars
  PROVE  HopInv'
<1>1. UNCHANGED <<stack, ret, hops, visited, upstreamQueries>>
  BY DEF Finish, ContextDone, DeadlinePasses, ClientGone, vars
<1>2. QuestionsInv'
  <2>1. \A i \in 1..Len(stack') : i \in 1..Len(stack) /\ stack'[i] = stack[i]
    BY <1>1
  <2> QED  BY <1>1, <2>1, QuietQuestions DEF HopInv
<1>3. StackInv'
  BY <1>1 DEF HopInv, StackInv, FrameInv, Top, TopLevelPlaces, TopLevel
<1>4. Covered'
  BY <1>1 DEF HopInv, Covered
<1>5. Describes(ret)' <=> Describes(ret)
  BY <1>1 DEF Describes, TopLevelPlaces, TopLevel
<1>6. Ended'
  <2>1. CASE Finish
    <3>1. /\ stack = << >> /\ result'.outcome = ret
          /\ (result'.status = "success") <=> (ret.kind = "success")
      BY <2>1 DEF Finish
    <3> QED  BY <1>1, <1>5, <3>1 DEF HopInv, Ended
  <2>2. CASE ContextDone \/ UNCHANGED vars
    <3>1. result' = result
      BY <2>2 DEF ContextDone, DeadlinePasses, ClientGone, vars
    <3> QED  BY <1>1, <1>5, <3>1 DEF HopInv, Ended
  <2> QED  BY <2>1, <2>2
<1> QED  BY <1>2, <1>3, <1>4, <1>6 DEF HopInv

(* Every step keeps the invariant.                                         *)
LEMMA NextHopInv == IInv /\ HopInv /\ [Next]_vars => HopInv'
<1> SUFFICES ASSUME IInv, HopInv, [Next]_vars PROVE HopInv'
  OBVIOUS
<1>1. CASE DepthExceeded \/ BudgetExceeded \/ StartQuery
  BY <1>1, LoopHopSteps
<1>2. CASE SkipBlocked \/ SendQuery
  BY <1>2, CandidateHopSteps
<1>3. CASE BudgetExhausted \/ LoopDetected \/ CandidatesExhausted
  BY <1>3, CandidateLoopEnds
<1>4. CASE ExchangeTimeout \/ ExchangeError
  BY <1>4, ExchangeHopSteps
<1>5. CASE \E m \in Messages : Receive(m)
  <2>1. PICK m \in Messages : Receive(m)
    BY <1>5
  <2>2. CASE TruncatedResponse(m)
    BY <2>2, ExchangeHopSteps
  <2>3. CASE \/ ReceiveRcode(m) \/ ReceiveAlias(m) \/ ReceiveAnswer(m)
             \/ ReceiveReferralWithGlue(m) \/ ReceiveUnusable(m)
             \/ ReceiveReferralWithoutGlue(m)
    BY <2>3, ReceiveHopSteps
  <2> QED  BY <2>1, <2>2, <2>3 DEF Receive
<1>6. CASE SupportLookup
  BY <1>6, SupportLookupHopStep
<1>7. CASE ReferralResolved \/ ReferralUnusable
  BY <1>7, ReferralHopSteps
<1>8. CASE AddressesFound \/ TryIPv6 \/ NoAddress
  BY <1>8, ReturnedHopSteps
<1>9. CASE Finish \/ ContextDone \/ UNCHANGED vars
  BY <1>9, OutsideHopSteps
<1> QED
  BY <1>1, <1>2, <1>3, <1>4, <1>5, <1>6, <1>7, <1>8, <1>9 DEF Next, Step, Done

(* The hops, the activations and the outcome agree in every state.         *)
THEOREM HopInvariance == Spec => []HopInv
  BY InitHopInv, NextHopInv, Invariance, PTL DEF Spec

-----------------------------------------------------------------------------
(* The results.                                                            *)

(* "Do not fabricate hops": every hop traceName appends, in its candidate  *)
(* loop, after a response or after the support lookups of a referral, is   *)
(* of a question that was really put, and only a LOOP hop repeats one.     *)
THEOREM HopsAreReal == Spec => []NoFabricatedHops
<1>1. HopInv => NoFabricatedHops
  BY DEF HopInv, QuestionsInv
<1> QED  BY <1>1, HopInvariance, PTL

(* When Trace returns, every hop of a support lookup is followed by the    *)
(* referral nextCandidatesForReferral held while it looked the nameservers *)
(* up, or by the error hop made of it, however deep the lookups nested.    *)
THEOREM SupportHopsFollowed == Spec => []SupportHopsHaveReferral
<1>1. HopInv => SupportHopsHaveReferral
  <2> SUFFICES ASSUME HopInv, result # NoResult,
                      NEW i \in DOMAIN hops, hops[i].parent # NoParent
               PROVE  \E j \in i + 1 .. Len(hops) :
                        /\ hops[j].index = hops[i].parent
                        /\ hops[j].kind \in {"referral", "error"}
    BY DEF SupportHopsHaveReferral
  <2>1. Len(stack) = 0
    BY DEF HopInv, Ended
  <2>2. \A s \in 1..Len(stack) : FALSE
    BY <2>1
  <2> QED  BY <2>2 DEF HopInv, Covered
<1> QED  BY <1>1, HopInvariance, PTL

(* The outcome Trace returns is that of its last hop, a hop of the journey *)
(* itself, whichever of the ways out of traceName was taken.               *)
THEOREM OutcomeIsOfLastHop == Spec => []OutcomeDescribesLastHop
<1>1. HopInv => OutcomeDescribesLastHop
  BY DEF HopInv, Ended, Describes, OutcomeDescribesLastHop
<1> QED  BY <1>1, HopInvariance, PTL

(* Trace reports a guardrail only when MaxUpstreamQueries questions were   *)
(* put or MaxDepth top-level hops recorded.                                *)
THEOREM GuardrailIsSpent == Spec => []GuardrailOnlyWhenSpent
<1>1. HopInv => GuardrailOnlyWhenSpent
  BY DEF HopInv, Ended, Describes, GuardrailOnlyWhenSpent, TopLevelPlaces
<1> QED  BY <1>1, HopInvariance, PTL
=============================================================================
