--------------------------- MODULE SequenceLemmas ---------------------------
(* Lemmas about sequences that several proofs cite.                        *)
EXTENDS Integers, Sequences, SequencesExt, SequenceTheorems, NaturalsInduction,
        WellFoundedInduction, TLAPS

(* What Front returns.                                                     *)
LEMMA FrontType ==
  ASSUME NEW S, NEW s \in Seq(S), s # << >>
  PROVE  /\ Front(s) \in Seq(S) /\ Len(Front(s)) = Len(s) - 1
         /\ \A i \in 1..(Len(s) - 1) : Front(s)[i] = s[i]
<1> DEFINE n == Len(s) - 1
<1>1. n \in Nat /\ \A i \in 1..n : s[i] \in S
  OBVIOUS
<1>2. /\ SubSeq(s, 1, n) \in Seq(S)
      /\ Len(SubSeq(s, 1, n)) = IF 1 <= n THEN n - 1 + 1 ELSE 0
      /\ \A i \in 1..(n - 1 + 1) : SubSeq(s, 1, n)[i] = s[1 + i - 1]
  <2> HIDE DEF n
  <2> QED  BY <1>1, SubSeqProperties
<1>3. Front(s) = SubSeq(s, 1, n)
  BY DEF Front
<1>4. n - 1 + 1 = n /\ \A i \in 1..n : 1 + i - 1 = i
  BY <1>1
<1> HIDE DEF n
<1>5. Len(SubSeq(s, 1, n)) = n
  <2> DEFINE l == Len(SubSeq(s, 1, n))
  <2>1. l = IF 1 <= n THEN n - 1 + 1 ELSE 0
    BY <1>2
  <2> HIDE DEF l
  <2>2. l = n
    BY <1>1, <2>1
  <2> QED  BY <2>2 DEF l
<1>6. \A i \in 1..n : SubSeq(s, 1, n)[i] = s[i]
  BY <1>2, <1>4
<1> QED  BY <1>2, <1>3, <1>5, <1>6, Zenon DEF n

(* A sequence is its front with its last element after it.                 *)
LEMMA FrontAndLast ==
  ASSUME NEW S, NEW s \in Seq(S), s # << >>
  PROVE  s = Append(Front(s), Last(s))
<1> DEFINE n == Len(s)
           f == Front(s)
           t == Append(f, Last(s))
<1>1. n \in Nat /\ n >= 1 /\ Last(s) = s[n] /\ s[n] \in S
  BY DEF Last
<1>2. f \in Seq(S) /\ Len(f) = n - 1 /\ \A i \in 1..(n - 1) : f[i] = s[i]
  BY FrontType
<1> HIDE DEF f
<1>3. t \in Seq(S) /\ Len(t) = n /\ \A i \in 1..n : t[i] = s[i]
  <2> HIDE DEF n
  <2> QED  BY <1>1, <1>2
<1> HIDE DEF t
<1>4. t = s
  BY <1>3, SeqEqual
<1> QED  BY <1>4 DEF t, f

(* Every non-empty set of naturals has a least element.  The proofs below  *)
(* use it in place of induction.                                           *)
LEMMA NatMinimum ==
  ASSUME NEW T \in SUBSET Nat, T # {}
  PROVE  \E m \in T : \A n \in T : m <= n
<1> DEFINE R == {ss \in Nat \X Nat : ss[1] < ss[2]}
<1>1. IsWellFoundedOn(R, Nat)
  BY NatLessThanWellFounded, Zenon DEF OpToRel
<1>2. \A m, n \in Nat : ~(<<n, m>> \in R) => m <= n
  OBVIOUS
<1> HIDE DEF R
<1>3. PICK m \in T : \A n \in T : ~(<<n, m>> \in R)
  BY <1>1, WFMin, T \subseteq Nat, Zenon
<1>4. \A n \in T : m <= n
  BY <1>2, <1>3
<1> QED  BY <1>4

(* FlattenSeq(ss) is built by a recursive function that exists.            *)
LEMMA FlattenSeqStages ==
  ASSUME NEW S, NEW ss \in Seq(Seq(S))
  PROVE  \E F : /\ F = [i \in 1..Len(ss) |-> IF i = 1 THEN ss[i] ELSE F[i-1] \o ss[i]]
                /\ FlattenSeq(ss) = IF Len(ss) = 0 THEN ss ELSE F[Len(ss)]
<1> DEFINE L == Len(ss)
           Body(f, n) == [i \in 1..n |-> IF i = 1 THEN ss[i] ELSE f[i-1] \o ss[i]]
           Def(n) == \E f : f = Body(f, n)
<1>0. L \in Nat /\ \A i \in 1..L : ss[i] \in Seq(S)
  OBVIOUS
<1>1. Def(0)
  <2>1. << >> = Body(<< >>, 0)  OBVIOUS
  <2> QED  BY <2>1
<1>2. ASSUME NEW m \in Nat, m # 0, Def(m - 1)  PROVE Def(m)
  <2>1. PICK g : g = Body(g, m - 1)
    BY <1>2
  <2> DEFINE f == [i \in 1..m |->
                     IF i = m THEN (IF m = 1 THEN ss[m] ELSE g[m-1] \o ss[m]) ELSE g[i]]
  <2>2. ASSUME NEW i \in 1..m
        PROVE f[i] = IF i = 1 THEN ss[i] ELSE f[i-1] \o ss[i]
    <3>1. CASE i = m  BY <3>1, <1>2
    <3>2. CASE i # m
      <4>1. i \in 1..(m-1)  BY <3>2, <1>2
      <4>2. g[i] = IF i = 1 THEN ss[i] ELSE g[i-1] \o ss[i]
        BY <2>1, <4>1, Zenon
      <4> QED  BY <4>1, <4>2, <1>2
    <3> QED  BY <3>1, <3>2
  <2>3. f = Body(f, m)
    BY <2>2
  <2> QED  BY <2>3
<1>3. Def(L)
  <2> HIDE DEF Def
  <2> DEFINE T == {n \in Nat : ~Def(n)}
  <2>1. SUFFICES ASSUME T # {} PROVE FALSE
    BY <1>0
  <2>2. PICK m \in T : \A n \in T : m <= n
    <3>1. T \in SUBSET Nat  OBVIOUS
    <3> HIDE DEF T
    <3> QED  BY <2>1, <3>1, NatMinimum
  <2>3. m \in Nat /\ m # 0 /\ ~Def(m)
    BY <1>1, <2>2
  <2>4. m - 1 \in Nat /\ m - 1 \notin T
    BY <2>2, <2>3
  <2> QED  BY <1>2, <2>3, <2>4
<1> DEFINE F == CHOOSE f : f = Body(f, L)
<1>4. F = Body(F, L)
  BY <1>3, Zenon
<1>5. FlattenSeq(ss) = IF L = 0 THEN ss ELSE F[L]
  BY Zenon DEF FlattenSeq
<1> QED  BY <1>4, <1>5

(* FlattenSeq concatenates sequences over S into a sequence over S: the    *)
(* recursive function it is made of exists and has values in Seq(S).       *)
LEMMA FlattenSeqType ==
  ASSUME NEW S, NEW ss \in Seq(Seq(S))
  PROVE  FlattenSeq(ss) \in Seq(S)
<1> DEFINE L == Len(ss)
<1>0. L \in Nat /\ \A i \in 1..L : ss[i] \in Seq(S)
  OBVIOUS
<1>1. PICK F : /\ F = [i \in 1..L |-> IF i = 1 THEN ss[i] ELSE F[i-1] \o ss[i]]
               /\ FlattenSeq(ss) = IF L = 0 THEN ss ELSE F[L]
  BY FlattenSeqStages
<1>6. ASSUME L # 0 PROVE F[L] \in Seq(S)
  <2> DEFINE T == {n \in 1..L : F[n] \notin Seq(S)}
  <2> SUFFICES ASSUME T # {} PROVE FALSE
    BY <1>0, <1>6
  <2>2. PICK m \in T : \A n \in T : m <= n
    <3>1. T \in SUBSET Nat  BY <1>0
    <3> HIDE DEF T
    <3> QED  BY <3>1, NatMinimum
  <2>m. m \in 1..L /\ F[m] \notin Seq(S)
    BY <2>2
  <2>3. F[m] = IF m = 1 THEN ss[m] ELSE F[m-1] \o ss[m]
    BY <1>1, <2>m, Zenon
  <2>4. m # 1
    BY <1>0, <2>m, <2>3
  <2>5. m - 1 \in 1..L /\ m - 1 \notin T
    BY <1>0, <2>2, <2>m, <2>4
  <2>6. F[m-1] \in Seq(S)
    BY <2>5
  <2>7. ss[m] \in Seq(S)  BY <1>0, <2>m
  <2> QED  BY <2>m, <2>3, <2>4, <2>6, <2>7
<1> QED  BY <1>0, <1>1, <1>6

(* Flattening one more sequence appends it.                                *)
LEMMA FlattenSeqAppend ==
  ASSUME NEW S, NEW ss \in Seq(Seq(S)), NEW t \in Seq(S)
  PROVE  FlattenSeq(Append(ss, t)) = FlattenSeq(ss) \o t
<1> DEFINE L  == Len(ss)
           us == Append(ss, t)
<1>1. /\ L \in Nat /\ us \in Seq(Seq(S)) /\ Len(us) = L + 1 /\ us[L + 1] = t
      /\ \A i \in 1..L : us[i] = ss[i] /\ ss[i] \in Seq(S)
  OBVIOUS
<1> HIDE DEF us
<1>2. PICK F : /\ F = [i \in 1..L |-> IF i = 1 THEN ss[i] ELSE F[i-1] \o ss[i]]
               /\ FlattenSeq(ss) = IF L = 0 THEN ss ELSE F[L]
  BY FlattenSeqStages
<1>3. PICK G : /\ G = [i \in 1..Len(us) |-> IF i = 1 THEN us[i] ELSE G[i-1] \o us[i]]
               /\ FlattenSeq(us) = IF Len(us) = 0 THEN us ELSE G[Len(us)]
  BY <1>1, FlattenSeqStages
<1>4. /\ \A i \in 1..L : F[i] = IF i = 1 THEN ss[i] ELSE F[i-1] \o ss[i]
      /\ \A i \in 1..(L + 1) : G[i] = IF i = 1 THEN us[i] ELSE G[i-1] \o us[i]
      /\ FlattenSeq(us) = G[L + 1]
  <2>1. \A i \in 1..L : F[i] = IF i = 1 THEN ss[i] ELSE F[i-1] \o ss[i]
    BY <1>2, Zenon
  <2>2. \A i \in 1..Len(us) : G[i] = IF i = 1 THEN us[i] ELSE G[i-1] \o us[i]
    BY <1>3, Zenon
  <2>3. Len(us) # 0
    BY <1>1
  <2>4. FlattenSeq(us) = G[Len(us)]
    BY <1>3, <2>3, Zenon
  <2> QED  BY <1>1, <2>1, <2>2, <2>4, Zenon
<1>5. \A i \in 1..L : G[i] = F[i]
  <2> DEFINE T == {i \in 1..L : G[i] # F[i]}
  <2> SUFFICES ASSUME T # {} PROVE FALSE
    OBVIOUS
  <2>1. PICK m \in T : \A n \in T : m <= n
    <3>1. T \in SUBSET Nat
      BY <1>1
    <3> HIDE DEF T
    <3> QED  BY <3>1, NatMinimum
  <2>2. m \in 1..L /\ G[m] # F[m] /\ m \in 1..(L + 1) /\ us[m] = ss[m]
    BY <1>1, <2>1
  <2>3. m # 1
    BY <1>4, <2>2
  <2>4. m - 1 \in 1..L /\ m - 1 \notin T
    BY <1>1, <2>1, <2>2, <2>3
  <2>5. G[m - 1] = F[m - 1]
    BY <2>4
  <2> QED  BY <1>4, <2>2, <2>3, <2>5
<1>6. CASE L = 0
  <2>1. G[1] = t /\ FlattenSeq(us) = G[1]
    BY <1>1, <1>4, <1>6
  <2>2. FlattenSeq(ss) = << >>
    <3>1. ss = << >>
      BY <1>1, <1>6
    <3> QED  BY <1>2, <1>6, <3>1
  <2>3. << >> \o t = t
    BY ConcatEmptySeq, Zenon
  <2> QED  BY <2>1, <2>2, <2>3, Zenon DEF us
<1>7. CASE L # 0
  <2>1. L \in 1..L /\ L + 1 \in 1..(L + 1) /\ L + 1 # 1 /\ (L + 1) - 1 = L
    BY <1>1, <1>7
  <2>2. G[L + 1] = G[L] \o t
    BY <1>1, <1>4, <2>1
  <2>3. G[L] = FlattenSeq(ss)
    BY <1>2, <1>5, <1>7, <2>1
  <2> QED  BY <1>4, <2>2, <2>3 DEF us
<1> QED  BY <1>6, <1>7

(* A function on 1..n is a sequence of length n.                           *)
LEMMA FunctionIsSeq ==
  ASSUME NEW S, NEW n \in Nat, NEW f \in [1..n -> S]
  PROVE  f \in Seq(S)
  OBVIOUS

(* r is what s has at the places of K, in order; f says where from.        *)
Selects(f, s, K, r) ==
  /\ f \in [1..Len(r) -> K]
  /\ \A j, k \in 1..Len(r) : j < k => f[j] < f[k]
  /\ \A i \in K : \E j \in 1..Len(r) : f[j] = i
  /\ \A j \in 1..Len(r) : r[j] = s[f[j]]

(* A filter: what is left of s when the places outside K are dropped is    *)
(* what s has at the places of K, in order.                                *)
LEMMA FilterShape ==
  ASSUME NEW S, NEW s \in Seq(S), NEW K \in SUBSET (1..Len(s)), NEW r,
         r = FlattenSeq([i \in DOMAIN s |-> IF i \in K THEN <<s[i]>> ELSE << >>])
  PROVE  r \in Seq(S) /\ \E f : Selects(f, s, K, r)
<1> DEFINE L  == Len(s)
           ss == [i \in DOMAIN s |-> IF i \in K THEN <<s[i]>> ELSE << >>]
           Picks(t, n) == t \in Seq(S) /\ \E f : Selects(f, s, K \cap (1..n), t)
<1>1. L \in Nat /\ DOMAIN s = 1..L /\ \A i \in 1..L : s[i] \in S
  OBVIOUS
<1>2. \A i \in 1..L : ss[i] = (IF i \in K THEN <<s[i]>> ELSE << >>) /\ ss[i] \in Seq(S)
  BY <1>1
<1>3. ss \in Seq(Seq(S)) /\ Len(ss) = L
  <2>1. ss \in [1..L -> Seq(S)]
    BY <1>1, <1>2
  <2>2. DOMAIN ss = 1..L
    BY <1>1
  <2> HIDE DEF ss
  <2> QED  BY <1>1, <2>1, <2>2, FunctionIsSeq
<1> HIDE DEF ss
<1>4. PICK F : /\ F = [i \in 1..L |-> IF i = 1 THEN ss[i] ELSE F[i-1] \o ss[i]]
               /\ FlattenSeq(ss) = IF L = 0 THEN ss ELSE F[L]
  BY <1>3, FlattenSeqStages
<1>5. \A i \in 1..L : F[i] = IF i = 1 THEN ss[i] ELSE F[i-1] \o ss[i]
  BY <1>4, Zenon
<1>6. ASSUME NEW n \in 1..L, NEW t, Picks(t, n - 1)
      PROVE  Picks(t \o ss[n], n)
  <2>0. PICK f : Selects(f, s, K \cap (1..(n - 1)), t)
    BY <1>6
  <2>1. /\ f \in [1..Len(t) -> K \cap (1..(n - 1))]
        /\ \A j, k \in 1..Len(t) : j < k => f[j] < f[k]
        /\ \A i \in K \cap (1..(n - 1)) : \E j \in 1..Len(t) : f[j] = i
        /\ \A j \in 1..Len(t) : t[j] = s[f[j]]
    BY <2>0 DEF Selects
  <2>2. t \in Seq(S) /\ Len(t) \in Nat
    BY <1>6
  <2>3. CASE n \in K
    <3> DEFINE u == t \o <<s[n]>>
               m == Len(t) + 1
               g == [j \in 1..m |-> IF j = m THEN n ELSE f[j]]
    <3>1. u \in Seq(S) /\ Len(u) = m /\ u[m] = s[n] /\ \A j \in 1..Len(t) : u[j] = t[j]
      BY <1>1, <2>2
    <3>2. \A j \in 1..Len(t) : f[j] \in K /\ f[j] \in 1..(n - 1)
      BY <2>1
    <3>3. g \in [1..m -> K \cap (1..n)]
      BY <2>2, <2>3, <3>2
    <3>4. ASSUME NEW j \in 1..m, NEW k \in 1..m, j < k  PROVE g[j] < g[k]
      <4>1. j \in 1..Len(t)
        BY <2>2, <3>4
      <4>2. CASE k = m
        BY <2>2, <3>2, <4>1, <4>2
      <4>3. CASE k # m
        BY <2>1, <2>2, <3>4, <4>1, <4>3
      <4> QED  BY <4>2, <4>3
    <3>5. ASSUME NEW i \in K \cap (1..n)  PROVE \E j \in 1..m : g[j] = i
      <4>1. CASE i = n
        BY <2>2, <4>1
      <4>2. CASE i # n
        <5>1. PICK j \in 1..Len(t) : f[j] = i
          BY <2>1, <3>5, <4>2
        <5>2. j \in 1..m /\ j # m
          BY <2>2, <5>1
        <5> QED  BY <5>1, <5>2
      <4> QED  BY <4>1, <4>2
    <3>6. ASSUME NEW j \in 1..m  PROVE u[j] = s[g[j]]
      <4>1. CASE j = m
        BY <3>1, <4>1
      <4>2. CASE j # m
        <5>1. j \in 1..Len(t)
          BY <2>2, <4>2
        <5> QED  BY <2>1, <3>1, <4>2, <5>1
      <4> QED  BY <4>1, <4>2
    <3> HIDE DEF g, u
    <3>7. Picks(u, n)
      <4>1. Selects(g, s, K \cap (1..n), u)
        BY <3>1, <3>3, <3>4, <3>5, <3>6 DEF Selects
      <4> QED  BY <3>1, <4>1
    <3>8. ss[n] = <<s[n]>>
      BY <1>2, <2>3
    <3> HIDE DEF Picks
    <3>9. t \o ss[n] = u
      BY <3>8 DEF u
    <3> QED  BY <3>7, <3>9
  <2>4. CASE n \notin K
    <3>1. ss[n] = << >>
      BY <1>2, <2>4
    <3>2. K \cap (1..n) = K \cap (1..(n - 1))
      BY <2>4
    <3>3. Picks(t, n)
      BY <1>6, <3>2
    <3> HIDE DEF Picks
    <3>4. t \o << >> = t
      BY <2>2, ConcatEmptySeq, Zenon
    <3> QED  BY <3>1, <3>3, <3>4
  <2> QED  BY <2>3, <2>4
<1>7. Picks(<< >>, 0)
  <2>1. << >> \in Seq(S) /\ Len(<< >>) = 0 /\ K \cap (1..0) = {}
    OBVIOUS
  <2>2. << >> \in [1..0 -> {}]
    OBVIOUS
  <2>3. Selects(<< >>, s, K \cap (1..0), << >>)
    BY <2>1, <2>2 DEF Selects
  <2> QED  BY <2>1, <2>3
<1> HIDE DEF Picks
<1>8. \A n \in 1..L : Picks(F[n], n)
  <2> DEFINE T == {n \in 1..L : ~Picks(F[n], n)}
  <2> SUFFICES ASSUME T # {} PROVE FALSE
    OBVIOUS
  <2>1. PICK n \in T : \A k \in T : n <= k
    <3>1. T \in SUBSET Nat
      BY <1>1
    <3> HIDE DEF T
    <3> QED  BY <3>1, NatMinimum
  <2>2. n \in 1..L /\ ~Picks(F[n], n)
    BY <2>1
  <2>3. CASE n = 1
    <3>1. F[n] = ss[n] /\ ss[n] \in Seq(S)
      BY <1>2, <1>5, <2>2, <2>3
    <3>2. F[n] = << >> \o ss[n]
      BY <3>1, ConcatEmptySeq, Zenon
    <3>3. Picks(<< >>, n - 1)
      BY <1>7, <2>3
    <3> QED  BY <1>6, <2>2, <3>2, <3>3
  <2>4. CASE n # 1
    <3>1. n - 1 \in 1..L /\ n - 1 \notin T
      BY <1>1, <2>1, <2>2, <2>4
    <3>2. Picks(F[n - 1], n - 1)
      BY <3>1
    <3>3. F[n] = F[n - 1] \o ss[n]
      BY <1>5, <2>2, <2>4
    <3> QED  BY <1>6, <2>2, <3>2, <3>3
  <2> QED  BY <2>3, <2>4
<1>9. Picks(FlattenSeq(ss), L)
  <2>1. CASE L = 0
    <3>1. ss = << >>
      BY <1>3, <2>1
    <3> QED  BY <1>4, <1>7, <2>1, <3>1
  <2>2. CASE L # 0
    BY <1>1, <1>4, <1>8, <2>2
  <2> QED  BY <2>1, <2>2
<1>10. K \cap (1..L) = K
  OBVIOUS
<1>11. Picks(r, L)
  BY <1>9 DEF ss
<1> QED  BY <1>10, <1>11 DEF Picks

(* A suffix of a sequence is its end.                                      *)
LEMMA SuffixIs ==
  ASSUME NEW S, NEW s \in Seq(S), NEW t \in Seq(S)
  PROVE  IsSuffix(s, t) <=>
           /\ Len(s) <= Len(t)
           /\ \A i \in 1..Len(s) : s[i] = t[Len(t) - Len(s) + i]
<1> DEFINE m == Len(s)
           n == Len(t)
           rs == Reverse(s)
           rt == Reverse(t)
<1>1. /\ m \in Nat /\ n \in Nat
      /\ \A i \in 1..m : s[i] \in S /\ m - i + 1 \in 1..m
      /\ \A i \in 1..n : t[i] \in S /\ n - i + 1 \in 1..n
  OBVIOUS
<1>2. /\ rs \in Seq(S) /\ Len(rs) = m /\ rt \in Seq(S) /\ Len(rt) = n
      /\ \A i \in 1..m : rs[i] = s[m - i + 1]
      /\ \A i \in 1..n : rt[i] = t[n - i + 1]
  <2>1. rs = [i \in 1..m |-> s[m - i + 1]] /\ rt = [i \in 1..n |-> t[n - i + 1]]
    BY DEF Reverse
  <2> HIDE DEF rs, rt, m, n
  <2>2. rs \in [1..m -> S] /\ rt \in [1..n -> S]
    BY <1>1, <2>1
  <2>3. rs \in Seq(S) /\ Len(rs) = m /\ rt \in Seq(S) /\ Len(rt) = n
    BY <1>1, <2>2, FunctionIsSeq
  <2> QED  BY <2>1, <2>3
<1> HIDE DEF rs, rt, m, n
<1>3. IsSuffix(s, t) <=> m <= n /\ SubSeq(rs, 1, m) = SubSeq(rt, 1, m)
  <2>1. IsSuffix(s, t) <=> IsPrefix(rs, rt)
    BY DEF IsSuffix, rs, rt
  <2> HIDE DEF rs, rt
  <2>2. IsPrefix(rs, rt) <=> Len(rs) <= Len(rt) /\ SubSeq(rs, 1, Len(rs)) = SubSeq(rt, 1, Len(rs))
    BY DEF IsPrefix
  <2> QED  BY <1>2, <2>1, <2>2
<1>4. ASSUME m <= n
      PROVE  SubSeq(rs, 1, m) = SubSeq(rt, 1, m) <=> \A i \in 1..m : rs[i] = rt[i]
  <2>1. (\A i \in 1..m : rs[i] \in S) /\ (\A i \in 1..m : rt[i] \in S)
    BY <1>1, <1>2, <1>4
  <2> DEFINE a == SubSeq(rs, 1, m)
             b == SubSeq(rt, 1, m)
  <2>2. /\ a \in Seq(S) /\ Len(a) = (IF 1 <= m THEN m - 1 + 1 ELSE 0)
        /\ \A i \in 1..(m - 1 + 1) : a[i] = rs[1 + i - 1]
    BY <1>1, <2>1, SubSeqProperties
  <2>3. /\ b \in Seq(S) /\ Len(b) = (IF 1 <= m THEN m - 1 + 1 ELSE 0)
        /\ \A i \in 1..(m - 1 + 1) : b[i] = rt[1 + i - 1]
    BY <1>1, <2>1, SubSeqProperties
  <2> HIDE DEF a, b
  <2>4. /\ Len(a) = m /\ Len(b) = m
        /\ \A i \in 1..m : a[i] = rs[i] /\ b[i] = rt[i]
    BY <1>1, <2>2, <2>3
  <2>5. a = b <=> \A i \in 1..m : a[i] = b[i]
    BY <2>2, <2>3, <2>4, SeqEqual
  <2> QED  BY <2>4, <2>5 DEF a, b
<1>5. ASSUME m <= n
      PROVE  (\A i \in 1..m : rs[i] = rt[i]) <=> (\A i \in 1..m : s[i] = t[n - m + i])
  <2>1. \A i \in 1..m : i \in 1..n /\ rs[i] = s[m - i + 1] /\ rt[i] = t[n - i + 1]
    BY <1>1, <1>2, <1>5
  <2>2. \A i \in 1..m : /\ m - i + 1 \in 1..m /\ m - (m - i + 1) + 1 = i
                        /\ n - m + (m - i + 1) = n - i + 1
                        /\ n - (m - i + 1) + 1 = n - m + i
    BY <1>1
  <2>3. ASSUME \A i \in 1..m : rs[i] = rt[i], NEW i \in 1..m  PROVE s[i] = t[n - m + i]
    <3>1. rs[m - i + 1] = rt[m - i + 1]
      BY <2>2, <2>3
    <3> QED  BY <2>1, <2>2, <3>1
  <2>4. ASSUME \A i \in 1..m : s[i] = t[n - m + i], NEW i \in 1..m  PROVE rs[i] = rt[i]
    <3>1. s[m - i + 1] = t[n - m + (m - i + 1)]
      BY <2>2, <2>4
    <3> QED  BY <2>1, <2>2, <3>1
  <2> QED  BY <2>3, <2>4
<1> QED  BY <1>3, <1>4, <1>5 DEF m, n
=============================================================================
