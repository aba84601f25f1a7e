-------------------------- MODULE ApiProcessProofs --------------------------
(***************************************************************************)
(* Theorems about ApiProcess, for every environment, every set of labels   *)
(* and every question.                                                     *)
(***************************************************************************)
EXTENDS ApiProcess, SequenceLemmas, TLAPS

-----------------------------------------------------------------------------
(* The settings.                                                           *)

(* How often p goes into a.                                               *)
LEMMA Quotient ==
  ASSUME NEW a \in Nat, NEW p \in Nat, p > 0
  PROVE  a \div p \in Nat /\ p * (a \div p) <= a /\ (p <= a => a \div p >= 1)
OBVIOUS

(* Multiplication is monotone.                                             *)
LEMMA Monotone ==
  ASSUME NEW a \in Nat, NEW b \in Nat, NEW t \in Nat, a <= b
  PROVE  a * t <= b * t
<1>1. (b - a) * t \in Nat
  OBVIOUS
<1>2. b * t = a * t + (b - a) * t
  OBVIOUS
<1>3. a * t \in Nat
  OBVIOUS
<1> QED  BY <1>1, <1>2, <1>3

(* The fixed times, in minutes.                                            *)
LEMMA Constants ==
  Minute \in Nat /\ Minute >= 1 /\ LimiterTTL = 15 * Minute /\ RetryAfterRateLimited = Minute
BY DEF Minute, Second, LimiterTTL, RetryAfterRateLimited

(* A limiter gains a token every minute or more often.                     *)
LEMMA IntervalInRange ==
  ASSUME NEW p \in Nat, p > 0, p <= Minute
  PROVE  Minute \div p \in 1..RetryAfterRateLimited
<1> DEFINE t == Minute \div p
<1>1. t \in Nat /\ p * t <= Minute /\ t >= 1
  BY Constants, Quotient
<1> HIDE DEF t
<1>2. 1 * t <= p * t
  BY <1>1, Monotone
<1>3. t \in 1..Minute
  BY <1>1, <1>2, Constants
<1> QED  BY <1>3, Constants DEF t

(* A bucket whose burst is at most 14 times the rate fills in 14 minutes.  *)
LEMMA FillsInTime ==
  ASSUME NEW p \in Nat, p > 0, NEW burst \in Nat, burst <= 14 * p
  PROVE  burst * (Minute \div p) + Minute <= LimiterTTL
<1> DEFINE t == Minute \div p
<1>1. t \in Nat /\ p * t <= Minute
  BY Constants, Quotient
<1> HIDE DEF t
<1>2. burst * t <= (14 * p) * t
  BY <1>1, Monotone
<1>3. (14 * p) * t = 14 * (p * t)
  BY <1>1
<1>4. p * t \in Nat /\ burst * t \in Nat
  BY <1>1
<1>5. burst * t + Minute <= LimiterTTL
  BY <1>1, <1>2, <1>3, <1>4, Constants
<1> QED  BY <1>5 DEF t

(* The settings by name.                                                   *)
LEMMA SettableNames ==
  Settable = {"RATE_LIMIT_PER_MINUTE", "RATE_LIMIT_BURST", "MAX_CONCURRENT_TRACES",
              "BODY_LIMIT_BYTES", "MAX_HEADER_BYTES"} \cup Timeouts
BY DEF Settable, Fallback, Timeouts

(* Every default is a positive number.                                     *)
LEMMA Fallbacks ==
  /\ \A v \in Settable : Fallback[v] \in Nat /\ Fallback[v] >= 1
  /\ Fallback["RATE_LIMIT_PER_MINUTE"] <= Minute
  /\ Fallback["READ_TIMEOUT"] + OverallTimeout < Fallback["WRITE_TIMEOUT"]
<1>1. \A v \in Settable : Fallback[v] \in Nat /\ Fallback[v] >= 1
  BY DEF Fallback, Settable, Minute, Second
<1>2. Fallback["RATE_LIMIT_PER_MINUTE"] = 20
  BY DEF Fallback, Settable
<1>3. /\ Fallback["READ_TIMEOUT"] = 10 * Second
      /\ Fallback["WRITE_TIMEOUT"] = 30 * Second
  BY DEF Fallback, Settable
<1> QED  BY <1>1, <1>2, <1>3 DEF Minute, Second, OverallTimeout

(* Without negative numbers every setting is in force.                     *)
LEMMA InForce ==
  ASSUME NEW e \in Environments, NEW v \in Settable, IsNumber(e[v]) => e[v] >= 0
  PROVE  LET s == OrDefault(FromEnv(e, v), v)
         IN  /\ s \in Nat /\ s >= 1
             /\ ~IsNumber(e[v]) => s = Fallback[v]
<1>1. e[v] \in {Unset, Garbage} \/ e[v] \in Int
  BY ProcessAssumption
<1>2. CASE IsNumber(e[v])
  <2>1. e[v] \in Int /\ e[v] >= 0
    BY <1>1, <1>2 DEF IsNumber
  <2> QED  BY <1>2, <2>1, Fallbacks DEF OrDefault, FromEnv
<1>3. CASE ~IsNumber(e[v])
  BY <1>3, Fallbacks DEF OrDefault, FromEnv
<1> QED  BY <1>2, <1>3

(* What the process works with is what its environment says.               *)
SettingsInv ==
  /\ env \in Environments
  /\ settings = Configured(env)
  /\ process = "listening" => ~Panics(settings)

(* No step but a restart changes the environment or the settings.          *)
LEMMA SettingsInvariance == Spec => []SettingsInv
<1>1. Init => SettingsInv
  BY DEF Init, SettingsInv
<1>2. SettingsInv /\ [Next]_vars => SettingsInv'
  <2> SUFFICES ASSUME SettingsInv, [Next]_vars PROVE SettingsInv'
    OBVIOUS
  <2>1. CASE Boot
    BY <2>1 DEF Boot, SettingsInv
  <2>2. CASE Restart
    BY <2>2 DEF Restart, SettingsInv
  <2>3. CASE Submit
    BY <2>3 DEF Submit, Ask, SettingsInv
  <2>4. CASE Reuse
    BY <2>4 DEF Reuse, Ask, SettingsInv
  <2>5. CASE Close
    BY <2>5 DEF Close, SettingsInv
  <2>6. CASE UNCHANGED vars
    BY <2>6 DEF vars, SettingsInv
  <2> QED  BY <2>1, <2>2, <2>3, <2>4, <2>5, <2>6 DEF Next
<1> QED  BY <1>1, <1>2, PTL DEF Spec

(* Whatever the environment holds, negative numbers apart, the limits of   *)
(* the process are in force and fit together.                              *)
THEOREM GuardrailsAreInForce == Spec => []GuardrailsInForce
<1>1. SettingsInv => GuardrailsInForce
  <2> SUFFICES ASSUME SettingsInv, process = "listening",
                      \A v \in Settable : IsNumber(env[v]) => env[v] >= 0
               PROVE  GuardrailsInForce
    BY DEF GuardrailsInForce
  <2> DEFINE Set(v) == OrDefault(FromEnv(env, v), v)
             p == Set("RATE_LIMIT_PER_MINUTE")
             burst == Set("RATE_LIMIT_BURST")
  <2>1. \A v \in Settable : Set(v) \in Nat /\ Set(v) >= 1 /\ (~IsNumber(env[v]) => Set(v) = Fallback[v])
    BY InForce DEF SettingsInv
  <2>2. p <= Minute
    <3>1. CASE IsNumber(env["RATE_LIMIT_PER_MINUTE"])
      BY <3>1, ProcessAssumption, Fallbacks DEF SettingsInv, OrDefault, FromEnv
    <3>2. CASE ~IsNumber(env["RATE_LIMIT_PER_MINUTE"])
      BY <3>2, <2>1, Fallbacks, SettableNames
    <3> QED  BY <3>1, <3>2
  <2>3. p \in Nat /\ p > 0 /\ burst \in Nat /\ burst >= 1
    BY <2>1, SettableNames
  <2>4. /\ settings.interval = Minute \div p /\ settings.burst = burst
        /\ settings.slots = Set("MAX_CONCURRENT_TRACES")
        /\ settings.bodyLimit = Set("BODY_LIMIT_BYTES")
        /\ settings.headerBytes = Set("MAX_HEADER_BYTES")
        /\ \A t \in Timeouts : settings.timeout[t] = Set(t)
    BY DEF SettingsInv, Configured
  <2>5. Timeouts \subseteq Settable
    BY SettableNames
  <2>6. /\ settings.slots >= 1 /\ settings.bodyLimit >= 1 /\ settings.headerBytes >= 1
        /\ \A t \in Timeouts : settings.timeout[t] > 0
    <3> HIDE DEF Set
    <3>1. {"MAX_CONCURRENT_TRACES", "BODY_LIMIT_BYTES", "MAX_HEADER_BYTES"} \subseteq Settable
      BY SettableNames
    <3>2. settings.slots >= 1 /\ settings.bodyLimit >= 1 /\ settings.headerBytes >= 1
      BY <2>1, <2>4, <3>1
    <3>3. \A t \in Timeouts : settings.timeout[t] > 0
      <4> SUFFICES ASSUME NEW t \in Timeouts PROVE settings.timeout[t] > 0
        OBVIOUS
      <4>1. settings.timeout[t] = Set(t)
        BY <2>4
      <4>2. Set(t) \in Nat /\ Set(t) >= 1
        BY <2>1, <2>5
      <4> QED  BY <4>1, <4>2
    <3> QED  BY <3>2, <3>3
  <2>7. ~(IsNumber(env["READ_TIMEOUT"]) \/ IsNumber(env["WRITE_TIMEOUT"])) =>
          settings.timeout["READ_TIMEOUT"] + OverallTimeout < settings.timeout["WRITE_TIMEOUT"]
    <3> HIDE DEF Set
    <3>1. {"READ_TIMEOUT", "WRITE_TIMEOUT"} \subseteq Timeouts
      BY DEF Timeouts
    <3> QED  BY <2>1, <2>4, <2>5, <3>1, Fallbacks
  <2>8. settings.interval \in 1..RetryAfterRateLimited
    <3> HIDE DEF p
    <3> QED  BY <2>2, <2>3, <2>4, IntervalInRange
  <2>9. burst <= 14 * p => settings.burst * settings.interval + Minute <= LimiterTTL
    <3> HIDE DEF p, burst
    <3> QED  BY <2>3, <2>4, FillsInTime
  <2> QED  BY <2>3, <2>4, <2>6, <2>7, <2>8, <2>9 DEF GuardrailsInForce
<1> QED  BY <1>1, SettingsInvariance, PTL

-----------------------------------------------------------------------------
(* Recent traces.                                                          *)

(* Texts split at their dots.                                              *)
Labelled == Seq(Labels) \ {<< >>}

(* What has been lowercased does not change when it is again.              *)
LEMMA ToLowerStable ==
  ASSUME NEW s \in Labelled
  PROVE  ToLower(s) \in Labelled /\ ToLower(ToLower(s)) = ToLower(s)
<1> DEFINE n == Len(s)
<1>0. /\ n \in Nat /\ s \in [1..n -> Labels] /\ n # 0
      /\ DOMAIN s = 1..n
  BY DEF Labelled
<1>1. /\ ToLower(s) \in Seq(Labels) /\ Len(ToLower(s)) = Len(s)
      /\ \A i \in 1..Len(s) : ToLower(s)[i] = Lower[s[i]]
  <2>1. ToLower(s) = [i \in 1..n |-> Lower[s[i]]]
    BY <1>0 DEF ToLower
  <2>2. ToLower(s) \in [1..n -> Labels]
    <3>1. Lower \in [Labels -> Labels]
      BY DomainAssumption
    <3> QED  BY <1>0, <2>1, <3>1
  <2>3. ToLower(s) \in Seq(Labels)
    BY <1>0, <2>2
  <2>4. Len(ToLower(s)) = n
    BY <1>0, <2>1, <2>3
  <2> QED  BY <2>1, <2>3, <2>4
<1>2. ToLower(s) # << >>
  BY <1>1 DEF Labelled
<1>3. ToLower(ToLower(s)) = ToLower(s)
  <2>1. DOMAIN ToLower(s) = 1..Len(s) /\ DOMAIN s = 1..Len(s)
    BY <1>0 DEF ToLower
  <2>2. \A i \in 1..Len(s) : Lower[ToLower(s)[i]] = Lower[s[i]]
    BY <1>0, <1>1, DomainAssumption
  <2> QED  BY <1>1, <2>1, <2>2 DEF ToLower
<1> QED  BY <1>1, <1>2, <1>3 DEF Labelled

(* The final dot is taken off, and what is left is still lower case.       *)
LEMMA TrimDotKeeps ==
  ASSUME NEW s \in Labelled, ToLower(s) = s
  PROVE  TrimDot(s) \in Labelled /\ ToLower(TrimDot(s)) = TrimDot(s)
<1>1. CASE Len(s) > 1 /\ Last(s) = ""
  <2>1. /\ Front(s) \in Seq(Labels) /\ Len(Front(s)) = Len(s) - 1
        /\ \A i \in 1 .. Len(s) - 1 : Front(s)[i] = s[i]
    <3>1. s \in Seq(Labels) /\ s # << >>
      BY DEF Labelled
    <3> QED  BY <3>1, FrontType
  <2>2. Front(s) # << >>
    <3> DEFINE n == Len(s)
               m == Len(Front(s))
    <3>1. n \in Nat
      BY DEF Labelled
    <3>2. n > 1
      BY <1>1
    <3>3. m = n - 1
      BY <2>1
    <3>4. m # Len(<< >>)
      <4> HIDE DEF n, m
      <4> QED  BY <3>1, <3>2, <3>3
    <3> QED  BY <3>4
  <2>3. \A i \in 1 .. Len(s) : Lower[s[i]] = s[i]
    <3>1. \A i \in 1 .. Len(s) : ToLower(s)[i] = Lower[s[i]]
      BY DEF ToLower, Labelled
    <3> QED  BY <3>1
  <2>4. ToLower(Front(s)) = Front(s)
    BY <2>1, <2>3 DEF ToLower
  <2> QED  BY <1>1, <2>1, <2>2, <2>4 DEF TrimDot, Labelled
<1>2. CASE ~(Len(s) > 1 /\ Last(s) = "")
  BY <1>2 DEF TrimDot
<1> QED  BY <1>1, <1>2

(* A name that has passed the checks has no dot to take off.               *)
LEMMA CheckedHasNoDot ==
  ASSUME NEW d \in Labelled, Checked(d).err = "none"
  PROVE  Checked(d) = OK(d) /\ TrimDot(d) = d
<1>1. /\ Checked(d) = OK(d)
      /\ \A i \in DOMAIN d : ValidLabel(d[i])
  BY DEF Checked, Refused, OK
<1>2. Len(d) \in DOMAIN d
  BY DEF Labelled
<1>3. Last(d) # ""
  <2>1. Octets[Last(d)] \in 1..63
    BY <1>1, <1>2 DEF ValidLabel, Last
  <2>2. Octets[""] = 0
    BY DomainAssumption
  <2>3. ~(0 \in 1..63)
    OBVIOUS
  <2> QED  BY <2>1, <2>2, <2>3, Zenon
<1> QED  BY <1>1, <1>3 DEF TrimDot

(* What NormalizeDomain returns it returns unchanged when given it again.  *)
LEMMA NormalizeDomainStable ==
  ASSUME NEW text, text.labels \in Labelled, NormalizeDomain(text).err = "none"
  PROVE  LET d == NormalizeDomain(text).domain
         IN  d \in Labelled /\ NormalizeDomain(AsTyped(d)) = OK(d)
<1> DEFINE d == TrimDot(ToLower(text.labels))
<1>1. d \in Labelled /\ ToLower(d) = d
  BY ToLowerStable, TrimDotKeeps
<1>2. Checked(d) = OK(d) /\ TrimDot(d) = d
  BY <1>1, CheckedHasNoDot DEF NormalizeDomain
<1>3. NormalizeDomain(text).domain = d
  BY <1>2 DEF NormalizeDomain, OK
<1>4. NormalizeDomain(AsTyped(d)) = OK(d)
  BY <1>1, <1>2 DEF NormalizeDomain, AsTyped
<1> QED  BY <1>1, <1>3, <1>4

(* The recent trace is a question in the form the server gave it.          *)
RecentInv ==
  recent # NoQuestion =>
    /\ recent.domain \in Labelled /\ recent.qtype \in SupportedQTypes
    /\ NormalizeDomain(AsTyped(recent.domain)) = OK(recent.domain)

(* A question that is traced leaves a recent trace in normal form.         *)
LEMMA AskKeepsRecent ==
  ASSUME RecentInv, NEW q, q.text.labels \in Labelled, Ask(q)
  PROVE  RecentInv'
<1>1. CASE UNCHANGED recent
  BY <1>1 DEF RecentInv
<1>2. CASE TraceQuestion(q)
  <2> DEFINE domain == NormalizeDomain(q.text)
             qtype == NormalizeQType(q.qtype)
  <2>1. domain.err = "none" /\ qtype.err = "none"
    BY <1>2 DEF TraceQuestion
  <2>2. recent' = [domain |-> domain.domain, qtype |-> qtype.qtype]
    BY <1>2 DEF TraceQuestion
  <2>3. domain.domain \in Labelled /\ NormalizeDomain(AsTyped(domain.domain)) = OK(domain.domain)
    BY <2>1, NormalizeDomainStable
  <2>4. qtype.qtype \in SupportedQTypes
    BY <2>1 DEF NormalizeQType
  <2> HIDE DEF domain, qtype
  <2>5. recent'.domain = domain.domain /\ recent'.qtype = qtype.qtype
    BY <2>2
  <2> QED  BY <2>3, <2>4, <2>5 DEF RecentInv
<1> QED  BY <1>1, <1>2 DEF Ask, RefuseBody, RefuseQuestion

(* Whatever is asked, and whichever process answers.                       *)
LEMMA RecentInvariance == Spec => []RecentInv
<1>1. Init => RecentInv
  BY DEF Init, RecentInv
<1>2. RecentInv /\ [Next]_vars => RecentInv'
  <2> SUFFICES ASSUME RecentInv, [Next]_vars PROVE RecentInv'
    OBVIOUS
  <2>1. CASE Submit
    <3>1. PICK q \in Questions : Ask(q)
      BY <2>1 DEF Submit
    <3>2. q.text.labels \in Labelled
      BY ProcessAssumption DEF Text, Labelled
    <3> QED  BY <3>1, <3>2, AskKeepsRecent
  <2>2. CASE Reuse
    <3> DEFINE q == [text |-> AsTyped(recent.domain), qtype |-> recent.qtype]
    <3>1. Ask(q) /\ recent # NoQuestion
      BY <2>2 DEF Reuse
    <3>2. q.text.labels \in Labelled
      BY <3>1 DEF RecentInv, AsTyped
    <3> HIDE DEF q
    <3> QED  BY <3>1, <3>2, AskKeepsRecent
  <2>3. CASE UNCHANGED recent
    BY <2>3 DEF RecentInv
  <2> QED  BY <2>1, <2>2, <2>3 DEF Next, Boot, Restart, Close, vars
<1> QED  BY <1>1, <1>2, PTL DEF Spec

(* What the page stores is stable under the normalisation of the server:   *)
(* every recent trace is accepted again, as the same question.             *)
THEOREM RecentsAreReplayable == Spec => []RecentsReplayable
<1>1. RecentInv => RecentsReplayable
  <2> SUFFICES ASSUME RecentInv, recent # NoQuestion PROVE RecentsReplayable
    BY DEF RecentsReplayable
  <2>1. recent.qtype \in SupportedQTypes /\ Upper[recent.qtype] = recent.qtype
    BY DomainAssumption DEF RecentInv
  <2>2. NormalizeQType(recent.qtype) = [err |-> "none", qtype |-> recent.qtype]
    BY <2>1 DEF NormalizeQType
  <2> QED  BY <2>2 DEF RecentInv, RecentsReplayable
<1> QED  BY <1>1, RecentInvariance, PTL

-----------------------------------------------------------------------------
(* The length of a name.                                                   *)

(* The labels of a text.                                                   *)
LEMMA LabelledShape ==
  ASSUME NEW s \in Labelled
  PROVE  /\ s \in Seq(Labels) /\ Len(s) \in Nat /\ Len(s) >= 1 /\ DOMAIN s = 1..Len(s)
         /\ \A i \in 1..Len(s) : s[i] \in Labels
<1>1. s \in Seq(Labels) /\ s # << >>
  BY DEF Labelled
<1>2. Len(s) \in Nat /\ Len(s) # 0 /\ DOMAIN s = 1..Len(s)
  BY <1>1
<1>3. \A i \in 1..Len(s) : s[i] \in Labels
  BY <1>1
<1> QED  BY <1>1, <1>2, <1>3

(* The empty label, a name of its own so that the provers that do          *)
(* arithmetic need not know of the empty string.                           *)
EmptyLabel == ""

(* The octets of a label.                                                  *)
LEMMA OctetsFacts ==
  /\ \A l \in Labels : /\ Octets[l] \in Nat /\ Octets[Lower[l]] \in Nat /\ Lower[l] \in Labels
                       /\ Octets[l] <= 3 * Octets[Lower[l]]
                       /\ l # EmptyLabel => Octets[l] >= 1
  /\ EmptyLabel \in Labels /\ Octets[EmptyLabel] = 0
<1>1. /\ Octets \in [Labels -> Nat] /\ Lower \in [Labels -> Labels]
      /\ \A l \in Labels : Octets[l] = 0 => l = EmptyLabel
      /\ \A l \in Labels : Octets[l] <= 3 * Octets[Lower[l]]
      /\ EmptyLabel \in Labels /\ Octets[EmptyLabel] = 0
  BY Zenon, DomainAssumption DEF EmptyLabel
<1>2. \A l \in Labels : Octets[l] \in Nat /\ Lower[l] \in Labels
  BY <1>1
<1>3. \A l \in Labels : Octets[Lower[l]] \in Nat
  BY <1>2
<1>4. \A l \in Labels : l # EmptyLabel => Octets[l] >= 1
  <2> SUFFICES ASSUME NEW l \in Labels, l # EmptyLabel  PROVE Octets[l] >= 1
    OBVIOUS
  <2>1. Octets[l] # 0
    BY <1>1, Zenon
  <2> QED  BY <1>2, <2>1
<1> QED  BY <1>1, <1>2, <1>3, <1>4, Zenon

(* The function Length counts with: it exists, and adds up octets.         *)
Counts(F, s) ==
  /\ \A n \in 0..Len(s) : F[n] \in Nat
  /\ F[0] = Len(s) - 1
  /\ \A n \in 1..Len(s) : F[n] = F[n - 1] + Octets[s[n]]

(* The length of a name is what such a function reaches at its end.        *)
LEMMA LengthStages ==
  ASSUME NEW s \in Labelled
  PROVE  \E F : Counts(F, s) /\ Length(s) = F[Len(s)]
<1> DEFINE L == Len(s)
           Body(f, n) == [i \in 0..n |-> IF i = 0 THEN L - 1 ELSE f[i - 1] + Octets[s[i]]]
           Def(n) == \E f : f = Body(f, n)
<1>0. L \in Nat /\ L >= 1 /\ \A i \in 1..L : s[i] \in Labels /\ Octets[s[i]] \in Nat
  BY LabelledShape, OctetsFacts
<1>1. Def(0)
  <2>1. Body([i \in 0..0 |-> L - 1], 0) = [i \in 0..0 |-> L - 1]
    OBVIOUS
  <2> QED  BY <2>1
<1>2. ASSUME NEW m \in Nat, m # 0, Def(m - 1)  PROVE Def(m)
  <2>1. PICK g : g = Body(g, m - 1)
    BY <1>2
  <2> DEFINE f == [i \in 0..m |-> IF i = m THEN g[m - 1] + Octets[s[m]] ELSE g[i]]
  <2>2. ASSUME NEW i \in 0..m
        PROVE  f[i] = IF i = 0 THEN L - 1 ELSE f[i - 1] + Octets[s[i]]
    <3>1. CASE i = m  BY <3>1, <1>2
    <3>2. CASE i # m
      <4>1. i \in 0..(m - 1)  BY <3>2, <1>2
      <4>2. g[i] = IF i = 0 THEN L - 1 ELSE g[i - 1] + Octets[s[i]]
        BY <2>1, <4>1, Zenon
      <4> QED  BY <4>1, <4>2, <1>2
    <3> QED  BY <3>1, <3>2
  <2>3. f = Body(f, m)
    BY <2>2
  <2> QED  BY <2>3
<1>3. Def(L)
  <2> HIDE DEF Def
  <2> DEFINE T == {n \in Nat : ~Def(n)}
  <2>1. SUFFICES ASSUME T # {} PROVE FALSE
    BY <1>0
  <2>2. PICK m \in T : \A n \in T : m <= n
    <3>1. T \in SUBSET Nat  OBVIOUS
    <3> HIDE DEF T
    <3> QED  BY <2>1, <3>1, NatMinimum
  <2>3. m \in Nat /\ m # 0 /\ ~Def(m)
    BY <1>1, <2>2
  <2>4. m - 1 \in Nat /\ m - 1 \notin T
    BY <2>2, <2>3
  <2> QED  BY <1>2, <2>3, <2>4
<1> DEFINE F == CHOOSE f : f = Body(f, L)
<1>4. F = Body(F, L)
  BY <1>3, Zenon
<1>5. Length(s) = F[L]
  BY Zenon DEF Length
<1> HIDE DEF F
<1>6. /\ DOMAIN F = 0..L
      /\ \A i \in 0..L : F[i] = IF i = 0 THEN L - 1 ELSE F[i - 1] + Octets[s[i]]
  <2>1. F = [i \in 0..L |-> IF i = 0 THEN L - 1 ELSE F[i - 1] + Octets[s[i]]]
    BY <1>4, Zenon
  <2>2. DOMAIN F = 0..L
    BY <2>1, Zenon
  <2>3. \A i \in 0..L : F[i] = IF i = 0 THEN L - 1 ELSE F[i - 1] + Octets[s[i]]
    BY <2>1, Zenon
  <2> QED  BY <2>2, <2>3
<1>7. F[0] = L - 1 /\ \A n \in 1..L : F[n] = F[n - 1] + Octets[s[n]]
  BY <1>0, <1>6
<1>8. \A n \in 0..L : F[n] \in Nat
  <2> DEFINE T == {n \in 0..L : F[n] \notin Nat}
  <2> SUFFICES ASSUME T # {} PROVE FALSE
    OBVIOUS
  <2>1. PICK m \in T : \A n \in T : m <= n
    <3>1. T \in SUBSET Nat  BY <1>0
    <3> HIDE DEF T
    <3> QED  BY <3>1, NatMinimum
  <2>2. m # 0 /\ m \in 1..L
    BY <1>0, <1>7, <2>1
  <2>3. m - 1 \in 0..L /\ m - 1 \notin T
    BY <1>0, <2>1, <2>2
  <2> QED  BY <1>0, <1>7, <2>1, <2>2, <2>3
<1> QED  BY <1>5, <1>7, <1>8 DEF Counts

(* A name has at least as many octets as labels that are not empty.        *)
LEMMA LengthPositive ==
  ASSUME NEW s \in Labelled
  PROVE  Length(s) \in Nat /\ (s[1] # EmptyLabel => Length(s) >= 1)
<1>1. PICK F : Counts(F, s) /\ Length(s) = F[Len(s)]
  BY LengthStages
<1> DEFINE L == Len(s)
<1>2. L \in Nat /\ L >= 1 /\ \A i \in 1..L : s[i] \in Labels /\ Octets[s[i]] \in Nat
  BY LabelledShape, OctetsFacts
<1>3. Length(s) \in Nat
  BY <1>1, <1>2 DEF Counts
<1>4. ASSUME s[1] # EmptyLabel  PROVE Length(s) >= 1
  <2>1. CASE L = 1
    <3>1. F[1] = F[0] + Octets[s[1]] /\ F[0] = 0
      BY <1>1, <1>2, <2>1 DEF Counts
    <3>2. Octets[s[1]] >= 1 /\ Octets[s[1]] \in Nat
      BY <1>2, <1>4, OctetsFacts
    <3> QED  BY <1>1, <2>1, <3>1, <3>2
  <2>2. CASE L # 1
    <3> DEFINE T == {n \in 0..L : ~(F[n] >= 1)}
    <3>1. SUFFICES ASSUME T # {} PROVE FALSE
      BY <1>1, <1>2
    <3>2. PICK m \in T : \A n \in T : m <= n
      <4>1. T \in SUBSET Nat  BY <1>2
      <4> HIDE DEF T
      <4> QED  BY <3>1, <4>1, NatMinimum
    <3>3. F[0] >= 1 /\ m \in 0..L /\ ~(F[m] >= 1)
      <4>1. F[0] = L - 1
        BY <1>1 DEF Counts
      <4>2. F[0] >= 1
        <5> HIDE DEF L
        <5>1. L \in Nat /\ L >= 1 /\ L # 1
          BY <1>2, <2>2
        <5> QED  BY <4>1, <5>1
      <4> QED  BY <3>2, <4>2
    <3>4. m \in 1..L /\ m - 1 \in 0..L
      BY <1>2, <3>3
    <3>5. m - 1 \notin T
      BY <1>2, <3>2, <3>4
    <3>6. /\ F[m] = F[m - 1] + Octets[s[m]] /\ F[m - 1] \in Nat /\ F[m - 1] >= 1
          /\ Octets[s[m]] \in Nat
      BY <1>1, <1>2, <3>4, <3>5 DEF Counts
    <3> QED  BY <3>3, <3>6
  <2> QED  BY <2>1, <2>2
<1> QED  BY <1>3, <1>4

(* The final dot counts one octet.                                         *)
LEMMA LengthWithDot ==
  ASSUME NEW s \in Labelled
  PROVE  Append(s, EmptyLabel) \in Labelled /\ Length(Append(s, EmptyLabel)) = Length(s) + 1
<1> DEFINE L == Len(s)
           t == Append(s, EmptyLabel)
<1>0. /\ s \in Seq(Labels) /\ L \in Nat /\ L >= 1 /\ EmptyLabel \in Labels /\ Octets[EmptyLabel] = 0
      /\ \A i \in 1..L : s[i] \in Labels /\ Octets[s[i]] \in Nat
  BY LabelledShape, OctetsFacts
<1>1. /\ L \in Nat /\ L >= 1 /\ t \in Labelled /\ Len(t) = L + 1 /\ t[L + 1] = EmptyLabel
      /\ \A i \in 1..L : t[i] = s[i] /\ Octets[s[i]] \in Nat
      /\ Octets[EmptyLabel] = 0
  <2> HIDE DEF L
  <2>1. t \in Seq(Labels) /\ Len(t) = L + 1 /\ t[L + 1] = EmptyLabel /\ \A i \in 1..L : t[i] = s[i]
    BY <1>0 DEF L
  <2>2. t # << >>
    BY <1>0, <2>1
  <2> QED  BY <1>0, <2>1, <2>2 DEF Labelled
<1> HIDE DEF t
<1>2. PICK F : Counts(F, s) /\ Length(s) = F[L]
  BY LengthStages
<1>3. PICK G : Counts(G, t) /\ Length(t) = G[L + 1]
  BY <1>1, LengthStages
<1>4. /\ F[0] = L - 1 /\ \A n \in 0..L : F[n] \in Nat
      /\ \A n \in 1..L : F[n] = F[n - 1] + Octets[s[n]]
      /\ G[0] = L /\ \A n \in 0..(L + 1) : G[n] \in Nat
      /\ \A n \in 1..(L + 1) : G[n] = G[n - 1] + Octets[t[n]]
  BY <1>1, <1>2, <1>3 DEF Counts
<1>5. \A n \in 0..L : G[n] = F[n] + 1
  <2> DEFINE T == {n \in 0..L : G[n] # F[n] + 1}
  <2> SUFFICES ASSUME T # {} PROVE FALSE
    OBVIOUS
  <2>1. PICK m \in T : \A n \in T : m <= n
    <3>1. T \in SUBSET Nat  BY <1>1
    <3> HIDE DEF T
    <3> QED  BY <3>1, NatMinimum
  <2>2. m # 0 /\ m \in 1..L /\ m \in 1..(L + 1)
    BY <1>1, <1>4, <2>1
  <2>3. m - 1 \in 0..L /\ m - 1 \notin T
    BY <1>1, <2>1, <2>2
  <2>4. /\ F[m] = F[m - 1] + Octets[s[m]] /\ G[m] = G[m - 1] + Octets[t[m]]
        /\ t[m] = s[m] /\ Octets[s[m]] \in Nat /\ F[m - 1] \in Nat /\ G[m - 1] = F[m - 1] + 1
    BY <1>1, <1>4, <2>2, <2>3
  <2>5. G[m] = F[m] + 1
    BY <2>4
  <2> QED  BY <2>1, <2>5
<1>6. G[L + 1] = G[L] + Octets[t[L + 1]] /\ L \in 0..L /\ L + 1 \in 1..(L + 1)
  BY <1>1, <1>4
<1>7. Length(t) = Length(s) + 1
  BY <1>1, <1>2, <1>3, <1>4, <1>5, <1>6
<1> QED  BY <1>1, <1>7 DEF t

(* Thirds of two numbers add up.                                           *)
LEMMA Thirds ==
  ASSUME NEW a \in Nat, NEW b \in Nat, NEW c \in Nat, NEW d \in Nat, a <= 3 * b, c <= 3 * d
  PROVE  a + c <= 3 * (b + d)
OBVIOUS

(* Lowercasing shrinks a text to a third at most.                          *)
LEMMA LengthOfLower ==
  ASSUME NEW s \in Labelled
  PROVE  Length(s) <= 3 * Length(ToLower(s))
<1> DEFINE L == Len(s)
           t == ToLower(s)
<1>1. /\ L \in Nat /\ L >= 1 /\ t \in Labelled
      /\ \A i \in 1..L : s[i] \in Labels
  BY ToLowerStable DEF Labelled
<1>2. DOMAIN t = 1..L /\ \A i \in 1..L : t[i] = Lower[s[i]]
  BY DEF Labelled, ToLower
<1> HIDE DEF t
<1>3. Len(t) = L
  BY <1>1, <1>2 DEF Labelled
<1>4. \A i \in 1..L : /\ Octets[s[i]] \in Nat /\ Octets[t[i]] \in Nat
                      /\ Octets[s[i]] <= 3 * Octets[t[i]]
  BY <1>1, <1>2, OctetsFacts
<1>5. PICK F : Counts(F, s) /\ Length(s) = F[L]
  BY LengthStages
<1>6. PICK G : Counts(G, t) /\ Length(t) = G[L]
  BY <1>1, <1>3, LengthStages
<1>7. /\ F[0] = L - 1 /\ \A n \in 0..L : F[n] \in Nat
      /\ \A n \in 1..L : F[n] = F[n - 1] + Octets[s[n]]
      /\ G[0] = L - 1 /\ \A n \in 0..L : G[n] \in Nat
      /\ \A n \in 1..L : G[n] = G[n - 1] + Octets[t[n]]
  BY <1>3, <1>5, <1>6 DEF Counts
<1>8. \A n \in 0..L : F[n] <= 3 * G[n]
  <2> DEFINE T == {n \in 0..L : ~(F[n] <= 3 * G[n])}
  <2> SUFFICES ASSUME T # {} PROVE FALSE
    OBVIOUS
  <2>1. PICK m \in T : \A n \in T : m <= n
    <3>1. T \in SUBSET Nat  BY <1>1
    <3> HIDE DEF T
    <3> QED  BY <3>1, NatMinimum
  <2>2. m # 0 /\ m \in 1..L
    BY <1>1, <1>7, <2>1
  <2>3. m - 1 \in 0..L /\ m - 1 \notin T
    BY <1>1, <2>1, <2>2
  <2>4. /\ F[m] = F[m - 1] + Octets[s[m]] /\ G[m] = G[m - 1] + Octets[t[m]]
        /\ F[m - 1] \in Nat /\ G[m - 1] \in Nat /\ F[m - 1] <= 3 * G[m - 1]
        /\ Octets[s[m]] \in Nat /\ Octets[t[m]] \in Nat /\ Octets[s[m]] <= 3 * Octets[t[m]]
    BY <1>4, <1>7, <2>2, <2>3
  <2>5. F[m] <= 3 * G[m]
    BY <2>4, Thirds
  <2> QED  BY <2>1, <2>5
<1>9. L \in 0..L
  BY <1>1
<1> QED  BY <1>5, <1>6, <1>8, <1>9 DEF t

-----------------------------------------------------------------------------
(* The checks of a name, whatever their order.                             *)

(* The end of a name from its k-th label on.                               *)
LEMMA TailShape ==
  ASSUME NEW S, NEW d \in Seq(S), NEW k \in 1..Len(d)
  PROVE  /\ SubSeq(d, k, Len(d)) \in Seq(S) /\ Len(SubSeq(d, k, Len(d))) = Len(d) - k + 1
         /\ \A i \in 1..(Len(d) - k + 1) : SubSeq(d, k, Len(d))[i] = d[k + i - 1]
<1> DEFINE n == Len(d)
           t == SubSeq(d, k, n)
<1>1. n \in Nat /\ k \in Int /\ k >= 1 /\ k <= n /\ \A i \in k..n : d[i] \in S
  OBVIOUS
<1>2. /\ t \in Seq(S) /\ Len(t) = (IF k <= n THEN n - k + 1 ELSE 0)
      /\ \A i \in 1..(n - k + 1) : t[i] = d[k + i - 1]
  <2> HIDE DEF n
  <2> QED  BY <1>1, SubSeqProperties
<1> HIDE DEF t, n
<1>3. Len(t) = n - k + 1
  BY <1>1, <1>2
<1> QED  BY <1>2, <1>3 DEF t, n

(* A name is below a zone if its end from a later label on is the zone.    *)
LEMMA BelowIsTail ==
  ASSUME NEW S, NEW d \in Seq(S), NEW zone \in Seq(S), Len(zone) >= 1
  PROVE  IsBelow(d, zone) <=> \E k \in 1..Len(d) : k > 1 /\ SubSeq(d, k, Len(d)) = zone
<1> DEFINE n == Len(d)
           m == Len(zone)
           T(k) == SubSeq(d, k, n)
<1>1. n \in Nat /\ m \in Nat /\ m >= 1
  OBVIOUS
<1>2. \A k \in 1..n : /\ T(k) \in Seq(S) /\ Len(T(k)) = n - k + 1
                      /\ \A i \in 1..(n - k + 1) : T(k)[i] = d[k + i - 1]
  BY TailShape
<1>3. IsBelow(d, zone) <=> n > m /\ \A i \in 1..m : zone[i] = d[n - m + i]
  <2>1. IsSuffix(zone, d) <=> m <= n /\ \A i \in 1..m : zone[i] = d[n - m + i]
    BY SuffixIs
  <2>2. IsBelow(d, zone) <=> n > m /\ IsSuffix(zone, d)
    BY DEF IsBelow
  <2> HIDE DEF n, m
  <2> QED  BY <1>1, <2>1, <2>2
<1> HIDE DEF n, m, T
<1>4. ASSUME IsBelow(d, zone)  PROVE \E k \in 1..n : k > 1 /\ T(k) = zone
  <2>1. n > m /\ \A i \in 1..m : zone[i] = d[n - m + i]
    BY <1>3, <1>4
  <2> DEFINE k == n - m + 1
  <2>2. k \in 1..n /\ k > 1 /\ n - k + 1 = m /\ \A i \in 1..m : k + i - 1 = n - m + i
    BY <1>1, <2>1
  <2> HIDE DEF k
  <2>3. T(k) \in Seq(S) /\ Len(T(k)) = m /\ \A i \in 1..m : T(k)[i] = zone[i]
    BY <1>2, <2>1, <2>2
  <2>4. T(k) = zone
    BY <2>3, SeqEqual DEF m
  <2> QED  BY <2>2, <2>4
<1>5. ASSUME NEW k \in 1..n, k > 1, T(k) = zone  PROVE IsBelow(d, zone)
  <2>1. m = n - k + 1 /\ \A i \in 1..(n - k + 1) : zone[i] = d[k + i - 1]
    BY <1>2, <1>5 DEF m
  <2>2. n > m /\ \A i \in 1..m : k + i - 1 = n - m + i
    BY <1>1, <1>5, <2>1
  <2> QED  BY <1>3, <2>1, <2>2
<1> QED  BY <1>4, <1>5 DEF n, T

(* A name of one label or two.                                             *)
LEMMA ShortNames ==
  ASSUME NEW S, NEW a \in S, NEW b \in S
  PROVE  /\ <<a>> \in Seq(S) /\ Len(<<a>>) = 1
         /\ <<a, b>> \in Seq(S) /\ Len(<<a, b>>) = 2
OBVIOUS

(* The labels of the zones that are not traced.                            *)
ZoneLabels == {"localhost", "local", "home", "arpa", "invalid", "test", "in-addr", "ip6"}

(* The zones that are not traced have one or two labels.                   *)
LEMMA ZoneShape ==
  ASSUME NEW zone \in BlockedDomains \cup ReverseZones
  PROVE  zone \in Seq(Labels \cup ZoneLabels) /\ Len(zone) >= 1
<1> DEFINE S == Labels \cup ZoneLabels
           OneOrTwo(z) == \E a, b \in S : z = <<a>> \/ z = <<a, b>>
<1>1. OneOrTwo(zone)
  <2>1. (\A a \in S : OneOrTwo(<<a>>)) /\ (\A a, b \in S : OneOrTwo(<<a, b>>))
    BY Zenon
  <2>2. /\ "localhost" \in S /\ "local" \in S /\ "home" \in S /\ "arpa" \in S
        /\ "invalid" \in S /\ "test" \in S /\ "in-addr" \in S /\ "ip6" \in S
    BY DEF ZoneLabels
  <2> HIDE DEF OneOrTwo
  <2> QED  BY <2>1, <2>2, Zenon DEF BlockedDomains, ReverseZones
<1> HIDE DEF S
<1>2. PICK a \in S, b \in S : zone = <<a>> \/ zone = <<a, b>>
  BY <1>1
<1>3. zone \in Seq(S) /\ (Len(zone) = 1 \/ Len(zone) = 2)
  BY <1>2, ShortNames, Zenon
<1> QED  BY <1>3 DEF S

(* A name is for special use if an end of it is a zone that is not traced. *)
LEMMA SpecialUseIs ==
  ASSUME NEW d \in Labelled
  PROVE  ~SpecialUse(d) <=>
           \A k \in DOMAIN d : LET zone == SubSeq(d, k, Len(d))
                              IN  zone \notin BlockedDomains /\ (k > 1 => zone \notin ReverseZones)
<1> DEFINE n == Len(d)
           S == Labels \cup ZoneLabels
           T(k) == SubSeq(d, k, n)
<1>1. /\ d \in Seq(S) /\ n \in Nat /\ DOMAIN d = 1..n /\ 1 \in 1..n /\ ~(1 > 1)
  <2>1. d \in Seq(Labels) /\ n \in Nat /\ n >= 1 /\ DOMAIN d = 1..n
    BY LabelledShape
  <2>2. d \in Seq(S)
    BY <2>1
  <2> QED  BY <2>1, <2>2
<1>2. \A zone \in BlockedDomains \cup ReverseZones :
        IsBelow(d, zone) <=> \E k \in 1..n : k > 1 /\ T(k) = zone
  BY <1>1, BelowIsTail, ZoneShape
<1>3. T(1) = d
  <2>1. /\ T(1) \in Seq(S) /\ Len(T(1)) = n - 1 + 1
        /\ \A i \in 1..(n - 1 + 1) : T(1)[i] = d[1 + i - 1]
    BY <1>1, TailShape
  <2> HIDE DEF T, n
  <2>2. Len(T(1)) = n /\ \A i \in 1..n : T(1)[i] = d[i]
    BY <1>1, <2>1
  <2> QED  BY <1>1, <2>1, <2>2, SeqEqual DEF n
<1>4. SpecialUse(d) <=>
        d \in BlockedDomains \/ \E zone \in BlockedDomains \cup ReverseZones : IsBelow(d, zone)
  BY DEF SpecialUse
<1> HIDE DEF T, n
<1>5. SpecialUse(d) <=>
        \/ T(1) \in BlockedDomains
        \/ \E k \in 1..n : k > 1 /\ T(k) \in BlockedDomains \cup ReverseZones
  BY <1>2, <1>3, <1>4
<1>6. ASSUME ~SpecialUse(d), NEW k \in 1..n
      PROVE  T(k) \notin BlockedDomains /\ (k > 1 => T(k) \notin ReverseZones)
  <2>1. CASE k = 1
    BY <1>1, <1>5, <1>6, <2>1
  <2>2. CASE k # 1
    <3>1. k > 1
      BY <1>1, <2>2
    <3> QED  BY <1>5, <1>6, <3>1
  <2> QED  BY <2>1, <2>2
<1>7. ASSUME \A k \in 1..n : T(k) \notin BlockedDomains /\ (k > 1 => T(k) \notin ReverseZones)
      PROVE  ~SpecialUse(d)
  BY <1>1, <1>5, <1>7
<1> QED  BY <1>1, <1>6, <1>7 DEF T, n

(* A positive number is in a range that starts at 1 unless it is too large. *)
LEMMA UpTo ==
  ASSUME NEW n \in Nat, n >= 1, NEW max \in Nat
  PROVE  n \in 1..max <=> ~(n > max)
OBVIOUS

(* A name is accepted exactly if it is a public name: the order of the     *)
(* checks does not matter.                                                 *)
LEMMA CheckedIsPublic ==
  ASSUME NEW d \in Labelled
  PROVE  Checked(d).err = "none" <=> PublicName(d)
<1>1. /\ Len(d) \in Nat /\ Len(d) >= 1 /\ DOMAIN d = 1..Len(d)
      /\ \A i \in 1..Len(d) : d[i] \in Labels /\ Octets[d[i]] \in Nat
                             /\ (d[i] # EmptyLabel => Octets[d[i]] >= 1)
      /\ Length(d) \in Nat /\ (d[1] # EmptyLabel => Length(d) >= 1)
      /\ Octets[EmptyLabel] = 0
  BY LabelledShape, OctetsFacts, LengthPositive
<1>2. Checked(d).err = "none" <=>
        /\ d # <<EmptyLabel>> /\ ~(\E i \in DOMAIN d : Kind[d[i]] = "foreign")
        /\ ~IsIPLiteral(d)
        /\ ~(Len(d) > 20)
        /\ ~(Length(d) > 253) /\ \A i \in DOMAIN d : ValidLabel(d[i])
        /\ ~SpecialUse(d)
  BY DEF Checked, Refused, OK, EmptyLabel
<1>3. PublicName(d) <=>
        /\ Len(d) \in 1..20 /\ Length(d) \in 1..253
        /\ \A i \in DOMAIN d : /\ d[i] # EmptyLabel /\ Octets[d[i]] <= 63
                              /\ Kind[d[i]] \in {"ldh", "number"}
        /\ ~IsIPLiteral(d)
        /\ ~SpecialUse(d)
  BY SpecialUseIs, Zenon DEF PublicName, EmptyLabel
<1>4. \A i \in 1..Len(d) :
        ValidLabel(d[i]) <=> /\ d[i] # EmptyLabel /\ Octets[d[i]] <= 63
                             /\ Kind[d[i]] \in {"ldh", "number"}
  <2> SUFFICES ASSUME NEW i \in 1..Len(d)
               PROVE  Octets[d[i]] \in 1..63 <=> d[i] # EmptyLabel /\ Octets[d[i]] <= 63
    BY DEF ValidLabel
  <2> DEFINE o == Octets[d[i]]
             e == d[i] = EmptyLabel
  <2>1. o \in Nat /\ (~e => o >= 1) /\ (e => o = 0)
    BY <1>1
  <2> HIDE DEF o, e
  <2>2. o \in 1..63 <=> ~e /\ o <= 63
    BY <2>1
  <2> QED  BY <2>2 DEF o, e
<1>5. 1 \in DOMAIN d
  BY <1>1
<1>6. d = <<EmptyLabel>> => d[1] = EmptyLabel
  OBVIOUS
<1>7. Len(d) \in 1..20 <=> ~(Len(d) > 20)
  BY <1>1, UpTo
<1>8. d[1] # EmptyLabel => (Length(d) \in 1..253 <=> ~(Length(d) > 253))
  <2> SUFFICES ASSUME d[1] # EmptyLabel PROVE Length(d) \in 1..253 <=> ~(Length(d) > 253)
    OBVIOUS
  <2>1. Length(d) \in Nat /\ Length(d) >= 1
    BY LengthPositive
  <2> DEFINE n == Length(d)
  <2> HIDE DEF n
  <2>2. n \in 1..253 <=> ~(n > 253)
    BY <2>1 DEF n
  <2> QED  BY <2>2 DEF n
<1>9. \A i \in DOMAIN d : Kind[d[i]] \in {"ldh", "number"} => Kind[d[i]] # "foreign"
  OBVIOUS
<1>10. (\A i \in DOMAIN d : ValidLabel(d[i])) <=>
         \A i \in DOMAIN d : /\ d[i] # EmptyLabel /\ Octets[d[i]] <= 63
                            /\ Kind[d[i]] \in {"ldh", "number"}
  BY <1>1, <1>4
<1>11. ASSUME Checked(d).err = "none"  PROVE PublicName(d)
  <2>1. \A i \in DOMAIN d : /\ d[i] # EmptyLabel /\ Octets[d[i]] <= 63
                            /\ Kind[d[i]] \in {"ldh", "number"}
    BY <1>2, <1>10, <1>11
  <2>2. Length(d) \in 1..253
    BY <1>2, <1>5, <1>8, <1>11, <2>1
  <2> QED  BY <1>2, <1>3, <1>7, <1>11, <2>1, <2>2, Zenon
<1>12. ASSUME PublicName(d)  PROVE Checked(d).err = "none"
  <2>1. \A i \in DOMAIN d : /\ d[i] # EmptyLabel /\ Octets[d[i]] <= 63
                            /\ Kind[d[i]] \in {"ldh", "number"}
    BY <1>3, <1>12, Zenon
  <2>2. ~(Length(d) > 253) /\ d # <<EmptyLabel>>
    BY <1>3, <1>5, <1>6, <1>8, <1>12, <2>1, Zenon
  <2>3. ~(\E i \in DOMAIN d : Kind[d[i]] = "foreign")
    BY <1>9, <2>1, Zenon
  <2> QED  BY <1>2, <1>3, <1>7, <1>10, <1>12, <2>1, <2>2, <2>3, Zenon
<1> QED  BY <1>11, <1>12

-----------------------------------------------------------------------------
(* What is accepted.                                                       *)

(* A text has a final dot or it is what TrimDot leaves of it, and a public *)
(* name has none.                                                          *)
LEMMA DotTaken ==
  ASSUME NEW s \in Labelled
  PROVE  /\ s = TrimDot(s) \/ s = Append(TrimDot(s), EmptyLabel)
         /\ PublicName(s) => TrimDot(s) = s
<1>1. s \in Seq(Labels) /\ Len(s) \in 1..Len(s) /\ DOMAIN s = 1..Len(s)
  BY LabelledShape
<1>2. CASE Len(s) > 1 /\ Last(s) = EmptyLabel
  <2>1. TrimDot(s) = Front(s)
    BY <1>2, Zenon DEF TrimDot, EmptyLabel
  <2>2. s = Append(Front(s), Last(s))
    BY <1>1, <1>2, FrontAndLast DEF Labelled
  <2>3. ~PublicName(s)
    BY <1>1, <1>2, Zenon DEF PublicName, EmptyLabel, Last
  <2> QED  BY <1>2, <2>1, <2>2, <2>3
<1>3. CASE ~(Len(s) > 1 /\ Last(s) = EmptyLabel)
  BY <1>3, Zenon DEF TrimDot, EmptyLabel
<1> QED  BY <1>2, <1>3

(* A text that names a public name fits a body of the default limit.       *)
LEMMA PublicNamesFit ==
  ASSUME NEW s \in Labelled, PublicName(TrimDot(ToLower(s)))
  PROVE  Length(s) \in Nat /\ Length(s) <= 3 * 254
<1> DEFINE low == ToLower(s)
           d == TrimDot(low)
<1>1. low \in Labelled /\ d \in Labelled
  BY ToLowerStable, TrimDotKeeps
<1>2. /\ Length(s) \in Nat /\ Length(low) \in Nat /\ Length(d) \in Nat
      /\ Length(s) <= 3 * Length(low)
  BY <1>1, LengthPositive, LengthOfLower
<1>3. Length(d) \in 1..253
  BY DEF PublicName
<1>4. Length(low) = Length(d) \/ Length(low) = Length(d) + 1
  BY <1>1, DotTaken, LengthWithDot
<1> DEFINE a == Length(s)
           b == Length(low)
           c == Length(d)
<1> HIDE DEF a, b, c
<1>5. a \in Nat /\ b \in Nat /\ c \in 1..253 /\ a <= 3 * b /\ (b = c \/ b = c + 1)
  BY <1>2, <1>3, <1>4 DEF a, b, c
<1>6. a <= 3 * 254
  BY <1>5
<1> QED  BY <1>5, <1>6 DEF a

(* Whether a name is accepted is asked of what TrimDot leaves.             *)
LEMMA NormalizeAcceptsPublic ==
  ASSUME NEW text, text.labels \in Labelled
  PROVE  LET d == TrimDot(ToLower(text.labels))
         IN  /\ NormalizeDomain(text).err = "none" <=> PublicName(d)
             /\ NormalizeDomain(text).err = "none" => NormalizeDomain(text).domain = d
<1> DEFINE d == TrimDot(ToLower(text.labels))
<1>1. d \in Labelled
  BY ToLowerStable, TrimDotKeeps
<1>2. NormalizeDomain(text) = Checked(d)
  BY DEF NormalizeDomain
<1>3. Checked(d).err = "none" => Checked(d).domain = d
  BY <1>1, CheckedHasNoDot DEF OK
<1> QED  BY <1>1, <1>2, <1>3, CheckedIsPublic

(* The default body limit, and the settings, are numbers.                  *)
LEMMA BodyLimitFacts ==
  ASSUME SettingsInv
  PROVE  /\ settings.bodyLimit \in Int
         /\ Framing \in Nat /\ Fallback["BODY_LIMIT_BYTES"] \in Nat
         /\ Framing + 3 * 254 <= Fallback["BODY_LIMIT_BYTES"]
<1>1. "BODY_LIMIT_BYTES" \in Settable
  BY SettableNames
<1>2. Fallback["BODY_LIMIT_BYTES"] \in Nat
  BY <1>1, Fallbacks
<1> DEFINE v == "BODY_LIMIT_BYTES"
<1> HIDE DEF v
<1>3. env[v] \in {Unset, Garbage} \/ env[v] \in Int
  BY <1>1, ProcessAssumption DEF SettingsInv, v
<1>4. OrDefault(FromEnv(env, v), v) \in Int
  BY <1>2, <1>3 DEF OrDefault, FromEnv, IsNumber, v
<1>5. settings.bodyLimit = OrDefault(FromEnv(env, v), v)
  BY DEF SettingsInv, Configured, v
<1>6. Framing \in Nat /\ Framing + 3 * 254 <= Fallback["BODY_LIMIT_BYTES"]
  BY ProcessAssumption
<1> QED  BY <1>2, <1>4, <1>5, <1>6

(* What can be asked.                                                      *)
Question == [text : Text, qtype : DOMAIN Upper]

(* The answer to a question is the one that what it names calls for.       *)
LEMMA AskAnswers ==
  ASSUME SettingsInv, NEW q \in Question, Ask(q)
  PROVE  AcceptedExactly' /\ asked' = q
<1> DEFINE labels == q.text.labels
           low == ToLower(labels)
           d == TrimDot(low)
           domain == NormalizeDomain(q.text)
           qtype == NormalizeQType(q.qtype)
           Public(name) == Names(q.text, name) /\ PublicName(name)
<1>1. labels \in Labelled /\ low \in Labelled
  BY ToLowerStable DEF Question, Text, Labelled
<1>2. /\ domain.err = "none" <=> PublicName(d)
      /\ domain.err = "none" => domain.domain = d
  BY <1>1, NormalizeAcceptsPublic
<1>3. Names(q.text, d)
  BY <1>1, DotTaken DEF Names, EmptyLabel
<1>4. Public(low) => Public(d)
  BY <1>1, DotTaken
<1>5. /\ qtype.err = "none" <=> Upper[q.qtype] \in SupportedQTypes
      /\ qtype.err = "none" => qtype.qtype = Upper[q.qtype]
  BY DEF NormalizeQType
<1>6. settings' = settings
  BY DEF Ask
<1> DEFINE Right == IF reply' = "traced"
                    THEN Public(recent'.domain) /\ recent'.qtype = Upper[q.qtype]
                    ELSE \/ Upper[q.qtype] \notin SupportedQTypes
                         \/ ~Public(low) /\ ~Public(d)
<1>7. asked' = q /\ (settings.bodyLimit >= Fallback["BODY_LIMIT_BYTES"] => Right)
  <2>1. CASE RefuseBody(q)
    <3>1. asked' = q /\ reply' = "invalid_request" /\ BodyLength(q.text) > settings.bodyLimit
      BY <2>1 DEF RefuseBody, Answer
    <3>2. ASSUME settings.bodyLimit >= Fallback["BODY_LIMIT_BYTES"]  PROVE ~PublicName(d)
      <4> SUFFICES ASSUME PublicName(d) PROVE FALSE
        OBVIOUS
      <4>1. Length(labels) \in Nat /\ Length(labels) <= 3 * 254
        BY <1>1, PublicNamesFit
      <4>2. Framing + Length(labels) > settings.bodyLimit
        BY <3>1 DEF BodyLength
      <4> DEFINE a == Length(labels)
                 b == Fallback["BODY_LIMIT_BYTES"]
      <4> HIDE DEF a, b
      <4>3. a \in Nat /\ a <= 3 * 254 /\ Framing + a > settings.bodyLimit
        BY <4>1, <4>2 DEF a
      <4>4. /\ settings.bodyLimit \in Int /\ Framing \in Nat /\ b \in Nat
            /\ Framing + 3 * 254 <= b /\ settings.bodyLimit >= b
        BY <3>2, BodyLimitFacts DEF b
      <4> QED  BY <4>3, <4>4
    <3> QED  BY <1>4, <3>1, <3>2
  <2>2. CASE RefuseQuestion(q)
    <3>1. /\ asked' = q /\ reply' # "traced"
          /\ domain.err # "none" \/ qtype.err # "none"
      <4>1. domain.err # "traced"
        BY DEF NormalizeDomain, Checked, Refused, OK
      <4>2. qtype.err # "traced"
        BY DEF NormalizeQType
      <4> HIDE DEF domain, qtype
      <4> QED  BY <2>2, <4>1, <4>2 DEF RefuseQuestion, Answer, domain, qtype
    <3> QED  BY <1>2, <1>4, <1>5, <3>1
  <2>3. CASE TraceQuestion(q)
    <3>1. /\ asked' = q /\ reply' = "traced"
          /\ domain.err = "none" /\ qtype.err = "none"
          /\ recent' = [domain |-> domain.domain, qtype |-> qtype.qtype]
      BY <2>3 DEF TraceQuestion, Answer
    <3> QED  BY <1>2, <1>3, <1>5, <3>1
  <2> QED  BY <2>1, <2>2, <2>3 DEF Ask
<1> QED  BY <1>6, <1>7 DEF AcceptedExactly

(* The answer to the question under way is right, and where nothing is     *)
(* asked there is no answer.                                               *)
AnswerInv == AcceptedExactly /\ (asked = NoQuestion => reply = "none")

(* A process answers a question with the settings it was asked under: no   *)
(* restart comes between.                                                  *)
THEOREM AcceptsExactlyPublicNames == Spec => []AcceptedExactly
<1>1. Init => AnswerInv
  BY DEF Init, AnswerInv, AcceptedExactly
<1>2. SettingsInv /\ RecentInv /\ AnswerInv /\ [Next]_vars => AnswerInv'
  <2> SUFFICES ASSUME SettingsInv, RecentInv, AnswerInv, [Next]_vars PROVE AnswerInv'
    OBVIOUS
  <2>1. ASSUME NEW q \in Question, Ask(q)  PROVE AnswerInv'
    <3>1. q # NoQuestion
      BY ProcessAssumption DEF Question
    <3> QED  BY <2>1, <3>1, AskAnswers DEF AnswerInv
  <2>2. CASE Boot
    BY <2>2 DEF Boot, AnswerInv, AcceptedExactly
  <2>3. CASE Restart
    BY <2>3 DEF Restart, AnswerInv, AcceptedExactly
  <2>4. CASE Submit
    <3>1. PICK q \in Questions : Ask(q)
      BY <2>4 DEF Submit
    <3>2. q \in Question
      BY ProcessAssumption DEF Question
    <3> QED  BY <2>1, <3>1, <3>2
  <2>5. CASE Reuse
    <3> DEFINE q == [text |-> AsTyped(recent.domain), qtype |-> recent.qtype]
    <3>1. Ask(q) /\ recent # NoQuestion
      BY <2>5 DEF Reuse
    <3>2. recent.domain \in Labelled /\ recent.qtype \in DOMAIN Upper
      BY <3>1, DomainAssumption DEF RecentInv
    <3>3. q \in Question
      BY <3>2 DEF Question, Text, AsTyped, Labelled
    <3> HIDE DEF q
    <3> QED  BY <2>1, <3>1, <3>3
  <2>6. CASE Close
    BY <2>6 DEF Close, AnswerInv, AcceptedExactly
  <2>7. CASE UNCHANGED vars
    BY <2>7 DEF vars, AnswerInv, AcceptedExactly
  <2> QED  BY <2>2, <2>3, <2>4, <2>5, <2>6, <2>7 DEF Next
<1>3. AnswerInv => AcceptedExactly
  BY DEF AnswerInv
<1> QED  BY <1>1, <1>2, <1>3, SettingsInvariance, RecentInvariance, PTL DEF Spec

=============================================================================
