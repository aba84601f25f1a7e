--------------------------- MODULE TraceAppProofs ---------------------------
(***************************************************************************)
(* Theorems about TraceApp, for every set of questions and of hop lists,   *)
(* every storage limit and every number of runs.                           *)
(***************************************************************************)
EXTENDS TraceApp, SequenceLemmas, FunctionTheorems, FiniteSetTheorems, TLAPS

-----------------------------------------------------------------------------
(* saveRecentTrace.                                                        *)

(* w is list without the entries of question q, in the order they had; f   *)
(* says where from.                                                        *)
Leaves(f, q, list, w) ==
  /\ f \in [1..Len(w) -> 1..Len(list)]
  /\ \A j, k \in 1..Len(w) : j < k => f[j] < f[k]
  /\ \A i \in 1..Len(list) :
       list[i].question # q => \E j \in 1..Len(w) : f[j] = i
  /\ \A j \in 1..Len(w) : w[j] = list[f[j]] /\ w[j].question # q

(* A list without the entry of a question is still a list of entries.      *)
LEMMA WithoutShape ==
  ASSUME NEW q \in Questions, NEW list \in Seq(Recent), NEW w, w = Without(q, list)
  PROVE  w \in Seq(Recent) /\ \E f : Leaves(f, q, list, w)
<1> DEFINE K == {i \in 1..Len(list) : list[i].question # q}
<1>1. [i \in DOMAIN list |-> IF list[i].question # q THEN <<list[i]>> ELSE << >>]
        = [i \in DOMAIN list |-> IF i \in K THEN <<list[i]>> ELSE << >>]
  <2>1. \A i \in DOMAIN list : list[i].question # q <=> i \in K
    OBVIOUS
  <2> QED  BY <2>1
<1>2. w = FlattenSeq([i \in DOMAIN list |-> IF i \in K THEN <<list[i]>> ELSE << >>])
  BY <1>1 DEF Without
<1>3. /\ K \in SUBSET (1..Len(list))
      /\ \A i \in 1..Len(list) : i \in K <=> list[i].question # q
  OBVIOUS
<1> HIDE DEF K
<1>4. w \in Seq(Recent) /\ \E f : Selects(f, list, K, w)
  BY <1>2, <1>3, FilterShape
<1>5. PICK f : Selects(f, list, K, w)
  BY <1>4
<1> USE <1>5 DEF Selects
<1>6. f \in [1..Len(w) -> 1..Len(list)]
  BY <1>3
<1>7. \A i \in 1..Len(list) : list[i].question # q => \E j \in 1..Len(w) : f[j] = i
  BY <1>3, <1>5
<1>8. ASSUME NEW j \in 1..Len(w)  PROVE w[j] = list[f[j]] /\ w[j].question # q
  <2>1. f[j] \in K /\ f[j] \in 1..Len(list)
    BY <1>3
  <2> QED  BY <1>3, <1>5, <2>1
<1>9. Leaves(f, q, list, w)
  BY <1>6, <1>7, <1>8 DEF Leaves
<1> QED  BY <1>4, <1>9

(* The item, and as many of the entries of other questions as the limit    *)
(* leaves room for.                                                        *)
LEMMA SavedShape ==
  ASSUME NEW item \in Recent, NEW list \in Seq(Recent),
         NEW w, w = Without(item.question, list), NEW s, s = Saved(item, list)
  PROVE  /\ s \in Seq(Recent)
         /\ Len(s) = IF 1 + Len(w) < StorageLimit THEN 1 + Len(w) ELSE StorageLimit
         /\ s[1] = item
         /\ \A k \in 2..Len(s) : k - 1 \in 1..Len(w) /\ s[k] = w[k - 1]
<1> DEFINE next == <<item>> \o w
           n == IF Len(next) < StorageLimit THEN Len(next) ELSE StorageLimit
<1>1. w \in Seq(Recent)
  BY WithoutShape DEF Recent
<1>2. s = SubSeq(next, 1, n)
  BY DEF Saved
<1>3. /\ next \in Seq(Recent) /\ Len(next) = 1 + Len(w)
      /\ next[1] = item /\ \A k \in 2..Len(next) : next[k] = w[k - 1]
  BY <1>1
<1>4. Len(w) \in Nat /\ StorageLimit \in Nat /\ StorageLimit >= 1
  BY <1>1, AppAssumption
<1> HIDE DEF next
<1>5. n \in 1..Len(next) /\ n = IF 1 + Len(w) < StorageLimit THEN 1 + Len(w) ELSE StorageLimit
  BY <1>3, <1>4
<1> HIDE DEF n
<1>6. /\ SubSeq(next, 1, n) \in Seq(Recent) /\ Len(SubSeq(next, 1, n)) = n
      /\ \A k \in 1..n : SubSeq(next, 1, n)[k] = next[k]
  BY <1>3, <1>5
<1>7. \A k \in 2..n : k - 1 \in 1..Len(w) /\ next[k] = w[k - 1]
  BY <1>3, <1>4, <1>5
<1> QED  BY <1>2, <1>3, <1>5, <1>6, <1>7

-----------------------------------------------------------------------------
(* The inductive invariant.                                                *)

(* A list of recent traces: no longer than the limit, no question twice,   *)
(* and nothing in it that was not saved.                                   *)
Listed(list) ==
  /\ Len(list) <= StorageLimit
  /\ \A i, j \in DOMAIN list : list[i].question = list[j].question => i = j
  /\ ToSet(list) \subseteq ToSet(saved)

(* What is shown, what is about to be, what is stored, and what a pending  *)
(* run would go on from.                                                   *)
ListsInv ==
  /\ Listed(state.recent) /\ Listed(queued.recent) /\ Listed(storage)
  /\ \A i \in DOMAIN runs : Listed(runs[i].captured)

(* One state of the page: its view, its selection, its being busy.         *)
Shows(s) ==
  /\ s.viewState = "success" => s.trace # None /\ s.errorCode = None
  /\ s.viewState = "failure" => s.trace = None /\ s.errorCode # None
  /\ s.viewState = "idle"    => s.trace = None /\ s.errorCode = None

Picks(s) ==
  s.trace # None /\ ~s.late =>
    \E i \in DOMAIN s.trace.hops : s.trace.hops[i] = s.selectedHopIndex

Busy(s) == s.viewState = "loading" \/ s.rerunInProgress

Good(s) == s \in AppState /\ Shows(s) /\ Picks(s)

(* What is rendered next is busy only while a run is pending.              *)
Page == TypeOK /\ Good(state) /\ Good(queued) /\ (Busy(queued) => Pending # {})

IInv == Page /\ ListsInv

(* What a list has.                                                        *)
LEMMA InList ==
  ASSUME NEW S, NEW s \in Seq(S)
  PROVE  /\ \A x \in ToSet(s) : \E k \in 1..Len(s) : x = s[k]
         /\ \A k \in 1..Len(s) : s[k] \in ToSet(s)
BY DEF ToSet

(* Appending keeps what there was.                                         *)
LEMMA AppendKeeps ==
  ASSUME NEW S, NEW s \in Seq(S), NEW x \in S
  PROVE  ToSet(s) \subseteq ToSet(Append(s, x)) /\ x \in ToSet(Append(s, x))
<1> DEFINE a == Append(s, x)
<1>1. /\ a \in Seq(S) /\ Len(a) = Len(s) + 1 /\ Len(s) \in Nat
      /\ a[Len(s) + 1] = x /\ \A i \in 1..Len(s) : a[i] = s[i]
  OBVIOUS
<1> HIDE DEF a
<1>2. x \in ToSet(a)
  <2>1. Len(s) + 1 \in 1..Len(a)
    BY <1>1
  <2> QED  BY <1>1, <2>1, InList
<1>3. ASSUME NEW y \in ToSet(s)  PROVE y \in ToSet(a)
  <2>1. PICK k \in 1..Len(s) : y = s[k]
    BY InList
  <2>2. k \in 1..Len(a) /\ y = a[k]
    BY <1>1, <2>1
  <2> QED  BY <1>1, <2>2, InList
<1> QED  BY <1>2, <1>3 DEF a

(* A saved trace keeps the list well formed.                               *)
LEMMA SavedFresh ==
  ASSUME saved \in Seq(Recent), NEW item \in Recent, NEW list \in Seq(Recent), Listed(list),
         NEW s, s = Saved(item, list)
  PROVE  /\ Len(s) <= StorageLimit
         /\ \A i, j \in DOMAIN s : s[i].question = s[j].question => i = j
         /\ ToSet(s) \subseteq ToSet(Append(saved, item))
<1> DEFINE q == item.question
           w == Without(q, list)
<1>1. q \in Questions /\ w = Without(q, list) /\ q = item.question
  BY DEF Recent
<1> HIDE DEF w, q
<1>2. /\ s \in Seq(Recent)
      /\ Len(s) = IF 1 + Len(w) < StorageLimit THEN 1 + Len(w) ELSE StorageLimit
      /\ s[1] = item
      /\ \A k \in 2..Len(s) : k - 1 \in 1..Len(w) /\ s[k] = w[k - 1]
  BY <1>1, SavedShape
<1>3. w \in Seq(Recent)
  BY <1>1, WithoutShape
<1>4. PICK f : Leaves(f, q, list, w)
  BY <1>1, WithoutShape
<1>5. /\ f \in [1..Len(w) -> 1..Len(list)]
      /\ \A j, k \in 1..Len(w) : j < k => f[j] < f[k]
      /\ \A j \in 1..Len(w) : w[j] = list[f[j]] /\ w[j].question # q
  BY <1>4 DEF Leaves
<1>6. Len(s) \in Nat /\ Len(w) \in Nat /\ Len(s) <= StorageLimit /\ Len(s) >= 1
      /\ DOMAIN s = 1..Len(s)
  BY <1>2, <1>3, AppAssumption
<1>7. ASSUME NEW k \in 2..Len(s)
      PROVE  /\ f[k - 1] \in 1..Len(list) /\ s[k] = list[f[k - 1]]
             /\ s[k].question # q
  <2>1. k - 1 \in 1..Len(w) /\ s[k] = w[k - 1]
    BY <1>2
  <2>2. f[k - 1] \in 1..Len(list)
    BY <1>5, <2>1
  <2> QED  BY <1>5, <2>1, <2>2
<1>8. ASSUME NEW i \in 1..Len(s), NEW j \in 1..Len(s), i < j, s[i].question = s[j].question
      PROVE  FALSE
  <2>1. j \in 2..Len(s)
    BY <1>6, <1>8
  <2>2. CASE i = 1
    BY <1>2, <1>7, <1>8, <2>1, <2>2 DEF q
  <2>3. CASE i # 1
    <3>1. i \in 2..Len(s)
      BY <1>6, <2>3
    <3>2. f[i - 1] = f[j - 1]
      <4>1. \A m, n \in 1..Len(list) : list[m].question = list[n].question => m = n
        BY DEF Listed
      <4>2. /\ f[i - 1] \in 1..Len(list) /\ f[j - 1] \in 1..Len(list)
            /\ s[i] = list[f[i - 1]] /\ s[j] = list[f[j - 1]]
        BY <1>7, <2>1, <3>1
      <4> QED  BY <1>8, <4>1, <4>2
    <3>3. i - 1 \in 1..Len(w) /\ j - 1 \in 1..Len(w) /\ i - 1 < j - 1
      BY <1>2, <1>8, <2>1, <3>1
    <3>4. f[i - 1] < f[j - 1]
      BY <1>5, <3>3
    <3>5. f[i - 1] \in Int
      BY <1>7, <3>1
    <3> QED  BY <3>2, <3>4, <3>5
  <2> QED  BY <2>2, <2>3
<1>9. \A i, j \in DOMAIN s : s[i].question = s[j].question => i = j
  <2> SUFFICES ASSUME NEW i \in 1..Len(s), NEW j \in 1..Len(s), s[i].question = s[j].question
               PROVE  i = j
    BY <1>6
  <2>1. ~(i < j) /\ ~(j < i)
    BY <1>8
  <2> QED  BY <2>1
<1>10. ASSUME NEW x \in ToSet(s)  PROVE x \in ToSet(Append(saved, item))
  <2>1. PICK k \in 1..Len(s) : x = s[k]
    BY <1>2, InList
  <2>2. CASE k = 1
    BY <1>2, <2>1, <2>2, AppendKeeps
  <2>3. CASE k # 1
    <3>1. k \in 2..Len(s)
      BY <1>6, <2>3
    <3>2. f[k - 1] \in 1..Len(list) /\ x = list[f[k - 1]]
      BY <1>7, <2>1, <3>1
    <3>3. x \in ToSet(list)
      BY <3>2, InList
    <3>4. x \in ToSet(saved)
      BY <3>3 DEF Listed
    <3> QED  BY <3>4, AppendKeeps
  <2> QED  BY <2>2, <2>3
<1> QED  BY <1>6, <1>9, <1>10

(* A list that was well formed stays so while nothing is saved.            *)
LEMMA ListedKept ==
  ASSUME NEW list, Listed(list), saved' = saved
  PROVE  Listed(list)'
BY DEF Listed

(* All of them do.                                                         *)
LEMMA ListsKept ==
  ASSUME ListsInv, saved' = saved, Listed(state'.recent), Listed(queued'.recent),
         Listed(storage'), \A j \in DOMAIN runs' : Listed(runs'[j].captured)
  PROVE  ListsInv'
BY DEF ListsInv, Listed

-----------------------------------------------------------------------------
(* The reducer.                                                            *)

(* The first hop of a trace is a hop.                                      *)
LEMMA FirstHop ==
  ASSUME NEW t \in Trace
  PROVE  /\ t # None /\ t.hops \in Seq(Nat) /\ 1 \in DOMAIN t.hops
         /\ \A i \in DOMAIN t.hops : t.hops[i] \in Nat
<1>1. t.hops \in HopLists /\ t # None
  BY AppAssumption DEF Trace
<1>2. t.hops \in Seq(Nat) /\ t.hops # << >>
  BY <1>1, AppAssumption
<1> QED  BY <1>1, <1>2

(* initialState shows nothing and waits for nothing.                       *)
LEMMA OpenedGood ==
  ASSUME NEW list \in Seq(Recent), NEW o, o = Opened(list)
  PROVE  Good(o) /\ ~Busy(o) /\ o.recent = list /\ o.form = Blank
BY DEF Opened, Good, AppState, Shows, Picks, Busy

(* A change of the form.                                                   *)
LEMMA FormSetGood ==
  ASSUME NEW s, Good(s), NEW f \in Questions \cup {Blank}, NEW o, o = FormSet(s, f)
  PROVE  Good(o) /\ (Busy(o) <=> Busy(s)) /\ o.recent = s.recent /\ o.form = f
BY DEF FormSet, Good, AppState, Shows, Picks, Busy

(* A run is started.                                                       *)
LEMMA StartedGood ==
  ASSUME NEW s, Good(s), NEW o, o = SubmitStarted(s) \/ o = RerunStarted(s)
  PROVE  Good(o) /\ o.recent = s.recent /\ o.form = s.form
<1>1. CASE o = SubmitStarted(s)
  BY <1>1 DEF SubmitStarted, Good, AppState, Shows, Picks
<1>2. CASE o = RerunStarted(s)
  BY <1>2 DEF RerunStarted, Good, AppState, Shows, Picks
<1> QED  BY <1>1, <1>2

(* The domain was empty.                                                   *)
LEMMA ValidationFailedGood ==
  ASSUME NEW s, Good(s), NEW o, o = ValidationFailed(s)
  PROVE  /\ Good(o) /\ (Busy(o) => Busy(s)) /\ o.recent = s.recent /\ o.form = s.form
BY AppAssumption DEF ValidationFailed, Good, AppState, ErrorCodes, Shows, Picks, Busy

(* A trace has come.                                                       *)
LEMMA TraceSucceededGood ==
  ASSUME NEW s, Good(s), NEW t \in Trace, NEW list \in Seq(Recent),
         NEW o, o = TraceSucceeded(s, t, list)
  PROVE  Good(o) /\ ~Busy(o) /\ o.recent = list /\ o.form = s.form
<1>1. t # None /\ 1 \in DOMAIN t.hops /\ t.hops[1] \in Nat
  BY FirstHop
<1>2. o \in AppState
  BY <1>1 DEF TraceSucceeded, Good, AppState
<1>3. /\ o.viewState = "success" /\ o.trace = t /\ o.errorCode = None
      /\ o.selectedHopIndex = t.hops[1] /\ o.rerunInProgress = FALSE
      /\ o.recent = list /\ o.form = s.form
  BY DEF TraceSucceeded, Good, AppState
<1> QED  BY <1>1, <1>2, <1>3 DEF Good, Shows, Picks, Busy

(* An error has come.                                                      *)
LEMMA TraceFailedGood ==
  ASSUME NEW s, Good(s), NEW o, o = TraceFailed(s, "request_failed")
  PROVE  Good(o) /\ ~Busy(o) /\ o.recent = s.recent /\ o.form = s.form
BY AppAssumption DEF TraceFailed, Good, AppState, ErrorCodes, Shows, Picks, Busy

(* A hop of a trace is selected, which may not be the state's.             *)
LEMMA HopSelectedGood ==
  ASSUME NEW s, Good(s), NEW t \in Trace, NEW i \in DOMAIN t.hops,
         NEW o, o = HopSelected(s, t.hops[i], t)
  PROVE  Good(o) /\ (Busy(o) <=> Busy(s)) /\ o.recent = s.recent /\ o.form = s.form
<1>1. t.hops[i] \in Nat
  BY FirstHop
<1>2. /\ o \in AppState /\ o.viewState = s.viewState /\ o.trace = s.trace
      /\ o.errorCode = s.errorCode /\ o.rerunInProgress = s.rerunInProgress
      /\ o.recent = s.recent /\ o.form = s.form
      /\ o.selectedHopIndex = t.hops[i] /\ o.late = (s.trace # t)
  BY <1>1 DEF HopSelected, Good, AppState
<1> QED  BY <1>2 DEF Good, Shows, Picks, Busy

(* The visitor goes back to the search.                                    *)
LEMMA WentBackGood ==
  ASSUME NEW s, Good(s), NEW o, o = WentBack(s)
  PROVE  Good(o) /\ (Busy(o) => Busy(s)) /\ o.recent = s.recent /\ o.form = s.form
BY DEF WentBack, Good, AppState, Shows, Picks, Busy

-----------------------------------------------------------------------------
(* The page.                                                               *)

(* A page that was just opened shows nothing and waits for nothing.        *)
LEMMA InitIInv == Init => IInv
<1> SUFFICES ASSUME Init PROVE IInv
  OBVIOUS
<1>1. << >> \in Seq(Recent) /\ << >> \in Seq(Run) /\ Len(<< >>) = 0 /\ DOMAIN << >> = {}
      /\ 0 <= MaxRuns /\ 0 <= StorageLimit
  BY AppAssumption
<1>2. /\ state = queued /\ Good(state) /\ ~Busy(state) /\ state.recent = << >>
      /\ storage = << >> /\ runs = << >> /\ saved = << >> /\ serial = TRUE
  BY <1>1, OpenedGood DEF Init
<1>3. TypeOK
  BY <1>1, <1>2 DEF TypeOK, Good
<1>4. Listed(<< >>)
  <2>1. ToSet(<< >>) = {}
    BY <1>1 DEF ToSet
  <2> QED  BY <1>1, <2>1 DEF Listed
<1>5. ListsInv
  BY <1>1, <1>2, <1>4 DEF ListsInv
<1> QED  BY <1>2, <1>3, <1>5 DEF IInv, Page

(* The run a start adds.                                                   *)
LEMMA RunAdded ==
  ASSUME TypeOK, NEW f \in Questions, Len(runs) < MaxRuns,
         runs' = Append(runs, [status |-> "pending", question |-> f, captured |-> state.recent])
  PROVE  /\ runs' \in Seq(Run) /\ Len(runs') = Len(runs) + 1 /\ Len(runs') <= MaxRuns
         /\ DOMAIN runs' = DOMAIN runs \cup {Len(runs) + 1}
         /\ Len(runs) + 1 \notin DOMAIN runs
         /\ \A i \in DOMAIN runs : runs'[i] = runs[i]
         /\ runs'[Len(runs) + 1] =
              [status |-> "pending", question |-> f, captured |-> state.recent]
<1> DEFINE item == [status |-> "pending", question |-> f, captured |-> state.recent]
<1>1. item \in Run /\ runs \in Seq(Run) /\ MaxRuns \in Nat
  BY AppAssumption DEF TypeOK, Run, AppState
<1>2. runs' = Append(runs, item)
  OBVIOUS
<1> HIDE DEF item
<1>3. /\ runs' \in Seq(Run) /\ Len(runs') = Len(runs) + 1 /\ Len(runs) \in Nat
      /\ \A i \in 1..Len(runs) : runs'[i] = runs[i]
      /\ runs'[Len(runs) + 1] = item
  BY <1>1, <1>2
<1>4. DOMAIN runs = 1..Len(runs) /\ DOMAIN runs' = 1..Len(runs')
  BY <1>1, <1>3
<1> QED  BY <1>1, <1>3, <1>4 DEF item

(* What starting a run does to the two states: their lists stay.           *)
LEMMA StartCases ==
  ASSUME TypeOK, Good(state), Good(queued), NEW f \in Questions \cup {Blank},
         NEW rerun \in BOOLEAN, Start(f, rerun)
  PROVE  /\ Good(state') /\ Good(queued') /\ state'.form = queued'.form
         /\ state'.recent = state.recent /\ queued'.recent = queued.recent
         /\ \/ UNCHANGED <<runs, serial>> /\ (Busy(queued') => Busy(queued))
            \/ /\ f \in Questions /\ Len(runs) < MaxRuns
               /\ runs' = Append(runs, [status |-> "pending", question |-> f,
                                        captured |-> state.recent])
               /\ serial' = (serial /\ Pending = {} /\ state = queued)
<1>1. CASE /\ f = Blank /\ UNCHANGED <<runs, serial>>
           /\ state' = ValidationFailed(state) /\ queued' = ValidationFailed(queued)
  <2>1. /\ Good(state') /\ state'.recent = state.recent /\ state'.form = state.form
    BY <1>1, ValidationFailedGood
  <2>2. /\ Good(queued') /\ queued'.recent = queued.recent /\ queued'.form = queued.form
        /\ (Busy(queued') => Busy(queued))
    BY <1>1, ValidationFailedGood
  <2>3. state.form = queued.form
    BY DEF TypeOK
  <2> QED  BY <1>1, <2>1, <2>2, <2>3
<1>2. CASE f # Blank /\ ~(UNCHANGED <<runs, serial>> /\ f = Blank)
  <2> DEFINE sf == FormSet(state, f)
             qf == FormSet(queued, f)
  <2>1. /\ Good(sf) /\ sf.recent = state.recent /\ sf.form = f
        /\ Good(qf) /\ qf.recent = queued.recent /\ qf.form = f
    BY FormSetGood
  <2>2. /\ state' = IF rerun THEN RerunStarted(sf) ELSE SubmitStarted(sf)
        /\ queued' = IF rerun THEN RerunStarted(qf) ELSE SubmitStarted(qf)
        /\ Len(runs) < MaxRuns
        /\ runs' = Append(runs, [status |-> "pending", question |-> f,
                                 captured |-> state.recent])
        /\ serial' = (serial /\ Pending = {} /\ state = queued)
    BY <1>2 DEF Start
  <2> HIDE DEF sf, qf
  <2>3. Good(state') /\ state'.recent = sf.recent /\ state'.form = sf.form
    BY <2>1, <2>2, StartedGood
  <2>4. Good(queued') /\ queued'.recent = qf.recent /\ queued'.form = qf.form
    BY <2>1, <2>2, StartedGood
  <2> QED  BY <1>2, <2>1, <2>2, <2>3, <2>4
<1> QED  BY <1>1, <1>2 DEF Start

(* run up to its await.                                                    *)
LEMMA StartStep ==
  ASSUME IInv, NEW f \in Questions \cup {Blank}, NEW rerun \in BOOLEAN, Start(f, rerun),
         UNCHANGED <<storage, saved>>
  PROVE  IInv'
<1>0. TypeOK /\ Good(state) /\ Good(queued) /\ (Busy(queued) => Pending # {}) /\ ListsInv
  BY DEF IInv, Page
<1>1. /\ Good(state') /\ Good(queued') /\ state'.form = queued'.form
      /\ state'.recent = state.recent /\ queued'.recent = queued.recent
  BY <1>0, StartCases
<1>2. CASE UNCHANGED <<runs, serial>> /\ (Busy(queued') => Busy(queued))
  <2>1. TypeOK'
    BY <1>0, <1>1, <1>2 DEF TypeOK, Good
  <2>2. ListsInv'
    BY <1>0, <1>1, <1>2, ListsKept DEF ListsInv
  <2>3. Busy(queued') => Pending' # {}
    BY <1>0, <1>2 DEF Pending
  <2> QED  BY <1>1, <2>1, <2>2, <2>3 DEF IInv, Page, Good, Shows, Picks, Busy
<1>3. CASE /\ f \in Questions /\ Len(runs) < MaxRuns
           /\ runs' = Append(runs, [status |-> "pending", question |-> f,
                                    captured |-> state.recent])
           /\ serial' = (serial /\ Pending = {} /\ state = queued)
  <2>1. /\ runs' \in Seq(Run) /\ Len(runs') <= MaxRuns
        /\ DOMAIN runs' = DOMAIN runs \cup {Len(runs) + 1}
        /\ \A i \in DOMAIN runs : runs'[i] = runs[i]
        /\ runs'[Len(runs) + 1] =
             [status |-> "pending", question |-> f, captured |-> state.recent]
    BY <1>0, <1>3, RunAdded
  <2>2. TypeOK'
    BY <1>0, <1>1, <1>3, <2>1 DEF TypeOK, Good
  <2>3. Len(runs) + 1 \in Pending'
    BY <2>1 DEF Pending
  <2>4. ListsInv'
    <3>1. \A j \in DOMAIN runs' : Listed(runs'[j].captured)
      BY <1>0, <2>1 DEF ListsInv
    <3> QED  BY <1>0, <1>1, <3>1, ListsKept DEF ListsInv
  <2> QED  BY <1>1, <2>2, <2>3, <2>4 DEF IInv, Page, Good, Shows, Picks, Busy
<1> QED  BY <1>0, <1>2, <1>3, StartCases

(* The page is closed or reloaded.                                         *)
LEMMA ReloadStep ==
  ASSUME IInv, Reload
  PROVE  IInv'
<1>0. TypeOK /\ ListsInv
  BY DEF IInv, Page
<1>1. /\ Good(state') /\ ~Busy(state') /\ state'.recent = storage /\ queued' = state'
      /\ storage' = storage /\ saved' = saved /\ serial' = serial
  BY <1>0, OpenedGood DEF Reload, TypeOK
<1>2. /\ runs' \in Seq(Run) /\ Len(runs') = Len(runs) /\ DOMAIN runs' = DOMAIN runs
      /\ \A i \in DOMAIN runs : runs'[i].captured = runs[i].captured
  <2> DEFINE g == [i \in DOMAIN runs |->
                     IF i \in Pending THEN [runs[i] EXCEPT !.status = "gone"] ELSE runs[i]]
  <2>1. runs' = g
    BY DEF Reload
  <2>2. runs \in Seq(Run) /\ Len(runs) \in Nat /\ DOMAIN runs = 1..Len(runs)
    BY <1>0 DEF TypeOK
  <2>3. ASSUME NEW i \in 1..Len(runs)
        PROVE  g[i] \in Run /\ g[i].captured = runs[i].captured
    <3>1. runs[i] \in Run
      BY <2>2
    <3> QED  BY <2>2, <3>1 DEF Run
  <2>4. g \in [1..Len(runs) -> Run]
    BY <2>2, <2>3
  <2> HIDE DEF g
  <2>5. g \in Seq(Run) /\ Len(g) = Len(runs) /\ DOMAIN g = 1..Len(runs)
    BY <2>2, <2>4
  <2> QED  BY <2>1, <2>2, <2>3, <2>5
<1>3. TypeOK'
  BY <1>0, <1>1, <1>2 DEF TypeOK, Good
<1>4. ListsInv'
  <2>1. \A j \in DOMAIN runs' : Listed(runs'[j].captured)
    BY <1>0, <1>2 DEF ListsInv
  <2> QED  BY <1>0, <1>1, <2>1, ListsKept DEF ListsInv
<1> QED  BY <1>1, <1>3, <1>4 DEF IInv, Page, Good, Shows, Picks, Busy

(* The visitor edits the form, selects a hop or goes back.                 *)
LEMMA BrowseStep ==
  ASSUME IInv, EditForm \/ SelectHop \/ BackToSearch
  PROVE  IInv'
<1>0. TypeOK /\ Good(state) /\ Good(queued) /\ (Busy(queued) => Pending # {}) /\ ListsInv
  BY DEF IInv, Page
<1>1. UNCHANGED <<storage, runs, saved, serial>>
  BY DEF EditForm, SelectHop, BackToSearch
<1>2. /\ Good(state') /\ Good(queued') /\ state'.form = queued'.form
      /\ state'.recent = state.recent /\ queued'.recent = queued.recent
      /\ (Busy(queued') => Busy(queued))
  <2>0. state.form = queued.form
    BY <1>0 DEF TypeOK
  <2>1. CASE EditForm
    <3>1. PICK f \in Questions \cup {Blank} :
            state' = FormSet(state, f) /\ queued' = FormSet(queued, f)
      BY <2>1 DEF EditForm
    <3> QED  BY <1>0, <3>1, FormSetGood
  <2>2. CASE SelectHop
    <3>1. PICK i \in DOMAIN state.trace.hops :
            /\ state' = HopSelected(state, state.trace.hops[i], state.trace)
            /\ queued' = HopSelected(queued, state.trace.hops[i], state.trace)
      BY <2>2 DEF SelectHop
    <3>2. state.trace \in Trace
      BY <1>0, <2>2 DEF SelectHop, TypeOK, AppState
    <3>3. /\ Good(state') /\ state'.recent = state.recent /\ state'.form = state.form
      BY <1>0, <3>1, <3>2, HopSelectedGood
    <3>4. /\ Good(queued') /\ queued'.recent = queued.recent /\ queued'.form = queued.form
          /\ (Busy(queued') => Busy(queued))
      BY <1>0, <3>1, <3>2, HopSelectedGood
    <3> QED  BY <2>0, <3>3, <3>4
  <2>3. CASE BackToSearch
    <3>1. /\ Good(state') /\ state'.recent = state.recent /\ state'.form = state.form
      BY <1>0, <2>3, WentBackGood DEF BackToSearch
    <3>2. /\ Good(queued') /\ queued'.recent = queued.recent /\ queued'.form = queued.form
          /\ (Busy(queued') => Busy(queued))
      BY <1>0, <2>3, WentBackGood DEF BackToSearch
    <3> QED  BY <2>0, <3>1, <3>2
  <2> QED  BY <2>1, <2>2, <2>3
<1>3. TypeOK'
  BY <1>0, <1>1, <1>2 DEF TypeOK, Good
<1>4. ListsInv'
  BY <1>0, <1>1, <1>2, ListsKept DEF ListsInv
<1>5. Busy(queued') => Pending' # {}
  BY <1>0, <1>1, <1>2 DEF Pending
<1> QED  BY <1>2, <1>3, <1>4, <1>5 DEF IInv, Page, Good, Shows, Picks, Busy

(* React renders what waits.                                               *)
LEMMA CommitStep ==
  ASSUME IInv, Commit
  PROVE  IInv'
<1>0. TypeOK /\ Good(queued) /\ (Busy(queued) => Pending # {}) /\ ListsInv
  BY DEF IInv, Page
<1>1. state' = queued /\ queued' = queued /\ UNCHANGED <<storage, runs, saved, serial>>
  BY DEF Commit
<1>2. TypeOK'
  BY <1>0, <1>1 DEF TypeOK
<1>3. ListsInv'
  BY <1>0, <1>1, ListsKept DEF ListsInv
<1> QED  BY <1>0, <1>1, <1>2, <1>3 DEF IInv, Page, Good, Shows, Picks, Busy, Pending

(* The runs after one has settled.                                         *)
LEMMA RunSettled ==
  ASSUME TypeOK, NEW i \in DOMAIN runs, Settle(i)
  PROVE  /\ runs' \in Seq(Run) /\ Len(runs') = Len(runs) /\ DOMAIN runs' = DOMAIN runs
         /\ runs[i] \in Run /\ i \in 1..MaxRuns /\ i \in Pending
         /\ Pending' = Pending \ {i}
         /\ \A j \in DOMAIN runs : runs'[j].captured = runs[j].captured
<1>1. /\ runs \in Seq(Run) /\ Len(runs) \in Nat /\ Len(runs) <= MaxRuns
      /\ DOMAIN runs = 1..Len(runs) /\ MaxRuns \in Nat
  BY AppAssumption DEF TypeOK
<1>2. i \in 1..MaxRuns /\ runs[i] \in Run /\ i \in Pending
  BY <1>1 DEF Settle
<1> DEFINE x == [runs[i] EXCEPT !.status = "settled"]
<1>3. x \in Run /\ x.captured = runs[i].captured /\ x.status = "settled"
  BY <1>2 DEF Run
<1>4. runs' = [runs EXCEPT ![i] = x]
  BY DEF Settle
<1> HIDE DEF x
<1>5. /\ runs' \in Seq(Run) /\ Len(runs') = Len(runs) /\ DOMAIN runs' = DOMAIN runs
      /\ runs'[i] = x /\ \A j \in DOMAIN runs : j # i => runs'[j] = runs[j]
  BY <1>1, <1>3, <1>4
<1>6. Pending' = Pending \ {i}
  BY <1>3, <1>5 DEF Pending
<1> QED  BY <1>2, <1>3, <1>5, <1>6

(* A response that brings a trace.                                         *)
LEMMA ResponseOKStep ==
  ASSUME IInv, NEW i \in DOMAIN runs, ResponseOK(i)
  PROVE  IInv'
<1>0. TypeOK /\ Good(state) /\ Good(queued) /\ ListsInv /\ state' = state
      /\ state.form = queued.form
  BY DEF IInv, Page, TypeOK, ResponseOK, Settle
<1>1. /\ runs' \in Seq(Run) /\ Len(runs') = Len(runs) /\ DOMAIN runs' = DOMAIN runs
      /\ runs[i] \in Run /\ i \in 1..MaxRuns
      /\ \A j \in DOMAIN runs : runs'[j].captured = runs[j].captured
  BY <1>0, RunSettled DEF ResponseOK
<1> DEFINE item == [question |-> runs[i].question, run |-> i]
           cap == runs[i].captured
           next == Saved(item, cap)
<1>2. PICK hops \in HopLists :
        LET t == [question |-> runs[i].question, hops |-> hops]
        IN  \/ /\ storage' = next /\ saved' = Append(saved, item)
               /\ queued' = TraceSucceeded(queued, t, next) /\ UNCHANGED serial
            \/ /\ queued' = TraceSucceeded(queued, t, cap)
               /\ serial' = FALSE /\ UNCHANGED <<storage, saved>>
  BY DEF ResponseOK
<1> DEFINE t == [question |-> runs[i].question, hops |-> hops]
<1>3. /\ t \in Trace /\ item \in Recent /\ cap \in Seq(Recent) /\ Listed(cap)
      /\ item.question = runs[i].question
  BY <1>0, <1>1 DEF Trace, Recent, Run, ListsInv
<1>4. \/ /\ storage' = next /\ saved' = Append(saved, item) /\ serial' = serial
         /\ queued' = TraceSucceeded(queued, t, next)
      \/ /\ storage' = storage /\ saved' = saved /\ serial' = FALSE
         /\ queued' = TraceSucceeded(queued, t, cap)
  BY <1>2
<1> HIDE DEF t, item
<1>5. next \in Seq(Recent)
  BY <1>3, SavedShape
<1>6. Append(saved, item) \in Seq(Recent)
  BY <1>0, <1>3 DEF TypeOK
<1> HIDE DEF cap, next
<1>7. /\ Good(queued') /\ ~Busy(queued') /\ queued'.form = queued.form
      /\ \/ storage' = next /\ saved' = Append(saved, item) /\ queued'.recent = next
         \/ storage' = storage /\ saved' = saved /\ queued'.recent = cap
  BY <1>0, <1>3, <1>4, <1>5, TraceSucceededGood
<1>8. TypeOK'
  <2>1. storage' \in Seq(Recent) /\ saved' \in Seq(Recent)
    BY <1>0, <1>4, <1>5, <1>6 DEF TypeOK
  <2>2. serial' \in BOOLEAN
    BY <1>0, <1>4 DEF TypeOK
  <2> QED  BY <1>0, <1>1, <1>7, <2>1, <2>2 DEF TypeOK, Good
<1>9. ListsInv'
  <2>1. CASE storage' = storage /\ saved' = saved /\ queued'.recent = cap
    <3>1. \A j \in DOMAIN runs' : Listed(runs'[j].captured)
      BY <1>0, <1>1 DEF ListsInv
    <3> QED  BY <1>0, <1>3, <2>1, <3>1, ListsKept DEF ListsInv
  <2>2. CASE storage' = next /\ saved' = Append(saved, item) /\ queued'.recent = next
    <3>1. saved \in Seq(Recent)
      BY <1>0 DEF TypeOK
    <3>2. ToSet(saved) \subseteq ToSet(saved')
      BY <1>3, <2>2, <3>1, AppendKeeps
    <3>3. \A list : Listed(list) =>
            /\ Len(list) <= StorageLimit
            /\ \A m, n \in DOMAIN list : list[m].question = list[n].question => m = n
            /\ ToSet(list) \subseteq ToSet(saved')
      BY <3>2 DEF Listed
    <3>4. ASSUME NEW j \in DOMAIN runs'  PROVE Listed(runs[j].captured)'
      <4>1. Listed(runs[j].captured) /\ runs'[j].captured = runs[j].captured
        BY <1>0, <1>1 DEF ListsInv
      <4> QED  BY <3>3, <4>1 DEF Listed
    <3>5. /\ Len(next) <= StorageLimit
          /\ \A m, n \in DOMAIN next : next[m].question = next[n].question => m = n
          /\ ToSet(next) \subseteq ToSet(saved')
      BY <1>3, <2>2, <3>1, SavedFresh DEF next
    <3>6. Listed(queued.recent)' /\ Listed(storage)'
      BY <2>2, <3>5 DEF Listed
    <3>7. Listed(state.recent)'
      <4>1. Listed(state.recent)
        BY <1>0 DEF ListsInv
      <4> QED  BY <1>0, <3>3, <4>1 DEF Listed
    <3> QED  BY <3>4, <3>6, <3>7 DEF ListsInv
  <2> QED  BY <1>7, <2>1, <2>2
<1> QED  BY <1>0, <1>7, <1>8, <1>9 DEF IInv, Page, Good, Shows, Picks, Busy

(* A response that brings an error.                                        *)
LEMMA ResponseErrorStep ==
  ASSUME IInv, NEW i \in DOMAIN runs, ResponseError(i)
  PROVE  IInv'
<1>0. TypeOK /\ Good(state) /\ Good(queued) /\ ListsInv /\ state' = state
      /\ state.form = queued.form
  BY DEF IInv, Page, TypeOK, ResponseError, Settle
<1>1. /\ runs' \in Seq(Run) /\ Len(runs') = Len(runs) /\ DOMAIN runs' = DOMAIN runs
      /\ \A j \in DOMAIN runs : runs'[j].captured = runs[j].captured
  BY <1>0, RunSettled DEF ResponseError
<1>2. /\ Good(queued') /\ ~Busy(queued') /\ queued'.recent = queued.recent
      /\ queued'.form = queued.form /\ UNCHANGED <<storage, saved, serial>>
  BY <1>0, TraceFailedGood DEF ResponseError
<1>3. TypeOK'
  BY <1>0, <1>1, <1>2 DEF TypeOK, Good
<1>4. ListsInv'
  <2>1. \A j \in DOMAIN runs' : Listed(runs'[j].captured)
    BY <1>0, <1>1 DEF ListsInv
  <2> QED  BY <1>0, <1>2, <2>1, ListsKept DEF ListsInv
<1> QED  BY <1>0, <1>2, <1>3, <1>4 DEF IInv, Page, Good, Shows, Picks, Busy

(* A recent trace is one of a question.                                    *)
LEMMA RecentQuestion ==
  ASSUME state \in AppState, NEW i \in DOMAIN state.recent
  PROVE  state.recent[i].question \in Questions
<1>1. state.recent \in Seq(Recent)
  BY DEF AppState
<1>2. state.recent[i] \in Recent
  BY <1>1
<1> QED  BY <1>2 DEF Recent

(* Every step keeps the invariant.                                         *)
LEMMA NextIInv == IInv /\ [Next]_vars => IInv'
<1> SUFFICES ASSUME IInv, [Next]_vars PROVE IInv'
  OBVIOUS
<1>0. TypeOK /\ state \in AppState
  BY DEF IInv, Page, TypeOK
<1>1. CASE EditForm \/ SelectHop \/ BackToSearch
  BY <1>1, BrowseStep
<1>2. CASE Reload
  BY <1>2, ReloadStep
<1>3. CASE Submit
  BY <1>0, <1>3, StartStep DEF Submit, AppState
<1>4. CASE ApplyPreset
  BY <1>4, StartStep DEF ApplyPreset
<1>5. CASE ReuseRecent
  <2>1. PICK i \in DOMAIN state.recent :
          Start(state.recent[i].question, FALSE) /\ UNCHANGED <<storage, saved>>
    BY <1>5 DEF ReuseRecent
  <2>2. state.recent[i].question \in Questions
    BY <1>0, RecentQuestion
  <2> QED  BY <2>1, <2>2, StartStep
<1>6. CASE Rerun
  BY <1>0, <1>6, StartStep DEF Rerun, AppState
<1>7. ASSUME NEW i \in DOMAIN runs, Response(i)  PROVE IInv'
  BY <1>7, ResponseOKStep, ResponseErrorStep DEF Response
<1>8. CASE Commit
  BY <1>8, CommitStep
<1>9. CASE UNCHANGED vars
  BY <1>9 DEF vars, IInv, Page, TypeOK, Good, Shows, Picks, Busy, Pending, ListsInv, Listed
<1> QED
  BY <1>1, <1>2, <1>3, <1>4, <1>5, <1>6, <1>7, <1>8, <1>9 DEF Next, Visitor

(* The inductive invariant of the page.                                    *)
LEMMA Invariance == Spec => []IInv
BY InitIInv, NextIInv, PTL DEF Spec

-----------------------------------------------------------------------------
(* The recent traces and the history.                                      *)

(* The trace saved i-th in sv is the last one of its question.             *)
LatestIn(sv, i) == \A j \in i + 1 .. Len(sv) : sv[j].question # sv[i].question

(* list has the newest traces of sv, newest first, g says at which places; *)
(* the ones that are missing are older, and the list is full.              *)
Follows(list, sv, g) ==
  /\ Len(list) <= StorageLimit
  /\ g \in [1..Len(list) -> 1..Len(sv)]
  /\ \A j, k \in 1..Len(list) : j < k => g[k] < g[j]
  /\ \A k \in 1..Len(list) : list[k] = sv[g[k]] /\ LatestIn(sv, g[k])
  /\ \A i \in 1..Len(sv) : LatestIn(sv, i) =>
       \/ \E k \in 1..Len(list) : g[k] = i
       \/ Len(list) = StorageLimit /\ \A k \in 1..Len(list) : i < g[k]

(* What is the latest after one more trace.                                *)
LEMMA LatestAfter ==
  ASSUME NEW sv \in Seq(Recent), NEW item \in Recent, NEW i \in 1..Len(sv),
         NEW sw, sw = Append(sv, item)
  PROVE  LatestIn(sw, i) <=> LatestIn(sv, i) /\ sv[i].question # item.question
<1>1. /\ Len(sw) = Len(sv) + 1 /\ Len(sv) \in Nat /\ sw[Len(sv) + 1] = item
      /\ \A j \in 1..Len(sv) : sw[j] = sv[j]
  OBVIOUS
<1>2. ASSUME LatestIn(sw, i)  PROVE LatestIn(sv, i) /\ sv[i].question # item.question
  <2>1. \A j \in i + 1 .. Len(sv) + 1 : sw[j].question # sv[i].question
    BY <1>1, <1>2 DEF LatestIn
  <2>2. sv[i].question # item.question
    BY <1>1, <2>1
  <2>3. \A j \in i + 1 .. Len(sv) : j \in i + 1 .. Len(sv) + 1 /\ sw[j] = sv[j]
    BY <1>1
  <2> QED  BY <2>1, <2>2, <2>3 DEF LatestIn
<1>3. ASSUME LatestIn(sv, i), sv[i].question # item.question  PROVE LatestIn(sw, i)
  <2> SUFFICES ASSUME NEW j \in i + 1 .. Len(sw)  PROVE sw[j].question # sw[i].question
    BY DEF LatestIn
  <2>1. CASE j = Len(sv) + 1
    BY <1>1, <1>3, <2>1
  <2>2. CASE j # Len(sv) + 1
    <3>1. j \in i + 1 .. Len(sv) /\ j \in 1..Len(sv)
      BY <1>1, <2>2
    <3> QED  BY <1>1, <1>3, <3>1 DEF LatestIn
  <2> QED  BY <2>1, <2>2
<1> QED  BY <1>2, <1>3

(* An entry of a list that follows the history is the only one of its      *)
(* question.                                                               *)
LEMMA FollowsDistinct ==
  ASSUME NEW sv \in Seq(Recent), NEW list \in Seq(Recent), NEW g, Follows(list, sv, g),
         NEW j \in 1..Len(list), NEW k \in 1..Len(list), list[j].question = list[k].question
  PROVE  j = k
<1>1. ASSUME NEW m \in 1..Len(list), NEW n \in 1..Len(list), m < n,
             list[m].question = list[n].question
      PROVE  FALSE
  <2>1. /\ g[n] < g[m] /\ g[m] \in 1..Len(sv) /\ g[n] \in 1..Len(sv)
        /\ list[m] = sv[g[m]] /\ list[n] = sv[g[n]] /\ LatestIn(sv, g[n])
    BY <1>1 DEF Follows
  <2>2. g[m] \in g[n] + 1 .. Len(sv)
    BY <2>1
  <2> QED  BY <1>1, <2>1, <2>2 DEF LatestIn
<1>2. ~(j < k) /\ ~(k < j)
  BY <1>1
<1> QED  BY <1>2

(* The positions of a list are finite in number.                           *)
LEMMA Interval ==
  ASSUME NEW n \in Nat
  PROVE  IsFiniteSet(1..n) /\ Cardinality(1..n) = n
<1>1. IsFiniteSet(1..n) /\ Cardinality(1..n) = IF 1 > n THEN 0 ELSE n - 1 + 1
  BY FS_Interval
<1> QED  BY <1>1

(* At most one entry is left out of such a list.                           *)
LEMMA AllButOneLeft ==
  ASSUME NEW q, NEW list \in Seq(Recent), NEW w \in Seq(Recent), NEW f, Leaves(f, q, list, w),
         \A j, k \in 1..Len(list) : list[j].question = list[k].question => j = k
  PROVE  Len(w) >= Len(list) - 1
<1> DEFINE K == {i \in 1..Len(list) : list[i].question # q}
<1>1. /\ f \in [1..Len(w) -> 1..Len(list)]
      /\ \A i \in 1..Len(list) : list[i].question # q => \E j \in 1..Len(w) : f[j] = i
      /\ \A j \in 1..Len(w) : w[j] = list[f[j]] /\ w[j].question # q
      /\ Len(w) \in Nat /\ Len(list) \in Nat
  BY DEF Leaves
<1>2. \A i \in 1..Len(list) : i \in K <=> list[i].question # q
  OBVIOUS
<1>3. K \in SUBSET (1..Len(list))
  OBVIOUS
<1> HIDE DEF K
<1>4. f \in Surjection(1..Len(w), K)
  <2>1. \A j \in 1..Len(w) : f[j] \in K
    BY <1>1, <1>2
  <2>2. f \in [1..Len(w) -> K]
    BY <1>1, <2>1
  <2>3. \A i \in K : \E j \in 1..Len(w) : f[j] = i
    BY <1>1, <1>2, <1>3
  <2> QED  BY <2>2, <2>3, Fun_IsSurj
<1>5. IsFiniteSet(1..Len(w)) /\ Cardinality(1..Len(w)) = Len(w)
      /\ IsFiniteSet(1..Len(list)) /\ Cardinality(1..Len(list)) = Len(list)
  BY <1>1, Interval
<1>6. IsFiniteSet(K) /\ Cardinality(K) <= Len(w)
  BY <1>4, <1>5, FS_Surjection
<1>7. Cardinality(K) >= Len(list) - 1
  <2>1. CASE K = 1..Len(list)
    BY <1>1, <1>5, <2>1
  <2>2. CASE K # 1..Len(list)
    <3>1. PICK i \in 1..Len(list) : i \notin K
      BY <1>3, <2>2
    <3>2. K = (1..Len(list)) \ {i}
      BY <1>2, <1>3, <3>1
    <3>3. Cardinality((1..Len(list)) \ {i}) = Len(list) - 1
      BY <1>5, <3>1, FS_RemoveElement
    <3> QED  BY <1>1, <3>2, <3>3
  <2> QED  BY <2>1, <2>2
<1>8. Cardinality(K) \in Nat
  BY <1>6, FS_CardinalityType
<1> QED  BY <1>1, <1>6, <1>7, <1>8

(* saveRecentTrace keeps up with the history.                              *)
LEMMA SavedFollows ==
  ASSUME NEW sv \in Seq(Recent), NEW list \in Seq(Recent), NEW g, Follows(list, sv, g),
         NEW item \in Recent, NEW s, s = Saved(item, list), NEW sw, sw = Append(sv, item)
  PROVE  \E h : Follows(s, sw, h)
<1> DEFINE q == item.question
           w == Without(q, list)
           top == Len(sv) + 1
<1>1. q \in Questions /\ w = Without(q, list) /\ q = item.question
  BY DEF Recent
<1> HIDE DEF w, q
<1>2. /\ s \in Seq(Recent)
      /\ Len(s) = IF 1 + Len(w) < StorageLimit THEN 1 + Len(w) ELSE StorageLimit
      /\ s[1] = item
      /\ \A k \in 2..Len(s) : k - 1 \in 1..Len(w) /\ s[k] = w[k - 1]
  BY <1>1, SavedShape
<1>3. w \in Seq(Recent) /\ \E f : Leaves(f, q, list, w)
  BY <1>1, WithoutShape
<1>4. PICK f : Leaves(f, q, list, w)
  BY <1>3
<1>5. /\ f \in [1..Len(w) -> 1..Len(list)]
      /\ \A j, k \in 1..Len(w) : j < k => f[j] < f[k]
      /\ \A i \in 1..Len(list) : list[i].question # q => \E j \in 1..Len(w) : f[j] = i
      /\ \A j \in 1..Len(w) : w[j] = list[f[j]] /\ w[j].question # q
  BY <1>4 DEF Leaves
<1>6. /\ Len(s) \in Nat /\ Len(w) \in Nat /\ Len(list) \in Nat /\ Len(sv) \in Nat
      /\ StorageLimit \in Nat /\ StorageLimit >= 1 /\ Len(s) <= StorageLimit /\ Len(s) >= 1
  BY <1>2, <1>3, AppAssumption
<1>7. /\ g \in [1..Len(list) -> 1..Len(sv)]
      /\ \A j, k \in 1..Len(list) : j < k => g[k] < g[j]
      /\ \A k \in 1..Len(list) : list[k] = sv[g[k]] /\ LatestIn(sv, g[k])
  BY DEF Follows
<1>8. /\ sw \in Seq(Recent) /\ Len(sw) = top /\ sw[top] = item
      /\ \A i \in 1..Len(sv) : sw[i] = sv[i]
  OBVIOUS
<1> DEFINE h == [k \in 1..Len(s) |-> IF k = 1 THEN top ELSE g[f[k - 1]]]
<1>9. ASSUME NEW k \in 2..Len(s)
      PROVE  /\ f[k - 1] \in 1..Len(list) /\ g[f[k - 1]] \in 1..Len(sv)
             /\ s[k] = list[f[k - 1]] /\ s[k].question # q
             /\ h[k] = g[f[k - 1]] /\ k - 1 \in 1..Len(w)
  <2>1. k - 1 \in 1..Len(w) /\ s[k] = w[k - 1]
    BY <1>2
  <2>2. f[k - 1] \in 1..Len(list)
    BY <1>5, <2>1
  <2>3. g[f[k - 1]] \in 1..Len(sv)
    BY <1>7, <2>2
  <2>4. h[k] = g[f[k - 1]]
    BY <1>6
  <2> QED  BY <1>5, <2>1, <2>2, <2>3, <2>4
<1>10. h[1] = top /\ h \in [1..Len(s) -> 1..top]
  <2>1. h[1] = top
    BY <1>6
  <2>2. ASSUME NEW k \in 1..Len(s)  PROVE h[k] \in 1..top
    <3>1. CASE k = 1
      BY <1>6, <2>1, <3>1
    <3>2. CASE k # 1
      <4>1. k \in 2..Len(s)
        BY <1>6, <3>2
      <4>2. h[k] = g[f[k - 1]] /\ g[f[k - 1]] \in 1..Len(sv)
        BY <1>9, <4>1
      <4> HIDE DEF h
      <4> QED  BY <1>6, <4>2
    <3> QED  BY <3>1, <3>2
  <2>3. h = [k \in 1..Len(s) |-> h[k]]
    OBVIOUS
  <2> HIDE DEF h
  <2> QED  BY <2>1, <2>2, <2>3
<1> HIDE DEF h
<1>11. ASSUME NEW j \in 1..Len(s), NEW k \in 1..Len(s), j < k  PROVE h[k] < h[j]
  <2>1. k \in 2..Len(s)
    BY <1>6, <1>11
  <2>2. CASE j = 1
    <3>1. h[j] = Len(sv) + 1 /\ h[k] = g[f[k - 1]] /\ g[f[k - 1]] \in 1..Len(sv)
      BY <1>9, <1>10, <2>1, <2>2
    <3> QED  BY <1>6, <3>1
  <2>3. CASE j # 1
    <3>1. j \in 2..Len(s)
      BY <1>6, <2>3
    <3>2. f[j - 1] < f[k - 1]
      BY <1>5, <1>9, <1>11, <2>1, <3>1
    <3> QED  BY <1>7, <1>9, <2>1, <3>1, <3>2
  <2> QED  BY <2>2, <2>3
<1>12. ASSUME NEW k \in 1..Len(s)  PROVE s[k] = sw[h[k]] /\ LatestIn(sw, h[k])
  <2>1. CASE k = 1
    <3>1. LatestIn(sw, top)
      BY <1>6, <1>8 DEF LatestIn
    <3> QED  BY <1>2, <1>8, <1>10, <2>1, <3>1
  <2>2. CASE k # 1
    <3>1. k \in 2..Len(s)
      BY <1>6, <2>2
    <3>2. h[k] \in 1..Len(sv) /\ s[k] = sv[h[k]] /\ LatestIn(sv, h[k]) /\ sv[h[k]].question # q
      BY <1>7, <1>9, <3>1
    <3> QED  BY <1>1, <1>8, <3>2, LatestAfter
  <2> QED  BY <2>1, <2>2
<1>13. ASSUME NEW i \in 1..Len(sw), LatestIn(sw, i),
              ~ \E k \in 1..Len(s) : h[k] = i
       PROVE  Len(s) = StorageLimit /\ \A k \in 1..Len(s) : i < h[k]
  <2>1. i \in 1..Len(sv)
    BY <1>6, <1>8, <1>10, <1>13
  <2>2. LatestIn(sv, i) /\ sv[i].question # q
    BY <1>1, <1>13, <2>1, LatestAfter
  <2>3. CASE \E k \in 1..Len(list) : g[k] = i
    <3>1. PICK k \in 1..Len(list) : g[k] = i
      BY <2>3
    <3>2. PICK j \in 1..Len(w) : f[j] = k
      BY <1>5, <1>7, <2>2, <3>1
    <3>3. Len(s) = StorageLimit /\ Len(s) < j + 1
      <4>1. CASE j + 1 \in 1..Len(s)
        <5>1. j + 1 \in 2..Len(s) /\ (j + 1) - 1 = j
          BY <1>6, <4>1
        <5>2. h[j + 1] = g[f[j]]
          BY <1>9, <5>1
        <5> QED  BY <1>13, <3>1, <3>2, <4>1, <5>2
      <4>2. CASE j + 1 \notin 1..Len(s)
        BY <1>2, <1>6, <4>2
      <4> QED  BY <4>1, <4>2
    <3>4. ASSUME NEW m \in 1..Len(s)  PROVE i < h[m]
      <4>1. CASE m = 1
        BY <1>6, <1>10, <2>1, <4>1
      <4>2. CASE m # 1
        <5>1. m \in 2..Len(s) /\ m - 1 < j
          BY <1>6, <3>3, <4>2
        <5>2. f[m - 1] < f[j]
          BY <1>5, <1>9, <5>1
        <5> QED  BY <1>7, <1>9, <3>1, <3>2, <5>1, <5>2
      <4> QED  BY <4>1, <4>2
    <3> QED  BY <3>3, <3>4
  <2>4. CASE ~ \E k \in 1..Len(list) : g[k] = i
    <3>1. Len(list) = StorageLimit /\ \A k \in 1..Len(list) : i < g[k]
      BY <2>1, <2>2, <2>4 DEF Follows
    <3>2. Len(w) >= Len(list) - 1
      <4>1. \A j, k \in 1..Len(list) : list[j].question = list[k].question => j = k
        BY FollowsDistinct
      <4> QED  BY <1>3, <1>4, <4>1, AllButOneLeft
    <3>3. Len(s) = StorageLimit
      BY <1>2, <1>6, <3>1, <3>2
    <3>4. ASSUME NEW m \in 1..Len(s)  PROVE i < h[m]
      <4>1. CASE m = 1
        BY <1>6, <1>10, <2>1, <4>1
      <4>2. CASE m # 1
        <5>1. m \in 2..Len(s)
          BY <1>6, <4>2
        <5> QED  BY <1>9, <3>1, <5>1
      <4> QED  BY <4>1, <4>2
    <3> QED  BY <3>3, <3>4
  <2> QED  BY <2>3, <2>4
<1>14. Follows(s, sw, h)
  BY <1>6, <1>8, <1>10, <1>11, <1>12, <1>13 DEF Follows
<1> QED  BY <1>14

-----------------------------------------------------------------------------
(* MostRecent.                                                             *)

(* n different values are n values.                                        *)
LEMMA Distinct ==
  ASSUME NEW n \in Nat, NEW V, NEW F \in [1..n -> V],
         \A j, k \in 1..n : F[j] = F[k] => j = k,
         \A v \in V : \E m \in 1..n : F[m] = v
  PROVE  IsFiniteSet(V) /\ Cardinality(V) = n
<1>1. IsFiniteSet(1..n) /\ Cardinality(1..n) = n
  BY Interval
<1>2. F \in Surjection(1..n, V)
  BY Fun_IsSurj
<1>3. F \in Injection(1..n, V)
  BY Fun_IsInj
<1> QED  BY <1>1, <1>2, <1>3, FS_Surjection

(* Every question that has been asked has a latest trace.                  *)
LEMMA LatestExists ==
  ASSUME NEW sv \in Seq(Recent), NEW i \in 1..Len(sv)
  PROVE  \E j \in 1..Len(sv) : sv[j].question = sv[i].question /\ LatestIn(sv, j)
<1> DEFINE T == {n \in Nat : n < Len(sv) /\ sv[Len(sv) - n].question = sv[i].question}
<1>1. Len(sv) \in Nat
  OBVIOUS
<1>2. Len(sv) - i \in T
  <2>1. Len(sv) - (Len(sv) - i) = i /\ Len(sv) - i \in Nat /\ Len(sv) - i < Len(sv)
    BY <1>1
  <2> QED  BY <2>1
<1>3. PICK m \in T : \A n \in T : m <= n
  <2>1. T \in SUBSET Nat /\ T # {}
    BY <1>2
  <2> HIDE DEF T
  <2> QED  BY <2>1, NatMinimum
<1> DEFINE j == Len(sv) - m
<1>4. j \in 1..Len(sv) /\ sv[j].question = sv[i].question /\ m \in Nat
  BY <1>1, <1>3
<1>5. ASSUME NEW k \in j + 1 .. Len(sv)  PROVE sv[k].question # sv[j].question
  <2>1. Len(sv) - k \in Nat /\ Len(sv) - k < m /\ Len(sv) - k < Len(sv)
        /\ Len(sv) - (Len(sv) - k) = k
    BY <1>1, <1>4
  <2>2. Len(sv) - k \notin T
    <3> HIDE DEF T
    <3> QED  BY <1>3, <1>4, <2>1
  <2>3. sv[k].question # sv[i].question
    BY <2>1, <2>2
  <2> QED  BY <1>4, <2>3
<1> QED  BY <1>4, <1>5 DEF LatestIn

(* A list that follows the history has as many entries as MostRecent.      *)
LEMMA FollowsLength ==
  ASSUME NEW sv \in Seq(Recent), NEW list \in Seq(Recent), NEW g, Follows(list, sv, g),
         NEW total, total = Cardinality({sv[i].question : i \in DOMAIN sv})
  PROVE  Len(list) = IF total < StorageLimit THEN total ELSE StorageLimit
<1> DEFINE Asked == {sv[i].question : i \in DOMAIN sv}
           F == [k \in 1..Len(list) |-> list[k].question]
           Shown == {F[k] : k \in 1..Len(list)}
           A == [i \in 1..Len(sv) |-> sv[i].question]
<1>1. /\ Len(list) \in Nat /\ Len(sv) \in Nat /\ DOMAIN sv = 1..Len(sv)
      /\ StorageLimit \in Nat /\ Len(list) <= StorageLimit
  BY AppAssumption DEF Follows
<1>2. \A k \in 1..Len(list) : F[k] = list[k].question
  OBVIOUS
<1>3. IsFiniteSet(Shown) /\ Cardinality(Shown) = Len(list)
  <2>1. \A j, k \in 1..Len(list) : F[j] = F[k] => j = k
    BY <1>2, FollowsDistinct
  <2>2. F \in [1..Len(list) -> Shown] /\ \A v \in Shown : \E k \in 1..Len(list) : F[k] = v
    OBVIOUS
  <2> HIDE DEF F, Shown
  <2> QED  BY <1>1, <2>1, <2>2, Distinct
<1>4. IsFiniteSet(Asked)
  <2>1. A \in [1..Len(sv) -> Asked] /\ \A v \in Asked : \E i \in 1..Len(sv) : A[i] = v
    BY <1>1
  <2>2. A \in Surjection(1..Len(sv), Asked)
    BY <2>1, Fun_IsSurj
  <2> HIDE DEF A, Asked
  <2> QED  BY <1>1, <2>2, Interval, FS_Surjection
<1>5. \A k \in 1..Len(list) : g[k] \in DOMAIN sv /\ list[k] = sv[g[k]]
  BY <1>1 DEF Follows
<1>6. Shown \subseteq Asked
  BY <1>5
<1>7. total = Cardinality(Asked) /\ total \in Nat
  BY <1>4, FS_CardinalityType
<1>8. Len(list) <= total
  <2> HIDE DEF Shown, Asked
  <2> QED  BY <1>3, <1>4, <1>6, <1>7, FS_Subset
<1>9. ASSUME Len(list) # StorageLimit  PROVE Shown = Asked
  <2> SUFFICES ASSUME NEW i \in DOMAIN sv  PROVE sv[i].question \in Shown
    BY <1>6
  <2>1. PICK j \in 1..Len(sv) : sv[j].question = sv[i].question /\ LatestIn(sv, j)
    BY <1>1, LatestExists
  <2>2. PICK k \in 1..Len(list) : g[k] = j
    BY <1>9, <2>1 DEF Follows
  <2>3. F[k] = sv[i].question
    BY <1>2, <1>5, <2>1, <2>2
  <2> QED  BY <2>3
<1> HIDE DEF Shown, Asked
<1>10. CASE Len(list) = StorageLimit
  BY <1>1, <1>7, <1>8, <1>10
<1>11. CASE Len(list) # StorageLimit
  BY <1>1, <1>3, <1>7, <1>9, <1>11
<1> QED  BY <1>10, <1>11

(* The k-th entry has k - 1 newer ones, and no other trace has.            *)
LEMMA FollowsPlaces ==
  ASSUME saved \in Seq(Recent), NEW list \in Seq(Recent), NEW g, Follows(list, saved, g),
         NEW i \in 1..Len(saved), Latest(i), NEW n \in 1..Len(list)
  PROVE  Cardinality(Newer(i)) = n - 1 <=> i = g[n]
<1>1. /\ Len(list) \in Nat /\ Len(saved) \in Nat
      /\ g \in [1..Len(list) -> 1..Len(saved)]
      /\ \A j, k \in 1..Len(list) : j < k => g[k] < g[j]
      /\ \A k \in 1..Len(list) : LatestIn(saved, g[k])
  BY DEF Follows
<1>2. \A j \in 1..Len(saved) : Latest(j) <=> LatestIn(saved, j)
  BY DEF Latest, LatestIn
<1>3. ASSUME NEW m \in 0..Len(list)
      PROVE  Cardinality({g[k] : k \in 1..m}) = m
  <2> DEFINE V == {g[k] : k \in 1..m}
             F == [k \in 1..m |-> g[k]]
  <2>1. m \in Nat /\ \A k \in 1..m : F[k] = g[k] /\ k \in 1..Len(list) /\ g[k] \in Int
    BY <1>1
  <2>2. ASSUME NEW j \in 1..m, NEW k \in 1..m, F[j] = F[k]  PROVE j = k
    <3>1. ~(j < k) /\ ~(k < j)
      <4>1. g[j] = g[k] /\ g[j] \in Int /\ j \in 1..Len(list) /\ k \in 1..Len(list)
        BY <2>1, <2>2
      <4> QED  BY <1>1, <4>1
    <3> QED  BY <2>1, <3>1
  <2>3. F \in [1..m -> V] /\ \A v \in V : \E k \in 1..m : F[k] = v
    OBVIOUS
  <2> HIDE DEF F, V
  <2>4. Cardinality(V) = m
    BY <2>1, <2>2, <2>3, Distinct
  <2> QED  BY <2>4 DEF V
<1>4. ASSUME NEW k \in 1..Len(list)
      PROVE  Cardinality(Newer(g[k])) = k - 1
  <2>1. Newer(g[k]) = {g[m] : m \in 1..(k - 1)}
    <3>1. ASSUME NEW m \in 1..(k - 1)  PROVE g[m] \in Newer(g[k])
      <4>1. m \in 1..Len(list) /\ m < k
        BY <1>1
      <4>2. g[m] \in 1..Len(saved) /\ g[k] \in 1..Len(saved) /\ g[k] < g[m] /\ Latest(g[m])
        BY <1>1, <1>2, <4>1
      <4>3. g[m] \in g[k] + 1 .. Len(saved)
        BY <1>1, <4>2
      <4> QED  BY <4>2, <4>3 DEF Newer
    <3>2. ASSUME NEW j \in Newer(g[k])  PROVE \E m \in 1..(k - 1) : j = g[m]
      <4>1. g[k] \in 1..Len(saved)
        BY <1>1
      <4>2. j \in g[k] + 1 .. Len(saved) /\ Latest(j)
        BY DEF Newer
      <4>3. j \in 1..Len(saved) /\ g[k] < j
        BY <1>1, <4>1, <4>2
      <4>4. LatestIn(saved, j) /\ ~(j < g[k])
        BY <1>2, <4>1, <4>2, <4>3
      <4>5. PICK m \in 1..Len(list) : g[m] = j
        BY <4>3, <4>4 DEF Follows
      <4>6. m < k
        <5>1. ~(k < m) /\ k # m
          BY <1>1, <4>1, <4>3, <4>5
        <5> QED  BY <1>1, <5>1
      <4>7. m \in 1..(k - 1)
        BY <1>1, <4>6
      <4> QED  BY <4>5, <4>7
    <3> QED  BY <3>1, <3>2
  <2>2. k - 1 \in 0..Len(list)
    BY <1>1
  <2> QED  BY <1>3, <2>1, <2>2
<1>5. CASE \E k \in 1..Len(list) : g[k] = i
  <2>1. PICK k \in 1..Len(list) : g[k] = i
    BY <1>5
  <2>2. Cardinality(Newer(i)) = k - 1
    BY <1>4, <2>1
  <2>3. g[n] = i => n = k
    <3>1. g[n] = g[k] => ~(n < k) /\ ~(k < n)
      BY <1>1
    <3> QED  BY <1>1, <2>1, <3>1
  <2> QED  BY <1>1, <2>1, <2>2, <2>3
<1>6. CASE ~ \E k \in 1..Len(list) : g[k] = i
  <2>1. \A k \in 1..Len(list) : i < g[k]
    BY <1>2, <1>6 DEF Follows
  <2> DEFINE V == {g[k] : k \in 1..Len(list)}
  <2>2. V \subseteq Newer(i)
    <3> SUFFICES ASSUME NEW k \in 1..Len(list)  PROVE g[k] \in Newer(i)
      OBVIOUS
    <3>1. g[k] \in 1..Len(saved) /\ i < g[k] /\ Latest(g[k])
      BY <1>1, <1>2, <2>1
    <3>2. g[k] \in i + 1 .. Len(saved)
      BY <1>1, <3>1
    <3> QED  BY <3>1, <3>2 DEF Newer
  <2>3. Cardinality(V) = Len(list)
    <3>1. Len(list) \in 0..Len(list)
      BY <1>1
    <3> QED  BY <1>3, <3>1
  <2>4. IsFiniteSet(Newer(i))
    <3>1. Newer(i) \subseteq 1..Len(saved)
      BY <1>1 DEF Newer
    <3> QED  BY <1>1, <3>1, Interval, FS_Subset
  <2> HIDE DEF V
  <2>5. Cardinality(V) <= Cardinality(Newer(i))
    BY <2>2, <2>4, FS_Subset
  <2>6. Cardinality(Newer(i)) \in Nat
    BY <2>4, FS_CardinalityType
  <2>7. Cardinality(Newer(i)) # n - 1
    BY <1>1, <2>3, <2>5, <2>6
  <2> QED  BY <1>6, <2>7
<1> QED  BY <1>5, <1>6

(* A list that follows the history is the list of the most recent traces.  *)
LEMMA FollowsIsMostRecent ==
  ASSUME saved \in Seq(Recent), NEW list \in Seq(Recent), NEW g, Follows(list, saved, g)
  PROVE  list = MostRecent
<1> DEFINE newest(n) == CHOOSE i \in DOMAIN saved : Latest(i) /\ Cardinality(Newer(i)) = n - 1
           total == Cardinality({saved[i].question : i \in DOMAIN saved})
<1>1. DOMAIN saved = 1..Len(saved) /\ \A i \in 1..Len(saved) : Latest(i) <=> LatestIn(saved, i)
  BY DEF Latest, LatestIn
<1>2. ASSUME NEW n \in 1..Len(list)  PROVE list[n] = saved[newest(n)]
  <2>1. g[n] \in DOMAIN saved /\ Latest(g[n]) /\ list[n] = saved[g[n]]
    BY <1>1 DEF Follows
  <2>2. \A i \in DOMAIN saved :
          Latest(i) => (Cardinality(Newer(i)) = n - 1 <=> i = g[n])
    BY <1>1, FollowsPlaces
  <2>3. newest(n) = g[n]
    BY <2>1, <2>2
  <2> QED  BY <2>1, <2>3
<1>3. Len(list) = IF total < StorageLimit THEN total ELSE StorageLimit
  BY FollowsLength
<1>4. MostRecent = [n \in 1..Len(list) |-> saved[newest(n)]]
  BY <1>3 DEF MostRecent
<1>5. list = [n \in 1..Len(list) |-> list[n]]
  OBVIOUS
<1> HIDE DEF newest
<1> QED  BY <1>2, <1>4, <1>5

-----------------------------------------------------------------------------
(* While every run begins after all is rendered and no save fails, the run *)
(* that is pending captured the list as it is, and the list follows the    *)
(* history.                                                                *)
HistInv ==
  serial =>
    /\ queued.recent = storage
    /\ \A i, j \in Pending : i = j
    /\ \A i \in Pending : runs[i].captured = storage
    /\ \E g \in [1..Len(storage) -> 1..Len(saved)] : Follows(storage, saved, g)

(* Nothing was saved before the page was opened.                           *)
LEMMA InitHistInv == Init => HistInv
<1> SUFFICES ASSUME Init PROVE HistInv
  OBVIOUS
<1>1. queued.recent = << >> /\ storage = << >> /\ saved = << >> /\ runs = << >>
  BY DEF Init, Opened
<1>2. Pending = {}
  BY <1>1 DEF Pending
<1> DEFINE g == [k \in 1..0 |-> 1]
<1>3. Len(<< >>) = 0 /\ 1..0 = {} /\ StorageLimit \in Nat
  BY AppAssumption
<1>4. g \in [1..0 -> 1..0] /\ Follows(<< >>, << >>, g)
  BY <1>3 DEF Follows
<1> QED  BY <1>1, <1>2, <1>3, <1>4 DEF HistInv

(* What follows the history follows it while neither changes.              *)
LEMMA FollowsKept ==
  ASSUME storage' = storage, saved' = saved,
         \E g \in [1..Len(storage) -> 1..Len(saved)] : Follows(storage, saved, g)
  PROVE  (\E g \in [1..Len(storage) -> 1..Len(saved)] : Follows(storage, saved, g))'
<1>1. PICK g \in [1..Len(storage) -> 1..Len(saved)] : Follows(storage, saved, g)
  OBVIOUS
<1>2. g \in [1..Len(storage') -> 1..Len(saved')] /\ Follows(storage', saved', g)
  BY <1>1
<1>3. \E h \in [1..Len(storage') -> 1..Len(saved')] : Follows(storage', saved', h)
  BY <1>2
<1> QED  BY <1>3

(* A step that changes no list to come and adds no run.                    *)
LEMMA HistKept ==
  ASSUME HistInv, UNCHANGED <<storage, saved, serial>>, queued'.recent = queued.recent,
         \A j \in Pending' : j \in Pending /\ runs'[j].captured = runs[j].captured
  PROVE  HistInv'
<1>1. CASE ~serial
  BY <1>1 DEF HistInv
<1>2. CASE serial
  <2>1. /\ queued'.recent = storage'
        /\ \A j, k \in Pending' : j = k
        /\ \A j \in Pending' : runs'[j].captured = storage'
    BY <1>2 DEF HistInv
  <2>2. \E g \in [1..Len(storage) -> 1..Len(saved)] : Follows(storage, saved, g)
    BY <1>2 DEF HistInv
  <2>3. (\E g \in [1..Len(storage) -> 1..Len(saved)] : Follows(storage, saved, g))'
    BY <2>2, FollowsKept
  <2> QED  BY <2>1, <2>3 DEF HistInv
<1> QED  BY <1>1, <1>2

(* run up to its await.                                                    *)
LEMMA StartHist ==
  ASSUME IInv, HistInv, NEW f \in Questions \cup {Blank}, NEW rerun \in BOOLEAN,
         Start(f, rerun), UNCHANGED <<storage, saved>>
  PROVE  HistInv'
<1>0. TypeOK /\ Good(state) /\ Good(queued)
  BY DEF IInv, Page
<1>1. queued'.recent = queued.recent
  BY <1>0, StartCases
<1>2. CASE UNCHANGED <<runs, serial>>
  BY <1>1, <1>2, HistKept DEF Pending
<1>3. CASE /\ f \in Questions /\ Len(runs) < MaxRuns
           /\ runs' = Append(runs, [status |-> "pending", question |-> f,
                                    captured |-> state.recent])
           /\ serial' = (serial /\ Pending = {} /\ state = queued)
  <2>1. /\ DOMAIN runs' = DOMAIN runs \cup {Len(runs) + 1}
        /\ \A i \in DOMAIN runs : runs'[i] = runs[i]
        /\ runs'[Len(runs) + 1] =
             [status |-> "pending", question |-> f, captured |-> state.recent]
    BY <1>0, <1>3, RunAdded
  <2>2. ASSUME serial'
        PROVE  /\ serial /\ state = queued /\ Pending' \subseteq {Len(runs) + 1}
               /\ \A i \in Pending' : runs'[i].captured = queued.recent
    <3>1. serial /\ Pending = {} /\ state = queued
      BY <1>3, <2>2
    <3>2. Pending' \subseteq {Len(runs) + 1}
      BY <2>1, <3>1 DEF Pending
    <3> QED  BY <2>1, <3>1, <3>2
  <2>3. CASE ~serial'
    BY <2>3 DEF HistInv
  <2>4. CASE serial'
    <3>1. /\ queued'.recent = storage'
          /\ \A i, j \in Pending' : i = j
          /\ \A i \in Pending' : runs'[i].captured = storage'
          /\ \E g \in [1..Len(storage) -> 1..Len(saved)] : Follows(storage, saved, g)
      BY <1>1, <2>2, <2>4 DEF HistInv
    <3>2. (\E g \in [1..Len(storage) -> 1..Len(saved)] : Follows(storage, saved, g))'
      BY <3>1, FollowsKept
    <3> QED  BY <3>1, <3>2 DEF HistInv
  <2> QED  BY <2>3, <2>4
<1> QED  BY <1>0, <1>2, <1>3, StartCases

(* The page is closed or reloaded: no run is pending.                      *)
LEMMA ReloadHist ==
  ASSUME HistInv, Reload
  PROVE  HistInv'
<1>1. queued'.recent = storage /\ UNCHANGED <<storage, saved, serial>>
  BY DEF Reload, Opened
<1>2. Pending' = {}
  BY DEF Reload, Pending
<1>3. CASE ~serial
  BY <1>1, <1>3 DEF HistInv
<1>4. CASE serial
  <2>1. \E g \in [1..Len(storage) -> 1..Len(saved)] : Follows(storage, saved, g)
    BY <1>4 DEF HistInv
  <2>2. (\E g \in [1..Len(storage) -> 1..Len(saved)] : Follows(storage, saved, g))'
    BY <1>1, <2>1, FollowsKept
  <2> QED  BY <1>1, <1>2, <2>2 DEF HistInv
<1> QED  BY <1>3, <1>4

(* A response that brings a trace: the list that is saved is made from the *)
(* one the run captured, which is the one stored.                          *)
LEMMA ResponseOKHist ==
  ASSUME TypeOK, HistInv, NEW i \in DOMAIN runs, ResponseOK(i)
  PROVE  HistInv'
<1>1. runs[i] \in Run /\ i \in 1..MaxRuns /\ i \in Pending /\ Pending' = Pending \ {i}
  BY RunSettled DEF ResponseOK
<1> DEFINE item == [question |-> runs[i].question, run |-> i]
           next == Saved(item, runs[i].captured)
<1>2. \/ /\ storage' = next /\ saved' = Append(saved, item) /\ queued'.recent = next
         /\ serial' = serial
      \/ serial' = FALSE
  BY DEF ResponseOK, TraceSucceeded, TypeOK, AppState
<1>3. item \in Recent
  BY <1>1 DEF Recent, Run
<1> HIDE DEF item
<1>4. CASE serial' = FALSE
  BY <1>4 DEF HistInv
<1>5. CASE /\ storage' = next /\ saved' = Append(saved, item) /\ queued'.recent = next
           /\ serial' = serial /\ serial
  <2>1. runs[i].captured = storage /\ Pending' = {}
    BY <1>1, <1>5 DEF HistInv
  <2>2. PICK g \in [1..Len(storage) -> 1..Len(saved)] : Follows(storage, saved, g)
    BY <1>5 DEF HistInv
  <2>3. storage' = Saved(item, storage)
    BY <1>5, <2>1
  <2>4. \E h : Follows(storage', saved', h)
    BY <1>3, <1>5, <2>2, <2>3, SavedFollows DEF TypeOK
  <2>5. \E h \in [1..Len(storage') -> 1..Len(saved')] : Follows(storage', saved', h)
    BY <2>4 DEF Follows
  <2>6. (\E h \in [1..Len(storage) -> 1..Len(saved)] : Follows(storage, saved, h))'
    BY <2>5
  <2> QED  BY <1>5, <2>1, <2>6 DEF HistInv
<1>6. serial' = serial => serial \/ serial' = FALSE
  BY DEF TypeOK
<1> QED  BY <1>2, <1>4, <1>5, <1>6

(* A response that brings an error changes no list.                        *)
LEMMA ResponseErrorHist ==
  ASSUME TypeOK, HistInv, NEW i \in DOMAIN runs, ResponseError(i)
  PROVE  HistInv'
<1>1. /\ DOMAIN runs' = DOMAIN runs /\ Pending' = Pending \ {i}
      /\ \A j \in DOMAIN runs : runs'[j].captured = runs[j].captured
  BY RunSettled DEF ResponseError
<1>2. UNCHANGED <<storage, saved, serial>> /\ queued'.recent = queued.recent
  BY DEF ResponseError, TraceFailed, TypeOK, AppState
<1>3. \A j \in Pending' : j \in Pending /\ runs'[j].captured = runs[j].captured
  BY <1>1 DEF Pending
<1> QED  BY <1>2, <1>3, HistKept

(* Every step keeps the relation of the lists to what was saved.           *)
LEMMA NextHistInv == IInv /\ HistInv /\ [Next]_vars => HistInv'
<1> SUFFICES ASSUME IInv, HistInv, [Next]_vars PROVE HistInv'
  OBVIOUS
<1>0. TypeOK /\ state \in AppState /\ queued \in AppState /\ Good(queued)
  BY DEF IInv, Page, TypeOK
<1>1. CASE EditForm \/ SelectHop \/ BackToSearch \/ Commit \/ UNCHANGED vars
  <2>1. UNCHANGED <<storage, runs, saved, serial>>
    BY <1>1 DEF EditForm, SelectHop, BackToSearch, Commit, vars
  <2>2. queued'.recent = queued.recent
    BY <1>0, <1>1 DEF EditForm, SelectHop, BackToSearch, Commit, vars, FormSet, HopSelected,
       WentBack, AppState
  <2> QED  BY <2>1, <2>2, HistKept DEF Pending
<1>2. CASE Reload
  BY <1>2, ReloadHist
<1>3. CASE Submit
  BY <1>0, <1>3, StartHist DEF Submit, AppState
<1>4. CASE ApplyPreset
  <2>1. PICK q \in Questions : Start(q, FALSE) /\ UNCHANGED <<storage, saved>>
    BY <1>4 DEF ApplyPreset
  <2> QED  BY <2>1, StartHist
<1>5. CASE ReuseRecent
  <2>1. PICK i \in DOMAIN state.recent :
          Start(state.recent[i].question, FALSE) /\ UNCHANGED <<storage, saved>>
    BY <1>5 DEF ReuseRecent
  <2>2. state.recent[i].question \in Questions
    BY <1>0, RecentQuestion
  <2> QED  BY <2>1, <2>2, StartHist
<1>6. CASE Rerun
  BY <1>0, <1>6, StartHist DEF Rerun, AppState
<1>7. ASSUME NEW i \in DOMAIN runs, Response(i)  PROVE HistInv'
  BY <1>0, <1>7, ResponseOKHist, ResponseErrorHist DEF Response
<1> QED  BY <1>1, <1>2, <1>3, <1>4, <1>5, <1>6, <1>7 DEF Next, Visitor

-----------------------------------------------------------------------------
(* Every reachable state of the page is well typed.                        *)
THEOREM TypeCorrectness == Spec => []TypeOK
<1>1. IInv => TypeOK
  BY DEF IInv, Page
<1> QED  BY <1>1, Invariance, PTL

(* A success has a trace and no error, a failure an error and no trace and *)
(* the search page neither, whichever responses arrive in whichever order  *)
(* while the visitor goes on, and whenever React renders them (the reducer *)
(* of state.ts, run of App.tsx).                                           *)
THEOREM ViewIsConsistent == Spec => []ViewConsistent
<1>1. IInv => ViewConsistent
  BY DEF IInv, Page, Good, Shows, ViewConsistent
<1> QED  BY <1>1, Invariance, PTL

(* The selected hop is a hop of the trace shown, also when a response has  *)
(* replaced the trace it was selected in (traceSucceeded of state.ts); the *)
(* only other selection there is was made in a trace that was still shown  *)
(* while the new one waited to be rendered (hopSelected checks nothing).   *)
THEOREM SelectionIsInTrace == Spec => []SelectionInTrace
<1>1. IInv => SelectionInTrace
  BY DEF IInv, Page, Good, Picks, SelectionInTrace
<1> QED  BY <1>1, Invariance, PTL

(* The Run button is disabled only while a run's answer is still to come   *)
(* or to be rendered (SearchForm's disabled of App.tsx).                   *)
THEOREM BusyOnlyWhilePending == Spec => []BusyMeansPending
<1>1. IInv => BusyMeansPending
  BY DEF IInv, Page, Busy, BusyMeansPending, SubmitEnabled
<1> QED  BY <1>1, Invariance, PTL

(* However runs overlap and saves fail, neither the lists shown nor the    *)
(* one stored have a question twice, exceed the limit or hold a trace that *)
(* was never saved (saveRecentTrace of recentTraces.ts).                   *)
THEOREM RecentsAreWellFormed == Spec => []RecentsWellFormed
<1>1. IInv => RecentsWellFormed
  BY DEF IInv, ListsInv, Listed, RecentsWellFormed
<1> QED  BY <1>1, Invariance, PTL

(* As long as every run starts after the answers before it were rendered   *)
(* and no save fails, the list stored and the one shown are the            *)
(* StorageLimit questions asked last, newest first, whatever is reloaded   *)
(* in between (saveRecentTrace and run).                                   *)
THEOREM RecentsMatchHistory == Spec => []RecentsFollowHistory
<1>1. Init => HistInv
  BY InitHistInv
<1>2. IInv /\ HistInv /\ [Next]_vars => HistInv'
  BY NextHistInv
<1>3. IInv /\ HistInv => RecentsFollowHistory
  <2> SUFFICES ASSUME TypeOK, HistInv, serial
               PROVE  storage = MostRecent /\ queued.recent = MostRecent
    BY DEF IInv, Page, RecentsFollowHistory
  <2>1. PICK g \in [1..Len(storage) -> 1..Len(saved)] : Follows(storage, saved, g)
    BY DEF HistInv
  <2>2. storage = MostRecent
    BY <2>1, FollowsIsMostRecent DEF TypeOK
  <2> QED  BY <2>2 DEF HistInv
<1> QED  BY <1>1, <1>2, <1>3, Invariance, PTL DEF Spec

=============================================================================
