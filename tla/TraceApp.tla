------------------------------ MODULE TraceApp ------------------------------
(***************************************************************************)
(* The page: the reducer of frontend/src/app/state.ts, the handlers and    *)
(* run of frontend/src/App.tsx, and the recent traces kept in localStorage *)
(* by frontend/src/lib/storage/recentTraces.ts.                            *)
(*                                                                         *)
(* run awaits runTrace, so several runs may be pending (presets, recent    *)
(* traces and Re-run stay enabled while one is), their responses arrive in *)
(* any order, and each one uses the state.recent its handler's closure     *)
(* captured when it was started.                                           *)
(*                                                                         *)
(* run dispatches its outcome in startTransition.  React (external) renders *)
(* the other actions at once, on top of the state rendered before, and a   *)
(* transition at some later moment; then every action takes effect in the  *)
(* order of its dispatch.  Transitions of one useReducer are rendered      *)
(* together, so two states tell what matters: the one rendered last, which *)
(* the handlers read, and the one with all actions applied.                *)
(*                                                                         *)
(* Left out: the mode toggle, the export (which reads the shown trace and  *)
(* changes nothing but its own flag, within one handler) and the layout.   *)
(***************************************************************************)
EXTENDS Integers, Sequences, FiniteSets, SequencesExt

CONSTANTS
  Questions,          \* normalised (domain, qtype) pairs
  Blank,              \* a form whose domain is empty
  HopLists,           \* the hop indices a trace may have, in order
  StorageLimit,       \* STORAGE_LIMIT
  None,               \* null
  MaxRuns             \* bound: requests sent

Trace == [question : Questions, hops : HopLists]

ErrorCodes == {"invalid_domain_input", "request_failed"}

(* null is no trace and no code, and a trace has at least one hop.         *)
ASSUME AppAssumption ==
  /\ Blank \notin Questions /\ None \notin Questions
  /\ None \notin Trace /\ None \notin ErrorCodes
  /\ \A l \in HopLists : l \in Seq(Nat) /\ l # << >>
  /\ StorageLimit \in Nat \ {0} /\ MaxRuns \in Nat

VARIABLES
  state,              \* the AppState rendered last
  queued,             \* the AppState with every dispatched action applied
  storage,            \* the recent traces in localStorage
  runs,               \* the runs started, in order
  saved,              \* history: the traces saved, in order
  serial              \* history: no run began before all was rendered, no save failed

vars == <<state, queued, storage, runs, saved, serial>>

(* An entry of the recent traces; run stands for the timestamp.            *)
Recent == [question : Questions, run : 1..MaxRuns]

(* A run holds the question it asked and the state.recent it captured;     *)
(* "gone" is a run whose page has been closed.                             *)
Run ==
  [status : {"pending", "settled", "gone"}, question : Questions, captured : Seq(Recent)]

(* late is history: the hop was selected in another trace than this state  *)
(* has, which was still shown.                                             *)
AppState ==
  [viewState : {"idle", "loading", "success", "failure"}, form : Questions \cup {Blank},
   trace : Trace \cup {None}, errorCode : ErrorCodes \cup {None},
   rerunInProgress : BOOLEAN, recent : Seq(Recent),
   selectedHopIndex : Nat \cup {None}, late : BOOLEAN]

Pending == {i \in DOMAIN runs : runs[i].status = "pending"}

(* current.filter: the entries of other questions.                         *)
Without(question, list) ==
  FlattenSeq([i \in DOMAIN list |->
                IF list[i].question # question THEN <<list[i]>> ELSE << >>])

(* Mutant: the older entry of the question is kept.                        *)
SavedTwice(item, current) ==
  LET next == <<item>> \o current
  IN  SubSeq(next, 1, IF Len(next) < StorageLimit THEN Len(next) ELSE StorageLimit)

(* Mutant: the list keeps the oldest entries.                              *)
SavedLast(item, current) ==
  LET next == Append(Without(item.question, current), item)
  IN  SubSeq(next, 1, IF Len(next) < StorageLimit THEN Len(next) ELSE StorageLimit)

(* saveRecentTrace when localStorage accepts the list.                     *)
Saved(item, current) ==
  LET next == <<item>> \o Without(item.question, current)
  IN  SubSeq(next, 1, IF Len(next) < StorageLimit THEN Len(next) ELSE StorageLimit)

-----------------------------------------------------------------------------
(* The reducer: the state after each type of action.                       *)

(* initialState, then recentLoaded.                                        *)
Opened(list) ==
  [viewState |-> "idle", form |-> Blank, trace |-> None, errorCode |-> None,
   rerunInProgress |-> FALSE, recent |-> list, selectedHopIndex |-> None, late |-> FALSE]

(* domainChanged, qtypeChanged, presetApplied and recentReused.            *)
FormSet(s, f) == [s EXCEPT !.form = f]

(* Mutant: a state the page never leaves by itself.                        *)
SubmitStartedValidating(s) == [s EXCEPT !.viewState = "validating", !.rerunInProgress = FALSE]

SubmitStarted(s) == [s EXCEPT !.viewState = "loading", !.rerunInProgress = FALSE]

RerunStarted(s) == [s EXCEPT !.viewState = "loading", !.rerunInProgress = TRUE]

ValidationFailed(s) ==
  [s EXCEPT !.viewState = "failure", !.errorCode = "invalid_domain_input", !.trace = None]

(* Mutant: the selection of the previous trace is kept.                    *)
TraceSucceededSameHop(s, t, list) ==
  [s EXCEPT !.viewState = "success", !.trace = t, !.errorCode = None,
            !.rerunInProgress = FALSE, !.recent = list, !.late = FALSE,
            !.selectedHopIndex = IF @ = None THEN t.hops[1] ELSE @]

TraceSucceeded(s, t, list) ==
  [s EXCEPT !.viewState = "success", !.trace = t, !.errorCode = None,
            !.rerunInProgress = FALSE, !.recent = list, !.late = FALSE,
            !.selectedHopIndex = t.hops[1]]

(* Mutant: the trace shown before is kept.                                 *)
TraceFailedKeepsTrace(s, code) ==
  [s EXCEPT !.viewState = "failure", !.errorCode = code, !.rerunInProgress = FALSE]

(* Mutant: a failed re-run is not over.                                    *)
TraceFailedStillRerunning(s, code) ==
  [s EXCEPT !.viewState = "failure", !.errorCode = code, !.trace = None]

TraceFailed(s, code) ==
  [s EXCEPT !.viewState = "failure", !.errorCode = code, !.trace = None,
            !.rerunInProgress = FALSE]

(* Whatever the index is: t is the trace it was taken from.                *)
HopSelected(s, index, t) == [s EXCEPT !.selectedHopIndex = index, !.late = s.trace # t]

WentBack(s) ==
  [s EXCEPT !.trace = None, !.viewState = "idle", !.selectedHopIndex = None,
            !.errorCode = None, !.late = FALSE]

-----------------------------------------------------------------------------
Init ==
  /\ state = Opened(<< >>) /\ queued = Opened(<< >>)
  /\ storage = << >> /\ runs = << >> /\ saved = << >> /\ serial = TRUE

(* The page is closed or reloaded, with what has not been rendered.        *)
Reload ==
  /\ state' = Opened(storage) /\ queued' = Opened(storage)
  /\ runs' = [i \in DOMAIN runs |->
                IF i \in Pending THEN [runs[i] EXCEPT !.status = "gone"] ELSE runs[i]]
  /\ UNCHANGED <<storage, saved, serial>>

(* React renders the transitions that wait.                                *)
Commit ==
  /\ state # queued
  /\ state' = queued
  /\ UNCHANGED <<queued, storage, runs, saved, serial>>

(* run up to its await, called with f by a handler that sets the form.     *)
Start(f, rerun) ==
  \/ /\ f = Blank
     /\ state' = ValidationFailed(state) /\ queued' = ValidationFailed(queued)
     /\ UNCHANGED <<runs, serial>>
  \/ /\ f # Blank
     /\ Len(runs) < MaxRuns
     /\ LET Started(s) == IF rerun THEN RerunStarted(s) ELSE SubmitStarted(s)
        IN  state' = Started(FormSet(state, f)) /\ queued' = Started(FormSet(queued, f))
     /\ runs' = Append(runs, [status |-> "pending", question |-> f,
                              captured |-> state.recent])
     /\ serial' = (serial /\ Pending = {} /\ state = queued)

-----------------------------------------------------------------------------
(* What the visitor does.                                                  *)

EditForm ==
  /\ \E f \in Questions \cup {Blank} :
       state' = FormSet(state, f) /\ queued' = FormSet(queued, f)
  /\ UNCHANGED <<storage, runs, saved, serial>>

SubmitEnabled == state.viewState # "loading" /\ ~state.rerunInProgress

Submit ==
  /\ SubmitEnabled
  /\ Start(state.form, FALSE)
  /\ UNCHANGED <<storage, saved>>

(* A preset; it may be any question.                                       *)
ApplyPreset ==
  /\ \E q \in Questions : Start(q, FALSE)
  /\ UNCHANGED <<storage, saved>>

ReuseRecent ==
  /\ \E i \in DOMAIN state.recent : Start(state.recent[i].question, FALSE)
  /\ UNCHANGED <<storage, saved>>

(* Re-run asks the question of the form, not that of the trace shown.      *)
Rerun ==
  /\ state.trace # None
  /\ Start(state.form, TRUE)
  /\ UNCHANGED <<storage, saved>>

(* The hops are those of the trace shown.                                  *)
SelectHop ==
  /\ state.trace # None
  /\ \E i \in DOMAIN state.trace.hops :
       LET index == state.trace.hops[i]
       IN  /\ state' = HopSelected(state, index, state.trace)
           /\ queued' = HopSelected(queued, index, state.trace)
  /\ UNCHANGED <<storage, runs, saved, serial>>

BackToSearch ==
  /\ state' = WentBack(state) /\ queued' = WentBack(queued)
  /\ UNCHANGED <<storage, runs, saved, serial>>

-----------------------------------------------------------------------------
(* run after its await; its action waits to be rendered.                   *)

Settle(i) ==
  /\ i \in Pending
  /\ runs' = [runs EXCEPT ![i].status = "settled"]
  /\ UNCHANGED state

ResponseOK(i) ==
  /\ Settle(i)
  /\ \E hops \in HopLists :
       LET item == [question |-> runs[i].question, run |-> i]
           next == Saved(item, runs[i].captured)
           t    == [question |-> runs[i].question, hops |-> hops]
       IN  \/ /\ storage' = next /\ saved' = Append(saved, item)
              /\ queued' = TraceSucceeded(queued, t, next)
              /\ UNCHANGED serial
           \/ \* setItem throws: saveRecentTrace returns current
              /\ queued' = TraceSucceeded(queued, t, runs[i].captured)
              /\ serial' = FALSE
              /\ UNCHANGED <<storage, saved>>

ResponseError(i) ==
  /\ Settle(i)
  /\ queued' = TraceFailed(queued, "request_failed")
  /\ UNCHANGED <<storage, saved, serial>>

Response(i) == ResponseOK(i) \/ ResponseError(i)

Visitor ==
  EditForm \/ Submit \/ ApplyPreset \/ ReuseRecent \/ Rerun \/ SelectHop
  \/ BackToSearch \/ Reload

Next == Visitor \/ Commit \/ \E i \in DOMAIN runs : Response(i)

Spec == Init /\ [][Next]_vars

(* Every request is answered or fails (the server's WriteTimeout closes    *)
(* the connection of one that is not), and React renders a transition that *)
(* waits, in the end also when other actions keep interrupting it.         *)
FairSpec ==
  /\ Spec /\ WF_vars(Commit)
  /\ \A i \in 1..MaxRuns : WF_vars(i \in DOMAIN runs /\ Response(i))

-----------------------------------------------------------------------------
(* Properties.                                                             *)

(* Type invariant.                                                         *)
TypeOK ==
  /\ state \in AppState /\ queued \in AppState /\ state.form = queued.form
  /\ storage \in Seq(Recent) /\ saved \in Seq(Recent)
  /\ runs \in Seq(Run) /\ Len(runs) <= MaxRuns
  /\ serial \in BOOLEAN

(* The page shows what its view state says, whichever responses arrive     *)
(* while the visitor goes on and whenever they are rendered: a success has *)
(* a trace and no error, a failure an error and no trace, the search page  *)
(* neither.                                                                *)
ViewConsistent ==
  \A s \in {state, queued} :
    /\ s.viewState = "success" => s.trace # None /\ s.errorCode = None
    /\ s.viewState = "failure" => s.trace = None /\ s.errorCode # None
    /\ s.viewState = "idle"    => s.trace = None /\ s.errorCode = None

(* The selected hop is a hop of the trace shown, also when a response has  *)
(* just replaced the trace it was selected in, unless it was selected in   *)
(* the old trace while the new one waited to be rendered: the click then   *)
(* takes effect after the new trace and is not compared with it, and the   *)
(* page shows no hop where the new trace has none of that index.           *)
SelectionInTrace ==
  \A s \in {state, queued} :
    s.trace # None /\ ~s.late =>
      \E i \in DOMAIN s.trace.hops : s.trace.hops[i] = s.selectedHopIndex

(* The page is busy only while an answer is still to come or to be         *)
(* rendered: the Run button is not left disabled by a run that is over.    *)
BusyMeansPending == ~SubmitEnabled => Pending # {} \/ state # queued

(* The trace saved i-th is the last one of its question, and those that    *)
(* came after it and are.                                                  *)
Latest(i) == \A j \in i + 1 .. Len(saved) : saved[j].question # saved[i].question

Newer(i) == {j \in i + 1 .. Len(saved) : Latest(j)}

(* The most recent StorageLimit different questions of the traces saved,   *)
(* newest first: a reference definition that looks at the whole history.   *)
MostRecent ==
  LET newest(n) == CHOOSE i \in DOMAIN saved : Latest(i) /\ Cardinality(Newer(i)) = n - 1
      total     == Cardinality({saved[i].question : i \in DOMAIN saved})
  IN  [n \in 1..(IF total < StorageLimit THEN total ELSE StorageLimit) |-> saved[newest(n)]]

(* As long as a run starts only when the answer of the one before has been *)
(* rendered, the list stored, the list shown (once the answer is rendered) *)
(* and the history agree, also across reloads.                             *)
RecentsFollowHistory ==
  serial => storage = MostRecent /\ (state = queued => state.recent = MostRecent)

(* However runs overlap and saves fail, a list of recent traces never has  *)
(* a question twice, never exceeds the limit and never makes up a trace.   *)
RecentsWellFormed ==
  \A list \in {state.recent, queued.recent, storage} :
    /\ Len(list) <= StorageLimit
    /\ \A i, j \in DOMAIN list : list[i].question = list[j].question => i = j
    /\ ToSet(list) \subseteq ToSet(saved)

(* The Run button becomes usable again after every run (checked with the   *)
(* server, in Service).                                                    *)
SubmitRecovers == ~SubmitEnabled ~> SubmitEnabled

=============================================================================
