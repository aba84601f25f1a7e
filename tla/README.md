# A TLA+ model of DNSWatcher

DNSWatcher ("DNS: Follow the Question") traces a DNS question from the root
servers to its end and shows every hop. This directory models the parts of it
that keep state, checks them with TLC on small instances, and proves with TLAPS,
for every value of their constants, all safety invariants the runs check and the
refinements of the two abstract specifications. `PROJECT.json` lists the
components, runs, mutants, hazards, findings and theorems, and the source lines
every definition stands for.

## The system

| Component | Source | State | Operations |
|---|---|---|---|
| Trace engine | `backend/internal/trace/engine.go` | per trace: hops, visited keys, query counter, the activations of a recursive function | `Trace` → `traceName` → `queryCandidates` → `exchange`, `nextCandidatesForReferral` → `resolveNameServerAddresses` → `traceName` |
| Admission control | `backend/internal/httpapi/server.go` | per process: limiter map with `lastSeen`, time of the last clean-up, limiters, semaphore | `createTrace`, `limiterFor`, `cleanupLimiters` |
| Client identity | `backend/internal/httpapi/clientid.go` | none (a function of the peer, the headers and the trusted prefixes) | `resolveClientIdentity`, header parsers |
| Policy | `backend/internal/policy/` | none | `NormalizeDomain`, `NormalizeQType`, `Allow` |
| Start-up | `cmd/dnswatcher-api/main.go`, `NewServer`, `StdlibServer`, `NewEngine` | the settings of the process, fixed once it listens | `envInt`, `envInt64`, `envDuration`, defaults |
| Page | `frontend/src/App.tsx`, `app/state.ts`, `lib/storage/recentTraces.ts` | reducer state, pending runs with what their closures captured, localStorage | reducer actions, `run`, `saveRecentTrace`, `loadRecentTraces` |
| Presenters | `frontend/src/lib/presenters.ts` | none | grouping of support hops, failure copy |
| Contract types, export, test lab | `contracts/types.go`, `lib/exportTrace.ts`, `testkit/lab.go` | none that changes | |

**How they interact.** The page posts a question (`runTrace`); the HTTP handler
derives a rate-limit key from the request, takes a token from that client's
limiter, takes a semaphore slot without waiting, decodes the body and calls
`Engine.Trace`, which runs on the handler's goroutine and returns a result that
the page stores and shows. A trace shares nothing with other traces; handlers
share the limiter map, the limiters and the semaphore; runs of the page share
the reducer state and localStorage.

**What is hard.**

- *Engine.* `queryCandidates` gives a hop its index before the support lookups
  run and `traceName` appends it after them. `traceName` calls itself with a
  fresh depth; only the shared query budget bounds the recursion, and it is
  checked in two places. Loop detection is over the whole trace. Errors of
  several candidates are folded into one, the outcome of a support lookup into
  "unusable". A truncated answer costs a second exchange. The deadline may pass
  and the client may go away between any two steps.
- *Admission.* `limiterFor` reads the clock before it waits for the mutex, and
  `Allow` is called after the mutex is released; a clean-up may run in between.
  An entry may only be dropped when its limiter is full again.
- *Page.* Presets, recent traces and Re-run stay enabled while a run is
  pending, so runs overlap, answers arrive in any order, and each run saves
  with the recent list its closure captured before the await. An outcome is
  dispatched in a transition: until React renders it the visitor still acts on
  the old state.
- *Page and server together.* A visitor who reloads or starts another run leaves
  handlers behind that still hold slots and tokens; connections break before or
  after the work is done.
- *Start-up and policy.* Settings that are 0, negative or no number; rate, burst
  and timeouts are configurable while the limiter TTL, `Retry-After` and the
  overall timeout are not. The checks of a name depend on each other's order.

Correctness of each component: the engine ends, within its guardrails, and its
hops and outcome tell what it did; admission gives every client exactly one
bucket and never leaks a slot; the page never shows a mixture of two traces
and is never stuck; the page with the server behind it keeps that promise; a
process that listens has its limits, and what a visitor stored can be asked
again. `PROJECT.json` lists the hazards at their lines with the
properties that watch them.

## Modules

| Module | What it is |
|---|---|
| `TraceEngine` | The engine, one action per branch of its loops. |
| `TraceJourney` | Abstract: the journey of top-level hops a trace promises. |
| `TraceEngineProofs` | Theorems about `TraceEngine`: types, budget, recursion, egress. |
| `TraceHopsProofs` | Theorems about its hops and its outcome. |
| `TraceJourneyProofs` | `TraceEngine` implements `TraceJourney`. |
| `MCTraceEngine` | Instances: messages, servers, names. |
| `TraceClaims` | What documents say of a trace and the engine does not do. |
| `Admission` | `createTrace`, `limiterFor` and the limiter map, one process per request. |
| `TokenBuckets` | Abstract: one token bucket per client for ever, and a bounded set of running requests. |
| `AdmissionProofs` | Theorems about `Admission`, which implements `TokenBuckets`. |
| `MCAdmission` | Instances of `Admission`. |
| `ClientIdentity` | The rate-limit key of a request that passed a chain of proxies. |
| `ClientIdentityProofs` | Theorems about `ClientIdentity`. |
| `MCClientIdentity` | An instance: addresses of 2 and 4 bits. |
| `TraceApp` | The reducer, `run` before and after its await, transitions that wait to be rendered, recent traces, reload. |
| `TraceAppProofs` | Theorems about `TraceApp`. |
| `MCTraceApp`, `TraceAppClaims` | Instances, and claims of the documents that do not hold. |
| `Service` | The page and the server together: `TraceApp` whose answers come from `Admission`. |
| `MCService` | An instance of `Service`. |
| `DomainPolicy` | `NormalizeDomain` and `NormalizeQType`, over labels. |
| `Startup` | From the environment to the limits a process works with. |
| `ApiProcess` | The process: boot, restarts, questions, and the recent trace that outlives it. |
| `ApiProcessProofs` | Theorems about `ApiProcess`. |
| `MCApiProcess` | An instance: labels of every kind, names at every limit, environments. |
| `ApiProcessClaims` | What the API contract says of names and the code does not do. |
| `Presenters` | How the page groups the hops of a trace; used by `TraceClaims`. |
| `SequenceLemmas` | What the proofs share about sequences. |

### TraceEngine

`stack` is the call stack of `traceName`: a frame holds the locals of one
activation and of the `queryCandidates` it is in (`next`, `timeouts`, `err`,
`last` are the position in the candidate loop, `timeoutCount`, `lastErr` and
`lastHop`; `hop`, `ns`, `pos`, `family`, `found` belong to a referral whose
nameserver addresses are being looked up). `pc` says which await or loop head
the activation is at. `ret` is the outcome just returned to the caller.
`hops`, `visited` and `upstreamQueries` are the fields of `traceState`;
`exchanges` is a history counter. One action stands for one branch of the code:
loop head (`DepthExceeded`, `BudgetExceeded`, `StartQuery`), candidate loop
(`BudgetExhausted`, `SkipBlocked`, `LoopDetected`, `SendQuery`,
`CandidatesExhausted`), the end of an exchange (`ExchangeTimeout`,
`ExchangeError`, `Receive`), referral without glue (`SupportLookup`,
`AddressesFound`, `TryIPv6`, `NoAddress`, `ReferralResolved`,
`ReferralUnusable`) and `Finish`.

The network is external: an exchange may be answered by any message of
`Messages`, time out or fail. Whether a particular I/O error counts as
`context.DeadlineExceeded` is up to the DNS library, so an exchange that is not
answered may end either way. `ctx` tells what the context still lets through. Of
the context `ExchangeContext` (miekg/dns) gives the socket only the deadline:
once that has passed (`DeadlinePasses`, `ctx = "done"`) no response is received.
When the client goes away (`ClientGone`, `ctx = "cancelled"`) an exchange under
way is still answered and its answer used; the next one does not get to dial
(`Dial`), so from then on nothing is received either.
A response is abstracted to what the code tells apart: header bits, the alias
target, the records that match the question, SOA, NS targets and glue. Answer
sections that hold only unrelated records are left out, as are wording, zones
and roles. Configurations in which the policy blocks every root are left out.

### Admission

Every request is a process whose `pc` is the place in `createTrace`. `ReadClock`
and `LimiterFor` are two steps (the clock is read before the mutex is taken);
everything under the mutex is one step; `Allow`, the semaphore, decoding, the
trace and the deferred release are steps of their own. Limiters outlive their
map entry while a handler holds one, so they are kept in `bucket`, named by the
request that created them. `golang.org/x/time/rate` is external: a bucket that
gains one unit of credit a tick and whose `Allow` is atomic. That idealises it a
little: `Allow` reads the clock before it takes its mutex, so of two calls the
later one may come with the older reading.
`MaxPause` bounds how long a handler may be held up between its clock reading
and `Allow`; the assumption `TTL >= Burst * Cost + 2 * MaxPause` says that an
idle limiter is full before it may be dropped. With the defaults (a token every
3 s, burst 5, TTL 15 min) it holds for pauses of up to seven minutes.

### ClientIdentity

`Admission` takes the key of a request as given; this module says where it comes
from. `Boot` reads the trusted networks (`BootFails` is the `log.Fatalf` of
`main`); one request then starts at a machine (`Send`), passes trusted proxies
(`AppendXff` … `OverwriteForwarded`) and is identified: one action per return of
`resolveClientIdentity`. The proxies are external and do what
`docs/09-deployment.md` asks of them: append to a header they maintain, each to
its own, or overwrite it at the edge. A proxy further in that overwrites would
erase the client and is left out. An element of a header is the result of
parsing it; an address is a row of `W4` or `W6` bits, so that prefixes, the
mapped block and its removal are computed as in `net/netip`. The `default` of
the last `switch` is unreachable (a header that is present has an element) and
has no action. IPv6 zones are left out.

### TraceApp

`state` is the `AppState` rendered last, which the handlers read; `queued` the one
with every dispatched action applied. React is external: it applies actions in
the order of their dispatch, renders those of the visitor at once (on top of
`state`) and those dispatched in `startTransition`, the outcomes of runs, at some
later moment (`Commit`), when the visitor's actions take effect again in their
place after or before them. Each type of action is an operator on a state
(`SubmitStarted`, `TraceSucceeded`, `HopSelected` …); an action of the visitor
applies it to both states, `ResponseOK` and `ResponseError` to `queued` only.
`Start` is `run` up to its await; `Reload` closes the page, drops pending runs
and loads the stored list. `saved`, `serial` and the field `late` are history:
the traces stored, whether every run began when all before it was over and
rendered and no save failed, and whether the hop was selected in another trace
than the one the state has. The mode toggle and the export flag are left out, as
is a second tab.

### Service

`App == INSTANCE TraceApp` and `Api == INSTANCE Admission` share nothing but the
numbering of requests: run `i` of the page is request `i` of the server.
`Visitor`, `Commit` and `Tick` are steps of one side. `Arrive(i)` is the network
bringing request `i` to its handler (it can only after the page has sent it),
`Handle(i)` any later step of the handler, `Deliver(i)` the answer settling the
run, with a trace if the handler traced and an error for every other status, and
`Disconnect(i)` a connection that fails at any moment: the page gives up, the
handler does not notice. An answer may be delivered before the handler has given
its slot back, as the response is written before the deferred function runs.
`Restart` ends the process at any moment (`main` does not wait for handlers):
the running handlers are gone, limiters and slots start anew, answers already
written may still arrive; `lost` records the requests that were never answered.
`ResponseError` is also possible for a traced answer (a body that breaks off, or
a trace that ended in `internal_error`).

### DomainPolicy, Startup, ApiProcess

`DomainPolicy` splits a text at its dots. What the code asks of the characters
of a label is given by constants: octets, kind (decimal number, IPv6 address,
letters digits and hyphens, hyphen at an end, other ASCII, not ASCII) and what
`ToLower` makes of it; `Checked` has the checks in the order of the code, and
the errors keep their kind although the API reports them under one code. IPv6
spellings with a dot are left out. `Startup` gives every setting as the
environment, `main`, `NewServer` and `StdlibServer` combine them, in
milliseconds (so rates up to 60 000 a minute; higher ones are left out, among
them those above 6·10^10 for which the interval of Go is 0 and nobody is
limited). `ApiProcess` puts them together: `Boot` listens or panics, `Restart`
begins a new process with any environment between two questions, `Ask` is one
question with its three ends (`RefuseBody`, `RefuseQuestion`, `TraceQuestion`),
`Reuse` asks the stored recent trace again, `Close` is the end of an exchange.
One recent trace is kept; a question takes one step, since everything it touches
is its own. A body is as long as its text and `Framing`, which stands for
braces, keys, query type and padding: a body that a client blows up by other
means (escapes, white space without end) is left out.

### Presenters

`Parents` and `Children` are the two maps of `groupHopsByParent`; `AtDepth` is
the recursion of `flattenSupportHops` unrolled to one level more than there are
hops, which only a recursion without end reaches.

## Runs

| Run | Shows | Bounds |
|---|---|---|
| `engine_hops` | types; no fabricated hops; the outcome describes the last hop; guardrails are not reported early; query and exchange budget; the inductive invariant of the proofs | a blocked root between two permitted ones, depth 4, budget 5, seven kinds of answer: alias chains, glue with a blocked address, truncation, nested support lookups |
| `engine_glueless` | recursion bounded, egress policy, every support hop has its referral | 1 root, depth 4, budget 6: three activations at a time, blocked answers and glue, lame servers |
| `engine_journey` | refinement of `TraceJourney`, termination, a deadline ends in failure, and so does a client that goes away while no exchange is under way | 2 roots, depth 3, budget 4, truncated answers included |
| `admission_limits` | one bucket per client under clean-up (refinement of `TokenBuckets`), rate, map freshness, slots | 3 requests of 2 clients, 2 slots, TTL 4 (the smallest allowed), clock to 6: entries expire and clients come back |
| `service` | the composition implements `TraceApp!FairSpec`; the Run button recovers from every run; every request is answered unless its process ended | 2 runs, 1 slot, 1 token, a clock that refills it once, restarts at any moment: runs left behind, refused for the rate and for the concurrency, cut off and answered late; one question and one-hop traces, which `app_runs` varies |
| `api_questions` | exactly the public names are traced; recent traces can be replayed; the guardrails are in force | 19 labels of all kinds, names at 20/21 labels, 63/64 and 253/254 octets, with 0 to 2 final dots; each setting unset, unreadable, 0, 1 and -1, and pairs of rate and burst on both sides of the limit |
| `client_identity` | the key is the client or the peer; headers select outsiders only; proxied clients are found; networks mean what they say | 4 machines, 2 proxies, 10 configurations in both spellings, headers with outsiders, insiders, obfuscated, duplicate and broken elements |
| `app_runs` | consistent view, selection, recent traces, no button left disabled | 3 runs that may overlap and be rendered late, 3 questions, list of 2: dedupe and displacement occur |
| `claim_*` | four claims of documents that the code does not keep; see `findings` | the smallest instance with a counterexample |

Bounds of the model: the engine is bounded by its own guardrails. `MaxClock`
ends time in `Admission` and `MaxRuns` the requests of `TraceApp`; both are
guards of one action (`Tick`, `Start`). Three roles suffice for the interesting
cases: a client whose entry ages, a client whose request cleans up, and a
second request of the first in between. Symmetry is used where no liveness is
checked, over clients, requests and questions, which no action tells apart
(`app_runs` leaves `SubmitRecovers` to `service` for that).
Every property has a mutant in its module (marked *Mutant*), a plausible bug
under which its run fails.

**Fairness.** `TraceEngine!FairSpec` is weakly fair to the engine's own steps:
it runs on its goroutine, and an exchange ends within `PerHopTimeout`.
`TraceApp!FairSpec` assumes every request is answered or fails, and that React
renders a transition that waits in the end. `Service!FairSpec`
discharges the first: it is weakly fair to every handler that has started
(the Go scheduler runs it, it waits for nothing but a mutex held for a few
statements and a body with a read timeout, and its trace terminates, see
`Terminates`), to the network bringing a request to the server or refusing it,
to the delivery of an answer that has been written, and to the closing of the
connections of a process that ended. While a handler runs nothing makes its
connection break, so a page whose handler never answered would wait for ever.
The visitor is under no obligation,
and neither are the deadline and the clock.

## Proofs

`TraceEngineProofs` proves, for every set of names, addresses and messages,
every policy and every guardrail (assumption `EngineAssumption`):

- `Invariance`: `IInv` holds in every reachable state;
- `TypeCorrect`, `BudgetRespected`, `RecursionIsBounded`, `EgressRespected`: the
  invariants `TypeOK`, `QueryBudget`, `RecursionBounded`, `EgressPolicy`.

None of the last three is inductive. That the recursion is bounded needs the
discipline of the call stack: every activation but the innermost waits in a
referral, the innermost does while an outcome is returned to it (`StackOK`), and
an activation with an exchange or a referral in hand has paid a query for it
(`PaidFor`), so pushing an activation never overtakes the counter. The budget
needs `PaidFor` too: a UDP exchange leaves room for its TCP fallback. The egress
policy needs that addresses found so far, and candidates of suspended
activations, are permitted, and that an exchange is within its candidate list
(`FrameOK`). `NextIInv` has a lemma per group of actions; the helper lemmas give
the types of `FlattenSeq`, `Distinct`, `Permitted`, `GlueCandidates` and
`Addresses`.

`TraceHopsProofs` proves `HopsAreReal`, `SupportHopsFollowed`,
`OutcomeIsOfLastHop` and `GuardrailIsSpent` from a second invariant, `HopInv`,
that holds on top of `IInv`:

- `QuestionsInv`: a question that was put is shown by one hop, or held by one
  activation that may still record it (as its exchange, its last error or its
  referral), never both and never by two. A hop is therefore recorded once.
- `StackInv`: the outermost activation has recorded as many top-level hops as it
  has gone round, every other activation is the child of the referral below it,
  and in the candidate loop "no last error" means that all candidates so far
  were blocked.
- `Covered`: the referral of a support hop is recorded behind it, or still held.
- `Ended`: what the outermost activation returned describes the last hop.

`OutcomeIsOfLastHop` needs `RootAssumption`: some root may be asked. The root
hints are public addresses (`root_hints.go`) and the policy permits those; with
every root blocked a trace would end without a hop to describe.

`TraceJourneyProofs` adds `JourneyInv` (the journey is as long as the outermost
activation is deep, and stands at the name it asks for) and proves
`JourneyRefinement`: the hops without parent are a step of `TraceJourney` when
one is recorded by the outermost activation, and stutter in every other step,
however many support lookups, fallbacks and retries come between.

`AdmissionProofs` proves all invariants of `Admission` and the refinement, for
every number of clients and requests (assumption `AdmissionAssumption`):

- `TypeCorrectness`, `SlotsAreAccounted`, `OneLimiter`, `IdleForgotten` from
  `Core`. The heart is how stale a time can be: a handler's clock reading by at
  most `MaxPause`, `lastSeen` of its client by as much again, because another
  handler of the client may write an older reading later (`HoldersSeen`), and
  the last use of a limiter is at most `2 * MaxPause` after `lastSeen`
  (`UsesSeen`). An entry that a clean-up drops is therefore `Burst * Cost` older
  than its last use, which is where `TTL >= Burst * Cost + 2 * MaxPause` is used
  (`DroppedIsFull`): what is forgotten is a full bucket.
- `Refinement`: with `Credits` for the buckets, `LimiterFor` and its clean-ups
  are stuttering steps of `TokenBuckets`, and only `Allow` and `Tick` are not.
- `RateIsRespected` by `CreditAccounted`: what a client used and what it has left
  never exceed a burst and the tokens of the time that passed.

`TraceAppProofs` proves the invariants of `TraceApp` for any number of runs, in
any order of answers (assumption `AppAssumption`): `ViewIsConsistent`,
`SelectionIsInTrace`, `BusyOnlyWhilePending` and `RecentsAreWellFormed` from
`IInv`. It holds of the state rendered and of the one with all actions applied
alike, so `Commit` keeps it; that the latter is busy only while a run is pending
is what makes the former recover. Of the lists it says that every pending run
captured a well-formed one, since a run saves with the list of its start.
`RecentsMatchHistory` needs `HistInv`: while runs do not overlap, the run that
is pending captured the list as it is stored, and that list `Follows` the
history, newest first, each question at its last place, and nothing missing but
what is older than a full list. `FollowsIsMostRecent` shows that such a list is
the reference definition `MostRecent`.

`ClientIdentityProofs` proves, for every set of machines, networks and headers,
any number of proxies and every width of the addresses (assumption
`IdentityAssumption`), `KeyIsNoThirdParty`, `HeadersOnlySelectOutsiders`,
`ProxiedClientFound`, `NetworksMeanWhatTheySay` and `TypeCorrectness`. The key is
a matter of the last step, but what makes it right happened on the way: `IInv`,
which the lemma `IdentityInvariance` proves, says that after the
first proxy one of the two headers ends with the client followed by trusted
proxies only, or cannot be read (`EndsAt`). A proxy that appends to the other
header keeps that true, which is why proxies may maintain different headers.
`ChainClient` then gives the hop `clientFromTrustedChain` finds.
`NetworksMeanWhatTheySay` looks at the bits: a canonical prefix holds exactly
the addresses one spelling of which the configured one holds. It uses that the
mapped block ends in a one bit (`::ffff:0:0/96`): a shorter prefix that covers
the block is no longer a mapped address once its host bits are cleared.

`ApiProcessProofs` proves `GuardrailsAreInForce`, `RecentsAreReplayable` and
`AcceptsExactlyPublicNames`, for every environment, every set of labels and every
question (assumptions `DomainAssumption`, `ProcessAssumption`). The first rests
on `SettingsInv` (the settings are those of the environment) and on two facts of
arithmetic: a rate of `p` gains a token at least every minute, and
`burst <= 14 * p` tokens fill in 14 minutes (`FillsInTime`). The second needs
that the stored domain is a fixed point of lowercasing, of taking the dot off and
of the checks, in that order (`NormalizeDomainStable`): no valid label is empty,
so no dot is left to take off a second time. The third shows that the checks, in
the order of the code, accept what `PublicName` describes (`CheckedIsPublic`;
"below a zone" there is "an end of the name is the zone", `BelowIsTail`), that a
text and its trimmed form differ by a final dot (`DotTaken`), and that no text
that names a public name is too long for the default body limit
(`PublicNamesFit`): a name has 253 octets, a dot more, and three times as many
before `ToLower`, which makes one octet of the three of the Kelvin sign.
`DomainAssumption` says that much of `ToLower`, and that only the empty label has
no octets; `ProcessAssumption` that `Framing` and those 762 octets fit 2048.

`SequenceLemmas` has what these proofs share. `FlattenSeq` of the library and
`Length` of `DomainPolicy` are defined by recursion on a length; where a lemma
about them needs induction it argues from the least counterexample
(`NatMinimum`, from the well-foundedness of `<`).

Only model-checked: liveness (`Terminates` and `DeadlineEndsInFailure` of the
engine, `SubmitRecovers` and `EveryRequestAnswered` of the service) and
`ImplementsPage`, whose point is the fairness of `TraceApp!FairSpec`; liveness
under fairness is out of the prover's reach. Everything else a passing run
checks is a theorem.

## Findings

The runs `claim_*` each end in a counterexample.

- `claim_groups`: the index of a referral without glue is `len(state.hops)` at a
  time when it is not appended yet, so its first support hop gets the same index
  and is its own parent; the page's grouping by parent (`Presenters`) does not end
  on such a trace. For the same reason `terminal_hop_index` can name two hops.
- `claim_fallback`: a TCP fallback that fails is shown as an untruncated UDP hop.
- `claim_ascii`: `ToLower` runs before the check for ASCII (`domain.go:33`, `41`)
  and maps the Kelvin sign to the letter k, so a name that has one is traced,
  although `docs/02-api-contract.md:19` says "ASCII domain names only in v1".
  `AcceptedExactly` therefore speaks of texts without such letters.
- `claim_recents`: of two overlapping runs of the page the second to finish
  overwrites what the first stored.

Also seen while modelling, and left without a run: a query budget that runs out
between two candidates is reported with the message of the depth limit
(`engine.go:236`, `209`), the timeout outcome speaks of all candidates when only
the last one timed out (`engine.go:205`, `254`), a nameserver address that was
already found ends a second lookup in `LOOP` (`engine.go:243`), and Re-run asks
the question of the form, not of the trace shown (`App.tsx:282`). Every failure
that is not one of the named codes, a network error included, ends in the
outcome servfail, of which the page says "An upstream server reported a server
failure." (`engine.go:223`, `presenters.ts:59`). A hop of the old trace that is
selected while the new one waits to be rendered is not compared with the new
trace (`state.ts:103`), whose page then shows no hop, or the one that happens to
have that index. A nameserver's addresses are read back by an index that several
referrals share, so those of another one may be tried (`engine.go:377`); they
are permitted addresses, so `EgressPolicy` says nothing of it. Rate and burst
are not checked against the fixed TTL of the limiters: with a burst of more than
15 times the rate an idle limiter is forgotten before it is full
(`server.go:92`); a negative rate means no limit and a negative capacity stops
the start with a panic (`server.go:90`, `95`).

## Plan

1. *Done:* `TraceEngine` with `TraceJourney` and the first theorems;
   `Admission` with `TokenBuckets`; `ClientIdentity` with its theorems;
   `TraceApp`; `Service`, the composition of page and server; `DomainPolicy`,
   `Startup` and `ApiProcess` with two theorems; `Presenters`.
2. *Done:* the proofs of every safety invariant the runs check, and of the
   refinements of `TraceJourney` and `TokenBuckets`.
3. *Next:* the steps of `Service` against those of `TraceApp` and, across
   restarts, the invariants of `Admission` that survive one.
4. *Later:* the zones and roles of hops, a second tab on the same localStorage.

## Not modelled

The export writes the shown trace to a file; the test lab is support code of the
tests; scripts, CI, fixtures, generated types, styles and rendering carry no
protocol. The table of prefixes of `destination.go` is data: the engine asks
`Allow` of every candidate, and its answer is the constant `Allowed`. The roots'
addresses are data too. Of start-up, logging, the address it listens on and the
directory of static files are left out; of the page, the wording of the
presenters and the order within a group. In `ClientIdentity` the characters of
header values are left out, in `DomainPolicy` those of labels.

## Running

    tlc -config MCTraceEngine_hops.cfg MCTraceEngine
    tlapm SequenceLemmas.tla
    tlapm TraceEngineProofs.tla
    tlapm TraceHopsProofs.tla
    tlapm TraceJourneyProofs.tla
    tlapm AdmissionProofs.tla
    tlapm TraceAppProofs.tla
    tlapm ClientIdentityProofs.tla
    tlapm ApiProcessProofs.tla

Each proof module is checked on its own; a module that extends another takes its
theorems as proved there.
