----------------------------- MODULE ApiProcess -----------------------------
(***************************************************************************)
(* The API process from its start to the questions it accepts: main reads  *)
(* the environment and listens, createTrace decodes a body within the      *)
(* limit, Trace normalises the question and the page keeps what was traced *)
(* among its recent traces, which outlive the process and may be asked     *)
(* again.  One recent trace is kept here: the last one.  Admission and the *)
(* trace itself have modules of their own.                                 *)
(***************************************************************************)
EXTENDS DomainPolicy, Startup

CONSTANTS
  Environments,       \* what the environment may hold
  Questions,          \* what is sent: a text and a query type
  Framing,            \* octets of a body besides the name, its padding included
  NoQuestion          \* nothing asked, nothing stored

ASSUME ProcessAssumption ==
  /\ \A e \in Environments : \A v \in Settable : e[v] \in {Unset, Garbage} \/ e[v] \in Int
  /\ \A e \in Environments :                 \* a token a millisecond or less often
       IsNumber(e["RATE_LIMIT_PER_MINUTE"]) => e["RATE_LIMIT_PER_MINUTE"] <= Minute
  /\ LET Question == [text : Text, qtype : DOMAIN Upper]
     IN  Questions \subseteq Question /\ NoQuestion \notin Question
  /\ Framing \in Nat
  /\ Framing + 3 * 254 <= Fallback["BODY_LIMIT_BYTES"]    \* braces, keys, a query type

VARIABLES
  process,            \* "starting", "listening" or "panicked"
  env,                \* os.Getenv
  settings,           \* the limits the server works with
  asked,              \* the question under way
  reply,              \* the answer to it
  recent              \* the last question traced, as the page stores it

vars == <<process, env, settings, asked, reply, recent>>

Init ==
  /\ process = "starting"
  /\ env \in Environments
  /\ settings = Configured(env)
  /\ asked = NoQuestion /\ reply = "none" /\ recent = NoQuestion

Boot ==
  /\ process = "starting"
  /\ process' = IF Panics(settings) THEN "panicked" ELSE "listening"
  /\ UNCHANGED <<env, settings, asked, reply, recent>>

(* A new process, maybe with another environment, between two questions;   *)
(* the page keeps its recent trace.                                        *)
Restart ==
  /\ process # "starting" /\ asked = NoQuestion
  /\ process' = "starting"
  /\ env' \in Environments
  /\ settings' = Configured(env')
  /\ UNCHANGED <<asked, reply, recent>>

-----------------------------------------------------------------------------
BodyLength(text) == Framing + Length(text.labels)

Answer(question, answer) == asked' = question /\ reply' = answer

(* A body larger than the limit cannot be decoded.                         *)
RefuseBody(q) ==
  /\ BodyLength(q.text) > settings.bodyLimit
  /\ Answer(q, "invalid_request")
  /\ UNCHANGED recent

(* Trace returns the first of the two errors.                              *)
RefuseQuestion(q) ==
  LET domain == NormalizeDomain(q.text)
      err    == IF domain.err # "none" THEN domain.err ELSE NormalizeQType(q.qtype).err
  IN  /\ BodyLength(q.text) <= settings.bodyLimit
      /\ err # "none"
      /\ Answer(q, err)
      /\ UNCHANGED recent

(* The page saves the normalised question of the result.                   *)
TraceQuestion(q) ==
  LET domain == NormalizeDomain(q.text)
      qtype  == NormalizeQType(q.qtype)
  IN  /\ BodyLength(q.text) <= settings.bodyLimit
      /\ domain.err = "none" /\ qtype.err = "none"
      /\ Answer(q, "traced")
      /\ recent' = [domain |-> domain.domain, qtype |-> qtype.qtype]

Ask(q) ==
  /\ process = "listening" /\ asked = NoQuestion
  /\ RefuseBody(q) \/ RefuseQuestion(q) \/ TraceQuestion(q)
  /\ UNCHANGED <<process, env, settings>>

Submit == \E q \in Questions : Ask(q)

AsTyped(domain) == [padded |-> FALSE, labels |-> domain]

(* A recent trace fills the form and is asked again.                       *)
Reuse ==
  /\ recent # NoQuestion
  /\ Ask([text |-> AsTyped(recent.domain), qtype |-> recent.qtype])

(* The answer has been read.                                               *)
Close ==
  /\ asked # NoQuestion
  /\ asked' = NoQuestion /\ reply' = "none"
  /\ UNCHANGED <<process, env, settings, recent>>

Next == Boot \/ Restart \/ Submit \/ Reuse \/ Close

Spec == Init /\ [][Next]_vars

-----------------------------------------------------------------------------
(* Properties.                                                             *)

(* A reference definition of what may be traced: a name of ASCII letters,  *)
(* digits and hyphens within the limits of the DNS and 20 labels, that is  *)
(* no address, no special-use name and not below one or a reverse zone.    *)
PublicName(d) ==
  /\ Len(d) \in 1..20 /\ Length(d) \in 1..253
  /\ \A i \in DOMAIN d : d[i] # "" /\ Octets[d[i]] <= 63 /\ Kind[d[i]] \in {"ldh", "number"}
  /\ ~IsIPLiteral(d)
  /\ \A k \in DOMAIN d : LET zone == SubSeq(d, k, Len(d))
                         IN  zone \notin BlockedDomains /\ (k > 1 => zone \notin ReverseZones)

(* "Accept optional trailing dot on input and strip it": a text names d    *)
(* whatever its case and padding, and with one dot at its end or none.     *)
Names(text, d) == ToLower(text.labels) \in {d, Append(d, "")}

(* No character outside ASCII becomes one of ASCII in lower case.          *)
CaseKeepsAscii(text) ==
  \A i \in DOMAIN text.labels :
    LET l == text.labels[i] IN Kind[l] = "foreign" => Kind[Lower[l]] = "foreign"

(* Whether a question is traced depends on nothing but what it names: no   *)
(* check is fooled by case, padding, a final dot or the order of checks,   *)
(* and with the default body limit or more no public name is too long.     *)
(* The case the order of the checks does get wrong is left to              *)
(* ApiProcessClaims: a letter outside ASCII that ToLower maps into it.     *)
AcceptedExactly ==
  /\ reply # "none" /\ settings.bodyLimit >= Fallback["BODY_LIMIT_BYTES"]
  /\ CaseKeepsAscii(asked.text)
  => LET lower == ToLower(asked.text.labels)
         Public(d) == Names(asked.text, d) /\ PublicName(d)
     IN  IF reply = "traced"
         THEN Public(recent.domain) /\ recent.qtype = Upper[asked.qtype]
         ELSE \/ Upper[asked.qtype] \notin SupportedQTypes
              \/ ~Public(lower) /\ ~Public(TrimDot(lower))

(* A recent trace can be asked again, of this process and of every later   *)
(* one, and names the same question again: what the page stores is stable  *)
(* under the normalisation of the server.  (A later process with a smaller *)
(* body limit may still refuse the body.)                                  *)
RecentsReplayable ==
  recent # NoQuestion =>
    /\ NormalizeDomain(AsTyped(recent.domain)) = OK(recent.domain)
    /\ NormalizeQType(recent.qtype) = [err |-> "none", qtype |-> recent.qtype]

(* Whatever the environment holds, negative numbers apart, a process that  *)
(* listens has its guardrails, as the other modules assume them: every     *)
(* limit is in force, also when a variable is 0 or cannot be read; a       *)
(* client told to retry after a minute finds a token by then; a bucket is  *)
(* full again, with a minute to spare for slow handlers, before it may be  *)
(* forgotten (AdmissionAssumption), unless the burst is more than 14 times *)
(* the rate; and with the two timeouts at their defaults a handler that    *)
(* got its body late and whose trace takes all its time can still answer.  *)
(* Rates are at most 60 000 a minute (ProcessAssumption); the interval is  *)
(* 0, and nobody is limited, only from 60 000 000 001 on.                  *)
GuardrailsInForce ==
  process = "listening" /\ (\A v \in Settable : IsNumber(env[v]) => env[v] >= 0) =>
    /\ settings.interval \in 1..RetryAfterRateLimited
    /\ settings.burst >= 1 /\ settings.slots >= 1
    /\ settings.bodyLimit >= 1 /\ settings.headerBytes >= 1
    /\ \A t \in Timeouts : settings.timeout[t] > 0
    /\ LET perMinute == OrDefault(FromEnv(env, "RATE_LIMIT_PER_MINUTE"), "RATE_LIMIT_PER_MINUTE")
       IN  settings.burst <= 14 * perMinute =>
             settings.burst * settings.interval + Minute <= LimiterTTL
    /\ ~(IsNumber(env["READ_TIMEOUT"]) \/ IsNumber(env["WRITE_TIMEOUT"])) =>
         settings.timeout["READ_TIMEOUT"] + OverallTimeout < settings.timeout["WRITE_TIMEOUT"]

=============================================================================
