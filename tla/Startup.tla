------------------------------ MODULE Startup -------------------------------
(***************************************************************************)
(* From the environment of the process to the limits it works with: main   *)
(* and the env functions of backend/cmd/dnswatcher-api/main.go, NewServer  *)
(* and StdlibServer of backend/internal/httpapi/server.go, NewEngine of    *)
(* backend/internal/trace/engine.go.  Durations are in milliseconds.  The  *)
(* trusted networks are read in ClientIdentity.                            *)
(***************************************************************************)
EXTENDS Integers

CONSTANTS
  Unset,              \* a variable that is not set, or empty
  Garbage             \* a value that Atoi, ParseInt or ParseDuration refuses

Second == 1000
Minute == 60 * Second

(* The variables, and the values main falls back to, which are also those  *)
(* of NewServer and StdlibServer.                                          *)
Fallback ==
  [RATE_LIMIT_PER_MINUTE |-> 20,
   RATE_LIMIT_BURST      |-> 5,
   MAX_CONCURRENT_TRACES |-> 8,
   BODY_LIMIT_BYTES      |-> 2048,
   MAX_HEADER_BYTES      |-> 1048576,
   READ_HEADER_TIMEOUT   |-> 5 * Second,
   READ_TIMEOUT          |-> 10 * Second,
   WRITE_TIMEOUT         |-> 30 * Second,
   IDLE_TIMEOUT          |-> 60 * Second]

Settable == DOMAIN Fallback

Timeouts == {"READ_HEADER_TIMEOUT", "READ_TIMEOUT", "WRITE_TIMEOUT", "IDLE_TIMEOUT"}

(* NewServer, createTrace: not configurable.                               *)
LimiterTTL == 15 * Minute
RetryAfterRateLimited == 60 * Second

(* NewEngine: main passes an empty Config.                                 *)
OverallTimeout == 12 * Second

IsNumber(value) == value \notin {Unset, Garbage}

(* envInt, envInt64, envDuration.                                          *)
FromEnv(env, v) == IF IsNumber(env[v]) THEN env[v] ELSE Fallback[v]

(* Mutant: only a rate of 0, which would divide by zero, has a default.    *)
OrDefaultOfRate(value, v) ==
  IF value = 0 /\ v = "RATE_LIMIT_PER_MINUTE" THEN Fallback[v] ELSE value

(* A zero field of a Config stands for the default.                        *)
OrDefault(value, v) == IF value = 0 THEN Fallback[v] ELSE value

(* What the server and its http.Server are made with.  interval is the     *)
(* time in which a limiter gains a token: rate.Every, for which an         *)
(* interval of 0 or less means no limit.                                   *)
Configured(env) ==
  LET Set(v) == OrDefault(FromEnv(env, v), v)
  IN  [interval    |-> Minute \div Set("RATE_LIMIT_PER_MINUTE"),
       burst       |-> Set("RATE_LIMIT_BURST"),
       slots       |-> Set("MAX_CONCURRENT_TRACES"),
       bodyLimit   |-> Set("BODY_LIMIT_BYTES"),
       headerBytes |-> Set("MAX_HEADER_BYTES"),
       timeout     |-> [t \in Timeouts |-> Set(t)]]

(* make(chan struct{}, maxConcurrent) panics for a negative size.          *)
Panics(settings) == settings.slots < 0

=============================================================================
