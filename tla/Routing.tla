------------------------------ MODULE Routing ------------------------------
(***************************************************************************)
(* Reliable routing and route health (internal/routing reliable.go,        *)
(* service.go, health.go; the request side of internal/api/chat.go).       *)
(*                                                                         *)
(* Requests are served concurrently.  Each takes one snapshot of ranked    *)
(* candidates and walks through it; the outcome of every attempt is        *)
(* written to the shared health records, under a lock of their own, which  *)
(* the recovery loop and other requests read and write as well.            *)
(*                                                                         *)
(* The record "p/*" that stands for a whole provider is keyed by p itself. *)
(* A record holds the time left until CooldownUntil, so that time only     *)
(* counts down.  Scores order the candidates arbitrarily: a request may    *)
(* try them in any order.  The file of the health records is written in    *)
(* every critical section and read at start, so it equals the memory.      *)
(* As in module Catalog, a key has at most one entry.                      *)
(***************************************************************************)
EXTENDS Naturals, Sequences, SequencesExt

CONSTANTS
    Models,      \* "<provider>/<id>" keys
    Providers,   \* provider ids, also the keys of the records "p/*"
    ProviderOf,  \* the provider part of each key
    Clients,     \* callers of /v1/chat/completions, one request each
    MaxAttempts, \* ReliableOptions.MaxAttempts (3)
    Cooldown,    \* HealthOptions: the cooldown of each failure kind
    MultCap,     \* failures from which a cooldown grows no further (4)
    FailureCap,  \* failures ProbeFailed counts to (8)
    Minute,      \* the unit of the cooldown after a failed probe
    Wants,       \* bound: what a request's model name and capabilities allow
    RetryAfters, \* bound: the Retry-After delays upstreams send
    Failures,    \* bound: the failure kinds upstreams produce
    Changing     \* bound: models and providers that administrators act on

FailureKind == {"network", "timeout", "rate_limited", "upstream_server",
                "authentication", "protocol"}

ASSUME ConstantsAssumption ==
    /\ ProviderOf \in [Models -> Providers]
    /\ Models \cap Providers = {}
    /\ MaxAttempts \in Nat \ {0}
    /\ Cooldown \in [FailureKind -> Nat \ {0}]
    /\ MultCap \in Nat \ {0} /\ FailureCap \in Nat /\ MultCap <= FailureCap
    /\ Minute \in Nat \ {0}
    /\ Wants \subseteq SUBSET Models
    /\ RetryAfters \subseteq Nat
    /\ Failures \subseteq FailureKind

VARIABLES
    approved, \* models that are admitted, Auto and active in the catalogue
    open,     \* providers that are not disabled, gated or out of quota
    configs,  \* providers in the registry
    health,   \* Health.items (a missing item reads as Clean)
    requests, \* requests being served
    probe,    \* the recovery loop: items still due, item being probed
    gaps      \* history: records a Retry-After extended after they were reset

vars == <<approved, open, configs, health, requests, probe, gaps>>

-----------------------------------------------------------------------------
Scopes == Providers \cup Models

RouteHealth == [failures: 0..FailureCap, cooldown: Nat, probe: BOOLEAN]

Clean == [failures |-> 0, cooldown |-> 0, probe |-> FALSE]

\* "pending" until the answer arrives; "ok" and "none" are not failures.
Attempt == [model: Models, kind: FailureKind \cup {"pending", "ok", "none"}]

\* One call of Chat.ServeHTTP: the candidates not tried yet, the attempts, the
\* providers to skip and, between the two locks of FailUntil, its deadline.
Request == [pc: {"idle", "choose", "sent", "limited", "forward"},
            candidates: SUBSET Models, attempts: Seq(Attempt),
            skipped: SUBSET Providers, until: Nat]

Idle == [pc |-> "idle", candidates |-> {}, attempts |-> <<>>, skipped |-> {}, until |-> 0]

TypeOK ==
    /\ approved \in SUBSET Models
    /\ open \in SUBSET Providers
    /\ configs \in SUBSET Providers
    /\ health \in [Scopes -> RouteHealth]
    /\ requests \in [Clients -> Request]
    /\ probe \in [due: SUBSET Scopes, asking: SUBSET Scopes]
    /\ gaps \in SUBSET Scopes

ProviderWide == FailureKind \ {"protocol"}

\* The record a failure of a model is written to.
ScopeOf(m, kind) == IF kind \in ProviderWide THEN ProviderOf[m] ELSE m

OwnerOf(s) == IF s \in Providers THEN s ELSE ProviderOf[s]

Lesser(a, b) == IF a <= b THEN a ELSE b

-----------------------------------------------------------------------------
(* The critical sections of Health.                                        *)

\* Fail.  It counts without a limit; beyond FailureCap no operation tells two
\* counts apart.
Failed(x, kind) ==
    LET n == Lesser(x.failures + 1, FailureCap) IN
    [failures |-> n, cooldown |-> Cooldown[kind] * Lesser(n, MultCap), probe |-> TRUE]

\* The second critical section of FailUntil.
Extended(x, until) ==
    IF until > x.cooldown THEN [x EXCEPT !.cooldown = until] ELSE x

\* Mutant: a failed probe does not ask for another one.
ProbeFailedQuietly(x) ==
    LET n == Lesser(x.failures + 1, FailureCap) IN
    [x EXCEPT !.failures = n, !.cooldown = n * Minute]

\* Mutant: the count of failed probes is not limited.
ProbeFailedUncapped(x) ==
    [failures |-> x.failures + 1, cooldown |-> (x.failures + 1) * Minute, probe |-> TRUE]

ProbeFailed(x) ==
    LET n == Lesser(x.failures + 1, FailureCap) IN
    [failures |-> n, cooldown |-> n * Minute, probe |-> TRUE]

Available(m) == \A s \in {ProviderOf[m], m} : health[s].cooldown = 0 /\ ~health[s].probe

\* Mutant: records that failed more than once are not probed.
DueOnce == {s \in Scopes : health[s].probe /\ health[s].cooldown = 0 /\ health[s].failures < 2}

DueForProbe == {s \in Scopes : health[s].probe /\ health[s].cooldown = 0}

Record(s, x) ==
    /\ health' = [health EXCEPT ![s] = x]
    /\ gaps' = gaps \ {s}

-----------------------------------------------------------------------------
Init ==
    /\ approved = Models /\ open = Providers /\ configs = Providers
    /\ health = [s \in Scopes |-> Clean]
    /\ requests = [c \in Clients |-> Idle]
    /\ probe = [due |-> {}, asking |-> {}]
    /\ gaps = {}

settings == <<approved, open, configs>>

(* Administrators, module Catalog, quota and the FreeLLMAPI switch.        *)

ToggleModel(m) ==
    /\ approved' = IF m \in approved THEN approved \ {m} ELSE approved \cup {m}
    /\ UNCHANGED <<open, configs, health, requests, probe, gaps>>

ToggleProvider(p) ==
    /\ \/ /\ open' = IF p \in open THEN open \ {p} ELSE open \cup {p}
          /\ UNCHANGED configs
       \/ /\ configs' = IF p \in configs THEN configs \ {p} ELSE configs \cup {p}
          /\ UNCHANGED open
    /\ UNCHANGED <<approved, health, requests, probe, gaps>>

\* POST cooldowns/clear.
Clear ==
    /\ \E s \in Scopes : health[s] # Clean
    /\ health' = [s \in Scopes |-> Clean]
    /\ gaps' = {}
    /\ UNCHANGED <<settings, requests, probe>>

\* Time passes for every cooldown and every pending Retry-After.
Tick ==
    LET Dec(n) == IF n = 0 THEN 0 ELSE n - 1 IN
    /\ \/ \E s \in Scopes : health[s].cooldown > 0
       \/ \E c \in Clients : requests[c].until > 0
    /\ health' = [s \in Scopes |-> [health[s] EXCEPT !.cooldown = Dec(@)]]
    /\ requests' = [c \in Clients |-> [requests[c] EXCEPT !.until = Dec(@)]]
    /\ gaps' = {s \in gaps : health[s].cooldown > 1}
    /\ UNCHANGED <<settings, probe>>

\* The records survive in their file, everything in flight is lost.
Restart ==
    /\ requests' = [c \in Clients |-> Idle]
    /\ probe' = [due |-> {}, asking |-> {}]
    /\ UNCHANGED <<settings, health, gaps>>

-----------------------------------------------------------------------------
(* A request.                                                              *)

\* RankedCandidates, then the filter for the requested model.
Ask(c, wanted) ==
    LET ranked == {m \in wanted : /\ m \in approved
                                  /\ ProviderOf[m] \in open \cap configs
                                  /\ Available(m)}
    IN  /\ requests[c].pc = "idle"
        /\ ranked # {}
        /\ requests' = [requests EXCEPT ![c] = [Idle EXCEPT !.pc = "choose", !.candidates = ranked]]
        /\ UNCHANGED <<settings, health, probe, gaps>>

\* Mutant: the loop does not pass over the providers to skip.
AllRemaining(r) == IF Len(r.attempts) < MaxAttempts THEN r.candidates ELSE {}

\* The candidates the loop still comes to.
Remaining(r) ==
    IF Len(r.attempts) < MaxAttempts
    THEN {m \in r.candidates : ProviderOf[m] \notin r.skipped} ELSE {}

\* What an attempt at m that ended with kind leaves of the request.
Tried(r, m, kind) ==
    [r EXCEPT !.pc = "choose",
              !.candidates = r.candidates \ {m},
              !.attempts = Append(r.attempts, [model |-> m, kind |-> kind]),
              !.skipped = IF kind \in ProviderWide THEN r.skipped \cup {ProviderOf[m]}
                          ELSE r.skipped]

\* The attempt whose answer is awaited, and the request without it.
At(r) == Last(r.attempts).model
Before(r) == [r EXCEPT !.attempts = Front(r.attempts)]
Answered(r, kind) == Tried(Before(r), At(r), kind)

Send(c, m) ==
    LET r == requests[c] IN
    /\ r.pc = "choose"
    /\ m \in Remaining(r)
    /\ ProviderOf[m] \in configs
    /\ requests' = [requests EXCEPT ![c] = [Tried(r, m, "pending") EXCEPT !.pc = "sent"]]
    /\ UNCHANGED <<settings, health, probe, gaps>>

\* The provider has left the registry: the configuration is empty, the call
\* fails at once and counts as a network failure.
SendNowhere(c, m) ==
    LET r == requests[c] IN
    /\ r.pc = "choose"
    /\ m \in Remaining(r)
    /\ ProviderOf[m] \notin configs
    /\ Record(ProviderOf[m], Failed(health[ProviderOf[m]], "network"))
    /\ requests' = [requests EXCEPT ![c] = Tried(r, m, "network")]
    /\ UNCHANGED <<settings, probe>>

\* Mutant: the loop is left only after the last attempt.
NoAttemptLeft(r) == Len(r.attempts) >= MaxAttempts

Exhausted(r) == Remaining(r) = {}

GiveUp(c) ==
    /\ requests[c].pc = "choose"
    /\ Exhausted(requests[c])
    /\ requests' = [requests EXCEPT ![c] = Idle]
    /\ UNCHANGED <<settings, health, probe, gaps>>

\* A valid 2xx answer.
Succeeds(c) ==
    LET r == requests[c] IN
    /\ r.pc = "sent"
    /\ Record(At(r), Clean)
    /\ requests' = [requests EXCEPT ![c] = [Answered(r, "ok") EXCEPT !.pc = "forward"]]
    /\ UNCHANGED <<settings, probe>>

\* A failure after which the loop goes on: no answer, a status that is
\* retried, or an answer that is not valid JSON or SSE.
Fails(c, kind) ==
    LET r == requests[c]
        s == ScopeOf(At(r), kind)
    IN  /\ r.pc = "sent"
        /\ kind # "rate_limited"
        /\ Record(s, Failed(health[s], kind))
        /\ requests' = [requests EXCEPT ![c] = Answered(r, kind)]
        /\ UNCHANGED <<settings, probe>>

\* HTTP 429: the first critical section of FailUntil.
Limited(c, retryAfter) ==
    LET r == requests[c]
        p == ProviderOf[At(r)]
    IN  /\ r.pc = "sent"
        /\ Record(p, Failed(health[p], "rate_limited"))
        /\ requests' = [requests EXCEPT ![c] =
                [Answered(r, "rate_limited") EXCEPT
                    !.pc = IF retryAfter > 0 THEN "limited" ELSE "choose",
                    !.until = retryAfter]]
        /\ UNCHANGED <<settings, probe>>

\* Its second critical section.
RetryAfter(c) ==
    LET r == requests[c]
        p == ProviderOf[At(r)]
    IN  /\ r.pc = "limited"
        /\ health' = [health EXCEPT ![p] = Extended(@, r.until)]
        /\ gaps' = IF r.until > health[p].cooldown /\ ~health[p].probe
                   THEN gaps \cup {p} ELSE gaps
        /\ requests' = [requests EXCEPT ![c] = [r EXCEPT !.pc = "choose", !.until = 0]]
        /\ UNCHANGED <<settings, probe>>

\* A 4xx that is not retried counts as a protocol failure of the model; a 3xx
\* counts as nothing.  Both end the request.
Rejected(c) ==
    LET m == At(requests[c]) IN
    /\ requests[c].pc = "sent"
    /\ \/ Record(m, Failed(health[m], "protocol"))
       \/ UNCHANGED <<health, gaps>>
    /\ requests' = [requests EXCEPT ![c] = Idle]
    /\ UNCHANGED <<settings, probe>>

\* Chat.forward.  An interrupted answer counts as a protocol failure, whether
\* the upstream stopped sending or the client stopped reading.
Forwarded(c) ==
    LET m == At(requests[c]) IN
    /\ requests[c].pc = "forward"
    /\ \/ UNCHANGED <<health, gaps>>
       \/ Record(m, Failed(health[m], "protocol"))
    /\ requests' = [requests EXCEPT ![c] = Idle]
    /\ UNCHANGED <<settings, probe>>

-----------------------------------------------------------------------------
(* The recovery loop.                                                      *)

ProbeRecovery ==
    /\ probe.due = {} /\ probe.asking = {}
    /\ DueForProbe # {}
    /\ probe' = [probe EXCEPT !.due = DueForProbe]
    /\ UNCHANGED <<settings, health, requests, gaps>>

\* A model record is probed with that model, a provider record with any of
\* its approved models.
Probeable(s) ==
    /\ OwnerOf(s) \in configs
    /\ s \in Providers => \E m \in approved : ProviderOf[m] = s

ProbeSend(s) ==
    /\ s \in probe.due /\ probe.asking = {}
    /\ probe' = [due |-> probe.due \ {s}, asking |-> IF Probeable(s) THEN {s} ELSE {}]
    /\ UNCHANGED <<settings, health, requests, gaps>>

ProbeAnswer(s, ok) ==
    /\ s \in probe.asking
    /\ Record(s, IF ok THEN Clean ELSE ProbeFailed(health[s]))
    /\ probe' = [probe EXCEPT !.asking = {}]
    /\ UNCHANGED <<settings, requests>>

-----------------------------------------------------------------------------
Serve(c) ==
    \/ \E m \in Models : Send(c, m) \/ SendNowhere(c, m)
    \/ GiveUp(c) \/ Succeeds(c) \/ RetryAfter(c) \/ Rejected(c) \/ Forwarded(c)
    \/ \E kind \in Failures : Fails(c, kind)
    \/ "rate_limited" \in Failures /\ \E n \in RetryAfters : Limited(c, n)

Next ==
    \/ \E m \in Models \cap Changing : ToggleModel(m)
    \/ \E p \in Providers \cap Changing : ToggleProvider(p)
    \/ Clear \/ Tick \/ Restart
    \/ \E c \in Clients : Serve(c) \/ \E wanted \in Wants : Ask(c, wanted)
    \/ ProbeRecovery
    \/ \E s \in Scopes : ProbeSend(s) \/ \E ok \in BOOLEAN : ProbeAnswer(s, ok)

Spec == Init /\ [][Next]_vars

\* Clocks run, every attempt and every probe ends (their contexts have
\* deadlines), the recovery loop comes round, restarts do not interrupt it
\* for ever, and an upstream that is probed again and again eventually answers.
Fairness ==
    /\ WF_vars(Tick)
    /\ \A c \in Clients : WF_vars(Serve(c))
    /\ WF_vars(ProbeRecovery)
    /\ \A s \in Scopes : /\ SF_vars(ProbeSend(s))
                         /\ WF_vars(\E ok \in BOOLEAN : ProbeAnswer(s, ok))
                         /\ SF_vars(ProbeAnswer(s, TRUE))

LiveSpec == Spec /\ Fairness

-----------------------------------------------------------------------------
(* Properties.                                                             *)

\* What the README says of a request: it tries at most MaxAttempts different
\* candidates, and none of a provider that already failed it as a whole.
AttemptsDiffer ==
    \A c \in Clients :
        LET a == requests[c].attempts IN
        /\ Len(a) <= MaxAttempts
        /\ \A j \in 1..Len(a) : \A i \in 1..(j - 1) :
              /\ a[i].model # a[j].model
              /\ a[i].kind \in ProviderWide => ProviderOf[a[i].model] # ProviderOf[a[j].model]

\* A route in cooldown comes back by a probe and not by the mere passing of
\* time, whatever probes, requests, resets and restarts interleave, except
\* where a reset fell between the two critical sections of FailUntil.
CoolingNeedsProbe ==
    \A s \in Scopes \ gaps : health[s].cooldown > 0 => health[s].probe

\* No request is left without an answer: each attempt ends, and the walk
\* through the candidates ends.
EveryRequestAnswered ==
    \A c \in Clients : requests[c].pc # "idle" ~> requests[c].pc = "idle"

\* A route that stays approved and configured is available again and again,
\* however often it and its provider fail.
RouteComesBack ==
    \A m \in Models :
        <>[](m \in approved /\ ProviderOf[m] \in configs) => []<>Available(m)

\* What the README says of recovery: after its cooldown a route comes back
\* only by a successful recovery probe (or by the administrator's reset).
ReturnsOnlyByProbe ==
    [][~Clear => \A s \in Scopes :
          health[s].probe /\ ~health'[s].probe => s \in probe.asking]_vars

=============================================================================
