--------------------------- MODULE CircuitBreaker ---------------------------
(***************************************************************************)
(* The NIRA adapter of services/integrations/nira (upstream.go): Lookup    *)
(* with its bounded retries, and the circuit breaker every request of the  *)
(* process shares.  A lookup is let through by allow, makes its attempts   *)
(* without a lock, and reports success or failure to the breaker at its    *)
(* end, whatever the breaker has become meanwhile.                         *)
(*                                                                         *)
(* openedAt is modelled by what allow asks of it: is it zero, or is the    *)
(* open window still running or over.  A call that allow rejects changes   *)
(* nothing and is a stuttering step.                                       *)
(***************************************************************************)
EXTENDS Naturals, FiniteSets

CONSTANTS
    Callers,        \* requests that may be in Lookup at the same time
    threshold,      \* failed lookups that open the breaker
    MaxAttempts,    \* HTTP attempts of one lookup
    MaxFaults       \* bound on outages, recoveries and lost or refused calls

ASSUME ThresholdAssumption == threshold \in Nat \ {0}
ASSUME MaxAttemptsAssumption == MaxAttempts \in Nat \ {0}
ASSUME MaxFaultsAssumption == MaxFaults \in Nat

VARIABLES
    failures, openedAt, halfOpen,   \* the breaker, under its mutex
    pc,             \* pc[c]: "idle", "attempt", "succeeded" or "failed"
    attempt,        \* attempt[c]: the attempt being made, 0 when idle
    healthy,        \* the upstream answers (2xx or 404), or fails with 5xx
    faults,
    streak,         \* history: lookups failed since the last success
    probes          \* history: lookups let through by an open breaker

breakerVars == <<failures, openedAt, halfOpen>>
callVars == <<pc, attempt>>
history == <<streak, probes>>
vars == <<breakerVars, callVars, healthy, faults, history>>

-----------------------------------------------------------------------------
Init ==
    /\ failures = 0
    /\ openedAt = "zero"
    /\ halfOpen = FALSE
    /\ pc = [c \in Callers |-> "idle"]
    /\ attempt = [c \in Callers |-> 0]
    /\ healthy = TRUE
    /\ faults = 0
    /\ streak = 0
    /\ probes = {}

Fault ==
    /\ faults < MaxFaults
    /\ faults' = faults + 1

Enter(c) ==
    /\ pc[c] = "idle"
    /\ pc' = [pc EXCEPT ![c] = "attempt"]
    /\ attempt' = [attempt EXCEPT ![c] = 1]
    /\ UNCHANGED <<failures, openedAt, healthy, faults, streak>>

\* allow, on a closed breaker.
AllowClosed(c) ==
    /\ Enter(c)
    /\ openedAt = "zero"
    /\ UNCHANGED <<halfOpen, probes>>

\* allow, half-open: halfOpen lets one call through until it is reset.
AllowProbe(c) ==
    /\ Enter(c)
    /\ openedAt = "over"
    /\ ~halfOpen
    /\ halfOpen' = TRUE
    /\ probes' = probes \union {c}

\* doLookup answers; or fails, and is retried while attempts are left.
Attempt(c) ==
    /\ pc[c] = "attempt"
    /\ IF healthy THEN pc' = [pc EXCEPT ![c] = "succeeded"] /\ UNCHANGED attempt
       ELSE IF attempt[c] < MaxAttempts
            THEN attempt' = [attempt EXCEPT ![c] = @ + 1] /\ UNCHANGED pc
            ELSE pc' = [pc EXCEPT ![c] = "failed"] /\ UNCHANGED attempt
    /\ UNCHANGED <<breakerVars, healthy, faults, history>>

\* A failure that is not the upstream's: a 4xx or a body that does not parse, which
\* is not retried, or a caller that went away, whose remaining attempts fail at
\* once (break leaves the select, not the loop).
AttemptRefused(c) ==
    /\ pc[c] = "attempt"
    /\ Fault
    /\ pc' = [pc EXCEPT ![c] = "failed"]
    /\ UNCHANGED <<breakerVars, attempt, healthy, history>>

Return(c) ==
    /\ pc' = [pc EXCEPT ![c] = "idle"]
    /\ attempt' = [attempt EXCEPT ![c] = 0]
    /\ probes' = probes \ {c}

\* success(); and without the reset of the count, or of the flag.
Success_KeepCount(c) ==
    /\ pc[c] = "succeeded"
    /\ openedAt' = "zero"
    /\ halfOpen' = FALSE
    /\ streak' = 0
    /\ Return(c)
    /\ UNCHANGED <<failures, healthy, faults>>

Success_KeepFlag(c) ==
    /\ pc[c] = "succeeded"
    /\ failures' = 0
    /\ openedAt' = "zero"
    /\ streak' = 0
    /\ Return(c)
    /\ UNCHANGED <<halfOpen, healthy, faults>>

Success(c) ==
    /\ pc[c] = "succeeded"
    /\ failures' = 0
    /\ openedAt' = "zero"
    /\ halfOpen' = FALSE
    /\ streak' = 0
    /\ Return(c)
    /\ UNCHANGED <<healthy, faults>>

\* failure(), closed: the count opens the breaker at the threshold; and one late.
Trip_Late ==
    IF failures >= threshold
    THEN openedAt' = "running" /\ failures' = 0
    ELSE failures' = failures + 1 /\ UNCHANGED openedAt

Trip ==
    IF failures + 1 >= threshold
    THEN openedAt' = "running" /\ failures' = 0
    ELSE failures' = failures + 1 /\ UNCHANGED openedAt

Failed(c) ==
    /\ pc[c] = "failed"
    /\ streak' = IF streak < threshold THEN streak + 1 ELSE streak
    /\ Return(c)
    /\ UNCHANGED <<healthy, faults>>

\* failure(); and with the half-open flag left set.
Failure_KeepFlag(c) ==
    /\ Failed(c)
    /\ IF halfOpen THEN openedAt' = "running" /\ UNCHANGED failures ELSE Trip
    /\ UNCHANGED halfOpen

Failure(c) ==
    /\ Failed(c)
    /\ IF halfOpen
       THEN openedAt' = "running" /\ halfOpen' = FALSE /\ UNCHANGED failures
       ELSE Trip /\ UNCHANGED halfOpen

\* openWindow has passed since openedAt.
WindowOver ==
    /\ openedAt = "running"
    /\ openedAt' = "over"
    /\ UNCHANGED <<failures, halfOpen, callVars, healthy, faults, history>>

\* The upstream breaks down or recovers.
UpstreamChanges ==
    /\ Fault
    /\ healthy' = ~healthy
    /\ UNCHANGED <<breakerVars, callVars, history>>

Call(c) == AllowClosed(c) \/ AllowProbe(c)
Proceed(c) == Attempt(c) \/ Success(c) \/ Failure(c)

Next ==
    \/ \E c \in Callers : Call(c) \/ Proceed(c) \/ AttemptRefused(c)
    \/ WindowOver
    \/ UpstreamChanges

\* The HTTP client has a timeout, time passes, and requests keep coming.
Fairness ==
    /\ \A c \in Callers : WF_vars(Call(c)) /\ WF_vars(Proceed(c))
    /\ WF_vars(WindowOver)

Spec == Init /\ [][Next]_vars /\ Fairness

-----------------------------------------------------------------------------
(* Properties.                                                             *)

TypeOK ==
    /\ failures \in 0 .. threshold - 1
    /\ openedAt \in {"zero", "running", "over"}
    /\ halfOpen \in BOOLEAN
    /\ pc \in [Callers -> {"idle", "attempt", "succeeded", "failed"}]
    /\ attempt \in [Callers -> 0 .. MaxAttempts]
    /\ healthy \in BOOLEAN
    /\ faults \in 0 .. MaxFaults
    /\ streak \in 0 .. threshold
    /\ probes \subseteq Callers

InFlight == {c \in Callers : pc[c] # "idle"}

\* The half-open flag, which turns every caller away, is never left behind: it is
\* set only once the window is over, and while some probe is out whose end will
\* clear it, whichever late reports set and cleared it in between.
FlagHasProbe == halfOpen => openedAt = "over" /\ probes \intersect InFlight # {}

\* The breaker opens on evidence: while it is open or half-open, at least threshold
\* lookups failed since one last succeeded, in whatever order concurrent lookups
\* reported; a success between them starts the count again.
OpenOnEvidence == openedAt # "zero" => streak >= threshold

\* The breaker never shuts for good: again and again a next call would be let
\* through.
KeepsProbing == []<>(openedAt = "zero" \/ (openedAt = "over" /\ ~halfOpen))

\* Once the upstream stays healthy the breaker ends up closed for good, whatever
\* failures of the outage are still to be reported.
RecoversWithUpstream == <>[]healthy => <>[](openedAt = "zero")

\* "let exactly one call through ... prevents a second concurrent caller from also
\* being allowed" (allow, upstream.go): one probe is out at a time.
OneProbe == openedAt # "zero" => Cardinality(probes) <= 1

=============================================================================
