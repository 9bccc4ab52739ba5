------------------------ MODULE CircuitBreakerProofs ------------------------
(***************************************************************************)
(* The circuit breaker is type correct, never keeps its half-open flag     *)
(* without a probe that will clear it, and opens on evidence only, for any *)
(* number of concurrent lookups, any threshold and any number of attempts. *)
(***************************************************************************)
EXTENDS CircuitBreaker, TLAPS

\* The count never exceeds what the history saw fail since the last success: this
\* is what makes OpenOnEvidence inductive.
CountIsSeen == failures <= streak

IInv == TypeOK /\ FlagHasProbe /\ OpenOnEvidence /\ CountIsSeen

\* The three operators every lookup shares keep their types.
LEMMA EnterTyped ==
    ASSUME TypeOK, NEW c \in Callers, Enter(c)
    PROVE  /\ pc' \in [Callers -> {"idle", "attempt", "succeeded", "failed"}]
           /\ attempt' \in [Callers -> 0 .. MaxAttempts]
BY MaxAttemptsAssumption DEF TypeOK, Enter

LEMMA ReturnTyped ==
    ASSUME TypeOK, NEW c \in Callers, Return(c)
    PROVE  /\ pc' \in [Callers -> {"idle", "attempt", "succeeded", "failed"}]
           /\ attempt' \in [Callers -> 0 .. MaxAttempts]
           /\ probes' \subseteq Callers
BY MaxAttemptsAssumption DEF TypeOK, Return

LEMMA FaultTyped == TypeOK /\ Fault => faults' \in 0 .. MaxFaults
BY MaxFaultsAssumption DEF TypeOK, Fault

THEOREM InitIInv == Init => IInv
<1>. SUFFICES ASSUME Init
              PROVE  IInv
  OBVIOUS
<1>1. /\ failures \in 0 .. threshold - 1
      /\ streak \in 0 .. threshold
      /\ faults \in 0 .. MaxFaults
      /\ failures <= streak
  BY ThresholdAssumption, MaxFaultsAssumption DEF Init
<1>2. attempt \in [Callers -> 0 .. MaxAttempts]
  BY MaxAttemptsAssumption DEF Init
<1>3. /\ pc \in [Callers -> {"idle", "attempt", "succeeded", "failed"}]
      /\ probes \subseteq Callers
  BY DEF Init
<1>4. openedAt = "zero" /\ ~halfOpen /\ healthy /\ halfOpen \in BOOLEAN
  BY Zenon DEF Init
<1>5. healthy \in BOOLEAN
  BY Zenon DEF Init
<1>. QED
  BY <1>1, <1>2, <1>3, <1>4, <1>5
     DEF IInv, TypeOK, FlagHasProbe, OpenOnEvidence, CountIsSeen

\* A lookup is let in: the flag is set together with a probe that is out.
LEMMA CallKeeps ==
    ASSUME IInv, NEW c \in Callers, Call(c)
    PROVE  IInv'
<1>. USE DEF IInv
<1>1. CASE AllowClosed(c)
  <2>1. TypeOK'
    BY <1>1, EnterTyped DEF AllowClosed, Enter, TypeOK
  <2>2. ~halfOpen /\ UNCHANGED <<halfOpen, openedAt, failures, streak>>
    BY <1>1 DEF AllowClosed, Enter, FlagHasProbe, TypeOK
  <2>. QED  BY <2>1, <2>2 DEF FlagHasProbe, OpenOnEvidence, CountIsSeen
<1>2. CASE AllowProbe(c)
  <2>1. TypeOK'
    BY <1>2, EnterTyped DEF AllowProbe, Enter, TypeOK
  <2>2. c \in probes' /\ c \in InFlight' /\ openedAt' = "over"
    BY <1>2 DEF AllowProbe, Enter, InFlight, TypeOK
  <2>3. FlagHasProbe'
    BY <2>2 DEF FlagHasProbe
  <2>. QED
    BY <2>1, <2>3, <1>2 DEF AllowProbe, Enter, OpenOnEvidence, CountIsSeen
<1>. QED  BY <1>1, <1>2 DEF Call

\* An attempt ends: the call stays in flight until it has reported.
LEMMA AttemptKeeps ==
    ASSUME IInv, NEW c \in Callers, Attempt(c) \/ AttemptRefused(c)
    PROVE  IInv'
<1>. USE DEF IInv
<1>1. TypeOK'
  <2>1. CASE Attempt(c)
    BY <2>1, MaxAttemptsAssumption DEF Attempt, TypeOK, breakerVars, history
  <2>2. CASE AttemptRefused(c)
    BY <2>2, FaultTyped DEF AttemptRefused, TypeOK, breakerVars, history
  <2>. QED  BY <2>1, <2>2
<1>2. InFlight' = InFlight
  BY DEF Attempt, AttemptRefused, InFlight, TypeOK
<1>3. UNCHANGED <<failures, openedAt, halfOpen, streak, probes>>
  BY DEF Attempt, AttemptRefused, breakerVars, history
<1>. QED
  BY <1>1, <1>2, <1>3 DEF FlagHasProbe, OpenOnEvidence, CountIsSeen

\* success() closes the breaker and starts both counts again.
LEMMA SuccessKeeps ==
    ASSUME IInv, NEW c \in Callers, Success(c)
    PROVE  IInv'
<1>. USE DEF IInv
<1>1. /\ failures' \in 0 .. threshold - 1
      /\ streak' \in 0 .. threshold
      /\ failures' <= streak'
  BY ThresholdAssumption DEF Success
<1>2. openedAt' = "zero" /\ UNCHANGED <<healthy, faults>>
  BY DEF Success
<1>3. ~halfOpen' /\ halfOpen' \in BOOLEAN
  BY Zenon DEF Success
<1>4. /\ pc' \in [Callers -> {"idle", "attempt", "succeeded", "failed"}]
      /\ attempt' \in [Callers -> 0 .. MaxAttempts]
      /\ probes' \subseteq Callers
  BY ReturnTyped DEF Success
<1>. QED
  BY <1>1, <1>2, <1>3, <1>4
     DEF TypeOK, FlagHasProbe, OpenOnEvidence, CountIsSeen

\* failure() clears the flag, or counts: both counts grow, and the breaker opens
\* only when the count that is never ahead of the evidence reaches the threshold.
LEMMA FailureKeeps ==
    ASSUME IInv, NEW c \in Callers, Failure(c)
    PROVE  IInv'
<1>. USE DEF IInv
<1>1. /\ failures \in 0 .. threshold - 1
      /\ streak \in 0 .. threshold
      /\ threshold \in Nat \ {0}
      /\ failures <= streak
  BY ThresholdAssumption DEF TypeOK, CountIsSeen
<1>2. streak' = IF streak < threshold THEN streak + 1 ELSE streak
  BY DEF Failure, Failed
<1>3. /\ pc' \in [Callers -> {"idle", "attempt", "succeeded", "failed"}]
      /\ attempt' \in [Callers -> 0 .. MaxAttempts]
      /\ probes' \subseteq Callers
  BY ReturnTyped DEF Failure, Failed
<1>4. UNCHANGED <<healthy, faults>>
  BY DEF Failure, Failed
<1>5. ~halfOpen' /\ halfOpen' \in BOOLEAN
  BY Zenon DEF Failure, TypeOK
<1>6. CASE halfOpen
  <2>1. openedAt' = "running" /\ UNCHANGED failures
    BY <1>6 DEF Failure
  <2>2. streak >= threshold
    BY <1>6 DEF FlagHasProbe, OpenOnEvidence
  <2>. QED
    BY <1>1, <1>2, <1>3, <1>4, <1>5, <2>1, <2>2
       DEF TypeOK, FlagHasProbe, OpenOnEvidence, CountIsSeen
<1>7. CASE ~halfOpen
  <2>1. Trip
    BY <1>7 DEF Failure
  <2>2. CASE failures + 1 >= threshold
    <3>1. openedAt' = "running" /\ failures' = 0
      BY <2>1, <2>2 DEF Trip
    <3>2. streak' = threshold
      BY <1>1, <1>2, <2>2
    <3>. QED
      BY <1>1, <1>3, <1>4, <1>5, <3>1, <3>2
         DEF TypeOK, FlagHasProbe, OpenOnEvidence, CountIsSeen
  <2>3. CASE ~(failures + 1 >= threshold)
    <3>1. failures' = failures + 1 /\ UNCHANGED openedAt
      BY <2>1, <2>3 DEF Trip
    <3>2. /\ failures' \in 0 .. threshold - 1
          /\ streak' \in 0 .. threshold
          /\ failures' <= streak'
          /\ streak' >= streak
      BY <1>1, <1>2, <2>3, <3>1
    <3>3. openedAt # "zero" => streak' >= threshold
      BY <1>1, <1>2, <3>2 DEF OpenOnEvidence
    <3>. QED
      BY <1>3, <1>4, <1>5, <3>1, <3>2, <3>3
         DEF TypeOK, FlagHasProbe, OpenOnEvidence, CountIsSeen
  <2>. QED  BY <2>2, <2>3
<1>. QED  BY <1>6, <1>7 DEF TypeOK

\* Time and the upstream.
LEMMA EnvironmentKeeps ==
    ASSUME IInv, WindowOver \/ UpstreamChanges
    PROVE  IInv'
<1>. USE DEF IInv
<1>1. TypeOK'
  <2>1. CASE WindowOver
    BY <2>1 DEF WindowOver, TypeOK, callVars, history
  <2>2. CASE UpstreamChanges
    BY <2>2, FaultTyped DEF UpstreamChanges, TypeOK, breakerVars, callVars, history
  <2>. QED  BY <2>1, <2>2
<1>2. FlagHasProbe'
  BY DEF WindowOver, UpstreamChanges, FlagHasProbe, InFlight, breakerVars,
         callVars, history
<1>3. OpenOnEvidence' /\ CountIsSeen'
  BY DEF WindowOver, UpstreamChanges, OpenOnEvidence, CountIsSeen, breakerVars,
         history
<1>. QED  BY <1>1, <1>2, <1>3

\* The invariant is inductive.
THEOREM NextIInv == IInv /\ [Next]_vars => IInv'
<1>. SUFFICES ASSUME IInv, [Next]_vars
              PROVE  IInv'
  OBVIOUS
<1>1. ASSUME NEW c \in Callers, Call(c) \/ Proceed(c) \/ AttemptRefused(c)
      PROVE  IInv'
  BY <1>1, CallKeeps, AttemptKeeps, SuccessKeeps, FailureKeeps DEF Proceed
<1>2. CASE WindowOver \/ UpstreamChanges
  BY <1>2, EnvironmentKeeps
<1>3. CASE UNCHANGED vars
  BY <1>3 DEF IInv, TypeOK, FlagHasProbe, InFlight, OpenOnEvidence, CountIsSeen,
              vars, breakerVars, callVars, history
<1>. QED  BY <1>1, <1>2, <1>3 DEF Next

THEOREM Invariance == Spec => []IInv
BY InitIInv, NextIInv, PTL DEF Spec

\* Every variable keeps its type; in particular the count stays below the
\* threshold.
THEOREM TypeCorrect == Spec => []TypeOK
<1>1. IInv => TypeOK
  BY DEF IInv
<1>. QED  BY <1>1, Invariance, PTL

\* No interleaving of late reports leaves the half-open flag set with no probe out
\* to clear it: allow never turns every caller away for good.
THEOREM FlagIsHeldByAProbe == Spec => []FlagHasProbe
<1>1. IInv => FlagHasProbe
  BY DEF IInv
<1>. QED  BY <1>1, Invariance, PTL

\* The breaker is open only after threshold failed lookups without a success.
THEOREM OpensOnEvidence == Spec => []OpenOnEvidence
<1>1. IInv => OpenOnEvidence
  BY DEF IInv
<1>. QED  BY <1>1, Invariance, PTL

=============================================================================
