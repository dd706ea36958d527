------------------------ MODULE CircuitBreakerProofs ------------------------
(***************************************************************************)
(* What holds of the circuit breaker for every number of callers and every *)
(* threshold, pause and call timeout.                                      *)
(***************************************************************************)
EXTENDS CircuitBreaker, TLAPS

USE BreakerAssumption DEF BreakerAssumption, NoTime

\* Every variable keeps its type: the breaker's fields stay in their ranges
\* through can_execute, record_success, record_failure, reset and a restart.
THEOREM TypeCorrect == Spec => []TypeOK
<1>1. Init => TypeOK
  <2> SUFFICES ASSUME Init PROVE TypeOK
    OBVIOUS
  <2>1. test_request_in_flight \in BOOLEAN
    BY DEF Init, InitBreaker
  <2>2. /\ state \in States
        /\ failure_count \in 0..CountCap
        /\ opened_time \in {NoTime} \cup 0..TimeCap
    BY DEF Init, InitBreaker, States, TimeCap
  <2>3. /\ call \in [Callers -> CallKinds]
        /\ age \in [Callers -> 0..CallTimeout]
        /\ backend \in Backends
    BY DEF Init, CallKinds, Backends
  <2> QED
    BY <2>1, <2>2, <2>3 DEF TypeOK
<1>2. TypeOK /\ [Next]_vars => TypeOK'
  <2> SUFFICES ASSUME TypeOK, [Next]_vars PROVE TypeOK'
    OBVIOUS
  <2> USE DEF TypeOK, States, CallKinds, Backends, TimeCap, breaker, calls
  <2>1. ASSUME NEW c \in Callers, ExecuteClosed(c) PROVE TypeOK'
    BY <2>1 DEF ExecuteClosed, StartCall
  <2>2. ASSUME NEW c \in Callers, ExecuteOpen(c) PROVE TypeOK'
    BY <2>2 DEF ExecuteOpen, StartCall
  <2>3. ASSUME NEW c \in Callers, ExecuteHalfOpen(c) PROVE TypeOK'
    BY <2>3 DEF ExecuteHalfOpen, StartCall
  <2>4. ASSUME NEW c \in Callers, RecordSuccess(c) PROVE TypeOK'
    BY <2>4 DEF RecordSuccess, EndCall
  <2>5. ASSUME NEW c \in Callers, RecordFailure(c) PROVE TypeOK'
    BY <2>5 DEF RecordFailure, EndCall, CountFailure, Trips
  <2>6. CASE Reset
    <3>1. test_request_in_flight' \in BOOLEAN
      BY <2>6 DEF Reset
    <3>2. (/\ state \in States
           /\ failure_count \in 0..CountCap
           /\ opened_time \in {NoTime} \cup 0..TimeCap)'
      BY <2>6 DEF Reset
    <3>3. (/\ call \in [Callers -> CallKinds]
           /\ age \in [Callers -> 0..CallTimeout]
           /\ backend \in Backends)'
      BY <2>6 DEF Reset
    <3> QED
      BY <3>1, <3>2, <3>3
  <2>7. CASE Restart
    <3>1. test_request_in_flight' \in BOOLEAN
      BY <2>7 DEF Restart
    <3>2. (/\ state \in States
           /\ failure_count \in 0..CountCap
           /\ opened_time \in {NoTime} \cup 0..TimeCap)'
      BY <2>7 DEF Restart
    <3>3. (/\ call \in [Callers -> CallKinds]
           /\ age \in [Callers -> 0..CallTimeout]
           /\ backend \in Backends)'
      BY <2>7 DEF Restart
    <3> QED
      BY <3>1, <3>2, <3>3
  <2>8. CASE BackendChanges
    BY <2>8 DEF BackendChanges
  <2>9. CASE Tick
    BY <2>9 DEF Tick, InFlight
  <2>10. CASE UNCHANGED vars
    BY <2>10 DEF vars
  <2> QED
    BY <2>1, <2>2, <2>3, <2>4, <2>5, <2>6, <2>7, <2>8, <2>9, <2>10 DEF Next
<1> QED
  BY <1>1, <1>2, PTL DEF Spec

-----------------------------------------------------------------------------
\* The closed state, the failure count and the opening time always agree, so
\* no trip is missed and the repair branch of can_execute is never taken.
THEOREM StateAgreement == Spec => []StateAgrees
<1>1. Init => StateAgrees
  BY DEF Init, InitBreaker, StateAgrees
<1>2. TypeOK /\ StateAgrees /\ [Next]_vars => StateAgrees'
  <2> SUFFICES ASSUME TypeOK, StateAgrees, [Next]_vars PROVE StateAgrees'
    OBVIOUS
  <2> USE DEF TypeOK, StateAgrees, States, TimeCap, breaker
  <2>1. ASSUME NEW c \in Callers, ExecuteClosed(c) PROVE StateAgrees'
    BY <2>1 DEF ExecuteClosed
  <2>2. ASSUME NEW c \in Callers, ExecuteOpen(c) PROVE StateAgrees'
    BY <2>2 DEF ExecuteOpen
  <2>3. ASSUME NEW c \in Callers, ExecuteHalfOpen(c) PROVE StateAgrees'
    BY <2>3 DEF ExecuteHalfOpen
  <2>4. ASSUME NEW c \in Callers, RecordSuccess(c) PROVE StateAgrees'
    BY <2>4 DEF RecordSuccess
  <2>5. ASSUME NEW c \in Callers, RecordFailure(c) PROVE StateAgrees'
    BY <2>5 DEF RecordFailure, CountFailure, Trips
  <2>6. CASE Reset
    BY <2>6 DEF Reset
  <2>7. CASE Restart
    BY <2>7 DEF Restart
  <2>8. CASE BackendChanges
    BY <2>8 DEF BackendChanges
  <2>9. CASE Tick
    BY <2>9 DEF Tick
  <2>10. CASE UNCHANGED vars
    BY <2>10 DEF vars
  <2> QED
    BY <2>1, <2>2, <2>3, <2>4, <2>5, <2>6, <2>7, <2>8, <2>9, <2>10 DEF Next
<1> QED
  BY <1>1, <1>2, TypeCorrect, PTL DEF Spec

-----------------------------------------------------------------------------
\* A half-open circuit always has a call out whose result will move it on,
\* and a raised flag always has its owner: the breaker cannot wedge.
THEOREM NoWedge == Spec => []NeverWedged
<1>1. Init => NeverWedged
  BY DEF Init, InitBreaker, NeverWedged
<1>2. TypeOK /\ StateAgrees /\ NeverWedged /\ [Next]_vars => NeverWedged'
  <2> SUFFICES ASSUME TypeOK, StateAgrees, NeverWedged, [Next]_vars
               PROVE  NeverWedged'
    OBVIOUS
  <2> USE DEF TypeOK, NeverWedged, States, breaker, calls
  <2>1. ASSUME NEW c \in Callers, ExecuteClosed(c) PROVE NeverWedged'
    BY <2>1 DEF ExecuteClosed
  <2>2. ASSUME NEW c \in Callers, ExecuteOpen(c) PROVE NeverWedged'
    BY <2>2 DEF ExecuteOpen, StartCall, StateAgrees
  <2>3. ASSUME NEW c \in Callers, ExecuteHalfOpen(c) PROVE NeverWedged'
    BY <2>3 DEF ExecuteHalfOpen, StartCall
  <2>4. ASSUME NEW c \in Callers, RecordSuccess(c) PROVE NeverWedged'
    BY <2>4 DEF RecordSuccess
  <2>5. ASSUME NEW c \in Callers, RecordFailure(c) PROVE NeverWedged'
    BY <2>5 DEF RecordFailure, Trips
  <2>6. CASE Reset
    BY <2>6 DEF Reset
  <2>7. CASE Restart
    BY <2>7 DEF Restart
  <2>8. CASE BackendChanges
    BY <2>8 DEF BackendChanges
  <2>9. CASE Tick
    BY <2>9 DEF Tick
  <2>10. CASE UNCHANGED vars
    BY <2>10 DEF vars
  <2> QED
    BY <2>1, <2>2, <2>3, <2>4, <2>5, <2>6, <2>7, <2>8, <2>9, <2>10 DEF Next
<1> QED
  BY <1>1, <1>2, TypeCorrect, StateAgreement, PTL DEF Spec

-----------------------------------------------------------------------------
\* NoCallInPause made inductive: while the circuit is open the calls out are
\* at least as old as the opening, and it is half open only after the pause.
PauseInv ==
  /\ state = "OPEN" => \A c \in InFlight : age[c] >= opened_time
  /\ state = "HALF_OPEN" => opened_time > Timeout
  /\ NoCallInPause

LEMMA PauseInvariant == Spec => []PauseInv
<1>1. Init => PauseInv
  BY DEF Init, InitBreaker, PauseInv, NoCallInPause
<1>2. TypeOK /\ StateAgrees /\ PauseInv /\ [Next]_vars => PauseInv'
  <2> SUFFICES ASSUME TypeOK, StateAgrees, PauseInv, [Next]_vars
               PROVE  PauseInv'
    OBVIOUS
  <2> USE DEF TypeOK, States, TimeCap, InFlight, PauseInv, NoCallInPause,
              breaker, calls
  <2>1. ASSUME NEW c \in Callers, ExecuteClosed(c) PROVE PauseInv'
    BY <2>1 DEF ExecuteClosed, StartCall
  <2>2. ASSUME NEW c \in Callers, ExecuteOpen(c) PROVE PauseInv'
    BY <2>2 DEF ExecuteOpen, StartCall, StateAgrees, Expired
  <2>3. ASSUME NEW c \in Callers, ExecuteHalfOpen(c) PROVE PauseInv'
    BY <2>3 DEF ExecuteHalfOpen, StartCall
  <2>4. ASSUME NEW c \in Callers, RecordSuccess(c) PROVE PauseInv'
    BY <2>4 DEF RecordSuccess, EndCall
  <2>5. ASSUME NEW c \in Callers, RecordFailure(c) PROVE PauseInv'
    BY <2>5 DEF RecordFailure, EndCall, Trips
  <2>6. CASE Reset
    BY <2>6 DEF Reset
  <2>7. CASE Restart
    BY <2>7 DEF Restart
  <2>8. CASE BackendChanges
    BY <2>8 DEF BackendChanges
  <2>9. CASE Tick
    BY <2>9 DEF Tick
  <2>10. CASE UNCHANGED vars
    BY <2>10 DEF vars
  <2> QED
    BY <2>1, <2>2, <2>3, <2>4, <2>5, <2>6, <2>7, <2>8, <2>9, <2>10 DEF Next
<1> QED
  BY <1>1, <1>2, TypeCorrect, StateAgreement, PTL DEF Spec

\* No call is let through between the opening of the circuit and the end of
\* the pause, however many calls were out when it opened.
THEOREM PauseKept == Spec => []NoCallInPause
BY PauseInvariant, PTL DEF PauseInv

-----------------------------------------------------------------------------
\* OnlyProbesWhileHalfOpen made inductive: without the flag no test call is out.
ProbeInv ==
  /\ OnlyProbesWhileHalfOpen
  /\ (state = "HALF_OPEN" /\ ~test_request_in_flight) =>
       \A c \in Callers : call[c] # "test"

\* When calls time out no later than the pause ends, a half-open circuit has
\* at most two calls out, the opening call and one test call, and no call
\* admitted before the opening can decide in their place.
THEOREM TwoProbesAtMost ==
  ASSUME CallTimeout <= Timeout
  PROVE  Spec => []OnlyProbesWhileHalfOpen
<1>1. Init => ProbeInv
  BY DEF Init, InitBreaker, ProbeInv, OnlyProbesWhileHalfOpen
<1>2. TypeOK /\ StateAgrees /\ PauseInv /\ ProbeInv /\ [Next]_vars => ProbeInv'
  <2> SUFFICES ASSUME TypeOK, StateAgrees, PauseInv, ProbeInv, [Next]_vars
               PROVE  ProbeInv'
    OBVIOUS
  <2> USE DEF TypeOK, States, CallKinds, InFlight, ProbeInv,
              OnlyProbesWhileHalfOpen, breaker, calls
  <2>1. ASSUME NEW c \in Callers, ExecuteClosed(c) PROVE ProbeInv'
    BY <2>1 DEF ExecuteClosed, StartCall
  <2>2. ASSUME NEW c \in Callers, ExecuteOpen(c) PROVE ProbeInv'
    <3>1. opened_time > Timeout /\ state = "OPEN"
      BY <2>2 DEF ExecuteOpen, StateAgrees, Expired
    <3>2. \A d \in Callers : call[d] = "none"
      BY <3>1 DEF PauseInv
    <3> QED
      BY <2>2, <3>1, <3>2 DEF ExecuteOpen, StartCall
  <2>3. ASSUME NEW c \in Callers, ExecuteHalfOpen(c) PROVE ProbeInv'
    BY <2>3 DEF ExecuteHalfOpen, StartCall
  <2>4. ASSUME NEW c \in Callers, RecordSuccess(c) PROVE ProbeInv'
    BY <2>4 DEF RecordSuccess, EndCall
  <2>5. ASSUME NEW c \in Callers, RecordFailure(c) PROVE ProbeInv'
    BY <2>5 DEF RecordFailure, EndCall, Trips
  <2>6. CASE Reset
    BY <2>6 DEF Reset
  <2>7. CASE Restart
    BY <2>7 DEF Restart
  <2>8. CASE BackendChanges
    BY <2>8 DEF BackendChanges
  <2>9. CASE Tick
    BY <2>9 DEF Tick
  <2>10. CASE UNCHANGED vars
    BY <2>10 DEF vars
  <2> QED
    BY <2>1, <2>2, <2>3, <2>4, <2>5, <2>6, <2>7, <2>8, <2>9, <2>10 DEF Next
<1>3. ProbeInv => OnlyProbesWhileHalfOpen
  BY DEF ProbeInv
<1> QED
  BY <1>1, <1>2, <1>3, TypeCorrect, StateAgreement, PauseInvariant, PTL DEF Spec
=============================================================================
