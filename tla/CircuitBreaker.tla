--------------------------- MODULE CircuitBreaker ---------------------------
(***************************************************************************)
(* The circuit breaker in front of the LLM backend                         *)
(* (app/services/circuit_breaker.py) and the calls that run through it     *)
(* (the two phases of app/services/prompt_engine.py).  Every worker task   *)
(* of the pool shares one breaker; each method body runs under its lock,   *)
(* so each is one step, but a call is in flight between can_execute() and  *)
(* the record_*() that ends it, and anything may happen to the breaker     *)
(* meanwhile.                                                              *)
(*                                                                         *)
(* Time is counted in whole units.  The code keeps instants and compares   *)
(* differences; the model keeps the differences: `opened_time' is the time *)
(* passed since the circuit opened, `age' the time a call has been out.    *)
(***************************************************************************)
EXTENDS Integers, FiniteSets

CONSTANTS
  Callers,      \* the worker tasks that call the LLM
  Threshold,    \* failure_threshold
  Timeout,      \* timeout: how long the circuit stays open
  CallTimeout,  \* longest time a call is out before the HTTP client gives up
  CountCap      \* failure_count is only compared with Threshold: it is
                \* counted up to this bound and no further

ASSUME BreakerAssumption ==
  /\ Threshold \in Nat \ {0}
  /\ Timeout \in Nat \ {0}
  /\ CallTimeout \in Nat \ {0}
  /\ CountCap \in Nat
  /\ CountCap >= Threshold

VARIABLES
  state,                   \* CLOSED, OPEN or HALF_OPEN
  failure_count,
  opened_time,             \* time since the circuit opened, NoTime for None
  test_request_in_flight,
  call,                    \* what each caller is doing, see CallKinds
  age,                     \* how long each caller's call has been out
  backend                  \* the LLM server, see Backends

breaker == <<state, failure_count, opened_time, test_request_in_flight>>
calls == <<call, age>>
vars == <<breaker, calls, backend>>

NoTime == -1

\* opened_time is counted up to this bound: past it, the pause is over and
\* every call admitted before its end has timed out.
TimeCap == Timeout + CallTimeout + 1

States == {"CLOSED", "OPEN", "HALF_OPEN"}

\* "none": no call out.  Otherwise the branch of can_execute() that let the
\* call through: "normal" a closed circuit, "opening" the call that found
\* the pause over, "test" the call that raised test_request_in_flight.
CallKinds == {"none", "normal", "opening", "test"}

\* "up" answers every call, "down" none, "flaky" some; an answer that the
\* validate phase cannot parse counts as a failure and makes the server flaky.
Backends == {"up", "down", "flaky"}

InFlight == {c \in Callers : call[c] # "none"}

TypeOK ==
  /\ state \in States
  /\ failure_count \in 0..CountCap
  /\ opened_time \in {NoTime} \cup 0..TimeCap
  /\ test_request_in_flight \in BOOLEAN
  /\ call \in [Callers -> CallKinds]
  /\ age \in [Callers -> 0..CallTimeout]
  /\ backend \in Backends

InitBreaker ==
  /\ state = "CLOSED"
  /\ failure_count = 0
  /\ opened_time = NoTime
  /\ test_request_in_flight = FALSE

Init ==
  /\ InitBreaker
  /\ call = [c \in Callers |-> "none"]
  /\ age = [c \in Callers |-> 0]
  /\ backend = "up"

-----------------------------------------------------------------------------
(***************************************************************************)
(* can_execute(): one action per branch that returns True.  The branches   *)
(* that raise CircuitBreakerOpenError leave the breaker and the calls as   *)
(* they are.                                                               *)
(***************************************************************************)
StartCall(c, kind) ==
  /\ call' = [call EXCEPT ![c] = kind]
  /\ age' = [age EXCEPT ![c] = 0]

\* mutant: off by one at the end of the pause
MutExpired == opened_time >= Timeout
Expired == opened_time > Timeout

ExecuteClosed(c) ==
  /\ call[c] = "none"
  /\ state = "CLOSED"
  /\ StartCall(c, "normal")
  /\ UNCHANGED <<breaker, backend>>

\* An OPEN circuit without an opened_time is repaired to CLOSED, an expired
\* pause becomes the half-open state.
ExecuteOpen(c) ==
  /\ call[c] = "none"
  /\ state = "OPEN"
  /\ opened_time = NoTime \/ Expired
  /\ state' = IF opened_time = NoTime THEN "CLOSED" ELSE "HALF_OPEN"
  /\ test_request_in_flight' = (opened_time = NoTime /\ test_request_in_flight)
  /\ StartCall(c, IF opened_time = NoTime THEN "normal" ELSE "opening")
  /\ UNCHANGED <<failure_count, opened_time, backend>>

\* mutant: the flag is raised but not looked at
MutExecuteHalfOpen(c) ==
  /\ call[c] = "none"
  /\ state = "HALF_OPEN"
  /\ StartCall(c, "test")
  /\ test_request_in_flight' = TRUE
  /\ UNCHANGED <<state, failure_count, opened_time, backend>>

ExecuteHalfOpen(c) ==
  /\ call[c] = "none"
  /\ state = "HALF_OPEN"
  /\ ~test_request_in_flight
  /\ StartCall(c, "test")
  /\ test_request_in_flight' = TRUE
  /\ UNCHANGED <<state, failure_count, opened_time, backend>>

-----------------------------------------------------------------------------
(***************************************************************************)
(* The call returns.  record_success() and record_failure() act on the     *)
(* state they find, not on the one the call was admitted in.               *)
(***************************************************************************)
EndCall(c) ==
  /\ call[c] # "none"
  /\ call' = [call EXCEPT ![c] = "none"]
  /\ age' = [age EXCEPT ![c] = 0]

\* mutant: the old failures are not forgotten
MutSuccessKeepsCount(c) ==
  /\ backend # "down"
  /\ EndCall(c)
  /\ state' = IF state = "HALF_OPEN" THEN "CLOSED" ELSE state
  /\ opened_time' = IF state = "HALF_OPEN" THEN NoTime ELSE opened_time
  /\ test_request_in_flight' = (test_request_in_flight /\ state # "HALF_OPEN")
  /\ UNCHANGED <<failure_count, backend>>

\* mutant: a successful probe ends, the circuit stays half open
MutSuccessDoesNotClose(c) ==
  /\ backend # "down"
  /\ EndCall(c)
  /\ failure_count' = IF state = "CLOSED" THEN 0 ELSE failure_count
  /\ test_request_in_flight' = FALSE
  /\ UNCHANGED <<state, opened_time, backend>>

RecordSuccess(c) ==
  /\ backend # "down"
  /\ EndCall(c)
  /\ state' = IF state = "HALF_OPEN" THEN "CLOSED" ELSE state
  /\ failure_count' = IF state = "OPEN" THEN failure_count ELSE 0
  /\ opened_time' = IF state = "HALF_OPEN" THEN NoTime ELSE opened_time
  /\ test_request_in_flight' = (test_request_in_flight /\ state # "HALF_OPEN")
  /\ UNCHANGED backend

CountFailure == IF failure_count < CountCap THEN failure_count + 1 ELSE CountCap

\* mutant: a failure in the closed state never opens the circuit
MutTrips == state = "HALF_OPEN"
\* Does this failure open the circuit?
Trips == state = "HALF_OPEN" \/ (state = "CLOSED" /\ CountFailure >= Threshold)

\* mutant: the flag of the probe that failed stays up
MutFailureKeepsFlag(c) ==
  /\ backend # "up"
  /\ EndCall(c)
  /\ failure_count' = CountFailure
  /\ state' = IF Trips THEN "OPEN" ELSE state
  /\ opened_time' = IF Trips THEN 0 ELSE opened_time
  /\ UNCHANGED <<test_request_in_flight, backend>>

RecordFailure(c) ==
  /\ backend # "up"
  /\ EndCall(c)
  /\ failure_count' = CountFailure
  /\ state' = IF Trips THEN "OPEN" ELSE state
  /\ opened_time' = IF Trips THEN 0 ELSE opened_time
  /\ test_request_in_flight' = (test_request_in_flight /\ state # "HALF_OPEN")
  /\ UNCHANGED backend

-----------------------------------------------------------------------------
\* reset(): the state of a new breaker.  Calls in flight stay in flight.
Reset ==
  /\ state' = "CLOSED"
  /\ failure_count' = 0
  /\ opened_time' = NoTime
  /\ test_request_in_flight' = FALSE
  /\ UNCHANGED <<calls, backend>>

\* The worker process stops (WorkerPool.stop cancels every task) and starts
\* again: the calls are gone and the breaker, which lives in memory, is new.
Restart ==
  /\ state' = "CLOSED"
  /\ failure_count' = 0
  /\ opened_time' = NoTime
  /\ test_request_in_flight' = FALSE
  /\ call' = [c \in Callers |-> "none"]
  /\ age' = [c \in Callers |-> 0]
  /\ UNCHANGED backend

\* The server's health changes at any time.
BackendChanges ==
  /\ backend' \in Backends \ {backend}
  /\ UNCHANGED <<breaker, calls>>

\* Time passes, as long as no call outlives the HTTP client's timeout.  The
\* pause is counted up to TimeCap.
Tick ==
  /\ \A c \in InFlight : age[c] < CallTimeout
  /\ age' = [c \in Callers |-> IF c \in InFlight THEN age[c] + 1 ELSE age[c]]
  /\ opened_time' = IF opened_time \in 0..(TimeCap - 1) THEN opened_time + 1
                                                  ELSE opened_time
  /\ UNCHANGED <<state, failure_count, test_request_in_flight, call, backend>>

CanExecute(c) == ExecuteClosed(c) \/ ExecuteOpen(c) \/ ExecuteHalfOpen(c)
Returns(c) == RecordSuccess(c) \/ RecordFailure(c)

Next ==
  \/ \E c \in Callers :
       \/ ExecuteClosed(c)
       \/ ExecuteOpen(c)
       \/ ExecuteHalfOpen(c)
       \/ RecordSuccess(c)
       \/ RecordFailure(c)
  \/ Reset
  \/ Restart
  \/ BackendChanges
  \/ Tick

Spec == Init /\ [][Next]_vars

(***************************************************************************)
(* Fairness: every call returns or times out (the HTTP client has a        *)
(* timeout), time passes, and while there is queued LLM work some worker   *)
(* keeps asking the breaker for admission.  Reset, Restart and the health  *)
(* of the server are nobody's duty.                                        *)
(***************************************************************************)
Fairness ==
  /\ WF_vars(Tick)
  /\ WF_vars(\E c \in Callers : CanExecute(c))
  /\ \A c \in Callers : WF_vars(Returns(c))

FairSpec == Spec /\ Fairness

-----------------------------------------------------------------------------
(***************************************************************************)
(* Properties                                                              *)
(***************************************************************************)

\* The three fields record_failure, record_success and reset keep tell the
\* same story: the circuit is closed exactly while fewer than Threshold
\* failures are counted, and exactly then it has no opened_time.  So a trip
\* is never missed, a closed circuit never carries an old count over the
\* threshold, and the repair branch of can_execute (lines 93-102) is dead.
StateAgrees ==
  /\ (state = "CLOSED") <=> (failure_count < Threshold)
  /\ (state = "CLOSED") <=> (opened_time = NoTime)

\* A half-open circuit always has its opening call still out, and a raised
\* flag always has the call that raised it still out: somebody will record
\* a result, so the breaker cannot wedge in HALF_OPEN refusing everyone.
NeverWedged ==
  /\ state = "HALF_OPEN" => \E c \in Callers : call[c] = "opening"
  /\ test_request_in_flight =>
       /\ state = "HALF_OPEN"
       /\ \E c \in Callers : call[c] = "test"

\* Nobody is let through during the pause: every call that is out before the
\* circuit closes again was out when it opened, or started after the pause.
NoCallInPause ==
  state # "CLOSED" => \A c \in InFlight :
                        \/ age[c] >= opened_time
                        \/ opened_time - age[c] > Timeout

\* With a call timeout no longer than the pause, a half-open circuit has at
\* most two calls out, the opening call and one test call, and none that was
\* admitted before the circuit opened: a late answer of an old call cannot
\* pass for the probe's verdict.
OnlyProbesWhileHalfOpen ==
  state = "HALF_OPEN" =>
    /\ \A c \in Callers : call[c] # "normal"
    /\ \A c, d \in InFlight : call[c] = call[d] => c = d

\* A backend that has recovered for good gets its traffic back: the circuit
\* is eventually closed and stays closed.
RecoversWithBackend == <>[](backend = "up") => <>[](state = "CLOSED")

\* A backend that is down for good is cut off: unless it is reset by hand or
\* restarted over and over, the breaker eventually never is closed again.
CutsOffDeadBackend ==
  <>[](backend = "down") =>
    \/ <>[](state # "CLOSED")
    \/ []<><<Reset \/ Restart>>_vars
=============================================================================
