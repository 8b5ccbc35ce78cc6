---------------------------- MODULE CircuitBreaker ----------------------------
(***************************************************************************)
(* storage/circuit_breaker.py: one CircuitBreaker object shared by the     *)
(* threads of the API process (the Redis cache and the risk model have one *)
(* each).  call() takes the lock to decide whether the operation runs,     *)
(* runs it without the lock, and takes the lock again to record the        *)
(* outcome, so operations overlap and their outcomes arrive in any order.  *)
(*                                                                         *)
(* Time is what the code compares: expired says whether recovery_timeout   *)
(* has passed since last_state_change.  Whether the dependency works is    *)
(* chosen by the environment (healthy).                                    *)
(***************************************************************************)
EXTENDS Integers

CONSTANTS
    Threads,
    Threshold,    \* failure_threshold
    CountCap      \* failure_count is counted up to here: beyond Threshold
                  \* the code only compares it with >=

ASSUME BreakerAssumption ==
    /\ Threshold \in Nat \ {0}
    /\ CountCap \in Nat /\ CountCap >= Threshold

VARIABLES
    state,           \* CircuitState
    failure_count,
    expired,         \* now - last_state_change >= recovery_timeout
    phase,           \* where a thread is in call()
    healthy,         \* the dependency answers
    since            \* threads admitted since the breaker last tripped

fields == <<state, failure_count, expired>>
breakerVars == <<fields, phase, healthy, since>>

BreakerInit ==
    /\ state = "CLOSED"
    /\ failure_count = 0
    /\ expired = FALSE
    /\ phase = [t \in Threads |-> "idle"]
    /\ healthy \in BOOLEAN
    /\ since = {}

Enter(t, l) == phase' = [phase EXCEPT ![t] = l]

(* Fault: an open breaker never probes.                                    *)
CallNoProbe(t) ==
    /\ phase[t] = "idle"
    /\ state # "OPEN"
    /\ Enter(t, "operation")
    /\ since' = since \cup {t}
    /\ UNCHANGED <<fields, healthy>>

(* Fault: the age of the trip is not looked at.                            *)
CallAlwaysProbe(t) ==
    /\ phase[t] = "idle"
    /\ state' = IF state = "OPEN" THEN "HALF_OPEN" ELSE state
    /\ Enter(t, "operation")
    /\ since' = since \cup {t}
    /\ UNCHANGED <<failure_count, expired, healthy>>

(* call: the operation is admitted, as the probe if the breaker was open.  *)
Call(t) ==
    /\ phase[t] = "idle"
    /\ state = "OPEN" => expired
    /\ state' = IF state = "OPEN" THEN "HALF_OPEN" ELSE state
    /\ Enter(t, "operation")
    /\ since' = since \cup {t}
    /\ UNCHANGED <<failure_count, expired, healthy>>

(* call: fallback() or CircuitBreakerOpenError, without the operation.     *)
Reject(t) ==
    /\ phase[t] = "idle"
    /\ state = "OPEN" /\ ~ expired
    /\ UNCHANGED breakerVars

(* operation() returns, or raises one of expected_exceptions ...           *)
Operation(t) ==
    /\ phase[t] = "operation"
    /\ Enter(t, IF healthy THEN "succeeded" ELSE "failed")
    /\ UNCHANGED <<fields, healthy, since>>

(* ... or any other exception, which propagates past the breaker: it never *)
(* hears of the call again.                                                *)
Unexpected(t) ==
    /\ phase[t] = "operation" /\ ~ healthy
    /\ Enter(t, "idle")
    /\ UNCHANGED <<fields, healthy, since>>

(* Fault: a success closes the breaker and forgets to reset the count.     *)
SuccessNoReset(t) ==
    /\ phase[t] = "succeeded"
    /\ state' = "CLOSED"
    /\ Enter(t, "idle")
    /\ UNCHANGED <<failure_count, expired, healthy, since>>

(* _on_success, whatever has happened since the operation was admitted.    *)
OnSuccess(t) ==
    /\ phase[t] = "succeeded"
    /\ state' = "CLOSED"
    /\ failure_count' = 0
    /\ Enter(t, "idle")
    /\ UNCHANGED <<expired, healthy, since>>

Counted == IF failure_count < CountCap THEN failure_count + 1 ELSE failure_count

(* _on_failure.                                                            *)
OnFailure(t) ==
    LET trips == Counted >= Threshold \/ state = "HALF_OPEN"
    IN  /\ phase[t] = "failed"
        /\ failure_count' = Counted
        /\ state' = IF trips THEN "OPEN" ELSE state
        /\ expired' = IF trips THEN FALSE ELSE expired
        /\ since' = IF trips THEN {} ELSE since
        /\ Enter(t, "idle")
        /\ UNCHANGED healthy

(* recovery_timeout seconds have gone by since last_state_change.          *)
Timeout ==
    /\ ~ expired
    /\ expired' = TRUE
    /\ UNCHANGED <<state, failure_count, phase, healthy, since>>

(* The dependency breaks down or comes back.                               *)
Dependency ==
    /\ healthy' = ~ healthy
    /\ UNCHANGED <<fields, phase, since>>

(* The rest of a call that was admitted.                                   *)
Proceed(t) == Operation(t) \/ Unexpected(t) \/ OnSuccess(t) \/ OnFailure(t)

BreakerNext ==
    \/ \E t \in Threads : Call(t) \/ Reject(t) \/ Proceed(t)
    \/ Timeout
    \/ Dependency

BreakerSpec == BreakerInit /\ [][BreakerNext]_breakerVars

(* Time passes, a call that was admitted runs to its end, and requests     *)
(* keep coming: some thread that may call does.                            *)
FairBreaker ==
    /\ BreakerSpec
    /\ WF_breakerVars(Timeout)
    /\ WF_breakerVars(\E t \in Threads : Call(t))
    /\ \A t \in Threads : WF_breakerVars(Proceed(t))

-----------------------------------------------------------------------------
(* Every variable keeps the shape the code gives it.                       *)
BreakerTypeOK ==
    /\ state \in {"CLOSED", "OPEN", "HALF_OPEN"}
    /\ failure_count \in 0 .. CountCap
    /\ expired \in BOOLEAN /\ healthy \in BOOLEAN
    /\ phase \in [Threads -> {"idle", "operation", "succeeded", "failed"}]
    /\ since \subseteq Threads

(* The two fields that _on_success and _on_failure write never contradict  *)
(* each other, whatever the order in which overlapping operations end: the *)
(* breaker is closed exactly while fewer than failure_threshold failures   *)
(* are on its account.                                                     *)
CountMatchesState == state = "CLOSED" <=> failure_count < Threshold

(* Fail fast: from a trip to the end of its recovery timeout no new        *)
(* operation reaches the dependency, as a probe or otherwise, unless a     *)
(* success closes the breaker.                                             *)
OpenAdmitsNobody == state # "CLOSED" /\ ~ expired => since = {}

(* Once the dependency works again for good the breaker closes: late       *)
(* failures, and probes that end in an exception the breaker does not      *)
(* count, cannot keep it open.                                             *)
Recovers == <>[]healthy => <>[](state = "CLOSED")
=============================================================================
