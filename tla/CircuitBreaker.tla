---------------------------- MODULE CircuitBreaker ----------------------------
(***************************************************************************)
(* The circuit breaker that stands between the durable lineage sink and    *)
(* Kafka (storage/kafka/circuit_breaker.rs).                               *)
(*                                                                         *)
(* A caller runs CircuitBreaker::call: should_allow_request under the      *)
(* state's write lock, then the protected future with NO lock held, then   *)
(* record_success or record_failure under the lock again.  Each locked     *)
(* section is one action, so the breaker may have changed state any number *)
(* of times between the admission of a call and the record of its result.  *)
(*                                                                         *)
(* The metric counters total_failures, total_successes, state_transitions  *)
(* are left out: no guard reads them.                                      *)
(***************************************************************************)
EXTENDS Naturals, FiniteSets

CONSTANTS
    Callers,               \* concurrent tasks that use one breaker
    FailureThreshold,      \* config.failure_threshold
    SuccessThreshold,      \* config.success_threshold
    HalfOpenMaxRequests    \* config.half_open_max_requests

ASSUME CallersAssumption == IsFiniteSet(Callers)

ASSUME ConfigAssumption ==
    /\ FailureThreshold \in Nat \ {0}
    /\ SuccessThreshold \in Nat \ {0}
    /\ HalfOpenMaxRequests \in Nat \ {0}

VARIABLES
    state,                  \* CircuitBreakerState.state
    consecutive_failures,
    consecutive_successes,
    opened_at,              \* None, or Some(t) with t younger/older than config.timeout
    half_open_requests,
    call,                   \* where each caller is in call()
    brokerUp,               \* external: whether Kafka answers
    probes                  \* history: calls in flight that this HALF-OPEN episode admitted

breakerVars == <<state, consecutive_failures, consecutive_successes,
                 opened_at, half_open_requests>>
vars == <<state, consecutive_failures, consecutive_successes, opened_at,
          half_open_requests, call, brokerUp, probes>>

CircuitState == {"Closed", "Open", "HalfOpen"}

(* Where a caller can be: outside call(); awaiting the protected future;   *)
(* holding its Ok / Err but not yet past record_success / record_failure;  *)
(* told that the request is rejected.                                      *)
CallStage == {"idle", "sending", "ok", "err", "rejected"}

InFlight == {c \in Callers : call[c] \in {"sending", "ok", "err"}}

TypeOK ==
    /\ state \in CircuitState
    /\ consecutive_failures \in Nat
    /\ consecutive_successes \in Nat
    /\ opened_at \in {"None", "Recent", "Elapsed"}
    /\ half_open_requests \in 0..HalfOpenMaxRequests
    /\ call \in [Callers -> CallStage]
    /\ brokerUp \in BOOLEAN
    /\ probes \subseteq Callers

Init ==
    /\ state = "Closed"
    /\ consecutive_failures = 0
    /\ consecutive_successes = 0
    /\ opened_at = "None"
    /\ half_open_requests = 0
    /\ call = [c \in Callers |-> "idle"]
    /\ brokerUp \in BOOLEAN
    /\ probes = {}

-----------------------------------------------------------------------------
(* should_allow_request.                                                   *)

(* Closed: every request passes.                                           *)
AdmitClosed(c) ==
    /\ call[c] = "idle"
    /\ state = "Closed"
    /\ call' = [call EXCEPT ![c] = "sending"]
    /\ UNCHANGED <<breakerVars, brokerUp, probes>>

(* A plausible slip: the counter is carried over from the last episode.    *)
SlotsOnEntry_NoReset == half_open_requests

(* half_open_requests is reset when HALF-OPEN is entered.                  *)
SlotsOnEntry == 0

(* Open with the timeout expired: OPEN -> HALF-OPEN, and this very request *)
(* is the first probe, for the match below the transition sees HalfOpen    *)
(* and, half_open_max_requests being positive, a free slot.                *)
AdmitAfterTimeout(c) ==
    /\ call[c] = "idle"
    /\ state = "Open"
    /\ opened_at = "Elapsed"
    /\ SlotsOnEntry < HalfOpenMaxRequests
    /\ state' = "HalfOpen"
    /\ consecutive_successes' = 0
    /\ half_open_requests' = SlotsOnEntry + 1
    /\ call' = [call EXCEPT ![c] = "sending"]
    /\ probes' = {c}
    /\ UNCHANGED <<consecutive_failures, opened_at, brokerUp>>

(* HALF-OPEN with a free slot: the request becomes a probe.                *)
AdmitProbe(c) ==
    /\ call[c] = "idle"
    /\ state = "HalfOpen"
    /\ half_open_requests < HalfOpenMaxRequests
    /\ half_open_requests' = half_open_requests + 1
    /\ call' = [call EXCEPT ![c] = "sending"]
    /\ probes' = probes \cup {c}
    /\ UNCHANGED <<state, consecutive_failures, consecutive_successes,
                   opened_at, brokerUp>>

(* Open and the timeout not yet over, or HALF-OPEN with every slot taken:  *)
(* call() returns Err("Circuit breaker is OPEN - request rejected").       *)
Reject(c) ==
    /\ call[c] = "idle"
    /\ \/ state = "Open" /\ opened_at # "Elapsed"
       \/ state = "HalfOpen" /\ half_open_requests >= HalfOpenMaxRequests
    /\ call' = [call EXCEPT ![c] = "rejected"]
    /\ UNCHANGED <<breakerVars, brokerUp, probes>>

ReturnRejected(c) ==
    /\ call[c] = "rejected"
    /\ call' = [call EXCEPT ![c] = "idle"]
    /\ UNCHANGED <<breakerVars, brokerUp, probes>>

(* The protected future completes.  The breaker is not locked meanwhile.   *)
Finish(c) ==
    /\ call[c] = "sending"
    /\ call' = [call EXCEPT ![c] = IF brokerUp THEN "ok" ELSE "err"]
    /\ UNCHANGED <<breakerVars, brokerUp, probes>>

-----------------------------------------------------------------------------
(* A plausible slip: the subtraction does not saturate.                    *)
SaturatingDec_Plain(n) == n - 1

SaturatingDec(n) == IF n = 0 THEN 0 ELSE n - 1

(* record_success                                                          *)
RecordSuccess(c) ==
    /\ call[c] = "ok"
    /\ call' = [call EXCEPT ![c] = "idle"]
    /\ \/ /\ state = "Closed"
          /\ consecutive_failures' = 0
          /\ UNCHANGED <<state, consecutive_successes, opened_at,
                         half_open_requests, probes>>
       \/ /\ state = "HalfOpen"
          /\ half_open_requests' = SaturatingDec(half_open_requests)
          /\ IF consecutive_successes + 1 >= SuccessThreshold
                THEN /\ state' = "Closed"
                     /\ consecutive_failures' = 0
                     /\ consecutive_successes' = 0
                     /\ opened_at' = "None"
                     /\ probes' = {}
                ELSE /\ consecutive_successes' = consecutive_successes + 1
                     /\ probes' = probes \ {c}
                     /\ UNCHANGED <<state, consecutive_failures, opened_at>>
       \/ /\ state = "Open"
          /\ UNCHANGED <<breakerVars, probes>>
    /\ UNCHANGED brokerUp

(* A plausible slip: count on from where the last episode stopped.         *)
FailuresOnReopen_CountOn == consecutive_failures + 1

(* The count a HALF-OPEN failure leaves behind.                            *)
FailuresOnReopen == FailureThreshold

(* A plausible slip: opened_at is cleared as it is when the circuit closes.*)
OpenedOnReopen_Cleared == "None"

(* A HALF-OPEN failure restarts the timeout.                               *)
OpenedOnReopen == "Recent"

(* record_failure                                                          *)
RecordFailure(c) ==
    /\ call[c] = "err"
    /\ call' = [call EXCEPT ![c] = "idle"]
    /\ \/ /\ state = "Closed"
          /\ consecutive_failures' = consecutive_failures + 1
          /\ consecutive_successes' = 0
          /\ IF consecutive_failures + 1 >= FailureThreshold
                THEN state' = "Open" /\ opened_at' = "Recent"
                ELSE UNCHANGED <<state, opened_at>>
          /\ UNCHANGED <<half_open_requests, probes>>
       \/ /\ state = "HalfOpen"
          /\ half_open_requests' = SaturatingDec(half_open_requests)
          /\ state' = "Open"
          /\ consecutive_failures' = FailuresOnReopen
          /\ consecutive_successes' = 0
          /\ opened_at' = OpenedOnReopen
          /\ probes' = {}
       \/ /\ state = "Open"
          /\ consecutive_failures' = consecutive_failures + 1
          /\ UNCHANGED <<state, consecutive_successes, opened_at,
                         half_open_requests, probes>>
    /\ UNCHANGED brokerUp

-----------------------------------------------------------------------------
(* opened_at.elapsed() reaches config.timeout.                             *)
TimeoutExpires ==
    /\ opened_at = "Recent"
    /\ opened_at' = "Elapsed"
    /\ UNCHANGED <<state, consecutive_failures, consecutive_successes,
                   half_open_requests, call, brokerUp, probes>>

(* Kafka goes down or comes back.                                          *)
BrokerFails ==
    /\ brokerUp
    /\ brokerUp' = FALSE
    /\ UNCHANGED <<breakerVars, call, probes>>

BrokerRecovers ==
    /\ ~brokerUp
    /\ brokerUp' = TRUE
    /\ UNCHANGED <<breakerVars, call, probes>>

Call(c) == AdmitClosed(c) \/ AdmitAfterTimeout(c) \/ AdmitProbe(c) \/ Reject(c)

Next ==
    \/ \E c \in Callers : \/ AdmitClosed(c) \/ AdmitAfterTimeout(c)
                          \/ AdmitProbe(c) \/ Reject(c) \/ ReturnRejected(c)
                          \/ Finish(c) \/ RecordSuccess(c) \/ RecordFailure(c)
    \/ TimeoutExpires
    \/ BrokerFails
    \/ BrokerRecovers

Spec == Init /\ [][Next]_vars

(* Fairness: traffic keeps arriving, the Kafka send has a timeout so every *)
(* call finishes, the lock is fair (tokio's RwLock is FIFO), time passes.  *)
(* Nothing is assumed of the broker.                                       *)
Fairness ==
    /\ \A c \in Callers : /\ WF_vars(Call(c))
                          /\ WF_vars(ReturnRejected(c))
                          /\ WF_vars(Finish(c))
                          /\ WF_vars(RecordSuccess(c))
                          /\ WF_vars(RecordFailure(c))
    /\ WF_vars(TimeoutExpires)

FairSpec == Spec /\ Fairness

-----------------------------------------------------------------------------
(* Slots never leak: in HALF-OPEN the counter never exceeds the number of  *)
(* probes really in flight, whatever late results of earlier episodes were *)
(* recorded.  Otherwise half_open_requests could sit at its maximum with   *)
(* nobody left to decrement it, and should_allow_request would reject      *)
(* every request for ever.                                                 *)
NoSlotLeak ==
    state = "HalfOpen" => half_open_requests <= Cardinality(probes)

(* consecutive_failures (a u32 that OPEN keeps incrementing) is bounded:   *)
(* after the circuit opens only the calls already in flight can add to it. *)
FailureCountBounded ==
    consecutive_failures <= FailureThreshold + Cardinality(Callers)

(* Once Kafka stays up, the breaker closes for good: it is neither stuck   *)
(* in HALF-OPEN with no slot nor re-opened by stale failures for ever.     *)
RecoversWhenBrokerDoes == <>[]brokerUp => <>[](state = "Closed")
=============================================================================
