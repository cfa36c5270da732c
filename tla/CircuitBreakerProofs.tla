------------------------- MODULE CircuitBreakerProofs -------------------------
(***************************************************************************)
(* Proofs about CircuitBreaker for every finite set of callers and every   *)
(* positive configuration.                                                 *)
(***************************************************************************)
EXTENDS CircuitBreaker, FiniteSetTheorems, TLAPS

(* The history variable tells the truth: a probe is in flight, and there   *)
(* are probes in HALF-OPEN only.                                           *)
ProbesInFlight ==
    /\ probes \subseteq InFlight
    /\ state # "HalfOpen" => probes = {}

(* What consecutive_failures can still become: in OPEN each increment uses *)
(* up one call in flight.                                                  *)
FailureBudget ==
    /\ state = "Closed" => consecutive_failures < FailureThreshold
    /\ state = "HalfOpen" => FailureCountBounded
    /\ state = "Open" => consecutive_failures + Cardinality(InFlight)
                           <= FailureThreshold + Cardinality(Callers)

(* The inductive invariant.  NoSlotLeak alone is not inductive: giving a   *)
(* slot back is sound only if the probe that leaves was counted.           *)
IInv == TypeOK /\ ProbesInFlight /\ NoSlotLeak /\ FailureBudget

-----------------------------------------------------------------------------
(* Subsets of Callers are finite and no larger than Callers.               *)
LEMMA SubsetOfCallers ==
    ASSUME NEW S, S \subseteq Callers
    PROVE  /\ IsFiniteSet(S)
           /\ Cardinality(S) \in Nat
           /\ Cardinality(Callers) \in Nat
           /\ Cardinality(S) <= Cardinality(Callers)
BY CallersAssumption, FS_Subset, FS_CardinalityType

(* A call that returns leaves the calls in flight by exactly one.          *)
LEMMA InFlightShrinks ==
    ASSUME TypeOK, NEW c \in Callers, c \in InFlight,
           call' = [call EXCEPT ![c] = "idle"]
    PROVE  /\ InFlight' = InFlight \ {c}
           /\ Cardinality(InFlight') = Cardinality(InFlight) - 1
<1>1. InFlight' = InFlight \ {c}
  BY DEF TypeOK, InFlight, CallStage
<1>2. IsFiniteSet(InFlight)
  BY SubsetOfCallers DEF InFlight
<1> QED  BY <1>1, <1>2, FS_RemoveElement

(* Recording a result in HALF-OPEN keeps the slot counter below the number *)
(* of probes, be the caller a probe or a straggler of an earlier episode.  *)
LEMMA SlotReturned ==
    ASSUME TypeOK, NEW c \in Callers, half_open_requests <= Cardinality(probes)
    PROVE  SaturatingDec(half_open_requests) <= Cardinality(probes \ {c})
<1>1. IsFiniteSet(probes) /\ Cardinality(probes) \in Nat
  BY SubsetOfCallers DEF TypeOK
<1>2. IsFiniteSet(probes \ {c}) /\ Cardinality(probes \ {c}) \in Nat
  BY SubsetOfCallers DEF TypeOK
<1>3. Cardinality(probes \ {c}) = IF c \in probes THEN Cardinality(probes) - 1
                                                  ELSE Cardinality(probes)
  BY <1>1, FS_RemoveElement
<1> QED  BY <1>1, <1>2, <1>3 DEF SaturatingDec, TypeOK

-----------------------------------------------------------------------------
(* The initial state satisfies the invariant.                              *)
LEMMA InitIInv == Init => IInv
<1> SUFFICES ASSUME Init PROVE IInv
  OBVIOUS
<1>1. TypeOK
  BY ConfigAssumption DEF Init, TypeOK, CircuitState, CallStage
<1>2. ProbesInFlight /\ NoSlotLeak
  BY DEF Init, ProbesInFlight, NoSlotLeak
<1>3. FailureBudget
  BY ConfigAssumption DEF Init, FailureBudget
<1> QED  BY <1>1, <1>2, <1>3 DEF IInv

(* Types are preserved by every step.                                      *)
LEMMA TypeStep == TypeOK /\ [Next]_vars => TypeOK'
<1> SUFFICES ASSUME TypeOK, [Next]_vars PROVE TypeOK'
  OBVIOUS
<1> USE ConfigAssumption DEF TypeOK, CircuitState, CallStage, breakerVars
<1>1. ASSUME NEW c \in Callers,
             AdmitClosed(c) \/ AdmitAfterTimeout(c) \/ AdmitProbe(c)
      PROVE  TypeOK'
  BY <1>1 DEF AdmitClosed, AdmitAfterTimeout, AdmitProbe, SlotsOnEntry
<1>2. ASSUME NEW c \in Callers,
             Reject(c) \/ ReturnRejected(c) \/ Finish(c)
      PROVE  TypeOK'
  BY <1>2 DEF Reject, ReturnRejected, Finish
<1>3. ASSUME NEW c \in Callers, RecordSuccess(c) PROVE TypeOK'
  BY <1>3 DEF RecordSuccess, SaturatingDec
<1>4. ASSUME NEW c \in Callers, RecordFailure(c) PROVE TypeOK'
  BY <1>4 DEF RecordFailure, SaturatingDec, FailuresOnReopen, OpenedOnReopen
<1>5. CASE TimeoutExpires \/ BrokerFails \/ BrokerRecovers
  BY <1>5 DEF TimeoutExpires, BrokerFails, BrokerRecovers
<1>6. CASE UNCHANGED vars
  BY <1>6 DEF vars
<1> QED  BY <1>1, <1>2, <1>3, <1>4, <1>5, <1>6 DEF Next

(* Slots: every step keeps the counter below the probes in flight.         *)
LEMMA SlotStep ==
    IInv /\ [Next]_vars => ProbesInFlight' /\ NoSlotLeak'
<1> SUFFICES ASSUME IInv, [Next]_vars PROVE ProbesInFlight' /\ NoSlotLeak'
  OBVIOUS
<1>t. TypeOK /\ ProbesInFlight /\ NoSlotLeak
  BY DEF IInv
<1>1. ASSUME NEW c \in Callers, AdmitClosed(c) PROVE ProbesInFlight' /\ NoSlotLeak'
  BY <1>1, <1>t DEF AdmitClosed, TypeOK, ProbesInFlight, NoSlotLeak, InFlight,
                    breakerVars
<1>2. ASSUME NEW c \in Callers, AdmitAfterTimeout(c)
      PROVE  ProbesInFlight' /\ NoSlotLeak'
  <2>1. Cardinality({c}) = 1
    BY FS_Singleton
  <2>2. ProbesInFlight'
    BY <1>2, <1>t DEF AdmitAfterTimeout, TypeOK, ProbesInFlight, InFlight
  <2>3. NoSlotLeak'
    BY <1>2, <2>1 DEF AdmitAfterTimeout, NoSlotLeak, SlotsOnEntry
  <2> QED  BY <2>2, <2>3
<1>3. ASSUME NEW c \in Callers, AdmitProbe(c) PROVE ProbesInFlight' /\ NoSlotLeak'
  <2>1. ProbesInFlight'
    BY <1>3, <1>t DEF AdmitProbe, TypeOK, ProbesInFlight, InFlight
  <2>2. c \notin probes
    BY <1>3, <1>t DEF AdmitProbe, ProbesInFlight, InFlight
  <2>3. IsFiniteSet(probes) /\ Cardinality(probes) \in Nat
    BY <1>t, SubsetOfCallers DEF TypeOK
  <2>4. Cardinality(probes \cup {c}) = Cardinality(probes) + 1
    BY <2>2, <2>3, FS_AddElement
  <2>5. NoSlotLeak'
    BY <1>3, <1>t, <2>3, <2>4 DEF AdmitProbe, NoSlotLeak, TypeOK
  <2> QED  BY <2>1, <2>5
<1>4. ASSUME NEW c \in Callers, Reject(c) \/ ReturnRejected(c)
      PROVE  ProbesInFlight' /\ NoSlotLeak'
  BY <1>4, <1>t DEF Reject, ReturnRejected, TypeOK, ProbesInFlight, NoSlotLeak,
                    InFlight, breakerVars
<1>5. ASSUME NEW c \in Callers, Finish(c) PROVE ProbesInFlight' /\ NoSlotLeak'
  BY <1>5, <1>t DEF Finish, TypeOK, ProbesInFlight, NoSlotLeak, InFlight, breakerVars
<1>6. ASSUME NEW c \in Callers, RecordSuccess(c) PROVE ProbesInFlight' /\ NoSlotLeak'
  <2>1. CASE state = "HalfOpen"
    <3>1. SaturatingDec(half_open_requests) <= Cardinality(probes \ {c})
      BY <2>1, <1>t, SlotReturned DEF NoSlotLeak
    <3> QED
      BY <1>6, <1>t, <2>1, <3>1 DEF RecordSuccess, TypeOK, ProbesInFlight,
                                    NoSlotLeak, InFlight
  <2>2. CASE state # "HalfOpen"
    BY <1>6, <1>t, <2>2 DEF RecordSuccess, TypeOK, ProbesInFlight, NoSlotLeak,
                            InFlight, breakerVars
  <2> QED  BY <2>1, <2>2
<1>7. ASSUME NEW c \in Callers, RecordFailure(c) PROVE ProbesInFlight' /\ NoSlotLeak'
  BY <1>7, <1>t DEF RecordFailure, TypeOK, ProbesInFlight, NoSlotLeak, InFlight
<1>8. CASE TimeoutExpires \/ BrokerFails \/ BrokerRecovers
  BY <1>8, <1>t DEF TimeoutExpires, BrokerFails, BrokerRecovers, ProbesInFlight,
                    NoSlotLeak, InFlight, breakerVars
<1>9. CASE UNCHANGED vars
  BY <1>9, <1>t DEF vars, ProbesInFlight, NoSlotLeak, InFlight
<1> QED
  BY <1>1, <1>2, <1>3, <1>4, <1>5, <1>6, <1>7, <1>8, <1>9 DEF Next

(* Counting: every step respects the failure budget.                       *)
LEMMA BudgetStep == IInv /\ [Next]_vars => FailureBudget'
<1> SUFFICES ASSUME IInv, [Next]_vars PROVE FailureBudget'
  OBVIOUS
<1>t. TypeOK /\ FailureBudget
  BY DEF IInv
<1>n. /\ Cardinality(InFlight) \in Nat
      /\ Cardinality(Callers) \in Nat
      /\ Cardinality(InFlight) <= Cardinality(Callers)
  BY SubsetOfCallers DEF InFlight
<1>m. Cardinality(InFlight') \in Nat /\ Cardinality(InFlight') <= Cardinality(Callers)
  BY SubsetOfCallers DEF InFlight
<1> USE ConfigAssumption DEF FailureBudget, FailureCountBounded
<1>1. ASSUME NEW c \in Callers, AdmitClosed(c) PROVE FailureBudget'
  BY <1>1, <1>t DEF AdmitClosed, breakerVars
<1>2. ASSUME NEW c \in Callers, AdmitAfterTimeout(c) PROVE FailureBudget'
  BY <1>2, <1>t, <1>n DEF AdmitAfterTimeout, TypeOK
<1>3. ASSUME NEW c \in Callers, AdmitProbe(c) PROVE FailureBudget'
  BY <1>3, <1>t DEF AdmitProbe
<1>4. ASSUME NEW c \in Callers, Reject(c) \/ ReturnRejected(c) \/ Finish(c)
      PROVE  FailureBudget'
  <2>1. InFlight' = InFlight
    BY <1>4, <1>t DEF Reject, ReturnRejected, Finish, InFlight, TypeOK, CallStage
  <2> QED  BY <1>4, <1>t, <2>1 DEF Reject, ReturnRejected, Finish, breakerVars
<1>5. ASSUME NEW c \in Callers, RecordSuccess(c) PROVE FailureBudget'
  <2>1. Cardinality(InFlight') = Cardinality(InFlight) - 1
    BY <1>5, <1>t, InFlightShrinks DEF RecordSuccess, InFlight
  <2> QED  BY <1>5, <1>t, <1>n, <2>1 DEF RecordSuccess, TypeOK, breakerVars
<1>6. ASSUME NEW c \in Callers, RecordFailure(c) PROVE FailureBudget'
  <2>1. Cardinality(InFlight') = Cardinality(InFlight) - 1
    BY <1>6, <1>t, InFlightShrinks DEF RecordFailure, InFlight
  <2> QED
    BY <1>6, <1>t, <1>n, <2>1 DEF RecordFailure, FailuresOnReopen, TypeOK, CircuitState
<1>7. CASE TimeoutExpires \/ BrokerFails \/ BrokerRecovers \/ UNCHANGED vars
  <2>1. InFlight' = InFlight
    BY <1>7 DEF TimeoutExpires, BrokerFails, BrokerRecovers, vars, InFlight
  <2> QED
    BY <1>7, <1>t, <2>1 DEF TimeoutExpires, BrokerFails, BrokerRecovers, vars,
                            breakerVars
<1> QED  BY <1>1, <1>2, <1>3, <1>4, <1>5, <1>6, <1>7 DEF Next

-----------------------------------------------------------------------------
(* The invariant holds in every reachable state.                           *)
THEOREM Invariance == Spec => []IInv
<1>1. IInv /\ [Next]_vars => IInv'
  BY TypeStep, SlotStep, BudgetStep DEF IInv
<1> QED  BY InitIInv, <1>1, PTL DEF Spec

(* The breaker's variables keep their types.                               *)
THEOREM TypeCorrect == Spec => []TypeOK
<1>1. IInv => TypeOK
  BY DEF IInv
<1> QED  BY Invariance, <1>1, PTL

(* HALF-OPEN slots never leak, so a breaker whose calls all return never   *)
(* ends up rejecting every request with nothing in flight.                 *)
THEOREM SlotsNeverLeak == Spec => []NoSlotLeak
<1>1. IInv => NoSlotLeak
  BY DEF IInv
<1> QED  BY Invariance, <1>1, PTL

(* consecutive_failures never exceeds the threshold plus one per caller.   *)
THEOREM FailuresBounded == Spec => []FailureCountBounded
<1>1. IInv => FailureCountBounded
  <2> SUFFICES ASSUME IInv PROVE FailureCountBounded
    OBVIOUS
  <2>1. /\ Cardinality(InFlight) \in Nat
        /\ Cardinality(Callers) \in Nat
    BY SubsetOfCallers DEF InFlight
  <2> QED
    BY <2>1, ConfigAssumption DEF IInv, TypeOK, CircuitState, FailureBudget,
                                  FailureCountBounded
<1> QED  BY Invariance, <1>1, PTL
=============================================================================
