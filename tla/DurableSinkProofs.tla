-------------------------- MODULE DurableSinkProofs --------------------------
(***************************************************************************)
(* Proofs about DurableSink for every set of senders and events and every  *)
(* configuration of tracker, replay and circuit breaker.                   *)
(***************************************************************************)
EXTENDS DurableSink, FiniteSetTheorems, TLAPS

(* What the proof needs of the types.                                      *)
Shape ==
    /\ wal \in Seq(Events)
    /\ task \in [Callers -> [at : Stage, event : Events \cup {NoEvent}, lsn : Nat]]
    /\ call \in [Callers -> Breaker!CallStage]
    /\ \A c \in Callers : task[c].at \in {"sleep", "write"} => task[c].event \in Events
    /\ bootLsn \in Nat /\ committed_lsn \in Nat

(* Every LSN the sink knows of is in the log.                              *)
LsnsWritten ==
    /\ accepted \subseteq 0..Len(wal) /\ pending \subseteq 1..Len(wal)
    /\ \A c \in Callers : task[c].lsn \in 0..Len(wal)

(* Where a call stands says where its event is: between the log and the    *)
(* end of the send it is pending (or already in Kafka); with an Ok in hand *)
(* it is in Kafka.  Only a call inside the breaker has a stage there.      *)
CallsTracked ==
    \A c \in Callers :
        /\ call[c] # "idle" => task[c].at = "calling"
        /\ task[c].at \in {"send", "calling"} => task[c].lsn \in topic \cup pending
        /\ call[c] = "ok" => task[c].lsn \in topic
        /\ task[c].at \in {"ack", "commit"} => task[c].lsn \in topic

SinkInv == Shape /\ LsnsWritten /\ CallsTracked /\ NothingForgotten /\ AcknowledgedDelivered

(* What is replayed is in the log.                                         *)
ReplayWritten ==
    replay \in [on : BOOLEAN, batch : SUBSET (1..Len(wal)), left : SUBSET (1..Len(wal)),
                any : BOOLEAN, attempt : Nat]

(* The inductive invariant.                                                *)
IInv == SinkInv /\ ReplayWritten

LEMMA InitInv == Init => IInv
BY DEF Init, IInv, SinkInv, ReplayWritten, NoReplay, Shape, LsnsWritten, CallsTracked, NothingForgotten,
       AcknowledgedDelivered, Idle, Stage, Breaker!Init, Breaker!CallStage

-----------------------------------------------------------------------------
(* What the breaker's actions do to the stage of the call.                 *)
LEMMA BreakerCall ==
    ASSUME NEW c \in Callers, Breaker!Call(c)
    PROVE  /\ call[c] = "idle"
           /\ \E x \in {"sending", "rejected"} : call' = [call EXCEPT ![c] = x]
BY DEF Breaker!Call, Breaker!AdmitClosed, Breaker!AdmitAfterTimeout, Breaker!AdmitProbe,
       Breaker!Reject

(* What every step keeps that leaves log, tracker, topic and history alone *)
(* and moves no call: the invariant.                                       *)
LEMMA Frame ==
    ASSUME SinkInv,
           UNCHANGED <<wal, task, call, pending, acknowledged, topic, accepted, bootLsn,
                       committed_lsn>>
    PROVE  SinkInv'
BY DEF SinkInv, Shape, LsnsWritten, CallsTracked, NothingForgotten, AcknowledgedDelivered

(* Steps inside the breaker.                                               *)
LEMMA BreakerSteps ==
    ASSUME SinkInv, NEW c \in Callers, CallBreaker(c) \/ SendReturns(c) \/ SendSucceeded(c)
    PROVE  SinkInv'
<1>1. CASE CallBreaker(c)
  <2>1. PICK x \in {"sending", "rejected"} : call' = [call EXCEPT ![c] = x]
    BY <1>1, BreakerCall DEF CallBreaker
  <2>2. /\ task' = [task EXCEPT ![c].at = "calling"] /\ task[c].at = "send"
        /\ UNCHANGED <<wal, committed_lsn, pending, acknowledged, topic, accepted, bootLsn>>
    BY <1>1 DEF CallBreaker, tracker, history
  <2> QED  BY <2>1, <2>2 DEF SinkInv, Shape, LsnsWritten, CallsTracked, NothingForgotten,
                AcknowledgedDelivered, Stage, Breaker!CallStage
<1>2. CASE SendReturns(c)
  <2>1. PICK x \in {"ok", "err"} : /\ call' = [call EXCEPT ![c] = x]
                                   /\ x = "ok" => task[c].lsn \in topic
    BY <1>2 DEF SendReturns, Breaker!Finish
  <2>2. /\ call[c] = "sending"
        /\ UNCHANGED <<wal, task, committed_lsn, pending, acknowledged, topic, accepted, bootLsn>>
    BY <1>2 DEF SendReturns, tracker, history, Breaker!Finish
  <2> QED  BY <2>1, <2>2 DEF SinkInv, Shape, LsnsWritten, CallsTracked, NothingForgotten,
                AcknowledgedDelivered, Breaker!CallStage
<1>3. CASE SendSucceeded(c)
  <2>1. /\ call[c] = "ok" /\ call' = [call EXCEPT ![c] = "idle"]
        /\ task' = [task EXCEPT ![c].at = "ack"]
        /\ UNCHANGED <<wal, committed_lsn, pending, acknowledged, topic, accepted, bootLsn>>
    BY <1>3 DEF SendSucceeded, tracker, history, Breaker!RecordSuccess
  <2> QED  BY <2>1 DEF SinkInv, Shape, LsnsWritten, CallsTracked, NothingForgotten,
                AcknowledgedDelivered, Stage, Breaker!CallStage
<1> QED  BY <1>1, <1>2, <1>3

(* Steps that end a call: its event becomes accepted, and is in Kafka or   *)
(* pending.                                                                *)
LEMMA ReturningSteps ==
    ASSUME SinkInv, NEW c \in Callers,
           SendFailed(c) \/ SendRejected(c) \/ CommitWal(c)
    PROVE  SinkInv'
<1>1. /\ task' = [task EXCEPT ![c] = Idle] /\ accepted' = accepted \cup {task[c].lsn}
      /\ UNCHANGED <<wal, pending, acknowledged, topic, bootLsn>>
  BY DEF SendFailed, SendRejected, CommitWal, Return, AfterFailure, tracker
<1>2. /\ call' = [call EXCEPT ![c] = "idle"] /\ task[c].at \in {"calling", "commit"}
      /\ committed_lsn' \in {committed_lsn, task[c].lsn}
      /\ committed_lsn' # committed_lsn => task[c].at = "commit"
  <2>1. CASE SendFailed(c) \/ SendRejected(c)
    BY <2>1 DEF SendFailed, SendRejected, Breaker!RecordFailure, Breaker!ReturnRejected,
                SinkInv, CallsTracked
  <2>2. CASE CommitWal(c)
    BY <2>2 DEF CommitWal, breaker, SinkInv, CallsTracked, Shape
  <2> QED  BY <2>1, <2>2
<1>3. task[c].lsn \in topic \cup pending
  BY <1>2 DEF SinkInv, CallsTracked
<1>4. task[c].lsn \in 0..Len(wal)
  BY DEF SinkInv, LsnsWritten
<1>5. Shape'
  <2>1. Idle \in [at : Stage, event : Events \cup {NoEvent}, lsn : Nat]
    BY DEF Idle, Stage
  <2>2. task[c].lsn \in Nat
    BY DEF SinkInv, Shape
  <2> QED  BY <1>1, <1>2, <2>1, <2>2 DEF SinkInv, Shape, Idle, Breaker!CallStage
<1>6. LsnsWritten'
  <2>1. 0 \in 0..Len(wal)
    BY DEF SinkInv, Shape
  <2> QED  BY <1>1, <1>4, <2>1 DEF SinkInv, Shape, LsnsWritten, Idle
<1>7. CallsTracked'
  BY <1>1, <1>2 DEF SinkInv, Shape, CallsTracked, Idle
<1>8. NothingForgotten'
  BY <1>1, <1>3 DEF SinkInv, NothingForgotten
<1>9. AcknowledgedDelivered'
  <2>1. task[c].at = "commit" => task[c].lsn \in topic
    BY DEF SinkInv, CallsTracked
  <2> QED  BY <1>1, <1>2, <2>1 DEF SinkInv, AcknowledgedDelivered
<1> QED  BY <1>5, <1>6, <1>7, <1>8, <1>9 DEF SinkInv

(* Steps before the breaker, and the acknowledgment.                       *)
LEMMA TaskSteps ==
    ASSUME SinkInv, NEW c \in Callers,
           \/ \E e \in Events : Submit(c, e) /\ UNCHANGED <<breaker, wal, committed_lsn, tracker,
                                                           topic, history>>
           \/ BackpressureOver(c) \/ WalFails(c) \/ MarkAcknowledged(c)
    PROVE  SinkInv'
<1>1. CASE \E e \in Events : Submit(c, e) /\ UNCHANGED <<breaker, wal, committed_lsn, tracker,
                                                        topic, history>>
  <2>1. PICK e \in Events, x \in {"sleep", "write"} :
            task' = [task EXCEPT ![c] = [at |-> x, event |-> e, lsn |-> 0]]
    BY <1>1 DEF Submit
  <2>2. /\ task[c].at = "idle"
        /\ UNCHANGED <<call, wal, committed_lsn, pending, acknowledged, topic, accepted, bootLsn>>
    BY <1>1 DEF Submit, Idle, breaker, tracker, history
  <2>3. call[c] = "idle"
    BY <2>2 DEF SinkInv, CallsTracked
  <2>4. 0 \in 0..Len(wal)
    BY DEF SinkInv, Shape
  <2> QED  BY <2>1, <2>2, <2>3, <2>4 DEF SinkInv, Shape, LsnsWritten, CallsTracked,
                NothingForgotten, AcknowledgedDelivered, Stage
<1>2. CASE BackpressureOver(c)
  <2>1. /\ task[c].at = "sleep" /\ task' = [task EXCEPT ![c].at = "write"]
        /\ UNCHANGED <<call, wal, committed_lsn, pending, acknowledged, topic, accepted, bootLsn>>
    BY <1>2 DEF BackpressureOver, breaker, tracker, history
  <2> QED  BY <2>1 DEF SinkInv, Shape, LsnsWritten, CallsTracked, NothingForgotten,
                AcknowledgedDelivered, Stage
<1>3. CASE WalFails(c)
  <2>1. /\ task[c].at = "write" /\ task' = [task EXCEPT ![c] = Idle]
        /\ wal' \in {wal, Append(wal, task[c].event)}
        /\ UNCHANGED <<call, committed_lsn, pending, acknowledged, topic, accepted, bootLsn>>
    BY <1>3 DEF WalFails, breaker, tracker, history
  <2>w. wal \in Seq(Events) /\ Len(wal) \in Nat /\ task[c].event \in Events
    BY <2>1 DEF SinkInv, Shape
  <2>2. wal' \in Seq(Events) /\ Len(wal') \in Nat /\ Len(wal') >= Len(wal)
    <3>1. CASE wal' = wal
      BY <2>w, <3>1
    <3>2. CASE wal' = Append(wal, task[c].event)
      BY <2>w, <3>2
    <3> QED  BY <2>1, <3>1, <3>2
  <2>3. call[c] = "idle"
    BY <2>1 DEF SinkInv, CallsTracked
  <2>4. 0..Len(wal) \subseteq 0..Len(wal') /\ 0 \in 0..Len(wal')
    BY <2>2 DEF SinkInv, Shape
  <2> QED  BY <2>1, <2>2, <2>3, <2>4 DEF SinkInv, Shape, LsnsWritten, CallsTracked,
                NothingForgotten, AcknowledgedDelivered, Stage, Idle
<1>4. CASE MarkAcknowledged(c)
  <2>1. /\ task[c].at = "ack" /\ task' = [task EXCEPT ![c].at = "commit"]
        /\ pending' = pending \ {task[c].lsn}
        /\ acknowledged' = acknowledged \cup {task[c].lsn}
        /\ UNCHANGED <<call, wal, committed_lsn, topic, accepted, bootLsn>>
    BY <1>4 DEF MarkAcknowledged, Acknowledges, breaker, history
  <2>2. task[c].lsn \in topic
    BY <2>1 DEF SinkInv, CallsTracked
  <2> QED  BY <2>1, <2>2 DEF SinkInv, Shape, LsnsWritten, CallsTracked, NothingForgotten,
                AcknowledgedDelivered, Stage
<1> QED  BY <1>1, <1>2, <1>3, <1>4

(* The write to the log.                                                   *)
LEMMA WriteStep ==
    ASSUME SinkInv, NEW c \in Callers, WriteToWal(c)
    PROVE  SinkInv'
<1> DEFINE lsn == Len(wal) + 1
<1>1. /\ task[c].at = "write" /\ task' = [task EXCEPT ![c].at = "send", ![c].lsn = lsn]
      /\ wal' = Append(wal, task[c].event) /\ pending' = pending \cup {lsn}
      /\ UNCHANGED <<call, committed_lsn, acknowledged, topic, accepted, bootLsn>>
  BY DEF WriteToWal, breaker, history
<1>2. wal' \in Seq(Events) /\ Len(wal') = lsn /\ Len(wal) \in Nat /\ lsn \in Nat
  BY <1>1 DEF SinkInv, Shape
<1>3. call[c] = "idle"
  BY <1>1 DEF SinkInv, CallsTracked
<1>4. 0..Len(wal) \subseteq 0..Len(wal') /\ lsn \in 0..Len(wal')
  BY <1>2
<1> HIDE DEF lsn
<1> QED  BY <1>1, <1>2, <1>3, <1>4 DEF SinkInv, Shape, LsnsWritten, CallsTracked,
              NothingForgotten, AcknowledgedDelivered, Stage

(* Every step keeps it.                                                    *)
LEMMA SinkNext == IInv /\ [Next]_vars => SinkInv'
<1> SUFFICES ASSUME SinkInv, ReplayWritten, [Next]_vars PROVE SinkInv'
  BY DEF IInv
<1>1. ASSUME NEW s \in Senders, NEW e \in Events, SendBegin(s, e) PROVE SinkInv'
  BY <1>1, TaskSteps DEF SendBegin, Callers
<1>2. ASSUME NEW c \in Callers, BackpressureOver(c) \/ WalFails(c) \/ MarkAcknowledged(c)
      PROVE  SinkInv'
  BY <1>2, TaskSteps
<1>3. ASSUME NEW c \in Callers, WriteToWal(c) PROVE SinkInv'
  BY <1>3, WriteStep
<1>4. ASSUME NEW c \in Callers, CallBreaker(c) \/ SendReturns(c) \/ SendSucceeded(c)
      PROVE  SinkInv'
  BY <1>4, BreakerSteps
<1>5. ASSUME NEW c \in Callers, SendFailed(c) \/ SendRejected(c) \/ CommitWal(c)
      PROVE  SinkInv'
  BY <1>5, ReturningSteps
<1>6. ASSUME NEW c \in Callers, KafkaStores(c) PROVE SinkInv'
  <2>1. /\ topic' = topic \cup {task[c].lsn}
        /\ UNCHANGED <<wal, task, call, pending, acknowledged, accepted, bootLsn, committed_lsn>>
    BY <1>6 DEF KafkaStores, breaker, tracker, history
  <2> QED  BY <2>1 DEF SinkInv, Shape, LsnsWritten, CallsTracked, NothingForgotten,
                AcknowledgedDelivered
<1>7. CASE CleanupAcknowledged
  <2>1. /\ acknowledged' \subseteq acknowledged
        /\ UNCHANGED <<wal, task, call, pending, topic, accepted, bootLsn, committed_lsn>>
    BY <1>7 DEF CleanupAcknowledged, breaker, history
  <2> QED  BY <2>1 DEF SinkInv, Shape, LsnsWritten, CallsTracked, NothingForgotten,
                AcknowledgedDelivered
<1>8. CASE ReplayBegin \/ ReplayEnd \/ UNCHANGED vars
  BY <1>8, Frame DEF ReplayBegin, ReplayEnd, vars, breaker, tracker, history
<1>9. CASE ReplayNext
  <2>1. PICK l \in replay.left :
            Submit(Replayer, wal[l]) /\ UNCHANGED <<breaker, wal, committed_lsn, tracker,
                                                     topic, history>>
    BY <1>9 DEF ReplayNext
  <2>2. wal[l] \in Events
    BY <2>1 DEF SinkInv, Shape, ReplayWritten
  <2> QED  BY <2>1, <2>2, TaskSteps DEF Callers
<1>10. CASE Restart
  <2>1. /\ bootLsn' = Len(wal) /\ pending' = {} /\ acknowledged' = {}
        /\ task' = [c \in Callers |-> Idle] /\ call' = [c \in Callers |-> "idle"]
        /\ UNCHANGED <<wal, committed_lsn, topic, accepted>>
    BY <1>10 DEF Restart
  <2>2. Len(wal) \in Nat
    BY DEF SinkInv, Shape
  <2>3. \A l \in accepted : ~(l > Len(wal))
    BY <2>2 DEF SinkInv, LsnsWritten
  <2> QED  BY <2>1, <2>2, <2>3 DEF SinkInv, Shape, LsnsWritten, CallsTracked, NothingForgotten,
                AcknowledgedDelivered, Stage, Idle, Breaker!CallStage
<1>11. CASE Environment
  BY <1>11, Frame DEF Environment, tracker, history, Breaker!TimeoutExpires,
                      Breaker!BrokerFails, Breaker!BrokerRecovers
<1> QED  BY <1>1, <1>2, <1>3, <1>4, <1>5, <1>6, <1>7, <1>8, <1>9, <1>10, <1>11 DEF Next

(* The log only grows, so what is replayed stays in it.                    *)
LEMMA ReplayNextInv == IInv /\ [Next]_vars => ReplayWritten'
<1> SUFFICES ASSUME SinkInv, ReplayWritten, [Next]_vars PROVE ReplayWritten'
  BY DEF IInv
<1>1. wal' = wal \/ \E c \in Callers : wal' = Append(wal, task[c].event) /\ task[c].event \in Events
  BY DEF SinkInv, Shape, Next, vars, SendBegin, BackpressureOver, WriteToWal, WalFails,
         CallBreaker, KafkaStores, SendReturns, SendSucceeded, SendFailed, SendRejected,
         MarkAcknowledged, CommitWal, CleanupAcknowledged, ReplayBegin, ReplayNext,
         ReplayEnd, Restart, Environment
<1>2. Len(wal) \in Nat /\ Len(wal') \in Nat /\ Len(wal') >= Len(wal)
  BY <1>1 DEF SinkInv, Shape
<1>3. 1..Len(wal) \subseteq 1..Len(wal')
  BY <1>2
<1> DEFINE R == [on : BOOLEAN, batch : SUBSET (1..Len(wal)), left : SUBSET (1..Len(wal)),
                any : BOOLEAN, attempt : Nat]
<1>4. replay \in R
  BY DEF ReplayWritten
<1>5. NoReplay \in R
  BY DEF NoReplay
<1>6. replay' \in R
  <2>1. ASSUME NEW c \in Callers, Return(c) PROVE replay' \in R
    <3> DEFINE b == replay.any \/ c = Replayer
    <3>1. b \in BOOLEAN
      OBVIOUS
    <3>2. replay' = [replay EXCEPT !.any = b]
      BY <2>1 DEF Return
    <3> HIDE DEF b
    <3> QED  BY <1>4, <3>1, <3>2
  <2>2. CASE ReplayBegin
    <3>1. pending \in SUBSET (1..Len(wal))
      BY DEF SinkInv, LsnsWritten
    <3> QED  BY <1>5, <2>2, <3>1 DEF ReplayBegin
  <2>3. CASE ReplayNext
    BY <1>4, <2>3 DEF ReplayNext
  <2>4. CASE ReplayEnd
    <3>1. replay.batch \in SUBSET (1..Len(wal)) /\ replay.attempt + 1 \in Nat
      BY <1>4
    <3>2. [replay EXCEPT !.left = replay.batch, !.attempt = replay.attempt + 1] \in R
      BY <1>4, <3>1
    <3> QED  BY <1>5, <2>4, <3>2 DEF ReplayEnd
  <2>5. CASE Restart
    BY <1>5, <2>5 DEF Restart
  <2>6. \/ UNCHANGED replay \/ ReplayBegin \/ ReplayNext \/ ReplayEnd \/ Restart
        \/ \E c \in Callers : Return(c)
    BY DEF Next, vars, SendBegin, BackpressureOver, WriteToWal, WalFails,
         CallBreaker, KafkaStores, SendReturns, SendSucceeded, SendFailed, SendRejected,
         MarkAcknowledged, CommitWal, CleanupAcknowledged, Environment, recovery
  <2> HIDE DEF R
  <2> QED  BY <1>4, <2>1, <2>2, <2>3, <2>4, <2>5, <2>6
<1> QED  BY <1>3, <1>6 DEF ReplayWritten

LEMMA NextInv == IInv /\ [Next]_vars => IInv'
BY SinkNext, ReplayNextInv DEF IInv

(* The invariant holds in every reachable state.                           *)
THEOREM Invariance == Spec => []IInv
BY InitInv, NextInv, PTL DEF Spec

(* send_with_durability: while the process lives, an event whose call      *)
(* returned Ok is in Kafka or pending in the acknowledgment tracker.       *)
THEOREM ForgetsNothing == Spec => []NothingForgotten
<1>1. IInv => NothingForgotten
  BY DEF IInv, SinkInv
<1> QED  BY <1>1, Invariance, PTL

(* mark_acknowledged: acknowledgments and the committed LSN stand for      *)
(* records that Kafka has.                                                 *)
THEOREM AcknowledgmentsHonest == Spec => []AcknowledgedDelivered
<1>1. IInv => AcknowledgedDelivered
  BY DEF IInv, SinkInv
<1> QED  BY <1>1, Invariance, PTL

-----------------------------------------------------------------------------
(* The types with their bounds.                                            *)

(* The breaker's variables.                                                *)
LEMMA BreakerTypes ==
    ASSUME Breaker!TypeOK, [Next]_vars
    PROVE  Breaker!TypeOK'
<1> USE DEF Breaker!TypeOK, Breaker!CircuitState, Breaker!CallStage, Breaker!breakerVars
<1>c. /\ FailureThreshold \in Nat /\ HalfOpenMaxRequests \in Nat /\ HalfOpenMaxRequests >= 1
  BY SinkAssumption
<1>1. ASSUME NEW c \in Callers, CallBreaker(c) PROVE Breaker!TypeOK'
  <2>1. CASE Breaker!AdmitClosed(c) \/ Breaker!Reject(c)
    BY <2>1 DEF Breaker!AdmitClosed, Breaker!Reject
  <2>2. CASE Breaker!AdmitAfterTimeout(c)
    BY <1>c, <2>2 DEF Breaker!AdmitAfterTimeout, Breaker!SlotsOnEntry
  <2>3. CASE Breaker!AdmitProbe(c)
    BY <1>c, <2>3 DEF Breaker!AdmitProbe
  <2> QED  BY <1>1, <2>1, <2>2, <2>3 DEF CallBreaker, Breaker!Call
<1>2. ASSUME NEW c \in Callers, SendReturns(c) \/ SendRejected(c) PROVE Breaker!TypeOK'
  BY <1>2 DEF SendReturns, SendRejected, Breaker!Finish, Breaker!ReturnRejected
<1>3. ASSUME NEW c \in Callers, SendSucceeded(c) PROVE Breaker!TypeOK'
  BY <1>3, <1>c DEF SendSucceeded, Breaker!RecordSuccess, Breaker!SaturatingDec
<1>4. ASSUME NEW c \in Callers, SendFailed(c) PROVE Breaker!TypeOK'
  BY <1>4, <1>c DEF SendFailed, Breaker!RecordFailure, Breaker!SaturatingDec,
                    Breaker!FailuresOnReopen, Breaker!OpenedOnReopen
<1>5. CASE Environment
  BY <1>5 DEF Environment, Breaker!TimeoutExpires, Breaker!BrokerFails, Breaker!BrokerRecovers
<1>6. CASE Restart
  BY <1>6, <1>c DEF Restart
<1>7. CASE UNCHANGED breaker
  BY <1>7 DEF breaker
<1>8. \/ Environment \/ Restart \/ UNCHANGED breaker
      \/ \E c \in Callers : CallBreaker(c) \/ SendReturns(c) \/ SendRejected(c)
                              \/ SendSucceeded(c) \/ SendFailed(c)
  BY DEF Next, vars, breaker, SendBegin, BackpressureOver, WriteToWal, WalFails, KafkaStores,
         MarkAcknowledged, CommitWal, CleanupAcknowledged, ReplayBegin, ReplayNext, ReplayEnd
<1> QED  BY <1>1, <1>2, <1>3, <1>4, <1>5, <1>6, <1>7, <1>8

(* A call that is about to write has its place in the log.                 *)
Room == Len(wal) + Cardinality(Writing) <= MaxLsn

LEMMA WritingFinite == IsFiniteSet(Writing) /\ Cardinality(Writing) \in Nat
<1>1. IsFiniteSet(Callers)
  BY SinkAssumption, FS_AddElement DEF Callers
<1>2. Writing \in SUBSET Callers
  BY DEF Writing
<1> QED  BY <1>1, <1>2, FS_Subset, FS_CardinalityType

LEMMA RoomSubmit ==
    ASSUME SinkInv, Room, NEW c \in Callers, NEW e, Submit(c, e), wal' = wal
    PROVE  Room'
<1>1. PICK x \in {"sleep", "write"} :
          task' = [task EXCEPT ![c] = [at |-> x, event |-> e, lsn |-> 0]]
  BY DEF Submit
<1>2. task[c].at = "idle" /\ Len(wal) + Cardinality(Writing) < MaxLsn
  BY DEF Submit, Idle
<1>3. Writing' = Writing \cup {c} /\ c \notin Writing
  BY <1>1, <1>2 DEF Writing, SinkInv, Shape
<1>4. Cardinality(Writing') = Cardinality(Writing) + 1
  BY <1>3, WritingFinite, FS_AddElement
<1>5. Len(wal) \in Nat /\ MaxLsn \in Nat /\ Cardinality(Writing) \in Nat
  BY SinkAssumption, WritingFinite DEF SinkInv, Shape
<1> QED  BY <1>2, <1>4, <1>5 DEF Room

LEMMA RoomWrite ==
    ASSUME SinkInv, Room, NEW c \in Callers, task[c].at = "write",
           wal' \in {wal, Append(wal, task[c].event)},
           NEW x \in Stage \ {"sleep", "write"},
           NEW t, t.at = x, task' = [task EXCEPT ![c] = t]
    PROVE  Room'
<1>1. Writing' = Writing \ {c} /\ c \in Writing
  BY DEF Writing, SinkInv, Shape
<1>2. Cardinality(Writing') = Cardinality(Writing) - 1
  BY <1>1, WritingFinite, FS_RemoveElement
<1>3. Len(wal) \in Nat /\ MaxLsn \in Nat /\ Cardinality(Writing) \in Nat
  BY SinkAssumption, WritingFinite DEF SinkInv, Shape
<1>4. Len(wal') \in {Len(wal), Len(wal) + 1}
  BY DEF SinkInv, Shape
<1> QED  BY <1>2, <1>3, <1>4 DEF Room

LEMMA RoomStep == IInv /\ Room /\ [Next]_vars => Room'
<1> SUFFICES ASSUME SinkInv, Room, [Next]_vars PROVE Room'
  BY DEF IInv
<1>1. ASSUME NEW s \in Senders, NEW e \in Events, SendBegin(s, e) PROVE Room'
  BY <1>1, RoomSubmit DEF SendBegin, Callers
<1>2. CASE ReplayNext
  BY <1>2, RoomSubmit DEF ReplayNext, Callers
<1>3. ASSUME NEW c \in Callers, WriteToWal(c) PROVE Room'
  <2> DEFINE t == [task[c] EXCEPT !.at = "send", !.lsn = Len(wal) + 1]
  <2>1. task[c].at = "write" /\ wal' = Append(wal, task[c].event)
    BY <1>3 DEF WriteToWal
  <2>2. task' = [task EXCEPT ![c] = t] /\ t.at = "send"
    BY <1>3 DEF WriteToWal, SinkInv, Shape
  <2> HIDE DEF t
  <2> QED  BY <2>1, <2>2, RoomWrite DEF Stage
<1>4. ASSUME NEW c \in Callers, WalFails(c) PROVE Room'
  <2>1. /\ task[c].at = "write" /\ wal' \in {wal, Append(wal, task[c].event)}
        /\ task' = [task EXCEPT ![c] = Idle] /\ Idle.at = "idle"
    BY <1>4 DEF WalFails, Idle
  <2> QED  BY <2>1, RoomWrite DEF Stage
<1>5. ASSUME wal' = wal, Writing' = Writing PROVE Room'
  BY <1>5 DEF Room
<1>6. ASSUME NEW c \in Callers, BackpressureOver(c) PROVE Room'
  <2>1. wal' = wal /\ task[c].at = "sleep" /\ task' = [task EXCEPT ![c].at = "write"]
    BY <1>6 DEF BackpressureOver
  <2>2. Writing' = Writing
    BY <2>1 DEF Writing, SinkInv, Shape
  <2> QED  BY <1>5, <2>1, <2>2
<1>7. ASSUME NEW c \in Callers, CallBreaker(c) \/ SendSucceeded(c) \/ MarkAcknowledged(c)
      PROVE  Room'
  <2>1. /\ wal' = wal /\ task[c].at \notin {"sleep", "write"}
        /\ \E x \in {"calling", "ack", "commit"} : task' = [task EXCEPT ![c].at = x]
    BY <1>7 DEF CallBreaker, SendSucceeded, MarkAcknowledged, Breaker!RecordSuccess,
                SinkInv, CallsTracked
  <2>2. Writing' = Writing
    BY <2>1 DEF Writing, SinkInv, Shape
  <2> QED  BY <1>5, <2>1, <2>2
<1>8. ASSUME NEW c \in Callers, SendFailed(c) \/ SendRejected(c) \/ CommitWal(c) PROVE Room'
  <2>1. /\ wal' = wal /\ task[c].at \notin {"sleep", "write"}
        /\ task' = [task EXCEPT ![c] = Idle]
    BY <1>8 DEF SendFailed, SendRejected, CommitWal, Return, Breaker!RecordFailure,
                Breaker!ReturnRejected, SinkInv, CallsTracked
  <2>2. Writing' = Writing
    BY <2>1 DEF Writing, SinkInv, Shape, Idle
  <2> QED  BY <1>5, <2>1, <2>2
<1>9. CASE Restart
  <2>1. Writing' = {} /\ wal' = wal
    BY <1>9 DEF Restart, Writing, Idle
  <2>2. Cardinality(Writing') = 0
    BY <2>1, FS_EmptySet
  <2>3. Len(wal) \in Nat /\ MaxLsn \in Nat /\ Cardinality(Writing) \in Nat
    BY SinkAssumption, WritingFinite DEF SinkInv, Shape
  <2> QED  BY <2>1, <2>2, <2>3 DEF Room
<1>10. CASE UNCHANGED <<wal, task>>
  BY <1>5, <1>10 DEF Writing
<1>11. \/ UNCHANGED <<wal, task>> \/ Restart \/ ReplayNext
       \/ \E s \in Senders, e \in Events : SendBegin(s, e)
       \/ \E c \in Callers : \/ WriteToWal(c) \/ WalFails(c) \/ BackpressureOver(c)
                             \/ CallBreaker(c) \/ SendSucceeded(c) \/ MarkAcknowledged(c)
                             \/ SendFailed(c) \/ SendRejected(c) \/ CommitWal(c)
  BY DEF Next, vars, KafkaStores, SendReturns, CleanupAcknowledged, ReplayBegin, ReplayEnd,
         Environment
<1> QED  BY <1>1, <1>2, <1>3, <1>4, <1>6, <1>7, <1>8, <1>9, <1>10, <1>11

(* Whatever is sent, stored, acknowledged, accepted or committed has been  *)
(* given a number by the log.                                              *)
Numbered ==
    /\ acknowledged \subseteq 1..Len(wal) /\ topic \subseteq 1..Len(wal)
    /\ accepted \subseteq 1..Len(wal)
    /\ committed_lsn \in 0..Len(wal) /\ bootLsn \in 0..Len(wal)
    /\ \A c \in Callers : task[c].at \in {"send", "calling", "ack", "commit"} => task[c].lsn # 0

LEMMA NumberedStep == IInv /\ Numbered /\ [Next]_vars => Numbered'
<1> SUFFICES ASSUME SinkInv, Numbered, [Next]_vars PROVE Numbered'
  BY DEF IInv
<1>0. /\ Len(wal) \in Nat /\ wal \in Seq(Events)
      /\ \A c \in Callers : task[c].at \in {"send", "calling", "ack", "commit"}
                              => task[c].lsn \in 1..Len(wal)
  <2>1. Len(wal) \in Nat /\ wal \in Seq(Events)
    BY DEF SinkInv, Shape
  <2>2. \A c \in Callers : task[c].lsn \in 0..Len(wal)
    BY DEF SinkInv, LsnsWritten
  <2> QED  BY <2>1, <2>2 DEF Numbered
<1>1. ASSUME NEW c \in Callers, NEW e \in Events,
             Submit(c, e), UNCHANGED <<wal, acknowledged, topic, accepted, committed_lsn, bootLsn>>
      PROVE  Numbered'
  <2>1. PICK x \in {"sleep", "write"} :
            task' = [task EXCEPT ![c] = [at |-> x, event |-> e, lsn |-> 0]]
    BY <1>1 DEF Submit
  <2> QED  BY <1>1, <2>1 DEF Numbered, SinkInv, Shape
<1>2. ASSUME NEW s \in Senders, NEW e \in Events, SendBegin(s, e) PROVE Numbered'
  BY <1>1, <1>2 DEF SendBegin, Callers, tracker, history
<1>3. CASE ReplayNext
  <2>1. PICK l \in replay.left : /\ Submit(Replayer, wal[l])
                                 /\ UNCHANGED <<wal, acknowledged, topic, accepted,
                                                committed_lsn, bootLsn>>
    BY <1>3 DEF ReplayNext, tracker, history
  <2>2. PICK x \in {"sleep", "write"} :
            task' = [task EXCEPT ![Replayer] = [at |-> x, event |-> wal[l], lsn |-> 0]]
    BY <2>1 DEF Submit
  <2>3. Replayer \in Callers
    BY DEF Callers
  <2> QED  BY <2>1, <2>2, <2>3 DEF Numbered, SinkInv, Shape
<1>4. ASSUME NEW c \in Callers, WriteToWal(c) \/ WalFails(c) PROVE Numbered'
  <2>1. task[c].event \in Events
    BY <1>4 DEF WriteToWal, WalFails, SinkInv, Shape
  <2>2. Len(wal') \in {Len(wal), Len(wal) + 1}
    BY <1>0, <1>4, <2>1 DEF WriteToWal, WalFails
  <2>3. 1..Len(wal) \subseteq 1..Len(wal') /\ 0..Len(wal) \subseteq 0..Len(wal')
    BY <1>0, <2>2
  <2>4. UNCHANGED <<acknowledged, topic, accepted, committed_lsn, bootLsn>>
    BY <1>4 DEF WriteToWal, WalFails, tracker, history
  <2>5. \A d \in Callers : task'[d].at \in {"send", "calling", "ack", "commit"} => task'[d].lsn # 0
    <3>1. CASE WriteToWal(c)
      <4>1. task' = [task EXCEPT ![c].at = "send", ![c].lsn = Len(wal) + 1] /\ Len(wal) + 1 # 0
        BY <1>0, <3>1 DEF WriteToWal
      <4> QED  BY <4>1 DEF Numbered, SinkInv, Shape
    <3>2. CASE WalFails(c)
      <4>1. task' = [task EXCEPT ![c] = Idle]
        BY <3>2 DEF WalFails
      <4> QED  BY <4>1 DEF Idle, Numbered, SinkInv, Shape
    <3> QED  BY <1>4, <3>1, <3>2
  <2> QED  BY <2>3, <2>4, <2>5 DEF Numbered
<1>5. ASSUME NEW c \in Callers, BackpressureOver(c) PROVE Numbered'
  <2>1. /\ task' = [task EXCEPT ![c].at = "write"]
        /\ UNCHANGED <<wal, acknowledged, topic, accepted, committed_lsn, bootLsn>>
    BY <1>5 DEF BackpressureOver, tracker, history
  <2> QED  BY <2>1 DEF Numbered, SinkInv, Shape
<1>6. ASSUME NEW c \in Callers, CallBreaker(c) \/ SendSucceeded(c) PROVE Numbered'
  <2>1. /\ task[c].at \in {"send", "calling"}
        /\ \E x \in {"calling", "ack"} : task' = [task EXCEPT ![c].at = x]
        /\ UNCHANGED <<wal, acknowledged, topic, accepted, committed_lsn, bootLsn>>
    BY <1>6 DEF CallBreaker, SendSucceeded, Breaker!RecordSuccess, SinkInv, CallsTracked,
                tracker, history
  <2> QED  BY <1>0, <2>1 DEF Numbered, SinkInv, Shape
<1>7. ASSUME NEW c \in Callers, KafkaStores(c) PROVE Numbered'
  <2>1. /\ task[c].at = "calling" /\ topic' = topic \cup {task[c].lsn}
        /\ UNCHANGED <<wal, task, acknowledged, accepted, committed_lsn, bootLsn>>
    BY <1>7 DEF KafkaStores, SinkInv, CallsTracked, tracker, history
  <2>2. task[c].lsn \in 1..Len(wal)
    BY <1>0, <2>1
  <2> QED  BY <2>1, <2>2 DEF Numbered
<1>8. ASSUME NEW c \in Callers, MarkAcknowledged(c) PROVE Numbered'
  <2>1. /\ task[c].at = "ack" /\ acknowledged' = acknowledged \cup {task[c].lsn}
        /\ task' = [task EXCEPT ![c].at = "commit"]
        /\ UNCHANGED <<wal, topic, accepted, committed_lsn, bootLsn>>
    BY <1>8 DEF MarkAcknowledged, Acknowledges, history
  <2>2. task[c].lsn \in 1..Len(wal)
    BY <1>0, <2>1
  <2> QED  BY <1>0, <2>1, <2>2 DEF Numbered, SinkInv, Shape
<1>9. ASSUME NEW c \in Callers, SendFailed(c) \/ SendRejected(c) \/ CommitWal(c)
      PROVE  Numbered'
  <2>1. /\ task' = [task EXCEPT ![c] = Idle] /\ accepted' = accepted \cup {task[c].lsn}
        /\ committed_lsn' \in {committed_lsn, task[c].lsn}
        /\ UNCHANGED <<wal, acknowledged, topic, bootLsn>>
    BY <1>9 DEF SendFailed, SendRejected, CommitWal, Return, tracker
  <2>2. task[c].at \in {"calling", "commit"}
    BY <1>9 DEF SendFailed, SendRejected, CommitWal, Breaker!RecordFailure,
                Breaker!ReturnRejected, SinkInv, CallsTracked
  <2>3. task[c].lsn \in 1..Len(wal) /\ task[c].lsn \in 0..Len(wal)
    BY <1>0, <2>2
  <2> QED  BY <2>1, <2>3 DEF Numbered, SinkInv, Shape, Idle
<1>10. CASE CleanupAcknowledged
  <2>1. /\ acknowledged' \subseteq acknowledged
        /\ UNCHANGED <<wal, task, topic, accepted, committed_lsn, bootLsn>>
    BY <1>10 DEF CleanupAcknowledged, history
  <2> QED  BY <2>1 DEF Numbered
<1>11. CASE Restart
  <2>1. /\ bootLsn' = Len(wal) /\ acknowledged' = {} /\ task' = [c \in Callers |-> Idle]
        /\ UNCHANGED <<wal, topic, accepted, committed_lsn>>
    BY <1>11 DEF Restart
  <2>2. Len(wal) \in 0..Len(wal)
    BY <1>0
  <2> QED  BY <2>1, <2>2 DEF Numbered, Idle
<1>12. CASE UNCHANGED <<wal, task, acknowledged, topic, accepted, committed_lsn, bootLsn>>
  BY <1>12 DEF Numbered
<1>13. \/ UNCHANGED <<wal, task, acknowledged, topic, accepted, committed_lsn, bootLsn>>
       \/ CleanupAcknowledged \/ Restart \/ ReplayNext
       \/ \E s \in Senders, e \in Events : SendBegin(s, e)
       \/ \E c \in Callers : \/ WriteToWal(c) \/ WalFails(c) \/ BackpressureOver(c)
                             \/ CallBreaker(c) \/ SendSucceeded(c) \/ KafkaStores(c)
                             \/ MarkAcknowledged(c)
                             \/ SendFailed(c) \/ SendRejected(c) \/ CommitWal(c)
  BY DEF Next, vars, tracker, history, SendReturns, ReplayBegin, ReplayEnd, Environment
<1> QED  BY <1>2, <1>3, <1>4, <1>5, <1>6, <1>7, <1>8, <1>9, <1>10, <1>11, <1>12, <1>13

(* The counters stay below their limits; that attempt does is the check in *)
(* replay_batch_with_retry.                                                *)
Limits ==
    replay.attempt \in 0..MaxAttempts /\ replays \in 0..MaxReplays /\ boot \in 0..MaxBoot

LEMMA LimitsStep == IInv /\ Limits /\ [Next]_vars => Limits'
<1> SUFFICES ASSUME ReplayWritten, Limits, [Next]_vars PROVE Limits'
  BY DEF IInv
<1>0. /\ MaxAttempts \in Nat /\ MaxReplays \in Nat /\ MaxBoot \in Nat
      /\ replay.attempt \in Nat /\ NoReplay.attempt = 0
  BY SinkAssumption DEF ReplayWritten, NoReplay
<1>1. CASE ReplayBegin
  <2>1. /\ replay' = [NoReplay EXCEPT !.on = TRUE, !.batch = pending, !.left = pending]
        /\ replays < MaxReplays /\ replays' = replays + 1 /\ boot' = boot
    BY <1>1 DEF ReplayBegin
  <2>2. replay'.attempt = 0
    BY <2>1 DEF NoReplay
  <2> QED  BY <1>0, <2>1, <2>2 DEF Limits
<1>2. CASE ReplayNext
  <2>1. replay'.attempt = replay.attempt /\ replays' = replays /\ boot' = boot
    BY <1>2 DEF ReplayNext, ReplayWritten
  <2> QED  BY <2>1 DEF Limits
<1>3. CASE ReplayEnd
  <2>1. UNCHANGED <<replays, boot>>
    BY <1>3 DEF ReplayEnd
  <2>2. CASE Retries
    <3>1. replay'.attempt = replay.attempt + 1 /\ replay.attempt < MaxAttempts
      BY <1>3, <2>2 DEF ReplayEnd, Retries, ReplayWritten
    <3> QED  BY <1>0, <2>1, <3>1 DEF Limits
  <2>3. CASE ~Retries
    BY <1>0, <1>3, <2>1, <2>3 DEF ReplayEnd, Limits
  <2> QED  BY <2>2, <2>3
<1>4. CASE Restart
  BY <1>0, <1>4 DEF Restart, Limits
<1>5. ASSUME NEW c \in Callers, Return(c) PROVE Limits'
  <2>1. replay'.attempt = replay.attempt /\ replays' = replays /\ boot' = boot
    BY <1>5 DEF Return, ReplayWritten
  <2> QED  BY <2>1 DEF Limits
<1>6. CASE UNCHANGED <<replay, replays, boot>>
  BY <1>6 DEF Limits
<1>7. \/ UNCHANGED <<replay, replays, boot>> \/ ReplayBegin \/ ReplayNext \/ ReplayEnd \/ Restart
      \/ \E c \in Callers : Return(c)
  BY DEF Next, vars, SendBegin, BackpressureOver, WriteToWal, WalFails,
         CallBreaker, KafkaStores, SendReturns, SendSucceeded, SendFailed, SendRejected,
         MarkAcknowledged, CommitWal, CleanupAcknowledged, Environment, recovery
<1> QED  BY <1>1, <1>2, <1>3, <1>4, <1>5, <1>6, <1>7

TypeInv == IInv /\ Breaker!TypeOK /\ Room /\ Numbered /\ Limits

(* Every variable of sink, tracker, replay and breaker keeps its type: in  *)
(* particular the log never exceeds what submitted calls have reserved in  *)
(* it, every LSN in use is one the log has given, and a batch is tried at  *)
(* most max_retry_attempts times again.                                    *)
THEOREM TypeCorrect == Spec => []TypeOK
<1>1. Init => TypeInv
  <2> SUFFICES ASSUME Init PROVE TypeInv
    OBVIOUS
  <2>1. IInv
    BY InitInv
  <2>2. Breaker!TypeOK
    BY SinkAssumption DEF Init, Breaker!Init, Breaker!TypeOK, Breaker!CircuitState,
                          Breaker!CallStage
  <2>3. Room
    <3>1. Writing = {}
      BY DEF Init, Writing, Idle
    <3>2. Cardinality(Writing) = 0 /\ Len(wal) = 0 /\ MaxLsn \in Nat
      BY <3>1, SinkAssumption, FS_EmptySet DEF Init
    <3> QED  BY <3>2 DEF Room
  <2>4. Numbered
    BY DEF Init, Numbered, Idle
  <2>5. Limits
    BY SinkAssumption DEF Init, Limits, NoReplay
  <2> QED  BY <2>1, <2>2, <2>3, <2>4, <2>5 DEF TypeInv
<1>2. TypeInv /\ [Next]_vars => TypeInv'
  BY NextInv, BreakerTypes, RoomStep, NumberedStep, LimitsStep DEF TypeInv
<1>3. TypeInv => TypeOK
  <2> SUFFICES ASSUME TypeInv PROVE TypeOK
    OBVIOUS
  <2>1. /\ wal \in Seq(Events) /\ Len(wal) \in Nat /\ MaxLsn \in Nat
        /\ Cardinality(Writing) \in Nat
    BY SinkAssumption, WritingFinite DEF TypeInv, IInv, SinkInv, Shape
  <2>2. Len(wal) <= MaxLsn
    BY <2>1 DEF TypeInv, Room
  <2>3. 1..Len(wal) \subseteq Lsns /\ 0..Len(wal) \subseteq 0..MaxLsn
    BY <2>1, <2>2 DEF Lsns
  <2>4. /\ pending \subseteq Lsns /\ acknowledged \subseteq Lsns /\ topic \subseteq Lsns
        /\ accepted \subseteq Lsns /\ committed_lsn \in 0..MaxLsn /\ bootLsn \in 0..MaxLsn
    BY <2>3 DEF TypeInv, Numbered, IInv, SinkInv, LsnsWritten
  <2>5. task \in [Callers -> [at : Stage, event : Events \cup {NoEvent}, lsn : 0..MaxLsn]]
    <3>1. \A c \in Callers : task[c].lsn \in 0..MaxLsn
      BY <2>3 DEF TypeInv, IInv, SinkInv, LsnsWritten
    <3>2. task \in [Callers -> [at : Stage, event : Events \cup {NoEvent}, lsn : Nat]]
      BY DEF TypeInv, IInv, SinkInv, Shape
    <3> QED  BY <3>1, <3>2
  <2>6. replay \in [on : BOOLEAN, batch : SUBSET Lsns, left : SUBSET Lsns,
                    any : BOOLEAN, attempt : 0..MaxAttempts]
    <3>1. replay \in [on : BOOLEAN, batch : SUBSET (1..Len(wal)), left : SUBSET (1..Len(wal)),
                      any : BOOLEAN, attempt : Nat]
      BY DEF TypeInv, IInv, ReplayWritten
    <3>2. replay.attempt \in 0..MaxAttempts
      BY DEF TypeInv, Limits
    <3> QED  BY <2>3, <3>1, <3>2
  <2> QED  BY <2>1, <2>2, <2>4, <2>5, <2>6 DEF TypeInv, Limits, TypeOK
<1> QED  BY <1>1, <1>2, <1>3, PTL DEF Spec
=============================================================================
