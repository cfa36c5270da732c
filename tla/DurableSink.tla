------------------------------ MODULE DurableSink ------------------------------
(***************************************************************************)
(* The WAL-backed Kafka sink for lineage events: send_with_durability      *)
(* (storage/kafka/durable_sink.rs), the acknowledgment tracker it keeps    *)
(* (acknowledgment_tracker.rs) and the replay of pending events            *)
(* (replay_manager.rs), composed with the circuit breaker of               *)
(* CircuitBreaker.tla.                                                     *)
(*                                                                         *)
(* The log is the ideal WriteAheadLog of storage/wal/traits.rs: an entry   *)
(* appended and synced stays, and LSNs go on after a restart.  (FileWal    *)
(* says what the file implementation really does.)  The event id is a      *)
(* fresh Uuid per call, as the LSN is, and nothing tells them apart, so    *)
(* calls are identified by their LSN.  retry_count, which mark_failed      *)
(* increments and nobody reads, and the metrics are left out.              *)
(***************************************************************************)
EXTENDS Naturals, Sequences, FiniteSets, Functions

CONSTANTS
    Senders,            \* concurrent callers of send_with_durability
    Replayer,           \* the task that runs ReplayManager::recover_on_startup
    Events,             \* lineage events
    MaxPending,         \* config.max_pending of the acknowledgment tracker
    MaxAttempts,        \* config.max_retry_attempts of the replay
    FailureThreshold, SuccessThreshold, HalfOpenMaxRequests,
    MaxLsn,             \* bound: entries ever written to the log
    MaxReplays,         \* bound: replays started
    MaxBoot             \* bound: restarts

ASSUME SinkAssumption ==
    /\ IsFiniteSet(Senders) /\ Replayer \notin Senders
    /\ {FailureThreshold, SuccessThreshold, HalfOpenMaxRequests} \subseteq Nat \ {0}
    /\ {MaxPending, MaxAttempts, MaxLsn, MaxReplays, MaxBoot} \subseteq Nat

VARIABLES
    state, consecutive_failures, consecutive_successes, opened_at,
    half_open_requests, call, brokerUp, probes,     \* the circuit breaker
    wal,                \* the entries of the log, by LSN
    committed_lsn,      \* wal.commit stores it; everything up to it may be compacted
    pending,            \* the tracker's LSNs that await an acknowledgment
    acknowledged,       \* the tracker's acknowledged LSNs
    task,               \* where each caller is in send_with_durability
    replay,             \* the running recover_on_startup
    replays, boot,      \* how many replays, restarts there were
    topic,              \* external: the records in Kafka, by LSN
    accepted,           \* history: calls that returned Ok, by LSN
    bootLsn             \* history: the LSNs of this incarnation are above it

Callers == Senders \cup {Replayer}

Breaker == INSTANCE CircuitBreaker

breaker == <<state, consecutive_failures, consecutive_successes, opened_at,
             half_open_requests, call, brokerUp, probes>>
tracker == <<pending, acknowledged>>
recovery == <<replay, replays>>
history == <<accepted, bootLsn>>
vars == <<state, consecutive_failures, consecutive_successes, opened_at,
          half_open_requests, call, brokerUp, probes, wal, committed_lsn,
          pending, acknowledged, task, replay, replays, boot, topic, accepted,
          bootLsn>>

Lsns == 1..MaxLsn
NoEvent == "none"

(* sleep: the backpressure pause; write: before the log; send: before the  *)
(* breaker; calling: inside it; ack, commit: the halves of                 *)
(* mark_acknowledged.                                                      *)
Idle == [at |-> "idle", event |-> NoEvent, lsn |-> 0]
Stage == {"idle", "sleep", "write", "send", "calling", "ack", "commit"}

(* batch: the LSNs whose events are replayed; left: those still to be sent *)
(* in this attempt; any: whether one was written.                          *)
NoReplay == [on |-> FALSE, batch |-> {}, left |-> {}, any |-> FALSE, attempt |-> 0]

TypeOK ==
    /\ Breaker!TypeOK
    /\ wal \in Seq(Events) /\ Len(wal) <= MaxLsn
    /\ committed_lsn \in 0..MaxLsn
    /\ pending \subseteq Lsns /\ acknowledged \subseteq Lsns
    /\ task \in [Callers -> [at : Stage, event : Events \cup {NoEvent}, lsn : 0..MaxLsn]]
    /\ replay \in [on : BOOLEAN, batch : SUBSET Lsns, left : SUBSET Lsns,
                   any : BOOLEAN, attempt : 0..MaxAttempts]
    /\ replays \in 0..MaxReplays /\ boot \in 0..MaxBoot
    /\ topic \subseteq Lsns /\ accepted \subseteq Lsns /\ bootLsn \in 0..MaxLsn

Init ==
    /\ Breaker!Init
    /\ wal = << >>
    /\ committed_lsn = 0
    /\ pending = {}
    /\ acknowledged = {}
    /\ task = [c \in Callers |-> Idle]
    /\ replay = NoReplay
    /\ replays = 0
    /\ boot = 0
    /\ topic = {}
    /\ accepted = {}
    /\ bootLsn = 0

-----------------------------------------------------------------------------
IsAtCapacity == Cardinality(pending) >= MaxPending

Writing == {c \in Callers : task[c].at \in {"sleep", "write"}}

(* A call begins; at capacity it pauses first.  The duplicate check finds  *)
(* nothing, for the event id was drawn a moment before.                    *)
Submit(c, e) ==
    /\ task[c] = Idle
    /\ Len(wal) + Cardinality(Writing) < MaxLsn
    /\ task' = [task EXCEPT ![c] = [at |-> IF IsAtCapacity THEN "sleep" ELSE "write",
                                    event |-> e, lsn |-> 0]]

SendBegin(s, e) ==
    /\ e \notin Range(wal) \cup {task[c].event : c \in Callers}
    /\ Submit(s, e)
    /\ UNCHANGED <<breaker, wal, committed_lsn, tracker, recovery, boot, topic, history>>

(* A plausible slip: the pause is repeated while the tracker is full.      *)
BackpressureOver_Recheck(c) ==
    /\ task[c].at = "sleep"
    /\ ~IsAtCapacity
    /\ task' = [task EXCEPT ![c].at = "write"]
    /\ UNCHANGED <<breaker, wal, committed_lsn, tracker, recovery, boot, topic, history>>

(* The pause is over.  The capacity is not looked at again.                *)
BackpressureOver(c) ==
    /\ task[c].at = "sleep"
    /\ task' = [task EXCEPT ![c].at = "write"]
    /\ UNCHANGED <<breaker, wal, committed_lsn, tracker, recovery, boot, topic, history>>

(* write_to_wal, append and sync, then track_pending.                      *)
WriteToWal(c) ==
    LET lsn == Len(wal) + 1 IN
    /\ task[c].at = "write"
    /\ wal' = Append(wal, task[c].event)
    /\ pending' = pending \cup {lsn}
    /\ task' = [task EXCEPT ![c].at = "send", ![c].lsn = lsn]
    /\ UNCHANGED <<breaker, committed_lsn, acknowledged, recovery, boot, topic, history>>

(* The append fails, or the sync after it: the caller gets Err.            *)
WalFails(c) ==
    /\ task[c].at = "write"
    /\ wal' \in {wal, Append(wal, task[c].event)}
    /\ task' = [task EXCEPT ![c] = Idle]
    /\ UNCHANGED <<breaker, committed_lsn, tracker, recovery, boot, topic, history>>

-----------------------------------------------------------------------------
(* circuit_breaker.call(send_to_kafka): admitted or rejected.              *)
CallBreaker(c) ==
    /\ task[c].at = "send"
    /\ Breaker!Call(c)
    /\ task' = [task EXCEPT ![c].at = "calling"]
    /\ UNCHANGED <<wal, committed_lsn, tracker, recovery, boot, topic, history>>

(* Kafka stores the record; the producer is idempotent, so only once.  The *)
(* answer is still to come and may get lost.                               *)
KafkaStores(c) ==
    /\ call[c] = "sending" /\ brokerUp
    /\ task[c].lsn \notin topic
    /\ topic' = topic \cup {task[c].lsn}
    /\ UNCHANGED <<breaker, wal, committed_lsn, tracker, task, recovery, boot, history>>

(* The send returns: Ok with partition and offset, or Err.                 *)
SendReturns(c) ==
    /\ brokerUp => task[c].lsn \in topic
    /\ Breaker!Finish(c)
    /\ UNCHANGED <<wal, committed_lsn, tracker, task, recovery, boot, topic, history>>

(* The call returns Ok(()) to its caller.                                  *)
Return(c) ==
    /\ accepted' = accepted \cup {task[c].lsn}
    /\ task' = [task EXCEPT ![c] = Idle]
    /\ replay' = [replay EXCEPT !.any = @ \/ c = Replayer]
    /\ UNCHANGED <<replays, boot, bootLsn>>

(* The breaker records the success and the sink goes on to                 *)
(* mark_acknowledged.                                                      *)
SendSucceeded(c) ==
    /\ Breaker!RecordSuccess(c)
    /\ task' = [task EXCEPT ![c].at = "ack"]
    /\ UNCHANGED <<wal, committed_lsn, tracker, recovery, boot, topic, history>>

(* A plausible slip: a failed call is forgotten.                           *)
AfterFailure_Forget(c) == pending \ {task[c].lsn}

(* mark_failed leaves the event pending.                                   *)
AfterFailure(c) == pending

(* The failure is recorded, mark_failed, and Ok: the event is in the log.  *)
SendFailed(c) ==
    /\ Breaker!RecordFailure(c)
    /\ pending' = AfterFailure(c)
    /\ Return(c)
    /\ UNCHANGED <<wal, committed_lsn, acknowledged, topic>>

(* "WAL-only mode": Ok without a send.                                     *)
SendRejected(c) ==
    /\ Breaker!ReturnRejected(c)
    /\ Return(c)
    /\ UNCHANGED <<wal, committed_lsn, tracker, topic>>

(* A plausible slip: it is taken for a watermark.                          *)
Acknowledges_UpTo(c) == 1..task[c].lsn

(* The LSNs an acknowledgment of c's send covers.                          *)
Acknowledges(c) == {task[c].lsn}

(* mark_acknowledged: pending -> acknowledged ...                          *)
MarkAcknowledged(c) ==
    /\ task[c].at = "ack"
    /\ pending' = pending \ Acknowledges(c)
    /\ acknowledged' = acknowledged \cup Acknowledges(c)
    /\ task' = [task EXCEPT ![c].at = "commit"]
    /\ UNCHANGED <<breaker, wal, committed_lsn, recovery, boot, topic, history>>

(* ... and, after an await, wal.commit.                                    *)
CommitWal(c) ==
    /\ task[c].at = "commit"
    /\ committed_lsn' = task[c].lsn
    /\ Return(c)
    /\ UNCHANGED <<breaker, wal, tracker, topic>>

(* The cleanup task drops an acknowledgment older than ack_retention.      *)
CleanupAcknowledged ==
    /\ \E l \in acknowledged : acknowledged' = acknowledged \ {l}
    /\ UNCHANGED <<breaker, wal, committed_lsn, pending, task, recovery, boot, topic, history>>

-----------------------------------------------------------------------------
(* recover_on_startup: the events pending in the tracker are the batch.    *)
ReplayBegin ==
    /\ ~replay.on /\ replays < MaxReplays
    /\ pending # {}
    /\ replay' = [NoReplay EXCEPT !.on = TRUE, !.batch = pending, !.left = pending]
    /\ replays' = replays + 1
    /\ UNCHANGED <<breaker, wal, committed_lsn, tracker, task, boot, topic, history>>

(* replay_batch writes the next event to the sink, as a new call.          *)
ReplayNext ==
    \E l \in replay.left :
        /\ Submit(Replayer, wal[l])
        /\ replay' = [replay EXCEPT !.left = @ \ {l}]
        /\ UNCHANGED <<breaker, wal, committed_lsn, tracker, replays, boot, topic, history>>

(* A plausible slip: one attempt too many.                                 *)
Retries_OneMore == ~replay.any /\ replay.attempt <= MaxAttempts

(* No event of the batch was written and attempts are left.                *)
Retries == ~replay.any /\ replay.attempt < MaxAttempts

(* replay_batch_with_retry                                                 *)
ReplayEnd ==
    /\ replay.on /\ replay.left = {} /\ task[Replayer] = Idle
    /\ replay' = IF Retries
                   THEN [replay EXCEPT !.left = replay.batch, !.attempt = @ + 1]
                   ELSE NoReplay
    /\ UNCHANGED <<breaker, wal, committed_lsn, tracker, task, replays, boot, topic, history>>

(* The coordinator stops and starts again.  Tracker and breaker live in    *)
(* memory.  main runs recover_on_startup before it serves: the tracker is  *)
(* new, so it finds nothing and returns.                                   *)
Restart ==
    /\ boot < MaxBoot
    /\ boot' = boot + 1
    /\ bootLsn' = Len(wal)
    /\ state' = "Closed" /\ opened_at' = "None"
    /\ consecutive_failures' = 0 /\ consecutive_successes' = 0
    /\ half_open_requests' = 0 /\ probes' = {}
    /\ call' = [c \in Callers |-> "idle"]
    /\ pending' = {}
    /\ acknowledged' = {}
    /\ task' = [c \in Callers |-> Idle]
    /\ replay' = NoReplay
    /\ UNCHANGED <<brokerUp, wal, committed_lsn, replays, topic, accepted>>

(* Time passes, Kafka comes and goes.                                      *)
Environment ==
    /\ Breaker!TimeoutExpires \/ Breaker!BrokerFails \/ Breaker!BrokerRecovers
    /\ UNCHANGED <<wal, committed_lsn, tracker, task, recovery, boot, topic, history>>

Step(c) ==
    \/ BackpressureOver(c) \/ WriteToWal(c) \/ WalFails(c) \/ CallBreaker(c)
    \/ KafkaStores(c) \/ SendReturns(c) \/ SendSucceeded(c) \/ SendFailed(c)
    \/ SendRejected(c) \/ MarkAcknowledged(c) \/ CommitWal(c)

Next ==
    \/ \E s \in Senders, e \in Events : SendBegin(s, e)
    \/ \E c \in Callers :
          \/ BackpressureOver(c) \/ WriteToWal(c) \/ WalFails(c) \/ CallBreaker(c)
          \/ KafkaStores(c) \/ SendReturns(c) \/ SendSucceeded(c) \/ SendFailed(c)
          \/ SendRejected(c) \/ MarkAcknowledged(c) \/ CommitWal(c)
    \/ CleanupAcknowledged
    \/ ReplayBegin \/ ReplayNext \/ ReplayEnd
    \/ Restart
    \/ Environment

Spec == Init /\ [][Next]_vars

(* A call that has begun goes on: its tasks are scheduled, the pause ends, *)
(* the send has a timeout and Kafka, while up, stores what it is sent.  A  *)
(* running replay goes on.  Nothing makes a call or a replay begin.        *)
FairSpec ==
    /\ Spec
    /\ \A c \in Callers : WF_vars(Step(c))
    /\ WF_vars(ReplayNext) /\ WF_vars(ReplayEnd)
    /\ WF_vars(Breaker!TimeoutExpires /\ Environment)

-----------------------------------------------------------------------------
(* As long as the process lives it forgets nothing it accepted: an event   *)
(* whose call returned Ok is in Kafka or still pending, whether its send   *)
(* failed, was rejected by the breaker or was never tried.                 *)
NothingForgotten ==
    \A l \in accepted : l > bootLsn => l \in topic \cup pending

(* An acknowledgment, and the LSN handed to wal.commit, always stand for a *)
(* record that Kafka has.                                                  *)
AcknowledgedDelivered ==
    acknowledged \cup ({committed_lsn} \ {0}) \subseteq topic

(* Every call of send_with_durability comes back, Kafka up or down.        *)
CallsReturn == \A c \in Callers : task[c] # Idle ~> task[c] = Idle
=============================================================================
