---------------------------- MODULE WalCoordinator ----------------------------
(***************************************************************************)
(* Two-phase commit over the storage tiers with the write-ahead log as its *)
(* transaction log (storage/wal/coordinator.rs), and its one user,         *)
(* LineageStorage::write_batch (storage/mod.rs).                           *)
(*                                                                         *)
(* Every operation holds the transaction's DashMap guard to its end, also  *)
(* across awaits, so operations on one transaction exclude each other; a   *)
(* commit is split because a crash, an error or another transaction may    *)
(* come between its steps.  The log is the ideal WriteAheadLog, except     *)
(* that an entry not yet synced may be lost with the machine and that a    *)
(* failed append (its write or its sync) may leave the record behind.      *)
(***************************************************************************)
EXTENDS Naturals, Sequences, FiniteSets

CONSTANTS
    FsyncMode,          \* config.fsync_mode of the log
    MaxTx,              \* bound: transactions begun by the first incarnation, one less by each next
    MaxIncidents,       \* bound: log and storage errors and checkpoints
    MaxBoot             \* bound: restarts

ASSUME CoordinatorAssumption ==
    /\ FsyncMode \in {"EveryWrite", "BatchSync", "OnDemand"}
    /\ {MaxTx, MaxIncidents, MaxBoot} \subseteq Nat

VARIABLES
    connected,          \* whether connect_storage was called (with_wal does not)
    next_tx_id,
    transactions,       \* the active transactions
    log, durable,       \* the log and how much of it is synced
    committed_lsn,      \* commit_batch's watermark
    stored,             \* external: what the tiers hold of each transaction's events
    writing,            \* transactions whose write_batch has yet to write the tiers
    boot, incidents

vars == <<connected, next_tx_id, transactions, log, durable, committed_lsn, stored,
          writing, boot, incidents>>
wal == <<log, durable, committed_lsn>>
tiers == <<stored, writing>>
process == <<connected, boot>>

TxIds == 1..MaxTx
Boots == 0..MaxBoot
Key(t) == <<boot, t>>
Keys == Boots \X TxIds

TransactionStatus == {"Active", "Preparing", "Prepared", "Committing", "Aborting"}

(* step: how far a commit under way has got; lsns: the entries of the      *)
(* transaction; lineage: whether it has events (and thus participants).    *)
(* Committed and Aborted transactions leave the map at once.               *)
NoTx == [status |-> "None", step |-> "none", lsns |-> {}, lineage |-> FALSE]
TxState == [status : TransactionStatus \cup {"None"}, step : {"none", "logged", "applied"},
            lsns : SUBSET Nat, lineage : BOOLEAN]

Op == {"Begin", "Lineage", "Prepare", "Commit", "Abort", "Checkpoint"}

TypeOK ==
    /\ connected \in BOOLEAN
    /\ next_tx_id \in 1..(MaxTx + 1)
    /\ transactions \in [TxIds -> TxState]
    /\ log \in Seq([op : Op, key : Boots \X (TxIds \cup {0})])
    /\ durable \in 0..Len(log) /\ committed_lsn \in 0..Len(log)
    /\ stored \in [Keys -> {"nothing", "part", "all"}]
    /\ writing \subseteq TxIds
    /\ boot \in Boots /\ incidents \in 0..MaxIncidents

Init ==
    /\ connected = FALSE
    /\ next_tx_id = 1
    /\ transactions = [t \in TxIds |-> NoTx]
    /\ log = << >> /\ durable = 0 /\ committed_lsn = 0
    /\ stored = [k \in Keys |-> "nothing"]
    /\ writing = {}
    /\ boot = 0 /\ incidents = 0

-----------------------------------------------------------------------------
(* wal.append of a transaction record, wal.append_batch of events.  The    *)
(* boot in the key is not in the record: it tells apart the transactions   *)
(* of two incarnations that carry the same id.                             *)
Record(op, t) == [op |-> op, key |-> <<boot, t>>]

Syncs(op) == FsyncMode = "EveryWrite" \/ (FsyncMode = "BatchSync" /\ op = "Lineage")

Appended(op, t) ==
    /\ log' = Append(log, Record(op, t))
    /\ durable' = IF Syncs(op) THEN Len(log) + 1 ELSE durable

NextLsn == Len(log) + 1

Set(t, s) == transactions' = [transactions EXCEPT ![t] = s]
Status(t) == transactions[t].status
Free(t) == Status(t) # "None" /\ transactions[t].step = "none"

Incident == incidents < MaxIncidents /\ incidents' = incidents + 1

(* The append returns Err.                                                 *)
AppendFails(op, t) ==
    /\ Incident
    /\ log' \in {log, Append(log, Record(op, t))}
    /\ UNCHANGED durable

BeginTransaction ==
    /\ next_tx_id + boot <= MaxTx
    /\ next_tx_id' = next_tx_id + 1
    /\ Appended("Begin", next_tx_id)
    /\ Set(next_tx_id, [NoTx EXCEPT !.status = "Active", !.lsns = {NextLsn}])
    /\ UNCHANGED <<tiers, process, committed_lsn, incidents>>

ConnectStorage ==
    /\ ~connected
    /\ connected' = TRUE
    /\ UNCHANGED <<next_tx_id, transactions, wal, tiers, boot, incidents>>

(* The id is used up, nothing else happens.                                *)
BeginFails ==
    /\ next_tx_id + boot <= MaxTx
    /\ next_tx_id' = next_tx_id + 1
    /\ AppendFails("Begin", next_tx_id)
    /\ UNCHANGED <<transactions, tiers, process, committed_lsn>>

(* One successful call of add_lineage per transaction.                     *)
AddLineage(t) ==
    /\ Status(t) = "Active" /\ ~transactions[t].lineage
    /\ Appended("Lineage", t)
    /\ Set(t, [transactions[t] EXCEPT !.lsns = @ \cup {NextLsn}, !.lineage = TRUE])
    /\ UNCHANGED <<next_tx_id, tiers, process, committed_lsn, incidents>>

AddLineageFails(t) ==
    /\ Status(t) = "Active" /\ ~transactions[t].lineage
    /\ AppendFails("Lineage", t)
    /\ UNCHANGED <<next_tx_id, transactions, tiers, process, committed_lsn>>

(* prepare: log it; the participants, RocksDB and Kafka, always prepare.   *)
Prepare(t) ==
    /\ Status(t) = "Active"
    /\ Appended("Prepare", t)
    /\ Set(t, [transactions[t] EXCEPT !.status = "Prepared", !.lsns = @ \cup {NextLsn}])
    /\ UNCHANGED <<next_tx_id, tiers, process, committed_lsn, incidents>>

(* The log refuses the record: Err, and the transaction stays Preparing.   *)
PrepareFails(t) ==
    /\ Status(t) = "Active" /\ AppendFails("Prepare", t)
    /\ Set(t, [transactions[t] EXCEPT !.status = "Preparing"])
    /\ UNCHANGED <<next_tx_id, tiers, process, committed_lsn>>

(* A plausible slip: an unprepared transaction may be committed.           *)
MayCommit_Unprepared(t) == Status(t) \in {"Active", "Prepared"}

MayCommit(t) == Status(t) = "Prepared"

(* commit: first the record ...                                            *)
CommitLog(t) ==
    /\ MayCommit(t)
    /\ Appended("Commit", t)
    /\ Set(t, [transactions[t] EXCEPT !.status = "Committing", !.step = "logged"])
    /\ UNCHANGED <<next_tx_id, tiers, process, committed_lsn, incidents>>

CommitLogFails(t) ==
    /\ MayCommit(t) /\ AppendFails("Commit", t)
    /\ Set(t, [transactions[t] EXCEPT !.status = "Committing"])
    /\ UNCHANGED <<next_tx_id, tiers, process, committed_lsn>>

(* A plausible slip: a commit whose log record failed is applied as well.  *)
MayApply_Unlogged(t) ==
    Status(t) = "Committing" /\ transactions[t].step \in {"none", "logged"}

MayApply(t) == transactions[t].step = "logged"

(* ... then, with storage connected, the events ...                        *)
CommitApply(t) ==
    /\ MayApply(t)
    /\ stored' = IF connected /\ transactions[t].lineage
                   THEN [stored EXCEPT ![Key(t)] = "all"] ELSE stored
    /\ Set(t, [transactions[t] EXCEPT !.step = "applied"])
    /\ UNCHANGED <<next_tx_id, wal, process, writing, incidents>>

PartlyStored(t) ==
    IF stored[Key(t)] = "nothing" THEN [stored EXCEPT ![Key(t)] = "part"] ELSE stored

(* write_batch fails, perhaps after some of the events: commit returns Err *)
(* and the transaction stays Committing.                                   *)
CommitApplyFails(t) ==
    /\ MayApply(t) /\ connected /\ transactions[t].lineage /\ Incident
    /\ stored' \in {stored, PartlyStored(t)}
    /\ Set(t, [transactions[t] EXCEPT !.step = "none"])
    /\ UNCHANGED <<next_tx_id, wal, process, writing>>

(* A plausible slip: the committed transaction stays in the map.           *)
AfterCommit_Kept(t) == [transactions[t] EXCEPT !.status = "Committed", !.step = "none"]

AfterCommit(t) == NoTx

(* ... then commit_batch of its LSNs, which is a watermark at the greatest *)
(* of them, and the transaction is gone.  If its caller is write_batch and *)
(* not the user of a handle, it now writes the tiers itself.               *)
CommitFinish(t) ==
    /\ transactions[t].step = "applied"
    /\ committed_lsn' = CHOOSE l \in transactions[t].lsns :
                           \A m \in transactions[t].lsns : m <= l
    /\ Set(t, AfterCommit(t))
    /\ writing' \in {writing, writing \cup {t}}
    /\ writing' # writing => transactions[t].lineage
    /\ UNCHANGED <<next_tx_id, process, log, durable, stored, incidents>>

WriteTiers(t) ==
    /\ t \in writing
    /\ writing' = writing \ {t}
    /\ \/ stored' = [stored EXCEPT ![Key(t)] = "all"] /\ UNCHANGED incidents
       \/ Incident /\ stored' \in {stored, PartlyStored(t)}
    /\ UNCHANGED <<next_tx_id, transactions, wal, process>>

(* A plausible slip: a commit under way or failed is left to itself.       *)
MayAbort_NotCommitting(t) == Free(t) /\ Status(t) # "Committing"

(* Anything still in the map may be aborted: by its owner or, 30 seconds   *)
(* after its begin, by the timeout handler.                                *)
MayAbort(t) == Free(t)

(* A plausible slip: the aborted transaction is not removed.               *)
AfterAbort_Kept(t) == transactions[t]

AfterAbort(t) == NoTx

(* The record is written and the transaction gone; rollback does nothing.  *)
Abort(t) ==
    /\ MayAbort(t)
    /\ Appended("Abort", t)
    /\ Set(t, AfterAbort(t))
    /\ UNCHANGED <<next_tx_id, tiers, process, committed_lsn, incidents>>

AbortFails(t) ==
    /\ MayAbort(t) /\ AppendFails("Abort", t)
    /\ Set(t, [transactions[t] EXCEPT !.status = "Aborting"])
    /\ UNCHANGED <<next_tx_id, tiers, process, committed_lsn>>

(* checkpoint: a record and a sync.                                        *)
Checkpoint ==
    /\ Incident
    /\ log' = Append(log, Record("Checkpoint", 0))
    /\ durable' = Len(log) + 1
    /\ UNCHANGED <<next_tx_id, transactions, tiers, process, committed_lsn>>

CheckpointFails ==
    /\ AppendFails("Checkpoint", 0)
    /\ UNCHANGED <<next_tx_id, transactions, tiers, process, committed_lsn>>

(* The process or the machine stops; the new coordinator numbers its       *)
(* transactions from 1 again.  recover() is no action: its scan of the log *)
(* returns an empty list, so that it finds no transaction and changes      *)
(* nothing.                                                                *)
Restart ==
    /\ boot < MaxBoot
    /\ boot' = boot + 1
    /\ \E n \in durable..Len(log) : log' = SubSeq(log, 1, n) /\ durable' = n
    /\ next_tx_id' = 1
    /\ transactions' = [t \in TxIds |-> NoTx]
    /\ committed_lsn' = 0
    /\ writing' = {}
    /\ connected' = FALSE
    /\ UNCHANGED <<stored, incidents>>

CommitStep(t) == CommitApply(t) \/ CommitApplyFails(t) \/ CommitFinish(t) \/ WriteTiers(t)

Next ==
    \/ ConnectStorage \/ BeginTransaction \/ BeginFails \/ Checkpoint \/ CheckpointFails
    \/ Restart
    \/ \E t \in TxIds :
          \/ AddLineage(t) \/ AddLineageFails(t)
          \/ Prepare(t) \/ PrepareFails(t) \/ CommitLog(t)
          \/ CommitLogFails(t) \/ CommitApply(t) \/ CommitApplyFails(t) \/ CommitFinish(t)
          \/ WriteTiers(t) \/ Abort(t) \/ AbortFails(t)

Spec == Init /\ [][Next]_vars

(* The timeout handler looks at the map every five seconds and tries again *)
(* what it failed to abort; a commit under way goes on.                    *)
FairSpec ==
    /\ Spec
    /\ \A t \in TxIds : WF_vars(Abort(t)) /\ WF_vars(CommitStep(t))

-----------------------------------------------------------------------------
Logged(op, k) == {i \in DOMAIN log : log[i] = [op |-> op, key |-> k]}

(* Write-ahead: the coordinator touches the tiers only once Prepare and    *)
(* Commit are in the log, and with EveryWrite they still are after any     *)
(* crash.                                                                  *)
WriteAhead ==
    \A k \in Keys : stored[k] # "nothing" /\ (k[1] = boot \/ FsyncMode = "EveryWrite")
        => Logged("Prepare", k) # {} /\ Logged("Commit", k) # {}

(* A transaction is committed only after it was prepared.                  *)
CommitAfterPrepare ==
    \A k \in Keys : \A i \in Logged("Commit", k) : \E j \in Logged("Prepare", k) : j < i

(* An abort is final: after its record only another attempt to log the     *)
(* abort may follow, never a commit.                                       *)
AbortIsFinal ==
    \A k \in Keys : \A i \in Logged("Abort", k) :
        \A j \in DOMAIN log : log[j].key = k /\ j > i => log[j].op = "Abort"

(* No transaction stays in the map for ever, whatever failed: the timeout  *)
(* handler gets rid of it.                                                 *)
TransactionsEnd ==
    \A t \in TxIds : Status(t) # "None" ~> Status(t) = "None"

(* "Orchestrates atomic writes": the tiers hold nothing of a transaction   *)
(* that was aborted, by its owner or by the timeout handler.               *)
AbortedLeaveNothing == \A k \in Keys : Logged("Abort", k) # {} => stored[k] = "nothing"
=============================================================================
