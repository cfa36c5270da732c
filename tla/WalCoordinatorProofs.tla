------------------------- MODULE WalCoordinatorProofs -------------------------
(***************************************************************************)
(* Proofs about WalCoordinator, for every fsync mode and any number of     *)
(* transactions, errors and restarts.                                      *)
(***************************************************************************)
EXTENDS WalCoordinator, SequenceTheorems, WellFoundedInduction, TLAPS

LogRecord == [op : Op, key : Boots \X (TxIds \cup {0})]

(* The record is in the log and, in mode EveryWrite, no crash removes it.  *)
Backed(op, k) == \E i \in Logged(op, k) : FsyncMode = "EveryWrite" => i <= durable

(* The records of this incarnation are those of transactions it has begun. *)
Numbered ==
    \A i \in DOMAIN log :
      /\ log[i].key[1] <= boot
      /\ log[i].key[1] = boot => log[i].key[2] < next_tx_id

(* What the state of a transaction tells about the log.                    *)
TxBacked(t) ==
    /\ Status(t) # "None" => t < next_tx_id /\ transactions[t].lsns # {}
    /\ transactions[t].lsns \subseteq 1..Len(log)
    /\ Status(t) \in {"Prepared", "Committing"} => Backed("Prepare", Key(t))
    /\ transactions[t].step # "none" => Status(t) = "Committing" /\ Backed("Commit", Key(t))
    /\ t \in writing => Backed("Prepare", Key(t)) /\ Backed("Commit", Key(t))
    /\ Logged("Abort", Key(t)) # {} => Status(t) \in {"None", "Aborting"}

StoredBacked ==
    \A k \in Keys : stored[k] # "nothing" =>
      /\ k[1] <= boot
      /\ k[1] = boot \/ FsyncMode = "EveryWrite" => Backed("Prepare", k) /\ Backed("Commit", k)

(* The inductive invariant.  That an abort is final depends on the states  *)
(* of the transactions in the map, that the tiers are written last on how  *)
(* much of the log is synced.                                              *)
IInv ==
    /\ TypeOK
    /\ Numbered
    /\ \A t \in TxIds : TxBacked(t)
    /\ StoredBacked
    /\ CommitAfterPrepare
    /\ AbortIsFinal

(* What all operations but Restart do to the log: nothing, or one record   *)
(* more at its end.                                                        *)
LogStep(op, t) ==
    /\ log' \in Seq(LogRecord)
    /\ Len(log') \in {Len(log), Len(log) + 1}
    /\ \A i \in 1..Len(log) : log'[i] = log[i]
    /\ Len(log') = Len(log) + 1 => log'[Len(log) + 1] = Record(op, t)
    /\ durable' \in durable..Len(log')
    /\ UNCHANGED boot

-----------------------------------------------------------------------------
(* The log.                                                                *)

LEMMA TypedLog ==
    ASSUME TypeOK
    PROVE  /\ log \in Seq(LogRecord) /\ Len(log) \in Nat /\ DOMAIN log = 1..Len(log)
           /\ durable \in 0..Len(log) /\ boot \in Nat /\ next_tx_id \in Nat \ {0}
           /\ MaxTx \in Nat /\ MaxBoot \in Nat /\ MaxIncidents \in Nat
BY LenProperties, CoordinatorAssumption DEF TypeOK, LogRecord, Boots

LEMMA RecordTyped ==
    ASSUME TypeOK, NEW op \in Op, NEW t \in TxIds \cup {0}
    PROVE  Record(op, t) \in LogRecord
BY DEF TypeOK, Record, LogRecord

LEMMA AppendIsStep ==
    ASSUME TypeOK, NEW op \in Op, NEW t \in TxIds \cup {0}, UNCHANGED boot,
           log' = Append(log, Record(op, t)), durable' \in {durable, Len(log) + 1}
    PROVE  LogStep(op, t) /\ Len(log') = Len(log) + 1
<1>1. Record(op, t) \in LogRecord
  BY RecordTyped
<1>2. /\ log' \in Seq(LogRecord) /\ Len(log') = Len(log) + 1
      /\ \A i \in 1..Len(log) : log'[i] = log[i]
      /\ log'[Len(log) + 1] = Record(op, t)
  BY <1>1, TypedLog, AppendProperties
<1> QED  BY <1>2, TypedLog DEF LogStep

LEMMA AppendedIsStep ==
    ASSUME TypeOK, NEW op \in Op, NEW t \in TxIds \cup {0}, UNCHANGED boot,
           Appended(op, t)
    PROVE  /\ LogStep(op, t) /\ Len(log') = Len(log) + 1
           /\ Backed(op, Key(t))'
<1>1. log' = Append(log, Record(op, t)) /\ durable' \in {durable, Len(log) + 1}
  BY DEF Appended
<1>2. LogStep(op, t) /\ Len(log') = Len(log) + 1
  BY <1>1, AppendIsStep
<1>3. FsyncMode = "EveryWrite" => durable' = Len(log) + 1
  BY DEF Appended, Syncs
<1>4. Len(log) + 1 \in DOMAIN log' /\ log'[Len(log) + 1] = [op |-> op, key |-> Key(t)']
  BY <1>2, TypedLog, LenProperties DEF LogStep, Record, Key
<1> QED  BY <1>2, <1>3, <1>4, TypedLog DEF Backed, Logged

LEMMA SameIsStep ==
    ASSUME TypeOK, UNCHANGED <<log, durable, boot>>, NEW op, NEW t
    PROVE  LogStep(op, t)
<1>1. log \in Seq(LogRecord)
  BY TypedLog
<1>2. Len(log) \in Nat /\ durable \in 0..Len(log)
  BY TypedLog
<1>3. Len(log') = Len(log) /\ durable' \in durable..Len(log')
  BY <1>2
<1> QED  BY <1>1, <1>2, <1>3 DEF LogStep

LEMMA FailedIsStep ==
    ASSUME TypeOK, NEW op \in Op, NEW t \in TxIds \cup {0}, UNCHANGED boot,
           AppendFails(op, t)
    PROVE  LogStep(op, t)
<1>1. CASE log' = log
  BY <1>1, SameIsStep DEF AppendFails
<1>2. CASE log' = Append(log, Record(op, t))
  BY <1>2, AppendIsStep DEF AppendFails
<1> QED  BY <1>1, <1>2 DEF AppendFails

(* A record that is backed stays so.                                       *)
LEMMA BackedStays ==
    ASSUME TypeOK, NEW op, NEW t, LogStep(op, t), NEW p, NEW k, Backed(p, k)
    PROVE  Backed(p, k)'
<1>1. PICK i \in Logged(p, k) : FsyncMode = "EveryWrite" => i <= durable
  BY DEF Backed
<1>2. i \in 1..Len(log) /\ log[i] = [op |-> p, key |-> k]
  BY TypedLog DEF Logged
<1>3. DOMAIN log' = 1..Len(log') /\ Len(log') >= Len(log) /\ Len(log) \in Nat
  BY TypedLog, LenProperties DEF LogStep
<1>4. i \in DOMAIN log' /\ log'[i] = [op |-> p, key |-> k]
  <2>1. log'[i] = log[i]
    BY <1>2 DEF LogStep
  <2> QED  BY <1>2, <1>3, <2>1
<1> QED  BY <1>1, <1>2, <1>4, TypedLog DEF Backed, Logged, LogStep

(* Every record of the new log is an old one or the new one at its end.    *)
LEMMA OldOrNew ==
    ASSUME TypeOK, NEW op, NEW t, LogStep(op, t), NEW i \in DOMAIN log'
    PROVE  /\ i \in 1..Len(log')
           /\ \/ i \in DOMAIN log /\ log'[i] = log[i]
              \/ i = Len(log) + 1 /\ log'[i] = Record(op, t)
BY TypedLog, LenProperties DEF LogStep

LEMMA OldIsKept ==
    ASSUME TypeOK, NEW op, NEW t, LogStep(op, t), NEW i \in DOMAIN log
    PROVE  i \in DOMAIN log' /\ log'[i] = log[i] /\ i < Len(log) + 1
BY TypedLog, LenProperties DEF LogStep

LEMMA NumberedKept ==
    ASSUME IInv, NEW op, NEW t \in Nat, LogStep(op, t), next_tx_id' >= next_tx_id,
           next_tx_id' \in Nat, t < next_tx_id'
    PROVE  Numbered'
<1> SUFFICES ASSUME NEW i \in DOMAIN log'
             PROVE  /\ log'[i].key[1] <= boot'
                    /\ log'[i].key[1] = boot' => log'[i].key[2] < next_tx_id'
  BY DEF Numbered
<1>1. boot' = boot
  BY DEF LogStep
<1>2. CASE i \in DOMAIN log /\ log'[i] = log[i]
  <2>1. log[i] \in LogRecord
    BY <1>2, TypedLog, ElementOfSeq DEF IInv
  <2>2. log[i].key[2] \in Nat
    BY <2>1, TypedLog DEF LogRecord, TxIds, IInv
  <2> QED  BY <1>1, <1>2, <2>2, TypedLog DEF IInv, Numbered
<1>3. CASE log'[i] = Record(op, t)
  BY <1>1, <1>3, TypedLog DEF Record, IInv
<1> QED  BY <1>2, <1>3, OldOrNew DEF IInv

LEMMA CommitAfterPrepareKept ==
    ASSUME IInv, NEW op, NEW t \in Nat, LogStep(op, t),
           op = "Commit" => Backed("Prepare", Key(t))
    PROVE  CommitAfterPrepare'
<1> SUFFICES ASSUME NEW k \in Keys, NEW i \in Logged("Commit", k)'
             PROVE  \E j \in Logged("Prepare", k)' : j < i
  BY DEF CommitAfterPrepare, Keys, Boots, TxIds
<1>0. TypeOK
  BY DEF IInv
<1>1. i \in DOMAIN log' /\ log'[i] = [op |-> "Commit", key |-> k]
  BY DEF Logged
<1>2. \E j \in Logged("Prepare", k) : j < i
  <2>1. CASE i \in DOMAIN log /\ log'[i] = log[i]
    BY <1>1, <2>1 DEF IInv, CommitAfterPrepare, Logged
  <2>2. CASE i = Len(log) + 1 /\ log'[i] = Record(op, t)
    <3>1. op = "Commit" /\ k = Key(t)
      BY <1>1, <2>2 DEF Record, Key
    <3>2. PICK j \in Logged("Prepare", k) : TRUE
      BY <3>1 DEF Backed
    <3> QED  BY <1>0, <2>2, <3>2, TypedLog DEF Logged
  <2> QED  BY <1>0, <1>1, <2>1, <2>2, OldOrNew
<1>3. PICK j \in Logged("Prepare", k) : j < i
  BY <1>2
<1>4. j \in Logged("Prepare", k)'
  BY <1>0, OldIsKept DEF Logged
<1> QED  BY <1>3, <1>4

LEMMA AbortIsFinalKept ==
    ASSUME IInv, NEW op, NEW t \in Nat, LogStep(op, t),
           t \in TxIds => op = "Abort" \/ Logged("Abort", Key(t)) = {}
    PROVE  AbortIsFinal'
<1> SUFFICES ASSUME NEW k \in Keys, NEW i \in Logged("Abort", k)', NEW j \in DOMAIN log',
                    log'[j].key = k, j > i
             PROVE  log'[j].op = "Abort"
  BY DEF AbortIsFinal, Keys, Boots, TxIds
<1>0. TypeOK
  BY DEF IInv
<1>1. i \in DOMAIN log' /\ log'[i] = [op |-> "Abort", key |-> k]
  BY DEF Logged
<1>2. j \in 1..Len(log') /\ i \in 1..Len(log') /\ Len(log') \in {Len(log), Len(log) + 1}
  BY <1>0, <1>1, OldOrNew DEF LogStep
<1>3. i \in DOMAIN log /\ log[i] = [op |-> "Abort", key |-> k]
  BY <1>0, <1>1, <1>2, OldOrNew, TypedLog
<1>4. CASE j \in DOMAIN log /\ log'[j] = log[j]
  BY <1>3, <1>4 DEF IInv, AbortIsFinal, Logged
<1>5. CASE log'[j] = Record(op, t)
  <2>1. k = Key(t) /\ t \in TxIds
    BY <1>5 DEF Record, Key, Keys
  <2>2. i \in Logged("Abort", Key(t))
    BY <1>3, <2>1 DEF Logged
  <2> QED  BY <1>5, <2>1, <2>2 DEF Record
<1> QED  BY <1>0, <1>4, <1>5, OldOrNew

LEMMA StoredKept ==
    ASSUME IInv, NEW op, NEW t, LogStep(op, t), UNCHANGED stored
    PROVE  StoredBacked'
<1>1. TypeOK /\ boot' = boot
  BY DEF IInv, LogStep
<1> QED  BY <1>1, BackedStays DEF IInv, StoredBacked

LEMMA NoNewAbort ==
    ASSUME TypeOK, NEW op, NEW t, LogStep(op, t), NEW u, op = "Abort" => t # u,
           Logged("Abort", Key(u)) = {}
    PROVE  Logged("Abort", Key(u))' = {}
<1>0. Key(u)' = Key(u)
  BY DEF LogStep, Key
<1> SUFFICES ASSUME NEW i \in Logged("Abort", Key(u))' PROVE FALSE
  OBVIOUS
<1>1. i \in DOMAIN log' /\ log'[i] = [op |-> "Abort", key |-> Key(u)]
  BY <1>0 DEF Logged
<1>2. log'[i] # Record(op, t)
  BY <1>1 DEF Record, Key
<1> QED  BY <1>1, <1>2, OldOrNew DEF Logged

(* A transaction that is left alone.                                       *)
LEMMA TxKept ==
    ASSUME IInv, NEW op, NEW t \in Nat, LogStep(op, t), NEW u \in TxIds,
           transactions'[u] = transactions[u], u \in writing' => u \in writing,
           next_tx_id' \in Nat, next_tx_id' >= next_tx_id,
           op = "Abort" => t # u
    PROVE  TxBacked(u)'
<1>0. TypeOK /\ boot' = boot /\ Key(u)' = Key(u) /\ u \in Nat
  BY DEF IInv, LogStep, Key, TxIds
<1>1. Logged("Abort", Key(u)) = {} => Logged("Abort", Key(u))' = {}
  BY <1>0, NoNewAbort
<1>2. Backed("Prepare", Key(u)) => Backed("Prepare", Key(u))'
  BY <1>0, BackedStays
<1>3. Backed("Commit", Key(u)) => Backed("Commit", Key(u))'
  BY <1>0, BackedStays
<1>4. 1..Len(log) \subseteq 1..Len(log')
  BY <1>0, TypedLog DEF LogStep
<1>5. u < next_tx_id => u < next_tx_id'
  BY <1>0, TypedLog
<1>6. TxBacked(u)
  BY DEF IInv
<1> QED  BY <1>0, <1>1, <1>2, <1>3, <1>4, <1>5, <1>6 DEF TxBacked, Status

-----------------------------------------------------------------------------
(* The operations.                                                         *)

LEMMA TypeKept ==
    ASSUME TypeOK, NEW op, NEW t, LogStep(op, t), connected' \in BOOLEAN,
           next_tx_id' \in 1..(MaxTx + 1), transactions' \in [TxIds -> TxState],
           committed_lsn' \in 0..Len(log), stored' \in [Keys -> {"nothing", "part", "all"}],
           writing' \subseteq TxIds, incidents' \in 0..MaxIncidents
    PROVE  TypeOK'
<1>1. durable' \in 0..Len(log') /\ committed_lsn' \in 0..Len(log')
  BY TypedLog DEF LogStep
<1>2. log' \in Seq(LogRecord) /\ boot' \in Boots
  BY DEF TypeOK, LogStep
<1> QED  BY <1>1, <1>2 DEF TypeOK, LogRecord, Boots, Keys

LEMMA IncidentTyped ==
    ASSUME TypeOK, Incident \/ UNCHANGED incidents
    PROVE  incidents' \in 0..MaxIncidents
BY CoordinatorAssumption DEF TypeOK, Incident

(* A step whose record, if any, is one of transaction t, and that leaves   *)
(* the other transactions alone.                                           *)
LEMMA StepKeeps ==
    ASSUME IInv, TypeOK', NEW op, NEW t \in Nat, LogStep(op, t),
           next_tx_id' >= next_tx_id, t < next_tx_id', StoredBacked',
           op = "Commit" => Backed("Prepare", Key(t)),
           t \in TxIds => op = "Abort" \/ Logged("Abort", Key(t)) = {},
           \A u \in TxIds : u # t =>
              transactions'[u] = transactions[u] /\ (u \in writing' => u \in writing),
           t \in TxIds => TxBacked(t)'
    PROVE  IInv'
<1>1. next_tx_id' \in Nat
  BY CoordinatorAssumption DEF TypeOK
<1>2. Numbered'
  BY <1>1, NumberedKept
<1>3. \A u \in TxIds : TxBacked(u)'
  BY <1>1, TxKept
<1>4. CommitAfterPrepare' /\ AbortIsFinal'
  BY CommitAfterPrepareKept, AbortIsFinalKept
<1> QED  BY <1>2, <1>3, <1>4 DEF IInv

(* An operation on a transaction in the map, which is in state s after it. *)
LEMMA TxOp ==
    ASSUME IInv, NEW op, NEW t \in TxIds, LogStep(op, t), Status(t) # "None",
           NEW s \in TxState, Set(t, s),
           UNCHANGED <<connected, next_tx_id>>,
           stored' \in [Keys -> {"nothing", "part", "all"}], StoredBacked',
           committed_lsn' \in 0..Len(log), incidents' \in 0..MaxIncidents,
           writing' \subseteq writing \cup {t},
           s.status # "None" => s.lsns # {},
           s.lsns \subseteq 1..Len(log'),
           s.status \in {"Prepared", "Committing"} => Backed("Prepare", Key(t))',
           s.step # "none" => s.status = "Committing" /\ Backed("Commit", Key(t))',
           t \in writing' => Backed("Prepare", Key(t))' /\ Backed("Commit", Key(t))',
           s.status \in {"None", "Aborting"} \/ (op # "Abort" /\ Logged("Abort", Key(t)) = {}),
           op = "Commit" => Backed("Prepare", Key(t)),
           op = "Abort" \/ Logged("Abort", Key(t)) = {}
    PROVE  IInv'
<1>0. /\ TypeOK /\ t \in Nat /\ t < next_tx_id /\ next_tx_id \in Nat
      /\ Key(t)' = Key(t) /\ boot' = boot
  BY TypedLog DEF IInv, TxBacked, TxIds, Key, LogStep
<1>1. /\ transactions' \in [TxIds -> TxState] /\ transactions'[t] = s
      /\ \A u \in TxIds \ {t} : transactions'[u] = transactions[u]
  BY <1>0 DEF Set, TypeOK
<1>2. TypeOK'
  <2>1. connected' \in BOOLEAN /\ next_tx_id' \in 1..(MaxTx + 1) /\ writing' \subseteq TxIds
    BY <1>0 DEF TypeOK
  <2> QED  BY <1>0, <1>1, <2>1, TypeKept
<1>3. Logged("Abort", Key(t))' # {} => s.status \in {"None", "Aborting"}
  BY <1>0, NoNewAbort
<1>4. TxBacked(t)'
  BY <1>0, <1>1, <1>3 DEF TxBacked, Status
<1>5. /\ next_tx_id' >= next_tx_id /\ t < next_tx_id'
      /\ \A u \in TxIds : u # t =>
           transactions'[u] = transactions[u] /\ (u \in writing' => u \in writing)
  BY <1>0, <1>1
<1> QED  BY <1>0, <1>2, <1>4, <1>5, StepKeeps

(* The log holds no abort of an id that is yet to be given out.            *)
LEMMA FreshId ==
    ASSUME IInv, next_tx_id + boot <= MaxTx
    PROVE  next_tx_id \in TxIds /\ Logged("Abort", Key(next_tx_id)) = {}
<1>1. next_tx_id \in TxIds
  BY TypedLog DEF IInv, TxIds
<1>2. ASSUME NEW i \in Logged("Abort", Key(next_tx_id)) PROVE FALSE
  <2>1. i \in DOMAIN log /\ log[i].key[1] = boot /\ log[i].key[2] = next_tx_id
    BY <1>2 DEF Logged, Key
  <2>2. next_tx_id < next_tx_id
    BY <2>1 DEF IInv, Numbered
  <2> QED  BY <2>2, TypedLog DEF IInv
<1> QED  BY <1>1, <1>2

LEMMA BeginOK ==
    ASSUME IInv, BeginTransaction, NEW t, t = next_tx_id
    PROVE  IInv'
<1> DEFINE s == [NoTx EXCEPT !.status = "Active", !.lsns = {Len(log) + 1}]
<1>0. TypeOK /\ t \in TxIds /\ Logged("Abort", Key(t)) = {} /\ t \in Nat
  BY FreshId DEF IInv, BeginTransaction, TxIds
<1>1. /\ next_tx_id' = next_tx_id + 1 /\ Appended("Begin", t)
      /\ transactions' = [transactions EXCEPT ![t] = s]
      /\ UNCHANGED <<stored, writing, connected, boot, committed_lsn, incidents>>
  BY DEF BeginTransaction, Set, tiers, process, NextLsn
<1>2. LogStep("Begin", t) /\ Len(log') = Len(log) + 1
  BY <1>0, <1>1, AppendedIsStep DEF Op
<1>3. Len(log) \in Nat
  BY <1>0, TypedLog
<1>4. s \in TxState /\ s.status = "Active" /\ s.step = "none" /\ s.lsns = {Len(log) + 1}
  <2>1. {Len(log) + 1} \in SUBSET Nat
    BY <1>3
  <2>2. ASSUME NEW l \in SUBSET Nat
        PROVE  LET r == [NoTx EXCEPT !.status = "Active", !.lsns = l]
               IN  r \in TxState /\ r.status = "Active" /\ r.step = "none" /\ r.lsns = l
    BY DEF NoTx, TxState, TransactionStatus
  <2> QED  BY <2>1, <2>2
<1> HIDE DEF s
<1>5. /\ transactions' \in [TxIds -> TxState] /\ transactions'[t] = s
      /\ \A u \in TxIds : u # t => transactions'[u] = transactions[u]
  BY <1>0, <1>1, <1>4 DEF TypeOK
<1>6. TypeOK'
  <2>1. next_tx_id' \in 1..(MaxTx + 1)
    BY <1>0, <1>1, TypedLog DEF TxIds
  <2>2. /\ connected' \in BOOLEAN /\ committed_lsn' \in 0..Len(log) /\ writing' \subseteq TxIds
        /\ stored' \in [Keys -> {"nothing", "part", "all"}] /\ incidents' \in 0..MaxIncidents
    BY <1>0, <1>1 DEF TypeOK
  <2> QED  BY <1>0, <1>2, <1>5, <2>1, <2>2, TypeKept
<1>7. TxBacked(t)'
  <2>1. t \in writing => Backed("Prepare", Key(t))' /\ Backed("Commit", Key(t))'
    <3>1. Key(t)' = Key(t)
      BY <1>1 DEF Key
    <3> QED  BY <1>0, <1>2, <3>1, BackedStays DEF IInv, TxBacked
  <2>2. t < next_tx_id' /\ {Len(log) + 1} \subseteq 1..Len(log')
    BY <1>0, <1>1, <1>2, <1>3
  <2>3. Logged("Abort", Key(t))' = {}
    BY <1>0, <1>2, NoNewAbort
  <2> QED  BY <1>1, <1>4, <1>5, <2>1, <2>2, <2>3 DEF TxBacked, Status
<1>8. next_tx_id' >= next_tx_id /\ t < next_tx_id'
  BY <1>0, <1>1
<1>9. StoredBacked'
  BY <1>1, <1>2, StoredKept
<1> QED  BY <1>0, <1>1, <1>2, <1>5, <1>6, <1>7, <1>8, <1>9, StepKeeps

LEMMA BeginFailsOK ==
    ASSUME IInv, BeginFails, NEW t, t = next_tx_id
    PROVE  IInv'
<1>0. TypeOK /\ t \in TxIds /\ Logged("Abort", Key(t)) = {} /\ t \in Nat
  BY FreshId DEF IInv, BeginFails, TxIds
<1>1. /\ next_tx_id' = next_tx_id + 1 /\ AppendFails("Begin", t)
      /\ UNCHANGED <<transactions, stored, writing, connected, boot, committed_lsn>>
  BY DEF BeginFails, tiers, process
<1>2. LogStep("Begin", t)
  BY <1>0, <1>1, FailedIsStep DEF Op
<1>3. TypeOK'
  <2>1. next_tx_id' \in 1..(MaxTx + 1)
    BY <1>0, <1>1, TypedLog DEF TxIds
  <2>2. /\ connected' \in BOOLEAN /\ committed_lsn' \in 0..Len(log) /\ writing' \subseteq TxIds
        /\ stored' \in [Keys -> {"nothing", "part", "all"}]
        /\ transactions' \in [TxIds -> TxState]
    BY <1>0, <1>1 DEF TypeOK
  <2>3. incidents' \in 0..MaxIncidents
    BY <1>0, <1>1, IncidentTyped DEF AppendFails
  <2> QED  BY <1>0, <1>2, <2>1, <2>2, <2>3, TypeKept
<1>4. next_tx_id' >= next_tx_id /\ t < next_tx_id' /\ next_tx_id' \in Nat
  BY <1>0, <1>1
<1>5. TxBacked(t)'
  BY <1>0, <1>1, <1>2, <1>4, TxKept
<1>6. StoredBacked'
  BY <1>1, <1>2, StoredKept
<1> QED  BY <1>0, <1>1, <1>2, <1>3, <1>4, <1>5, <1>6, StepKeeps

(* What an operation on transaction t may rely on.                         *)
LEMMA TxKnown ==
    ASSUME IInv, NEW t \in TxIds, Status(t) # "None"
    PROVE  /\ TypeOK /\ transactions[t] \in TxState /\ transactions[t].lsns # {}
           /\ transactions[t].lsns \subseteq 1..Len(log) /\ Len(log) \in Nat
           /\ Status(t) # "Aborting" => Logged("Abort", Key(t)) = {}
           /\ committed_lsn \in 0..Len(log) /\ incidents \in 0..MaxIncidents
           /\ stored \in [Keys -> {"nothing", "part", "all"}]
           /\ t \in writing => Backed("Prepare", Key(t)) /\ Backed("Commit", Key(t))
           /\ Status(t) \in {"Prepared", "Committing"} => Backed("Prepare", Key(t))
           /\ transactions[t].step # "none" => Status(t) = "Committing" /\ Backed("Commit", Key(t))
BY TypedLog DEF IInv, TxBacked, TypeOK

(* An operation that logs a record and leaves the tiers alone.             *)
LEMMA TxLogOp ==
    ASSUME IInv, NEW op, NEW t \in TxIds, LogStep(op, t), Status(t) # "None",
           NEW s \in TxState, Set(t, s),
           UNCHANGED <<connected, next_tx_id, stored, writing, committed_lsn>>,
           incidents' \in 0..MaxIncidents,
           s.status # "None" => s.lsns # {},
           s.lsns \subseteq 1..Len(log'),
           s.status \in {"Prepared", "Committing"} => Backed("Prepare", Key(t))',
           s.step # "none" => s.status = "Committing" /\ Backed("Commit", Key(t))',
           s.status \in {"None", "Aborting"} \/ (op # "Abort" /\ Logged("Abort", Key(t)) = {}),
           op = "Commit" => Backed("Prepare", Key(t)),
           op = "Abort" \/ Logged("Abort", Key(t)) = {}
    PROVE  IInv'
<1>1. TypeOK /\ Key(t)' = Key(t)
  BY DEF IInv, LogStep, Key
<1>2. t \in writing' => Backed("Prepare", Key(t))' /\ Backed("Commit", Key(t))'
  BY <1>1, TxKnown, BackedStays
<1>3. StoredBacked'
  BY StoredKept
<1>4. /\ stored' \in [Keys -> {"nothing", "part", "all"}] /\ committed_lsn' \in 0..Len(log)
      /\ writing' \subseteq writing \cup {t}
  BY TxKnown
<1> QED  BY <1>2, <1>3, <1>4, TxOp

LEMMA AddLineageOK ==
    ASSUME IInv, NEW t \in TxIds, AddLineage(t)
    PROVE  IInv'
<1> DEFINE w == transactions[t]
           s == [w EXCEPT !.lsns = @ \cup {NextLsn}, !.lineage = TRUE]
<1>1. /\ Status(t) = "Active" /\ Appended("Lineage", t) /\ Set(t, s)
      /\ UNCHANGED <<connected, next_tx_id, stored, writing, committed_lsn, boot, incidents>>
  BY DEF AddLineage, tiers, process
<1>2. LogStep("Lineage", t) /\ Len(log') = Len(log) + 1
  BY <1>1, TxKnown, AppendedIsStep DEF Op
<1>3. w.lsns \cup {NextLsn} \in SUBSET Nat /\ w.lsns \cup {NextLsn} \subseteq 1..Len(log')
  BY <1>1, <1>2, TxKnown DEF NextLsn
<1>4. /\ s \in TxState /\ s.status = "Active" /\ s.step = w.step
      /\ s.lsns = w.lsns \cup {NextLsn}
  BY <1>1, <1>3, TxKnown DEF TxState, Status
<1> HIDE DEF s
<1>5. s.step = "none"
  BY <1>1, <1>4, TxKnown
<1> QED  BY <1>1, <1>2, <1>3, <1>4, <1>5, TxKnown, TxLogOp

LEMMA AddLineageFailsOK ==
    ASSUME IInv, NEW t \in TxIds, AddLineageFails(t)
    PROVE  IInv'
<1> DEFINE s == transactions[t]
<1>1. /\ Status(t) = "Active" /\ AppendFails("Lineage", t)
      /\ UNCHANGED <<transactions, connected, next_tx_id, stored, writing, committed_lsn, boot>>
  BY DEF AddLineageFails, tiers, process
<1>2. LogStep("Lineage", t) /\ incidents' \in 0..MaxIncidents
  BY <1>1, TxKnown, FailedIsStep, IncidentTyped DEF Op, AppendFails
<1>3. Set(t, s)
  BY <1>1, TxKnown DEF Set, TypeOK
<1>4. s.step = "none" /\ s.status = "Active" /\ s.lsns # {} /\ s \in TxState
  BY <1>1, TxKnown DEF Status
<1>5. s.lsns \subseteq 1..Len(log')
  BY <1>1, <1>2, TxKnown DEF LogStep
<1> QED  BY <1>1, <1>2, <1>3, <1>4, <1>5, TxKnown, TxLogOp

LEMMA PrepareOK ==
    ASSUME IInv, NEW t \in TxIds, Prepare(t)
    PROVE  IInv'
<1> DEFINE w == transactions[t]
           s == [w EXCEPT !.status = "Prepared", !.lsns = @ \cup {NextLsn}]
<1>1. /\ Status(t) = "Active" /\ Appended("Prepare", t) /\ Set(t, s)
      /\ UNCHANGED <<connected, next_tx_id, stored, writing, committed_lsn, boot, incidents>>
  BY DEF Prepare, tiers, process
<1>2. LogStep("Prepare", t) /\ Len(log') = Len(log) + 1 /\ Backed("Prepare", Key(t))'
  BY <1>1, TxKnown, AppendedIsStep DEF Op
<1>3. w.lsns \cup {NextLsn} \in SUBSET Nat /\ w.lsns \cup {NextLsn} \subseteq 1..Len(log')
  BY <1>1, <1>2, TxKnown DEF NextLsn
<1>4. /\ s \in TxState /\ s.status = "Prepared" /\ s.step = w.step
      /\ s.lsns = w.lsns \cup {NextLsn}
  BY <1>1, <1>3, TxKnown DEF TxState, TransactionStatus
<1> HIDE DEF s
<1>5. s.step = "none"
  BY <1>1, <1>4, TxKnown
<1> QED  BY <1>1, <1>2, <1>3, <1>4, <1>5, TxKnown, TxLogOp

(* The record is refused, and perhaps written.                             *)
LEMMA LogFailsOK ==
    ASSUME IInv, NEW t \in TxIds, PrepareFails(t) \/ CommitLogFails(t) \/ AbortFails(t)
    PROVE  IInv'
<1> DEFINE w == transactions[t]
<1>1. PICK op \in {"Prepare", "Commit", "Abort"},
           st \in {"Preparing", "Committing", "Aborting"} :
        /\ AppendFails(op, t) /\ Status(t) # "None"
        /\ st = "Aborting" <=> op = "Abort"
        /\ st = "Committing" => Status(t) = "Prepared"
        /\ op = "Commit" => Status(t) = "Prepared"
        /\ op # "Abort" => Status(t) \in {"Active", "Prepared"}
        /\ w.step # "none" => Status(t) \in {"Active", "Prepared"}
        /\ Set(t, [w EXCEPT !.status = st])
        /\ UNCHANGED <<connected, next_tx_id, stored, writing, committed_lsn, boot>>
  <2>1. CASE PrepareFails(t)
    BY <2>1 DEF PrepareFails, tiers, process
  <2>2. CASE CommitLogFails(t)
    BY <2>2 DEF CommitLogFails, MayCommit, tiers, process
  <2>3. CASE AbortFails(t)
    BY <2>3 DEF AbortFails, MayAbort, Free, tiers, process
  <2> QED  BY <2>1, <2>2, <2>3
<1> DEFINE s == [w EXCEPT !.status = st]
<1>2. LogStep(op, t) /\ incidents' \in 0..MaxIncidents
  BY <1>1, TxKnown, FailedIsStep, IncidentTyped DEF Op, AppendFails
<1>3. s \in TxState /\ s.status = st /\ s.step = w.step /\ s.lsns = w.lsns /\ Set(t, s)
  BY <1>1, TxKnown DEF TxState, TransactionStatus
<1> HIDE DEF s
<1>4. s.step = "none"
  BY <1>1, <1>3, TxKnown
<1>5. s.lsns \subseteq 1..Len(log') /\ s.lsns # {}
  BY <1>1, <1>2, <1>3, TxKnown DEF LogStep
<1>6. st = "Committing" => Backed("Prepare", Key(t)) /\ Backed("Prepare", Key(t))'
  <2>1. TypeOK /\ Key(t)' = Key(t)
    BY <1>1 DEF Key, IInv
  <2> QED  BY <1>1, <1>2, <2>1, TxKnown, BackedStays
<1>7. op # "Abort" => Logged("Abort", Key(t)) = {}
  BY <1>1, TxKnown
<1>8. op = "Commit" => Backed("Prepare", Key(t))
  BY <1>1, TxKnown
<1> QED  BY <1>1, <1>2, <1>3, <1>4, <1>5, <1>6, <1>7, <1>8, TxLogOp

LEMMA CommitLogOK ==
    ASSUME IInv, NEW t \in TxIds, CommitLog(t)
    PROVE  IInv'
<1> DEFINE w == transactions[t]
           s == [w EXCEPT !.status = "Committing", !.step = "logged"]
<1>1. /\ Status(t) = "Prepared" /\ Appended("Commit", t) /\ Set(t, s)
      /\ UNCHANGED <<connected, next_tx_id, stored, writing, committed_lsn, boot, incidents>>
  BY DEF CommitLog, MayCommit, tiers, process
<1>2. LogStep("Commit", t) /\ Len(log') = Len(log) + 1 /\ Backed("Commit", Key(t))'
  BY <1>1, TxKnown, AppendedIsStep DEF Op
<1>3. s \in TxState /\ s.status = "Committing" /\ s.lsns = w.lsns
  BY <1>1, TxKnown DEF TxState, TransactionStatus
<1> HIDE DEF s
<1>4. Backed("Prepare", Key(t)) /\ Backed("Prepare", Key(t))'
  <2>1. TypeOK /\ Key(t)' = Key(t)
    BY <1>1 DEF Key, IInv
  <2> QED  BY <1>1, <1>2, <2>1, TxKnown, BackedStays
<1>5. s.lsns \subseteq 1..Len(log')
  BY <1>1, <1>2, <1>3, TxKnown
<1> QED  BY <1>1, <1>2, <1>3, <1>4, <1>5, TxKnown, TxLogOp

LEMMA AbortOK ==
    ASSUME IInv, NEW t \in TxIds, Abort(t)
    PROVE  IInv'
<1>1. /\ Status(t) # "None" /\ Appended("Abort", t) /\ Set(t, NoTx)
      /\ UNCHANGED <<connected, next_tx_id, stored, writing, committed_lsn, boot, incidents>>
  BY DEF Abort, MayAbort, AfterAbort, Free, tiers, process
<1>2. LogStep("Abort", t)
  BY <1>1, TxKnown, AppendedIsStep DEF Op
<1>3. NoTx \in TxState /\ NoTx.status = "None" /\ NoTx.step = "none" /\ NoTx.lsns = {}
  BY DEF NoTx, TxState
<1> QED  BY <1>1, <1>2, <1>3, TxKnown, TxLogOp

(* The tiers are written for a transaction whose records are in the log.   *)
LEMMA StoreOK ==
    ASSUME IInv, NEW t \in TxIds, UNCHANGED <<log, durable, boot>>,
           NEW v \in {"nothing", "part", "all"},
           stored' \in {stored, [stored EXCEPT ![Key(t)] = v]},
           Backed("Prepare", Key(t)), Backed("Commit", Key(t))
    PROVE  StoredBacked' /\ stored' \in [Keys -> {"nothing", "part", "all"}]
<1>1. /\ \A k \in Keys : stored'[k] = stored[k] \/ k = Key(t)
      /\ stored' \in [Keys -> {"nothing", "part", "all"}]
  BY DEF IInv, TypeOK, Key, Keys
<1>2. \A op, k : Backed(op, k)' = Backed(op, k)
  BY DEF Backed, Logged
<1>3. Key(t)[1] = boot /\ boot <= boot
  BY TypedLog DEF Key, IInv
<1> QED  BY <1>1, <1>2, <1>3 DEF IInv, StoredBacked

LEMMA CommitApplyOK ==
    ASSUME IInv, NEW t \in TxIds, CommitApply(t) \/ CommitApplyFails(t)
    PROVE  IInv'
<1> DEFINE w == transactions[t]
<1>1. PICK sp \in {"none", "applied"}, v \in {"nothing", "part", "all"} :
        /\ w.step = "logged"
        /\ Set(t, [w EXCEPT !.step = sp])
        /\ stored' \in {stored, [stored EXCEPT ![Key(t)] = v]}
        /\ Incident \/ UNCHANGED incidents
        /\ UNCHANGED <<connected, next_tx_id, writing, committed_lsn, log, durable, boot>>
  BY DEF CommitApply, CommitApplyFails, MayApply, PartlyStored, wal, process
<1> DEFINE s == [w EXCEPT !.step = sp]
<1>2. Status(t) = "Committing" /\ Backed("Prepare", Key(t)) /\ Backed("Commit", Key(t))
  BY <1>1 DEF IInv, TxBacked
<1>3. s \in TxState /\ s.status = "Committing" /\ s.step = sp /\ s.lsns = w.lsns
  BY <1>1, <1>2, TxKnown DEF TxState, Status
<1> HIDE DEF s
<1>4. StoredBacked' /\ stored' \in [Keys -> {"nothing", "part", "all"}]
  BY <1>1, <1>2, StoreOK
<1>5. LogStep("Lineage", t) /\ incidents' \in 0..MaxIncidents
  BY <1>1, SameIsStep, IncidentTyped DEF IInv
<1>6. Backed("Prepare", Key(t))' /\ Backed("Commit", Key(t))'
  <2>1. Key(t)' = Key(t) /\ TypeOK
    BY <1>1 DEF Key, IInv
  <2> QED  BY <1>2, <1>5, <2>1, BackedStays
<1>7. Set(t, s) /\ s.lsns # {} /\ s.lsns \subseteq 1..Len(log')
  BY <1>1, <1>2, <1>3, TxKnown DEF s
<1>8. Logged("Abort", Key(t)) = {} /\ committed_lsn' \in 0..Len(log)
  BY <1>1, <1>2, TxKnown
<1> QED  BY <1>1, <1>2, <1>3, <1>4, <1>5, <1>6, <1>7, <1>8, TxOp

(* A set of LSNs that is not empty has a greatest one.                     *)
LEMMA GreatestLsn ==
    ASSUME NEW n \in Nat, NEW S, S \subseteq 1..n, S # {}
    PROVE  (CHOOSE l \in S : \A m \in S : m <= l) \in S
<1> DEFINE Bounds == {u \in Nat : \A m \in S : m <= u}
           R == OpToRel(<, Nat)
<1>1. n \in Bounds /\ Bounds \subseteq Nat
  OBVIOUS
<1>2. IsWellFoundedOn(R, Nat) /\ (\A p, q \in Nat : q < p => <<q, p>> \in R)
  BY NatLessThanWellFounded DEF OpToRel
<1> HIDE DEF R
<1>3. PICK u \in Bounds : \A q \in Bounds : ~(<<q, u>> \in R)
  BY <1>1, <1>2, WFMin
<1>4. u \in S
  <2>1. SUFFICES ASSUME u \notin S PROVE FALSE
    OBVIOUS
  <2>2. u # 0 /\ u \in Nat
    <3>1. PICK m \in S : m <= u /\ m \in 1..n
      OBVIOUS
    <3> QED  BY <3>1
  <2>3. u - 1 \in Bounds
    BY <2>1, <2>2
  <2>4. u - 1 < u /\ u - 1 \in Nat
    BY <2>2
  <2> QED  BY <1>2, <1>3, <2>2, <2>3, <2>4
<1> QED  BY <1>3, <1>4

LEMMA CommitFinishOK ==
    ASSUME IInv, NEW t \in TxIds, CommitFinish(t)
    PROVE  IInv'
<1> DEFINE w == transactions[t]
<1>1. /\ w.step = "applied" /\ Set(t, NoTx) /\ writing' \subseteq writing \cup {t}
      /\ committed_lsn' = CHOOSE l \in w.lsns : \A m \in w.lsns : m <= l
      /\ UNCHANGED <<connected, next_tx_id, stored, log, durable, boot, incidents>>
  BY DEF CommitFinish, AfterCommit, process
<1>2. Status(t) = "Committing" /\ Backed("Prepare", Key(t)) /\ Backed("Commit", Key(t))
  BY <1>1 DEF IInv, TxBacked
<1>3. committed_lsn' \in 0..Len(log)
  BY <1>1, <1>2, TxKnown, GreatestLsn
<1>4. LogStep("Lineage", t)
  BY <1>1, SameIsStep DEF IInv
<1>5. Backed("Prepare", Key(t))' /\ Backed("Commit", Key(t))'
  <2>1. Key(t)' = Key(t) /\ TypeOK
    BY <1>1 DEF Key, IInv
  <2> QED  BY <1>2, <1>4, <2>1, BackedStays
<1>6. StoredBacked' /\ stored' \in [Keys -> {"nothing", "part", "all"}]
  BY <1>1, <1>2, <1>4, StoredKept, TxKnown
<1>7. NoTx \in TxState /\ NoTx.status = "None" /\ NoTx.step = "none" /\ NoTx.lsns = {}
  BY DEF NoTx, TxState
<1>8. Logged("Abort", Key(t)) = {} /\ incidents' \in 0..MaxIncidents
  BY <1>1, <1>2, TxKnown
<1> QED  BY <1>1, <1>2, <1>3, <1>4, <1>5, <1>6, <1>7, <1>8, TxOp

(* Steps that touch no transaction in the map.                             *)
LEMMA OtherOK ==
    ASSUME IInv, NEW op \in {"Checkpoint", "Lineage"}, LogStep(op, 0),
           UNCHANGED <<next_tx_id, transactions, committed_lsn>>,
           connected' \in BOOLEAN, writing' \subseteq writing, incidents' \in 0..MaxIncidents,
           stored' \in [Keys -> {"nothing", "part", "all"}], StoredBacked'
    PROVE  IInv'
<1>1. /\ TypeOK /\ 0 < next_tx_id' /\ next_tx_id' >= next_tx_id /\ 0 \notin TxIds
      /\ writing' \subseteq TxIds /\ next_tx_id' \in 1..(MaxTx + 1)
      /\ transactions' \in [TxIds -> TxState] /\ committed_lsn' \in 0..Len(log)
  BY TypedLog DEF IInv, TypeOK, TxIds
<1>2. TypeOK'
  BY <1>1, TypeKept
<1> QED  BY <1>1, <1>2, StepKeeps

LEMMA WriteTiersOK ==
    ASSUME IInv, NEW t \in TxIds, WriteTiers(t)
    PROVE  IInv'
<1>1. PICK v \in {"nothing", "part", "all"} :
        /\ t \in writing /\ writing' = writing \ {t}
        /\ stored' \in {stored, [stored EXCEPT ![Key(t)] = v]}
        /\ Incident \/ UNCHANGED incidents
        /\ UNCHANGED <<next_tx_id, transactions, connected, committed_lsn, log, durable, boot>>
  BY DEF WriteTiers, PartlyStored, wal, process
<1>2. Backed("Prepare", Key(t)) /\ Backed("Commit", Key(t))
  BY <1>1 DEF IInv, TxBacked
<1>3. StoredBacked' /\ stored' \in [Keys -> {"nothing", "part", "all"}]
  BY <1>1, <1>2, StoreOK
<1>4. LogStep("Lineage", 0) /\ incidents' \in 0..MaxIncidents /\ connected' \in BOOLEAN
  BY <1>1, SameIsStep, IncidentTyped DEF IInv, TypeOK
<1> QED  BY <1>1, <1>3, <1>4, OtherOK

LEMMA AsideOK ==
    ASSUME IInv, ConnectStorage \/ Checkpoint \/ CheckpointFails \/ UNCHANGED vars
    PROVE  IInv'
<1>1. /\ UNCHANGED <<next_tx_id, transactions, stored, writing, committed_lsn, boot>>
      /\ connected' \in BOOLEAN /\ (Incident \/ UNCHANGED incidents)
  BY DEF ConnectStorage, Checkpoint, CheckpointFails, AppendFails, vars, wal, tiers, process,
         IInv, TypeOK
<1>2. LogStep("Checkpoint", 0)
  <2>1. CASE UNCHANGED <<log, durable>>
    BY <1>1, <2>1, SameIsStep DEF IInv
  <2>2. CASE Checkpoint
    BY <1>1, <2>2, AppendIsStep DEF Checkpoint, IInv, Op
  <2>3. CASE CheckpointFails
    BY <1>1, <2>3, FailedIsStep DEF CheckpointFails, IInv, Op
  <2> QED  BY <2>1, <2>2, <2>3 DEF ConnectStorage, vars, wal
<1>3. StoredBacked' /\ incidents' \in 0..MaxIncidents
  BY <1>1, <1>2, StoredKept, IncidentTyped DEF IInv
<1>4. stored' \in [Keys -> {"nothing", "part", "all"}]
  BY <1>1 DEF IInv, TypeOK
<1> QED  BY <1>1, <1>2, <1>3, <1>4, OtherOK

LEMMA RestartOK ==
    ASSUME IInv, Restart
    PROVE  IInv'
<1>1. PICK n \in durable..Len(log) : log' = SubSeq(log, 1, n) /\ durable' = n
  BY DEF Restart
<1>2. /\ boot' = boot + 1 /\ boot' \in Boots /\ next_tx_id' = 1
      /\ transactions' = [t \in TxIds |-> NoTx] /\ committed_lsn' = 0 /\ writing' = {}
      /\ connected' = FALSE /\ UNCHANGED <<stored, incidents>>
  BY TypedLog DEF Restart, IInv, TypeOK, Boots
<1>3. /\ log' \in Seq(LogRecord) /\ Len(log') = n /\ DOMAIN log' = 1..n
      /\ \A i \in 1..n : log'[i] = log[i] /\ i \in DOMAIN log
  <2>1. log \in Seq(LogRecord) /\ Len(log) \in Nat /\ n \in 0..Len(log) /\ DOMAIN log = 1..Len(log)
    BY TypedLog DEF IInv
  <2>2. /\ log' \in Seq(LogRecord) /\ Len(log') = n
        /\ \A i \in 1..n : log'[i] = log[i]
    BY <1>1, <2>1, SubSeqProperties
  <2> QED  BY <2>1, <2>2, LenProperties
<1>4. durable \in Nat /\ durable <= n /\ n \in Nat /\ boot \in Nat
  BY TypedLog DEF IInv
<1>5. NoTx \in TxState /\ NoTx.status = "None" /\ NoTx.step = "none" /\ NoTx.lsns = {}
  BY DEF NoTx, TxState
<1>6. TypeOK'
  <2>1. transactions' \in [TxIds -> TxState]
    BY <1>2, <1>5
  <2>2. next_tx_id' \in 1..(MaxTx + 1)
    BY <1>2, TypedLog DEF IInv
  <2>3. durable' \in 0..Len(log') /\ committed_lsn' \in 0..Len(log')
    BY <1>1, <1>2, <1>3, <1>4
  <2> QED  BY <1>2, <1>3, <2>1, <2>2, <2>3 DEF IInv, TypeOK, LogRecord, Keys, Boots
<1>7. \A i \in 1..n : log[i].key[1] < boot'
  <2> SUFFICES ASSUME NEW i \in 1..n PROVE log[i].key[1] < boot'
    OBVIOUS
  <2>1. log[i] \in LogRecord /\ i \in DOMAIN log
    BY <1>3, TypedLog, ElementOfSeq DEF IInv
  <2>2. log[i].key[1] \in Nat
    BY <2>1, TypedLog DEF LogRecord, Boots, IInv
  <2> QED  BY <1>2, <1>4, <2>1, <2>2 DEF IInv, Numbered
<1>8. Numbered'
  <2> SUFFICES ASSUME NEW i \in 1..n
               PROVE  log'[i].key[1] <= boot' /\ log'[i].key[1] # boot'
    BY <1>3 DEF Numbered
  <2>1. log[i] \in LogRecord
    BY <1>3, TypedLog, ElementOfSeq DEF IInv
  <2>2. log[i].key[1] \in Nat /\ boot' \in Nat
    BY <1>2, <1>4, <2>1, TypedLog DEF LogRecord, Boots, IInv
  <2> QED  BY <1>3, <1>7, <2>2
<1>9. \A op, k : Logged(op, k)' = {i \in Logged(op, k) : i <= n}
  BY <1>3, <1>4, TypedLog DEF Logged, IInv
<1>10. \A t \in TxIds : TxBacked(t)'
  <2> SUFFICES ASSUME NEW t \in TxIds PROVE TxBacked(t)'
    OBVIOUS
  <2>1. Status(t)' = "None" /\ transactions'[t].step = "none" /\ transactions'[t].lsns = {}
    BY <1>2, <1>5 DEF Status
  <2> QED  BY <1>2, <2>1 DEF TxBacked, Status
<1>11. StoredBacked'
  <2> SUFFICES ASSUME NEW k \in Keys, stored[k] # "nothing"
               PROVE  /\ k[1] <= boot'
                      /\ k[1] = boot' \/ FsyncMode = "EveryWrite" =>
                           Backed("Prepare", k)' /\ Backed("Commit", k)'
    BY <1>2 DEF StoredBacked, Keys, Boots
  <2>1. k[1] <= boot /\ k[1] \in Nat
    BY <1>4 DEF IInv, StoredBacked, Keys, Boots
  <2>2. FsyncMode = "EveryWrite" => \A op : Backed(op, k) => Backed(op, k)'
    <3> SUFFICES ASSUME FsyncMode = "EveryWrite", NEW op, NEW i \in Logged(op, k), i <= durable
                 PROVE  Backed(op, k)'
      BY DEF Backed
    <3>1. i \in Nat
      BY TypedLog DEF Logged, IInv
    <3>2. i <= n /\ i \in Logged(op, k)'
      BY <1>4, <1>9, <3>1
    <3> QED  BY <1>1, <3>2 DEF Backed
  <2> QED  BY <1>2, <1>4, <2>1, <2>2 DEF IInv, StoredBacked
<1>12. CommitAfterPrepare'
  <2> SUFFICES ASSUME NEW k \in Keys, NEW i \in Logged("Commit", k)'
               PROVE  \E j \in Logged("Prepare", k)' : j < i
    BY DEF CommitAfterPrepare, Keys, Boots, TxIds
  <2>1. i \in Logged("Commit", k) /\ i <= n
    BY <1>9
  <2>2. PICK j \in Logged("Prepare", k) : j < i
    BY <2>1 DEF IInv, CommitAfterPrepare
  <2>3. i \in Nat /\ j \in Nat
    BY <2>1, TypedLog DEF Logged, IInv
  <2> QED  BY <1>4, <1>9, <2>1, <2>2, <2>3
<1>13. AbortIsFinal'
  <2> SUFFICES ASSUME NEW k \in Keys, NEW i \in Logged("Abort", k)', NEW j \in DOMAIN log',
                      log'[j].key = k, j > i
               PROVE  log'[j].op = "Abort"
    BY DEF AbortIsFinal, Keys, Boots, TxIds
  <2>1. i \in Logged("Abort", k) /\ j \in DOMAIN log /\ log'[j] = log[j]
    BY <1>3, <1>9
  <2> QED  BY <2>1 DEF IInv, AbortIsFinal
<1> QED  BY <1>6, <1>8, <1>10, <1>11, <1>12, <1>13 DEF IInv

-----------------------------------------------------------------------------
(* The initial state and the steps.                                        *)

LEMMA InitOK == Init => IInv
<1> SUFFICES ASSUME Init PROVE IInv
  OBVIOUS
<1>1. /\ log = << >> /\ Len(log) = 0 /\ DOMAIN log = {} /\ log \in Seq(LogRecord)
      /\ MaxTx \in Nat /\ MaxBoot \in Nat /\ MaxIncidents \in Nat
  BY CoordinatorAssumption DEF Init
<1>2. NoTx \in TxState /\ NoTx.status = "None" /\ NoTx.step = "none" /\ NoTx.lsns = {}
  BY DEF NoTx, TxState
<1>3. TypeOK
  <2>1. transactions \in [TxIds -> TxState]
    BY <1>2 DEF Init
  <2>2. /\ next_tx_id \in 1..(MaxTx + 1) /\ durable \in 0..Len(log)
        /\ committed_lsn \in 0..Len(log) /\ boot \in Boots /\ incidents \in 0..MaxIncidents
    BY <1>1 DEF Init, Boots
  <2> QED  BY <1>1, <2>1, <2>2 DEF Init, TypeOK, LogRecord
<1>4. \A op, k : Logged(op, k) = {}
  BY <1>1 DEF Logged
<1>5. \A t \in TxIds : TxBacked(t)
  BY <1>2, <1>4 DEF TxBacked, Status, Init
<1>6. Numbered /\ StoredBacked /\ CommitAfterPrepare /\ AbortIsFinal
  BY <1>1, <1>4 DEF Numbered, StoredBacked, CommitAfterPrepare, AbortIsFinal, Init
<1> QED  BY <1>3, <1>5, <1>6 DEF IInv

LEMMA StepOK == IInv /\ [Next]_vars => IInv'
<1> SUFFICES ASSUME IInv, [Next]_vars PROVE IInv'
  OBVIOUS
<1>1. CASE ConnectStorage \/ Checkpoint \/ CheckpointFails \/ UNCHANGED vars
  BY <1>1, AsideOK
<1>2. CASE BeginTransaction
  BY <1>2, BeginOK
<1>3. CASE BeginFails
  BY <1>3, BeginFailsOK
<1>4. CASE Restart
  BY <1>4, RestartOK
<1>5. ASSUME NEW t \in TxIds, AddLineage(t) PROVE IInv'
  BY <1>5, AddLineageOK
<1>6. ASSUME NEW t \in TxIds, AddLineageFails(t) PROVE IInv'
  BY <1>6, AddLineageFailsOK
<1>7. ASSUME NEW t \in TxIds, Prepare(t) PROVE IInv'
  BY <1>7, PrepareOK
<1>8. ASSUME NEW t \in TxIds, PrepareFails(t) \/ CommitLogFails(t) \/ AbortFails(t) PROVE IInv'
  BY <1>8, LogFailsOK
<1>9. ASSUME NEW t \in TxIds, CommitLog(t) PROVE IInv'
  BY <1>9, CommitLogOK
<1>10. ASSUME NEW t \in TxIds, CommitApply(t) \/ CommitApplyFails(t) PROVE IInv'
  BY <1>10, CommitApplyOK
<1>11. ASSUME NEW t \in TxIds, CommitFinish(t) PROVE IInv'
  BY <1>11, CommitFinishOK
<1>12. ASSUME NEW t \in TxIds, WriteTiers(t) PROVE IInv'
  BY <1>12, WriteTiersOK
<1>13. ASSUME NEW t \in TxIds, Abort(t) PROVE IInv'
  BY <1>13, AbortOK
<1> QED
  BY <1>1, <1>2, <1>3, <1>4, <1>5, <1>6, <1>7, <1>8, <1>9, <1>10, <1>11, <1>12, <1>13 DEF Next

-----------------------------------------------------------------------------
(* The inductive invariant holds of every state the coordinator reaches.   *)
THEOREM Inductive == Spec => []IInv
<1> QED  BY InitOK, StepOK, PTL DEF Spec

(* The state of the coordinator, of its log and of the tiers is well       *)
(* formed: LSNs kept anywhere point into the log.                          *)
THEOREM TypeCorrect == Spec => []TypeOK
<1>1. IInv => TypeOK
  BY DEF IInv
<1> QED  BY <1>1, Inductive, PTL

(* Write-ahead: when a tier holds events of a transaction, its Prepare and *)
(* its Commit are in the log; in mode EveryWrite also after any crashes    *)
(* (commit: log record, then apply).                                       *)
THEOREM WritesAhead == Spec => []WriteAhead
<1>1. IInv => WriteAhead
  BY DEF IInv, StoredBacked, WriteAhead, Backed
<1> QED  BY <1>1, Inductive, PTL

(* Every Commit in the log comes after a Prepare of the same transaction,  *)
(* also in the prefix of the log that a crash leaves.                      *)
THEOREM CommitsPrepared == Spec => []CommitAfterPrepare
<1>1. IInv => CommitAfterPrepare
  BY DEF IInv
<1> QED  BY <1>1, Inductive, PTL

(* After an Abort record only further attempts to abort are logged for the *)
(* transaction, whoever aborted it, its owner or the timeout handler.      *)
THEOREM AbortsFinal == Spec => []AbortIsFinal
<1>1. IInv => AbortIsFinal
  BY DEF IInv
<1> QED  BY <1>1, Inductive, PTL
=============================================================================
