------------------------------ MODULE LoaderJobs ------------------------------
(***************************************************************************)
(* One loader job, from its registration to the table it loads:            *)
(* LoaderJobManager and LoaderWorker (mapping/loader/orchestration) over   *)
(* the checkpoint file (mapping/loader/checkpoint.rs).                     *)
(*                                                                         *)
(* The manager's operations lock the job's entry for their whole length,   *)
(* except register_job, which looks and inserts in two steps.  A worker    *)
(* runs beside them; its steps are cut at its awaits and at its file       *)
(* operations.  Jobs share nothing but the directory, so one is enough.    *)
(* A crash takes the manager and the workers; file and table stay.         *)
(*                                                                         *)
(* A row is read, passed on as it is (process_row cannot fail in this      *)
(* version, so the dead letter queue stays empty) and put into the batch.  *)
(***************************************************************************)
EXTENDS Naturals, FiniteSets, Sequences

CONSTANTS
    Files,              \* source files: a sequence of rows, TRUE for one that parses
    BatchSize,          \* config.batch_size
    Interval,           \* config.checkpoint_interval_rows
    MaxErrors,          \* the reader's max_errors
    MaxRegistrations,   \* bound: entries made
    MaxRegistering,     \* bound: calls of register_job at the same time
    MaxIncidents,       \* bound: failing batches and checkpoint writes
    MaxCrashes          \* bound

ASSUME LoaderAssumption ==
    /\ \A f \in Files : f \in Seq(BOOLEAN)
    /\ {BatchSize, Interval, MaxErrors} \subseteq Nat \ {0}
    /\ {MaxRegistrations, MaxRegistering, MaxIncidents, MaxCrashes} \subseteq Nat

VARIABLES
    file,               \* the source file
    job,                \* the job's entry: its status and its cancellation token
    cancelled,          \* tokens that are cancelled
    registering,        \* register_job calls that found no entry and have yet to insert
    registered,         \* entries made so far; the number is the entry's token
    worker,             \* worker[t]: the worker started for the entry with token t
    ckpt,               \* the checkpoint file
    table,              \* external: how often each row has been loaded
    incidents, crashes,
    dropped,            \* history: rows a resuming worker passed over unloaded
    exposed,            \* history: loaded rows no checkpoint covered at a crash
    replaced            \* history: an insert has replaced an entry

vars == <<file, job, cancelled, registering, registered, worker, ckpt, table,
          incidents, crashes, dropped, exposed, replaced>>
manager == <<job, cancelled, registering, registered>>
outside == <<table, dropped, exposed>>
bounds == <<file, incidents, crashes, replaced>>

Tokens == 1..MaxRegistrations
Rows == 1..Len(file)
Good == {r \in Rows : file[r]}

Terminal == {"Completed", "Failed", "Cancelled"}
Stage == {"off", "starting", "loop", "batch", "after", "final", "write", "return"}

(* pos: records the reader has read; row: checkpoint.current_row; since:   *)
(* rows_since_checkpoint; save: the state a write puts in the file; end:   *)
(* how the run ends, "none" if it goes on.                                 *)
NoWorker == [stage |-> "off", pos |-> 0, row |-> 0, batch |-> {}, since |-> 0,
             save |-> "none", end |-> "none"]

(* batch is history: the rows in memory when the file was written.         *)
NoCheckpoint == [state |-> "none", row |-> 0, batch |-> {}]
Torn == [state |-> "torn", row |-> 0, batch |-> {}]

TypeOK ==
    /\ file \in Files
    /\ job \in [status : {"None", "Pending", "Running"} \cup Terminal, token : 0..MaxRegistrations]
    /\ cancelled \subseteq Tokens
    /\ registering \in 0..MaxRegistering /\ registered \in 0..MaxRegistrations
    /\ worker \in [Tokens -> [stage : Stage, pos : 0..Len(file), row : 0..Len(file),
                              batch : SUBSET Good, since : 0..Interval,
                              save : {"none", "Paused", "Completed", "Failed"},
                              end : {"none"} \cup Terminal]]
    /\ ckpt \in [state : {"none", "torn", "Paused", "Completed", "Failed"},
                 row : 0..Len(file), batch : SUBSET Good]
    /\ table \in [Rows -> Nat]
    /\ dropped \subseteq Good /\ exposed \subseteq Good /\ replaced \in BOOLEAN
    /\ incidents \in 0..MaxIncidents /\ crashes \in 0..MaxCrashes

Init ==
    /\ file \in Files
    /\ job = [status |-> "None", token |-> 0]
    /\ cancelled = {} /\ registering = 0 /\ registered = 0
    /\ worker = [t \in Tokens |-> NoWorker]
    /\ ckpt = NoCheckpoint
    /\ table = [r \in Rows |-> 0]
    /\ incidents = 0 /\ crashes = 0
    /\ dropped = {} /\ exposed = {} /\ replaced = FALSE

-----------------------------------------------------------------------------
(* The manager.                                                            *)

RegisterCheck ==
    /\ job.status = "None"
    /\ registering < MaxRegistering
    /\ registering' = registering + 1
    /\ UNCHANGED <<job, cancelled, registered, worker, ckpt, outside, bounds>>

RegisterInsert ==
    /\ registering > 0 /\ registered < MaxRegistrations
    /\ registering' = registering - 1
    /\ registered' = registered + 1
    /\ job' = [status |-> "Pending", token |-> registered + 1]
    /\ replaced' = (replaced \/ job.status # "None")
    /\ UNCHANGED <<cancelled, worker, ckpt, outside, file, incidents, crashes>>

(* A plausible slip: a run that has ended may be started again.            *)
CanStart_Again == job.status \in {"Pending"} \cup Terminal

CanStart == job.status = "Pending"

(* A plausible slip: mark_started is left to the worker.                   *)
StartJob_NotMarked ==
    /\ CanStart
    /\ worker[job.token].stage = "off"
    /\ worker' = [worker EXCEPT ![job.token] = [NoWorker EXCEPT !.stage = "starting"]]
    /\ UNCHANGED <<manager, ckpt, outside, bounds>>

StartJob ==
    /\ CanStart
    /\ job' = [job EXCEPT !.status = "Running"]
    /\ worker' = [worker EXCEPT ![job.token] = [NoWorker EXCEPT !.stage = "starting"]]
    /\ UNCHANGED <<cancelled, registering, registered, ckpt, outside, bounds>>

(* Only the token is set: a Pending job stays Pending, and is cancelled    *)
(* when it is started.                                                     *)
CancelJob ==
    /\ job.status \in {"Pending", "Running"}
    /\ cancelled' = cancelled \cup {job.token}
    /\ UNCHANGED <<job, registering, registered, worker, ckpt, outside, bounds>>

(* shutdown cancels what is Running and waits; the end of the process is   *)
(* Crash, when all workers have ended or the wait has timed out.           *)
Shutdown ==
    /\ job.status = "Running"
    /\ cancelled' = cancelled \cup {job.token}
    /\ UNCHANGED <<job, registering, registered, worker, ckpt, outside, bounds>>

-----------------------------------------------------------------------------
(* The worker.                                                             *)

Step(t, w) == worker' = [worker EXCEPT ![t] = w]

Malformed(p) == Cardinality({r \in 1..p : ~file[r]})

(* A plausible slip: the seek reads one row less.                          *)
SeekTo_Short(n) ==
    {p \in 0..Len(file) : Cardinality({r \in 1..p : file[r]}) = (IF n = 0 THEN 0 ELSE n - 1)
                          /\ (p > 0 => file[p])}

(* seek_to_row(n): where the reader stands after n rows that parse; n is a *)
(* row number, which counts the malformed ones as well.  The set is empty  *)
(* when the file ends or there are too many errors before that.            *)
SeekTo(n) ==
    {p \in 0..Len(file) : /\ Cardinality({r \in 1..p : file[r]}) = n
                          /\ p > 0 => file[p]
                          /\ Malformed(p) < MaxErrors}

(* resume_or_create and the seek.                                          *)
Begin(t) ==
    /\ worker[t].stage = "starting"
    /\ ckpt.state \in {"none", "Paused", "Failed"}
    /\ \E p \in SeekTo(ckpt.row) :
         /\ Step(t, [worker[t] EXCEPT !.stage = "loop", !.row = ckpt.row, !.pos = p])
         /\ dropped' = dropped \cup {r \in Good : r <= p /\ table[r] = 0}
    /\ UNCHANGED <<manager, ckpt, table, exposed, bounds>>

(* The checkpoint is Completed or cannot be parsed, or the seek fails.     *)
BeginFails(t) ==
    /\ worker[t].stage = "starting"
    /\ ckpt.state \in {"Completed", "torn"} \/ SeekTo(ckpt.row) = {}
    /\ Step(t, [worker[t] EXCEPT !.stage = "return", !.end = "Failed"])
    /\ UNCHANGED <<manager, ckpt, outside, bounds>>

(* save_checkpoint: File::create has emptied the file, the rest follows.   *)
(* (A create that fails, and leaves the old file, is taken for a write     *)
(* that fails: the run ends the same.)                                     *)
Save(t, w, state, end) ==
    /\ Step(t, [w EXCEPT !.stage = "write", !.save = state, !.end = end])
    /\ ckpt' = Torn

NextGood(p) == {r \in Good : r > p /\ \A q \in Good : q > p => r <= q}
TooManyErrors(p) ==
    LET ahead == IF NextGood(p) = {} THEN Len(file) ELSE CHOOSE r \in NextGood(p) : TRUE
    IN  Malformed(ahead) > Malformed(p) /\ Malformed(ahead) >= MaxErrors

(* The head of the loop without a cancellation.                            *)
Reading(t) == worker[t].stage = "loop" /\ t \notin cancelled

(* next_row, process_row, push and record_success.                         *)
ReadRow(t) ==
    /\ Reading(t) /\ ~TooManyErrors(worker[t].pos)
    /\ \E r \in NextGood(worker[t].pos) :
         LET batch == worker[t].batch \cup {r}
         IN  Step(t, [worker[t] EXCEPT
               !.pos = r, !.row = r, !.batch = batch,
               !.since = IF @ < Interval THEN @ + 1 ELSE @,
               !.stage = IF Cardinality(batch) >= BatchSize THEN "batch" ELSE "after"])
    /\ UNCHANGED <<manager, ckpt, outside, bounds>>

(* The reader gives up: mark_failed saves the checkpoint.                  *)
ReadFails(t) ==
    /\ Reading(t) /\ TooManyErrors(worker[t].pos)
    /\ Save(t, worker[t], "Failed", "Failed")
    /\ UNCHANGED <<manager, outside, bounds>>

(* A plausible slip: the last batch is taken for loaded.                   *)
ReadEof_NoBatch(t) ==
    /\ Reading(t) /\ ~TooManyErrors(worker[t].pos) /\ NextGood(worker[t].pos) = {}
    /\ Save(t, [worker[t] EXCEPT !.batch = {}], "Completed", "Completed")
    /\ UNCHANGED <<manager, outside, bounds>>

ReadEof(t) ==
    /\ Reading(t) /\ ~TooManyErrors(worker[t].pos) /\ NextGood(worker[t].pos) = {}
    /\ IF worker[t].batch # {}
       THEN Step(t, [worker[t] EXCEPT !.stage = "final"]) /\ UNCHANGED ckpt
       ELSE Save(t, worker[t], "Completed", "Completed")
    /\ UNCHANGED <<manager, outside, bounds>>

(* A plausible slip: the worker that sees its cancellation saves and goes  *)
(* on.                                                                     *)
SeeCancel_Loop(t) ==
    /\ worker[t].stage = "loop" /\ t \in cancelled
    /\ Save(t, worker[t], "Paused", "none")
    /\ UNCHANGED <<manager, outside, bounds>>

(* The rows in the batch are given up, but not in the checkpoint.          *)
SeeCancel(t) ==
    /\ worker[t].stage = "loop" /\ t \in cancelled
    /\ Save(t, worker[t], "Paused", "Cancelled")
    /\ UNCHANGED <<manager, outside, bounds>>

(* execute_batch, one statement for all rows of the batch.  Without a      *)
(* connection manager, as start_job builds the worker, it sleeps and says  *)
(* that all were loaded: the table is then what the worker and its         *)
(* checkpoint take to be loaded.                                           *)
TableWith(batch) == [r \in Rows |-> IF r \in batch THEN table[r] + 1 ELSE table[r]]

(* A plausible slip: current_batch.clear() is forgotten.                   *)
ExecuteBatch_NotCleared(t) ==
    /\ worker[t].stage \in {"batch", "final"}
    /\ table' = TableWith(worker[t].batch)
    /\ IF worker[t].stage = "batch"
       THEN Step(t, [worker[t] EXCEPT !.stage = "after"]) /\ UNCHANGED ckpt
       ELSE Save(t, worker[t], "Completed", "Completed")
    /\ UNCHANGED <<manager, dropped, exposed, bounds>>

(* The batch is executed and cleared; after the last one the checkpoint is *)
(* finalized.                                                              *)
ExecuteBatch(t) ==
    /\ worker[t].stage \in {"batch", "final"}
    /\ table' = TableWith(worker[t].batch)
    /\ LET loaded == [worker[t] EXCEPT !.batch = {}]
       IN  IF worker[t].stage = "batch"
           THEN Step(t, [loaded EXCEPT !.stage = "after"]) /\ UNCHANGED ckpt
           ELSE Save(t, loaded, "Completed", "Completed")
    /\ UNCHANGED <<manager, dropped, exposed, bounds>>

Incident == incidents < MaxIncidents /\ incidents' = incidents + 1

(* fail_batch changes only the checkpoint in memory.                       *)
ExecuteBatchFails(t) ==
    /\ worker[t].stage \in {"batch", "final"}
    /\ Incident
    /\ Step(t, [worker[t] EXCEPT !.stage = "return", !.end = "Failed"])
    /\ UNCHANGED <<manager, ckpt, outside, file, crashes, replaced>>

(* should_checkpoint: by the number of rows, or by the clock at any time,  *)
(* also with rows in the batch.                                            *)
Checkpoint(t) ==
    /\ worker[t].stage = "after"
    /\ Save(t, worker[t], "Paused", "none")
    /\ UNCHANGED <<manager, outside, bounds>>

NoCheckpointYet(t) ==
    /\ worker[t].stage = "after" /\ worker[t].since < Interval
    /\ Step(t, [worker[t] EXCEPT !.stage = "loop"])
    /\ UNCHANGED <<manager, ckpt, outside, bounds>>

Write(t) ==
    /\ worker[t].stage = "write"
    /\ ckpt' = [state |-> worker[t].save, row |-> worker[t].row, batch |-> worker[t].batch]
    /\ Step(t, [worker[t] EXCEPT !.since = 0, !.save = "none",
                  !.stage = IF worker[t].end = "none" THEN "loop" ELSE "return"])
    /\ UNCHANGED <<manager, outside, bounds>>

WriteFails(t) ==
    /\ worker[t].stage = "write"
    /\ Incident
    /\ Step(t, [worker[t] EXCEPT !.stage = "return", !.end = "Failed", !.save = "none"])
    /\ UNCHANGED <<manager, ckpt, outside, file, crashes, replaced>>

(* The spawned task marks the entry that is in the map by then.            *)
Return(t) ==
    /\ worker[t].stage = "return"
    /\ job' = [job EXCEPT !.status = worker[t].end]
    /\ Step(t, [worker[t] EXCEPT !.stage = "off", !.batch = {}])
    /\ UNCHANGED <<cancelled, registering, registered, ckpt, outside, bounds>>

Covered == IF ckpt.state \in {"Paused", "Failed", "Completed"} THEN ckpt.row ELSE 0

Crash ==
    /\ crashes < MaxCrashes
    /\ crashes' = crashes + 1
    /\ job' = [status |-> "None", token |-> 0]
    /\ cancelled' = {} /\ registering' = 0
    /\ worker' = [t \in Tokens |-> NoWorker]
    /\ exposed' = exposed \cup {r \in Good : table[r] > 0 /\ r > Covered}
    /\ UNCHANGED <<registered, ckpt, table, dropped, file, incidents, replaced>>

WorkerStep(t) ==
    \/ Begin(t) \/ BeginFails(t)
    \/ ReadRow(t) \/ ReadFails(t) \/ ReadEof(t) \/ SeeCancel(t)
    \/ ExecuteBatch(t) \/ ExecuteBatchFails(t)
    \/ Checkpoint(t) \/ NoCheckpointYet(t) \/ Write(t) \/ WriteFails(t)
    \/ Return(t)

Next ==
    \/ RegisterCheck \/ RegisterInsert \/ StartJob \/ CancelJob \/ Shutdown
    \/ \E t \in Tokens : WorkerStep(t)
    \/ Crash

(* A spawned task runs until it returns.                                   *)
Spec == Init /\ [][Next]_vars /\ \A t \in Tokens : WF_vars(WorkerStep(t))

-----------------------------------------------------------------------------
Live == {t \in Tokens : worker[t].stage # "off"}

(* No row is lost between two steps of a run: a row the reader has passed  *)
(* is loaded or in the batch, or it was passed over when the run resumed;  *)
(* and a completed load has loaded every row but those.                    *)
RowsAccounted ==
    /\ \A t \in Live : worker[t].stage \notin {"starting", "return"} =>
         \A r \in Good : r <= worker[t].pos =>
           table[r] > 0 \/ r \in worker[t].batch \cup dropped
    /\ ckpt.state = "Completed" => \A r \in Good : table[r] > 0 \/ r \in dropped

(* What a checkpoint says: every row up to current_row is loaded, or was   *)
(* passed over by an earlier resume, or was in the batch in memory when    *)
(* the file was written.                                                   *)
CheckpointTruthful ==
    \A r \in Good : r <= Covered => table[r] > 0 \/ r \in ckpt.batch \cup dropped

(* A row is loaded a second time only if no checkpoint covered it when the *)
(* process went down after the first, or if a registration has replaced    *)
(* the entry of a running job, so that two workers load the same file.  A  *)
(* cancelled run that is taken up again loads nothing twice.               *)
ReloadedWereExposed == \A r \in Good : table[r] > 1 => r \in exposed \/ replaced

(* While no registration has replaced an entry, the status is Running      *)
(* exactly while a worker runs, and there is one at most.                  *)
RunningIsLive ==
    ~replaced => Live = IF job.status = "Running" THEN {job.token} ELSE {}

(* The manager, its workers and their races implement the documented       *)
(* state diagram.                                                          *)
Lifecycle == INSTANCE JobLifecycle WITH
    status <- job.status, cancel <- (job.token \in cancelled)
ImplementsLifecycle == Lifecycle!Spec

(* Every run ends, also one that is cancelled or resumed, or fails.        *)
RunsEnd == job.status = "Running" ~> job.status # "Running"

(* "Resume from last successful checkpoint": a load that completes has     *)
(* loaded every row.  Refuted: checkpoints count rows that are still in    *)
(* the batch in memory.                                                    *)
NoRowLost == ckpt.state = "Completed" => \A r \in Good : table[r] > 0
=============================================================================
