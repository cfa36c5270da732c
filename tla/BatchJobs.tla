------------------------------ MODULE BatchJobs ------------------------------
(***************************************************************************)
(* One batch job of the workflow engine: the store that keeps it           *)
(* (workflows/storage/batch_job_store.rs: RocksDB record, index by status, *)
(* cache in memory), the executor that runs its executions in waves        *)
(* (workflows/engine/batch_executor.rs) and the handlers that start,       *)
(* cancel and delete it (workflows/api/batch_handlers.rs).                 *)
(*                                                                         *)
(* A store operation takes several steps and nothing but the cache's own   *)
(* lock orders two of them.  The executor reads the job once and from then *)
(* on writes its own copy.  Executions are recorded in the in-memory       *)
(* backend, the default of ExecutionStore::new; a crash loses them, while  *)
(* the job is kept by RocksDB.                                             *)
(***************************************************************************)
EXTENDS Naturals, FiniteSets, Sequences

CONSTANTS Execs,        \* the job's workflow executions
          Calls,        \* requests to execute the job
          Cancellers,   \* requests to cancel it
          Deleters,     \* requests to delete it
          Arrivals,     \* the sets of requests that come together in a behaviour
          Jobs,         \* the jobs considered: dependencies and configuration
          MaxCrashes    \* bound: restarts of the process

\* A job without executions, or more than memory holds, cannot be created.
ASSUME ExecsAssumption == IsFiniteSet(Execs) /\ Execs # {}

ASSUME JobsAssumption ==
    Jobs \subseteq [deps : [Execs -> SUBSET Execs], stop_on_error : BOOLEAN,
                    retry_failed : BOOLEAN, max_retries : Nat, max_parallel : Nat \ {0}]

Actors == Calls \cup Cancellers \cup Deleters

ASSUME ArrivalsAssumption == Arrivals \subseteq SUBSET Actors

NoJob == "none"

VARIABLES
    job,        \* the part of the job that never changes
    db, index,  \* RocksDB: the status stored, the statuses the index lists the job under
    cache,      \* the store's cache: a status or NoJob
    execs,      \* the execution store: "none", "Pending", "Completed"
    pc,         \* where each request is: a stack of labels, the current one first
    got,        \* the status its last get returned
    own,        \* the status in its own copy of the job
    wave,       \* the wave each executor is at
    task,       \* the task of each execution, for each executor
    attempt,    \* the attempts that task has made
    crashes,
    loaded,     \* history: executions whose actions ran to their end
    panicked,   \* history: executions whose task panicked
    serial      \* history: no two store operations overlapped, no deleted job was written

store == <<db, index, cache>>
requests == <<pc, got, own>>
tasks == <<execs, task, attempt, loaded, panicked>>
bounds == <<job, crashes>>
vars == <<job, db, index, cache, execs, pc, got, own, wave, task, attempt, crashes,
          loaded, panicked, serial>>

Init ==
    /\ job \in Jobs
    /\ db = "Pending" /\ index = {"Pending"} /\ cache = "Pending"
    /\ execs = [e \in Execs |-> "none"]
    /\ \E s \in Arrivals : pc = [a \in Actors |-> IF a \in s THEN <<"idle">> ELSE <<"done">>]
    /\ got = [a \in Actors |-> NoJob]
    /\ own = [a \in Actors |-> NoJob]
    /\ wave = [c \in Calls |-> 0]
    /\ task = [c \in Calls |-> [e \in Execs |-> "none"]]
    /\ attempt = [c \in Calls |-> [e \in Execs |-> 0]]
    /\ crashes = 0
    /\ loaded = {} /\ panicked = {} /\ serial = TRUE

-----------------------------------------------------------------------------
(* Dependencies *)

\* A plausible slip: an execution counts as done while its wave is being collected.
DependenciesSatisfied_Early(deps, e, done) ==
    \A d \in deps[e] : d \in done \/ deps[d] \subseteq done

DependenciesSatisfied(deps, e, done) == \A d \in deps[e] : d \in done

\* InWaves(deps)[n]: what resolve_dependencies has put into the first n waves.
InWaves(deps) ==
    LET In[n \in 0..Cardinality(Execs)] ==
          IF n = 0 THEN {}
          ELSE In[n - 1] \cup {e \in Execs : DependenciesSatisfied(deps, e, In[n - 1])}
    IN  In

Wave(n) == InWaves(job.deps)[n] \ InWaves(job.deps)[n - 1]

\* detect_circular_dependencies refuses exactly the jobs the waves cannot exhaust.
Circular == InWaves(job.deps)[Cardinality(Execs)] # Execs

LastWave(n) == InWaves(job.deps)[n] = Execs

-----------------------------------------------------------------------------
(* The store *)

Terminal == {"Completed", "PartiallyCompleted", "Failed", "Cancelled"}

At(a, l) == Head(pc[a]) = l
Goto(a, ls) == pc' = [pc EXCEPT ![a] = ls \o Tail(pc[a])]
\* What a request holds is forgotten where it is used for the last time.
Drop(f, a) == [f EXCEPT ![a] = NoJob]

\* The labels between the first and the last step of a store operation.
Inside == {"fill", "write", "put", "erase", "evict"}
Overlaps(a) == \E b \in Actors \ {a} : Head(pc[b]) \in Inside

(* BatchJobStore::get: from the cache, or from RocksDB with the cache      *)
(* filled in a step of its own.  The request goes on at the labels next;   *)
(* what it does by itself before a get is part of the get's step.          *)
Get(a, next) ==
    LET path == IF cache = NoJob /\ db # NoJob THEN <<"fill">> \o next ELSE next
    IN /\ got' = [got EXCEPT ![a] = IF cache # NoJob THEN cache ELSE db]
       /\ Goto(a, path)
       /\ serial' = (serial /\ ~(Head(path) \in Inside /\ Overlaps(a)))
       /\ UNCHANGED store

Fill(a) ==
    /\ At(a, "fill")
    /\ cache' = got[a]
    /\ Goto(a, <<>>)
    /\ UNCHANGED <<db, index, got, own, serial>>

\* A plausible slip: the entry for the old status stays.
Reindex_Keep(old, new) == index \cup {new}

Reindex(old, new) == IF old \in {NoJob, new} THEN index ELSE (index \ {old}) \cup {new}

\* BatchJobStore::update: the old job, one write batch, the cache.
UpdateGet(a, s, l) ==
    /\ own' = [own EXCEPT ![a] = s]
    /\ Get(a, <<"write", l>>)

UpdateWrite(a) ==
    /\ At(a, "write")
    /\ db' = own[a]
    /\ index' = Reindex(got[a], own[a])
    /\ serial' = (serial /\ db # NoJob)
    /\ Goto(a, <<"put">>)
    /\ got' = Drop(got, a)
    /\ UNCHANGED <<cache, own>>

UpdatePut(a) ==
    /\ At(a, "put")
    /\ cache' = own[a]
    /\ Goto(a, <<>>)
    /\ own' = Drop(own, a)
    /\ UNCHANGED <<db, index, got, serial>>

\* BatchJobStore::delete: the job, one write batch, the cache.
DeleteGet(a) == Get(a, <<"erase", "done">>) /\ UNCHANGED own

DeleteWrite(a) ==
    /\ At(a, "erase")
    /\ IF got[a] = NoJob
       THEN Goto(a, <<>>) /\ UNCHANGED <<db, index, serial>>
       ELSE /\ db' = NoJob
            /\ index' = index \ {got[a]}
            /\ UNCHANGED serial
            /\ Goto(a, <<"evict">>)
    /\ got' = Drop(got, a)
    /\ UNCHANGED <<cache, own>>

DeleteEvict(a) ==
    /\ At(a, "evict")
    /\ cache' = NoJob
    /\ Goto(a, <<>>)
    /\ UNCHANGED <<db, index, got, own, serial>>

StoreStep(a) ==
    /\ Fill(a) \/ UpdateWrite(a) \/ UpdatePut(a) \/ DeleteWrite(a) \/ DeleteEvict(a)
    /\ UNCHANGED <<tasks, wave, bounds>>

-----------------------------------------------------------------------------
(* The handlers *)

\* Every request starts by getting the job.
Request(a) ==
    /\ At(a, "idle")
    /\ Get(a, <<"check">>)
    /\ UNCHANGED <<own, tasks, wave, bounds>>

Stop(a) == Goto(a, <<"done">>) /\ got' = Drop(got, a) /\ UNCHANGED <<own, store, serial>>

(* execute_batch_job turns away a job that has ended, and spawns the       *)
(* executor, which gets the job itself.                                    *)
ExecuteBatchJob(c) ==
    /\ At(c, "check")
    /\ IF got[c] \in Terminal \cup {NoJob} THEN Stop(c)
       ELSE Get(c, <<"start">>) /\ UNCHANGED own
    /\ UNCHANGED <<tasks, wave, bounds>>

\* cancel_batch_job; afterwards it gets the job again for its answer.
CancelBatchJob(a) ==
    /\ At(a, "check")
    /\ IF got[a] \in Terminal \cup {NoJob} THEN Stop(a) ELSE UpdateGet(a, "Cancelled", "reload")
    /\ UNCHANGED <<tasks, wave, bounds>>

Reload(a) ==
    /\ At(a, "reload")
    /\ IF cache # NoJob THEN Stop(a) ELSE Get(a, <<"done">>) /\ UNCHANGED own
    /\ UNCHANGED <<tasks, wave, bounds>>

\* delete_batch_job turns away a job that has not ended.
DeleteBatchJob(a) ==
    /\ At(a, "check")
    /\ IF got[a] \in Terminal THEN DeleteGet(a) ELSE Stop(a)
    /\ UNCHANGED <<tasks, wave, bounds>>

-----------------------------------------------------------------------------
(* BatchJobExecutor::execute *)

\* No job, or its workflow is gone or disabled: nothing has been written.
Refuse(c) ==
    /\ At(c, "start")
    /\ Stop(c)
    /\ UNCHANGED <<tasks, wave, bounds>>

\* The job is Running from here on; its status is not looked at.
Start(c) ==
    /\ At(c, "start") /\ got[c] # NoJob
    /\ UpdateGet(c, "Running", "resolve")
    /\ UNCHANGED <<tasks, wave, bounds>>

SpawnWave(c, n) ==
    /\ wave' = [wave EXCEPT ![c] = n]
    /\ task' = [task EXCEPT ![c] = [e \in Execs |-> IF e \in Wave(n) THEN "waiting" ELSE @[e]]]

\* A circular job is given up here, and stays Running.
ResolveDependencies(c) ==
    /\ At(c, "resolve")
    /\ IF Circular
       THEN Stop(c) /\ UNCHANGED <<wave, task>>
       ELSE Goto(c, <<"wave">>) /\ SpawnWave(c, 1) /\ UNCHANGED <<got, own, store, serial>>
    /\ UNCHANGED <<execs, attempt, loaded, panicked, bounds>>

Ended == {"ok", "err", "panicked"}
TasksIn(c, s) == {e \in Execs : task[c][e] = s}

\* All tasks of the wave have been awaited.  A panicked one has no result.
WaveEnds(c) ==
    /\ At(c, "wave")
    /\ \A e \in Wave(wave[c]) : task[c][e] \in Ended
    /\ IF job.stop_on_error /\ TasksIn(c, "err") # {}
       THEN UpdateGet(c, "Failed", "done")
       ELSE UpdateGet(c, "Running", "next")
    /\ UNCHANGED <<tasks, wave, bounds>>

\* A plausible slip: only the failures of the last wave are looked at.
FinalStatus_LastWave(c) ==
    IF TasksIn(c, "err") \cap Wave(wave[c]) = {} THEN "Completed"
    ELSE IF TasksIn(c, "ok") = {} THEN "Failed" ELSE "PartiallyCompleted"

FinalStatus(c) ==
    IF TasksIn(c, "err") = {} THEN "Completed"
    ELSE IF TasksIn(c, "ok") = {} THEN "Failed" ELSE "PartiallyCompleted"

NextWave(c) ==
    /\ At(c, "next")
    /\ IF LastWave(wave[c])
       THEN UpdateGet(c, FinalStatus(c), "done") /\ UNCHANGED <<wave, task>>
       ELSE /\ Goto(c, <<"wave">>) /\ SpawnWave(c, wave[c] + 1)
            /\ UNCHANGED <<got, own, store, serial>>
    /\ UNCHANGED <<execs, attempt, loaded, panicked, bounds>>

-----------------------------------------------------------------------------
(* The tasks of a wave: execute_with_retry, execute_workflow_internal *)

Holding(c) == TasksIn(c, "acting") \cup TasksIn(c, "backoff")

\* A plausible slip: a failed execution keeps its permit.
PermitFree_Kept(c) == Cardinality(Holding(c) \cup TasksIn(c, "err")) < job.max_parallel

PermitFree(c) == Cardinality(Holding(c)) < job.max_parallel

SetTask(c, e, s) == task' = [task EXCEPT ![c][e] = s]

AfterFailure(n) == IF n > job.max_retries \/ ~job.retry_failed THEN "err" ELSE "backoff"

\* A plausible slip, meant to let retries through: the earlier record is written over.
Save_Overwrite(c, e) ==
    /\ execs' = [execs EXCEPT ![e] = "Pending"]
    /\ SetTask(c, e, "acting")

(* ExecutionStore::save refuses an execution it knows; so an attempt after *)
(* the first one, a retry or another executor's, fails without running an  *)
(* action.                                                                 *)
Save(c, e) ==
    IF execs[e] = "none"
    THEN /\ execs' = [execs EXCEPT ![e] = "Pending"]
         /\ SetTask(c, e, "acting")
    ELSE SetTask(c, e, AfterFailure(attempt[c][e] + 1)) /\ UNCHANGED execs

Attempt(c, e) ==
    /\ \/ task[c][e] = "waiting" /\ PermitFree(c)
       \/ task[c][e] = "backoff"
    /\ attempt' = [attempt EXCEPT ![c][e] = @ + 1]
    /\ Save(c, e)
    /\ UNCHANGED <<loaded, panicked>>

ActionsSucceed(c, e) ==
    /\ task[c][e] = "acting"
    /\ execs' = [execs EXCEPT ![e] = "Completed"]
    /\ loaded' = loaded \cup {e}
    /\ SetTask(c, e, "ok")
    /\ UNCHANGED <<attempt, panicked>>

ActionsFail(c, e) ==
    /\ task[c][e] = "acting"
    /\ SetTask(c, e, AfterFailure(attempt[c][e]))
    /\ UNCHANGED <<execs, attempt, loaded, panicked>>

Panic(c, e) ==
    /\ task[c][e] = "acting"
    /\ panicked' = panicked \cup {e}
    /\ SetTask(c, e, "panicked")
    /\ UNCHANGED <<execs, attempt, loaded>>

TaskStep(c, e) ==
    /\ Attempt(c, e) \/ ActionsSucceed(c, e) \/ ActionsFail(c, e) \/ Panic(c, e)
    /\ UNCHANGED <<store, serial, requests, wave, bounds>>

-----------------------------------------------------------------------------
(* The process dies, and with it the requests under way; RocksDB keeps the *)
(* job and the index.                                                      *)
Crash ==
    /\ crashes < MaxCrashes
    /\ crashes' = crashes + 1
    /\ cache' = NoJob
    /\ execs' = [e \in Execs |-> "none"]
    /\ pc' = [a \in Actors |-> IF At(a, "idle") THEN <<"idle">> ELSE <<"done">>]
    /\ got' = [a \in Actors |-> NoJob]
    /\ own' = [a \in Actors |-> NoJob]
    /\ wave' = [c \in Calls |-> 0]
    /\ task' = [c \in Calls |-> [e \in Execs |-> "none"]]
    /\ attempt' = [c \in Calls |-> [e \in Execs |-> 0]]
    /\ UNCHANGED <<job, db, index, loaded, panicked, serial>>

ExecutorStep(c) ==
    \/ ExecuteBatchJob(c) \/ Refuse(c) \/ Start(c)
    \/ ResolveDependencies(c) \/ WaveEnds(c) \/ NextWave(c)
    \/ StoreStep(c)
    \/ \E e \in Execs : TaskStep(c, e)

Next ==
    \/ \E a \in Actors : Request(a)
    \/ \E c \in Calls : ExecutorStep(c)
    \/ \E a \in Cancellers : CancelBatchJob(a) \/ Reload(a) \/ StoreStep(a)
    \/ \E a \in Deleters : DeleteBatchJob(a) \/ StoreStep(a)
    \/ Crash

(* A spawned executor and its tasks are polled until they return; actions  *)
(* are assumed to return.  Nothing makes a request arrive.                 *)
Fairness == \A c \in Calls : WF_vars(ExecutorStep(c))

Spec == Init /\ [][Next]_vars /\ Fairness

-----------------------------------------------------------------------------
(* Properties *)

(* The handler lets several executors run one job at once; still no two of *)
(* them have the actions of one execution in hand in the life of a         *)
(* process, nor does one begin what another has finished or died in,       *)
(* however their attempts and retries interleave.                          *)
InHand == {"acting", "ok", "panicked"}
OneExecutorRuns ==
    \A c, d \in Calls, e \in Execs :
        task[c][e] \in InHand /\ task[d][e] \in InHand => c = d

(* "Automatically retry failed workflows": an attempt after a failed one   *)
(* runs the execution's actions again.                                     *)
RetriesRun ==
    [][\A c \in Calls, e \in Execs :
         task[c][e] = "backoff" /\ Attempt(c, e) => task'[c][e] = "acting"]_vars

(* An executor has seen the end of everything an execution depends on      *)
(* before it spawns that execution, whatever the shape of the job: the     *)
(* waves of resolve_dependencies are awaited one by one.                   *)
DependenciesFirst ==
    \A c \in Calls, e \in Execs :
        task[c][e] # "none" => \A d \in job.deps[e] : task[c][d] \in Ended

(* A job stored as Completed has had the actions of all its executions run *)
(* to their end, save those whose task panicked: a panic is in neither of  *)
(* the executor's sets.  It holds across restarts, overlapping executors   *)
(* and cancellation.                                                       *)
CompletedMeansLoaded == db = "Completed" => Execs \subseteq loaded \cup panicked

(* The index by status lists the job under the status that is stored and   *)
(* under no other, unless two store operations have overlapped (update     *)
(* reads, writes and caches in three steps) or an executor has written a   *)
(* job that had been deleted under it.                                     *)
IndexExact == serial => index = {db} \ {NoJob}

(* Every executor returns: no permit is lost, no wave waits for a task     *)
(* that never ends, the retries are finite.                                *)
ExecutorsReturn ==
    \A c \in Calls : At(c, "start") ~> At(c, "done")
=============================================================================
