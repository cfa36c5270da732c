--------------------------- MODULE LoaderJobsProofs ---------------------------
(***************************************************************************)
(* LoaderJobs implements JobLifecycle and accounts for its rows, for all   *)
(* files, batch sizes, checkpoint intervals and bounds.                    *)
(***************************************************************************)
EXTENDS LoaderJobs, FiniteSetTheorems, NaturalsInduction, WellFoundedInduction, TLAPS

Statuses == {"None", "Pending", "Running"} \cup Terminal
Ends == {"none"} \cup Terminal

(* The records a worker can be.                                            *)
Workers == [stage : Stage, pos : Nat, row : Nat, batch : SUBSET Nat, since : Nat,
            save : {"none", "Paused", "Completed", "Failed"}, end : Ends]

(* As much of the type as the diagram depends on.                          *)
Typed ==
    /\ job \in [status : Statuses, token : 0..MaxRegistrations]
    /\ registered \in 0..MaxRegistrations
    /\ replaced \in BOOLEAN
    /\ worker \in [Tokens -> Workers]
    /\ file \in Files
    /\ ckpt.row \in Nat

(* Tokens that are cancelled, and the job's own, have been given out; a    *)
(* job that is not registered has none and no worker.                      *)
TokensGiven ==
    /\ cancelled \subseteq 1..registered
    /\ job.token <= registered
    /\ job.status = "None" <=> job.token = 0
    /\ job.status = "None" => Live = {}

(* A worker that returns has an end, and reports a cancellation only after *)
(* its token was cancelled.                                                *)
EndsHonest ==
    \A t \in Tokens :
      /\ worker[t].stage = "return" => worker[t].end \in Terminal
      /\ worker[t].stage # "off" /\ worker[t].end = "Cancelled" => t \in cancelled

(* The inductive invariant.  RunningIsLive alone is not inductive: which   *)
(* entry a returning worker marks depends on the tokens.                   *)
IInv == Typed /\ TokensGiven /\ EndsHonest /\ RunningIsLive

(* What all steps of a worker but Return have in common: one that is on    *)
(* stays on, and the manager is left alone.                                *)
Quiet(t) ==
    /\ \E w \in Workers :
         /\ worker' = [worker EXCEPT ![t] = w]
         /\ w.stage # "off"
         /\ w.stage = "return" => w.end \in Terminal
         /\ w.end = "Cancelled" => t \in cancelled
    /\ worker[t].stage # "off"
    /\ ckpt'.row \in Nat
    /\ UNCHANGED <<job, cancelled, registering, registered, file, replaced>>

-----------------------------------------------------------------------------
LEMMA InitOK == Init => IInv
<1> SUFFICES ASSUME Init PROVE IInv
  OBVIOUS
<1>1. NoWorker \in Workers /\ NoWorker.stage = "off"
  BY DEF NoWorker, Workers, Stage, Ends
<1>2. \A t \in Tokens : worker[t].stage = "off"
  BY <1>1 DEF Init
<1>3. Typed
  <2>1. worker \in [Tokens -> Workers]
    BY <1>1 DEF Init
  <2>2. ckpt.row \in Nat
    BY DEF Init, NoCheckpoint
  <2>3. 0 \in 0..MaxRegistrations
    BY LoaderAssumption
  <2> QED  BY <2>1, <2>2, <2>3 DEF Init, Typed, Statuses
<1>4. TokensGiven
  BY <1>2 DEF Init, TokensGiven, Live
<1>5. EndsHonest
  BY <1>2 DEF EndsHonest
<1>6. RunningIsLive
  BY <1>2 DEF Init, RunningIsLive, Live
<1> QED  BY <1>3, <1>4, <1>5, <1>6 DEF IInv

LEMMA RegisterCheckOK ==
    ASSUME IInv, RegisterCheck
    PROVE  IInv'
BY DEF RegisterCheck, IInv, Typed, TokensGiven, EndsHonest, RunningIsLive, Live, outside, bounds

LEMMA RegisterInsertOK ==
    ASSUME IInv, RegisterInsert
    PROVE  IInv'
<1>1. Typed'
  BY LoaderAssumption DEF RegisterInsert, IInv, Typed, Statuses
<1>2. TokensGiven'
  BY LoaderAssumption DEF RegisterInsert, IInv, Typed, TokensGiven
<1>3. EndsHonest'
  BY DEF RegisterInsert, IInv, EndsHonest
<1>4. RunningIsLive'
  BY DEF RegisterInsert, IInv, RunningIsLive, Live
<1> QED  BY <1>1, <1>2, <1>3, <1>4 DEF IInv

LEMMA StartJobOK ==
    ASSUME IInv, StartJob
    PROVE  IInv'
<1> DEFINE w == [NoWorker EXCEPT !.stage = "starting"]
<1>1. /\ job.status = "Pending" /\ job.token \in Tokens
      /\ job' = [job EXCEPT !.status = "Running"]
      /\ worker' = [worker EXCEPT ![job.token] = w]
      /\ UNCHANGED <<cancelled, registered, ckpt, file, replaced>>
  BY DEF StartJob, CanStart, IInv, Typed, TokensGiven, Tokens, bounds
<1>2. /\ w.stage = "starting" /\ w.end = "none"
      /\ w \in Workers
  BY DEF NoWorker, Workers, Stage, Ends
<1> HIDE DEF w
<1>3. Typed'
  BY <1>1, <1>2 DEF IInv, Typed, Statuses
<1>4. TokensGiven'
  BY <1>1 DEF IInv, Typed, TokensGiven
<1>5. EndsHonest'
  BY <1>1, <1>2 DEF IInv, Typed, EndsHonest
<1>6. RunningIsLive'
  BY <1>1, <1>2 DEF IInv, Typed, RunningIsLive, Live
<1> QED  BY <1>3, <1>4, <1>5, <1>6 DEF IInv

(* cancel_job and shutdown.                                                *)
LEMMA CancelOK ==
    ASSUME IInv, CancelJob \/ Shutdown
    PROVE  IInv'
<1>1. /\ job.status # "None" /\ cancelled' = cancelled \cup {job.token}
      /\ UNCHANGED <<job, registered, worker, ckpt, file, replaced>>
  BY DEF CancelJob, Shutdown, bounds
<1>2. job.token \in 1..registered
  BY <1>1 DEF IInv, Typed, TokensGiven
<1> QED  BY <1>1, <1>2 DEF IInv, Typed, TokensGiven, EndsHonest, RunningIsLive, Live

LEMMA CrashOK ==
    ASSUME IInv, Crash
    PROVE  IInv'
<1>1. NoWorker \in Workers /\ NoWorker.stage = "off"
  BY DEF NoWorker, Workers, Stage, Ends
<1>2. Typed' /\ TokensGiven'
  BY <1>1, LoaderAssumption DEF Crash, IInv, Typed, TokensGiven, Statuses, Live
<1>3. EndsHonest' /\ RunningIsLive'
  BY <1>1 DEF Crash, IInv, EndsHonest, RunningIsLive, Live
<1> QED  BY <1>2, <1>3 DEF IInv

(* The steps of a worker, Return apart, are of that kind.                  *)
LEMMA WorkerQuiet ==
    ASSUME IInv, NEW t \in Tokens, WorkerStep(t), ~Return(t)
    PROVE  Quiet(t)
<1> USE DEF Step, manager, bounds
<1> DEFINE w == worker[t]
<1>0. /\ w \in Workers
      /\ w.stage # "off" /\ w.end = "Cancelled" => t \in cancelled
      /\ ckpt.row \in Nat /\ Len(file) \in Nat /\ Good \subseteq Nat
  BY LoaderAssumption DEF IInv, Typed, EndsHonest, Good, Rows
<1>1. ASSUME NEW v \in Workers, worker' = [worker EXCEPT ![t] = v],
             w.stage # "off", v.stage # "off",
             v.stage = "return" => v.end \in Terminal,
             v.end = "Cancelled" => t \in cancelled,
             ckpt'.row \in Nat,
             UNCHANGED <<job, cancelled, registering, registered, file, replaced>>
      PROVE  Quiet(t)
  BY <1>1 DEF Quiet
<1>2. ASSUME NEW u \in Workers, NEW s \in {"Paused", "Completed", "Failed"}, NEW e \in Ends,
             Save(t, u, s, e), w.stage # "off", e = "Cancelled" => t \in cancelled,
             UNCHANGED <<manager, bounds>>
      PROVE  Quiet(t)
  <2> DEFINE v == [u EXCEPT !.stage = "write", !.save = s, !.end = e]
  <2>1. v \in Workers /\ v.stage = "write" /\ v.end = e
    BY <1>2 DEF Workers, Stage
  <2>2. worker' = [worker EXCEPT ![t] = v] /\ ckpt'.row \in Nat
    BY <1>2 DEF Save, Torn
  <2> HIDE DEF v
  <2> QED  BY <1>1, <1>2, <2>1, <2>2
<1>3. CASE Begin(t)
  <2>1. PICK p \in SeekTo(ckpt.row) :
          worker' = [worker EXCEPT ![t] = [w EXCEPT !.stage = "loop", !.row = ckpt.row, !.pos = p]]
    BY <1>3 DEF Begin
  <2> DEFINE v == [w EXCEPT !.stage = "loop", !.row = ckpt.row, !.pos = p]
  <2>2. p \in Nat
    BY <1>0 DEF SeekTo
  <2>3. v \in Workers /\ v.stage = "loop" /\ v.end = w.end
    BY <1>0, <2>2 DEF Workers, Stage
  <2>4. worker' = [worker EXCEPT ![t] = v]
    BY <2>1
  <2> HIDE DEF v
  <2> QED  BY <1>0, <1>1, <1>3, <2>3, <2>4 DEF Begin
<1>4. CASE BeginFails(t)
  <2> DEFINE v == [w EXCEPT !.stage = "return", !.end = "Failed"]
  <2>1. v \in Workers /\ v.stage = "return" /\ v.end = "Failed"
    BY <1>0 DEF Workers, Stage, Ends, Terminal
  <2>2. worker' = [worker EXCEPT ![t] = v] /\ ckpt'.row \in Nat
    BY <1>0, <1>4 DEF BeginFails, Ends
  <2> HIDE DEF v
  <2> QED  BY <1>0, <1>1, <1>4, <2>1, <2>2 DEF BeginFails, Terminal
<1>5. CASE ReadRow(t)
  <2> DEFINE since == IF w.since < Interval THEN w.since + 1 ELSE w.since
             stage(r) == IF Cardinality(w.batch \cup {r}) >= BatchSize THEN "batch" ELSE "after"
             v(r) == [w EXCEPT !.pos = r, !.row = r, !.batch = w.batch \cup {r},
                               !.since = since, !.stage = stage(r)]
  <2>1. PICK r \in NextGood(w.pos) : worker' = [worker EXCEPT ![t] = v(r)]
    BY <1>5 DEF ReadRow
  <2>2. r \in Nat
    BY <1>0 DEF NextGood
  <2>3. since \in Nat /\ stage(r) \in {"batch", "after"} /\ w.batch \cup {r} \in SUBSET Nat
    <3>1. Interval \in Nat /\ w.since \in Nat /\ w.batch \subseteq Nat
      BY <1>0, LoaderAssumption DEF Workers
    <3>2. since \in Nat
      BY <3>1
    <3>3. w.batch \cup {r} \in SUBSET Nat
      BY <2>2, <3>1
    <3> QED  BY <3>2, <3>3
  <2> HIDE DEF since, stage
  <2>4. v(r) \in Workers /\ v(r).stage = stage(r) /\ v(r).end = w.end
    BY <1>0, <2>2, <2>3 DEF Workers, Stage
  <2> HIDE DEF v
  <2> QED  BY <1>0, <1>1, <1>5, <2>1, <2>3, <2>4 DEF ReadRow, Reading
<1>6. CASE ReadFails(t)
  BY <1>0, <1>2, <1>6 DEF ReadFails, Reading, Ends, Terminal
<1>7. CASE ReadEof(t)
  <2>1. CASE w.batch = {}
    BY <1>0, <1>2, <1>7, <2>1 DEF ReadEof, Reading, Ends, Terminal
  <2>2. CASE w.batch # {}
    <3> DEFINE v == [w EXCEPT !.stage = "final"]
    <3>1. v \in Workers /\ v.stage = "final" /\ v.end = w.end
      BY <1>0 DEF Workers, Stage
    <3>2. worker' = [worker EXCEPT ![t] = v] /\ ckpt'.row \in Nat
      BY <1>0, <1>7, <2>2 DEF ReadEof
    <3> HIDE DEF v
    <3> QED  BY <1>0, <1>1, <1>7, <3>1, <3>2 DEF ReadEof, Reading
  <2> QED  BY <2>1, <2>2
<1>8. CASE SeeCancel(t)
  BY <1>0, <1>2, <1>8 DEF SeeCancel, Ends, Terminal
<1>9. CASE ExecuteBatch(t)
  <2> DEFINE loaded == [w EXCEPT !.batch = {}]
             v == [loaded EXCEPT !.stage = "after"]
  <2>1. loaded \in Workers /\ v \in Workers /\ v.stage = "after" /\ v.end = w.end
    BY <1>0 DEF Workers, Stage
  <2>2. CASE w.stage = "batch"
    <3>1. worker' = [worker EXCEPT ![t] = v] /\ ckpt'.row \in Nat
      BY <1>0, <1>9, <2>2 DEF ExecuteBatch
    <3> HIDE DEF v
    <3> QED  BY <1>0, <1>1, <1>9, <2>1, <2>2, <3>1 DEF ExecuteBatch
  <2>3. CASE w.stage = "final"
    <3>1. Save(t, loaded, "Completed", "Completed")
      BY <1>9, <2>3 DEF ExecuteBatch
    <3> HIDE DEF loaded
    <3> QED  BY <1>2, <1>9, <2>1, <2>3, <3>1 DEF ExecuteBatch, Ends, Terminal
  <2> QED  BY <1>9, <2>2, <2>3 DEF ExecuteBatch
<1>10. CASE ExecuteBatchFails(t)
  <2> DEFINE v == [w EXCEPT !.stage = "return", !.end = "Failed"]
  <2>1. v \in Workers /\ v.stage = "return" /\ v.end = "Failed"
    BY <1>0 DEF Workers, Stage, Ends, Terminal
  <2>2. worker' = [worker EXCEPT ![t] = v] /\ ckpt'.row \in Nat
    BY <1>0, <1>10 DEF ExecuteBatchFails, Ends
  <2> HIDE DEF v
  <2> QED  BY <1>0, <1>1, <1>10, <2>1, <2>2 DEF ExecuteBatchFails, Terminal
<1>11. CASE Checkpoint(t)
  BY <1>0, <1>2, <1>11 DEF Checkpoint, Ends
<1>12. CASE NoCheckpointYet(t)
  <2> DEFINE v == [w EXCEPT !.stage = "loop"]
  <2>1. v \in Workers /\ v.stage = "loop" /\ v.end = w.end
    BY <1>0 DEF Workers, Stage, Ends, Terminal
  <2>2. worker' = [worker EXCEPT ![t] = v] /\ ckpt'.row \in Nat
    BY <1>0, <1>12 DEF NoCheckpointYet, Ends
  <2> HIDE DEF v
  <2> QED  BY <1>0, <1>1, <1>12, <2>1, <2>2 DEF NoCheckpointYet, Terminal
<1>13. CASE Write(t)
  <2> DEFINE v == [w EXCEPT !.since = 0, !.save = "none",
                    !.stage = IF w.end = "none" THEN "loop" ELSE "return"]
  <2>1. v \in Workers /\ v.end = w.end
        /\ v.stage = (IF w.end = "none" THEN "loop" ELSE "return") /\ w.end \in Ends
    BY <1>0 DEF Workers, Stage, Ends, Terminal
  <2>2. worker' = [worker EXCEPT ![t] = v]
    BY <1>13 DEF Write
  <2>3. ckpt'.row \in Nat
    BY <1>0, <1>13 DEF Write, Workers
  <2> HIDE DEF v
  <2> QED  BY <1>0, <1>1, <1>13, <2>1, <2>2, <2>3 DEF Write, Ends, Terminal
<1>14. CASE WriteFails(t)
  <2> DEFINE v == [w EXCEPT !.stage = "return", !.end = "Failed", !.save = "none"]
  <2>1. v \in Workers /\ v.stage = "return" /\ v.end = "Failed"
    BY <1>0 DEF Workers, Stage, Ends, Terminal
  <2>2. worker' = [worker EXCEPT ![t] = v] /\ ckpt'.row \in Nat
    BY <1>0, <1>14 DEF WriteFails, Ends
  <2> HIDE DEF v
  <2> QED  BY <1>0, <1>1, <1>14, <2>1, <2>2 DEF WriteFails, Terminal
<1> QED  BY <1>3, <1>4, <1>5, <1>6, <1>7, <1>8, <1>9, <1>10, <1>11, <1>12, <1>13, <1>14
         DEF WorkerStep

LEMMA QuietOK ==
    ASSUME IInv, NEW t \in Tokens, Quiet(t)
    PROVE  IInv'
<1>1. PICK w \in Workers :
        /\ worker' = [worker EXCEPT ![t] = w]
        /\ w.stage # "off"
        /\ w.stage = "return" => w.end \in Terminal
        /\ w.end = "Cancelled" => t \in cancelled
  BY DEF Quiet
<1>2. Typed' /\ TokensGiven'
  BY <1>1 DEF Quiet, IInv, Typed, TokensGiven, Live
<1>3. EndsHonest'
  BY <1>1 DEF Quiet, IInv, Typed, EndsHonest
<1>4. RunningIsLive'
  BY <1>1 DEF Quiet, IInv, Typed, RunningIsLive, Live
<1> QED  BY <1>2, <1>3, <1>4 DEF IInv

(* While nothing was replaced, the worker that returns is the job's own.   *)
LEMMA ReturnsOwn ==
    ASSUME IInv, NEW t \in Tokens, Return(t), ~replaced
    PROVE  job.status = "Running" /\ t = job.token /\ Live = {t}
<1>1. t \in Live
  BY DEF Return, Live
<1> QED  BY <1>1 DEF IInv, RunningIsLive

LEMMA ReturnOK ==
    ASSUME IInv, NEW t \in Tokens, Return(t)
    PROVE  IInv'
<1> DEFINE w == [worker[t] EXCEPT !.stage = "off", !.batch = {}]
<1>1. /\ job' = [job EXCEPT !.status = worker[t].end]
      /\ worker' = [worker EXCEPT ![t] = w]
      /\ worker[t].end \in Terminal
      /\ UNCHANGED <<cancelled, registered, ckpt, file, replaced>>
  BY DEF Return, Step, IInv, EndsHonest, bounds
<1>2. w \in Workers /\ w.stage = "off"
  BY DEF IInv, Typed, Workers, Stage
<1> HIDE DEF w
<1>3. t \in Live => job.status # "None" \/ replaced
  BY DEF IInv, RunningIsLive
<1>4. Typed'
  BY <1>1, <1>2 DEF IInv, Typed, Statuses
<1>5. TokensGiven'
  BY <1>1, <1>3 DEF IInv, Typed, TokensGiven, Return, Live, Terminal
<1>6. EndsHonest'
  BY <1>1, <1>2 DEF IInv, Typed, EndsHonest
<1>7. RunningIsLive'
  BY <1>1, <1>2, ReturnsOwn DEF IInv, Typed, RunningIsLive, Live, Terminal
<1> QED  BY <1>4, <1>5, <1>6, <1>7 DEF IInv

-----------------------------------------------------------------------------
LEMMA StepOK == IInv /\ [Next]_vars => IInv'
<1> SUFFICES ASSUME IInv, [Next]_vars PROVE IInv'
  OBVIOUS
<1>1. CASE UNCHANGED vars
  BY <1>1 DEF vars, IInv, Typed, TokensGiven, EndsHonest, RunningIsLive, Live
<1>2. ASSUME NEW t \in Tokens, WorkerStep(t)
      PROVE  IInv'
  BY <1>2, WorkerQuiet, QuietOK, ReturnOK
<1> QED  BY <1>1, <1>2, RegisterCheckOK, RegisterInsertOK, StartJobOK, CancelOK, CrashOK DEF Next

(* The invariant holds of the manager with any number of registrations,    *)
(* crashes and failing writes.                                             *)
THEOREM Inductive == Spec => []IInv
BY InitOK, StepOK, PTL DEF Spec

(* While no registration has replaced an entry, the manager shows Running  *)
(* exactly while the one worker of that entry runs.                        *)
THEOREM StatusIsLive == Spec => []RunningIsLive
<1>1. IInv => RunningIsLive
  BY DEF IInv
<1> QED  BY <1>1, Inductive, PTL

-----------------------------------------------------------------------------
(* The refinement: every step of the loader is one of the diagram's, or    *)
(* leaves the status and the request alone.                                *)

(* After a replacement the diagram allows any status.                      *)
LEMMA AnyAfterReplace ==
    ASSUME IInv', replaced'
    PROVE  Lifecycle!Replace
BY DEF IInv, Typed, Lifecycle!Replace, Lifecycle!Status, Lifecycle!Terminal, Statuses, Terminal

LEMMA RefinesInit == Init => Lifecycle!Init
BY DEF Init, Lifecycle!Init

LEMMA RefinesStep ==
    ASSUME IInv, IInv', [Next]_vars
    PROVE  [Lifecycle!Next]_(Lifecycle!vars)
<1> USE DEF Lifecycle!Next
<1>0. CASE UNCHANGED <<job, cancelled, replaced>>
  BY <1>0 DEF Lifecycle!vars
<1>1. CASE replaced'
  BY <1>1, AnyAfterReplace
<1>2. CASE RegisterInsert /\ ~replaced'
  <2>1. /\ ~replaced /\ job.status = "None" /\ job.token = 0
        /\ replaced' = FALSE /\ replaced = FALSE
        /\ job' = [status |-> "Pending", token |-> registered + 1]
        /\ cancelled' = cancelled
    BY <1>2 DEF RegisterInsert, IInv, Typed, TokensGiven
  <2>2. job.token \notin cancelled /\ job'.token \notin cancelled'
    BY <2>1 DEF IInv, Typed, TokensGiven
  <2>3. (job.token \in cancelled)' = (job.token \in cancelled)
    BY <2>2
  <2>4. Lifecycle!Register
    BY <2>1, <2>3 DEF Lifecycle!Register
  <2> QED  BY <2>4
<1>3. CASE StartJob
  <2>1. /\ job.status = "Pending" /\ job'.status = "Running" /\ job'.token = job.token
        /\ UNCHANGED <<cancelled, replaced>>
    BY <1>3 DEF StartJob, CanStart, bounds, IInv, Typed
  <2> QED  BY <2>1 DEF Lifecycle!Start
<1>4. CASE CancelJob \/ Shutdown
  BY <1>4 DEF CancelJob, Shutdown, bounds, Lifecycle!RequestCancel
<1>5. CASE Crash
  <2>1. job' = [status |-> "None", token |-> 0] /\ cancelled' = {} /\ UNCHANGED replaced
    BY <1>5 DEF Crash
  <2> QED  BY <2>1 DEF Lifecycle!Crash
<1>6. ASSUME NEW t \in Tokens, WorkerStep(t), ~Return(t)
      PROVE  UNCHANGED <<job, cancelled, replaced>>
  BY <1>6, WorkerQuiet DEF Quiet
<1>7. ASSUME NEW t \in Tokens, Return(t), ~replaced'
      PROVE  Lifecycle!Finish
  <2>1. /\ job' = [job EXCEPT !.status = worker[t].end]
        /\ UNCHANGED <<cancelled, replaced>>
    BY <1>7 DEF Return, bounds
  <2>2. job.status = "Running" /\ t = job.token
    BY <1>7, <2>1, ReturnsOwn
  <2>3. worker[t].end \in Terminal /\ (worker[t].end = "Cancelled" => t \in cancelled)
    BY <1>7 DEF Return, IInv, EndsHonest
  <2>4. job'.status = worker[t].end /\ job'.token = job.token
    BY <2>1 DEF IInv, Typed
  <2> QED  BY <2>1, <2>2, <2>3, <2>4 DEF Lifecycle!Finish, Lifecycle!Terminal, Terminal
<1>8. CASE RegisterCheck
  BY <1>0, <1>8 DEF RegisterCheck, bounds
<1>9. CASE UNCHANGED vars
  BY <1>0, <1>9 DEF vars
<1> QED  BY <1>0, <1>1, <1>2, <1>3, <1>4, <1>5, <1>6, <1>7, <1>8, <1>9 DEF Next

(* The manager, its workers, cancellations, crashes and the race of two    *)
(* registrations implement the state diagram of LoaderJobStatus.           *)
THEOREM Refinement == Spec => ImplementsLifecycle
<1>1. Init => Lifecycle!Init
  BY RefinesInit
<1>2. IInv /\ IInv' /\ [Next]_vars => [Lifecycle!Next]_(Lifecycle!vars)
  BY RefinesStep
<1> QED  BY <1>1, <1>2, Inductive, PTL DEF Spec, ImplementsLifecycle, Lifecycle!Spec

-----------------------------------------------------------------------------
(* The rows.                                                               *)

(* Between its seek and its return a worker is at work on rows.            *)
Works(w) == w.stage \notin {"off", "starting", "return"}

(* What a worker's bookkeeping says of the table: the rows it has passed   *)
(* are loaded, in its batch, or were dropped by a resume; it finishes with *)
(* an empty batch and no row ahead.                                        *)
Sound(w) ==
    /\ w.batch \subseteq Good
    /\ w.save # "none" => w.stage = "write"
    /\ w.save = "Completed" => w.batch = {}
    /\ w.stage = "starting" => w.batch = {}
    /\ Works(w) =>
         /\ w.row <= w.pos
         /\ \A r \in w.batch : r <= w.pos
         /\ \A r \in Good : r <= w.pos => table[r] > 0 \/ r \in w.batch \cup dropped
         /\ w.stage = "final" \/ w.save = "Completed" => \A r \in Good : r <= w.pos

(* A row that was not exposed at a crash has not been loaded.              *)
Unloaded(r) == table[r] = 0 \/ r \in exposed

(* What a worker is still to load is not loaded yet.                       *)
Ahead(w) == Works(w) => \A r \in Good : r > w.pos \/ r \in w.batch => Unloaded(r)

(* A worker has yet to seek.                                               *)
Unstarted ==
    \/ job.status \in {"None", "Pending"}
    \/ \E t \in Tokens : worker[t].stage = "starting"

CompletedLoaded == ckpt.state = "Completed" => \A r \in Good : table[r] > 0 \/ r \in dropped

(* The invariant of the rows.  ReloadedWereExposed needs that a run        *)
(* resumes where only exposed rows can have been loaded: nothing loads     *)
(* between a crash and the seek of the next run.                           *)
DataInv ==
    /\ table \in [Rows -> Nat]
    /\ \A t \in Tokens : Sound(worker[t])
    /\ CompletedLoaded
    /\ CheckpointTruthful
    /\ ~replaced =>
         /\ \A t \in Tokens : Ahead(worker[t])
         /\ Unstarted => \A r \in Good : r > Covered => Unloaded(r)
         /\ \A r \in Good : table[r] > 1 => r \in exposed

LEMMA RowNumbers ==
    ASSUME Typed
    PROVE  /\ Len(file) \in Nat /\ Rows \subseteq Nat /\ Good \subseteq Rows /\ Good \subseteq Nat
           /\ \A r \in Good : r >= 1
BY LoaderAssumption DEF Typed, Good, Rows

(* A row number is no greater than the reader's position after the seek.   *)
LEMMA SeekPasses ==
    ASSUME NEW p \in Nat, Cardinality({r \in 1..p : file[r]}) = ckpt.row
    PROVE  ckpt.row <= p
<1> DEFINE T == {r \in 1..p : file[r]}
<1>1. IsFiniteSet(1..p) /\ Cardinality(1..p) = p
  BY FS_Interval
<1>2. T \in SUBSET (1..p)
  OBVIOUS
<1>3. Cardinality(T) <= Cardinality(1..p)
  BY <1>1, <1>2, FS_Subset
<1> QED  BY <1>1, <1>3

(* When next_row finds none, none is ahead.                                *)
LEMMA EofIsEnd ==
    ASSUME Typed, NEW p \in Nat, NextGood(p) = {}
    PROVE  \A r \in Good : r <= p
<1> DEFINE S == {r \in Good : r > p}
           R == OpToRel(<, Nat)
<1> SUFFICES ASSUME S # {} PROVE FALSE
  BY RowNumbers
<1>1. IsWellFoundedOn(R, Nat) /\ (\A m, q \in Nat : q < m => <<q, m>> \in R)
  BY NatLessThanWellFounded DEF OpToRel
<1>2. S \subseteq Nat
  BY RowNumbers
<1> HIDE DEF R
<1>3. PICK m \in S : \A q \in S : ~(<<q, m>> \in R)
  <2> HIDE DEF S
  <2> QED  BY <1>1, <1>2, WFMin
<1>4. \A q \in Good : q > p => m <= q
  <2> SUFFICES ASSUME NEW q \in Good, q > p PROVE m <= q
    OBVIOUS
  <2>1. q \in S /\ q \in Nat /\ m \in Nat
    BY <1>2, RowNumbers
  <2>2. ~(q < m)
    BY <1>1, <1>3, <2>1
  <2> QED  BY <2>1, <2>2
<1>5. m \in NextGood(p)
  BY <1>3, <1>4 DEF NextGood
<1> QED  BY <1>5

-----------------------------------------------------------------------------
(* A step of a worker that keeps its own record sound.                     *)
LEMMA DataStep ==
    ASSUME IInv, DataInv, NEW t \in Tokens, NEW v, worker' = [worker EXCEPT ![t] = v],
           worker[t].stage # "off", v.stage # "starting",
           UNCHANGED <<file, job, exposed, replaced>>,
           table' \in [Rows -> Nat], \A r \in Rows : table'[r] >= table[r],
           dropped \subseteq dropped',
           Sound(v)', CompletedLoaded', CheckpointTruthful',
           ~replaced => Ahead(v)' /\ \A r \in Good : table'[r] > 1 => r \in exposed
    PROVE  DataInv'
<1>1. /\ Good' = Good /\ Rows' = Rows /\ Good \subseteq Rows /\ worker \in [Tokens -> Workers]
      /\ table \in [Rows -> Nat]
  BY RowNumbers DEF IInv, Good, Rows, Typed, DataInv
<1>2. \A r \in Good : table[r] > 0 => table'[r] > 0
  BY <1>1
<1>3. worker'[t] = v /\ \A u \in Tokens : u # t => worker'[u] = worker[u]
  BY <1>1
<1>4. \A u \in Tokens : Sound(worker[u])'
  <2> SUFFICES ASSUME NEW u \in Tokens, u # t PROVE Sound(worker[u])'
    BY <1>3
  <2>1. Sound(worker[u]) /\ worker'[u] = worker[u]
    BY <1>3 DEF DataInv
  <2> QED  BY <1>1, <1>2, <2>1 DEF Sound, Works
<1>5. ASSUME ~replaced
      PROVE  /\ \A u \in Tokens : Ahead(worker[u])'
             /\ ~Unstarted'
  <2>1. job.status = "Running" /\ Live = {t}
    BY <1>5 DEF IInv, RunningIsLive, Live
  <2>2. \A u \in Tokens : u # t => worker'[u] = worker[u] /\ worker[u].stage = "off"
    BY <1>3, <2>1 DEF Live
  <2>3. ~Unstarted'
    BY <1>3, <2>1, <2>2 DEF Unstarted
  <2>4. \A u \in Tokens : u # t => Ahead(worker[u])'
    BY <2>2 DEF Ahead, Works
  <2>5. Ahead(worker[t])'
    BY <1>3, <1>5
  <2> QED  BY <2>3, <2>4, <2>5
<1> QED  BY <1>1, <1>4, <1>5 DEF DataInv

(* Steps that touch no row: the reader, the batch and the table stay.      *)
LEMMA PlainStep ==
    ASSUME IInv, DataInv, NEW t \in Tokens, NEW v, worker' = [worker EXCEPT ![t] = v],
           worker[t].stage # "off", v.stage # "starting",
           Works(v) => Works(worker[t]),
           v.pos = worker[t].pos, v.row = worker[t].row, v.batch = worker[t].batch,
           v.save # "none" => v.stage = "write",
           v.save = "Completed" => v.batch = {},
           Works(v) /\ (v.stage = "final" \/ v.save = "Completed") => \A r \in Good : r <= v.pos,
           ckpt' = ckpt \/ ckpt' = Torn,
           UNCHANGED <<file, job, exposed, replaced, table, dropped>>
    PROVE  DataInv'
<1>1. Good' = Good /\ Rows' = Rows /\ table \in [Rows -> Nat]
  BY DEF Good, Rows, DataInv
<1>2. \A r \in Rows : table'[r] >= table[r]
  BY <1>1
<1>3. Sound(worker[t]) /\ (~replaced => Ahead(worker[t]))
  BY DEF DataInv
<1>4. Sound(v)'
  BY <1>1, <1>3 DEF Sound, Works
<1>5. ~replaced => Ahead(v)' /\ \A r \in Good : table'[r] > 1 => r \in exposed
  BY <1>1, <1>3 DEF Ahead, Works, Unloaded, DataInv
<1>6. CompletedLoaded' /\ CheckpointTruthful'
  <2>1. CASE ckpt' = ckpt
    BY <1>1, <2>1 DEF DataInv, CompletedLoaded, CheckpointTruthful, Covered
  <2>2. CASE ckpt' = Torn
    <3>1. ckpt'.state = "torn" /\ Covered' = 0
      BY <2>2 DEF Torn, Covered
    <3>2. \A r \in Good : ~(r <= 0)
      BY RowNumbers DEF IInv
    <3> QED  BY <1>1, <3>1, <3>2 DEF CompletedLoaded, CheckpointTruthful
  <2> QED  BY <2>1, <2>2
<1> QED  BY <1>1, <1>2, <1>4, <1>5, <1>6, DataStep

(* save_checkpoint empties the file first.                                 *)
LEMMA SaveStep ==
    ASSUME IInv, DataInv, NEW t \in Tokens, NEW s \in {"Paused", "Completed", "Failed"}, NEW e,
           Save(t, worker[t], s, e), Works(worker[t]),
           s = "Completed" => worker[t].batch = {} /\ \A r \in Good : r <= worker[t].pos,
           UNCHANGED <<file, job, exposed, replaced, table, dropped>>
    PROVE  DataInv'
<1> SUFFICES ASSUME NEW v, v = [worker[t] EXCEPT !.stage = "write", !.save = s, !.end = e]
             PROVE  DataInv'
  OBVIOUS
<1>1. worker[t] \in Workers
  BY DEF IInv, Typed
<1>2. /\ v.stage = "write" /\ v.save = s /\ v.pos = worker[t].pos /\ v.row = worker[t].row
      /\ v.batch = worker[t].batch
  BY <1>1 DEF Workers
<1>3. worker' = [worker EXCEPT ![t] = v] /\ ckpt' = Torn
  BY DEF Save, Step
<1>4. worker[t].stage # "off"
  BY DEF Works
<1> QED  BY <1>2, <1>3, <1>4, PlainStep

(* The steps between two rows, and those that end a run.                   *)
LEMMA QuietData ==
    ASSUME IInv, DataInv, NEW t \in Tokens,
           \/ BeginFails(t) \/ ReadFails(t) \/ ReadEof(t) \/ SeeCancel(t) \/ ExecuteBatchFails(t)
           \/ Checkpoint(t) \/ NoCheckpointYet(t) \/ WriteFails(t)
    PROVE  DataInv'
<1> USE DEF Step, manager, bounds, outside
<1>1. worker[t] \in Workers /\ worker[t].pos \in Nat /\ Sound(worker[t])
  BY DEF IInv, Typed, DataInv, Workers
<1>2. UNCHANGED <<file, job, exposed, replaced, table, dropped>>
  BY DEF BeginFails, ReadFails, ReadEof, SeeCancel, ExecuteBatchFails, Checkpoint,
         NoCheckpointYet, WriteFails
<1>3. CASE BeginFails(t) \/ ExecuteBatchFails(t)
  <2> SUFFICES ASSUME NEW v, v = [worker[t] EXCEPT !.stage = "return", !.end = "Failed"]
               PROVE  DataInv'
    OBVIOUS
  <2>1. /\ v.stage = "return" /\ v.pos = worker[t].pos /\ v.row = worker[t].row
        /\ v.batch = worker[t].batch /\ v.save = worker[t].save
    BY <1>1 DEF Workers
  <2>2. /\ worker' = [worker EXCEPT ![t] = v] /\ UNCHANGED ckpt
        /\ worker[t].stage \in {"starting", "batch", "final"}
    BY <1>3 DEF BeginFails, ExecuteBatchFails
  <2>3. v.save = "none"
    BY <1>1, <2>1, <2>2 DEF Sound
  <2> QED  BY <1>2, <2>1, <2>2, <2>3, PlainStep DEF Works
<1>4. CASE WriteFails(t)
  <2> SUFFICES ASSUME NEW v, v = [worker[t] EXCEPT !.stage = "return", !.end = "Failed", !.save = "none"]
               PROVE  DataInv'
    OBVIOUS
  <2>1. /\ v.stage = "return" /\ v.pos = worker[t].pos /\ v.row = worker[t].row
        /\ v.batch = worker[t].batch /\ v.save = "none"
    BY <1>1 DEF Workers
  <2>2. worker' = [worker EXCEPT ![t] = v] /\ UNCHANGED ckpt /\ worker[t].stage = "write"
    BY <1>4 DEF WriteFails
  <2> QED  BY <1>2, <2>1, <2>2, PlainStep DEF Works
<1>5. CASE NoCheckpointYet(t)
  <2> SUFFICES ASSUME NEW v, v = [worker[t] EXCEPT !.stage = "loop"]
               PROVE  DataInv'
    OBVIOUS
  <2>1. /\ v.stage = "loop" /\ v.pos = worker[t].pos /\ v.row = worker[t].row
        /\ v.batch = worker[t].batch /\ v.save = worker[t].save
    BY <1>1 DEF Workers
  <2>2. worker' = [worker EXCEPT ![t] = v] /\ UNCHANGED ckpt /\ worker[t].stage = "after"
    BY <1>5 DEF NoCheckpointYet
  <2>3. v.save = "none"
    BY <1>1, <2>1, <2>2 DEF Sound
  <2> QED  BY <1>2, <2>1, <2>2, <2>3, PlainStep DEF Works
<1>6. CASE ReadFails(t)
  <2>1. Works(worker[t])
    BY <1>6 DEF ReadFails, Reading, Works
  <2> QED  BY <1>2, <1>6, <2>1, SaveStep DEF ReadFails
<1>7. CASE SeeCancel(t)
  <2>1. Works(worker[t])
    BY <1>7 DEF SeeCancel, Works
  <2> QED  BY <1>2, <1>7, <2>1, SaveStep DEF SeeCancel
<1>8. CASE Checkpoint(t)
  <2>1. Works(worker[t])
    BY <1>8 DEF Checkpoint, Works
  <2> QED  BY <1>2, <1>8, <2>1, SaveStep DEF Checkpoint
<1>9. CASE ReadEof(t)
  <2>1. /\ Works(worker[t]) /\ worker[t].stage = "loop" /\ NextGood(worker[t].pos) = {}
    BY <1>9 DEF ReadEof, Reading, Works
  <2>2. \A r \in Good : r <= worker[t].pos
    BY <1>1, <2>1, EofIsEnd DEF IInv
  <2>3. CASE worker[t].batch = {}
    BY <1>2, <1>9, <2>1, <2>2, <2>3, SaveStep DEF ReadEof
  <2>4. CASE worker[t].batch # {}
    <3> SUFFICES ASSUME NEW v, v = [worker[t] EXCEPT !.stage = "final"]
                 PROVE  DataInv'
      OBVIOUS
    <3>1. /\ v.stage = "final" /\ v.pos = worker[t].pos /\ v.row = worker[t].row
          /\ v.batch = worker[t].batch /\ v.save = worker[t].save
      BY <1>1 DEF Workers
    <3>2. worker' = [worker EXCEPT ![t] = v] /\ UNCHANGED ckpt
      BY <1>9, <2>4 DEF ReadEof
    <3>3. v.save = "none"
      BY <1>1, <2>1, <3>1 DEF Sound
    <3> QED  BY <1>2, <2>1, <2>2, <3>1, <3>2, <3>3, PlainStep
  <2> QED  BY <2>3, <2>4
<1> QED  BY <1>3, <1>4, <1>5, <1>6, <1>7, <1>8, <1>9

(* The seek: what it passes over unloaded is dropped, and no crash has     *)
(* left anything but exposed rows beyond it.                               *)
LEMMA BeginData ==
    ASSUME IInv, DataInv, NEW t \in Tokens, Begin(t)
    PROVE  DataInv'
<1> USE DEF Step, manager, bounds
<1>1. PICK p \in SeekTo(ckpt.row) :
        /\ worker' = [worker EXCEPT ![t] =
                        [worker[t] EXCEPT !.stage = "loop", !.row = ckpt.row, !.pos = p]]
        /\ dropped' = dropped \cup {r \in Good : r <= p /\ table[r] = 0}
  BY DEF Begin
<1>2. /\ worker[t].stage = "starting" /\ UNCHANGED <<file, job, exposed, replaced, table, ckpt>>
  BY DEF Begin
<1>3. /\ p \in Nat /\ ckpt.row \in Nat /\ ckpt.row <= p
  <2>1. Len(file) \in Nat /\ ckpt.row \in Nat
    BY RowNumbers DEF IInv, Typed
  <2>2. p \in Nat /\ Cardinality({r \in 1..p : file[r]}) = ckpt.row
    BY <2>1 DEF SeekTo
  <2> QED  BY <2>1, <2>2, SeekPasses
<1> SUFFICES ASSUME NEW v, v = [worker[t] EXCEPT !.stage = "loop", !.row = ckpt.row, !.pos = p]
             PROVE  DataInv'
  OBVIOUS
<1>4. /\ worker[t] \in Workers /\ Sound(worker[t]) /\ table \in [Rows -> Nat]
      /\ Good' = Good /\ Rows' = Rows /\ Good \subseteq Rows /\ Good \subseteq Nat
  BY <1>2, RowNumbers DEF IInv, Typed, DataInv, Good, Rows
<1>5. /\ v.stage = "loop" /\ v.pos = p /\ v.row = ckpt.row /\ v.batch = {} /\ v.save = "none"
  <2>1. /\ v.stage = "loop" /\ v.pos = p /\ v.row = ckpt.row
        /\ v.batch = worker[t].batch /\ v.save = worker[t].save
    BY <1>4 DEF Workers
  <2> QED  BY <1>2, <1>4, <2>1 DEF Sound
<1>6. \A r \in Rows : table'[r] >= table[r]
  BY <1>2, <1>4
<1>7. Sound(v)'
  <2>1. \A r \in Good : r <= p => table[r] > 0 \/ r \in dropped'
    BY <1>1, <1>4
  <2> QED  BY <1>2, <1>3, <1>4, <1>5, <2>1 DEF Sound
<1>8. CompletedLoaded' /\ CheckpointTruthful'
  BY <1>1, <1>2, <1>4 DEF DataInv, CompletedLoaded, CheckpointTruthful, Covered
<1>9. ASSUME ~replaced PROVE Ahead(v)' /\ \A r \in Good : table'[r] > 1 => r \in exposed
  <2>1. \A r \in Good : r > Covered => Unloaded(r)
    BY <1>2, <1>9 DEF DataInv, Unstarted
  <2>2. \A r \in Good : r > p => r > Covered
    BY <1>3, <1>4 DEF Covered
  <2>3. Ahead(v)'
    BY <1>2, <1>4, <1>5, <2>1, <2>2 DEF Ahead, Unloaded
  <2> QED  BY <1>2, <1>9, <2>3 DEF DataInv
<1>10. worker' = [worker EXCEPT ![t] = v] /\ dropped \subseteq dropped'
  BY <1>1
<1> QED  BY <1>2, <1>4, <1>5, <1>6, <1>7, <1>8, <1>9, <1>10, DataStep

(* The next row joins the batch.                                           *)
LEMMA ReadRowData ==
    ASSUME IInv, DataInv, NEW t \in Tokens, ReadRow(t)
    PROVE  DataInv'
<1> USE DEF Step, manager, bounds, outside
<1> DEFINE w == worker[t]
           since == IF w.since < Interval THEN w.since + 1 ELSE w.since
           stage(r) == IF Cardinality(w.batch \cup {r}) >= BatchSize THEN "batch" ELSE "after"
<1>1. PICK r \in NextGood(w.pos) :
        worker' = [worker EXCEPT ![t] = [w EXCEPT !.pos = r, !.row = r, !.batch = w.batch \cup {r},
                                                  !.since = since, !.stage = stage(r)]]
  BY DEF ReadRow
<1>2. /\ w.stage = "loop" /\ UNCHANGED <<file, job, exposed, replaced, table, dropped, ckpt>>
  BY DEF ReadRow, Reading
<1>3. /\ w \in Workers /\ w.pos \in Nat /\ Sound(w) /\ table \in [Rows -> Nat]
      /\ Good' = Good /\ Rows' = Rows /\ Good \subseteq Rows /\ Good \subseteq Nat
  BY <1>2, RowNumbers DEF IInv, Typed, DataInv, Good, Rows, Workers
<1>4. /\ r \in Good /\ r \in Nat /\ r > w.pos /\ \A q \in Good : q <= r => q <= w.pos \/ q = r
  BY <1>3 DEF NextGood
<1> SUFFICES ASSUME NEW v, v = [w EXCEPT !.pos = r, !.row = r, !.batch = w.batch \cup {r},
                                         !.since = since, !.stage = stage(r)]
             PROVE  DataInv'
  OBVIOUS
<1>5. stage(r) \in {"batch", "after"}
  OBVIOUS
<1> HIDE DEF since, stage
<1>6. /\ v.stage \in {"batch", "after"} /\ v.pos = r /\ v.row = r /\ v.batch = w.batch \cup {r}
      /\ v.save = "none"
  <2>1. /\ v.stage = stage(r) /\ v.pos = r /\ v.row = r /\ v.batch = w.batch \cup {r}
        /\ v.save = w.save
    BY <1>3 DEF Workers
  <2> QED  BY <1>2, <1>3, <1>5, <2>1 DEF Sound
<1>7. Works(w)
  BY <1>2 DEF Works
<1>8. \A q \in Rows : table'[q] >= table[q]
  BY <1>2, <1>3
<1>9. Sound(v)'
  <2>1. \A q \in v.batch : q \in Good /\ q <= r
    BY <1>3, <1>4, <1>6, <1>7 DEF Sound
  <2>2. \A q \in Good : q <= r => table[q] > 0 \/ q \in v.batch \cup dropped
    BY <1>3, <1>4, <1>6, <1>7 DEF Sound
  <2> QED  BY <1>2, <1>3, <1>4, <1>6, <2>1, <2>2 DEF Sound
<1>10. CompletedLoaded' /\ CheckpointTruthful'
  BY <1>2, <1>3 DEF DataInv, CompletedLoaded, CheckpointTruthful, Covered
<1>11. ASSUME ~replaced PROVE Ahead(v)' /\ \A q \in Good : table'[q] > 1 => q \in exposed
  <2>1. \A q \in Good : q > w.pos \/ q \in w.batch => Unloaded(q)
    BY <1>7, <1>11 DEF DataInv, Ahead
  <2>2. \A q \in Good : q > r \/ q \in v.batch => q > w.pos \/ q \in w.batch
    BY <1>3, <1>4, <1>6
  <2>3. Ahead(v)'
    BY <1>2, <1>3, <1>6, <2>1, <2>2 DEF Ahead, Unloaded
  <2> QED  BY <1>2, <1>11, <2>3 DEF DataInv
<1>12. worker' = [worker EXCEPT ![t] = v]
  BY <1>1
<1> QED  BY <1>2, <1>3, <1>6, <1>8, <1>9, <1>10, <1>11, <1>12, DataStep

(* execute_batch loads the batch, and empties it.                          *)
LEMMA ExecuteData ==
    ASSUME IInv, DataInv, NEW t \in Tokens, ExecuteBatch(t)
    PROVE  DataInv'
<1> USE DEF Step, manager, bounds
<1> DEFINE w == worker[t]
           final == w.stage = "final"
           loaded == [w EXCEPT !.batch = {}]
           after == [loaded EXCEPT !.stage = "after"]
           saving == [loaded EXCEPT !.stage = "write", !.save = "Completed", !.end = "Completed"]
<1>1. /\ w.stage \in {"batch", "final"} /\ UNCHANGED <<file, job, exposed, replaced, dropped>>
      /\ table' = [r \in Rows |-> IF r \in w.batch THEN table[r] + 1 ELSE table[r]]
  BY DEF ExecuteBatch, TableWith
<1>2. /\ w \in Workers /\ w.pos \in Nat /\ Sound(w) /\ table \in [Rows -> Nat] /\ Works(w)
      /\ Good' = Good /\ Rows' = Rows /\ Good \subseteq Rows /\ Good \subseteq Nat
      /\ \A r \in Good : r >= 1
  BY <1>1, RowNumbers DEF IInv, Typed, DataInv, Good, Rows, Workers, Works
<1> SUFFICES ASSUME NEW v, v = (IF final THEN saving ELSE after)
             PROVE  DataInv'
  OBVIOUS
<1>3. worker' = [worker EXCEPT ![t] = v] /\ ckpt' = (IF final THEN Torn ELSE ckpt)
  <2>1. CASE final
    BY <2>1 DEF ExecuteBatch, TableWith, Save
  <2>2. CASE ~final
    BY <1>1, <2>2 DEF ExecuteBatch, TableWith
  <2> QED  BY <2>1, <2>2
<1>4. /\ v.pos = w.pos /\ v.row = w.row /\ v.batch = {}
      /\ final => v.stage = "write" /\ v.save = "Completed"
      /\ ~final => v.stage = "after" /\ v.save = "none"
  <2>1. w.save = "none"
    BY <1>1, <1>2 DEF Sound
  <2>2. CASE final
    BY <1>2, <2>2 DEF Workers
  <2>3. CASE ~final
    BY <1>2, <2>1, <2>3 DEF Workers
  <2> QED  BY <2>2, <2>3
<1>5. /\ table' \in [Rows -> Nat]
      /\ \A r \in Rows : table'[r] = IF r \in w.batch THEN table[r] + 1 ELSE table[r]
  BY <1>1, <1>2
<1>6. \A r \in Rows : table'[r] >= table[r] /\ (r \in w.batch => table'[r] > 0)
  BY <1>2, <1>5
<1>7. \A r \in Good : table[r] > 0 \/ r \in w.batch => table'[r] > 0
  <2> SUFFICES ASSUME NEW r \in Good, table[r] > 0 \/ r \in w.batch PROVE table'[r] > 0
    OBVIOUS
  <2>1. r \in Rows /\ table[r] \in Nat /\ table'[r] \in Nat
    BY <1>2, <1>5
  <2> QED  BY <1>6, <2>1
<1>8. Sound(v)'
  <2>1. \A r \in Good : r <= w.pos => table'[r] > 0 \/ r \in dropped
    BY <1>2, <1>7 DEF Sound
  <2>2. w.row <= w.pos /\ (final => \A r \in Good : r <= w.pos)
    BY <1>2 DEF Sound
  <2> HIDE DEF final
  <2> QED  BY <1>1, <1>2, <1>4, <2>1, <2>2 DEF Sound
<1>9. CompletedLoaded' /\ CheckpointTruthful'
  <2>1. CASE ~final
    BY <1>1, <1>2, <1>3, <1>7, <2>1 DEF DataInv, CompletedLoaded, CheckpointTruthful, Covered
  <2>2. CASE final
    <3>1. ckpt'.state = "torn" /\ Covered' = 0
      BY <1>3, <2>2 DEF Torn, Covered
    <3> QED  BY <1>2, <3>1 DEF CompletedLoaded, CheckpointTruthful
  <2> QED  BY <2>1, <2>2
<1>10. ASSUME ~replaced PROVE Ahead(v)' /\ \A r \in Good : table'[r] > 1 => r \in exposed
  <2>1. \A r \in Good : r > w.pos \/ r \in w.batch => table[r] = 0 \/ r \in exposed
    BY <1>2, <1>10 DEF DataInv, Ahead, Unloaded
  <2>2. \A r \in Good : table[r] > 1 => r \in exposed
    BY <1>10 DEF DataInv
  <2>3. \A r \in Good : r > w.pos => r \notin w.batch
    BY <1>2 DEF Sound
  <2>4. \A r \in Good : r > w.pos => table'[r] = 0 \/ r \in exposed
    BY <1>2, <1>5, <2>1, <2>3
  <2>5. Ahead(v)'
    BY <1>1, <1>2, <1>4, <2>4 DEF Ahead, Unloaded
  <2>6. \A r \in Good : table'[r] > 1 => r \in exposed
    <3> SUFFICES ASSUME NEW r \in Good, table'[r] > 1, r \notin exposed PROVE FALSE
      OBVIOUS
    <3>1. r \in Rows /\ table[r] \in Nat
      BY <1>2
    <3>2. CASE r \in w.batch
      <4>1. table[r] = 0
        BY <2>1, <3>2
      <4> QED  BY <1>5, <3>1, <3>2, <4>1
    <3>3. CASE r \notin w.batch
      BY <1>5, <2>2, <3>1, <3>3
    <3> QED  BY <3>2, <3>3
  <2> QED  BY <2>5, <2>6
<1>11. v.stage # "starting" /\ worker[t].stage # "off"
  BY <1>1, <1>4
<1> QED  BY <1>1, <1>2, <1>3, <1>5, <1>6, <1>8, <1>9, <1>10, <1>11, DataStep

(* The checkpoint is written: what the worker knew is what the file says.  *)
LEMMA WriteData ==
    ASSUME IInv, DataInv, NEW t \in Tokens, Write(t)
    PROVE  DataInv'
<1> USE DEF Step, manager, bounds, outside
<1> DEFINE w == worker[t]
<1> SUFFICES ASSUME NEW v, v = [w EXCEPT !.since = 0, !.save = "none",
                                 !.stage = IF w.end = "none" THEN "loop" ELSE "return"]
             PROVE  DataInv'
  OBVIOUS
<1>1. /\ w.stage = "write" /\ UNCHANGED <<file, job, exposed, replaced, table, dropped>>
      /\ ckpt' = [state |-> w.save, row |-> w.row, batch |-> w.batch]
      /\ worker' = [worker EXCEPT ![t] = v]
  BY DEF Write
<1>2. /\ w \in Workers /\ w.pos \in Nat /\ w.row \in Nat /\ Sound(w) /\ Works(w)
      /\ table \in [Rows -> Nat]
      /\ Good' = Good /\ Rows' = Rows /\ Good \subseteq Rows /\ Good \subseteq Nat
  BY <1>1, RowNumbers DEF IInv, Typed, DataInv, Good, Rows, Workers, Works
<1>3. /\ v.pos = w.pos /\ v.row = w.row /\ v.batch = w.batch /\ v.save = "none"
      /\ v.stage \in {"loop", "return"}
  BY <1>2 DEF Workers
<1>4. \A r \in Rows : table'[r] >= table[r]
  BY <1>1, <1>2
<1>5. Sound(v)'
  BY <1>1, <1>2, <1>3 DEF Sound
<1>6. CompletedLoaded'
  <2> SUFFICES ASSUME w.save = "Completed" PROVE \A r \in Good : table[r] > 0 \/ r \in dropped
    BY <1>1, <1>2 DEF CompletedLoaded
  <2> QED  BY <1>2 DEF Sound
<1>7. CheckpointTruthful'
  <2>1. Covered' <= w.pos
    BY <1>1, <1>2 DEF Sound, Covered
  <2>2. Covered' \in Nat
    BY <1>1, <1>2 DEF Covered
  <2>3. \A r \in Good : r <= Covered' => r <= w.pos
    BY <1>2, <2>1, <2>2
  <2>4. \A r \in Good : r <= Covered' => table[r] > 0 \/ r \in w.batch \cup dropped
    BY <1>2, <2>3 DEF Sound
  <2> QED  BY <1>1, <1>2, <2>4 DEF CheckpointTruthful
<1>8. ASSUME ~replaced PROVE Ahead(v)' /\ \A r \in Good : table'[r] > 1 => r \in exposed
  BY <1>1, <1>2, <1>3, <1>8 DEF DataInv, Ahead, Unloaded
<1> QED  BY <1>1, <1>2, <1>3, <1>4, <1>5, <1>6, <1>7, <1>8, DataStep

-----------------------------------------------------------------------------
(* The steps of the manager, and the crash.                                *)

LEMMA InitData == Init => DataInv
<1> SUFFICES ASSUME Init PROVE DataInv
  OBVIOUS
<1>1. \A t \in Tokens : worker[t] = NoWorker
  BY DEF Init
<1>2. /\ NoWorker.stage = "off" /\ NoWorker.save = "none" /\ NoWorker.batch = {}
  BY DEF NoWorker
<1>3. /\ table \in [Rows -> Nat] /\ \A r \in Good : table[r] = 0
  BY DEF Init, Good
<1>4. \A t \in Tokens : Sound(worker[t]) /\ Ahead(worker[t])
  BY <1>1, <1>2 DEF Sound, Ahead, Works
<1>5. ckpt.state = "none" /\ Covered = 0 /\ \A r \in Good : ~(r <= 0)
  <2>1. Typed
    BY InitOK DEF IInv
  <2>2. \A r \in Good : ~(r <= 0)
    BY <2>1, RowNumbers
  <2> QED  BY <2>2 DEF Init, NoCheckpoint, Covered
<1> QED  BY <1>3, <1>4, <1>5 DEF DataInv, CompletedLoaded, CheckpointTruthful, Unloaded

LEMMA ManagerData ==
    ASSUME IInv, DataInv,
           \/ RegisterCheck \/ RegisterInsert \/ CancelJob \/ Shutdown
    PROVE  DataInv'
<1> USE DEF manager, bounds, outside
<1>1. /\ UNCHANGED <<worker, ckpt, table, dropped, exposed, file>>
      /\ replaced => replaced'
      /\ ~replaced' => UNCHANGED job \/ job.status = "None"
  <2>1. CASE RegisterInsert
    <3>1. replaced' = (replaced \/ job.status # "None")
      BY <2>1 DEF RegisterInsert
    <3>2. (replaced => replaced') /\ (~replaced' => job.status = "None")
      BY <3>1, Zenon
    <3> QED  BY <2>1, <3>2 DEF RegisterInsert
  <2>2. CASE RegisterCheck \/ CancelJob \/ Shutdown
    BY <2>2 DEF RegisterCheck, CancelJob, Shutdown
  <2> QED  BY <2>1, <2>2
<1>2. Good' = Good /\ Rows' = Rows /\ Covered' = Covered /\ \A r : Unloaded(r)' = Unloaded(r)
  BY <1>1 DEF Good, Rows, Covered, Unloaded
<1>3. ~replaced' /\ Unstarted' => ~replaced /\ Unstarted
  BY <1>1 DEF Unstarted
<1>4. \A t \in Tokens : Sound(worker[t])' /\ (~replaced' => Ahead(worker[t])')
  BY <1>1, <1>2 DEF DataInv, Sound, Ahead, Works
<1> QED  BY <1>1, <1>2, <1>3, <1>4 DEF DataInv, CompletedLoaded, CheckpointTruthful

LEMMA StartData ==
    ASSUME IInv, DataInv, StartJob
    PROVE  DataInv'
<1> USE DEF bounds, outside
<1> SUFFICES ASSUME NEW v, v = [NoWorker EXCEPT !.stage = "starting"]
             PROVE  DataInv'
  OBVIOUS
<1>1. /\ job.status = "Pending" /\ worker' = [worker EXCEPT ![job.token] = v]
      /\ UNCHANGED <<ckpt, table, dropped, exposed, file, replaced>>
  BY DEF StartJob, CanStart
<1>2. v.stage = "starting" /\ v.batch = {} /\ v.save = "none"
  BY DEF NoWorker
<1>3. Good' = Good /\ Rows' = Rows /\ Covered' = Covered /\ \A r : Unloaded(r)' = Unloaded(r)
  BY <1>1 DEF Good, Rows, Covered, Unloaded
<1>4. \A t \in Tokens : worker'[t] = v \/ worker'[t] = worker[t]
  BY <1>1 DEF IInv, Typed
<1>5. \A t \in Tokens : Sound(worker[t])' /\ (~replaced => Ahead(worker[t])')
  BY <1>1, <1>2, <1>3, <1>4 DEF DataInv, Sound, Ahead, Works
<1>6. Unstarted
  BY <1>1 DEF Unstarted
<1> QED  BY <1>1, <1>3, <1>5, <1>6 DEF DataInv, CompletedLoaded, CheckpointTruthful

LEMMA ReturnData ==
    ASSUME IInv, DataInv, NEW t \in Tokens, Return(t)
    PROVE  DataInv'
<1> USE DEF Step, bounds, outside
<1> SUFFICES ASSUME NEW v, v = [worker[t] EXCEPT !.stage = "off", !.batch = {}]
             PROVE  DataInv'
  OBVIOUS
<1>1. /\ worker[t].stage = "return" /\ worker' = [worker EXCEPT ![t] = v]
      /\ job' = [job EXCEPT !.status = worker[t].end]
      /\ UNCHANGED <<ckpt, table, dropped, exposed, file, replaced>>
  BY DEF Return
<1>2. /\ v.stage = "off" /\ v.batch = {} /\ v.save = "none" /\ worker[t].end \in Terminal
  <2>1. /\ worker[t] \in Workers /\ Sound(worker[t]) /\ worker[t].end \in Terminal
    BY <1>1 DEF IInv, Typed, EndsHonest, DataInv
  <2> QED  BY <1>1, <2>1 DEF Sound, Workers
<1>3. Good' = Good /\ Rows' = Rows /\ Covered' = Covered /\ \A r : Unloaded(r)' = Unloaded(r)
  BY <1>1 DEF Good, Rows, Covered, Unloaded
<1>4. worker'[t] = v /\ \A u \in Tokens : u # t => worker'[u] = worker[u]
  BY <1>1 DEF IInv, Typed
<1>5. \A u \in Tokens : Sound(worker[u])' /\ (~replaced => Ahead(worker[u])')
  BY <1>1, <1>2, <1>3, <1>4 DEF DataInv, Sound, Ahead, Works
<1>6. ~replaced => ~Unstarted'
  <2> SUFFICES ASSUME ~replaced PROVE ~Unstarted'
    OBVIOUS
  <2>1. Live = {t}
    BY ReturnsOwn
  <2>2. \A u \in Tokens : worker'[u].stage = "off"
    BY <1>2, <1>4, <2>1 DEF Live
  <2>3. job'.status \in Terminal
    BY <1>1, <1>2 DEF IInv, Typed
  <2> QED  BY <2>2, <2>3 DEF Unstarted, Terminal
<1> QED  BY <1>1, <1>3, <1>5, <1>6 DEF DataInv, CompletedLoaded, CheckpointTruthful

(* A crash exposes what is loaded beyond the checkpoint.                   *)
LEMMA CrashData ==
    ASSUME IInv, DataInv, Crash
    PROVE  DataInv'
<1>1. /\ exposed' = exposed \cup {r \in Good : table[r] > 0 /\ r > Covered}
      /\ worker' = [t \in Tokens |-> NoWorker]
      /\ UNCHANGED <<ckpt, table, dropped, file, replaced>>
  BY DEF Crash
<1>2. /\ NoWorker.stage = "off" /\ NoWorker.batch = {} /\ NoWorker.save = "none"
  BY DEF NoWorker
<1>3. Good' = Good /\ Rows' = Rows /\ Covered' = Covered
      /\ Good \subseteq Rows /\ table \in [Rows -> Nat]
  BY <1>1, RowNumbers DEF Good, Rows, Covered, IInv, DataInv
<1>4. \A r \in Good : r > Covered => Unloaded(r)'
  BY <1>1, <1>3 DEF Unloaded
<1>5. \A t \in Tokens : Sound(worker[t])' /\ Ahead(worker[t])'
  BY <1>1, <1>2 DEF Sound, Ahead, Works
<1> QED  BY <1>1, <1>3, <1>4, <1>5 DEF DataInv, CompletedLoaded, CheckpointTruthful

LEMMA DataNext == IInv /\ DataInv /\ [Next]_vars => DataInv'
<1> SUFFICES ASSUME IInv, DataInv, [Next]_vars PROVE DataInv'
  OBVIOUS
<1>1. CASE UNCHANGED vars
  BY <1>1 DEF vars, DataInv, Sound, Ahead, Works, Unloaded, Unstarted, CompletedLoaded,
     CheckpointTruthful, Covered, Good, Rows
<1>2. ASSUME NEW t \in Tokens, WorkerStep(t)
      PROVE  DataInv'
  BY <1>2, QuietData, BeginData, ReadRowData, ExecuteData, WriteData, ReturnData DEF WorkerStep
<1> QED  BY <1>1, <1>2, ManagerData, StartData, CrashData DEF Next

(* The bookkeeping of rows holds of all runs, resumed, cancelled, failing  *)
(* and crashing ones.                                                      *)
THEOREM DataInductive == Spec => []DataInv
BY InitData, DataNext, Inductive, PTL DEF Spec

(* A row the reader has passed is loaded, in the batch, or was dropped by  *)
(* a resume; a completed load has loaded every row but those.              *)
THEOREM RowsAreAccounted == Spec => []RowsAccounted
<1>1. DataInv => RowsAccounted
  BY DEF DataInv, RowsAccounted, CompletedLoaded, Sound, Works, Live
<1> QED  BY <1>1, DataInductive, PTL

(* Every row a checkpoint covers is loaded, was in the batch in memory     *)
(* when it was written, or was dropped by an earlier resume.               *)
THEOREM CheckpointsTruthful == Spec => []CheckpointTruthful
<1>1. DataInv => CheckpointTruthful
  BY DEF DataInv
<1> QED  BY <1>1, DataInductive, PTL

(* Only a crash after the load and before its checkpoint, or a replaced    *)
(* registration, makes a row load twice.                                   *)
THEOREM OnlyExposedReload == Spec => []ReloadedWereExposed
<1>1. DataInv => ReloadedWereExposed
  BY DEF DataInv, ReloadedWereExposed
<1> QED  BY <1>1, DataInductive, PTL
=============================================================================
