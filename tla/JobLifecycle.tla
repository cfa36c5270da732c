----------------------------- MODULE JobLifecycle -----------------------------
(***************************************************************************)
(* What the loader promises of a job's status: the state diagram above     *)
(* LoaderJobStatus (mapping/loader/orchestration/job_state.rs) with        *)
(* is_terminal's "no further transitions", for as long as no registration  *)
(* has replaced an entry.  The manager's map is in memory: a crash forgets *)
(* the job.  Paused is never entered in this version.                      *)
(***************************************************************************)
VARIABLES
    status,             \* the status of the job, "None" when it is not registered
    cancel,             \* whether its cancellation was requested
    replaced            \* whether a registration replaced an entry

vars == <<status, cancel, replaced>>

Terminal == {"Completed", "Failed", "Cancelled"}
Status == {"None", "Pending", "Running"} \cup Terminal

Init == status = "None" /\ cancel = FALSE /\ replaced = FALSE

Register == status = "None" /\ status' = "Pending" /\ UNCHANGED <<cancel, replaced>>

Start == status = "Pending" /\ status' = "Running" /\ UNCHANGED <<cancel, replaced>>

RequestCancel ==
    /\ status \in {"Pending", "Running"}
    /\ cancel' = TRUE
    /\ UNCHANGED <<status, replaced>>

(* A run ends as Cancelled only when that was asked for.                   *)
Finish ==
    /\ status = "Running"
    /\ status' \in Terminal
    /\ status' = "Cancelled" => cancel
    /\ UNCHANGED <<cancel, replaced>>

Crash == status' = "None" /\ cancel' = FALSE /\ UNCHANGED replaced

(* The diagram binds no longer.                                            *)
Replace == replaced' = TRUE /\ status' \in Status /\ cancel' \in BOOLEAN

Next == Register \/ Start \/ RequestCancel \/ Finish \/ Crash \/ Replace

Spec == Init /\ [][Next]_vars
=============================================================================
