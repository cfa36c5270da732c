----------------------------- MODULE MCBatchJobs -----------------------------
(* Instances of BatchJobs for TLC.                                         *)
EXTENDS BatchJobs, TLC

CONSTANTS x, y

Job(dx, dy, stop, retries, parallel) ==
    [deps |-> (x :> dx @@ y :> dy), stop_on_error |-> stop, retry_failed |-> TRUE,
     max_retries |-> retries, max_parallel |-> parallel]

(* One wave with one permit for two executions, which retry, stopping at   *)
(* an error; two waves, going on after one; a circle.                      *)
MCJobs == {Job({}, {}, TRUE, 1, 1), Job({}, {x}, FALSE, 0, 2), Job({y}, {x}, FALSE, 0, 2)}
=============================================================================
