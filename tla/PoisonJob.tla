------------------------------ MODULE PoisonJob ------------------------------
(***************************************************************************)
(* PipelineService with a count of how often the current stage of each     *)
(* article left the worker's connection in a failed transaction, in runs   *)
(* in which nobody kills the process.                                      *)
(***************************************************************************)
EXTENDS PipelineService

VARIABLE strikes   \* [Urls -> 0..StrikeCap]

(* One more than the service should ever reach; the count stops there. *)
StrikeCap == MaxAttempts + 1

(* A statement of the stage that worker w runs fails in the server, and    *)
(* process_article catches the exception: StageAborts, nothing else.       *)
Aborted(w) == pc[w] = "stage" /\ pc'[w] = "wrecked"

(* The row is granted new attempts: by jobs.advance or jobs.requeue_failed. *)
Pardoned(u) ==
  \/ job'[u].stage # job[u].stage
  \/ job[u].status = "failed" /\ job'[u].status = "pending"

Count ==
  strikes' = [u \in Urls |->
    IF Pardoned(u) THEN 0
    ELSE IF (\E w \in Workers : held[w] = u /\ Aborted(w)) /\ strikes[u] < StrikeCap
    THEN strikes[u] + 1
    ELSE strikes[u]]

(* The process goes down only by unwinding after an exception. *)
NoKill == svc = "up" => svc' # "down"

CountedInit == Init /\ strikes = [u \in Urls |-> 0]
CountedNext == Next /\ NoKill /\ Count
CountedSpec == CountedInit /\ [][CountedNext]_<<vars, strikes>>

(* jobs.py:5-6, "over-cap jobs park as 'failed'": a stage that failed      *)
(* MaxAttempts times for an article, in the server and before the eyes of  *)
(* process_article, is not run again before an operator retries the job.   *)
RetryBudget == \A u \in Urls : strikes[u] <= MaxAttempts

=============================================================================
