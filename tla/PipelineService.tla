--------------------------- MODULE PipelineService ---------------------------
(***************************************************************************)
(* The continuous service: the pipeline_jobs table (service/jobs.py), the  *)
(* worker pool that drives each article through the stages, the feed task  *)
(* that enqueues articles, and the life of the process around them         *)
(* (service/worker.py: process_article, _listen_for_jobs, serve).          *)
(*                                                                         *)
(* One action is one commit on the table, or the stretch of a coroutine    *)
(* between two of them that another task can see.  What a stage does to    *)
(* the article is left to ArticleStages: here its runner returns, raises,  *)
(* leaves the worker's connection in a failed transaction, or raises       *)
(* something that process_article does not catch.                          *)
(***************************************************************************)
EXTENDS Naturals

CONSTANTS Urls,         \* the article URLs the feed may yield
          Workers,      \* the tasks of the worker pool
          None,         \* the value of a worker's `job` that is no job
          NumStages,    \* length of jobs.STAGES, 6 in the code
          MaxAttempts,  \* jobs.MAX_ATTEMPTS, 5 in the code
          Drain,        \* TRUE: serve(drain=True), the backfill command
          Retryable     \* the URLs an operator may pass to `jobs retry`

ASSUME ServiceAssumption ==
  /\ None \notin Urls
  /\ NumStages \in Nat \ {0}
  /\ MaxAttempts \in Nat \ {0}
  /\ Drain \in BOOLEAN
  /\ Retryable \subseteq Urls

VARIABLES
  job,        \* the table: [Urls -> Row]
  due,        \* the rows whose next_attempt_at has passed
  enqueuedAt, \* enqueued_at of each row
  clock,      \* how many rows were ever inserted
  svc,        \* the process: not running, running, unwinding, returned
  feed,       \* the feed task
  source,     \* what the feed may still yield in this run
  notice,     \* a NOTIFY is on its way to _listen_for_jobs
  pc,         \* where each worker is
  held,       \* the article_url of each worker's `job`
  at,         \* process_article's local `stage`
  ran,        \* history: stages whose runner has returned for the article
  blank       \* history: articles whose scrape returned "empty"

table   == <<job, due, enqueuedAt, clock>>
process == <<svc, feed, source, notice>>
workers == <<pc, held, at>>
history == <<ran, blank>>
vars    == <<table, process, workers, history>>

-----------------------------------------------------------------------------
(***************************************************************************)
(* Types                                                                   *)
(***************************************************************************)

Scrape == 1
Done   == NumStages + 1
Stages == 1..NumStages

(* `error` stands for last_error IS NOT NULL. *)
Row == [stage : 1..Done,
        status : {"absent", "pending", "running", "done", "failed"},
        attempts : 0..MaxAttempts,
        error : BOOLEAN]

NoRow == [stage |-> Scrape, status |-> "absent", attempts |-> 0, error |-> FALSE]

(* "claim"  about to call jobs.claim                                       *)
(* "empty"  jobs.claim returned None                                       *)
(* "drain"  about to ask jobs.queue_drained                                *)
(* "wait"   in wait_for(wake.wait(), poll_interval_s)                      *)
(* "stage"  the runner of stage `at` is running                            *)
(* "advance" about to commit jobs.advance to stage `at`                    *)
(* "fail", "park"  about to call jobs.fail, without or with permanent=True *)
(* "wrecked" about to call jobs.fail on a connection that will refuse it   *)
(* "exited" worker_task has returned        "dead" it has raised           *)
(* "off"    the process is not running                                     *)
PCs == {"off", "claim", "empty", "drain", "wait", "stage", "advance",
        "fail", "park", "wrecked", "exited", "dead"}

Processing == {"stage", "advance", "fail", "park", "wrecked"}

TypeOK ==
  /\ job \in [Urls -> Row]
  /\ due \subseteq Urls
  /\ enqueuedAt \in [Urls -> Nat]
  /\ clock \in Nat
  /\ svc \in {"down", "up", "stopping", "finished"}
  /\ feed \in {"off", "streaming", "signal", "exhausted", "broken"}
  /\ source \subseteq Urls
  /\ notice \in BOOLEAN
  /\ pc \in [Workers -> PCs]
  /\ held \in [Workers -> Urls \cup {None}]
  /\ at \in [Workers -> 1..Done]
  /\ ran \in [Urls -> SUBSET Stages]
  /\ blank \subseteq Urls

Init ==
  /\ job = [u \in Urls |-> NoRow]
  /\ due = {}
  /\ enqueuedAt = [u \in Urls |-> 0]
  /\ clock = 0
  /\ svc = "down"
  /\ feed = "off"
  /\ source = {}
  /\ notice = FALSE
  /\ pc = [w \in Workers |-> "off"]
  /\ held = [w \in Workers |-> None]
  /\ at = [w \in Workers |-> Scrape]
  /\ ran = [u \in Urls |-> {}]
  /\ blank = {}

-----------------------------------------------------------------------------
(***************************************************************************)
(* The queue: service/jobs.py                                              *)
(***************************************************************************)

With(status) == {u \in Urls : job[u].status = status}

(* Mutant of Claimable: the claim also takes rows that are being processed. *)
ClaimableTaken == (With("pending") \cap due) \cup With("running")

Claimable == With("pending") \cap due

Oldest(S) == {u \in S : \A v \in S : enqueuedAt[u] <= enqueuedAt[v]}

QueueDrained == With("pending") \cup With("running") = {}

(* next_attempt_at of a row that backs off is reached. *)
Ripen(u) ==
  /\ u \in With("pending") \ due
  /\ due' = due \cup {u}
  /\ UNCHANGED <<job, enqueuedAt, clock, process, workers, history>>

(* Mutant of RequeueFailed: the attempts are not given back. *)
RequeueSpent(S) ==
  /\ S # {}
  /\ S \subseteq With("failed") \cap Retryable
  /\ job' = [u \in Urls |-> IF u \in S THEN [job[u] EXCEPT !.status = "pending"]
                                     ELSE job[u]]
  /\ due' = due \cup S
  /\ UNCHANGED <<enqueuedAt, clock, process, workers, history>>

(* ticker-news jobs retry, for one URL or for every failed job.  It runs   *)
(* in a process of its own, and sends no NOTIFY.                           *)
RequeueFailed(S) ==
  /\ S # {}
  /\ S \subseteq With("failed") \cap Retryable
  /\ job' = [u \in Urls |-> IF u \in S
                THEN [job[u] EXCEPT !.status = "pending", !.attempts = 0]
                ELSE job[u]]
  /\ due' = due \cup S
  /\ UNCHANGED <<enqueuedAt, clock, process, workers, history>>

-----------------------------------------------------------------------------
(***************************************************************************)
(* A worker: worker_task and process_article                               *)
(***************************************************************************)

Running == svc \in {"up", "stopping"}

Goto(w, label) == pc' = [pc EXCEPT ![w] = label]

(* process_article ends. *)
LetGo(w) ==
  /\ held' = [held EXCEPT ![w] = None]
  /\ at' = [at EXCEPT ![w] = Scrape]

(* Mutant of ClaimJob: the worker starts over instead of resuming at the    *)
(* stage the row has reached.                                              *)
ClaimAnew(w) ==
  /\ Running
  /\ pc[w] = "claim"
  /\ \E u \in Oldest(Claimable) :
        /\ job' = [job EXCEPT ![u].status = "running"]
        /\ held' = [held EXCEPT ![w] = u]
        /\ at' = [at EXCEPT ![w] = Scrape]
  /\ Goto(w, "stage")
  /\ UNCHANGED <<due, enqueuedAt, clock, process, history>>

ClaimJob(w) ==
  /\ Running
  /\ pc[w] = "claim"
  /\ \E u \in Oldest(Claimable) :
        /\ job' = [job EXCEPT ![u].status = "running"]
        /\ held' = [held EXCEPT ![w] = u]
        /\ at' = [at EXCEPT ![w] = job[u].stage]
  /\ Goto(w, "stage")
  /\ UNCHANGED <<due, enqueuedAt, clock, process, history>>

ClaimNothing(w) ==
  /\ Running
  /\ pc[w] = "claim"
  /\ Claimable = {}
  /\ Goto(w, "empty")
  /\ UNCHANGED <<table, process, held, at, history>>

(* Mutant of FeedDone: feed_done is not set when the feed raises. *)
FeedDoneOnSuccess == feed = "exhausted"

FeedDone == feed \in {"exhausted", "broken"}

(* Mutant of FallAsleep: a drain ends on an empty queue, whatever the feed *)
(* still has.                                                              *)
SleepAheadOfFeed(w) ==
  /\ Running
  /\ pc[w] = "empty"
  /\ Goto(w, IF Drain THEN "drain" ELSE "wait")
  /\ UNCHANGED <<table, process, held, at, history>>

(* wake.clear() is followed by wake.wait() with nothing awaited between    *)
(* them, so a worker always sleeps until the next set(), whatever the      *)
(* event's value was: the value itself needs no variable.                  *)
FallAsleep(w) ==
  /\ Running
  /\ pc[w] = "empty"
  /\ Goto(w, IF Drain /\ FeedDone THEN "drain" ELSE "wait")
  /\ UNCHANGED <<table, process, held, at, history>>

CheckDrained(w) ==
  /\ Running
  /\ pc[w] = "drain"
  /\ Goto(w, IF QueueDrained THEN "exited" ELSE "wait")
  /\ UNCHANGED <<table, process, held, at, history>>

(* Mutant of PollTimeout: wake.wait() without a time limit. *)
NoPoll(w) == pc[w] = "wait" /\ FALSE /\ UNCHANGED vars

PollTimeout(w) ==
  /\ Running
  /\ pc[w] = "wait"
  /\ Goto(w, "claim")
  /\ UNCHANGED <<table, process, held, at, history>>

(* Mutant of StageReturns: next_stage skips a stage. *)
StageSkips(w) ==
  /\ Running
  /\ pc[w] = "stage"
  /\ ran' = [ran EXCEPT ![held[w]] = @ \cup {at[w]}]
  /\ at' = [at EXCEPT ![w] = IF @ < NumStages THEN @ + 2 ELSE Done]
  /\ Goto(w, "advance")
  /\ UNCHANGED <<table, process, held, blank>>

(* The runner returns; `stage` already names the next stage. *)
StageReturns(w) ==
  /\ Running
  /\ pc[w] = "stage"
  /\ ran' = [ran EXCEPT ![held[w]] = @ \cup {at[w]}]
  /\ at' = [at EXCEPT ![w] = @ + 1]
  /\ Goto(w, "advance")
  /\ UNCHANGED <<table, process, held, blank>>

ScrapeReturnsEmpty(w) ==
  /\ Running
  /\ pc[w] = "stage"
  /\ at[w] = Scrape
  /\ blank' = blank \cup {held[w]}
  /\ at' = [at EXCEPT ![w] = Done]
  /\ Goto(w, "advance")
  /\ UNCHANGED <<table, process, held, ran>>

Advance(w) ==
  LET u == held[w] IN
  /\ Running
  /\ pc[w] = "advance"
  /\ job' = [job EXCEPT ![u] =
               [stage    |-> at[w],
                status   |-> IF at[w] = Done THEN "done" ELSE "running",
                attempts |-> 0,
                error    |-> FALSE]]
  /\ IF at[w] = Done
       THEN Goto(w, "claim") /\ LetGo(w)
       ELSE Goto(w, "stage") /\ UNCHANGED <<held, at>>
  /\ UNCHANGED <<due, enqueuedAt, clock, process, history>>

(* The runner raises an Exception; only the scrape raises                  *)
(* PermanentStageError.                                                    *)
StageRaises(w) ==
  /\ Running
  /\ pc[w] = "stage"
  /\ \/ Goto(w, "fail")
     \/ at[w] = Scrape /\ Goto(w, "park")
  /\ UNCHANGED <<table, process, held, at, history>>

(* A statement of the stage fails in the server: nothing rolls the         *)
(* worker's connection back, so that it refuses what jobs.fail is about to *)
(* execute.  The scrape works on the autocommit connection of its Store.   *)
StageAborts(w) ==
  /\ Running
  /\ pc[w] = "stage"
  /\ at[w] # Scrape
  /\ Goto(w, "wrecked")
  /\ UNCHANGED <<table, process, held, at, history>>

(* The commit of jobs.advance raises; it is inside the same try. *)
AdvanceRaises(w) ==
  /\ Running
  /\ pc[w] = "advance"
  /\ Goto(w, "wrecked")
  /\ UNCHANGED <<table, process, held, at, history>>

(* Mutant of Fail: the cap is compared with > instead of >=. *)
FailPastCap(w) ==
  LET u == held[w]
      attempts == job[u].attempts + 1
      over == pc[w] = "park" \/ attempts > MaxAttempts IN
  /\ Running
  /\ pc[w] \in {"fail", "park"}
  /\ job' = [job EXCEPT ![u] = [@ EXCEPT !.attempts = attempts, !.error = TRUE,
                                  !.status = IF over THEN "failed" ELSE "pending"]]
  /\ due' = IF over THEN due ELSE due \ {u}
  /\ Goto(w, "claim")
  /\ LetGo(w)
  /\ UNCHANGED <<enqueuedAt, clock, process, history>>

Fail(w) ==
  LET u == held[w]
      attempts == job[u].attempts + 1
      over == pc[w] = "park" \/ attempts >= MaxAttempts IN
  /\ Running
  /\ pc[w] \in {"fail", "park"}
  /\ job' = [job EXCEPT ![u] = [@ EXCEPT !.attempts = attempts, !.error = TRUE,
                                  !.status = IF over THEN "failed" ELSE "pending"]]
  /\ due' = IF over THEN due ELSE due \ {u}
  /\ Goto(w, "claim")
  /\ LetGo(w)
  /\ UNCHANGED <<enqueuedAt, clock, process, history>>

(* An exception leaves worker_task: gather raises it, serve cancels the    *)
(* listener and the feed (which still sets feed_done) and awaits the       *)
(* fetcher's close, while the other workers go on.                         *)
Unwind(w) ==
  /\ Goto(w, "dead")
  /\ LetGo(w)
  /\ svc' = "stopping"
  /\ feed' = IF feed = "exhausted" THEN feed ELSE "broken"
  /\ notice' = FALSE
  /\ UNCHANGED source

(* A database call outside the stages raises: jobs.claim, queue_drained,   *)
(* or jobs.fail itself, always so on a wrecked connection.                 *)
QueueCallRaises(w) ==
  /\ Running
  /\ pc[w] \in {"claim", "drain", "fail", "park", "wrecked"}
  /\ Unwind(w)
  /\ UNCHANGED <<table, history>>

(* The runner raises what `except Exception` lets through: llm.py raises   *)
(* SystemExit.                                                             *)
StageEscapes(w) ==
  /\ Running
  /\ pc[w] = "stage"
  /\ Unwind(w)
  /\ UNCHANGED <<table, history>>

-----------------------------------------------------------------------------
(***************************************************************************)
(* The feed task and the listener                                          *)
(***************************************************************************)

(* wake.set(): every task that is waiting at this moment runs again. *)
WakeAll ==
  pc' = [w \in Workers |-> IF pc[w] = "wait" THEN "claim" ELSE pc[w]]

(* Mutant of Enqueue: ON CONFLICT DO UPDATE instead of DO NOTHING. *)
EnqueueAgain(u) ==
  /\ svc = "up"
  /\ feed = "streaming"
  /\ u \in source
  /\ source' = IF Drain THEN source \ {u} ELSE source
  /\ job' = [job EXCEPT ![u].status = "pending"]
  /\ due' = due \cup {u}
  /\ enqueuedAt' = [enqueuedAt EXCEPT ![u] = IF u \in With("absent") THEN clock ELSE @]
  /\ clock' = IF u \in With("absent") THEN clock + 1 ELSE clock
  /\ feed' = "signal"
  /\ notice' \in BOOLEAN
  /\ UNCHANGED <<svc, workers, history>>

(* The feed yields an item; jobs.enqueue inserts it unless the URL is      *)
(* known, and commits the NOTIFY with the row.  _listen_for_jobs gives up  *)
(* for good when its connection fails, so the notice may go nowhere.       *)
Enqueue(u) ==
  /\ svc = "up"
  /\ feed = "streaming"
  /\ u \in source
  /\ source' = IF Drain THEN source \ {u} ELSE source
  /\ IF u \in With("absent")
       THEN /\ job' = [job EXCEPT ![u].status = "pending"]
            /\ due' = due \cup {u}
            /\ enqueuedAt' = [enqueuedAt EXCEPT ![u] = clock]
            /\ clock' = clock + 1
            /\ feed' = "signal"
            /\ notice' \in BOOLEAN
       ELSE UNCHANGED <<table, feed, notice>>
  /\ UNCHANGED <<svc, workers, history>>

FeedSignals ==
  /\ svc = "up"
  /\ feed = "signal"
  /\ feed' = "streaming"
  /\ WakeAll
  /\ UNCHANGED <<table, svc, source, notice, held, at, history>>

(* The end of the CSV.  The live source polls on and on, and may yield any *)
(* article at any time.                                                    *)
FeedEnds ==
  /\ svc = "up"
  /\ feed = "streaming"
  /\ source = {}
  /\ feed' = "exhausted"
  /\ UNCHANGED <<table, svc, source, notice, workers, history>>

(* The source or jobs.enqueue raises: logged, and feed_done is set. *)
FeedRaises ==
  /\ svc = "up"
  /\ feed = "streaming"
  /\ feed' = "broken"
  /\ UNCHANGED <<table, svc, source, notice, workers, history>>

ListenerWakes ==
  /\ svc = "up"
  /\ notice
  /\ notice' = FALSE
  /\ WakeAll
  /\ UNCHANGED <<table, svc, feed, source, held, at, history>>

-----------------------------------------------------------------------------
(***************************************************************************)
(* The process                                                             *)
(***************************************************************************)

(* Mutant of Start: without jobs.recover_orphans. *)
StartOverOrphans ==
  /\ svc \in {"down", "finished"}
  /\ svc' = "up"
  /\ feed' = "streaming"
  /\ source' = Urls
  /\ notice' = FALSE
  /\ pc' = [w \in Workers |-> "claim"]
  /\ UNCHANGED <<table, held, at, history>>

(* serve up to the start of its tasks, jobs.recover_orphans included. *)
Start ==
  /\ svc \in {"down", "finished"}
  /\ svc' = "up"
  /\ job' = [u \in Urls |-> IF job[u].status = "running"
                THEN [job[u] EXCEPT !.status = "pending"]
                ELSE job[u]]
  /\ feed' = "streaming"
  /\ source' = Urls
  /\ notice' = FALSE
  /\ pc' = [w \in Workers |-> "claim"]
  /\ UNCHANGED <<due, enqueuedAt, clock, held, at, history>>

Halt(how) ==
  /\ svc' = how
  /\ feed' = "off"
  /\ source' = {}
  /\ notice' = FALSE
  /\ pc' = [w \in Workers |-> "off"]
  /\ held' = [w \in Workers |-> None]
  /\ at' = [w \in Workers |-> Scrape]
  /\ UNCHANGED <<table, history>>

(* The process is killed, interrupted, or done unwinding. *)
Crash ==
  /\ Running
  /\ Halt("down")

(* Every worker has returned: serve returns its counts. *)
Finish ==
  /\ svc = "up"
  /\ \A w \in Workers : pc[w] = "exited"
  /\ Halt("finished")

-----------------------------------------------------------------------------

RunnerEnds(w) ==
  \/ StageReturns(w) \/ ScrapeReturnsEmpty(w)
  \/ StageRaises(w) \/ StageAborts(w) \/ StageEscapes(w)

WorkerStep(w) ==
  \/ ClaimJob(w) \/ ClaimNothing(w)
  \/ FallAsleep(w) \/ CheckDrained(w) \/ PollTimeout(w)
  \/ RunnerEnds(w)
  \/ Advance(w) \/ AdvanceRaises(w)
  \/ Fail(w) \/ QueueCallRaises(w)

FeedStep == (\E u \in Urls : Enqueue(u)) \/ FeedSignals \/ FeedEnds \/ FeedRaises

Next ==
  \/ \E w \in Workers : WorkerStep(w)
  \/ FeedStep
  \/ ListenerWakes
  \/ Start \/ Crash \/ Finish
  \/ \E u \in Urls : Ripen(u)
  \/ \E S \in {{u} : u \in Retryable} \cup {With("failed")} : RequeueFailed(S)

Spec == Init /\ [][Next]_vars

-----------------------------------------------------------------------------
(***************************************************************************)
(* Safety                                                                  *)
(***************************************************************************)

(* Two workers never process the same article: FOR UPDATE SKIP LOCKED in   *)
(* jobs.claim, and recover_orphans only while no worker runs, are all that *)
(* keeps them apart, for jobs.advance and jobs.fail address the row by URL *)
(* alone.                                                                  *)
SoleOwner ==
  \A v, w \in Workers : held[v] = held[w] /\ held[v] # None => v = w

(* The worker's copy of the job (read at the claim, and moved on its own   *)
(* in process_article) agrees with the row: the row is running, it is at   *)
(* the stage the worker is running or reporting, and what jobs.advance is  *)
(* about to write is the stage after it, or the end for a blank page.      *)
Agrees(w) ==
  LET row == job[held[w]] IN
  /\ pc[w] \in Processing => held[w] \in Urls /\ row.status = "running"
  /\ pc[w] \in {"stage", "fail", "park"} => row.stage = at[w]
  /\ pc[w] = "advance" =>
        \/ at[w] = row.stage + 1 /\ row.stage \in ran[held[w]]
        \/ at[w] = Done /\ row.stage = Scrape /\ held[w] \in blank

OwnerAgrees == \A w \in Workers : Agrees(w)

(* While the service is up, every running row is some worker's job.  A     *)
(* running row without an owner is never claimed again, nor does a drain   *)
(* end, before the next recover_orphans.                                   *)
NoOrphanWhileUp ==
  svc = "up" => \A u \in With("running") : \E w \in Workers : held[w] = u

(* A job that may still be claimed has an attempt left, and stands before  *)
(* a stage, however its failures, advances, crashes and retries fell: a    *)
(* job over the cap, or at 'done', that is claimed again would be          *)
(* processed for nothing.                                                  *)
ClaimableIsRunnable ==
  \A u \in With("pending") \cup With("running") :
    job[u].attempts < MaxAttempts /\ job[u].stage \in Stages

(* The row never runs ahead of the work, whichever workers, crashes and    *)
(* resumptions brought it where it is: every stage before the recorded one *)
(* was run to its end for the article, unless its page was blank.  And the *)
(* row is done exactly when it stands at the end, so that the operator's   *)
(* counts of done jobs can be trusted.                                     *)
RecordBehindWork ==
  \A u \in Urls :
    /\ \/ 1..(job[u].stage - 1) \subseteq ran[u]
       \/ u \in blank /\ job[u].stage = Done
    /\ job[u].status = "done" <=> job[u].stage = Done

(* A worker of a drain returns only when nothing is left to do, and then   *)
(* nothing turns up behind its back: it asks whether the feed is done      *)
(* first and whether the table is drained later, while the feed and the    *)
(* other workers run on.  (No operator retries a job meanwhile.)           *)
DrainExitsDrained ==
  svc = "up" /\ (\E w \in Workers : pc[w] = "exited") => QueueDrained

(* worker.py:131: drain=True exits once the feed is exhausted.             *)
DrainExitsExhausted ==
  svc = "up" /\ (\E w \in Workers : pc[w] = "exited") => feed = "exhausted"

(* jobs.py:6-7: NOTIFY wakes the service instantly on enqueue.  So a job   *)
(* that was never tried does not wait while all workers sleep and nothing  *)
(* is under way that would wake one.                                       *)
NewJobWakes ==
  svc = "up" /\ (\A w \in Workers : pc[w] = "wait") =>
    \/ feed = "signal" \/ notice
    \/ \A u \in Claimable : job[u].error

-----------------------------------------------------------------------------
(***************************************************************************)
(* Liveness                                                                *)
(***************************************************************************)

(* Each task goes on: asyncio runs every task that is ready, a runner     *)
(* returns or raises (the calls of the stages have time limits), the poll  *)
(* interval elapses, and so does a back-off.  Nothing makes a crash, a     *)
(* failure, a start or an operator's retry happen.                         *)
Fairness ==
  /\ \A w \in Workers : WF_vars(WorkerStep(w))
  /\ WF_vars(FeedStep)
  /\ \A u \in Urls : WF_vars(Ripen(u))
  /\ WF_vars(Finish)

FairSpec == Spec /\ Fairness

(* The faults have an end: the service stays up from some point on, unless *)
(* it returns, and operators stop retrying jobs.                           *)
Calm ==
  /\ <>[](svc \in {"up", "finished"})
  /\ <>[][\A S \in SUBSET Urls : ~RequeueFailed(S)]_vars

(* Every job is settled in the end, done or parked: no order of claims,    *)
(* back-offs, wake-ups and polls leaves it behind, not even one whose      *)
(* owner crashed or whose wake-up was lost.                                *)
EveryJobSettles ==
  Calm => \A u \in Urls :
    job[u].status \in {"pending", "running"} ~> job[u].status \in {"done", "failed"}

(* A drain ends: its workers do not wait for each other, nor for a row     *)
(* that nobody will finish.                                                *)
DrainTerminates == Calm => (svc = "up" ~> svc = "finished")

-----------------------------------------------------------------------------
(***************************************************************************)
(* The promise                                                             *)
(***************************************************************************)

PhaseOf(status) ==
  CASE status = "pending" -> "queued"
    [] status = "running" -> "taken"
    [] status = "failed"  -> "parked"
    [] OTHER              -> status

Lifecycle == INSTANCE JobLifecycle WITH
  phase     <- [u \in Urls |-> PhaseOf(job[u].status)],
  stage     <- [u \in Urls |-> job[u].stage],
  completed <- ran

(* The service implements JobLifecycle: whatever interleaving, crash and   *)
(* restart, each article goes through the stages in order, none of them    *)
(* recorded before its work was done, and a done job stays done.           *)
ImplementsLifecycle == Lifecycle!Spec

=============================================================================
