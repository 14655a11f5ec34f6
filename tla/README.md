# Formal model of ticker-news

TLA+ specifications of the ticker-news pipeline (`src/src/ticker_news`), the TLC
configurations that check them on small instances, and TLAPS proofs of what must
hold for every instance. Paths below are relative to `src/src/ticker_news`.

## 1. The system

One Postgres database, one long-running service, and a set of commands that work
on the same tables.

| Component | State it keeps | Operations |
|---|---|---|
| **Job queue** `service/jobs.py` | `pipeline_jobs`: one row per URL with stage, status, attempts, last error, enqueue and next-attempt times | `enqueue`, `claim`, `advance`, `fail`, `recover_orphans`, `requeue_failed`, `queue_drained`, `counts` |
| **Service** `service/worker.py` | worker tasks with a job each, the `wake` and `feed_done` events, one connection per task | `serve`, `worker_task`, `process_article`, `feed_task`, `_listen_for_jobs` |
| **Stages** `service/stages.py` | the columns of `articles`, the rows of `article_insights` and `article_sentiment` | scrape, embed, classify, tag, insights, sentiment |
| **Scraping** `scraping/` | `articles` rows, per-domain semaphores and last-start times, the browser, the robots cache | `process_job`, `DomainLimiter.slot`, `Fetcher`, `RobotsCache`, `Store.save`, `run` |
| **Feed** `ingestion/` | cursors per ticker, the set of seen URLs | `MassiveRestSource.stream`, `CsvBackfillSource`, `news_history` |
| **Enrichment** `enrichment/` | tag columns, insight boxes, reference data | `tag_all`, `extract_all`, `fix_quotes`, `embed_missing`, `load_universe` |
| **Classification, embedding, sentiment** | their columns, verdict rows | batch pipelines, chains, the analysts' graph, the verdict store |
| **Research, evaluations** | none of their own (files, reports) | search, ticker scan, back-test, scoring |
| **Shared** `shared/` | settings, prompt cache | model factories, tracing, connections |

How they interact: the feed calls `jobs.enqueue` (which sends `NOTIFY`); a worker
calls `jobs.claim`, runs the stage runners one after the other on its own
connection, and reports each with `jobs.advance` or `jobs.fail`; the listener and
the feed set `wake`, on which idle workers sleep with a time limit; `ticker-news
jobs retry` and the batch commands change the same tables from other processes.
Nothing but the database is shared between processes.

What is hard:

* **interleaving**: several workers on one table, each step its own commit; the
  event `wake` cleared and awaited by all of them;
* **crash and restart**: the process may be killed between any two commits, and is
  started again by hand; `recover_orphans` assumes it is the only service;
* **partial failure**: a stage may raise, may leave its connection in a failed
  transaction, may raise something that nobody catches (`SystemExit`); the feed's
  exceptions are swallowed;
* **liveness**: drains that must end, jobs that must not be forgotten, with back-off,
  lost notifications and polls;
* **idempotence**: every stage is re-run after a crash, and batch commands do the
  same work beside the service.

What makes each component correct (each is a property of section 3):

* queue and service: one owner per row; the owner's copy agrees with the row; no
  stranded row; nothing over the cap is claimed; no row ahead of its work; done is
  final; drains end, and end only when nothing is left; every job settles;
* stages and batch commands: a done article has everything its stages owe it; boxes of one
  extraction, vectors of the texts they stand beside, verdicts that were due and stay -
  and for each of these, exactly which meeting of two writers breaks it;
* scraping: visits of a domain apart, no row lost or counted twice, no good page overwritten
  by a failing refetch, locks that survive exceptions, a run that ends;
* feed: an article the provider lists promptly is enqueued by one good poll;
* research and evaluations: precedents that are past, best and the ones evaluated; searches
  that do not look ahead and lose nothing at a cut-off; trades that follow their headline;
  sums that add up; an evaluation that reports what it left half made;
* text rules: tags, notes and quotes account for what the text says, and only for that.

`PROJECT.json` lists every component with its status, and every hazard at its line.

## 2. Modules

| Module | Models | Role |
|---|---|---|
| `JobLifecycle` | what the queue promises about one article | abstract specification |
| `PipelineService` | `service/jobs.py`, `service/worker.py` | the core |
| `PoisonJob` | the same, with a count of the stages that aborted their transaction, while nobody kills the process | history variable for one property |
| `ArticleStages` | `service/stages.py` on one article, beside the batch commands of `enrichment/`, `classification/`, `embedding/`, `sentiment/` | concurrent writers of one row |
| `DomainLimiter` | `scraping/pipeline.py`, `DomainLimiter` | a component of `Scraping` |
| `Scraping` | the rest of `scraping/pipeline.py`, `fetch.py`, `robots.py`, `store.py` | extends `DomainLimiter` |
| `FeedSource` | `ingestion/massive_rest.py`, its provider and the queue | the live feed |
| `Question` | | the variable and the list operators of the read-only modules |
| `Precedents` | precedent retrieval of `service/stages.py`, `evals/cluster_eval.py` | read-only |
| `SeedSearch` | `research/search.py`, `research/insight_search.py` | read-only |
| `Trades` | `research/backtest.py`, the simulation of `research/ticker_scan.py` | read-only |
| `TickerScan` | the scan of `research/ticker_scan.py` | read-only |
| `EvalScores` | scores of `evals/classify_eval.py`, `pipeline_eval.py`, `cluster_eval.py` | read-only |
| `Mentions` | `enrichment/tagging.py`, box texts of `enrichment/insights.py` | read-only |
| `EvalRun` | the concurrent items of `evals/pipeline_eval.py` | state machine over the same variable |
| `MCPipelineService`, `MCScraping`, `MCFeedSource`, `MCArticleStages`, `MCAlgorithms` | | values, symmetry and the joint next-state relation for TLC |
| `PipelineServiceProofs`, `ArticleStagesProofs`, `FeedSourceProofs`, `ScrapingProofs` | | theorems about the state machines |
| `QuestionProofs` | | lemmas about the operators of `Question` and the community folds |
| `PrecedentsProofs`, `SeedSearchProofs`, `ResearchProofs` | | theorems about the read-only modules; `ResearchProofs` covers `Trades`, `TickerScan`, `EvalScores`, `EvalRun` and `Mentions` |

How they fit: `PipelineService` knows of a stage only how it ends, `ArticleStages` what it
writes; `StageReturns`, `StageRaises` and `Crash` of the one are `StageDone`, `StageFails` and
`Crash` of the other. `FeedSource` ends where `PipelineService.Enqueue` begins. The scrape
stage and the scrape command share the page's outcome (`ok`, `empty`, `error`).

### PipelineService

*State.* `job` is the table, one row per URL: `stage` is the index into `jobs.STAGES`
(`NumStages + 1` is `DONE`), `status` the column (`"absent"`: no row), `attempts` the
column, `error` whether `last_error` is set. `due` holds the rows whose
`next_attempt_at` has passed: the length of the back-off is abstracted, a row that
backs off becomes due at some later moment (`Ripen`). `enqueuedAt` and `clock` keep
the order of insertion. `svc` is the process: `"down"`, `"up"`, `"stopping"` (a worker
died, `gather` has raised and `serve` unwinds while other workers still run) and
`"finished"`. `feed` is the feed task: streaming, about to call `wake.set()` after an
insertion (`"signal"`), exhausted or broken (both set `feed_done`), off. `notice` is a
NOTIFY under way to the listener. `pc`, `held` and `at` are each worker's place in
`worker_task` / `process_article`, the job it holds and its local variable `stage`.
`ran` and `blank` are history: the stages whose runner returned for an article, and the
articles whose scrape returned `"empty"`.

The event `wake` has no variable: `wake.clear()` is followed by `wake.wait()` with
no await between them, so its value is never read; a `set()` matters only to the
workers that wait at that moment (`WakeAll`).

*Actions.* One action is one commit, or the stretch of a coroutine between two points
at which another task can see a difference.

| Code | Actions |
|---|---|
| `jobs.enqueue` in `feed_task`, then `wake.set()` | `Enqueue`, `FeedSignals` |
| end and failure of the feed | `FeedEnds`, `FeedRaises` |
| `_listen_for_jobs` | `ListenerWakes` |
| `jobs.claim` | `ClaimJob`, `ClaimNothing` |
| empty claim, `feed_done`, `queue_drained`, wait with time limit | `FallAsleep`, `CheckDrained`, `PollTimeout` |
| a runner ends | `StageReturns`, `ScrapeReturnsEmpty`, `StageRaises`, `StageAborts`, `StageEscapes` |
| `jobs.advance`, and its failure | `Advance`, `AdvanceRaises` |
| `jobs.fail`, also `permanent=True` | `Fail` |
| any queue call raises in the worker | `QueueCallRaises` |
| `jobs.recover_orphans` and the start of the tasks | `Start` |
| kill, interrupt, end of the unwinding; normal return | `Crash`, `Finish` |
| `ticker-news jobs retry`, in another process | `RequeueFailed` |

`StageAborts` deserves a word: a statement of a stage that fails in the server leaves
the worker's connection in a failed transaction, no code rolls it back, and the next
statement on it is the one of `jobs.fail`, which therefore raises and leaves the
worker (`pc = "wrecked"`, then `QueueCallRaises`). The scrape stage works on the
`Store`'s autocommit connection and is exempt. An `advance` whose commit succeeded
although the client saw an error is the behaviour of `Advance` followed by one of the
failures, and needs no action of its own.

*Not modelled here:* what a stage does to the article, tracing, logging, the counts
`serve` returns, the number of seconds of a back-off.

### JobLifecycle and the refinement

`JobLifecycle` has no workers, no clock and no failures: an article is submitted once,
taken and given back any number of times, proceeds to the next stage only after the
work of its stage was done, goes straight to the end if its page was blank, may be
parked and retried, and does not change any more when it is done. `PipelineService`
maps `status` to `phase`, `stage` to `stage`, `ran` to `completed`, and each of its steps is
one step of `JobLifecycle` or a stutter. `Crash` is a stutter and `Start` gives back all
running rows at once: the promise is kept across restarts.

### ArticleStages

*State.* `page` is `articles.status`, and with it whether there is a text; `row` the derived
columns (embedding present, label, primary ticker present, `insights_extracted_at` present);
`boxes` the rows of `article_insights` by index, each with its row id, the extraction its text
came from and the text its vector was computed from; `verdict` who wrote `article_sentiment`.
`up`, `stage`, `status`, `attempts` are the article's job. `task`, `pc` and `mem` are each
actor's command, place and what it read before it asked a model. Three variables are history,
and name what the properties have to except:

* `redone`: somebody replaced a label or redid boxes or a verdict (`--reprocess`), after which a
  verdict need not fit any more;
* `crossed`: an extraction was stored while another actor, who deletes nothing first, had asked
  for one as well - the service and the `insights` command, or two commands;
* `blind`: a stage of the pipeline ended with nothing done because the article had no text: its
  page was `"empty"`, or a scrape command had replaced a good page by a bad one.

*Actions.* A stage is read, question and write in three steps, since nothing locks the row
in between.

| Code | Actions |
|---|---|
| `process_article` around a runner | `BeginStage`, `StageDone`, `StageFails`; `Start`, `Crash`, `RetryParked` |
| the early return of finished work (for a page, `exists_ok`) | `SkipStage` |
| a stage that finds no text: nothing, or a stamp without boxes | `SkipForWantOfText` |
| the question to a site or a model | `AskModel`, `AskPanel` |
| `Store.save`, of the scrape stage and of the scrape command | `WritePage` |
| one commit each | `WriteEmbedding`, `WriteLabel`, `WriteTags`, `StoreBoxes` (boxes and stamp), `SaveVerdict` |
| the vectors of the boxes, read and written on their own | `ReadUnembedded`, `StoreVectors` |
| a batch command, selecting the article by its own WHERE clause (`Selects`), with and without `--reprocess`, `--retry-errors` or `--all` | `BatchBegins`, `BatchEnds` |

The batch commands write through the same actions, in any number, at any moment beside the
service and beside each other; nothing in the code keeps one from another. `Crash`,
`StageFails`, `BatchEnds` may come between any two steps. Answers of models and sites are
nondeterministic: any page, any label, any number of boxes.

### DomainLimiter and Scraping

*State.* A *visit* is the body of one `slot()`: all requests of `_http_with_retries`, or one page
of the browser. `waiters` is the semaphore's FIFO of each domain, `slot` each task's place in `slot()`,
`left` what it has yet to sleep, `since` the age of `_last[domain]`, kept only up to the delay.
`Scraping` adds the command (`run`, `file`, `produced`, `stops`, the bounded `queue`), the
workers (`pc`, `job`, `tries`, `found`), the counters, `RobotsCache` (lock holder, hosts known,
what each disallows, how often each was asked and how often that raised), the shared browser
(lock holder, `up`, launches) and the table (`page`).
`browser.up = "half"` is a `_browser` without `_ctx`.

| Code | Actions |
|---|---|
| `DomainLimiter.slot` | `Enter`, `Grant` (acquire, read `_last`, begin the sleep), `WakeUp` (write `_last`), `Leave` |
| `run`: producer, sentinels, `join`, `gather` | `Start`, `Produce`, `Joins`, `Finish`, `Kill` |
| the worker loop, `exists_ok` | `Take`, `Check` |
| `RobotsCache.allowed` | `LockRobots`, `RobotsCached`, `AskRobots`, `RobotsFetched`, `Refuse`; an exception with the lock held, before the host is cached: `RobotsForgotten`, part of `Raises` |
| `_http_with_retries` and the decision after it | `EnterSlot`, `HttpRetry`, `HttpAnswer` |
| `_ensure_browser`, `browser_get` | `LockBrowser`, `Launched`, `LaunchRaises`, `BrowserAnswer` |
| `Store.save`, and whatever raises | `Save`, `Raises` |

Robots answers are cached by netloc (`HostOf`), the limiter works by registered domain
(`DomainOf`); the two are different functions of the URL. What a page holds is reduced to
the questions `process_job` asks: usable or not, text absent, weak or long enough.

### FeedSource

*State.* The provider (`clock`, `published`, and `listed`, which of its tickers an article is
already listed under), the source's memory (`cursor`, `seen`, the answers and the items of the
poll under way), the queue, and the history `polled` of polls that ended well. A *tardy*
article may be listed after its publication, ticker by ticker.

*Actions.* `BeginPoll` fixes `now`; each ticker's fetch ends on its own (`Answer`, `FetchFails`);
`Collect` is the end of `gather`: cursors move and answers are merged; `Yield` passes one item
to `jobs.enqueue`; `EnqueueRaises`, `Kill` and `Start` lose all memory. The provider's articles
are given by the instant they appear, not by page: the pages of a fetch are read as one.

### The read-only modules

`Question` has one variable: what is asked, a record of stored rows and options. Each module
states its component as operators over such a question, an action that asks every question
of a small domain, and invariants that relate the answer to what it should mean, written
without the component's own helpers. `MCAlgorithms` asks all of them, one at a time. They
have no interleavings, except `EvalRun`, whose items are reset, rebuilt and judged
concurrently, `Concurrency` at a time, on the tables that hold each other's precedents.

`EvalRun` keeps of each item which stages have left their output, what was *found* (an embedding,
an actionable label, a ticker, boxes) and whether there is a verdict. `Judge` has the gate of
`sentiment_stage`: without a label that is actionable, a ticker and boxes the item has a result
and no verdict. `Asks` says which outputs of an earlier article the query of each of the nine
retrieval modes reads; the distilled boxes are a table that no reset touches. That all items
have tickers in common is assumed: whether two articles name the same one is not kept.

What is abstracted: an HNSW search is an exact ranking; time is counted in days, instants of which
a day has two, or four minutes a day (one of each session); ratios are left as the counts they
divide, except where the code compares a rounded one (`RangePercent`); a regular expression is the
set of tokens it matches, and which lower-case texts contain which is a table (`Within`);
`difflib`'s ratio is the share of common tokens,
and `FuzzyFind` some span that is close enough; rows of equal rank come by id.

## 3. Checks

| Run | Instance | Shows |
|---|---|---|
| `service_safety` | 2 workers, 2 articles, 2 stages, 2 attempts, live | the invariants below, and `ImplementsLifecycle` |
| `service_drain` | 2 workers, 2 articles, 1 stage, 2 attempts, drain | `DrainExitsDrained`, `DrainTerminates` |
| `service_live` | 1 worker, 2 articles, 2 stages, 2 attempts, live | `EveryJobSettles` |
| `lost_wakeup` | 1 worker, 1 article | violation of `NewJobWakes` |
| `broken_feed_drain` | 1 worker, 1 article, drain | violation of `DrainExitsExhausted` |
| `poison_job` | 1 worker, 1 article, 2 attempts, no kills | violation of `RetryBudget` |
| `stages` | 2 batch processes beside the service, 5 commands, 2 boxes, 2 extractions, 1 attempt, symmetry | `OneExtraction`, `VectorOfItsText`, `DoneIsComplete`, `VerdictWasDue`, `FirstVerdictStays` |
| `unembedded_boxes` | the service alone, 1 box, 2 attempts | violation of `BoxesSearchable` |
| `scraping` | 2 workers, 2 domains of one permit, queue of 1, 2 requests, files `<u1, u2>` and `<u1, u1>`, kills | `VisitsApart`, `FetchedOnce`, `EveryRowCounted`, `GoodPageKept`, `RunEnds` |
| `domain_delay` | 2 tasks, 1 domain, 2 permits, delay 2 | violation of `MinDelay` |
| `feed` | 2 articles, one of them tardy, 2 tickers, look-back 1, instants 0..2, symmetry | `PolledIsEnqueued` |
| `algorithms` | every question of the domains below | the fifteen invariants below |

Invariants of the service:

* `SoleOwner`: no two workers hold the same article. `advance` and `fail` address a row
  by URL alone, so that this rests on the claim and on `recover_orphans` only.
* `OwnerAgrees`: `process_article` never reads its row again after the claim; what it
  believes about it is nevertheless right at every step, and what it is about to write
  is the stage after one that was run.
* `NoOrphanWhileUp`: while the service is up every running row is some worker's job.
* `ClaimableIsRunnable`: whatever may still be claimed has an attempt and a stage left.
* `RecordBehindWork`: every stage before the recorded one was run to its end (or the page
  was blank), and done means at the end.

Drain: `DrainExitsDrained` says that when a worker returns nothing is left, and nothing
turns up behind its back afterwards; it depends on asking `feed_done` before
`queue_drained`. It is stated for drains during which no operator calls `jobs retry`
(`Retryable = {}`): a retried job would make the claim false, and rightly so.

Stages and batch commands:

* `OneExtraction`: stored boxes are numbered without a gap and of one extraction. The upsert
  by index leaves the tail of a longer old extraction; the stamp and the delete of `--reprocess`
  prevent that unless two extractions *crossed*, which nothing in the code prevents: the service's
  stage and the `insights` command may both have asked before either stores. The property says
  that this is the only way, and that even then a later box is of an older extraction.
* `VectorOfItsText`: a vector belongs to the text that is stored now, although text is read,
  sent away and its vector written back later. It rests on the update by row id and on a
  deleted row never giving its id back; only a row whose text crossing extractions have replaced
  under its id can carry the vector of the old one.
* `DoneIsComplete`: what the queue calls done has vector, label, tags, stamp and a verdict if
  one was due, whatever was killed, retried or written beside the service - unless a stage met
  the article without a text (`blind`). An article that ended as `"empty"` and is scraped again
  with success, or one whose page was replaced by a failing `scrape --retry-errors` for as long as
  a stage took, is done without outputs, and no one repairs it but the batch commands.
* `VerdictWasDue`, `FirstVerdictStays`: no verdict without an actionable label, a ticker and an
  insight; nobody but `--reprocess` removes a verdict.

Scraping: `VisitsApart`: with one permit the visits of a domain do not overlap and start the
delay apart. It is about visits: the up to three requests of `_http_with_retries` follow one
another inside a visit without touching `_last`, and `robots.txt` is fetched outside the limiter,
so that `pipeline.py:16` ("a min delay between requests") is not kept of these even with one
permit. `FetchedOnce`: `robots.txt` is asked for once per host and once more for each attempt that
raised (where `robots.py:13-14` says once), and one browser is launched; `EveryRowCounted`, when
the command ends every row it read is counted once and only a counted error left no trace in the
table; `GoodPageKept`, a stored good page is not replaced, unless a file lists a URL twice,
`--retry-errors` asks for it or another process writes the row; `RunEnds` is liveness: no circle
between queue, permits and locks, and no exception that costs a worker or a permit.

Feed: `PolledIsEnqueued`: one good poll of one of its tickers, begun after the publication and
within the look-back, is enough for an article, whatever other polls failed, however the
cursors moved, whichever process died between two items. The strict `<` is the code's: an
article published in the very instant of a poll may miss it and is found by the next one.

Read-only components:

* `PrecedentsAreTheBest`: the union of the cut-off answers to each box of the target, cut off
  again, is the best of the whole corpus. `PrecedentsArePast`: in all nine modes the analyst sees
  what he would see if only the articles before the target's instant and within the lookback, and
  their boxes, existed: a later article is not only absent, it takes no place in a cut-off.
  (Earlier articles of the target's own day are precedents: the queries compare instants.)
  `EvaluatedAsProduced`: with `realNewsOnly` off the cluster evaluation retrieves exactly what the
  analyst is shown. With it on the two differ - `cluster_eval.py:112` passes False whatever the
  setting - and what is left is that no actionable article the evaluation retrieves is missing in
  production, unless two boxes are equally near.
* `NoLookAhead`: an exclusively anchored search returns nothing the seed could not know.
  `FloorLosesNothing`: cutting at `k` before the similarity floor loses nothing.
  `ConsolidatedOnce`: an article counts once for each box of the seed and is ranked by its best.
* `EveryVerdictCounted`: each verdict is traded or skipped for one reason, and all sums add up.
  `ScoredAlike`: a verdict's return does not depend on the other verdicts that share its price
  fetch. `ExitFollowsEntry`: no position is closed before it was opened or opened before its
  headline.
* `RangeOfTheDay`: extremes, open and close of a day, in whatever order its bars arrive, and its
  direction for bars in order. `NewsOfTheDay`: each scanned day was calm by an index bar that
  exists - the threshold is met by the exact range, although the code compares the rounded one -,
  and carries exactly the articles of that day and of the evening of the calendar day before,
  although articles are fetched once for the whole span.
* `ScoresAddUp`: the confusion tables of the classification cover every labelled item once, errored
  ones included, unless another item of the same article has a result; the pipeline evaluation
  counts the items that did not fail, once each; the totals over clusters are those of their parts.
* `LeftResetIsReported`: an item the evaluation does not warn about has all outputs again, and a
  verdict exactly if it is actionable, has a ticker and boxes. `PrecedentsWhole`: items do not
  disturb each other's precedents in a mode all of whose stages are kept. The default mode,
  `article`, reads embeddings: keeping labels and insights alone is not enough for it.
* `MentionsAccountedFor`: tags lose and repeat no ticker; annotation names nothing new and, if in no
  parenthesis another company is named up to the counterpart (`CounterpartsFirst`), is idempotent;
  correcting the quotes of a fresh box changes nothing.

### Bounds

Two workers and two articles are enough for every conflict the code can have: a row has
at most one owner and the only statement over several rows is the claim's choice of the
oldest. Two stages distinguish the first (which alone can be blank, permanent or exempt
from aborting) from a later one and the last; two attempts distinguish a failure below
the cap from one at it, and leave room for a retry. The drain run has one stage: its
subject is the order of feed, claims and checks. The live run has one worker, so that
nobody else can rescue a job whose wake-up is lost. The theorems of section 4 drop the
bounds of everything they cover. `clock` grows only when a row is inserted and is bounded
by the number of articles; no other state is unbounded.

*Stages.* Two batch processes beside the service give every pair of concurrent writers. Two
boxes tell an extraction from a shorter one, two extractions an old one from a new one. One
attempt suffices: what a retry repeats, a parked and retried job repeats. Of the thirteen
commands the run uses the five that take something back or race for the same rows (`rescrape`,
`reclassify`, `extract`, `reextract`, `rejudge`); `scrape`, `classify` and `judge` begin in fewer
states and then do the same, `embed`, `reembed`, `tag`, `retag` and `vectors` write the same values
through the same actions. The theorems cover all thirteen and any number of processes.

*Scraping.* Two workers and two URLs meet at every lock and, in the file that repeats a URL, at
one row. The queue of one blocks the producer at each row. Two requests tell the last of
`_http_with_retries` from an earlier one. One start: rows stored by earlier runs are in the
initial states, so that a restart is a start from another of them; the theorems allow any
number of starts.

*Feed.* Two tickers, one of which may fail; an article beside a tardy one, which pulls the
cursors; a look-back of one instant in three, so that an article can fall out of it. The
proof drops all bounds.

*Algorithms.* Each domain is named next to the action that asks it. Two or three rows, two or
three values for each quantity on either side of each threshold, and every option: a cut-off at
one or two rows of three, a floor met exactly, a publication before the open, in the session,
after the close and in the night, two bars of one minute, items with no answer. What a rule
does with a row depends on at most one other row (which ranks before it, shares its ticker
or day), which is why three are enough to break it. The evaluation runs with two
articles (`Dataset`), one of which is reset or rebuilt while the other is judged, so that the
limit of four at a time (`Concurrency`) does not bind; its theorems leave both open.

### Fairness

`FairSpec` assumes weak fairness of each worker's next step (asyncio runs every ready task;
runners end, because the model factories and the HTTP clients all set time limits; the
poll interval elapses), of the feed, of each back-off, and of the return of `serve`. It
assumes none of `Start`, `Crash` or `RequeueFailed`. Since a job may fail, crash the
service and be retried for ever, liveness is claimed under `Calm`: from some point on
the service stays up (or has returned), and no operator retries jobs. `ListenerWakes` is
not fair: the listener gives up for good when its connection fails, so `EveryJobSettles`
holds on the polls alone.

`Scraping.FairSpec` assumes weak fairness of the producer, of `join`, of each worker's next step
and of the clock: asyncio runs every ready task, its queue and semaphores are FIFO, and every
request and launch has a time limit. `Start` and `Kill` are not fair. `HttpRetry` is bounded by
`Attempts`, as in the code. The other modules state no fairness and no liveness: a feed may stay
broken for ever, since nobody restarts it, and a batch command is a run by hand.

### What the violations show

1. `lost_wakeup`. The worker's claim finds nothing; the feed commits a job and calls
   `wake.set()`; the worker then calls `wake.clear()` and waits. `jobs.py:6-7` promises
   that NOTIFY wakes the service instantly. The poll (5 s) repairs it.
2. `broken_feed_drain`. `feed_task` catches every exception and sets `feed_done`: a drain
   whose source raised half way ends as if the feed were exhausted, against
   `worker.py:131-132`.
3. `poison_job`. A statement of a stage fails in the server; `process_article` catches the
   exception and calls `jobs.fail` on a connection in a failed transaction, which raises, leaves
   the worker and ends `serve`. The row is recovered with its attempts unchanged and claimed again
   at the next start, so that the cap of `jobs.py:5-6` never parks it. The run counts only such
   failures (`Aborted`) and nobody kills the process in it (`NoKill`): what a kill interrupts is
   rightly not charged.
4. `domain_delay`. Two permits per domain is the default. Two tasks read the same `_last`, sleep
   the same time and start their first requests together, against `pipeline.py:16`. With one permit
   visits are apart (`OnePermitKeepsVisitsApart`), so that the fault is exactly the read before
   the sleep.
5. `unembedded_boxes`. Boxes and stamp are committed before the vectors are computed; the
   embedding fails; the retried stage returns at the stamp (`stages.py:230`) and the article is
   done with boxes no search finds, against the comment at `stages.py:248-249`. `insights
   --embed-only` repairs it.

Divergences met while modelling that no run shows, because no property here turns on them:

* `insight_search.py:580-581` calls an anchored search free of look-ahead; without `--exclusive`
  the window covers the whole of the seed's day. `search --exclusive` with neither `--months` nor
  a statement sets no window at all.
* `tagging.py:188` calls the annotator idempotent. It is not of two share classes: of `GOOG` and
  `GOOGL` each note names the other. Nor is it where a parenthesis names another company first:
  `MRVL (C3.ai and Marvell Technology) rose` becomes `MRVL (C3.ai (AI) and Marvell Technology)
  rose`, the pattern of a following parenthesis now ends behind `AI`, and annotating again puts
  `(Marvell Technology)` beside `MRVL` once more. `NotesSayNothingNew` has both premises
  (`OneTickerEach`, `CounterpartsFirst`); without either TLC finds such a text among the chunks.
* `ticker_scan.py:341` says next trading day where the code adds a calendar day: what comes out on
  a Friday evening is filed under Saturday, and Monday does not show it. A failed fetch of the
  index drops all rows, at any threshold. The index range is rounded before it is compared, so
  that a day of 1.196 % is not calm at a threshold of 1.2.
* With `realNewsOnly` on, the cluster evaluation scores a retrieval that production does not make
  (`cluster_eval.py:112`).
* Requests inside a visit and `robots.txt` are outside the limiter, see `VisitsApart`.
* The note on a symbol before a price, `(AI +2.24%)`, comes between the two; read again, an
  ambiguous symbol is no mention any more, against `tagging.py:188`. `Mentions` leaves this
  one context of a symbol out.
* A browser page without text replaces a weak text that HTTP had brought (`BrowserAnswer`).
* A re-scrape that turns an `empty` page into a good one leaves the embedding of the empty one, and
  the article done without label, insights or verdict (`DoneIsComplete`).
* Items that raise are missing from the act scores of the pipeline evaluation; an article id
  listed twice in a dataset defeats `_with_missing_items` (both in `ScoresAddUp`).

## 4. Proofs

Assumptions on the constants: `ServiceAssumption` (`None` is no URL, at least one stage and
one attempt, `Drain` a Boolean, `Retryable` some of the URLs). The sets of URLs and of
workers are arbitrary, infinite ones included.

`PipelineServiceProofs` proves `Spec => []IInv` for the inductive invariant

    IInv == TypeOK /\ RowShape /\ HoldsWhileProcessing /\ NobodyHoldsAtRest
            /\ SoleOwner /\ OwnerAgrees /\ NoOrphanWhileUp /\ ClaimableIsRunnable

None of the four safety properties is inductive alone: that a claim keeps `SoleOwner`
needs `OwnerAgrees` (an owned row is running, hence not claimable); that `Start` keeps
`OwnerAgrees` needs `NobodyHoldsAtRest`; that `Fail` and `Advance` keep
`NoOrphanWhileUp` needs `SoleOwner`; `RowShape` and `HoldsWhileProcessing` tie rows and
program counters together. From it: `TypeCorrect`, `OneOwner`, `CopiesAgree`, `NoOrphans`,
`ClaimsAreRunnable`.

Its last part proves, under `IInv`,

* `Implementation`: `Spec => ImplementsLifecycle`, action by action;
* `RecordIsHonest`: `Spec => []RecordBehindWork`. The argument is made at the abstract
  level: only `Proceed` and `Drop` of `JobLifecycle` move a record;
* `DrainIsComplete`: with `Retryable = {}`, `Spec => []DrainExitsDrained`, by the
  invariant that a worker past the `feed_done` test runs beside a feed that is done.

`FeedSourceProofs` proves `PolledIsEnqueued` for any tickers, articles and horizon, from
`FeedAssumption` (every article has a ticker; look-back and horizon are naturals). The property
speaks of a poll long ago; the invariant says what such a poll leaves behind. `NoGaps`: an
answer holds every prompt article since its `Since`; `CursorPassesNothing`: whatever lies
before a ticker's cursor and within the look-back of a poll is seen or about to be yielded;
`SeenEnqueued`: what was seen is in the queue; `PollGets` carries them through a poll under way.

`ArticleStagesProofs` assumes nothing beyond `StagesAssumption`: any commands, any number of batch
processes. It proves all five invariants and `FirstVerdictStays`. What an actor writes was
justified by what it read, and the proof carries that reason to the write: `FirstExtraction` (who
will upsert boxes found none, or extractions have crossed), `IdTellsText` (a row id names one text
in the table and in everybody's memory, and after a crossing a text no older than what was read),
`AskedIsDue` (only what is recorded as redone takes back the reasons of a verdict), `StagesBehind`
(each stage before the recorded one has its output, unless one was blind).

`ScrapingProofs` proves `FetchedOnce` and `VisitsApart`, for any finite set of workers. Each
limiter operation has a lemma (permits never exceed the cap, waiters are those queued), each action
of `Scraping` one that says which parts it moves. A worker past the `robots` lock is its holder,
and a host was asked for once if it is known, plus once for each attempt that raised
(`RobotsOnce`); likewise `BrowserOnce`. For the delay: with one permit the sleeper is the only
holder, so that `since + left` is at least the delay until it wakes (`SoleHolder`,
`SleepsLongEnough`).

The next part of the module proves `EveryRowCounted` and `GoodPageKept` from an invariant of its own:
`Balance` (rows read are queued, held by a worker or counted; sentinels likewise), `LostAreErrors`
(rows with no trace are no more than the counted errors), `Once` (with no URL twice, a row is in
one place only) and `PastCheck` (a worker past `exists_ok` holds a URL whose page is not good).
The steps are first sorted into kinds (`Kinds`), so that the counting is done once per kind.

The last part proves the safety half of `RunEnds`, which TLC checks for two workers:

* `SomebodyAlwaysGoesOn`: while a run goes on, the producer has room, or the command can end, or
  some worker's guard holds (`CanStep`), or one sleeps and only time has to pass. Its invariant
  `WayInv` says why nobody waits in a circle. The sentinels are the end of the queue and each
  that was taken brought one worker home (`SentinelsLast`), so an empty queue that was joined
  means everybody is home, and a worker at `get` with nothing to get leaves room for the producer.
  A lock is held by a worker at the step that releases it (`LocksHeld`). Who has a place in
  `slot` is at a request (`SlotHeld`), and who waits for a permit stands in that domain's line,
  once (`Lines`), so its head is let in as soon as a holder leaves.
* `EveryStepLeadsOn`: every step but `Start`, `Kill` and the clock makes a measure smaller, and the
  clock leaves it as it is and shortens every sleep. The measure is lexicographic: what is
  still to be put on the queue and taken from it (`Ahead`); the steps each worker has left
  for its job (`StepsLeft`), of which no step of another worker gives it more; the command's
  phase. Every part is a natural number (`Measured`).

Under `Fairness` a run can then neither stand still nor go round for ever. That last inference is
about `ENABLED` and fairness and is not a theorem here.

### The read-only modules

An answer is a function of the question, so their invariants are theorems about every question
the stored data can pose, not about a behaviour. What a question may be is a predicate beside the
proofs; it bounds nothing and says only what the tables and the options guarantee:

| Predicate | Says | Theorems |
|---|---|---|
| `PrecedentQuestion` | ids are unique, each box belongs to an article, similarities and limits are integers | `EvaluatedAsProduced`, `PrecedentsArePast`, `PrecedentsAreTheBest` |
| `SearchAsked` | the same, for the seed and its boxes | `FloorLosesNothing`, `ConsolidatedOnce`, `NoLookAhead` |
| `BacktestAsked`, `CatalystsAsked` | types of verdicts, bars, closes and articles; one bar per ticker and minute | `ExitFollowsEntry`, `ScoredAlike`, `EveryVerdictCounted` |
| `ScanAsked` | a list of minute bars per ticker, no minute twice; types of index and articles | `NewsOfTheDay`, `RangeOfTheDay` |
| `ClassifyAsked`, `PipelineEvalAsked`, `ClusterEvalAsked` | a list of items; a classifier answers or fails; a binary dataset is labelled YES, NO or not at all; clusters are finite | `ScoresAddUp` |
| `MentionsAsked` | lists of tickers and words; the known tickers are some of `TickerData` | `MentionsAccountedFor` |

The lemmas `AskedPrecedentQuestion`, `AskedSearch`, `AskedBacktest`, `AskedCatalysts`, `AskedScan`,
`AskedEvaluations` and `AskedTags` prove that every question `MCAlgorithms` asks satisfies its predicate: what
TLC checks is an instance of what is proved, and no predicate is empty.

`QuestionProofs` holds what the arguments share. `SortedList`, `TopRows` and `LimitedRows`: a finite
set under a strict order is listed once, in that order, and a `LIMIT` keeps rows none of the others
precedes (a row's place is the number of rows before it, `RankOfRow`). `PickedList` and
`PositionsInOrder`: a filtered list. `DedupList`, `SetListed`: lists without repetition. The folds of
the community modules are defined by the equation their recursion satisfies, and a choice under
it; `IteratedExists` proves that over a finite set or a list the equation has a solution, and
`Unrolled`, `SumSteps`, `SumOfSums` and `SummedUp` work from it. Where a claim needs induction,
it goes by the least counterexample (`LeastExists`).

* *Precedents.* `EvaluatedAsProduced` needs that the hits of both paths are the same list and that
  grouping it by article loses none; with `realNewsOnly` on, that a box which is among the best of
  all labels is among the best of the actionable ones. `PrecedentsArePast` compares every query of
  every mode with the same query on the corpus as it was. `PrecedentsAreTheBest` is the harder one:
  each box of the target asks for its own nearest rows, their union is ranked once more and cut
  off; a candidate that was left out was left out behind enough nearer ones.
* *Searches.* `FloorLosesNothing`: the floor is applied after the cut-off at k, but on the same
  similarity. `ConsolidatedOnce`: the merge is a fold over the boxes of the seed, followed box by box.
* *Trades and scan.* `ScoredAlike` compares the prices fetched for a backtest with those fetched
  for one of its verdicts alone. `EveryVerdictCounted` splits rows by kind and adds their gains up.
  `RangeOfTheDay` follows the fold over the minute bars (`UpdateCovers`).
* *Tags and notes.* `FoundAreNamed` follows the fold over the tokens of a text, `FilteredOnce` says
  what filtering and removing repetitions leaves of a list. `NoteSteps` unfolds the annotation;
  `Laid` is what comes of it: token i of the text ends, with its note, at place `L[i]` of the noted
  text. What a note holds mentions what it stands behind, or nothing (`TickersAreConsistent`, from
  the table of tickers), so nobody new is named. For idempotence (`NotedStays`) every token of the
  noted text must be a mention that was made before, or have its counterpart behind it: because it
  was just written (`NoteFollows`), or because it was there and nothing is noted between the two
  (`StillFollowed`, where `CounterpartsFirst` is needed).
* *Scores.* The results of a classification are a renumbering of its dataset (`EveryItemHasResult`),
  errored items included, without those whose article has another result; a count over the one is
  a count over the other (`SameCount`). The totals of the confusion table, a fold over its
  categories, count the positions by category (`TotalOfCounts`).

`EvalRun` is a state machine; the theorems assume `EvalAssumption` (`Dataset` a natural number,
`Concurrency` positive). `EvalInv` is inductive: `Rebuilt` says which outputs an item has in which
phase, `Kept` what is never taken from any of them, `SeenByAll` what a judged item found of the
earlier ones; an item that is over without being done is warned about. From it:
`LeftResetIsReported` and `PrecedentsWhole`.

### Only model-checked

* Liveness (`EveryJobSettles`, `DrainTerminates`, `RunEnds`): fairness and `ENABLED` are outside the
  prover's reach. Of `RunEnds` the safety half is proved, see above.

## 5. Not modelled, and why

* `csv_backfill` reads one file from its start and keeps no state; `news_history` downloads
  files and writes no table; `reference_data` upserts two small tables from a file and a page.
* The extractors, prompts, chains and the analysts' graph: calls to libraries and models whose
  answer is any answer. Tracing, logging, rendering of candles and reports: no state.
* The length of a back-off and the retries of `market_data`: seconds, where the models know
  *not yet* and *failed for good*.
* Option parsing, other than options that decide what is selected or refused.
* A second service beside the first. `recover_orphans` assumes there is none and nothing
  enforces it; the hazards list names it.
* One-off scripts: run once by hand over exported files.

## 6. Plan

1. `PipelineService` with two services, to state what the single-service assumption buys.
2. `ArticleStages` composed with `JobLifecycle`, its stages as refinements of `Work`.
3. `Scraping` with an abstract specification (each row settled once) in place of its counters.
4. `reference_data` beside `tag_all`: a universe that changes between two taggings.
