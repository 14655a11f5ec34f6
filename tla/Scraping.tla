------------------------------ MODULE Scraping ------------------------------
(***************************************************************************)
(* `ticker-news scrape`: scraping/pipeline.py's run and process_job with   *)
(* the fetcher, the robots cache and the store they use.  A producer reads *)
(* the CSV into a bounded queue, workers take jobs from it, and each job   *)
(* asks robots.txt, fetches the page over HTTP with retries, falls back to *)
(* one shared browser, and upserts one row of `articles`.                  *)
(*                                                                         *)
(* What a page holds is abstracted to what process_job asks of it: whether *)
(* the response is usable, and whether its text is absent, too short       *)
(* (is_weak) or long enough.                                               *)
(***************************************************************************)
EXTENDS DomainLimiter

CONSTANTS Urls,
          DomainOf,     \* urls.domain_of: [Urls -> Domains]
          Hosts,
          HostOf,       \* the netloc as it is written: [Urls -> Hosts]
          Files,        \* the CSV files, sequences of URLs
          Limit,        \* --limit; larger than the file: none
          QueueSize,    \* settings.concurrency * 4 in the code
          Attempts,     \* of _http_with_retries, 3 in the code
          RetryErrors,  \* --retry-errors
          RespectRobots,  \* settings.respect_robots
          MaxStarts,    \* bound: how often the command is started
          None

Workers == Tasks

ASSUME ScrapingAssumption ==
  /\ DomainOf \in [Urls -> Domains]
  /\ HostOf \in [Urls -> Hosts]
  /\ Files \subseteq Seq(Urls)
  /\ {Limit, QueueSize, Attempts, MaxStarts} \subseteq Nat
  /\ QueueSize > 0 /\ Attempts > 0
  /\ {RetryErrors, RespectRobots} \subseteq BOOLEAN
  /\ None \notin Urls \cup Workers

VARIABLES
  run,       \* the command: not running, producing, joining, finished
  starts,    \* how often it was started
  file,      \* the CSV it reads
  produced,  \* rows put on the queue
  stops,     \* the sentinels put on the queue
  queue,     \* the asyncio.Queue
  pc, job, tries,
  found,     \* the response process_job holds, and its extraction
  counts,    \* [ok, empty, error, skip]
  robots,    \* RobotsCache: lock holder, _cache by host, and per host how
             \* often robots.txt was asked for, and how often that raised
  browser,   \* Fetcher: lock holder, _browser and _ctx, chromium launches
  page       \* articles.status: [Urls -> Statuses]

conveyor == <<run, starts, file, produced, stops, queue>>
worker   == <<pc, job, tries, found>>
vars     == <<limiter, conveyor, worker, counts, robots, browser, page>>

-----------------------------------------------------------------------------
(***************************************************************************)
(* Pages                                                                   *)
(***************************************************************************)

Statuses == {"absent", "ok", "empty", "error"}
Texts    == {"none", "weak", "full"}    \* "none": no article, or a blank one

(* "none": the client raised httpx.HTTPError.  "busy": 429 or a 5xx, which *)
(* is retried.  "bad": http_looks_bad for another reason.                  *)
Responses == {"none", "busy", "bad", "good"}

Retried(response) == response \in {"none", "busy"}
LooksBad(response) == response # "good"

(* extract is not called on a response that looks bad. *)
Extracts(response) == IF LooksBad(response) THEN {"none"} ELSE Texts

IsWeak(text) == text # "full"

Verdict(f) ==
  CASE f.response = "none"                       -> "error"
    [] f.response # "none" /\ f.text = "none"     -> "empty"
    [] OTHER                                     -> "ok"

Nothing == [response |-> "none", text |-> "none"]

-----------------------------------------------------------------------------
(***************************************************************************)
(* Types                                                                   *)
(***************************************************************************)

Stop == None    \* the sentinel on the queue

PCs == {"off", "get", "check", "robots", "locked", "asking", "slot", "http",
        "refuse", "browserSlot", "browser", "launch", "save", "returned"}

TypeOK ==
  /\ LimiterTypeOK
  /\ run \in {"off", "producing", "joining", "finished"}
  /\ starts \in 0..MaxStarts
  /\ file \in Files
  /\ produced \in 0..Len(file)
  /\ stops \in 0..Cardinality(Workers)
  /\ Len(queue) <= QueueSize
  /\ queue \in Seq(Urls \cup {Stop})
  /\ pc \in [Workers -> PCs]
  /\ job \in [Workers -> Urls \cup {None}]
  /\ tries \in [Workers -> 0..Attempts]
  /\ found \in [Workers -> [response : Responses, text : Texts]]
  /\ counts \in [{"ok", "empty", "error", "skip"} -> Nat]
  /\ robots \in [holder : Workers \cup {None},
                 known : SUBSET Hosts,
                 disallowed : [Hosts -> SUBSET Urls],
                 fetches : [Hosts -> Nat],
                 raised : [Hosts -> Nat]]
  /\ browser \in [holder : Workers \cup {None}, up : {"no", "half", "yes"}, launches : Nat]
  /\ page \in [Urls -> Statuses]

Idle ==
  /\ pc = [w \in Workers |-> "off"]
  /\ job = [w \in Workers |-> None]
  /\ tries = [w \in Workers |-> 0]
  /\ found = [w \in Workers |-> Nothing]

NoRobots  == [holder |-> None, known |-> {}, disallowed |-> [h \in Hosts |-> {}],
              fetches |-> [h \in Hosts |-> 0], raised |-> [h \in Hosts |-> 0]]
NoBrowser == [holder |-> None, up |-> "no", launches |-> 0]
NoCounts  == [k \in {"ok", "empty", "error", "skip"} |-> 0]

Init ==
  /\ LimiterInit
  /\ run = "off"
  /\ starts = 0
  /\ file \in Files
  /\ produced = 0
  /\ stops = 0
  /\ queue = <<>>
  /\ Idle
  /\ counts = NoCounts
  /\ robots = NoRobots
  /\ browser = NoBrowser
  /\ page \in [Urls -> {"absent", "ok"}]

-----------------------------------------------------------------------------
(***************************************************************************)
(* The command                                                             *)
(***************************************************************************)

Rows == IF Limit < Len(file) THEN Limit ELSE Len(file)

(* Everything but the table belongs to one run of the command. *)
Anew(label) ==
  /\ produced' = 0
  /\ stops' = 0
  /\ queue' = <<>>
  /\ pc' = [w \in Workers |-> label]
  /\ job' = [w \in Workers |-> None]
  /\ tries' = [w \in Workers |-> 0]
  /\ found' = [w \in Workers |-> Nothing]
  /\ counts' = NoCounts
  /\ robots' = NoRobots
  /\ browser' = NoBrowser
  /\ waiters' = [d \in Domains |-> <<>>]
  /\ slot' = [t \in Tasks |-> Outside]
  /\ left' = [t \in Tasks |-> 0]
  /\ since' = [d \in Domains |-> Delay]
  /\ UNCHANGED <<file, page>>

Start ==
  /\ run \in {"off", "finished"}
  /\ starts < MaxStarts
  /\ starts' = starts + 1
  /\ run' = "producing"
  /\ Anew("get")

(* Mutant of Produce: a queue without maxsize. *)
ProduceUnbounded ==
  /\ run = "producing"
  /\ produced < Rows
  /\ queue' = Append(queue, file[produced + 1])
  /\ produced' = produced + 1
  /\ UNCHANGED <<limiter, run, starts, file, stops, worker, counts, robots, browser, page>>

(* await queue.put: rows first, then one sentinel for each worker. *)
Produce ==
  /\ run = "producing"
  /\ Len(queue) < QueueSize
  /\ IF produced < Rows
       THEN /\ queue' = Append(queue, file[produced + 1])
            /\ produced' = produced + 1
            /\ UNCHANGED stops
       ELSE /\ stops < Cardinality(Workers)
            /\ queue' = Append(queue, Stop)
            /\ stops' = stops + 1
            /\ UNCHANGED produced
  /\ UNCHANGED <<limiter, run, starts, file, worker, counts, robots, browser, page>>

Joins ==
  /\ run = "producing"
  /\ produced = Rows
  /\ stops = Cardinality(Workers)
  /\ run' = "joining"
  /\ UNCHANGED <<limiter, starts, file, produced, stops, queue,
                 worker, counts, robots, browser, page>>

(* queue.join() and gather: every item is done, every worker has returned. *)
Finish ==
  /\ run = "joining"
  /\ queue = <<>>
  /\ \A w \in Workers : pc[w] = "returned"
  /\ run' = "finished"
  /\ browser' = [browser EXCEPT !.up = "no"]
  /\ UNCHANGED <<limiter, starts, file, produced, stops, queue,
                 worker, counts, robots, page>>

(* Ctrl+C or a kill, at any moment: each save was its own transaction. *)
Kill ==
  /\ run \in {"producing", "joining"}
  /\ run' = "off"
  /\ Anew("off")
  /\ UNCHANGED starts

-----------------------------------------------------------------------------
(***************************************************************************)
(* A worker                                                                *)
(***************************************************************************)

Goto(w, label) == pc' = [pc EXCEPT ![w] = label]

Domain(w) == DomainOf[job[w]]
Host(w)   == HostOf[job[w]]

(* The worker is done with its job and counts it. *)
Ends(w, outcome) ==
  /\ counts' = [counts EXCEPT ![outcome] = @ + 1]
  /\ Goto(w, "get")
  /\ job' = [job EXCEPT ![w] = None]
  /\ tries' = [tries EXCEPT ![w] = 0]
  /\ found' = [found EXCEPT ![w] = Nothing]

(* queue.get(). *)
Take(w) ==
  /\ pc[w] = "get"
  /\ queue # <<>>
  /\ queue' = Tail(queue)
  /\ IF Head(queue) = Stop
       THEN Goto(w, "returned") /\ UNCHANGED job
       ELSE /\ Goto(w, "check")
            /\ job' = [job EXCEPT ![w] = Head(queue)]
  /\ UNCHANGED <<limiter, run, starts, file, produced, stops, tries, found,
                 counts, robots, browser, page>>

(* Where process_job begins. *)
Asked == IF RespectRobots THEN "robots" ELSE "slot"

(* Mutant of Check: the job goes on whatever is stored. *)
CheckNot(w) ==
  /\ pc[w] = "check"
  /\ Goto(w, Asked)
  /\ UNCHANGED <<limiter, conveyor, job, tries, found, counts, robots, browser, page>>

(* store.exists_ok, unless --retry-errors. *)
Check(w) ==
  /\ pc[w] = "check"
  /\ IF ~RetryErrors /\ page[job[w]] = "ok"
       THEN Ends(w, "skip")
       ELSE Goto(w, Asked) /\ UNCHANGED <<job, tries, found, counts>>
  /\ UNCHANGED <<limiter, conveyor, robots, browser, page>>

(* RobotsCache.allowed takes its lock ... *)
LockRobots(w) ==
  /\ pc[w] = "robots"
  /\ robots.holder = None
  /\ robots' = [robots EXCEPT !.holder = w]
  /\ Goto(w, "locked")
  /\ UNCHANGED <<limiter, conveyor, job, tries, found, counts, browser, page>>

(* ... and answers from the cache, ... *)
RobotsCached(w) ==
  /\ pc[w] = "locked"
  /\ Host(w) \in robots.known
  /\ robots' = [robots EXCEPT !.holder = None]
  /\ Goto(w, IF job[w] \in robots.disallowed[Host(w)] THEN "refuse" ELSE "slot")
  /\ UNCHANGED <<limiter, conveyor, job, tries, found, counts, browser, page>>

(* ... or asks for robots.txt, the lock in its hands: a failed fetch is     *)
(* cached as one that disallows nothing.                                   *)
AskRobots(w) ==
  /\ pc[w] = "locked"
  /\ Host(w) \notin robots.known
  /\ Goto(w, "asking")
  /\ UNCHANGED <<limiter, conveyor, job, tries, found, counts, robots, browser, page>>

RobotsFetched(w) ==
  LET h == Host(w) IN
  /\ pc[w] = "asking"
  /\ \E disallowed \in SUBSET {u \in Urls : HostOf[u] = h} :
        /\ robots' = [robots EXCEPT !.holder = None,
                                    !.known = @ \cup {h},
                                    !.disallowed[h] = disallowed,
                                    !.fetches[h] = @ + 1]
        /\ Goto(w, IF job[w] \in disallowed THEN "refuse" ELSE "slot")
  /\ UNCHANGED <<limiter, conveyor, job, tries, found, counts, browser, page>>

Refuse(w) ==
  /\ pc[w] = "refuse"
  /\ page' = [page EXCEPT ![job[w]] = "error"]
  /\ Ends(w, "error")
  /\ UNCHANGED <<limiter, conveyor, robots, browser>>

EnterSlot(w) ==
  /\ pc[w] \in {"slot", "browserSlot"}
  /\ Enter(w, Domain(w))
  /\ Goto(w, IF pc[w] = "slot" THEN "http" ELSE "browser")
  /\ UNCHANGED <<conveyor, job, tries, found, counts, robots, browser, page>>

(* One request of _http_with_retries; the pauses between them are spent    *)
(* inside the slot.                                                        *)
HttpRetry(w) ==
  /\ pc[w] = "http"
  /\ In(w, "inside")
  /\ tries[w] + 1 < Attempts
  /\ tries' = [tries EXCEPT ![w] = @ + 1]
  /\ UNCHANGED <<limiter, conveyor, pc, job, found, counts, robots, browser, page>>

(* Its last request; the slot is left, the page extracted, and a response  *)
(* that looks bad or a text that is weak sends the job to the browser.     *)
HttpAnswer(w) ==
  /\ pc[w] = "http"
  /\ In(w, "inside")
  /\ \E r \in Responses : \E text \in Extracts(r) :
        /\ Retried(r) => tries[w] + 1 = Attempts
        /\ found' = [found EXCEPT ![w] = [response |-> r, text |-> text]]
        /\ Goto(w, IF LooksBad(r) \/ IsWeak(text) THEN "browserSlot" ELSE "save")
  /\ Leave(w)
  /\ UNCHANGED <<conveyor, job, tries, counts, robots, browser, page>>

(* Mutant of LockBrowser: _ensure_browser without its lock. *)
LockBrowserNot(w) ==
  /\ pc[w] = "browser"
  /\ In(w, "inside")
  /\ browser.up = "no"
  /\ Goto(w, "launch")
  /\ UNCHANGED <<limiter, conveyor, job, tries, found, counts, robots, browser, page>>

(* _ensure_browser takes its lock and finds no browser. *)
LockBrowser(w) ==
  /\ pc[w] = "browser"
  /\ In(w, "inside")
  /\ browser.holder = None
  /\ browser.up = "no"
  /\ browser' = [browser EXCEPT !.holder = w]
  /\ Goto(w, "launch")
  /\ UNCHANGED <<limiter, conveyor, job, tries, found, counts, robots, page>>

Launched(w) ==
  /\ pc[w] = "launch"
  /\ browser' = [holder |-> None, up |-> "yes", launches |-> browser.launches + 1]
  /\ Goto(w, "browser")
  /\ UNCHANGED <<limiter, conveyor, job, tries, found, counts, robots, page>>

(* browser_get; only a usable page replaces what HTTP brought. *)
BrowserAnswer(w) ==
  /\ pc[w] = "browser"
  /\ In(w, "inside")
  /\ browser.up = "yes"
  /\ \/ UNCHANGED found
     \/ \E text \in Texts :
          found' = [found EXCEPT ![w] = [response |-> "good", text |-> text]]
  /\ Leave(w)
  /\ Goto(w, "save")
  /\ UNCHANGED <<conveyor, job, tries, counts, robots, browser, page>>

Save(w) ==
  LET status == Verdict(found[w]) IN
  /\ pc[w] = "save"
  /\ page' = [page EXCEPT ![job[w]] = status]
  /\ Ends(w, status)
  /\ UNCHANGED <<limiter, conveyor, robots, browser>>

(* Mutant of LaunchRaises: the exception passes the worker's count by. *)
LaunchUncounted(w) ==
  /\ pc[w] = "launch"
  /\ browser' = [browser EXCEPT !.holder = None]
  /\ Leave(w)
  /\ Goto(w, "get")
  /\ UNCHANGED <<conveyor, job, tries, found, counts, robots, page>>

(* The launch raises: before there is a _browser, or when new_context fails *)
(* and leaves a _browser without _ctx, which is never made again.          *)
LaunchRaises(w) ==
  /\ pc[w] = "launch"
  /\ browser' \in {[browser EXCEPT !.holder = None],
                   [holder |-> None, up |-> "half", launches |-> browser.launches + 1]}
  /\ Leave(w)
  /\ Ends(w, "error")
  /\ UNCHANGED <<conveyor, robots, page>>

(* An exception before the parser is cached, with the lock held: `with`    *)
(* lets go of it, and the next job of the host asks again.                 *)
RobotsForgotten(h) ==
  robots' = [robots EXCEPT !.holder = None, !.fetches[h] = @ + 1, !.raised[h] = @ + 1]

(* Mutant of Raises: an exception in the slot ends the worker.             *)
RaisesThroughWorker(w) ==
  /\ \/ /\ pc[w] \in {"check", "robots", "refuse", "save"}
        /\ UNCHANGED <<limiter, robots>>
     \/ pc[w] = "asking" /\ RobotsForgotten(Host(w)) /\ UNCHANGED limiter
     \/ pc[w] = "http" /\ In(w, "inside") /\ Leave(w) /\ UNCHANGED robots
     \/ /\ pc[w] = "browser" /\ In(w, "inside") /\ browser.up # "no"
        /\ Leave(w) /\ UNCHANGED robots
  /\ Goto(w, "off")
  /\ UNCHANGED <<conveyor, job, tries, found, counts, browser, page>>

(* Something else raises: the table, urlsplit, the request for robots.txt  *)
(* for another reason than HTTPError or its parser, the client, new_page   *)
(* (always so without _ctx).  `async with` leaves the slot, the worker     *)
(* counts the job and goes on.  can_fetch, which comes after the lock,     *)
(* raises as "refuse" does, on a URL that counts as disallowed here.       *)
Raises(w) ==
  /\ \/ /\ pc[w] \in {"check", "robots", "refuse", "save"}
        /\ UNCHANGED <<limiter, robots>>
     \/ pc[w] = "asking" /\ RobotsForgotten(Host(w)) /\ UNCHANGED limiter
     \/ pc[w] = "http" /\ In(w, "inside") /\ Leave(w) /\ UNCHANGED robots
     \/ /\ pc[w] = "browser" /\ In(w, "inside") /\ browser.up # "no"
        /\ Leave(w) /\ UNCHANGED robots
  /\ Ends(w, "error")
  /\ UNCHANGED <<conveyor, browser, page>>

LimiterStep(w) == 
  /\ Grant(w) \/ WakeUp(w)
  /\ UNCHANGED <<conveyor, worker, counts, robots, browser, page>>

Time == Tick /\ UNCHANGED <<conveyor, worker, counts, robots, browser, page>>

(* A worker's next step. *)
WorkerStep(w) ==
  \/ Take(w) \/ Check(w)
  \/ LockRobots(w) \/ RobotsCached(w) \/ AskRobots(w) \/ RobotsFetched(w) \/ Refuse(w)
  \/ EnterSlot(w) \/ LimiterStep(w)
  \/ HttpRetry(w) \/ HttpAnswer(w)
  \/ LockBrowser(w) \/ Launched(w) \/ LaunchRaises(w) \/ BrowserAnswer(w)
  \/ Save(w) \/ Raises(w)

Next ==
  \/ Start \/ Produce \/ Joins \/ Finish \/ Kill
  \/ \E w \in Workers : WorkerStep(w)
  \/ Time

Spec == Init /\ [][Next]_vars

(* asyncio runs every ready task, requests and launches have time limits,  *)
(* and time passes.                                                        *)
Fairness ==
  /\ WF_vars(Produce) /\ WF_vars(Joins) /\ WF_vars(Finish) /\ WF_vars(Time)
  /\ \A w \in Workers : WF_vars(WorkerStep(w))

FairSpec == Spec /\ Fairness

-----------------------------------------------------------------------------
(***************************************************************************)
(* Properties                                                              *)
(***************************************************************************)

(* A host's robots.txt is asked for again only after an attempt that       *)
(* raised: the lock is held from the look into the cache to the entry, and *)
(* a fetch that fails with HTTPError is cached too.  ("Once per host",      *)
(* robots.py:13-14, is once more for every exception.)  And fetch.py:52-53, *)
(* the lock of _ensure_browser keeps concurrent workers from launching a   *)
(* second browser, which would leak the first.                             *)
FetchedOnce ==
  /\ \A h \in Hosts : robots.fetches[h] <= 1 + robots.raised[h]
  /\ browser.launches <= 1

(* Without --retry-errors, and with no URL listed twice, a stored page is   *)
(* never fetched and replaced again, whatever was killed and restarted: a  *)
(* failing refetch would clobber the good row.                             *)
Distinct == \A i, j \in 1..Len(file) : file[i] = file[j] => i = j

GoodPageKept ==
  [][~RetryErrors /\ Distinct =>
       \A u \in Urls : page[u] = "ok" => page'[u] = "ok"]_vars

(* When the command ends, every row it read was counted exactly once, and   *)
(* every URL it read has a row unless its job raised: nothing is lost      *)
(* between the queue, the workers and the sentinels.                       *)
EveryRowCounted ==
  run = "finished" =>
    /\ counts["ok"] + counts["empty"] + counts["error"] + counts["skip"] = Rows
    /\ Cardinality({u \in {file[i] : i \in 1..Rows} : page[u] = "absent"}) <= counts["error"]

(* The command ends unless it is killed: the producer, the workers, the    *)
(* limiter and the locks never wait for each other in a circle, nor does   *)
(* an exception cost a worker or a permit.                                 *)
RunEnds == run = "producing" ~> run \in {"finished", "off"}

=============================================================================
