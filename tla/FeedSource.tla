----------------------------- MODULE FeedSource -----------------------------
(***************************************************************************)
(* The live feed: ingestion/massive_rest.py's MassiveRestSource beside the *)
(* provider it polls and the queue that takes its items (jobs.enqueue, ON  *)
(* CONFLICT DO NOTHING).                                                   *)
(*                                                                         *)
(* A poll fetches every ticker's articles since the ticker's cursor, all   *)
(* tickers concurrently, moves the cursors, merges the answers into one    *)
(* item per URL, and yields the items it has not yielded before.  Cursors  *)
(* and the set of seen URLs live in memory and die with the process.       *)
(***************************************************************************)
EXTENDS Integers, FiniteSets

CONSTANTS Articles, Tickers,
          About,      \* the tickers the provider lists an article under
          Lookback,   \* how far a ticker without a cursor looks back
          Tardy,      \* articles the provider may list after their publication
          MaxClock,   \* bound: the last instant at which time passes
          Never       \* no time at all

ASSUME FeedAssumption ==
  /\ About \in [Articles -> (SUBSET Tickers) \ {{}}]
  /\ Lookback \in Nat /\ MaxClock \in Nat
  /\ Tardy \subseteq Articles
  /\ Never \notin Int

VARIABLES
  clock,
  published,  \* when each article was, if it was: published_utc
  listed,     \* what the provider answers with: <<article, ticker>>
  feed,       \* the feed task: off, asleep, fetching, yielding, broken
  now,        \* when the poll began
  cursor,     \* _cursors: [Tickers -> time]
  seen,       \* _seen_urls
  answer,     \* the poll's answers so far: [Tickers -> answer]
  batch,      \* items the poll has yet to yield, with their tickers
  queue,      \* what was enqueued, with its tickers (none: not enqueued)
  polled      \* history: <<ticker, now>> of the polls that ended well

provider == <<clock, published, listed>>
memory   == <<feed, now, cursor, seen, answer, batch>>
vars     == <<provider, memory, queue, polled>>

Times   == 0..MaxClock
Pending == [kind |-> "pending", articles |-> {}]
Failed  == [kind |-> "failed", articles |-> {}]
Answers == [kind : {"pending", "failed", "ok"}, articles : SUBSET Articles]

TypeOK ==
  /\ clock \in Times
  /\ published \in [Articles -> Times \cup {Never}]
  /\ listed \subseteq Articles \X Tickers
  /\ feed \in {"off", "asleep", "fetching", "yielding", "broken"}
  /\ now \in Times
  /\ cursor \in [Tickers -> Times \cup {Never}]
  /\ seen \subseteq Articles
  /\ answer \in [Tickers -> Answers]
  /\ batch \in [Articles -> SUBSET Tickers]
  /\ queue \in [Articles -> SUBSET Tickers]
  /\ polled \subseteq Tickers \X Times

NoItems == [a \in Articles |-> {}]
NoCursors == [t \in Tickers |-> Never]

(* Mutant of Forget: the cursors outlive the process. *)
ForgetButCursors ==
  /\ seen' = {}
  /\ answer' = [t \in Tickers |-> Pending]
  /\ batch' = NoItems
  /\ now' = 0
  /\ UNCHANGED cursor

(* The source is gone, and all it kept in memory. *)
Forget ==
  /\ cursor' = NoCursors
  /\ seen' = {}
  /\ answer' = [t \in Tickers |-> Pending]
  /\ batch' = NoItems
  /\ now' = 0

Init ==
  /\ clock = 0
  /\ published = [a \in Articles |-> Never]
  /\ listed = {}
  /\ feed = "off"
  /\ now = 0
  /\ cursor = NoCursors
  /\ seen = {}
  /\ answer = [t \in Tickers |-> Pending]
  /\ batch = NoItems
  /\ queue = NoItems
  /\ polled = {}

-----------------------------------------------------------------------------
(***************************************************************************)
(* The provider                                                            *)
(***************************************************************************)

Tick ==
  /\ clock < MaxClock
  /\ clock' = clock + 1
  /\ UNCHANGED <<published, listed, memory, queue, polled>>

Publish(a) ==
  /\ published[a] = Never
  /\ published' = [published EXCEPT ![a] = clock]
  /\ listed' = IF a \in Tardy THEN listed ELSE listed \cup ({a} \X About[a])
  /\ UNCHANGED <<clock, memory, queue, polled>>

(* A tardy article shows up when the provider pleases, ticker by ticker. *)
List(a, t) ==
  /\ a \in Tardy
  /\ published[a] # Never
  /\ t \in About[a]
  /\ <<a, t>> \notin listed
  /\ listed' = listed \cup {<<a, t>>}
  /\ UNCHANGED <<clock, published, memory, queue, polled>>

-----------------------------------------------------------------------------
(***************************************************************************)
(* The source                                                              *)
(***************************************************************************)

(* The service is started (again): a new MassiveRestSource. *)
Start ==
  /\ feed \in {"off", "broken"}
  /\ feed' = "asleep"
  /\ Forget
  /\ UNCHANGED <<provider, queue, polled>>

(* The process is killed, or the feed task cancelled, at any moment. *)
Kill ==
  /\ feed # "off"
  /\ feed' = "off"
  /\ Forget
  /\ UNCHANGED <<provider, queue, polled>>

(* The poll interval is over. *)
BeginPoll ==
  /\ feed = "asleep"
  /\ feed' = "fetching"
  /\ now' = clock
  /\ answer' = [t \in Tickers |-> Pending]
  /\ UNCHANGED <<provider, cursor, seen, batch, queue, polled>>

Since(t) == IF cursor[t] # Never THEN cursor[t] ELSE now - Lookback

(* published_utc.gte; the pages of one fetch are read as one. *)
Listing(t, since) ==
  {a \in Articles : <<a, t>> \in listed /\ published[a] >= since}

Answer(t) ==
  /\ feed = "fetching"
  /\ answer[t] = Pending
  /\ answer' = [answer EXCEPT ![t] = [kind |-> "ok", articles |-> Listing(t, Since(t))]]
  /\ UNCHANGED <<provider, feed, now, cursor, seen, batch, queue, polled>>

(* _request has spent its retries, or failed for good. *)
FetchFails(t) ==
  /\ feed = "fetching"
  /\ answer[t] = Pending
  /\ answer' = [answer EXCEPT ![t] = Failed]
  /\ UNCHANGED <<provider, feed, now, cursor, seen, batch, queue, polled>>

(* Mutant of Newest: a ticker without news keeps its look-back as a cursor. *)
NewestOrSince(t) ==
  LET times == {published[a] : a \in answer[t].articles} \cup {Since(t)} IN
  CHOOSE x \in times : \A y \in times : y <= x

(* The latest published_utc of a ticker's answer, never behind its cursor. *)
Newest(t) ==
  LET times == {published[a] : a \in answer[t].articles} \cup ({cursor[t]} \ {Never}) IN
  IF times = {} THEN Never ELSE CHOOSE x \in times : \A y \in times : y <= x

(* gather returns: cursors move, answers are merged by URL. *)
Collect ==
  /\ feed = "fetching"
  /\ \A t \in Tickers : answer[t] # Pending
  /\ cursor' = [t \in Tickers |-> IF answer[t].kind = "ok" THEN Newest(t) ELSE cursor[t]]
  /\ batch' = [a \in Articles |-> {t \in Tickers : a \in answer[t].articles}]
  /\ feed' = "yielding"
  /\ UNCHANGED <<provider, now, seen, answer, queue, polled>>

(* An item whose URL was seen is passed over; another is yielded, and the  *)
(* service enqueues it unless the table knows it.                          *)
Yield(a) ==
  /\ feed = "yielding"
  /\ batch[a] # {}
  /\ batch' = [batch EXCEPT ![a] = {}]
  /\ seen' = seen \cup {a}
  /\ queue' = IF a \notin seen /\ queue[a] = {}
                THEN [queue EXCEPT ![a] = batch[a]]
                ELSE queue
  /\ UNCHANGED <<provider, feed, now, cursor, answer, polled>>

(* jobs.enqueue raises: feed_task ends, the service goes on without it. *)
EnqueueRaises(a) ==
  /\ feed = "yielding"
  /\ batch[a] # {}
  /\ a \notin seen
  /\ feed' = "broken"
  /\ Forget
  /\ UNCHANGED <<provider, queue, polled>>

EndPoll ==
  /\ feed = "yielding"
  /\ batch = NoItems
  /\ feed' = "asleep"
  /\ polled' = polled \cup {<<t, now>> : t \in {x \in Tickers : answer[x].kind = "ok"}}
  /\ UNCHANGED <<provider, now, cursor, seen, answer, batch, queue>>

FeedStep ==
  \/ BeginPoll \/ Collect \/ EndPoll
  \/ \E t \in Tickers : Answer(t)
  \/ \E a \in Articles : Yield(a)

Next ==
  \/ Tick
  \/ \E a \in Articles : Publish(a)
  \/ \E a \in Articles, t \in Tickers : List(a, t)
  \/ Start \/ Kill
  \/ FeedStep
  \/ \E t \in Tickers : FetchFails(t)
  \/ \E a \in Articles : EnqueueRaises(a)

Spec == Init /\ [][Next]_vars

-----------------------------------------------------------------------------
(***************************************************************************)
(* Properties                                                              *)
(***************************************************************************)

Enqueued(a) == queue[a] # {}

(* massive_rest.py:130-132, articles are lost by a long silence only.  One  *)
(* poll of one of the article's tickers that ended well, and began after   *)
(* the article's publication and within the look-back, is enough: whatever *)
(* polls failed, whatever the cursors moved past, whichever process died   *)
(* in the middle of its yields.  Not so for a tardy article, which the     *)
(* cursor may have passed.                                                 *)
PolledIsEnqueued ==
  \A a \in Articles \ Tardy :
    (/\ published[a] # Never
     /\ \E t \in About[a], then \in Times :
          /\ <<t, then>> \in polled
          /\ published[a] < then /\ then <= published[a] + Lookback)
    => Enqueued(a)

=============================================================================
