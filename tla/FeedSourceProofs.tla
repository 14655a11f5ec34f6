-------------------------- MODULE FeedSourceProofs --------------------------
(***************************************************************************)
(* Proofs about FeedSource, for any articles, tickers, look-back and       *)
(* length of time.                                                         *)
(*                                                                         *)
(* The cursor moves to the newest article of an answer, so what must be    *)
(* shown is that nothing it moves past is lost.  An answer has no gaps:    *)
(* of a prompt article it holds whatever is older than the answer's newest *)
(* article, back to the time the answer asked from; and whatever is older  *)
(* than that was got before, or is too old to be promised.                 *)
(***************************************************************************)
EXTENDS FeedSource, WellFoundedInduction, TLAPS

Prompt == Articles \ Tardy

(* The ticker's listing holds the article from its publication on. *)
Covered(a, t) == published[a] # Never /\ t \in About[a]

Got(a) == Enqueued(a) \/ batch[a] # {}

PublishedInPast == \A a \in Articles : published[a] # Never => published[a] <= clock

NowInPast == now <= clock

PromptlyListed == \A a \in Prompt, t \in Tickers : Covered(a, t) => <<a, t>> \in listed

ListedPublished == \A a \in Articles, t \in Tickers : <<a, t>> \in listed => published[a] # Never

(* The provider's answers and the batch live no longer than the poll. *)
BatchOfThePoll == feed # "yielding" => batch = NoItems

OnlyGoodAnswers ==
  \A t \in Tickers : answer[t].articles # {} => answer[t].kind = "ok"

SeenEnqueued == \A a \in seen : Enqueued(a)

(* An answer holds published articles only, and has no gaps. *)
NoGaps ==
  feed = "fetching" =>
    \A t \in Tickers : answer[t].kind = "ok" =>
      /\ \A b \in answer[t].articles : published[b] # Never
      /\ \A a \in Prompt :
           /\ Covered(a, t) /\ published[a] >= Since(t)
           /\ published[a] < now \/ \E b \in answer[t].articles : published[a] < published[b]
           => a \in answer[t].articles

(* What the cursor has passed was got, or is out of reach for good. *)
CursorPassesNothing ==
  \A a \in Prompt, t \in Tickers :
    Covered(a, t) /\ cursor[t] # Never /\ published[a] < cursor[t]
      => Got(a) \/ published[a] < now - Lookback

(* The poll that is about to end has got what it promises. *)
PollGets ==
  feed = "yielding" =>
    \A a \in Prompt, t \in Tickers :
      /\ Covered(a, t) /\ answer[t].kind = "ok"
      /\ published[a] < now /\ now <= published[a] + Lookback
      => Got(a)

CursorInPast == \A t \in Tickers : cursor[t] # Never => cursor[t] <= clock

PolledInPast == \A t \in Tickers, then \in Times : <<t, then>> \in polled => then <= clock

IInv ==
  /\ TypeOK /\ CursorInPast /\ PolledInPast /\ PublishedInPast /\ NowInPast /\ PromptlyListed /\ ListedPublished
  /\ BatchOfThePoll /\ OnlyGoodAnswers /\ SeenEnqueued
  /\ NoGaps /\ CursorPassesNothing /\ PollGets /\ PolledIsEnqueued


-----------------------------------------------------------------------------
(* A set of instants that is not empty has a latest one. *)
LEMMA LatestExists ==
  ASSUME NEW T \in SUBSET Times, T # {}
  PROVE  \E x \in T : \A y \in T : y <= x
<1> DEFINE U == {MaxClock - x : x \in T}
<1>1. U \subseteq Nat /\ U # {}
  <2>1. \A x \in T : MaxClock - x \in Nat
    BY FeedAssumption DEF Times
  <2>2. PICK x \in T : TRUE
    OBVIOUS
  <2> QED
    BY <2>1, <2>2, Zenon
<1>2. PICK m \in U : \A y \in U : ~(<<y, m>> \in OpToRel(<, Nat))
  <2> HIDE DEF U
  <2> QED
    BY <1>1, NatLessThanWellFounded, WFMin, Zenon
<1>3. \A y \in U : ~(y < m)
  BY <1>1, <1>2 DEF OpToRel
<1>4. PICK x \in T : m = MaxClock - x
  OBVIOUS
<1>5. \A y \in T : y <= x
  BY <1>3, <1>4, FeedAssumption DEF Times
<1> QED
  BY <1>5

(* The new cursor is the old one, or the time of an article in the answer. *)
LEMMA NewestFacts ==
  ASSUME TypeOK, NEW t \in Tickers,
         \A b \in answer[t].articles : published[b] # Never
  PROVE  /\ Newest(t) \in Times \cup {Never}
         /\ Newest(t) # Never =>
              \/ Newest(t) = cursor[t]
              \/ \E b \in answer[t].articles : Newest(t) = published[b]
<1> DEFINE T == {published[b] : b \in answer[t].articles} \cup ({cursor[t]} \ {Never})
<1>1. T \subseteq Times
  BY DEF TypeOK, Answers
<1>2. CASE T = {}
  BY <1>2 DEF Newest
<1>3. CASE T # {}
  <2>1. Newest(t) \in T
    <3>1. \E x \in T : \A y \in T : y <= x
      <4> HIDE DEF T
      <4> QED  BY <1>1, <1>3, LatestExists
    <3>2. Newest(t) = CHOOSE x \in T : \A y \in T : y <= x
      BY <1>3 DEF Newest
    <3> QED  BY <3>1, <3>2
  <2> QED
    BY <1>1, <2>1
<1> QED
  BY <1>2, <1>3

-----------------------------------------------------------------------------
LEMMA InitIInv == Init => IInv
<1> SUFFICES ASSUME Init PROVE IInv
  OBVIOUS
<1> USE FeedAssumption DEF Init, NoItems, NoCursors, Pending, Times
<1>1. TypeOK
  BY DEF TypeOK, Answers
<1>2. PublishedInPast /\ NowInPast /\ CursorInPast /\ PolledInPast
  BY DEF PublishedInPast, NowInPast, CursorInPast, PolledInPast
<1>3. PromptlyListed /\ ListedPublished
  BY DEF PromptlyListed, ListedPublished, Covered, Prompt
<1>4. BatchOfThePoll /\ OnlyGoodAnswers /\ SeenEnqueued
  BY DEF BatchOfThePoll, OnlyGoodAnswers, SeenEnqueued
<1>5. NoGaps /\ CursorPassesNothing /\ PollGets /\ PolledIsEnqueued
  BY DEF NoGaps, CursorPassesNothing, PollGets, PolledIsEnqueued
<1> QED
  BY <1>1, <1>2, <1>3, <1>4, <1>5 DEF IInv

LEMMA TickIInv ==
  ASSUME IInv, Tick
  PROVE  IInv'
<1> USE FeedAssumption DEF Tick, memory
<1>1. TypeOK'
  BY DEF IInv, TypeOK, Times
<1>2. PublishedInPast' /\ NowInPast' /\ CursorInPast' /\ PolledInPast'
  BY DEF IInv, TypeOK, Times, PublishedInPast, NowInPast, CursorInPast, PolledInPast
<1>3. PromptlyListed' /\ ListedPublished'
  BY DEF IInv, PromptlyListed, ListedPublished, Covered
<1>4. BatchOfThePoll' /\ OnlyGoodAnswers' /\ SeenEnqueued'
  BY DEF IInv, BatchOfThePoll, OnlyGoodAnswers, SeenEnqueued, Enqueued
<1>5. NoGaps'
  BY DEF IInv, NoGaps, Covered, Since
<1>6. CursorPassesNothing' /\ PollGets' /\ PolledIsEnqueued'
  BY DEF IInv, CursorPassesNothing, PollGets, PolledIsEnqueued, Covered, Got, Enqueued
<1> QED
  BY <1>1, <1>2, <1>3, <1>4, <1>5, <1>6 DEF IInv

(* The article is younger than every poll, answer and cursor there is. *)
LEMMA PublishIInv ==
  ASSUME IInv, NEW p \in Articles, Publish(p)
  PROVE  IInv'
<1> USE FeedAssumption DEF Publish, memory
<1>1. /\ \A a \in Articles : published'[a] = IF a = p THEN clock ELSE published[a]
      /\ published[p] = Never /\ clock \in Times /\ clock \in Int /\ clock # Never
      /\ now \in Int /\ now <= clock
  BY DEF IInv, TypeOK, Times, NowInPast
<1>2. TypeOK'
  BY <1>1 DEF IInv, TypeOK
<1>3. PublishedInPast' /\ NowInPast' /\ CursorInPast' /\ PolledInPast'
  BY <1>1 DEF IInv, PublishedInPast, NowInPast, CursorInPast, PolledInPast
<1>4. PromptlyListed'
  BY <1>1 DEF IInv, PromptlyListed, Covered, Prompt
<1>5. ListedPublished'
  BY <1>1 DEF IInv, ListedPublished
<1>6. BatchOfThePoll' /\ OnlyGoodAnswers' /\ SeenEnqueued'
  BY DEF IInv, BatchOfThePoll, OnlyGoodAnswers, SeenEnqueued, Enqueued
<1>7. NoGaps'
  <2> SUFFICES ASSUME feed = "fetching", NEW t \in Tickers, answer[t].kind = "ok"
               PROVE  /\ \A b \in answer[t].articles : published'[b] # Never
                      /\ \A a \in Prompt :
                           /\ Covered(a, t)' /\ published'[a] >= Since(t)
                           /\ \/ published'[a] < now
                              \/ \E b \in answer[t].articles : published'[a] < published'[b]
                           => a \in answer[t].articles
    BY DEF NoGaps, Since
  <2>1. /\ \A b \in answer[t].articles : b \in Articles /\ published[b] # Never /\ b # p
        /\ \A b \in answer[t].articles : published[b] <= clock
    BY <1>1 DEF IInv, NoGaps, TypeOK, Answers, PublishedInPast
  <2>2. \A b \in answer[t].articles : published'[b] = published[b]
    BY <1>1, <2>1
  <2>3. ASSUME NEW a \in Prompt, Covered(a, t)', published'[a] >= Since(t),
               \/ published'[a] < now
               \/ \E b \in answer[t].articles : published'[a] < published'[b]
        PROVE  a \in answer[t].articles
    <3>1. a # p
      <4> SUFFICES ASSUME a = p PROVE FALSE
        OBVIOUS
      <4>1. published'[a] = clock
        BY <1>1 DEF Prompt
      <4>2. ~(clock < now)
        BY <1>1
      <4>3. PICK b \in answer[t].articles : clock < published[b]
        BY <2>2, <2>3, <4>1, <4>2
      <4>4. published[b] \in Int
        BY <2>1 DEF IInv, TypeOK, Times
      <4> QED
        BY <1>1, <2>1, <4>3, <4>4
    <3>2. published'[a] = published[a] /\ Covered(a, t)
      BY <1>1, <2>3, <3>1 DEF Covered, Prompt
    <3> QED
      BY <2>2, <2>3, <3>2 DEF IInv, NoGaps
  <2> QED
    BY <2>1, <2>2, <2>3
<1>8. CursorPassesNothing'
  <2> SUFFICES ASSUME NEW a \in Prompt, NEW t \in Tickers, Covered(a, t)',
                      cursor[t] # Never, published'[a] < cursor[t]
               PROVE  Got(a) \/ published'[a] < now - Lookback
    BY DEF CursorPassesNothing, Got, Enqueued
  <2>1. cursor[t] \in Int /\ cursor[t] <= clock
    BY DEF IInv, TypeOK, Times, CursorInPast
  <2>2. a # p
    BY <1>1, <2>1 DEF Prompt
  <2>3. published'[a] = published[a] /\ Covered(a, t)
    BY <1>1, <2>2 DEF Covered, Prompt
  <2> QED
    BY <2>3 DEF IInv, CursorPassesNothing
<1>9. PollGets'
  <2> SUFFICES ASSUME feed = "yielding", NEW a \in Prompt, NEW t \in Tickers, Covered(a, t)',
                      answer[t].kind = "ok", published'[a] < now,
                      now <= published'[a] + Lookback
               PROVE  Got(a)
    BY DEF PollGets, Got, Enqueued
  <2>1. a # p
    BY <1>1 DEF Prompt
  <2>2. published'[a] = published[a] /\ Covered(a, t)
    BY <1>1, <2>1 DEF Covered, Prompt
  <2> QED
    BY <2>2 DEF IInv, PollGets
<1>10. PolledIsEnqueued'
  <2> SUFFICES ASSUME NEW a \in Articles \ Tardy, published'[a] # Never,
                      NEW t \in About[a], NEW then \in Times, <<t, then>> \in polled,
                      published'[a] < then, then <= published'[a] + Lookback
               PROVE  Enqueued(a)
    BY DEF PolledIsEnqueued, Enqueued
  <2>1. t \in Tickers
    OBVIOUS
  <2>2. then <= clock /\ then \in Int
    BY <2>1 DEF IInv, PolledInPast, Times
  <2>3. a # p
    BY <1>1, <2>2
  <2> QED
    BY <1>1, <2>3 DEF IInv, PolledIsEnqueued
<1> QED
  BY <1>2, <1>3, <1>4, <1>5, <1>6, <1>7, <1>8, <1>9, <1>10 DEF IInv

LEMMA ListIInv ==
  ASSUME IInv, NEW b \in Articles, NEW u \in Tickers, List(b, u)
  PROVE  IInv'
<1> USE FeedAssumption DEF List, memory
<1>1. TypeOK'
  BY DEF IInv, TypeOK
<1>2. PublishedInPast' /\ NowInPast' /\ CursorInPast' /\ PolledInPast'
  BY DEF IInv, PublishedInPast, NowInPast, CursorInPast, PolledInPast
<1>3. PromptlyListed'
  BY DEF IInv, PromptlyListed, Covered
<1>4. ListedPublished'
  BY DEF IInv, ListedPublished
<1>5. BatchOfThePoll' /\ OnlyGoodAnswers' /\ SeenEnqueued'
  BY DEF IInv, BatchOfThePoll, OnlyGoodAnswers, SeenEnqueued, Enqueued
<1>6. NoGaps'
  BY DEF IInv, NoGaps, Covered, Since
<1>7. CursorPassesNothing' /\ PollGets' /\ PolledIsEnqueued'
  BY DEF IInv, CursorPassesNothing, PollGets, PolledIsEnqueued, Covered, Got, Enqueued
<1> QED
  BY <1>1, <1>2, <1>3, <1>4, <1>5, <1>6, <1>7 DEF IInv

(* The source is gone: start, kill, or an enqueue that raises. *)
LEMMA ForgetIInv ==
  ASSUME IInv, Forget, feed' \in {"off", "asleep", "broken"},
         UNCHANGED <<provider, queue, polled>>
  PROVE  IInv'
<1> USE FeedAssumption DEF Forget, provider, NoItems, NoCursors, Pending
<1>1. TypeOK'
  BY DEF IInv, TypeOK, Answers, Times
<1>2. PublishedInPast' /\ NowInPast' /\ CursorInPast' /\ PolledInPast'
  BY DEF IInv, TypeOK, Times, PublishedInPast, NowInPast, CursorInPast, PolledInPast
<1>3. PromptlyListed' /\ ListedPublished'
  BY DEF IInv, PromptlyListed, ListedPublished, Covered
<1>4. BatchOfThePoll' /\ OnlyGoodAnswers' /\ SeenEnqueued'
  BY DEF BatchOfThePoll, OnlyGoodAnswers, SeenEnqueued
<1>5. NoGaps' /\ CursorPassesNothing' /\ PollGets'
  BY DEF NoGaps, CursorPassesNothing, PollGets
<1>6. PolledIsEnqueued'
  BY DEF IInv, PolledIsEnqueued, Enqueued
<1> QED
  BY <1>1, <1>2, <1>3, <1>4, <1>5, <1>6 DEF IInv

LEMMA BeginPollIInv ==
  ASSUME IInv, BeginPoll
  PROVE  IInv'
<1> USE FeedAssumption DEF BeginPoll, provider, Pending
<1>1. TypeOK'
  BY DEF IInv, TypeOK, Answers
<1>2. PublishedInPast' /\ NowInPast' /\ CursorInPast' /\ PolledInPast'
  BY DEF IInv, TypeOK, Times, PublishedInPast, NowInPast, CursorInPast, PolledInPast
<1>3. PromptlyListed' /\ ListedPublished'
  BY DEF IInv, PromptlyListed, ListedPublished, Covered
<1>4. BatchOfThePoll' /\ OnlyGoodAnswers' /\ SeenEnqueued'
  BY DEF IInv, BatchOfThePoll, OnlyGoodAnswers, SeenEnqueued, Enqueued
<1>5. NoGaps' /\ PollGets'
  BY DEF NoGaps, PollGets
<1>6. CursorPassesNothing'
  <2> SUFFICES ASSUME NEW a \in Prompt, NEW t \in Tickers, Covered(a, t),
                      cursor[t] # Never, published[a] < cursor[t]
               PROVE  Got(a) \/ published[a] < clock - Lookback
    BY DEF CursorPassesNothing, Covered, Got, Enqueued
  <2>1. now \in Int /\ clock \in Int /\ now <= clock /\ published[a] \in Int
    BY DEF IInv, TypeOK, Times, NowInPast, Covered, Prompt
  <2>2. Got(a) \/ published[a] < now - Lookback
    BY DEF IInv, CursorPassesNothing
  <2> QED
    BY <2>1, <2>2
<1>7. PolledIsEnqueued'
  BY DEF IInv, PolledIsEnqueued, Enqueued
<1> QED
  BY <1>1, <1>2, <1>3, <1>4, <1>5, <1>6, <1>7 DEF IInv

(* An answer is the listing as it stands: nothing prompt is missing. *)
LEMMA AnswerIInv ==
  ASSUME IInv, NEW u \in Tickers, Answer(u)
  PROVE  IInv'
<1> USE FeedAssumption DEF Answer, provider
<1>1. /\ Listing(u, Since(u)) \subseteq Articles
      /\ \A a \in Articles : a \in Listing(u, Since(u)) <=> <<a, u>> \in listed /\ published[a] >= Since(u)
  BY DEF Listing
<1>2. /\ answer'[u] = [kind |-> "ok", articles |-> Listing(u, Since(u))]
      /\ \A t \in Tickers : t # u => answer'[t] = answer[t]
  BY DEF IInv, TypeOK
<1>3. TypeOK'
  <2>1. [kind |-> "ok", articles |-> Listing(u, Since(u))] \in Answers
    BY <1>1 DEF Answers
  <2> QED
    BY <2>1 DEF IInv, TypeOK
<1>4. PublishedInPast' /\ NowInPast' /\ CursorInPast' /\ PolledInPast'
  BY DEF IInv, PublishedInPast, NowInPast, CursorInPast, PolledInPast
<1>5. PromptlyListed' /\ ListedPublished'
  BY DEF IInv, PromptlyListed, ListedPublished, Covered
<1>6. BatchOfThePoll' /\ SeenEnqueued'
  BY DEF IInv, BatchOfThePoll, SeenEnqueued, Enqueued
<1>7. OnlyGoodAnswers'
  BY <1>2 DEF IInv, OnlyGoodAnswers
<1>8. NoGaps'
  <2> SUFFICES ASSUME NEW t \in Tickers, answer'[t].kind = "ok"
               PROVE  /\ \A b \in answer'[t].articles : published[b] # Never
                      /\ \A a \in Prompt :
                           /\ Covered(a, t) /\ published[a] >= Since(t)
                           /\ \/ published[a] < now
                              \/ \E b \in answer'[t].articles : published[a] < published[b]
                           => a \in answer'[t].articles
    BY DEF NoGaps, Since, Covered
  <2>1. CASE t = u
    <3>1. answer'[t].articles = Listing(t, Since(t))
      BY <1>2, <2>1
    <3>2. \A b \in Listing(t, Since(t)) : published[b] # Never
      BY <1>1, <2>1 DEF IInv, ListedPublished
    <3>3. \A a \in Prompt : Covered(a, t) /\ published[a] >= Since(t) => a \in Listing(t, Since(t))
      BY <1>1, <2>1 DEF IInv, PromptlyListed, Prompt
    <3> QED
      BY <3>1, <3>2, <3>3
  <2>2. CASE t # u
    BY <1>2, <2>2 DEF IInv, NoGaps
  <2> QED
    BY <2>1, <2>2
<1>9. CursorPassesNothing' /\ PollGets' /\ PolledIsEnqueued'
  BY DEF IInv, CursorPassesNothing, PollGets, PolledIsEnqueued, Covered, Got, Enqueued
<1> QED
  BY <1>3, <1>4, <1>5, <1>6, <1>7, <1>8, <1>9 DEF IInv

LEMMA FetchFailsIInv ==
  ASSUME IInv, NEW u \in Tickers, FetchFails(u)
  PROVE  IInv'
<1> USE FeedAssumption DEF FetchFails, provider, Failed
<1>1. /\ answer'[u] = Failed
      /\ \A t \in Tickers : t # u => answer'[t] = answer[t]
  BY DEF IInv, TypeOK
<1>2. TypeOK'
  <2>1. Failed \in Answers
    BY DEF Answers
  <2> QED
    BY <2>1 DEF IInv, TypeOK
<1>3. PublishedInPast' /\ NowInPast' /\ CursorInPast' /\ PolledInPast'
  BY DEF IInv, PublishedInPast, NowInPast, CursorInPast, PolledInPast
<1>4. PromptlyListed' /\ ListedPublished'
  BY DEF IInv, PromptlyListed, ListedPublished, Covered
<1>5. BatchOfThePoll' /\ SeenEnqueued'
  BY DEF IInv, BatchOfThePoll, SeenEnqueued, Enqueued
<1>6. OnlyGoodAnswers'
  BY <1>1 DEF IInv, OnlyGoodAnswers
<1>7. NoGaps'
  BY <1>1 DEF IInv, NoGaps, Covered, Since
<1>8. CursorPassesNothing' /\ PollGets' /\ PolledIsEnqueued'
  BY DEF IInv, CursorPassesNothing, PollGets, PolledIsEnqueued, Covered, Got, Enqueued
<1> QED
  BY <1>2, <1>3, <1>4, <1>5, <1>6, <1>7, <1>8 DEF IInv

(* The cursors move, and nothing prompt falls between the old cursor and   *)
(* the new one.                                                            *)
LEMMA CollectIInv ==
  ASSUME IInv, Collect
  PROVE  IInv'
<1> USE FeedAssumption DEF Collect, provider
<1>1. /\ TypeOK /\ OnlyGoodAnswers /\ NoGaps /\ batch = NoItems
      /\ now \in Int /\ clock \in Int /\ Lookback \in Int /\ now <= clock
  BY DEF IInv, BatchOfThePoll, TypeOK, Times, NowInPast
<1>2. \A t \in Tickers : answer[t].kind = "ok" => \A b \in answer[t].articles : published[b] # Never
  BY <1>1 DEF NoGaps
<1>3. \A t \in Tickers :
        answer[t].kind = "ok" =>
          /\ Newest(t) \in Times \cup {Never}
          /\ Newest(t) # Never =>
               \/ Newest(t) = cursor[t]
               \/ \E b \in answer[t].articles : Newest(t) = published[b]
  BY <1>1, <1>2, NewestFacts
<1>4. \A t \in Tickers : cursor'[t] = IF answer[t].kind = "ok" THEN Newest(t) ELSE cursor[t]
  OBVIOUS
<1>5. \A a \in Articles : batch'[a] = {t \in Tickers : a \in answer[t].articles}
  OBVIOUS
<1>6. \A a \in Articles :
        published[a] # Never => published[a] \in Int /\ published[a] <= clock
  BY DEF IInv, TypeOK, Times, PublishedInPast
<1>7. \A t \in Tickers : cursor[t] # Never => cursor[t] \in Int
  BY <1>1 DEF TypeOK, Times
<1>8. TypeOK'
  <2>1. cursor' \in [Tickers -> Times \cup {Never}]
    BY <1>1, <1>3 DEF TypeOK
  <2>2. batch' \in [Articles -> SUBSET Tickers]
    BY Zenon
  <2> QED
    BY <1>1, <2>1, <2>2 DEF TypeOK
<1>9. CursorInPast'
  <2> SUFFICES ASSUME NEW t \in Tickers, cursor'[t] # Never PROVE cursor'[t] <= clock
    BY DEF CursorInPast
  <2>1. CASE cursor'[t] = cursor[t]
    BY <2>1 DEF IInv, CursorInPast
  <2>2. CASE cursor'[t] # cursor[t]
    <3>1. PICK b \in answer[t].articles : cursor'[t] = published[b]
      BY <1>3, <1>4, <2>2
    <3>2. b \in Articles
      BY <1>1 DEF TypeOK, Answers
    <3> QED
      BY <1>6, <3>1, <3>2
  <2> QED
    BY <2>1, <2>2
<1>10. PublishedInPast' /\ NowInPast' /\ PolledInPast'
  BY DEF IInv, PublishedInPast, NowInPast, PolledInPast
<1>11. PromptlyListed' /\ ListedPublished'
  BY DEF IInv, PromptlyListed, ListedPublished, Covered
<1>12. BatchOfThePoll' /\ OnlyGoodAnswers' /\ SeenEnqueued' /\ NoGaps'
  BY DEF IInv, BatchOfThePoll, OnlyGoodAnswers, SeenEnqueued, Enqueued, NoGaps
<1>13. \A a \in Articles : Got(a) => Got(a)'
  BY <1>1 DEF Got, Enqueued, NoItems
<1>14. ASSUME NEW a \in Prompt, NEW t \in Tickers, Covered(a, t), answer[t].kind = "ok",
              \/ published[a] < now
              \/ \E b \in answer[t].articles : published[a] < published[b]
       PROVE  Got(a)' \/ published[a] < now - Lookback
  <2>1. published[a] \in Int
    BY <1>6, <1>14 DEF Covered, Prompt
  <2>2. CASE published[a] >= Since(t)
    <3>1. a \in answer[t].articles
      BY <1>1, <1>14, <2>2 DEF NoGaps
    <3>2. t \in batch'[a]
      BY <1>5, <3>1 DEF Prompt
    <3> QED
      BY <3>2 DEF Got
  <2>3. CASE ~(published[a] >= Since(t)) /\ cursor[t] # Never
    <3>1. published[a] < cursor[t]
      BY <1>7, <2>1, <2>3 DEF Since
    <3>2. Got(a) \/ published[a] < now - Lookback
      BY <1>14, <2>3, <3>1 DEF IInv, CursorPassesNothing
    <3> QED
      BY <1>13, <3>2 DEF Prompt
  <2>4. CASE ~(published[a] >= Since(t)) /\ cursor[t] = Never
    BY <1>1, <2>1, <2>4 DEF Since
  <2> QED
    BY <2>2, <2>3, <2>4
<1>15. CursorPassesNothing'
  <2> SUFFICES ASSUME NEW a \in Prompt, NEW t \in Tickers, Covered(a, t),
                      cursor'[t] # Never, published[a] < cursor'[t]
               PROVE  Got(a)' \/ published[a] < now - Lookback
    BY DEF CursorPassesNothing, Covered
  <2>1. CASE cursor'[t] = cursor[t]
    <3>1. Got(a) \/ published[a] < now - Lookback
      BY <2>1 DEF IInv, CursorPassesNothing
    <3> QED
      BY <1>13, <3>1 DEF Prompt
  <2>2. CASE cursor'[t] # cursor[t]
    <3>1. answer[t].kind = "ok"
      BY <1>4, <2>2
    <3>2. \E b \in answer[t].articles : published[a] < published[b]
      BY <1>3, <1>4, <2>2, <3>1
    <3> QED
      BY <1>14, <3>1, <3>2
  <2> QED
    BY <2>1, <2>2
<1>16. PollGets'
  <2> SUFFICES ASSUME NEW a \in Prompt, NEW t \in Tickers, Covered(a, t), answer[t].kind = "ok",
                      published[a] < now, now <= published[a] + Lookback
               PROVE  Got(a)'
    BY DEF PollGets, Covered
  <2>1. Got(a)' \/ published[a] < now - Lookback
    BY <1>14
  <2>2. published[a] \in Int
    BY <1>6 DEF Covered, Prompt
  <2> QED
    BY <1>1, <2>1, <2>2
<1>17. PolledIsEnqueued'
  BY DEF IInv, PolledIsEnqueued, Enqueued
<1> QED
  BY <1>8, <1>9, <1>10, <1>11, <1>12, <1>15, <1>16, <1>17 DEF IInv

(* An item leaves the batch for the queue, or because it is there. *)
LEMMA YieldIInv ==
  ASSUME IInv, NEW y \in Articles, Yield(y)
  PROVE  IInv'
<1> USE FeedAssumption DEF Yield, provider
<1>1. /\ \A a \in Articles : batch'[a] = IF a = y THEN {} ELSE batch[a]
      /\ \A a \in Articles : a # y => queue'[a] = queue[a]
      /\ queue'[y] = IF y \notin seen /\ queue[y] = {} THEN batch[y] ELSE queue[y]
  BY DEF IInv, TypeOK
<1>2. TypeOK'
  BY DEF IInv, TypeOK
<1>3. Enqueued(y)'
  BY <1>1 DEF IInv, SeenEnqueued, Enqueued
<1>4. \A a \in Articles : /\ Enqueued(a) => Enqueued(a)'
                          /\ Got(a) => Got(a)'
  BY <1>1, <1>3 DEF Got, Enqueued
<1>5. PublishedInPast' /\ NowInPast' /\ CursorInPast' /\ PolledInPast'
  BY DEF IInv, PublishedInPast, NowInPast, CursorInPast, PolledInPast
<1>6. PromptlyListed' /\ ListedPublished'
  BY DEF IInv, PromptlyListed, ListedPublished, Covered
<1>7. BatchOfThePoll' /\ OnlyGoodAnswers'
  BY DEF IInv, BatchOfThePoll, OnlyGoodAnswers
<1>8. SeenEnqueued'
  BY <1>3, <1>4 DEF IInv, TypeOK, SeenEnqueued
<1>9. NoGaps'
  BY DEF IInv, NoGaps, Covered, Since
<1>10. CursorPassesNothing'
  <2> SUFFICES ASSUME NEW a \in Prompt, NEW t \in Tickers, Covered(a, t),
                      cursor[t] # Never, published[a] < cursor[t]
               PROVE  Got(a)' \/ published[a] < now - Lookback
    BY DEF CursorPassesNothing, Covered
  <2> QED
    BY <1>4 DEF IInv, CursorPassesNothing, Prompt
<1>11. PollGets'
  <2> SUFFICES ASSUME NEW a \in Prompt, NEW t \in Tickers, Covered(a, t), answer[t].kind = "ok",
                      published[a] < now, now <= published[a] + Lookback
               PROVE  Got(a)'
    BY DEF PollGets, Covered
  <2> QED
    BY <1>4 DEF IInv, PollGets, Prompt
<1>12. PolledIsEnqueued'
  BY <1>4 DEF IInv, PolledIsEnqueued
<1> QED
  BY <1>2, <1>5, <1>6, <1>7, <1>8, <1>9, <1>10, <1>11, <1>12 DEF IInv

(* The batch is empty: what the poll promised is in the queue. *)
LEMMA EndPollIInv ==
  ASSUME IInv, EndPoll
  PROVE  IInv'
<1> USE FeedAssumption DEF EndPoll, provider
<1> DEFINE ended == {<<t, now>> : t \in {x \in Tickers : answer[x].kind = "ok"}}
<1>1. now \in Times /\ now <= clock /\ polled \subseteq Tickers \X Times
  BY DEF IInv, TypeOK, NowInPast
<1>2. \A t \in Tickers, then \in Times :
        <<t, then>> \in polled' <=> <<t, then>> \in polled \/ (answer[t].kind = "ok" /\ then = now)
  BY <1>1
<1>3. TypeOK'
  <2>1. ended \subseteq Tickers \X Times
    BY <1>1
  <2> QED
    BY <2>1 DEF IInv, TypeOK
<1>4. PublishedInPast' /\ NowInPast' /\ CursorInPast'
  BY DEF IInv, PublishedInPast, NowInPast, CursorInPast
<1>5. PolledInPast'
  BY <1>1, <1>2 DEF IInv, PolledInPast
<1>6. PromptlyListed' /\ ListedPublished'
  BY DEF IInv, PromptlyListed, ListedPublished, Covered
<1>7. BatchOfThePoll' /\ OnlyGoodAnswers' /\ SeenEnqueued'
  BY DEF IInv, BatchOfThePoll, OnlyGoodAnswers, SeenEnqueued, Enqueued
<1>8. NoGaps' /\ PollGets'
  BY DEF NoGaps, PollGets
<1>9. CursorPassesNothing'
  BY DEF IInv, CursorPassesNothing, Covered, Got, Enqueued
<1>10. PolledIsEnqueued'
  <2> SUFFICES ASSUME NEW a \in Articles \ Tardy, published[a] # Never,
                      NEW t \in About[a], NEW then \in Times, <<t, then>> \in polled',
                      published[a] < then, then <= published[a] + Lookback
               PROVE  Enqueued(a)
    BY DEF PolledIsEnqueued, Enqueued
  <2>1. t \in Tickers
    OBVIOUS
  <2>2. CASE <<t, then>> \in polled
    BY <2>2 DEF IInv, PolledIsEnqueued
  <2>3. CASE answer[t].kind = "ok" /\ then = now
    <3>1. Got(a)
      BY <2>1, <2>3 DEF IInv, PollGets, Covered, Prompt
    <3> QED
      BY <3>1 DEF Got, NoItems
  <2> QED
    BY <1>2, <2>1, <2>2, <2>3
<1> QED
  BY <1>3, <1>4, <1>5, <1>6, <1>7, <1>8, <1>9, <1>10 DEF IInv

LEMMA StutterIInv ==
  ASSUME IInv, UNCHANGED vars
  PROVE  IInv'
<1> USE DEF vars, provider, memory
<1>1. TypeOK' /\ PublishedInPast' /\ NowInPast' /\ CursorInPast' /\ PolledInPast'
  BY DEF IInv, TypeOK, PublishedInPast, NowInPast, CursorInPast, PolledInPast
<1>2. PromptlyListed' /\ ListedPublished' /\ BatchOfThePoll' /\ OnlyGoodAnswers' /\ SeenEnqueued'
  BY DEF IInv, PromptlyListed, ListedPublished, Covered, BatchOfThePoll, OnlyGoodAnswers,
         SeenEnqueued, Enqueued
<1>3. NoGaps' /\ CursorPassesNothing' /\ PollGets' /\ PolledIsEnqueued'
  BY DEF IInv, NoGaps, Covered, Since, CursorPassesNothing, PollGets, PolledIsEnqueued, Got, Enqueued
<1> QED
  BY <1>1, <1>2, <1>3 DEF IInv

LEMMA NextIInv == IInv /\ [Next]_vars => IInv'
<1> SUFFICES ASSUME IInv, [Next]_vars PROVE IInv'
  OBVIOUS
<1>1. CASE Tick
  BY <1>1, TickIInv
<1>2. ASSUME NEW a \in Articles, Publish(a) PROVE IInv'
  BY <1>2, PublishIInv
<1>3. ASSUME NEW a \in Articles, NEW t \in Tickers, List(a, t) PROVE IInv'
  BY <1>3, ListIInv
<1>4. CASE Start
  BY <1>4, ForgetIInv DEF Start
<1>5. CASE Kill
  BY <1>5, ForgetIInv DEF Kill
<1>6. ASSUME NEW a \in Articles, EnqueueRaises(a) PROVE IInv'
  BY <1>6, ForgetIInv DEF EnqueueRaises
<1>7. CASE BeginPoll
  BY <1>7, BeginPollIInv
<1>8. ASSUME NEW t \in Tickers, Answer(t) PROVE IInv'
  BY <1>8, AnswerIInv
<1>9. ASSUME NEW t \in Tickers, FetchFails(t) PROVE IInv'
  BY <1>9, FetchFailsIInv
<1>10. CASE Collect
  BY <1>10, CollectIInv
<1>11. ASSUME NEW a \in Articles, Yield(a) PROVE IInv'
  BY <1>11, YieldIInv
<1>12. CASE EndPoll
  BY <1>12, EndPollIInv
<1>13. CASE UNCHANGED vars
  BY <1>13, StutterIInv
<1> QED
  BY <1>1, <1>2, <1>3, <1>4, <1>5, <1>6, <1>7, <1>8, <1>9, <1>10, <1>11, <1>12, <1>13
     DEF Next, FeedStep

-----------------------------------------------------------------------------
(***************************************************************************)
(* The theorems                                                            *)
(***************************************************************************)

(* massive_rest.py:126-170 and service/main.py's feed_task keep the state  *)
(* they are modelled with, and every inductive fact of this module.        *)
THEOREM FeedInvariant == Spec => []IInv
<1> QED
  BY InitIInv, NextIInv, PTL DEF Spec

(* massive_rest.py's cursors, _seen_urls and merged answers, and the queue *)
(* they lead to, have their types in every state.                          *)
THEOREM FeedTypes == Spec => []TypeOK
<1>1. IInv => TypeOK
  BY DEF IInv
<1> QED
  BY <1>1, FeedInvariant, PTL

(* massive_rest.py:126-165: one poll that ended well after an article's    *)
(* publication, and within the look-back, is enough for a prompt article   *)
(* to be enqueued, however many polls failed and processes died before it. *)
THEOREM NothingPromptIsMissed == Spec => []PolledIsEnqueued
<1>1. IInv => PolledIsEnqueued
  BY DEF IInv
<1> QED
  BY <1>1, FeedInvariant, PTL
=============================================================================
