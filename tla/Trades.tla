------------------------------- MODULE Trades -------------------------------
(***************************************************************************)
(* The buy-the-news simulation of research/ticker_scan.py, the catalyst    *)
(* returns computed with it, and research/backtest.py, which replays the   *)
(* stored verdicts with it.                                                *)
(*                                                                         *)
(* A day has four minutes: one before the open, one in the regular         *)
(* session, one after the 16:00 close, one in the night.  Publication      *)
(* times have half minutes.  A bar is its minute and its open price.       *)
(***************************************************************************)
EXTENDS Question

CloseMinute == 2                    \* market_data.REGULAR_CLOSE within the day
DayOfMinute(t) == t \div 4
InDay(t) == t % 4
PRICE_TAIL_DAYS == 1                \* bound: 7 in the code
MinuteOf(at) == at \div 2
PublishedDay(a) == DayOfMinute(MinuteOf(a.at))

SessionOf(t) == <<"premarket", "regular", "after_hours", "closed">>[InDay(t) + 1]

(* fetch_prices for the days lo..hi: the minute bars and the daily closes.  *)
Prices(q, ticker, lo, hi) ==
  [bars  |-> {b \in q.bars : b.ticker = ticker /\ DayOfMinute(b.t) \in lo..hi},
   close |-> {c \in q.closes : c.ticker = ticker /\ c.day \in lo..hi}]

Earliest(S) == CHOOSE x \in S : \A y \in S : x <= y

(* Mutant of NextTradingDay: bisect_left, the day itself counts.            *)
SameTradingDay(p, day) == {c.day : c \in {d \in p.close : d.day >= day}}

(* The trading days after this one. *)
NextTradingDay(p, day) == {c.day : c \in {d \in p.close : d.day > day}}

NoTrade == [traded |-> FALSE]

(* Buy at the first bar at or after the headline's minute, sell at the     *)
(* close of that day or, after the close, of the next trading day.         *)
Simulate(a, p, includeAfterHours) ==
  LET later == {b.t : b \in {x \in p.bars : x.t >= MinuteOf(a.at)}}
      buy == CHOOSE b \in p.bars : b.t = Earliest(later)
      sellDays == IF InDay(buy.t) < CloseMinute THEN {DayOfMinute(buy.t)}
                  ELSE IF includeAfterHours THEN NextTradingDay(p, DayOfMinute(buy.t)) ELSE {}
      sold == {c \in p.close : sellDays # {} /\ c.day = Earliest(sellDays)}
  IN IF later = {} \/ buy.open <= 0 \/ sold = {} THEN NoTrade
     ELSE [traded |-> TRUE, buy |-> buy.t, sellDay |-> Earliest(sellDays),
           session |-> SessionOf(buy.t),
           gain |-> (CHOOSE c \in sold : TRUE).price - buy.open]

-----------------------------------------------------------------------------
(* Catalyst returns: one pair per article and ticker it is traded for.     *)

Pairs(q) == {pair \in q.articles \X q.tickers :
               \/ pair[2] = pair[1].primary
               \/ q.allTickers /\ pair[2] \in pair[1].more}

CatalystRun(q) ==
  {[article |-> pair[1], ticker |-> pair[2],
    role |-> IF pair[2] = pair[1].primary THEN "primary" ELSE "mentioned",
    trade |-> Simulate(pair[1], Prices(q, pair[2], q.start, q.end + PRICE_TAIL_DAYS),
                       q.includeAfterHours)] :
   pair \in {x \in Pairs(q) : /\ x[2] \notin q.failed
                              /\ PublishedDay(x[1]) \in q.start..q.end}}

CatalystRows(q) == {r \in CatalystRun(q) : r.trade.traded}

-----------------------------------------------------------------------------
(* The backtest of verdicts, in the order of their publication.            *)

ToPrice(q) == {i \in DOMAIN q.verdicts : q.includeHold \/ q.verdicts[i].action # "hold"}

(* Mutant of PriceWindow: the first verdict of the ticker sets the window.  *)
PriceWindowOfFirst(q, ticker) ==
  LET first == Earliest({i \in ToPrice(q) : q.verdicts[i].ticker = ticker})
  IN {PublishedDay(q.verdicts[first])}

(* The days on which a ticker's verdicts were published: one fetch spans   *)
(* them.                                                                    *)
PriceWindow(q, ticker) ==
  {PublishedDay(q.verdicts[i]) : i \in {j \in ToPrice(q) : q.verdicts[j].ticker = ticker}}

FetchedPrices(q, ticker) ==
  LET days == PriceWindow(q, ticker)
      last == CHOOSE d \in days : \A e \in days : e <= d
  IN Prices(q, ticker, Earliest(days), last + PRICE_TAIL_DAYS)

Result(v, trade, reason) ==
  [verdict |-> v, trade |-> trade, skipped |-> reason,
   signed |-> IF ~trade.traded \/ v.action = "hold" THEN <<>>
              ELSE IF v.action = "buy" THEN <<trade.gain>> ELSE <<-trade.gain>>]

EvaluateOne(q, v) ==
  IF v.action = "hold" /\ ~q.includeHold THEN Result(v, NoTrade, "hold")
  ELSE IF v.ticker \in q.failed THEN Result(v, NoTrade, "no_prices")
  ELSE LET trade == Simulate(v, FetchedPrices(q, v.ticker), FALSE)
       IN Result(v, trade, IF trade.traded THEN "no"
                           ELSE IF InDay(MinuteOf(v.at)) >= CloseMinute
                                THEN "after_hours" ELSE "no_prices")

Evaluate(q) == [i \in DOMAIN q.verdicts |-> EvaluateOne(q, q.verdicts[i])]

(* Mutant of Bucket: the middle bucket has a strict lower edge.             *)
BucketWithGap(confidence) ==
  CASE confidence >= 85 -> "high" [] confidence > 70 /\ confidence < 85 -> "middle"
    [] confidence < 70 -> "low" [] OTHER -> "none"

Bucket(confidence) ==
  CASE confidence >= 85 -> "high"
    [] confidence >= 70 /\ confidence < 85 -> "middle"
    [] OTHER -> "low"

Stats(rows) ==
  LET signed == Filtered(rows, LAMBDA r : r.signed # <<>>)
  IN [n      |-> Len(rows),
      scored |-> Len(signed),
      wins   |-> Cardinality(Positions(signed, LAMBDA r : r.signed[1] > 0)),
      total  |-> SumOf([i \in DOMAIN signed |-> signed[i].signed[1]])]

Summarize(results) ==
  LET evaluated == Filtered(results, LAMBDA r : r.skipped = "no")
  IN [total   |-> Len(results),
      skipped |-> [reason \in {"hold", "after_hours", "no_prices"} |->
                     Cardinality(Positions(results, LAMBDA r : r.skipped = reason))],
      overall |-> Stats(evaluated),
      byAction |-> [x \in {"buy", "sell", "hold"} |->
                      Stats(Filtered(evaluated, LAMBDA r : r.verdict.action = x))],
      byConfidence |-> [x \in {"high", "middle", "low"} |->
                          Stats(Filtered(evaluated, LAMBDA r : Bucket(r.verdict.confidence) = x))]]

-----------------------------------------------------------------------------
(* Bounds: two tickers, five days, up to two minute bars of one ticker,    *)
(* two verdicts.                                                            *)

Headlines == {1, 2, 4, 13, 20}
EarlyHeadlines == {1, 2, 4}

Minutes == {0, 1, 2, 5, 6, 9, 13}
Failures == {{}, {"A"}}
QuietDays == {{}, {1}}
Calls == {"buy", "sell", "hold"}

StoredVerdict(action, at, confidence) ==
  [ticker |-> "A", action |-> action, at |-> at, confidence |-> confidence]
ClosesOf(tickers, days) ==
  {[ticker |-> pair[1], day |-> pair[2], price |-> 1] : pair \in tickers \X days}

BacktestQuestion(v1, v2, t1, t2, hold, failed, quiet) ==
  [of |-> "backtest", includeHold |-> hold, failed |-> failed, verdicts |-> <<v1, v2>>,
   bars |-> {[ticker |-> "A", t |-> t, open |-> t % 3] : t \in {t1, t2}},
   closes |-> ClosesOf({"A"}, (0..4) \ quiet)]

AskBacktest ==
  /\ Asked("nobody")
  /\ \E at1 \in EarlyHeadlines, at2 \in Headlines, act1, act2 \in Calls, t1, t2 \in Minutes,
        hold \in BOOLEAN, failed \in Failures, quiet \in QuietDays :
       /\ at1 <= at2 /\ t1 <= t2
       /\ question' = BacktestQuestion(StoredVerdict(act1, at1, 70), StoredVerdict(act2, at2, 85),
                                       t1, t2, hold, failed, quiet)

CatalystQuestion(at, t1, t2, t3, late, all, quiet, failed) ==
  [of |-> "catalysts", start |-> 0, end |-> 1, includeAfterHours |-> late,
   allTickers |-> all, tickers |-> {"A", "B"}, failed |-> failed,
   articles |-> {[id |-> 1, primary |-> "A", more |-> {"B"}, at |-> at]},
   bars |-> {[ticker |-> "A", t |-> t, open |-> 1] : t \in {t1, t2}}
              \cup {[ticker |-> "B", t |-> t3, open |-> 2]},
   closes |-> ClosesOf({"A", "B"}, (0..4) \ quiet)]

AskCatalysts ==
  /\ Asked("nobody")
  /\ \E at \in Headlines, t1, t2, t3 \in Minutes \ {13}, late, all \in BOOLEAN,
        quiet \in QuietDays, failed \in Failures :
       /\ t1 <= t2
       /\ question' = CatalystQuestion(at, t1, t2, t3, late, all, quiet, failed)

-----------------------------------------------------------------------------
(* No verdict is dropped silently: each has a row, in its place, that is   *)
(* either traded or skipped for one reason, and the counts by reason, by   *)
(* action and by confidence each add up to all of them.                    *)
EveryVerdictCounted ==
  Asked("backtest") =>
    LET rows == Evaluate(question)
        sum == Summarize(rows)
        AddUp(f) == SumOf([i \in 1..3 |-> f[SetToSeq(DOMAIN f)[i]]])
    IN /\ \A i \in DOMAIN rows : /\ rows[i].verdict = question.verdicts[i]
                                 /\ (rows[i].skipped = "no") <=> rows[i].trade.traded
       /\ sum.total = sum.overall.n + AddUp(sum.skipped)
       /\ sum.overall.n = AddUp([x \in DOMAIN sum.byAction |-> sum.byAction[x].n])
       /\ sum.overall.n = AddUp([x \in DOMAIN sum.byConfidence |-> sum.byConfidence[x].n])
       /\ sum.overall.total = sum.byAction["buy"].total + sum.byAction["sell"].total
       /\ sum.byAction["hold"].scored = 0

(* What a verdict returned does not depend on the other verdicts of the    *)
(* backtest, which share one price fetch per ticker, as long as the ticker *)
(* trades again within the tail that the code fetches after a publication. *)
ScoredAlike ==
  Asked("backtest") =>
    \A i \in DOMAIN question.verdicts :
      LET v == question.verdicts[i]
          alone == [question EXCEPT !.verdicts = <<v>>]
      IN (\E b \in question.bars :
            /\ b.ticker = v.ticker /\ b.t >= MinuteOf(v.at)
            /\ DayOfMinute(b.t) <= PublishedDay(v) + PRICE_TAIL_DAYS)
         => EvaluateOne(question, v) = EvaluateOne(alone, v)

(* Every position, of the backtest and of the catalyst returns, is opened  *)
(* no earlier than the headline's minute and closed later: at the 16:00    *)
(* close of a trading day that had not closed when it was opened.          *)
ExitFollowsEntry ==
  /\ Asked("backtest") =>
       \A i \in DOMAIN question.verdicts :
         LET r == EvaluateOne(question, question.verdicts[i])
         IN r.trade.traded => /\ r.trade.buy >= MinuteOf(r.verdict.at)
                              /\ 4 * r.trade.sellDay + CloseMinute > r.trade.buy
  /\ Asked("catalysts") =>
       \A r \in CatalystRows(question) :
         /\ r.trade.buy >= MinuteOf(r.article.at)
         /\ 4 * r.trade.sellDay + CloseMinute > r.trade.buy

=============================================================================
