----------------------------- MODULE TickerScan -----------------------------
(***************************************************************************)
(* research/ticker_scan.py: the days on which a ticker moved while the     *)
(* index was calm, and the articles that may explain them.                 *)
(*                                                                         *)
(* A bar is its minute, four to a day as in the trades, and its open,      *)
(* high, low and close.  An article is its day, whether it came after the  *)
(* close, and the tickers it touches.                                      *)
(***************************************************************************)
EXTENDS Question

BarDay(b) == b.t \div 4

(* Mutant of UpdateRange: a low that is reached again moves to the later    *)
(* bar.                                                                     *)
UpdateRangeToLatest(r, b) ==
  [low  |-> IF b.low <= r.low THEN b.low ELSE r.low,
   lowAt |-> IF b.low <= r.low THEN b.t ELSE r.lowAt,
   high |-> IF b.high > r.high THEN b.high ELSE r.high,
   highAt |-> IF b.high > r.high THEN b.t ELSE r.highAt,
   open |-> IF b.t < r.first THEN b.open ELSE r.open,
   first |-> IF b.t < r.first THEN b.t ELSE r.first,
   close |-> IF b.t > r.last THEN b.close ELSE r.close,
   last |-> IF b.t > r.last THEN b.t ELSE r.last]

UpdateRange(r, b) ==
  [low  |-> IF b.low < r.low THEN b.low ELSE r.low,
   lowAt |-> IF b.low < r.low THEN b.t ELSE r.lowAt,
   high |-> IF b.high > r.high THEN b.high ELSE r.high,
   highAt |-> IF b.high > r.high THEN b.t ELSE r.highAt,
   open |-> IF b.t < r.first THEN b.open ELSE r.open,
   first |-> IF b.t < r.first THEN b.t ELSE r.first,
   close |-> IF b.t > r.last THEN b.close ELSE r.close,
   last |-> IF b.t > r.last THEN b.t ELSE r.last]

FirstRange(b) ==
  [low |-> b.low, lowAt |-> b.t, high |-> b.high, highAt |-> b.t,
   open |-> b.open, first |-> b.t, close |-> b.close, last |-> b.t]

(* One range per day, over the day's bars in the order they were sent. *)
DailyRange(bars, day) ==
  LET mine == Filtered(bars, LAMBDA b : BarDay(b) = day)
  IN FoldLeft(UpdateRange, FirstRange(mine[1]), mine)

DaysOf(bars) == {BarDay(bars[i]) : i \in DOMAIN bars}

Moved(low, high, percent) == low > 0 /\ (high - low) * 100 >= percent * low

Direction(r) == IF r.lowAt <= r.highAt THEN "up" ELSE "down"

ScanTicker(q, ticker) ==
  {[day |-> d, ticker |-> ticker, range |-> DailyRange(q.bars[ticker], d)] :
   d \in {e \in DaysOf(q.bars[ticker]) :
            LET r == DailyRange(q.bars[ticker], e) IN Moved(r.low, r.high, q.threshold)}}

(* The index on the flagged days; nothing when the index cannot be read.   *)
IndexRanges(q, days) ==
  [d \in {e \in days : ~q.indexFails /\ e \in DOMAIN q.index} |-> q.index[d]]

(* round(rng, 2), in hundredths of a percent: halves go to the even one. *)
RangePercent(low, high) ==
  LET exact == (high - low) * 10000
      down == exact \div low
      twice == 2 * (exact % low)
  IN IF twice > low \/ (twice = low /\ down % 2 = 1) THEN down + 1 ELSE down

FlaggedRows(q) == UNION {ScanTicker(q, tk) : tk \in DOMAIN q.bars \ q.failed}

(* Mutant of Scan: nas_threshold is not applied.                            *)
ScanOnAnyDay(q) ==
  LET rows == FlaggedRows(q)
      idx == IndexRanges(q, {r.day : r \in rows})
  IN {r \in rows : r.day \in DOMAIN idx /\ idx[r.day].low > 0}

(* The flagged days of the tickers that could be read, on which the index  *)
(* moved less than nas_threshold once its range is rounded.                *)
Scan(q) ==
  LET rows == FlaggedRows(q)
      idx == IndexRanges(q, {r.day : r \in rows})
  IN {r \in rows : /\ r.day \in DOMAIN idx /\ idx[r.day].low > 0
                   /\ RangePercent(idx[r.day].low, idx[r.day].high) < q.calm}

-----------------------------------------------------------------------------
(* Articles under every ticker they touch: on their own day and, when they *)
(* came after the close, on the next calendar day.  (The comment beside    *)
(* the code says the next trading day; the code adds one day, so that what *)
(* comes out on a Friday evening is filed under Saturday.)                 *)

Touched(a, tickers) == ({a.primary} \cup a.more) \cap tickers

IndexArticles(records, tickers) ==
  LET same == UNION {{[ticker |-> tk, day |-> a.day, article |-> a.id, when |-> "same-day"] :
                        tk \in Touched(a, tickers)} : a \in records}
      late == UNION {{[ticker |-> tk, day |-> a.day + 1, article |-> a.id,
                       when |-> "prev-after-hours"] :
                        tk \in Touched(a, tickers)} : a \in {x \in records : x.afterHours}}
  IN same \cup late

(* The window is widened by a day for the after-hours news before it. *)
FetchArticles(q, tickers, start, end) ==
  {a \in q.articles : a.day \in (start - 1)..end /\ Touched(a, tickers) # {}}

Attach(q, rows) ==
  LET tickers == {r.ticker : r \in rows}
      days == {r.day : r \in rows}
      start == CHOOSE d \in days : \A e \in days : d <= e
      end == CHOOSE d \in days : \A e \in days : e <= d
      byDay == IndexArticles(FetchArticles(q, tickers, start, end), tickers)
  IN [r \in rows |-> {[article |-> x.article, when |-> x.when] :
                        x \in {y \in byDay : y.ticker = r.ticker /\ y.day = r.day}}]

-----------------------------------------------------------------------------
(* Bounds: three bars of one ticker on two days in any order the service   *)
(* may send them, one of another ticker, an index of two days - calm, not  *)
(* calm, or calm only before it is rounded - and two articles.             *)

Bar(t, low, high) == [t |-> t, low |-> low, high |-> high, open |-> low, close |-> high]

AskScan ==
  /\ Asked("nobody")
  /\ \E t1 \in {4, 5}, t2 \in {6, 7}, t3 \in {6, 9}, l1, l2, l3 \in {0, 10, 20},
        h1, h2 \in {20, 21}, fails \in BOOLEAN, failed \in {{}, {"B"}},
        index \in {[d \in {1, 2} |-> [low |-> 1505, high |-> 1519 + 2 * d]],
                   [d \in {1, 2} |-> [low |-> 1505, high |-> 1526 - d]],
                   [d \in {2} |-> [low |-> 1505, high |-> 1505]]},
        day1 \in 0..2, late1, late2 \in BOOLEAN :
       /\ t2 # t3 /\ (fails => DOMAIN index = {2})
       /\ question' =
            [of |-> "scan", threshold |-> 5, calm |-> 120, failed |-> failed, indexFails |-> fails,
             index |-> index,
             bars |-> [A |-> <<Bar(t1, l1, h1), Bar(t2, l2, h2), Bar(t3, l3, 21)>>,
                       B |-> <<Bar(6, 10, 20)>>],
             articles |-> {[id |-> 1, day |-> day1, afterHours |-> late1, primary |-> "A",
                            more |-> {"B"}],
                           [id |-> 2, day |-> 1, afterHours |-> late2, primary |-> "C",
                            more |-> {"A"}]}]

-----------------------------------------------------------------------------
(* The range of a day is that of its bars, in whatever order they arrive:  *)
(* the extremes are reached, the open and close are those of the first and *)
(* last bar, and with bars in time order the swing is "up" exactly when    *)
(* the low was first reached no later than the high.                       *)
RangeOfTheDay ==
  Asked("scan") =>
    \A tk \in DOMAIN question.bars : \A d \in DaysOf(question.bars[tk]) :
      LET bars == question.bars[tk]
          mine == {b \in ToSet(bars) : BarDay(b) = d}
          r == DailyRange(bars, d)
          inOrder == \A i, j \in DOMAIN bars : i < j => bars[i].t <= bars[j].t
          First(S) == CHOOSE b \in S : \A c \in S : b.t <= c.t
          Latest(S) == CHOOSE b \in S : \A c \in S : c.t <= b.t
          lows == {b \in mine : \A c \in mine : b.low <= c.low}
          highs == {b \in mine : \A c \in mine : b.high >= c.high}
      IN /\ r.low = First(lows).low /\ r.high = First(highs).high
         /\ r.open = First(mine).open /\ r.close = Latest(mine).close
         /\ inOrder => (Direction(r) = "up" <=> First(lows).t <= First(highs).t)

MovedLess(bar, calm) == (bar.high - bar.low) * 10000 < calm * bar.low

(* Every day of the scan was calm, and is explained from all of the        *)
(* corpus: by an index bar that exists, the index moved by less than       *)
(* nas_threshold - also before rounding -, and the day carries exactly the *)
(* articles of its ticker published that day, or after hours on the        *)
(* calendar day before, although articles are fetched once for the whole   *)
(* span.                                                                   *)
NewsOfTheDay ==
  Asked("scan") /\ Scan(question) # {} =>
    LET rows == Scan(question)
        attached == Attach(question, rows)
    IN \A r \in rows :
         /\ r.day \in DOMAIN question.index /\ ~question.indexFails
         /\ MovedLess(question.index[r.day], question.calm)
         /\ {x.article : x \in attached[r]} =
              {a.id : a \in {b \in question.articles :
                               /\ r.ticker \in {b.primary} \cup b.more
                               /\ b.day = r.day \/ (b.afterHours /\ b.day = r.day - 1)}}

=============================================================================
