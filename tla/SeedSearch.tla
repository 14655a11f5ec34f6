----------------------------- MODULE SeedSearch -----------------------------
(***************************************************************************)
(* research/search.py and research/insight_search.py: the two semantic     *)
(* searches, over articles and over insight boxes, free or anchored at a   *)
(* seed article.                                                           *)
(*                                                                         *)
(* Time is counted in half days, a month is two days.  A bound is <<>>     *)
(* when it is open.  An article is the time it was published, whether the  *)
(* ticker, segment and domain options select it, and its similarity to the *)
(* query; a box has a similarity to each embedded box of the seed.         *)
(***************************************************************************)
EXTENDS Question

Seed == 1
Undated == -1
Month == 4
DayOf(t) == t \div 2

HasSeed(q) == q.seed # "none"

(* What run_cli refuses, of both commands. *)
RefusedOptions(q) ==
  \/ ~HasSeed(q) /\ q.months # <<>>
  \/ /\ q.command = "search"
     /\ ~HasSeed(q) /\ (q.text \in {"nothing", "statement", "broken file"})
  \/ q.text = "broken file"
  \/ /\ q.command = "insights"
     /\ ~HasSeed(q) /\ (q.text = "nothing" \/ q.exclusive \/ q.perInsight \/ q.top # <<>>)

(* Whether the seed's own date sets the window. *)
Anchored(q) ==
  HasSeed(q) /\ \/ q.months # <<>>
                \/ q.command = "search" /\ q.text = "statement"
                \/ q.command = "insights" /\ q.exclusive

RowOf(q, id) == CHOOSE a \in q.articles : a.id = id

(* The seed is not there, has no date to anchor at, or has no vector to    *)
(* search with.                                                            *)
Refused(q) ==
  \/ RefusedOptions(q)
  \/ HasSeed(q) /\ \/ q.seed = "missing"
                   \/ Anchored(q) /\ RowOf(q, Seed).at = Undated
                   \/ q.command = "search" /\ q.text # "statement" /\ ~q.seedVector

(* Mutant of SeedWindow: the exact upper bound is taken for a whole day.    *)
SeedWindowByDay(at, months, exclusive) ==
  [since |-> IF months = <<>> THEN <<>> ELSE <<(2 * DayOf(at)) - Month * months[1]>>,
   until |-> <<[at |-> (2 * DayOf(at)) + 2, dateOnly |-> TRUE]>>]

SeedWindow(at, months, exclusive) ==
  LET anchor == IF exclusive THEN at ELSE 2 * DayOf(at)
  IN [since |-> IF months = <<>> THEN <<>> ELSE <<anchor - Month * months[1]>>,
      until |-> <<[at |-> anchor, dateOnly |-> ~exclusive]>>]

Window(q) ==
  IF Anchored(q) THEN SeedWindow(RowOf(q, Seed).at, q.months, q.exclusive)
  ELSE [since |-> q.since, until |-> q.until]

(* build_filters: the WHERE clauses of both searches. *)
BuildFilters(q, w, exclude, a) ==
  /\ a.id # exclude /\ a.selected
  /\ w.since # <<>> => a.at # Undated /\ a.at >= w.since[1]
  /\ w.until # <<>> =>
       /\ a.at # Undated
       /\ CASE q.exclusive                          -> a.at < w.until[1].at
            [] ~q.exclusive /\ w.until[1].dateOnly  -> a.at < w.until[1].at + 2
            [] OTHER                                -> a.at <= w.until[1].at

ByScore(rows, Score(_)) == Ordered(rows, LAMBDA x, y :
  Score(x) > Score(y) \/ (Score(x) = Score(y) /\ x.id < y.id))

NearestArticles(rows) == ByScore(rows, LAMBDA a : a.sim)
NearestBoxes(rows, s) == ByScore(rows, LAMBDA b : b.sim[s])

(* Mutant of RunSearch: a row exactly at the floor is dropped.              *)
RunSearchAboveFloor(q, exclude) ==
  Filtered(FirstN(NearestArticles({a \in q.articles :
                    BuildFilters(q, Window(q), exclude, a)}), q.k),
           LAMBDA a : a.sim > q.floor)

(* The k nearest rows, and of those the ones above the floor. *)
RunSearch(q, exclude) ==
  Filtered(FirstN(NearestArticles({a \in q.articles :
                    BuildFilters(q, Window(q), exclude, a)}), q.k),
           LAMBDA a : a.sim >= q.floor)

(* A statement or a text is compared with every article, a seed with every *)
(* other one.                                                               *)
Search(q) ==
  RunSearch(q, IF HasSeed(q) /\ q.text # "statement" THEN Seed ELSE 0)

(* The same for boxes, which are compared with box s of the seed. *)
RunInsightSearch(q, exclude, s) ==
  LET rows == {b \in q.boxes : BuildFilters(q, Window(q), exclude, RowOf(q, b.article))}
      hits == Filtered(FirstN(NearestBoxes(rows, s), q.k), LAMBDA b : b.sim[s] >= q.floor)
  IN [i \in DOMAIN hits |-> [article |-> hits[i].article, sim |-> hits[i].sim[s]]]

(* One group of hits per embedded box of the seed, its own boxes left out. *)
SearchByInsights(q) ==
  [s \in 1..q.seedBoxes |-> RunInsightSearch(q, Seed, s)]

(* Mutant of BestForSeed: every hit of the seed's box counts.               *)
EveryHitOfSeed(hits) == ToSet(hits)

(* An article counts once per box of the seed, with its best hit. *)
BestForSeed(hits) ==
  {h \in ToSet(hits) : \A o \in ToSet(hits) : o.article = h.article => o.sim <= h.sim}

Merge(agg, hit) ==
  LET old == {r \in agg : r.article = hit.article}
  IN (agg \ old) \cup
       IF old = {} THEN {[article |-> hit.article, id |-> hit.article, best |-> hit.sim,
                          matched |-> 1, sum |-> hit.sim]}
       ELSE {[r EXCEPT !.matched = @ + 1, !.sum = @ + hit.sim,
                       !.best = IF hit.sim > @ THEN hit.sim ELSE @] : r \in old}

MergeGroup(agg, hits) == FoldLeft(Merge, agg, SetToSeq(BestForSeed(hits)))

Aggregate(groups) == FoldLeft(MergeGroup, {}, groups)

(* By best similarity, then by boxes matched, then by sum. *)
BestRanked(agg) == Ordered(agg, LAMBDA x, y :
  \/ x.best > y.best
  \/ x.best = y.best /\ \/ x.matched > y.matched
                        \/ x.matched = y.matched /\ \/ x.sum > y.sum
                                                    \/ x.sum = y.sum /\ x.id < y.id)

Consolidate(groups) == BestRanked(Aggregate(groups))

RelatedArticles(q) ==
  LET ranked == Consolidate(SearchByInsights(q))
  IN IF q.top = <<>> THEN ranked ELSE FirstN(ranked, q.top[1])

-----------------------------------------------------------------------------
(* Bounds: a seed published in the second half of day 5, two other         *)
(* articles, three boxes, two embedded boxes of the seed, similarities of  *)
(* 0 to 3.                                                                  *)

SearchQuestion(command, seed, text, months, exclusive, floor, at, arts, boxes, top) ==
  [of |-> "search", command |-> command, seed |-> seed, text |-> text, months |-> months,
   exclusive |-> exclusive, floor |-> floor, k |-> 2, since |-> <<>>,
   until |-> IF at = 9 THEN <<[at |-> 10, dateOnly |-> exclusive]>> ELSE <<>>,
   perInsight |-> FALSE, top |-> top, seedVector |-> TRUE, seedBoxes |-> 2,
   articles |-> arts, boxes |-> boxes]

Row(id, at, sim, selected) == [id |-> id, at |-> at, sim |-> sim, selected |-> selected]

AskSearch ==
  /\ Asked("nobody")
  /\ \E seed \in {"none", "found", "missing"}, text \in {"nothing", "query", "statement", "broken file"},
        months \in {<<>>, <<1>>}, exclusive \in BOOLEAN, floor \in {0, 2},
        at1 \in {Undated, 11}, at2 \in {Undated, 6, 7, 9, 10, 11}, at3 \in {3, 10, 12},
        s \in 0..3 :
       question' = SearchQuestion("search", seed, text, months, exclusive, floor, at2,
         {Row(1, at1, 3, TRUE), Row(2, at2, s, TRUE), Row(3, at3, 2, s # 1)}, {}, <<>>)

BoxSims == {<<0, 3>>, <<2, 1>>, <<3, 3>>, <<1, 2>>}

AskRelated ==
  /\ Asked("nobody")
  /\ \E exclusive \in BOOLEAN, floor \in {0, 2}, at \in {7, 10, 11},
        a1, a2 \in {2, 3}, s1, s2, s3 \in BoxSims, top \in {<<>>, <<1>>} :
       question' = SearchQuestion("insights", "found", "nothing", <<1>>, exclusive, floor, at,
         {Row(1, 11, 0, TRUE), Row(2, at, 0, TRUE), Row(3, 8, 0, TRUE)},
         {[id |-> 1, article |-> a1, sim |-> s1], [id |-> 2, article |-> a2, sim |-> s2],
          [id |-> 3, article |-> 3, sim |-> s3], [id |-> 4, article |-> 1, sim |-> <<9, 9>>]},
         top)

-----------------------------------------------------------------------------
Served == Asked("search") /\ ~Refused(question)

(* An exclusively anchored search is fit for a backtest: nothing that was  *)
(* published when the seed was, or later, is among what either search      *)
(* returns, and nothing from before the months asked for.                  *)
NoLookAhead ==
  Served /\ Anchored(question) /\ question.exclusive =>
    LET q == question
        seed == RowOf(q, Seed)
        returned == IF q.command = "search" THEN {Search(q)[i].id : i \in DOMAIN Search(q)}
                    ELSE {RelatedArticles(q)[i].article : i \in DOMAIN RelatedArticles(q)}
    IN \A id \in returned :
         /\ RowOf(q, id).at < seed.at
         /\ q.months # <<>> => RowOf(q, id).at >= seed.at - Month * q.months[1]

(* Cutting off at k before the similarity floor loses nothing: no article  *)
(* in the window that reaches the floor is left out for one that is less   *)
(* similar, or while there is room.                                        *)
FloorLosesNothing ==
  Served /\ question.command = "search" =>
    LET q == question
        good == {a \in q.articles :
                   /\ a.sim >= q.floor
                   /\ BuildFilters(q, Window(q),
                        IF HasSeed(q) /\ q.text # "statement" THEN Seed ELSE 0, a)}
        hits == ToSet(Search(q))
    IN /\ hits \subseteq good
       /\ Cardinality(hits) < q.k => hits = good
       /\ \A h \in hits, a \in good \ hits : a.sim <= h.sim

(* The consolidated view counts each related article at most once per box  *)
(* of the seed, sums its best similarities, ranks by the best one, and     *)
(* leaves out no article that any box of the seed found.                   *)
ConsolidatedOnce ==
  Served /\ question.command = "insights" =>
    LET q == question
        groups == SearchByInsights(q)
        found == UNION {{h.article : h \in ToSet(groups[s])} : s \in DOMAIN groups}
        Finders(a) == {s \in DOMAIN groups : \E h \in ToSet(groups[s]) : h.article = a}
        Top(s, a) == CHOOSE m \in {h.sim : h \in ToSet(groups[s])} :
                       \E h \in ToSet(groups[s]) : /\ h.article = a /\ h.sim = m
                                                   /\ \A o \in ToSet(groups[s]) :
                                                        o.article = a => o.sim <= m
        arts == RelatedArticles(q)
    IN /\ q.top = <<>> => {arts[i].article : i \in DOMAIN arts} = found
       /\ \A i \in DOMAIN arts :
            LET a == arts[i].article
            IN /\ arts[i].matched = Cardinality(Finders(a))
               /\ arts[i].sum = SumOf([s \in DOMAIN groups |->
                                         IF s \in Finders(a) THEN Top(s, a) ELSE 0])
               /\ \A b \in found, s \in 1..q.seedBoxes :
                    /\ s \in Finders(b) /\ Top(s, b) > arts[i].best
                    => \E j \in 1..(i - 1) : arts[j].article = b

=============================================================================
