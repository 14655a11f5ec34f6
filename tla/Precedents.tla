----------------------------- MODULE Precedents -----------------------------
(***************************************************************************)
(* service/stages.py: the historical precedents shown to the analyst who   *)
(* judges an article, in the nine retrieval modes, and the retrieval the   *)
(* cluster evaluation scores (evals/cluster_eval.py).                      *)
(*                                                                         *)
(* An article is the instant it was published, its label, how near its     *)
(* embedding is to the target's and whether it names the target's ticker;  *)
(* a box has one similarity per embedded box of the target.  Rows of equal *)
(* rank come in the order of their id.                                     *)
(***************************************************************************)
EXTENDS Question

Target == 0

(* Instants in a day: published_utc is an instant, the lookback is in days. *)
PerDay == 2

Source(labelled, drop, hybrid) == [labelled |-> labelled, drop |-> drop, hybrid |-> hybrid]

INSIGHT_SOURCES ==
  [insights                  |-> Source(FALSE, FALSE, FALSE),
   distilledFirst            |-> Source(TRUE,  FALSE, FALSE),
   distilledSecond           |-> Source(TRUE,  TRUE,  FALSE),
   insightsHybrid            |-> Source(FALSE, FALSE, TRUE),
   distilledHybrid           |-> Source(TRUE,  TRUE,  TRUE),
   distilledHybridOnePass    |-> Source(TRUE,  FALSE, TRUE)]

InsightModes == DOMAIN INSIGHT_SOURCES
Modes == InsightModes \cup {"article", "tickerHistory", "tickerRelevant"}

IsActionable(a) == a.label \in {"act", "real news"}

(* Mutant of Precedes: the query has no upper time bound.                  *)
PrecedesOrFollows(q, a) ==
  /\ a.id # Target
  /\ q.lookback > 0 => a.at >= q.at - PerDay * q.lookback
  /\ q.realNewsOnly => IsActionable(a)

(* The precedent discipline every query repeats. *)
Precedes(q, a) ==
  /\ a.id # Target /\ a.at < q.at
  /\ q.lookback > 0 => a.at >= q.at - PerDay * q.lookback
  /\ q.realNewsOnly => IsActionable(a)

ArticleOf(q, b) == CHOOSE a \in q.articles : a.id = b.article

Ranked(rows, Before(_, _)) == Ordered(rows, LAMBDA x, y :
  Before(x, y) \/ (~Before(y, x) /\ x.id < y.id))

(* The orders of the queries: nearest to the target, nearest to one of its *)
(* boxes, best of the union, newest article first.                          *)
Nearest(rows) == Ranked(rows, LAMBDA x, y : x.near > y.near)
NearestTo(t, rows) == Ranked(rows, LAMBDA x, y : x.sim[t] > y.sim[t])
BestFirst(rows) == Ranked(rows, LAMBDA x, y : x.sim > y.sim)
NewestFirst(q, rows) == Ranked(rows, LAMBDA x, y :
  \/ ArticleOf(q, x).at > ArticleOf(q, y).at
  \/ ArticleOf(q, x).at = ArticleOf(q, y).at /\ x.index < y.index)

ArticleSimilarity(q) ==
  IF {"vector", "published"} \subseteq q.known
  THEN FirstN(Nearest({a \in q.articles : Precedes(q, a)}), q.k)
  ELSE <<>>

ArticleNeighbors(q, threshold) ==
  IF {"vector", "published"} \subseteq q.known
  THEN {a.id : a \in {x \in q.articles : Precedes(q, x) /\ x.near > threshold}}
  ELSE {}

(* The rows one box of the target may retrieve. *)
Admissible(q, src, threshold, within, t) ==
  {b \in q.boxes : /\ b.article \in within /\ Precedes(q, ArticleOf(q, b))
                   /\ b.sim[t] > threshold
                   /\ ~(src.drop /\ b.label = "DROP")}

(* Mutant of BestHits: the first box of the target that finds a row names  *)
(* its similarity.                                                          *)
BestHitsFirstWins(found) ==
  {[id |-> b.id, article |-> b.article, text |-> b.text,
    sim |-> b.sim[CHOOSE t \in DOMAIN found :
                    /\ b \in found[t] /\ \A u \in DOMAIN found : b \in found[u] => t <= u]] :
   b \in UNION {found[t] : t \in DOMAIN found}}

(* The union over the target's boxes: a row found twice keeps its highest  *)
(* similarity.                                                              *)
BestHits(found) ==
  {[id |-> b.id, article |-> b.article, text |-> b.text,
    sim |-> CHOOSE s \in {b.sim[t] : t \in {u \in DOMAIN found : b \in found[u]}} :
              \A t \in DOMAIN found : b \in found[t] => b.sim[t] <= s] :
   b \in UNION {found[t] : t \in DOMAIN found}}

(* One query per embedded box of the target, each cut off at the limit;    *)
(* then the union, ranked and cut off again.                               *)
RankedInsightHits(q, src, threshold, limit, within) ==
  IF "published" \notin q.known THEN <<>>
  ELSE LET found == [t \in q.targetBoxes |->
             ToSet(FirstN(NearestTo(t, Admissible(q, src, threshold, within, t)), limit))]
       IN FirstN(BestFirst(BestHits(found)), limit)

Everywhere(q) == {a.id : a \in q.articles}

(* The cluster evaluation's entry point. *)
RankedPrecedentHits(q, src, threshold, limit, articleThreshold) ==
  RankedInsightHits(q, src, threshold, limit,
    IF src.hybrid THEN ArticleNeighbors(q, articleThreshold) ELSE Everywhere(q))

(* Rows to prior articles: each once, where its first row is, with the     *)
(* texts of its rows in their order.                                       *)
Grouped(rows) ==
  LET order == Dedup([i \in DOMAIN rows |-> rows[i].article])
      Excerpts(a) == Filtered(rows, LAMBDA r : r.article = a /\ r.text)
  IN [i \in DOMAIN order |->
        [article |-> order[i],
         excerpts |-> [j \in DOMAIN Excerpts(order[i]) |-> Excerpts(order[i])[j].id]]]

InsightsSimilarity(q, src, threshold, limit, within) ==
  Grouped(RankedInsightHits(q, src, threshold, limit, within))

OfTicker(q) == {b \in q.boxes : ArticleOf(q, b).sameTicker /\ Precedes(q, ArticleOf(q, b))}

(* The company's own boxes, newest article first. *)
TickerInsights(q) ==
  IF {"ticker", "published"} \subseteq q.known
  THEN Grouped(FirstN(NewestFirst(q, OfTicker(q)), q.historyLimit))
  ELSE <<>>

(* The same boxes, nearest to the target article first. *)
TickerRelevantInsights(q) ==
  IF {"vector", "ticker", "published"} \subseteq q.known
  THEN Grouped(FirstN(Nearest(OfTicker(q)), q.historyLimit))
  ELSE <<>>

BoxThreshold(q, src) == IF src.hybrid THEN q.hybridBoxThreshold ELSE q.threshold

GatherPrecedents(q) ==
  CASE q.mode = "tickerHistory"  -> TickerInsights(q)
    [] q.mode = "tickerRelevant" -> TickerRelevantInsights(q)
    [] q.mode = "article" ->
         LET found == ArticleSimilarity(q)
         IN [i \in DOMAIN found |-> [article |-> found[i].id, excerpts |-> <<>>]]
    [] OTHER ->
         LET src == INSIGHT_SOURCES[q.mode]
         IN InsightsSimilarity(q, src, BoxThreshold(q, src), q.limit,
              IF src.hybrid THEN ArticleNeighbors(q, q.hybridArticleThreshold)
                            ELSE Everywhere(q))

(* The target's own boxes, shown beside the precedents in insight modes. *)
OwnArticleInsights(q) ==
  IF q.mode \notin InsightModes THEN <<>>
  ELSE LET src == INSIGHT_SOURCES[q.mode]
           own == {b \in q.boxes : b.article = Target /\ ~(src.drop /\ b.label = "DROP")}
       IN Filtered(FirstN(Ranked(own, LAMBDA x, y : x.index < y.index), q.limit),
                   LAMBDA b : b.text)

(* The cluster evaluation always asks for every label, whatever            *)
(* production is set to.                                                   *)
OfEveryLabel(q) == [q EXCEPT !.realNewsOnly = FALSE]

(* Mutant of RetrievedArticleIds: the prefilter uses the box threshold.     *)
RetrievedByBoxThreshold(q) ==
  LET src == INSIGHT_SOURCES[q.mode]
      hits == RankedPrecedentHits(OfEveryLabel(q), src, BoxThreshold(q, src), q.limit,
                                  BoxThreshold(q, src))
  IN {hits[i].article : i \in DOMAIN hits}

(* What cluster_eval counts as retrieved for a seed. *)
RetrievedArticleIds(q) ==
  LET src == INSIGHT_SOURCES[q.mode]
      hits == RankedPrecedentHits(OfEveryLabel(q), src, BoxThreshold(q, src), q.limit,
                                  q.hybridArticleThreshold)
  IN {hits[i].article : i \in DOMAIN hits}

-----------------------------------------------------------------------------
(* Bounds: two other articles and the target, three boxes and one of the   *)
(* target, two embedded boxes of the target.  The first article is older   *)
(* than the lookback of three days, exactly as old, earlier on the         *)
(* target's own day or of its very instant; without a lookback it is old.  *)

Sims == {<<0, 0>>, <<2, 0>>, <<3, 2>>, <<2, 4>>}

Article(id, at, label, near, same) ==
  [id |-> id, at |-> at, label |-> label, near |-> near, sameTicker |-> same]
Box(id, article, index, sim, label, text) ==
  [id |-> id, article |-> article, index |-> index, sim |-> sim, label |-> label,
   text |-> text, near |-> sim[1]]

AskPrecedents ==
  /\ Asked("nobody")
  /\ \E when \in {<<3, 4>>, <<3, 5>>, <<3, 10>>, <<3, 11>>, <<0, 4>>},
        label \in {"act", "other"}, near \in {1, 3}, same, realNewsOnly \in BOOLEAN,
        s1, s2 \in Sims, s3 \in {<<2, 0>>, <<3, 2>>}, mode \in Modes, limit \in {1, 2},
        known \in {{"published", "vector", "ticker"}, {"published"}, {"vector", "ticker"}} :
       question' =
         [of |-> "precedents", mode |-> mode, at |-> 11, lookback |-> when[1],
          realNewsOnly |-> realNewsOnly,
          known |-> known, targetBoxes |-> {1, 2}, k |-> limit, limit |-> limit,
          historyLimit |-> limit, threshold |-> 1,
          hybridBoxThreshold |-> 0, hybridArticleThreshold |-> 2,
          articles |-> {Article(Target, 11, "act", 9, TRUE), Article(1, when[2], label, near, same),
                        Article(2, 8, "real news", 2, TRUE)},
          boxes |-> {Box(1, 1, 1, s1, "KEEP", TRUE), Box(2, 1, 2, s2, "DROP", TRUE),
                     Box(3, 2, 1, s3, "none", near = 1), Box(4, Target, 1, <<9, 9>>, "KEEP", TRUE)}]

-----------------------------------------------------------------------------
MaxSim(q, b) ==
  CHOOSE s \in {b.sim[t] : t \in q.targetBoxes} : \A t \in q.targetBoxes : b.sim[t] <= s

(* What the precedents of an insight mode should be drawn from: boxes of   *)
(* earlier articles, near enough to some box of the target, whose instant  *)
(* is known.                                                               *)
Candidates(q) ==
  LET src == INSIGHT_SOURCES[q.mode]
  IN {b \in q.boxes :
        /\ "published" \in q.known
        /\ \E a \in q.articles :
             /\ a.id = b.article /\ Precedes(q, a)
             /\ src.hybrid => "vector" \in q.known /\ a.near > q.hybridArticleThreshold
        /\ \E t \in q.targetBoxes : b.sim[t] > BoxThreshold(q, src)
        /\ src.drop => b.label # "DROP"}

(* The precedents are the best of the whole corpus: although every box of  *)
(* the target asks for its own top rows and the union is cut off again, no *)
(* candidate that was left out is nearer to the target than one shown, the *)
(* limit is used up, and articles come in the order of their best box.     *)
PrecedentsAreTheBest ==
  Asked("precedents") /\ question.mode \in InsightModes =>
    LET q == question
        shown == GatherPrecedents(q)
        hits == RankedPrecedentHits(q, INSIGHT_SOURCES[q.mode],
                  BoxThreshold(q, INSIGHT_SOURCES[q.mode]), q.limit, q.hybridArticleThreshold)
        taken == {b \in Candidates(q) : \E i \in DOMAIN hits : hits[i].id = b.id}
        Best(a) == {b \in taken : b.article = a /\ \A c \in taken :
                      c.article = a => MaxSim(q, c) <= MaxSim(q, b)}
    IN /\ Len(hits) = Cardinality(taken)
       /\ Len(hits) = IF Cardinality(Candidates(q)) < q.limit THEN Cardinality(Candidates(q))
                                                              ELSE q.limit
       /\ \A b \in taken, c \in Candidates(q) \ taken : MaxSim(q, c) <= MaxSim(q, b)
       /\ {shown[i].article : i \in DOMAIN shown} = {b.article : b \in taken}
       /\ \A i, j \in DOMAIN shown : i < j =>
            \A x \in Best(shown[i].article), y \in Best(shown[j].article) :
              MaxSim(q, x) >= MaxSim(q, y)
       /\ \A b \in taken : b.text <=>
            \E i \in DOMAIN shown : Contains(shown[i].excerpts, b.id)

(* What the evaluation's retrieval and production's have in common: with   *)
(* realNewsOnly off the cluster evaluation retrieves the very articles the *)
(* analyst is shown, in every insight mode.  With it on the evaluation     *)
(* still asks for every label (cluster_eval.py:112), and its result need   *)
(* not be production's: other labels take places.  But no actionable       *)
(* article scored there is lost in production, as long as no two boxes are *)
(* equally near.                                                           *)
EvaluatedAsProduced ==
  Asked("precedents") /\ question.mode \in InsightModes =>
    LET q == question
        Shown(r) == {GatherPrecedents(r)[i].article : i \in DOMAIN GatherPrecedents(r)}
    IN /\ RetrievedArticleIds(q) = Shown(OfEveryLabel(q))
       /\ (\A b, c \in Candidates(OfEveryLabel(q)) : MaxSim(q, b) = MaxSim(q, c) => b = c) =>
            \A a \in q.articles :
              IsActionable(a) /\ a.id \in RetrievedArticleIds(q) => a.id \in Shown(q)

(* The corpus as it was: the articles published before the target, within  *)
(* the lookback, and their boxes.                                          *)
InWindow(q, a) == a.at < q.at /\ (q.lookback > 0 => a.at >= q.at - PerDay * q.lookback)
AsOf(q) ==
  [q EXCEPT !.articles = {a \in q.articles : InWindow(q, a)},
            !.boxes = {b \in q.boxes : InWindow(q, ArticleOf(q, b))}]

(* No mode looks ahead: what the analyst is shown is what he would be      *)
(* shown if nothing but the earlier articles of the window existed - a     *)
(* later article is not only absent from the list, it takes no place in    *)
(* any cut-off and moves no other row.  Each article is shown once.        *)
PrecedentsArePast ==
  Asked("precedents") =>
    LET shown == GatherPrecedents(question)
    IN /\ shown = GatherPrecedents(AsOf(question))
       /\ \A i, j \in DOMAIN shown : shown[j].article = shown[i].article => i = j

=============================================================================
