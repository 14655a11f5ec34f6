----------------------------- MODULE EvalScores -----------------------------
(***************************************************************************)
(* How the evaluations count.  evals/classify_eval.py scores single-pass   *)
(* classifiers against labelled items, evals/pipeline_eval.py scores       *)
(* act decisions and verdicts against price-derived truth, and             *)
(* evals/cluster_eval.py scores retrieved articles against curated         *)
(* clusters.  The SDK drops an item whose task raises: the classification  *)
(* puts it back as wrong, the pipeline evaluation scores without it, and   *)
(* in the cluster evaluation nothing is caught.                            *)
(*                                                                         *)
(* Ratios are left as the counts they divide.                              *)
(***************************************************************************)
EXTENDS Question

NEWS_SUBTYPES == {"legal-event", "earnings-reporting"}
IsActFinegrained(category) == category \in NEWS_SUBTYPES
IsActBinary(label) == label = "real news"
YesNo(act) == IF act THEN "YES" ELSE "NO"

(* The classifier's answer in the labels of the dataset.                   *)
DatasetLabelOf(variant, answer) ==
  CASE variant = "binary"          -> YesNo(IsActBinary(answer))
    [] variant = "finegrained-act" -> YesNo(IsActFinegrained(answer))
    [] variant = "finegrained"     -> answer

Errored(item) == item.answer = "errored"

(* The dataset, or the items named with --ids.                             *)
Data(q) == LET wanted == q.ids IN Filtered(q.items, LAMBDA it : wanted = {} \/ it.article \in wanted)

ItemResult(q, item) ==
  [expected |-> item.expected,
   label |-> IF Errored(item) THEN "none" ELSE DatasetLabelOf(q.variant, item.answer)]

Results(q, items) == [i \in DOMAIN items |-> ItemResult(q, items[i])]
ItemResults(q) == Results(q, Filtered(Data(q), LAMBDA it : ~Errored(it)))

(* Mutant of WithMissingItems: what the SDK dropped stays dropped.          *)
OnlyItemResults(q) == ItemResults(q)

(* The items of the articles that have no result come back without an      *)
(* output: by article, so that an item that raised stays dropped when      *)
(* another one of the same article has a result.                           *)
WithMissingItems(q) ==
  LET done == {it.article : it \in {x \in ToSet(Data(q)) : ~Errored(x)}}
  IN ItemResults(q) \o Results(q, Filtered(Data(q), LAMBDA it : it.article \notin done))

Labelled(results) == Filtered(results, LAMBDA r : r.expected # "none")
Count(list, Test(_)) == Cardinality(Positions(list, Test))

LabelAccuracy(results) ==
  [correct |-> Count(Labelled(results), LAMBDA r : r.label = r.expected),
   of |-> Len(Labelled(results))]

BinaryConfusion(results) ==
  [tp |-> Count(results, LAMBDA r : r.expected = "YES" /\ r.label = "YES"),
   fn |-> Count(results, LAMBDA r : r.expected = "YES" /\ r.label # "YES"),
   fp |-> Count(results, LAMBDA r : r.expected = "NO" /\ r.label # "NO"),
   tn |-> Count(results, LAMBDA r : r.expected = "NO" /\ r.label = "NO")]

DerivedAct(results) ==
  Count(Labelled(results), LAMBDA r :
          r.label # "none" /\ (IsActFinegrained(r.label) <=> IsActFinegrained(r.expected)))

(* Per category of the gold labels and the answers.                        *)
FinegrainedConfusion(results) ==
  LET labelled == Labelled(results)
      classes  == {labelled[i].expected : i \in DOMAIN labelled}
                    \cup ({labelled[i].label : i \in DOMAIN labelled} \ {"none"})
  IN [c \in classes |->
       [tp |-> Count(labelled, LAMBDA r : r.expected = c /\ r.label = c),
        fp |-> Count(labelled, LAMBDA r : r.expected # c /\ r.label = c),
        fn |-> Count(labelled, LAMBDA r : r.expected = c /\ r.label # c),
        support |-> Count(labelled, LAMBDA r : r.expected = c)]]

-----------------------------------------------------------------------------
(* The pipeline evaluation: an act decision, and a verdict when it acted   *)
(* and judged, against the verdicts the price move makes acceptable.       *)

TruthAct(acceptable) == "hold" \notin acceptable

ScoreAct(r) ==
  IF r.acceptable = {} THEN "unscored"
  ELSE CASE r.act /\ TruthAct(r.acceptable)   -> "TP"
         [] r.act /\ ~TruthAct(r.acceptable)  -> "FP"
         [] ~r.act /\ TruthAct(r.acceptable)  -> "FN"
         [] ~r.act /\ ~TruthAct(r.acceptable) -> "TN"

ActConfusion(results) ==
  [cell \in {"TP", "FP", "FN", "TN"} |-> Count(results, LAMBDA r : ScoreAct(r) = cell)]

ActCorrect(r) == ScoreAct(r) \in {"TP", "TN"}

(* The items whose task returned; nothing puts the others back.            *)
Returned(q) == Filtered(q.items, LAMBDA it : ~it.failed)

(* No verdict is a decision to hold.                                       *)
ScoreDecision(r) == (IF r.action = "none" THEN "hold" ELSE r.action) \in r.acceptable

VerdictScored(r) == r.acceptable # {} /\ r.act

AvgVerdictScore(results) ==
  [of |-> Count(results, VerdictScored),
   correct |-> Count(results, LAMBDA r : VerdictScored(r) /\ ScoreDecision(r))]

-----------------------------------------------------------------------------
(* The cluster evaluation: the articles a seed retrieves, against those    *)
(* its cluster names.                                                      *)

Metrics(expected, retrieved) ==
  [tp |-> Cardinality(retrieved \cap expected), fp |-> Cardinality(retrieved \ expected),
   fn |-> Cardinality(expected \ retrieved)]

Agg(q) ==
  LET rows == [i \in DOMAIN q.clusters |-> Metrics(q.clusters[i].expected, q.clusters[i].retrieved)]
  IN [tp |-> SumOf([i \in DOMAIN rows |-> rows[i].tp]),
      fp |-> SumOf([i \in DOMAIN rows |-> rows[i].fp]),
      fn |-> SumOf([i \in DOMAIN rows |-> rows[i].fn])]

-----------------------------------------------------------------------------
(* Bounds: three labelled items, two of them perhaps of one article, two   *)
(* judged ones, two clusters.                                              *)
Answers(variant) ==
  {"errored"} \cup (IF variant = "binary" THEN {"real news", "none news"}
                    ELSE {"legal-event", "earnings-reporting", "recap/review"})
Golds(variant) ==
  {"none"} \cup (IF variant = "finegrained" THEN {"legal-event", "recap/review"} ELSE {"YES", "NO"})

AskClassifyEval ==
  /\ Asked("nobody")
  /\ \E variant \in {"binary", "finegrained", "finegrained-act"}, ids \in {{}, {1, 3}},
        articles \in {<<1, 2, 3>>, <<1, 1, 3>>} :
     \E answers \in [1..3 -> Answers(variant)], golds \in [1..3 -> Golds(variant)] :
       question' = [of |-> "classify-eval", variant |-> variant, ids |-> ids,
                    items |-> [i \in 1..3 |-> [article |-> articles[i], answer |-> answers[i],
                                               expected |-> golds[i]]]]

Acceptables == {{}, {"buy"}, {"sell"}, {"buy", "hold"}, {"hold"}}

AskPipelineEval ==
  /\ Asked("nobody")
  /\ \E acts, failed \in [1..2 -> BOOLEAN], acceptable \in [1..2 -> Acceptables],
        actions \in [1..2 -> {"none", "buy", "sell", "hold"}] :
       /\ \A i \in 1..2 : (~acts[i] => actions[i] = "none") /\ (failed[i] => ~acts[i])
       /\ question' = [of |-> "pipeline-eval",
                       items |-> [i \in 1..2 |-> [failed |-> failed[i], act |-> acts[i],
                                                  action |-> actions[i],
                                                  acceptable |-> acceptable[i]]]]

AskClusterEval ==
  /\ Asked("nobody")
  /\ \E a, b, c, d \in SUBSET (1..3) :
       question' = [of |-> "cluster-eval",
                    clusters |-> <<[expected |-> a, retrieved |-> b],
                                   [expected |-> c, retrieved |-> d]>>]

-----------------------------------------------------------------------------
(* Errored is wrong, not absent: the scores of a classification cover the  *)
(* labelled items of the dataset, each once, and the confusion tables      *)
(* agree with the accuracy.  The one exception is an item that raised      *)
(* while another item of its article did not: it is not counted at all.    *)
ClassifyAddsUp(q) ==
  LET results  == WithMissingItems(q)
      data     == Data(q)
      Lost(it) == Errored(it) /\ \E other \in ToSet(data) : /\ other.article = it.article
                                                            /\ ~Errored(other)
      Gold(l)  == Count(data, LAMBDA it : it.expected = l /\ ~Lost(it))
      accuracy == LabelAccuracy(results)
      binary   == BinaryConfusion(results)
      table    == FinegrainedConfusion(results)
      Total(f) == FoldFunctionOnSet(LAMBDA row, n : row[f] + n, 0, table, DOMAIN table)
  IN /\ accuracy.of = Count(data, LAMBDA it : it.expected # "none" /\ ~Lost(it))
     /\ q.variant = "finegrained" =>
          /\ \A c \in DOMAIN table : table[c].tp + table[c].fn = Gold(c) /\ table[c].support = Gold(c)
          /\ Total("tp") = accuracy.correct /\ Total("tp") + Total("fn") = accuracy.of
          /\ DerivedAct(results) \in accuracy.correct..accuracy.of
          /\ accuracy.of - Total("tp") - Total("fp")
               = Count(data, LAMBDA it : Errored(it) /\ it.expected # "none" /\ ~Lost(it))
     /\ q.variant # "finegrained" =>
          /\ binary.tp + binary.fn = Gold("YES") /\ binary.fp + binary.tn = Gold("NO")
          /\ binary.tp + binary.tn = accuracy.correct

(* The verdicts that are averaged are those of the articles the act table  *)
(* says were acted on; a right verdict to trade is one on a real mover.    *)
(* The movers of the table are those whose task returned: an item that     *)
(* failed is absent here, not wrong - the warning about it is EvalRun's.   *)
PipelineAddsUp(q) ==
  LET results == Returned(q)
      act == ActConfusion(results)
  IN /\ act["TP"] + act["TN"] = Count(results, ActCorrect)
     /\ AvgVerdictScore(results).of = act["TP"] + act["FP"]
     /\ act["TP"] + act["FN"] = Count(q.items, LAMBDA it : /\ ~it.failed /\ it.acceptable # {}
                                                         /\ TruthAct(it.acceptable))
     /\ \A i \in DOMAIN results : LET r == results[i] IN
          ScoreDecision(r) /\ r.action \in {"none", "hold"} => ~TruthAct(r.acceptable)

(* The totals over all clusters are those of their retrieved and expected  *)
(* articles.                                                               *)
ClustersAddUp(q) ==
  LET Sizes(f) == SumOf([i \in DOMAIN q.clusters |-> Cardinality(q.clusters[i][f])])
  IN /\ Agg(q).tp + Agg(q).fp = Sizes("retrieved")
     /\ Agg(q).tp + Agg(q).fn = Sizes("expected")

(* The evaluations count every item they say they count exactly once.      *)
ScoresAddUp ==
  /\ Asked("classify-eval") => ClassifyAddsUp(question)
  /\ Asked("pipeline-eval") => PipelineAddsUp(question)
  /\ Asked("cluster-eval") => ClustersAddUp(question)

=============================================================================
