------------------------------- MODULE EvalRun -------------------------------
(***************************************************************************)
(* evals/pipeline_eval.py: an evaluation runs the stages again, for a few  *)
(* articles at a time, on the database that holds the precedents of all of *)
(* them: each item is reset and rebuilt while others are judged.           *)
(*                                                                         *)
(* Items are numbered in the order of their publication; build_items lets  *)
(* only articles with a text in.  What is stored of an item: which stages  *)
(* have left their output, which of these outputs were positive ("found":  *)
(* an embedding, an actionable label, a primary ticker, insight boxes),    *)
(* and its verdict.  Boxes appear with their vectors: an item that fails   *)
(* between the two is one that fails, and its own chain goes no further.   *)
(***************************************************************************)
EXTENDS Question

CONSTANTS
  Dataset,                        \* how many articles are evaluated
  Concurrency                     \* --concurrency, 4 by default

ASSUME EvalAssumption == Dataset \in Nat /\ Concurrency \in Nat \ {0}

Items == 1..Dataset
SKIPPABLE_STAGES == {"embed", "classify", "tag", "insights"}
Chain == <<"reset", "embed", "classify", "tag", "insights", "sentiment", "done">>

Evaluating == Asked("evaluation") /\ ~question.over

Running == {i \in Items : question.phase[i] \in ToSet(SubSeq(Chain, 1, 6))}
InPhase(i, p) == Evaluating /\ question.phase[i] = p
NextPhase(p) == Chain[(CHOOSE n \in DOMAIN Chain : Chain[n] = p) + 1]

(* sentiment_stage judges an actionable article with a ticker and boxes. *)
Judgeable(found) == {"classify", "tag", "insights"} \subseteq found

ItemRow(outputs, found) == [outputs |-> outputs, found |-> found, verdict |-> Judgeable(found)]

(* What may be stored of an item before: nothing, or all outputs, of which *)
(* one at most is negative.  The tags are computed from the text: an       *)
(* article whose text names no ticker never gets one.                      *)
RowsBefore(named) ==
  {ItemRow({}, {})} \cup
  {ItemRow(SKIPPABLE_STAGES, SKIPPABLE_STAGES \ {s}) :
     s \in IF named THEN {"none", "classify", "insights"} ELSE {"tag"}}

(* run_eval: the stages named with --skip-stages keep their outputs. *)
RunEval ==
  /\ Asked("nobody")
  /\ \E keep \in SUBSET SKIPPABLE_STAGES, named \in SUBSET Items :
     \E before \in [Items -> RowsBefore(TRUE) \cup RowsBefore(FALSE)] :
       /\ \A i \in Items : before[i] \in RowsBefore(i \in named)
       /\ question' = [of |-> "evaluation", keep |-> keep, named |-> named, before |-> before,
                       phase |-> [i \in Items |-> "waiting"], stored |-> before,
                       saw |-> [i \in Items |-> <<>>], results |-> {}, warned |-> {}, over |-> FALSE]

BeginItem(i) ==
  /\ InPhase(i, "waiting") /\ Cardinality(Running) < Concurrency
  /\ question' = [question EXCEPT !.phase[i] = "reset"]

(* Mutant of ResetArticle: a kept stage is cleared like the others.         *)
ResetAll(i) ==
  /\ InPhase(i, "reset")
  /\ question' = [question EXCEPT !.phase[i] = NextPhase(@), !.stored[i] = ItemRow({}, {})]

(* One transaction: the verdict goes, and every output that is not kept.   *)
ResetArticle(i) ==
  /\ InPhase(i, "reset")
  /\ question' = [question EXCEPT
       !.phase[i] = NextPhase(@),
       !.stored[i] = [outputs |-> @.outputs \cap question.keep,
                      found |-> @.found \cap question.keep, verdict |-> FALSE]]

(* What a stage that runs may find: the models decide about the label and  *)
(* the boxes.                                                              *)
MayFind(i, s) ==
  CASE s = "embed" -> {{s}}
    [] s = "tag"   -> {IF i \in question.named THEN {s} ELSE {}}
    [] OTHER       -> {{}, {s}}

(* A stage does nothing when its output is there. *)
RunStage(i) ==
  /\ \E s \in SKIPPABLE_STAGES : InPhase(i, s)
  /\ LET s == question.phase[i] IN
     \E more \in (IF s \in question.stored[i].outputs THEN {{}} ELSE MayFind(i, s)) :
       question' = [question EXCEPT
         !.phase[i] = NextPhase(@),
         !.stored[i] = [outputs |-> @.outputs \cup {s}, found |-> @.found \cup more,
                        verdict |-> @.verdict]]

(* An article that is not actionable, has no ticker or no boxes is passed  *)
(* over; the others are judged beside what the database then holds of the  *)
(* earlier items.  Either way the item has a result.                       *)
Judge(i) ==
  /\ InPhase(i, "sentiment")
  /\ LET judged == Judgeable(question.stored[i].found)
     IN question' = [question EXCEPT
          !.phase[i] = "done", !.stored[i].verdict = judged, !.results = @ \cup {i},
          !.saw[i] = IF judged THEN [j \in 1..(i - 1) |-> question.stored[j].found] ELSE @]

(* Mutant of ItemFails: the exception is turned into a result.              *)
ItemFailsQuietly(i) ==
  /\ Evaluating /\ i \in Running
  /\ question' = [question EXCEPT !.phase[i] = "failed", !.results = @ \cup {i}]

(* The reset, a model or the database raises: the item is given up.        *)
ItemFails(i) ==
  /\ Evaluating /\ i \in Running
  /\ question' = [question EXCEPT !.phase[i] = "failed"]

(* _warn_failed_items: what the result lacks was left reset. *)
EvalEnds ==
  /\ Evaluating /\ \A i \in Items : question.phase[i] \in {"done", "failed"}
  /\ question' = [question EXCEPT !.over = TRUE, !.warned = Items \ question.results]

EvalStep ==
  \/ RunEval \/ EvalEnds
  \/ \E i \in Items : \/ BeginItem(i) \/ ResetArticle(i) \/ RunStage(i)
                      \/ Judge(i) \/ ItemFails(i)

(* One evaluation from its start. *)
EvalSpec == question = Nobody /\ [][EvalStep]_question

-----------------------------------------------------------------------------
(* What the query of a retrieval mode (Precedents) asks of an earlier      *)
(* article: its embedding, its boxes, its tickers.  The distilled boxes    *)
(* are a table of their own that no reset touches.                         *)
Asks ==
  [article |-> {"embed"}, insights |-> {"insights"}, insightsHybrid |-> {"embed", "insights"},
   distilledFirst |-> {}, distilledSecond |-> {},
   distilledHybrid |-> {"embed"}, distilledHybridOnePass |-> {"embed"},
   tickerHistory |-> {"tag", "insights"}, tickerRelevant |-> {"tag", "insights"}]

Needs(mode, realNewsOnly) == Asks[mode] \cup (IF realNewsOnly THEN {"classify"} ELSE {})

(* An evaluation never leaves an article half made without saying so: when *)
(* it ends, every item it does not warn about has the outputs of all its   *)
(* stages again, and a verdict if and only if it is actionable, has a      *)
(* ticker and has insights.                                                *)
LeftResetIsReported ==
  Asked("evaluation") /\ question.over =>
    \A i \in Items \ question.warned :
      /\ question.stored[i].outputs = SKIPPABLE_STAGES
      /\ question.stored[i].verdict <=> Judgeable(question.stored[i].found)

(* The items do not disturb each other's precedents in a retrieval mode    *)
(* all of whose stages are kept: whoever is judged finds of every earlier  *)
(* item that had those outputs what was found of it before the evaluation  *)
(* - whichever items are being reset, rebuilt or have failed.  In the      *)
(* default mode, "article", that takes embed; keeping classify and         *)
(* insights alone is not enough.                                           *)
PrecedentsWhole ==
  Asked("evaluation") =>
    \A mode \in DOMAIN Asks, realNewsOnly \in BOOLEAN :
      LET needs == Needs(mode, realNewsOnly)
      IN needs \subseteq question.keep =>
           \A i \in question.results : question.stored[i].verdict =>
             \A j \in 1..(i - 1) : needs \subseteq question.before[j].outputs =>
               (needs \subseteq question.saw[i][j] <=> needs \subseteq question.before[j].found)

=============================================================================
