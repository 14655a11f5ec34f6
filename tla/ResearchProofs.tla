--------------------------- MODULE ResearchProofs ---------------------------
(***************************************************************************)
(* Proofs about EvalRun, TickerScan, Trades, EvalScores and Mentions: for  *)
(* any number of evaluated articles and any concurrency, for any bars,     *)
(* index, articles and verdicts, for any dataset and its results, and for  *)
(* any text and tickers of its feed.                                       *)
(***************************************************************************)
EXTENDS Trades, TickerScan, EvalRun, EvalScores, Mentions, QuestionProofs

-----------------------------------------------------------------------------
(***************************************************************************)
(* The evaluation                                                          *)
(***************************************************************************)

Phases == {"waiting", "reset", "embed", "classify", "tag", "insights", "sentiment",
           "done", "failed"}
Stored == [outputs : SUBSET SKIPPABLE_STAGES, found : SUBSET SKIPPABLE_STAGES, verdict : BOOLEAN]

Evaluation ==
  [of : {"evaluation"}, keep : SUBSET SKIPPABLE_STAGES, named : SUBSET Items,
   before : [Items -> Stored], phase : [Items -> Phases], stored : [Items -> Stored],
   saw : [Items -> Seq(SUBSET SKIPPABLE_STAGES)],
   results : SUBSET Items, warned : SUBSET Items, over : BOOLEAN]

(* The stages that are behind an item have left their outputs, and whether *)
(* it has a verdict is decided by what they found.                         *)
Rebuilt(phase, stored) ==
  \A i \in Items :
    /\ phase[i] \in {"classify", "tag", "insights", "sentiment", "done"} =>
         "embed" \in stored[i].outputs
    /\ phase[i] \in {"tag", "insights", "sentiment", "done"} => "classify" \in stored[i].outputs
    /\ phase[i] \in {"insights", "sentiment", "done"} => "tag" \in stored[i].outputs
    /\ phase[i] \in {"sentiment", "done"} => "insights" \in stored[i].outputs
    /\ phase[i] = "done" => stored[i].verdict = Judgeable(stored[i].found)

(* What was made of an item before and is kept stays as it was. *)
StaysAsItWas(keep, old, row) ==
  \A s \in keep \cap old.outputs : s \in row.outputs /\ (s \in row.found <=> s \in old.found)

Kept(keep, before, stored) == \A i \in Items : StaysAsItWas(keep, before[i], stored[i])

(* So it is what the items that were judged have seen of it. *)
SeenAsItWas(keep, before, i, view) ==
  \A j \in 1..(i - 1) : \A s \in keep \cap before[j].outputs :
    s \in view[j] <=> s \in before[j].found

SeenByAll(q) ==
  \A i \in q.results : q.stored[i].verdict => SeenAsItWas(q.keep, q.before, i, q.saw[i])

(* The inductive invariant of an evaluation. *)
EvalInv ==
  question # Nobody =>
    /\ question \in Evaluation
    /\ question.results = {i \in Items : question.phase[i] = "done"}
    /\ question.over => /\ \A i \in Items : question.phase[i] \in {"done", "failed"}
                        /\ question.warned = Items \ question.results
    /\ Rebuilt(question.phase, question.stored)
    /\ Kept(question.keep, question.before, question.stored)
    /\ SeenByAll(question)

LEMMA ChainFacts ==
  /\ NextPhase("reset") = "embed" /\ NextPhase("embed") = "classify"
  /\ NextPhase("classify") = "tag" /\ NextPhase("tag") = "insights"
  /\ NextPhase("insights") = "sentiment"
  /\ ToSet(SubSeq(Chain, 1, 6)) = {"reset", "embed", "classify", "tag", "insights", "sentiment"}
<1>1. /\ DOMAIN Chain = 1..7 /\ Len(Chain) = 7
      /\ Chain[1] = "reset" /\ Chain[2] = "embed" /\ Chain[3] = "classify" /\ Chain[4] = "tag"
      /\ Chain[5] = "insights" /\ Chain[6] = "sentiment" /\ Chain[7] = "done"
  BY DEF Chain
<1>2. \A n \in 1..7 : n = 1 \/ n = 2 \/ n = 3 \/ n = 4 \/ n = 5 \/ n = 6 \/ n = 7
  OBVIOUS
<1> DEFINE At(p) == CHOOSE n \in DOMAIN Chain : Chain[n] = p
<1>3. /\ At("reset") = 1 /\ At("embed") = 2 /\ At("classify") = 3 /\ At("tag") = 4
      /\ At("insights") = 5
  <2>1. At("reset") = 1
    BY <1>1, <1>2
  <2>2. At("embed") = 2
    BY <1>1, <1>2
  <2>3. At("classify") = 3
    BY <1>1, <1>2
  <2>4. At("tag") = 4
    BY <1>1, <1>2
  <2>5. At("insights") = 5
    BY <1>1, <1>2
  <2> QED
    BY <2>1, <2>2, <2>3, <2>4, <2>5
<1>4. \A p : NextPhase(p) = Chain[At(p) + 1]
  BY DEF NextPhase
<1>5. ToSet(SubSeq(Chain, 1, 6)) = {"reset", "embed", "classify", "tag", "insights", "sentiment"}
  <2> DEFINE front == SubSeq(Chain, 1, 6)
  <2>1. DOMAIN front = 1..6 /\ \A n \in 1..6 : front[n] = Chain[n]
    BY <1>1
  <2>2. \A n \in 1..6 : n = 1 \/ n = 2 \/ n = 3 \/ n = 4 \/ n = 5 \/ n = 6
    OBVIOUS
  <2>3. ToSet(front) = {front[n] : n \in 1..6}
    BY <2>1, Zenon DEF ToSet
  <2> HIDE DEF front
  <2>4. ToSet(front) = {front[1], front[2], front[3], front[4], front[5], front[6]}
    BY <2>2, <2>3
  <2>5. /\ front[1] = "reset" /\ front[2] = "embed" /\ front[3] = "classify"
        /\ front[4] = "tag" /\ front[5] = "insights" /\ front[6] = "sentiment"
    BY <1>1, <2>1
  <2> QED
    BY <2>4, <2>5, Zenon DEF front
<1> HIDE DEF At
<1> QED
  BY <1>1, <1>3, <1>4, <1>5

LEMMA RunningPhases ==
  ASSUME NEW i \in Running
  PROVE  question.phase[i] \in {"reset", "embed", "classify", "tag", "insights", "sentiment"}
BY ChainFacts, Zenon DEF Running

(* A question that is evaluated is not the empty one. *)
LEMMA EvaluationIsAsked ==
  /\ Evaluating => question # Nobody
  /\ question \in Evaluation => question # Nobody /\ Asked("evaluation") /\ ~Asked("nobody")
  /\ question = Nobody => ~Evaluating /\ ~Asked("evaluation")
<1>1. Nobody.of = "nobody"
  BY DEF Nobody
<1> QED
  BY <1>1 DEF Evaluating, Asked, Evaluation

LEMMA RunEvalKeeps ==
  ASSUME RunEval
  PROVE  EvalInv'
<1>1. PICK keep \in SUBSET SKIPPABLE_STAGES, named \in SUBSET Items,
           before \in [Items -> RowsBefore(TRUE) \cup RowsBefore(FALSE)] :
        question' = [of |-> "evaluation", keep |-> keep, named |-> named, before |-> before,
                     phase |-> [i \in Items |-> "waiting"], stored |-> before,
                     saw |-> [i \in Items |-> <<>>], results |-> {}, warned |-> {}, over |-> FALSE]
  BY Zenon DEF RunEval
<1>2. \A named1 \in BOOLEAN : RowsBefore(named1) \in SUBSET Stored
  <2> SUFFICES ASSUME NEW named1 \in BOOLEAN, NEW row \in RowsBefore(named1) PROVE row \in Stored
    OBVIOUS
  <2>1. PICK o \in SUBSET SKIPPABLE_STAGES, f \in SUBSET SKIPPABLE_STAGES : row = ItemRow(o, f)
    BY DEF RowsBefore
  <2>2. Judgeable(f) \in BOOLEAN
    BY DEF Judgeable
  <2> QED
    BY <2>1, <2>2 DEF ItemRow, Stored
<1>3. before \in [Items -> Stored]
  BY <1>2
<1>4. /\ question'.keep = keep /\ question'.before = before
      /\ question'.phase = [i \in Items |-> "waiting"]
      /\ question'.stored = before
      /\ question'.results = {} /\ question'.over = FALSE
  BY <1>1
<1>5. question' \in Evaluation
  <2>1. [i \in Items |-> "waiting"] \in [Items -> Phases]
    BY DEF Phases
  <2>2. [i \in Items |-> <<>>] \in [Items -> Seq(SUBSET SKIPPABLE_STAGES)]
    OBVIOUS
  <2> QED
    BY <1>1, <1>3, <2>1, <2>2 DEF Evaluation
<1>6. Rebuilt(question'.phase, question'.stored)
  BY <1>4 DEF Rebuilt
<1>7. Kept(question'.keep, question'.before, question'.stored)
  <2>1. ASSUME NEW i \in Items PROVE StaysAsItWas(keep, before[i], before[i])
    <3>1. before[i].outputs \in SUBSET SKIPPABLE_STAGES
      BY <1>3 DEF Stored
    <3> QED
      BY <3>1 DEF StaysAsItWas
  <2> QED
    BY <1>4, <2>1 DEF Kept
<1>8. question'.results = {i \in Items : question'.phase[i] = "done"} /\ SeenByAll(question')
  BY <1>4 DEF SeenByAll
<1> QED
  BY <1>4, <1>5, <1>6, <1>7, <1>8 DEF EvalInv

(* An item begins, or is given up: nothing that is stored changes. *)
LEMMA PhaseKeeps ==
  ASSUME EvalInv, Evaluating, NEW i \in Items, question.phase[i] # "done",
         NEW p \in {"reset", "failed"}, question' = [question EXCEPT !.phase[i] = p]
  PROVE  EvalInv'
<1>1. /\ question \in Evaluation /\ question.over = FALSE
      /\ question.results = {j \in Items : question.phase[j] = "done"}
      /\ Rebuilt(question.phase, question.stored)
      /\ Kept(question.keep, question.before, question.stored)
      /\ SeenByAll(question)
  <2>1. question # Nobody /\ ~question.over
    BY EvaluationIsAsked DEF Evaluating
  <2> QED
    BY <2>1 DEF EvalInv, Evaluation
<1>2. /\ question'.keep = question.keep /\ question'.before = question.before
      /\ question'.phase = [question.phase EXCEPT ![i] = p]
      /\ question'.stored = question.stored /\ question'.saw = question.saw
      /\ question'.results = question.results /\ question'.over = FALSE
  BY <1>1 DEF Evaluation
<1>3. question' \in Evaluation
  BY <1>1 DEF Evaluation, Phases
<1>4. question.phase \in [Items -> Phases]
  BY <1>1 DEF Evaluation
<1>5. question'.results = {j \in Items : question'.phase[j] = "done"}
  BY <1>1, <1>2, <1>4
<1>6. Rebuilt(question'.phase, question'.stored)
  BY <1>1, <1>2, <1>4 DEF Rebuilt
<1>7. Kept(question'.keep, question'.before, question'.stored) /\ SeenByAll(question')
  BY <1>1, <1>2 DEF SeenByAll
<1> QED
  BY <1>2, <1>3, <1>5, <1>6, <1>7 DEF EvalInv

(* What the steps that store something of an item have in common. *)
Stores(i, p, row, saw, results) ==
  /\ question'.keep = question.keep /\ question'.before = question.before
  /\ question'.phase = [question.phase EXCEPT ![i] = p]
  /\ question'.stored = [question.stored EXCEPT ![i] = row]
  /\ question'.saw = saw /\ question'.results = results /\ question'.over = FALSE
  /\ \A j \in Items : j # i => saw[j] = question.saw[j]
  /\ results = IF p = "done" THEN question.results \cup {i} ELSE question.results

(* The outputs that must be there before a stage begins. *)
BuiltInOrder(p, row) ==
  /\ p \in {"classify", "tag", "insights", "sentiment", "done"} => "embed" \in row.outputs
  /\ p \in {"tag", "insights", "sentiment", "done"} => "classify" \in row.outputs
  /\ p \in {"insights", "sentiment", "done"} => "tag" \in row.outputs
  /\ p \in {"sentiment", "done"} => "insights" \in row.outputs
  /\ p = "done" => row.verdict = Judgeable(row.found)

LEMMA StoreKeeps ==
  ASSUME EvalInv, Evaluating, NEW i \in Items, question.phase[i] # "done",
         NEW p \in Phases, NEW row \in Stored, NEW saw, NEW results,
         Stores(i, p, row, saw, results), BuiltInOrder(p, row), question' \in Evaluation,
         StaysAsItWas(question.keep, question.before[i], row),
         p = "done" /\ row.verdict => SeenAsItWas(question.keep, question.before, i, saw[i])
  PROVE  EvalInv'
<1>a. /\ question'.keep = question.keep /\ question'.before = question.before
      /\ question'.phase = [question.phase EXCEPT ![i] = p]
      /\ question'.stored = [question.stored EXCEPT ![i] = row]
      /\ question'.saw = saw /\ question'.results = results /\ question'.over = FALSE
      /\ \A j \in Items : j # i => saw[j] = question.saw[j]
      /\ results = IF p = "done" THEN question.results \cup {i} ELSE question.results
  BY Zenon DEF Stores
<1>b. /\ p \in {"classify", "tag", "insights", "sentiment", "done"} => "embed" \in row.outputs
      /\ p \in {"tag", "insights", "sentiment", "done"} => "classify" \in row.outputs
      /\ p \in {"insights", "sentiment", "done"} => "tag" \in row.outputs
      /\ p \in {"sentiment", "done"} => "insights" \in row.outputs
      /\ p = "done" => row.verdict = Judgeable(row.found)
  BY Zenon DEF BuiltInOrder
<1>1. /\ question \in Evaluation
      /\ question.results = {j \in Items : question.phase[j] = "done"}
      /\ Rebuilt(question.phase, question.stored)
      /\ Kept(question.keep, question.before, question.stored)
      /\ SeenByAll(question)
  <2>1. question # Nobody
    BY EvaluationIsAsked
  <2> QED
    BY <2>1 DEF EvalInv
<1>2. question.phase \in [Items -> Phases] /\ question.stored \in [Items -> Stored]
  BY <1>1 DEF Evaluation
<1>3. question'.results = {j \in Items : question'.phase[j] = "done"}
  BY <1>1, <1>2, <1>a
<1>4. Rebuilt(question'.phase, question'.stored)
  <2> SUFFICES ASSUME NEW j \in Items
               PROVE  /\ question'.phase[j] \in {"classify", "tag", "insights", "sentiment", "done"} =>
                           "embed" \in question'.stored[j].outputs
                      /\ question'.phase[j] \in {"tag", "insights", "sentiment", "done"} =>
                           "classify" \in question'.stored[j].outputs
                      /\ question'.phase[j] \in {"insights", "sentiment", "done"} =>
                           "tag" \in question'.stored[j].outputs
                      /\ question'.phase[j] \in {"sentiment", "done"} =>
                           "insights" \in question'.stored[j].outputs
                      /\ question'.phase[j] = "done" =>
                           question'.stored[j].verdict = Judgeable(question'.stored[j].found)
    BY Zenon DEF Rebuilt
  <2>1. CASE j = i
    <3>1. question'.phase[j] = p /\ question'.stored[j] = row
      BY <1>2, <1>a, <2>1
    <3> QED
      BY <1>b, <3>1, Zenon
  <2>2. CASE j # i
    <3>1. question'.phase[j] = question.phase[j] /\ question'.stored[j] = question.stored[j]
      BY <1>2, <1>a, <2>2
    <3> QED
      BY <1>1, <3>1, Zenon DEF Rebuilt
  <2> QED
    BY <2>1, <2>2
<1>5. Kept(question'.keep, question'.before, question'.stored)
  <2> SUFFICES ASSUME NEW j \in Items
               PROVE  StaysAsItWas(question.keep, question.before[j], question'.stored[j])
    BY <1>a, Zenon DEF Kept
  <2>1. CASE j = i
    <3>1. question'.stored[j] = row
      BY <1>2, <1>a, <2>1
    <3> QED
      BY <2>1, <3>1
  <2>2. CASE j # i
    <3>1. question'.stored[j] = question.stored[j]
      BY <1>2, <1>a, <2>2
    <3> QED
      BY <1>1, <3>1 DEF Kept
  <2> QED
    BY <2>1, <2>2
<1>6. ASSUME NEW j \in results, question'.stored[j].verdict
      PROVE  SeenAsItWas(question.keep, question.before, j, saw[j])
  <2>0. j \in Items
    BY <1>1, <1>a
  <2>1. CASE j = i
    <3>1. question.phase[i] # "done" /\ i \notin question.results
      BY <1>1
    <3>2. p = "done" /\ question'.stored[j] = row
      BY <1>2, <1>6, <1>a, <2>1, <3>1
    <3> QED
      BY <1>6, <2>1, <3>2
  <2>2. CASE j # i
    <3>1. j \in question.results /\ question'.stored[j] = question.stored[j] /\ saw[j] = question.saw[j]
      BY <1>2, <1>6, <1>a, <2>0, <2>2
    <3> QED
      BY <1>1, <1>6, <3>1 DEF SeenByAll
  <2> QED
    BY <2>1, <2>2
<1>7. SeenByAll(question')
  BY <1>6, <1>a DEF SeenByAll
<1> QED
  BY <1>3, <1>4, <1>5, <1>7, <1>a DEF EvalInv

LEMMA ResetArticleKeeps ==
  ASSUME EvalInv, NEW i \in Items, ResetArticle(i)
  PROVE  EvalInv'
<1>1. Evaluating /\ question.phase[i] = "reset" /\ question \in Evaluation
  BY EvaluationIsAsked DEF ResetArticle, InPhase, EvalInv
<1>2. question.stored[i] \in Stored /\ question.keep \in SUBSET SKIPPABLE_STAGES
  BY <1>1 DEF Evaluation
<1>3. PICK row \in Stored :
        row = [outputs |-> question.stored[i].outputs \cap question.keep,
               found |-> question.stored[i].found \cap question.keep, verdict |-> FALSE]
  BY <1>2 DEF Stored
<1>4. question' = [question EXCEPT !.phase[i] = "embed", !.stored[i] = row]
  BY <1>1, <1>3, ChainFacts DEF ResetArticle
<1>5. /\ question'.keep = question.keep /\ question'.before = question.before
      /\ question'.phase = [question.phase EXCEPT ![i] = "embed"]
      /\ question'.stored = [question.stored EXCEPT ![i] = row]
      /\ question'.saw = question.saw /\ question'.results = question.results
      /\ question'.over = question.over
  BY <1>1, <1>4 DEF Evaluation
<1>6. question' \in Evaluation
  BY <1>1, <1>4 DEF Evaluation, Phases
<1>7. StaysAsItWas(question.keep, question.before[i], row)
  <2>1. StaysAsItWas(question.keep, question.before[i], question.stored[i])
    BY <1>1, EvaluationIsAsked DEF EvalInv, Kept
  <2>2. /\ row.outputs = question.stored[i].outputs \cap question.keep
        /\ row.found = question.stored[i].found \cap question.keep
    BY <1>3
  <2> QED
    BY <2>1, <2>2 DEF StaysAsItWas
<1>8. PICK p \in Phases : p = "embed"
  BY DEF Phases
<1>9. PICK saw, results : saw = question.saw /\ results = question.results
  OBVIOUS
<1>10. question.over = FALSE
  BY <1>1 DEF Evaluating, Evaluation
<1>11. Stores(i, p, row, saw, results)
  BY <1>5, <1>8, <1>9, <1>10 DEF Stores
<1>12. BuiltInOrder(p, row) /\ p # "done" /\ question.phase[i] # "done"
  BY <1>1, <1>8 DEF BuiltInOrder
<1> QED
  BY <1>1, <1>6, <1>7, <1>11, <1>12, StoreKeeps

LEMMA RunStageKeeps ==
  ASSUME EvalInv, NEW i \in Items, RunStage(i)
  PROVE  EvalInv'
<1>1. Evaluating /\ question.phase[i] \in SKIPPABLE_STAGES /\ question \in Evaluation
  BY EvaluationIsAsked DEF RunStage, InPhase, EvalInv
<1>2. PICK s \in SKIPPABLE_STAGES : s = question.phase[i]
  BY <1>1
<1>3. PICK more \in (IF s \in question.stored[i].outputs THEN {{}} ELSE MayFind(i, s)) :
        question' = [question EXCEPT !.phase[i] = NextPhase(s),
          !.stored[i] = [outputs |-> @.outputs \cup {s}, found |-> @.found \cup more,
                         verdict |-> @.verdict]]
  BY <1>2, Zenon DEF RunStage
<1>4. question.stored[i] \in Stored /\ question.stored \in [Items -> Stored]
  BY <1>1 DEF Evaluation
<1>5. more \in SUBSET {s} /\ (s \in question.stored[i].outputs => more = {})
  <2>1. MayFind(i, s) \in SUBSET (SUBSET {s})
    BY DEF MayFind, SKIPPABLE_STAGES
  <2> QED
    BY <1>3, <2>1
<1>6. PICK row \in Stored :
        row = [outputs |-> question.stored[i].outputs \cup {s},
               found |-> question.stored[i].found \cup more,
               verdict |-> question.stored[i].verdict]
  BY <1>4, <1>5 DEF Stored
<1>7. PICK p \in Phases : p = NextPhase(s)
  BY ChainFacts DEF SKIPPABLE_STAGES, Phases
<1>8. question' = [question EXCEPT !.phase[i] = p, !.stored[i] = row]
  BY <1>1, <1>3, <1>6, <1>7 DEF Evaluation
<1>9. /\ question'.keep = question.keep /\ question'.before = question.before
      /\ question'.phase = [question.phase EXCEPT ![i] = p]
      /\ question'.stored = [question.stored EXCEPT ![i] = row]
      /\ question'.saw = question.saw /\ question'.results = question.results
      /\ question'.over = question.over
  BY <1>1, <1>8 DEF Evaluation
<1>10. question' \in Evaluation
  BY <1>1, <1>8 DEF Evaluation
<1>11. Rebuilt(question.phase, question.stored)
  BY <1>1, EvaluationIsAsked DEF EvalInv
<1>12. BuiltInOrder(p, row) /\ p # "done"
  <2>1. row.outputs = question.stored[i].outputs \cup {s}
    BY <1>6
  <2>2. CASE s = "embed"
    BY <1>7, <2>1, <2>2, ChainFacts DEF BuiltInOrder
  <2>3. CASE s = "classify"
    <3>1. "embed" \in question.stored[i].outputs
      BY <1>2, <1>11, <2>3 DEF Rebuilt
    <3> QED
      BY <1>7, <2>1, <2>3, <3>1, ChainFacts DEF BuiltInOrder
  <2>4. CASE s = "tag"
    <3>1. "embed" \in question.stored[i].outputs /\ "classify" \in question.stored[i].outputs
      BY <1>2, <1>11, <2>4 DEF Rebuilt
    <3> QED
      BY <1>7, <2>1, <2>4, <3>1, ChainFacts DEF BuiltInOrder
  <2>5. CASE s = "insights"
    <3>1. /\ "embed" \in question.stored[i].outputs /\ "classify" \in question.stored[i].outputs
          /\ "tag" \in question.stored[i].outputs
      BY <1>2, <1>11, <2>5 DEF Rebuilt
    <3> QED
      BY <1>7, <2>1, <2>5, <3>1, ChainFacts DEF BuiltInOrder
  <2> QED
    BY <2>2, <2>3, <2>4, <2>5 DEF SKIPPABLE_STAGES
<1>13. StaysAsItWas(question.keep, question.before[i], row)
  <2>1. StaysAsItWas(question.keep, question.before[i], question.stored[i])
    BY <1>1, EvaluationIsAsked DEF EvalInv, Kept
  <2>2. /\ row.outputs = question.stored[i].outputs \cup {s}
        /\ row.found = question.stored[i].found \cup more
    BY <1>6
  <2> QED
    BY <1>5, <2>1, <2>2 DEF StaysAsItWas
<1>14. question.over = FALSE /\ question.phase[i] # "done"
  BY <1>1 DEF Evaluating, Evaluation, SKIPPABLE_STAGES
<1>15. PICK saw, results : saw = question.saw /\ results = question.results
  OBVIOUS
<1>16. Stores(i, p, row, saw, results)
  BY <1>9, <1>12, <1>14, <1>15 DEF Stores
<1> QED
  BY <1>1, <1>10, <1>12, <1>13, <1>14, <1>16, StoreKeeps

LEMMA JudgeKeeps ==
  ASSUME EvalInv, NEW i \in Items, Judge(i)
  PROVE  EvalInv'
<1>1. Evaluating /\ question.phase[i] = "sentiment" /\ question \in Evaluation
  BY EvaluationIsAsked DEF Judge, InPhase, EvalInv
<1>2. question.stored[i] \in Stored /\ question.stored \in [Items -> Stored]
  BY <1>1 DEF Evaluation
<1>3. PICK judged \in BOOLEAN : judged = Judgeable(question.stored[i].found)
  BY DEF Judgeable
<1>4. PICK view : view = IF judged THEN [j \in 1..(i - 1) |-> question.stored[j].found]
                                   ELSE question.saw[i]
  OBVIOUS
<1>5. view \in Seq(SUBSET SKIPPABLE_STAGES)
  <2>1. CASE judged = TRUE
    <3>1. i - 1 \in Nat /\ 1..(i - 1) \in SUBSET Items
      BY EvalAssumption DEF Items
    <3>2. [j \in 1..(i - 1) |-> question.stored[j].found] \in [1..(i - 1) -> SUBSET SKIPPABLE_STAGES]
      BY <1>2, <3>1 DEF Stored
    <3>3. PICK n \in Nat : n = i - 1
      BY <3>1
    <3>4. PICK f \in [1..n -> SUBSET SKIPPABLE_STAGES] :
            f = [j \in 1..(i - 1) |-> question.stored[j].found]
      BY <3>2, <3>3
    <3>5. f \in Seq(SUBSET SKIPPABLE_STAGES)
      BY FunctionIsList
    <3> QED
      BY <1>4, <2>1, <3>4, <3>5
  <2>2. CASE judged = FALSE
    BY <1>1, <1>4, <2>2 DEF Evaluation
  <2> QED
    BY <2>1, <2>2
<1>6. PICK row \in Stored :
        row = [outputs |-> question.stored[i].outputs, found |-> question.stored[i].found,
               verdict |-> judged]
  BY <1>2 DEF Stored
<1>7. question' = [question EXCEPT !.phase[i] = "done", !.stored[i].verdict = judged,
                                   !.results = @ \cup {i}, !.saw[i] = view]
  <2>1. question' = [question EXCEPT !.phase[i] = "done", !.stored[i].verdict = judged,
          !.results = @ \cup {i},
          !.saw[i] = IF judged THEN [j \in 1..(i - 1) |-> question.stored[j].found] ELSE @]
    BY <1>3, Zenon DEF Judge
  <2>2. question.saw \in [Items -> Seq(SUBSET SKIPPABLE_STAGES)]
    BY <1>1 DEF Evaluation
  <2>3. CASE judged = TRUE
    BY <1>4, <2>1, <2>3
  <2>4. CASE judged = FALSE
    <3>1. view = question.saw[i]
      BY <1>4, <2>4
    <3>2. question' = [question EXCEPT !.phase[i] = "done", !.stored[i].verdict = judged,
            !.results = @ \cup {i}, !.saw[i] = @]
      BY <2>1, <2>4
    <3> QED
      BY <1>1, <2>2, <3>1, <3>2 DEF Evaluation
  <2> QED
    BY <2>3, <2>4
<1>8. question' = [question EXCEPT !.phase[i] = "done", !.stored[i] = row,
                                   !.results = @ \cup {i}, !.saw[i] = view]
  <2>1. [question.stored EXCEPT ![i].verdict = judged] = [question.stored EXCEPT ![i] = row]
    BY <1>2, <1>6 DEF Stored
  <2> QED
    BY <1>1, <1>7, <2>1 DEF Evaluation
<1>9. PICK saw \in [Items -> Seq(SUBSET SKIPPABLE_STAGES)] : saw = [question.saw EXCEPT ![i] = view]
  BY <1>1, <1>5 DEF Evaluation
<1>10. PICK results \in SUBSET Items : results = question.results \cup {i}
  BY <1>1 DEF Evaluation
<1>11. /\ question'.keep = question.keep /\ question'.before = question.before
       /\ question'.phase = [question.phase EXCEPT ![i] = "done"]
       /\ question'.stored = [question.stored EXCEPT ![i] = row]
       /\ question'.saw = saw /\ question'.results = results
       /\ question'.over = question.over
  BY <1>1, <1>8, <1>9, <1>10 DEF Evaluation
<1>12. question' \in Evaluation
  BY <1>1, <1>5, <1>8 DEF Evaluation, Phases
<1>13. \A j \in Items : j # i => saw[j] = question.saw[j]
  BY <1>1, <1>9 DEF Evaluation
<1>14. saw[i] = view
  BY <1>1, <1>9 DEF Evaluation
<1>15. /\ Rebuilt(question.phase, question.stored)
       /\ Kept(question.keep, question.before, question.stored)
  BY <1>1, EvaluationIsAsked DEF EvalInv
<1>16. PICK p \in Phases : p = "done"
  BY DEF Phases
<1>17. BuiltInOrder(p, row) /\ question.phase[i] # "done"
  <2>1. row.outputs = question.stored[i].outputs /\ row.verdict = Judgeable(row.found)
    BY <1>3, <1>6
  <2>2. /\ "embed" \in question.stored[i].outputs /\ "classify" \in question.stored[i].outputs
        /\ "tag" \in question.stored[i].outputs /\ "insights" \in question.stored[i].outputs
    BY <1>1, <1>15 DEF Rebuilt
  <2> QED
    BY <1>1, <2>1, <2>2 DEF BuiltInOrder
<1>18. StaysAsItWas(question.keep, question.before[i], row)
  <2>1. StaysAsItWas(question.keep, question.before[i], question.stored[i])
    BY <1>15 DEF Kept
  <2>2. row.outputs = question.stored[i].outputs /\ row.found = question.stored[i].found
    BY <1>6
  <2> QED
    BY <2>1, <2>2 DEF StaysAsItWas
<1>19. row.verdict => SeenAsItWas(question.keep, question.before, i, saw[i])
  <2> SUFFICES ASSUME row.verdict, NEW j \in 1..(i - 1), NEW s \in question.keep \cap question.before[j].outputs
               PROVE  s \in view[j] <=> s \in question.before[j].found
    BY <1>14 DEF SeenAsItWas
  <2>1. view[j] = question.stored[j].found
    BY <1>4, <1>6
  <2>2. j \in Items
    BY EvalAssumption DEF Items
  <2>3. StaysAsItWas(question.keep, question.before[j], question.stored[j])
    BY <1>15, <2>2 DEF Kept
  <2> QED
    BY <2>1, <2>3 DEF StaysAsItWas
<1>20. question.over = FALSE
  BY <1>1 DEF Evaluating, Evaluation
<1>21. Stores(i, p, row, saw, results)
  BY <1>10, <1>11, <1>13, <1>16, <1>20 DEF Stores
<1> QED
  BY <1>1, <1>12, <1>17, <1>18, <1>19, <1>21, StoreKeeps

LEMMA EvalEndsKeeps ==
  ASSUME EvalInv, EvalEnds
  PROVE  EvalInv'
<1>1. question \in Evaluation /\ \A i \in Items : question.phase[i] \in {"done", "failed"}
  BY EvaluationIsAsked DEF EvalEnds, EvalInv
<1>2. question' = [question EXCEPT !.over = TRUE, !.warned = Items \ question.results]
  BY Zenon DEF EvalEnds
<1>3. /\ question'.keep = question.keep /\ question'.before = question.before
      /\ question'.phase = question.phase /\ question'.stored = question.stored
      /\ question'.saw = question.saw /\ question'.results = question.results
      /\ question'.warned = Items \ question.results /\ question'.over = TRUE
  BY <1>1, <1>2 DEF Evaluation
<1>4. question' \in Evaluation
  BY <1>1, <1>2, <1>3 DEF Evaluation
<1>5. question # Nobody
  BY <1>1, EvaluationIsAsked
<1>6. SeenByAll(question')
  <2>1. SeenByAll(question)
    BY <1>5 DEF EvalInv
  <2> QED
    BY <1>3, <2>1 DEF SeenByAll
<1> QED
  BY <1>1, <1>3, <1>4, <1>5, <1>6 DEF EvalInv

(* The inductive invariant holds throughout an evaluation. *)
THEOREM EvaluationIsSound == EvalSpec => []EvalInv
<1>1. question = Nobody => EvalInv
  BY DEF EvalInv
<1>2. EvalInv /\ [EvalStep]_question => EvalInv'
  <2> SUFFICES ASSUME EvalInv, [EvalStep]_question PROVE EvalInv'
    OBVIOUS
  <2>1. CASE RunEval
    BY <2>1, RunEvalKeeps
  <2>2. CASE EvalEnds
    BY <2>2, EvalEndsKeeps
  <2>3. ASSUME NEW i \in Items, BeginItem(i) PROVE EvalInv'
    <3>1. /\ Evaluating /\ question.phase[i] # "done"
          /\ question' = [question EXCEPT !.phase[i] = "reset"]
      BY <2>3 DEF BeginItem, InPhase
    <3> QED
      BY <3>1, PhaseKeeps
  <2>4. ASSUME NEW i \in Items, ResetArticle(i) PROVE EvalInv'
    BY <2>4, ResetArticleKeeps
  <2>5. ASSUME NEW i \in Items, RunStage(i) PROVE EvalInv'
    BY <2>5, RunStageKeeps
  <2>6. ASSUME NEW i \in Items, Judge(i) PROVE EvalInv'
    BY <2>6, JudgeKeeps
  <2>7. ASSUME NEW i \in Items, ItemFails(i) PROVE EvalInv'
    <3>1. Evaluating /\ question' = [question EXCEPT !.phase[i] = "failed"]
      BY <2>7 DEF ItemFails
    <3>2. question.phase[i] # "done"
      <4>1. i \in Running
        BY <2>7 DEF ItemFails
      <4> QED
        BY <4>1, RunningPhases
    <3> QED
      BY <3>1, <3>2, PhaseKeeps
  <2>8. CASE UNCHANGED question
    BY <2>8, Zenon DEF EvalInv
  <2> QED
    BY <2>1, <2>2, <2>3, <2>4, <2>5, <2>6, <2>7, <2>8, Zenon DEF EvalStep
<1> QED
  BY <1>1, <1>2, PTL DEF EvalSpec

(* For any number of articles, however their stages interleave and         *)
(* whichever fail: when an evaluation ends, every item it does not warn    *)
(* about has the outputs of all its stages, and a verdict exactly if it is *)
(* actionable, has a ticker and has insights.                              *)
THEOREM LeftResetIsAlwaysReported == EvalSpec => []LeftResetIsReported
<1>1. EvalInv => LeftResetIsReported
  <2> SUFFICES ASSUME EvalInv, Asked("evaluation"), question.over,
                      NEW i \in Items \ question.warned
               PROVE  /\ question.stored[i].outputs = SKIPPABLE_STAGES
                      /\ question.stored[i].verdict <=> Judgeable(question.stored[i].found)
    BY Zenon DEF LeftResetIsReported
  <2>1. question # Nobody
    BY EvaluationIsAsked
  <2>2. /\ question \in Evaluation /\ question.warned = Items \ question.results
        /\ question.results = {j \in Items : question.phase[j] = "done"}
        /\ Rebuilt(question.phase, question.stored)
    BY <2>1 DEF EvalInv
  <2>3. question.phase[i] = "done" /\ question.stored[i] \in Stored
    BY <2>2 DEF Evaluation
  <2>4. /\ {"embed", "classify", "tag", "insights"} \subseteq question.stored[i].outputs
        /\ question.stored[i].verdict = Judgeable(question.stored[i].found)
    BY <2>2, <2>3 DEF Rebuilt
  <2> QED
    BY <2>3, <2>4 DEF Stored, SKIPPABLE_STAGES
<1> QED
  BY <1>1, EvaluationIsSound, PTL

(* For any number of articles, however their stages interleave and         *)
(* whichever fail: in every retrieval mode all of whose stages are kept,   *)
(* with or without the restriction to actionable articles, whoever is      *)
(* judged finds of every earlier item that had those outputs what was      *)
(* found of it before the evaluation.                                      *)
THEOREM PrecedentsAreAlwaysWhole == EvalSpec => []PrecedentsWhole
<1>1. EvalInv => PrecedentsWhole
  <2> SUFFICES ASSUME EvalInv, Asked("evaluation"), NEW mode \in DOMAIN Asks, NEW realNewsOnly \in BOOLEAN,
                      NEW needs, needs = Needs(mode, realNewsOnly), needs \subseteq question.keep,
                      NEW i \in question.results, question.stored[i].verdict,
                      NEW j \in 1..(i - 1), needs \subseteq question.before[j].outputs
               PROVE  needs \subseteq question.saw[i][j] <=> needs \subseteq question.before[j].found
    BY DEF PrecedentsWhole
  <2>1. SeenByAll(question)
    BY EvaluationIsAsked DEF EvalInv
  <2>2. SeenAsItWas(question.keep, question.before, i, question.saw[i])
    BY <2>1 DEF SeenByAll
  <2>3. \A s \in needs : s \in question.saw[i][j] <=> s \in question.before[j].found
    BY <2>2 DEF SeenAsItWas
  <2> QED
    BY <2>3
<1> QED
  BY <1>1, EvaluationIsSound, PTL


-----------------------------------------------------------------------------
(***************************************************************************)
(* The trades                                                              *)
(***************************************************************************)

(* Tickers are strings; that a literal is one must be told to the provers. *)
Names == STRING \cup {"A", "B", "C"}
Bars == [ticker : Names, t : Nat, open : Int]
Closes == [ticker : Names, day : Nat, price : Int]

(* The time a headline was published at, of the backtest and of a catalyst. *)
LEMMA TimesOfDay ==
  /\ \A at \in Nat : MinuteOf(at) \in Nat
  /\ \A t \in Nat : /\ DayOfMinute(t) \in Nat /\ InDay(t) \in 0..3
                    /\ t = 4 * DayOfMinute(t) + InDay(t)
  /\ \A t, u \in Nat : t <= u => DayOfMinute(t) <= DayOfMinute(u)
<1>1. \A at \in Nat : MinuteOf(at) \in Nat
  BY DEF MinuteOf
<1>2. ASSUME NEW t \in Nat
      PROVE  /\ DayOfMinute(t) \in Nat /\ InDay(t) \in 0..3
             /\ t = 4 * DayOfMinute(t) + InDay(t)
  BY DEF DayOfMinute, InDay
<1>3. \A t, u \in Nat : t <= u => DayOfMinute(t) <= DayOfMinute(u)
  BY DEF DayOfMinute
<1> QED
  BY <1>1, <1>2, <1>3

LEMMA EarliestIsLeast ==
  ASSUME NEW S \in SUBSET Nat, S # {}
  PROVE  Earliest(S) \in S /\ \A x \in S : Earliest(S) <= x
<1>1. \E m \in S : \A x \in S : m <= x
  BY LeastExists
<1> QED
  BY <1>1 DEF Earliest

(* Of which prices a trade is made. *)
Opens(trade, a, p, buy) ==
  /\ buy \in p.bars /\ trade.buy = buy.t /\ buy.t >= MinuteOf(a.at)
  /\ \A b \in p.bars : b.t >= MinuteOf(a.at) => buy.t <= b.t

LEMMA TradeShape ==
  ASSUME NEW a, a.at \in Nat, NEW p, p.bars \in SUBSET Bars, p.close \in SUBSET Closes,
         NEW late, NEW trade, trade = Simulate(a, p, late), trade.traded
  PROVE  /\ \E buy : Opens(trade, a, p, buy)
         /\ trade.buy \in Nat /\ trade.sellDay \in Nat /\ trade.gain \in Int
         /\ 4 * trade.sellDay + CloseMinute > trade.buy
<1> DEFINE later == {b.t : b \in {x \in p.bars : x.t >= MinuteOf(a.at)}}
           buy == CHOOSE b \in p.bars : b.t = Earliest(later)
           sellDays == IF InDay(buy.t) < CloseMinute THEN {DayOfMinute(buy.t)}
                       ELSE IF late THEN NextTradingDay(p, DayOfMinute(buy.t)) ELSE {}
           sold == {c \in p.close : sellDays # {} /\ c.day = Earliest(sellDays)}
<1>1. trade = IF later = {} \/ buy.open <= 0 \/ sold = {} THEN NoTrade
              ELSE [traded |-> TRUE, buy |-> buy.t, sellDay |-> Earliest(sellDays),
                    session |-> SessionOf(buy.t),
                    gain |-> (CHOOSE c \in sold : TRUE).price - buy.open]
  BY Zenon DEF Simulate
<1> HIDE DEF sold, sellDays, buy, later
<1>2. /\ later # {} /\ sold # {}
      /\ trade.buy = buy.t /\ trade.sellDay = Earliest(sellDays)
      /\ trade.gain = (CHOOSE c \in sold : TRUE).price - buy.open
  <2>1. NoTrade.traded = FALSE
    BY DEF NoTrade
  <2>2. ~(later = {} \/ buy.open <= 0 \/ sold = {})
    BY <1>1, <2>1
  <2> QED
    BY <1>1, <2>2
<1>3. later \in SUBSET Nat
  BY DEF later, Bars
<1>4. Earliest(later) \in later /\ \A t \in later : Earliest(later) <= t
  BY <1>2, <1>3, EarliestIsLeast
<1>5. buy \in p.bars /\ buy.t = Earliest(later)
  BY <1>4 DEF buy, later
<1>6. buy.t \in Nat /\ buy.t >= MinuteOf(a.at)
  <2>1. MinuteOf(a.at) \in Nat
    BY TimesOfDay
  <2> QED
    BY <1>4, <1>5, <2>1 DEF later, Bars
<1>7. \A b \in p.bars : b.t >= MinuteOf(a.at) => buy.t <= b.t
  BY <1>4, <1>5 DEF later
<1>8. sellDays # {} /\ sellDays \in SUBSET Nat /\ \A d \in sellDays : 4 * d + CloseMinute > buy.t
  <2>1. sellDays # {}
    BY <1>2 DEF sold
  <2>2. DayOfMinute(buy.t) \in Nat /\ InDay(buy.t) \in 0..3
        /\ buy.t = 4 * DayOfMinute(buy.t) + InDay(buy.t)
    BY <1>6, TimesOfDay
  <2>3. CASE InDay(buy.t) < CloseMinute
    <3>1. sellDays = {DayOfMinute(buy.t)}
      BY <2>3 DEF sellDays
    <3> QED
      BY <2>1, <2>2, <2>3, <3>1 DEF CloseMinute
  <2>4. CASE ~(InDay(buy.t) < CloseMinute)
    <3>1. sellDays = NextTradingDay(p, DayOfMinute(buy.t))
      BY <2>1, <2>4 DEF sellDays
    <3>2. \A d \in sellDays : d \in Nat /\ d > DayOfMinute(buy.t)
      BY <3>1 DEF NextTradingDay, Closes
    <3>3. ASSUME NEW d \in sellDays PROVE 4 * d + CloseMinute > buy.t
      <4>1. d \in Nat /\ d >= DayOfMinute(buy.t) + 1
        BY <2>2, <3>2
      <4> QED
        BY <2>2, <4>1 DEF CloseMinute
    <3> QED
      BY <2>1, <3>2, <3>3
  <2> QED
    BY <2>3, <2>4
<1>9. Earliest(sellDays) \in sellDays
  BY <1>8, EarliestIsLeast
<1>10. Opens(trade, a, p, buy)
  BY <1>2, <1>5, <1>6, <1>7 DEF Opens
<1>11. trade.gain \in Int
  <2>1. PICK c : c = CHOOSE x \in sold : TRUE
    OBVIOUS
  <2>2. c \in sold
    BY <1>2, <2>1
  <2>3. c \in p.close
    BY <2>2 DEF sold
  <2>4. c.price \in Int /\ buy.open \in Int
    BY <1>5, <2>3 DEF Closes, Bars
  <2> QED
    BY <1>2, <2>1, <2>4
<1> QED
  BY <1>2, <1>6, <1>8, <1>9, <1>10, <1>11

(* The prices that are fetched are of the market. *)
LEMMA FetchedAreStored ==
  ASSUME NEW q, q.bars \in SUBSET Bars, q.closes \in SUBSET Closes, NEW ticker, NEW lo, NEW hi,
         NEW p, p = Prices(q, ticker, lo, hi)
  PROVE  /\ p.bars \in SUBSET Bars /\ p.close \in SUBSET Closes
         /\ \A b \in p.bars : b \in q.bars /\ b.ticker = ticker
<1>1. /\ p.bars = {b \in q.bars : b.ticker = ticker /\ DayOfMinute(b.t) \in lo..hi}
      /\ p.close = {c \in q.closes : c.ticker = ticker /\ c.day \in lo..hi}
  BY DEF Prices
<1> QED
  BY <1>1

(* What the command line and the market data guarantee of a backtest: the  *)
(* verdicts are the stored ones, and a ticker has one bar per minute.      *)
Verdicts == [ticker : Names, action : {"buy", "sell", "hold"}, at : Nat, confidence : Nat]

BacktestAsked(q) ==
  /\ q \in [of : {"backtest"}, includeHold : BOOLEAN, failed : SUBSET Names,
            verdicts : Seq(Verdicts), bars : SUBSET Bars, closes : SUBSET Closes]
  /\ \A b, c \in q.bars : b.ticker = c.ticker /\ b.t = c.t => b = c

CatalystsAsked(q) ==
  /\ q.articles \in SUBSET [id : Nat, primary : Names, more : SUBSET Names, at : Nat]
  /\ q.bars \in SUBSET Bars /\ q.closes \in SUBSET Closes

(* The backtests and the catalyst reports that are model-checked are such. *)
LEMMA AskedCloses ==
  ASSUME NEW tickers, tickers \in SUBSET Names, NEW days, days \in SUBSET (0..4)
  PROVE  ClosesOf(tickers, days) \in SUBSET Closes
<1>1. \A pair \in tickers \X days : [ticker |-> pair[1], day |-> pair[2], price |-> 1] \in Closes
  <2>1. \A tk \in tickers, d \in days : [ticker |-> tk, day |-> d, price |-> 1] \in Closes
    BY DEF Closes
  <2>2. \A pair \in tickers \X days : pair[1] \in tickers /\ pair[2] \in days
    OBVIOUS
  <2> QED
    BY <2>1, <2>2
<1> QED
  BY <1>1 DEF ClosesOf

LEMMA AskedBacktest == AskBacktest => BacktestAsked(question')
<1> SUFFICES ASSUME AskBacktest PROVE BacktestAsked(question')
  OBVIOUS
<1>1. PICK at1 \in EarlyHeadlines, at2 \in Headlines, act1 \in Calls, act2 \in Calls,
           t1 \in Minutes, t2 \in Minutes, hold \in BOOLEAN, failed \in Failures,
           quiet \in QuietDays :
        question' = BacktestQuestion(StoredVerdict(act1, at1, 70), StoredVerdict(act2, at2, 85),
                                     t1, t2, hold, failed, quiet)
  BY DEF AskBacktest
<1>2. PICK v, w : v = StoredVerdict(act1, at1, 70) /\ w = StoredVerdict(act2, at2, 85)
  OBVIOUS
<1>3. PICK bars : bars = {[ticker |-> "A", t |-> t, open |-> t % 3] : t \in {t1, t2}}
  OBVIOUS
<1>4. PICK days : days = (0..4) \ quiet
  OBVIOUS
<1>5. <<v, w>> \in Seq(Verdicts)
  <2>1. v \in Verdicts /\ w \in Verdicts
    BY <1>2 DEF StoredVerdict, Verdicts, Headlines, EarlyHeadlines, Names, Calls
  <2> QED
    BY <2>1
<1>6. bars \in SUBSET Bars /\ \A b, c \in bars : b.t = c.t => b = c
  <2>1. \A t \in {t1, t2} : [ticker |-> "A", t |-> t, open |-> t % 3] \in Bars
    BY DEF Bars, Names, Minutes
  <2> QED
    BY <1>3, <2>1
<1>7. ClosesOf({"A"}, days) \in SUBSET Closes
  <2>1. {"A"} \in SUBSET Names /\ days \in SUBSET (0..4)
    BY <1>4 DEF Names
  <2> QED
    BY <2>1, AskedCloses
<1>8. question' = [of |-> "backtest", includeHold |-> hold, failed |-> failed,
                   verdicts |-> <<v, w>>, bars |-> bars, closes |-> ClosesOf({"A"}, days)]
  BY <1>1, <1>2, <1>3, <1>4, Zenon DEF BacktestQuestion
<1>9. failed \in SUBSET Names
  BY DEF Names, Failures
<1> QED
  BY <1>5, <1>6, <1>7, <1>8, <1>9 DEF BacktestAsked

LEMMA AskedCatalysts == AskCatalysts => CatalystsAsked(question')
<1> SUFFICES ASSUME AskCatalysts PROVE CatalystsAsked(question')
  OBVIOUS
<1> DEFINE Times == Minutes \ {13}
<1>1. PICK at \in Headlines, t1 \in Times, t2 \in Times, t3 \in Times,
           late \in BOOLEAN, all \in BOOLEAN, quiet \in QuietDays, failed \in Failures :
        question' = CatalystQuestion(at, t1, t2, t3, late, all, quiet, failed)
  BY ZenonT(30) DEF AskCatalysts
<1>2. PICK articles : articles = {[id |-> 1, primary |-> "A", more |-> {"B"}, at |-> at]}
  OBVIOUS
<1>3. PICK bars : bars = {[ticker |-> "A", t |-> t, open |-> 1] : t \in {t1, t2}}
                           \cup {[ticker |-> "B", t |-> t3, open |-> 2]}
  OBVIOUS
<1>4. PICK closes : closes = ClosesOf({"A", "B"}, (0..4) \ quiet)
  OBVIOUS
<1>5. articles \in SUBSET [id : Nat, primary : Names, more : SUBSET Names, at : Nat]
  BY <1>2 DEF Headlines, Names
<1>6. bars \in SUBSET Bars
  <2>1. /\ \A t \in {t1, t2} : [ticker |-> "A", t |-> t, open |-> 1] \in Bars
        /\ [ticker |-> "B", t |-> t3, open |-> 2] \in Bars
    BY DEF Bars, Names, Minutes
  <2> QED
    BY <1>3, <2>1
<1>7. closes \in SUBSET Closes
  <2>1. {"A", "B"} \in SUBSET Names /\ (0..4) \ quiet \in SUBSET (0..4)
    BY DEF Names
  <2> QED
    BY <1>4, <2>1, AskedCloses
<1>8. question' = [of |-> "catalysts", start |-> 0, end |-> 1, includeAfterHours |-> late,
                   allTickers |-> all, tickers |-> {"A", "B"}, failed |-> failed,
                   articles |-> articles, bars |-> bars, closes |-> closes]
  BY <1>1, <1>2, <1>3, <1>4, Zenon DEF CatalystQuestion
<1> QED
  BY <1>5, <1>6, <1>7, <1>8 DEF CatalystsAsked

(* A verdict is traded only with the prices of its ticker. *)
LEMMA TradedVerdict ==
  ASSUME NEW q, NEW v
  PROVE  /\ EvaluateOne(q, v).verdict = v
         /\ EvaluateOne(q, v).trade \in {NoTrade, Simulate(v, FetchedPrices(q, v.ticker), FALSE)}
<1>1. \A trade, reason : Result(v, trade, reason).verdict = v /\ Result(v, trade, reason).trade = trade
  BY DEF Result
<1>2. \/ EvaluateOne(q, v) = Result(v, NoTrade, "hold")
      \/ EvaluateOne(q, v) = Result(v, NoTrade, "no_prices")
      \/ \E reason : EvaluateOne(q, v)
           = Result(v, Simulate(v, FetchedPrices(q, v.ticker), FALSE), reason)
  BY Zenon DEF EvaluateOne
<1> QED
  BY <1>1, <1>2

(* For any verdicts, articles and prices: every position of the backtest   *)
(* and of the catalyst returns is opened no earlier than the headline's    *)
(* minute and closed later, at the close of a day that had not closed yet. *)
THEOREM ExitsFollowEntries ==
  (Asked("backtest") => BacktestAsked(question)) /\ (Asked("catalysts") => CatalystsAsked(question))
    => ExitFollowsEntry
<1> SUFFICES ASSUME Asked("backtest") => BacktestAsked(question),
                    Asked("catalysts") => CatalystsAsked(question)
             PROVE  ExitFollowsEntry
  OBVIOUS
<1>1. ASSUME Asked("backtest"), NEW i \in DOMAIN question.verdicts,
             NEW r, r = EvaluateOne(question, question.verdicts[i]), r.trade.traded
      PROVE  /\ r.trade.buy >= MinuteOf(r.verdict.at)
             /\ 4 * r.trade.sellDay + CloseMinute > r.trade.buy
  <2>1. PICK v \in Verdicts : v = question.verdicts[i]
    BY <1>1 DEF BacktestAsked
  <2>2. PICK p : p = FetchedPrices(question, v.ticker)
    OBVIOUS
  <2>3. p.bars \in SUBSET Bars /\ p.close \in SUBSET Closes
    <3>1. question.bars \in SUBSET Bars /\ question.closes \in SUBSET Closes
      BY <1>1 DEF BacktestAsked
    <3>2. PICK lo, hi : p = Prices(question, v.ticker, lo, hi)
      BY <2>2, Zenon DEF FetchedPrices
    <3> QED
      BY <3>1, <3>2, FetchedAreStored
  <2>4. r.verdict = v /\ r.trade = Simulate(v, p, FALSE)
    <3>1. NoTrade.traded = FALSE
      BY DEF NoTrade
    <3>2. r.verdict = v /\ r.trade \in {NoTrade, Simulate(v, p, FALSE)}
      BY <1>1, <2>1, <2>2, TradedVerdict
    <3> QED
      BY <1>1, <3>1, <3>2
  <2>5. v.at \in Nat
    BY DEF Verdicts
  <2>6. PICK trade : trade = r.trade
    OBVIOUS
  <2>7. trade.traded /\ trade = Simulate(v, p, FALSE)
    BY <1>1, <2>4, <2>6
  <2>8. /\ \E buy : Opens(trade, v, p, buy)
        /\ 4 * trade.sellDay + CloseMinute > trade.buy
    BY <2>3, <2>5, <2>7, TradeShape
  <2> QED
    BY <2>4, <2>6, <2>8 DEF Opens
<1>2. ASSUME Asked("catalysts"), NEW r \in CatalystRows(question)
      PROVE  /\ r.trade.buy >= MinuteOf(r.article.at)
             /\ 4 * r.trade.sellDay + CloseMinute > r.trade.buy
  <2>1. r.trade.traded /\ r \in CatalystRun(question)
    BY DEF CatalystRows
  <2>2. PICK pair \in Pairs(question) :
          /\ r.article = pair[1]
          /\ r.trade = Simulate(pair[1], Prices(question, pair[2], question.start,
                                                question.end + PRICE_TAIL_DAYS),
                                question.includeAfterHours)
    BY <2>1 DEF CatalystRun
  <2>3. pair[1] \in question.articles
    BY DEF Pairs
  <2>4. PICK a : a = pair[1]
    OBVIOUS
  <2>5. a.at \in Nat /\ question.bars \in SUBSET Bars /\ question.closes \in SUBSET Closes
    BY <1>2, <2>3, <2>4 DEF CatalystsAsked
  <2>6. PICK p : p = Prices(question, pair[2], question.start, question.end + PRICE_TAIL_DAYS)
    OBVIOUS
  <2>7. p.bars \in SUBSET Bars /\ p.close \in SUBSET Closes
    BY <2>5, <2>6, FetchedAreStored
  <2>8. PICK trade : trade = r.trade
    OBVIOUS
  <2>9. trade = Simulate(a, p, question.includeAfterHours) /\ trade.traded /\ r.article = a
    BY <2>1, <2>2, <2>4, <2>6, <2>8
  <2>10. /\ \E buy : Opens(trade, a, p, buy)
         /\ 4 * trade.sellDay + CloseMinute > trade.buy
    BY <2>5, <2>7, <2>9, TradeShape
  <2> QED
    BY <2>8, <2>9, <2>10 DEF Opens
<1> QED
  BY <1>1, <1>2, Zenon DEF ExitFollowsEntry

-----------------------------------------------------------------------------
(* Prices that are the same from a headline to a bar after it: those that  *)
(* are fetched for a verdict alone, within those fetched for all of them.  *)
Agree(p, q, a, w) ==
  /\ p.bars \in SUBSET q.bars /\ q.bars \in SUBSET Bars
  /\ \A b, c \in q.bars : b.t = c.t => b = c
  /\ w \in p.bars /\ w.t >= MinuteOf(a.at)
  /\ \A b \in q.bars : b.t >= MinuteOf(a.at) /\ b.t <= w.t => b \in p.bars
  /\ \A t \in Nat : t >= MinuteOf(a.at) /\ t <= w.t =>
       {c \in p.close : c.day = DayOfMinute(t)} = {c \in q.close : c.day = DayOfMinute(t)}

(* A trade that is closed on the day it is opened depends on no other      *)
(* prices.                                                                 *)
LEMMA AlikeTrades ==
  ASSUME NEW p, NEW q, NEW a, a.at \in Nat, NEW w, Agree(p, q, a, w)
  PROVE  Simulate(a, p, FALSE) = Simulate(a, q, FALSE)
<1> DEFINE Later(x) == {b.t : b \in {y \in x.bars : y.t >= MinuteOf(a.at)}}
           Buy(x) == CHOOSE b \in x.bars : b.t = Earliest(Later(x))
           Days(x) == IF InDay(Buy(x).t) < CloseMinute THEN {DayOfMinute(Buy(x).t)}
                      ELSE IF FALSE THEN NextTradingDay(x, DayOfMinute(Buy(x).t)) ELSE {}
           Sold(x) == {c \in x.close : Days(x) # {} /\ c.day = Earliest(Days(x))}
<1>1. \A x : Simulate(a, x, FALSE) =
        IF Later(x) = {} \/ Buy(x).open <= 0 \/ Sold(x) = {} THEN NoTrade
        ELSE [traded |-> TRUE, buy |-> Buy(x).t, sellDay |-> Earliest(Days(x)),
              session |-> SessionOf(Buy(x).t),
              gain |-> (CHOOSE c \in Sold(x) : TRUE).price - Buy(x).open]
  BY Zenon DEF Simulate
<1>2. /\ p.bars \in SUBSET q.bars /\ q.bars \in SUBSET Bars
      /\ \A b, c \in q.bars : b.t = c.t => b = c
      /\ w \in p.bars /\ w.t >= MinuteOf(a.at)
      /\ \A b \in q.bars : b.t >= MinuteOf(a.at) /\ b.t <= w.t => b \in p.bars
      /\ \A t \in Nat : t >= MinuteOf(a.at) /\ t <= w.t =>
           {c \in p.close : c.day = DayOfMinute(t)} = {c \in q.close : c.day = DayOfMinute(t)}
  BY Zenon DEF Agree
<1>3. \A b \in q.bars : b.t \in Nat
  BY <1>2 DEF Bars
<1>4. /\ Later(p) \in SUBSET Nat /\ Later(q) \in SUBSET Nat
      /\ w.t \in Later(p) /\ w.t \in Later(q) /\ Later(p) \in SUBSET Later(q)
      /\ \A t \in Later(q) : t <= w.t => t \in Later(p)
  BY <1>2, <1>3
<1> HIDE DEF Later
<1>5. /\ Earliest(Later(p)) \in Later(p) /\ \A t \in Later(p) : Earliest(Later(p)) <= t
      /\ Earliest(Later(q)) \in Later(q) /\ \A t \in Later(q) : Earliest(Later(q)) <= t
  BY <1>4, EarliestIsLeast
<1>6. Earliest(Later(p)) = Earliest(Later(q))
  BY <1>4, <1>5
<1>7. PICK t \in Nat : t = Earliest(Later(p)) /\ t = Earliest(Later(q)) /\ t <= w.t
  BY <1>4, <1>5, <1>6
<1>8. t \in Later(p) /\ t >= MinuteOf(a.at)
  <2>1. t \in Later(p)
    BY <1>5, <1>7
  <2> QED
    BY <2>1 DEF Later
<1>9. /\ Buy(p) \in q.bars /\ Buy(p).t = t /\ Buy(q) \in q.bars /\ Buy(q).t = t
  <2>1. PICK b \in p.bars : b.t = t
    BY <1>8 DEF Later
  <2>2. b \in q.bars
    BY <1>2, <2>1
  <2>3. Buy(p) \in p.bars /\ Buy(p).t = t
    BY <1>7, <2>1
  <2>4. Buy(q) \in q.bars /\ Buy(q).t = t
    BY <1>7, <2>1, <2>2
  <2> QED
    BY <1>2, <2>3, <2>4
<1> HIDE DEF Buy
<1>10. Buy(p) = Buy(q)
  BY <1>2, <1>9
<1>11. Days(p) = Days(q) /\ (Days(p) # {} => Days(p) = {DayOfMinute(t)})
  BY <1>9, <1>10
<1>12. Sold(p) = Sold(q)
  <2>1. CASE Days(p) = {}
    BY <1>11, <2>1
  <2>2. CASE Days(p) # {}
    <3>1. Earliest(Days(p)) = DayOfMinute(t)
      <4>1. DayOfMinute(t) \in Nat
        BY TimesOfDay
      <4>2. Days(p) \in SUBSET Nat
        BY <1>11, <4>1
      <4>3. Earliest(Days(p)) \in Days(p)
        BY <2>2, <4>2, EarliestIsLeast
      <4> QED
        BY <1>11, <2>2, <4>3
    <3>2. /\ Sold(p) = {c \in p.close : c.day = DayOfMinute(t)}
          /\ Sold(q) = {c \in q.close : c.day = DayOfMinute(t)}
      <4> HIDE DEF Days
      <4> QED
        BY <1>11, <2>2, <3>1
    <3> QED
      BY <1>2, <1>7, <1>8, <3>2
  <2> QED
    BY <2>1, <2>2
<1>13. (Later(p) = {}) = (Later(q) = {})
  BY <1>4
<1> HIDE DEF Days, Sold
<1> QED
  BY <1>1, <1>10, <1>11, <1>12, <1>13

(* The window that a verdict's prices are fetched for, alone and with the  *)
(* other verdicts.                                                         *)
LEMMA WindowOfVerdict ==
  ASSUME NEW q, BacktestAsked(q), NEW i \in DOMAIN q.verdicts, i \in ToPrice(q),
         NEW v, v = q.verdicts[i]
  PROVE  \E lo, hi \in Nat : /\ FetchedPrices(q, v.ticker) = Prices(q, v.ticker, lo, hi + PRICE_TAIL_DAYS)
                             /\ lo <= PublishedDay(v) /\ PublishedDay(v) <= hi
<1> DEFINE mine == {j \in ToPrice(q) : q.verdicts[j].ticker = v.ticker}
           days == PriceWindow(q, v.ticker)
           last == CHOOSE d \in days : \A e \in days : e <= d
<1>1. /\ q.verdicts \in Seq(Verdicts)
      /\ \A j \in DOMAIN q.verdicts : q.verdicts[j] \in Verdicts /\ q.verdicts[j].at \in Nat
  <2>1. q.verdicts \in Seq(Verdicts)
    BY DEF BacktestAsked
  <2>2. \A j \in DOMAIN q.verdicts : q.verdicts[j] \in Verdicts
    BY <2>1
  <2> QED
    BY <2>1, <2>2 DEF Verdicts
<1>2. \A j \in DOMAIN q.verdicts : PublishedDay(q.verdicts[j]) \in Nat
  BY <1>1, TimesOfDay DEF PublishedDay
<1>3. days = {PublishedDay(q.verdicts[j]) : j \in mine}
  BY DEF PriceWindow
<1>4. days \in SUBSET Nat /\ PublishedDay(v) \in days
  BY <1>2, <1>3 DEF ToPrice
<1>5. IsFiniteSet(days)
  <2>2. IsFiniteSet(DOMAIN q.verdicts)
    BY <1>1, FirstNumbers, LenProperties
  <2>3. mine \in SUBSET DOMAIN q.verdicts
    BY DEF ToPrice
  <2>4. IsFiniteSet(mine)
    BY <2>2, <2>3, FS_Subset
  <2> DEFINE day == [j \in mine |-> PublishedDay(q.verdicts[j])]
  <2>5. day \in Surjection(mine, days)
    BY <1>3 DEF Surjection
  <2> HIDE DEF mine, days, day
  <2> QED
    BY <2>4, <2>5, FS_Surjection
<1>6. FetchedPrices(q, v.ticker) = Prices(q, v.ticker, Earliest(days), last + PRICE_TAIL_DAYS)
  BY Zenon DEF FetchedPrices
<1> HIDE DEF days, mine
<1>7. Earliest(days) \in days /\ \A d \in days : Earliest(days) <= d
  BY <1>4, EarliestIsLeast
<1>8. \E d \in days : \A e \in days : e <= d
  BY <1>4, <1>5, GreatestExists
<1>9. last \in days /\ \A e \in days : e <= last
  BY <1>8
<1> QED
  BY <1>4, <1>6, <1>7, <1>9

(* For any verdicts and prices: what a verdict returned does not depend on *)
(* the other verdicts of the backtest, if its ticker trades again within   *)
(* the tail that is fetched after a publication.                           *)
THEOREM VerdictsAreScoredAlike ==
  (Asked("backtest") => BacktestAsked(question)) => ScoredAlike
<1> SUFFICES ASSUME Asked("backtest"), BacktestAsked(question), NEW i \in DOMAIN question.verdicts,
                    NEW v, v = question.verdicts[i],
                    NEW alone, alone = [question EXCEPT !.verdicts = <<v>>],
                    NEW w \in question.bars, w.ticker = v.ticker, w.t >= MinuteOf(v.at),
                    DayOfMinute(w.t) <= PublishedDay(v) + PRICE_TAIL_DAYS
             PROVE  EvaluateOne(question, v) = EvaluateOne(alone, v)
  BY Zenon DEF ScoredAlike
<1>1. v \in Verdicts /\ v.at \in Nat /\ v.ticker \in Names
  <2>1. question.verdicts \in Seq(Verdicts)
    BY DEF BacktestAsked
  <2>2. v \in Verdicts
    BY <2>1
  <2> QED
    BY <2>2 DEF Verdicts
<1>2. /\ alone.includeHold = question.includeHold /\ alone.failed = question.failed
      /\ alone.bars = question.bars /\ alone.closes = question.closes
      /\ alone.verdicts = <<v>> /\ alone.verdicts[1] = v /\ 1 \in DOMAIN alone.verdicts
      /\ alone.verdicts \in Seq(Verdicts) /\ DOMAIN alone.verdicts = {1}
  BY <1>1 DEF BacktestAsked
<1>3. BacktestAsked(alone)
  BY <1>2 DEF BacktestAsked
<1>4. CASE v.action = "hold" /\ ~question.includeHold
  BY <1>2, <1>4 DEF EvaluateOne
<1>5. CASE v.ticker \in question.failed
  BY <1>2, <1>5 DEF EvaluateOne
<1>6. CASE ~(v.action = "hold" /\ ~question.includeHold) /\ v.ticker \notin question.failed
  <2>1. i \in ToPrice(question) /\ ToPrice(alone) = {1}
    BY <1>2, <1>6 DEF ToPrice
  <2>2. PICK lo, hi \in Nat :
          /\ FetchedPrices(question, v.ticker)
               = Prices(question, v.ticker, lo, hi + PRICE_TAIL_DAYS)
          /\ lo <= PublishedDay(v) /\ PublishedDay(v) <= hi
    BY <2>1, WindowOfVerdict
  <2>3. PICK day \in Nat : day = PublishedDay(v) /\ day = DayOfMinute(MinuteOf(v.at))
    BY <1>1, TimesOfDay DEF PublishedDay
  <2>4. FetchedPrices(alone, v.ticker) = Prices(alone, v.ticker, day, day + PRICE_TAIL_DAYS)
    <3>1. PriceWindow(alone, v.ticker) = {day}
      BY <1>2, <2>1, <2>3 DEF PriceWindow
    <3>2. Earliest({day}) = day
      BY <2>3 DEF Earliest
    <3>3. (CHOOSE d \in {day} : \A e \in {day} : e <= d) = day
      BY <2>3
    <3> QED
      BY <3>1, <3>2, <3>3, Zenon DEF FetchedPrices
  <2>5. PICK p : p = FetchedPrices(alone, v.ticker)
    OBVIOUS
  <2>6. PICK all : all = FetchedPrices(question, v.ticker)
    OBVIOUS
  <2>7. /\ p.bars = {b \in question.bars : b.ticker = v.ticker /\ DayOfMinute(b.t) \in day..(day + PRICE_TAIL_DAYS)}
        /\ p.close = {c \in question.closes : c.ticker = v.ticker /\ c.day \in day..(day + PRICE_TAIL_DAYS)}
    BY <1>2, <2>4, <2>5 DEF Prices
  <2>8. /\ all.bars = {b \in question.bars : b.ticker = v.ticker /\ DayOfMinute(b.t) \in lo..(hi + PRICE_TAIL_DAYS)}
        /\ all.close = {c \in question.closes : c.ticker = v.ticker /\ c.day \in lo..(hi + PRICE_TAIL_DAYS)}
    BY <2>2, <2>6 DEF Prices
  <2>9. Agree(p, all, v, w)
    <3>1. question.bars \in SUBSET Bars /\ \A b \in question.bars : b.t \in Nat
      BY DEF BacktestAsked, Bars
    <3>2. \A d \in Int : d \in day..(day + PRICE_TAIL_DAYS) => d \in lo..(hi + PRICE_TAIL_DAYS)
      BY <2>2, <2>3 DEF PRICE_TAIL_DAYS
    <3>3. question.closes \in SUBSET Closes /\ \A c \in question.closes : c.day \in Nat
      BY DEF BacktestAsked, Closes
    <3>4. p.bars \in SUBSET all.bars /\ all.bars \in SUBSET Bars /\ all.bars \in SUBSET question.bars
      <4>1. \A b \in question.bars : DayOfMinute(b.t) \in Nat
        BY <3>1, TimesOfDay
      <4> QED
        BY <2>7, <2>8, <3>1, <3>2, <4>1
    <3>5. \A b, c \in all.bars : b.t = c.t => b = c
      BY <2>8 DEF BacktestAsked
    <3>6. MinuteOf(v.at) \in Nat /\ w.t \in Nat
      BY <1>1, <3>1, TimesOfDay
    <3>7. ASSUME NEW t \in Nat, t >= MinuteOf(v.at), t <= w.t
          PROVE  DayOfMinute(t) \in day..(day + PRICE_TAIL_DAYS)
      <4>1. day <= DayOfMinute(t) /\ DayOfMinute(t) <= DayOfMinute(w.t)
        BY <2>3, <3>6, <3>7, TimesOfDay
      <4>2. DayOfMinute(t) \in Nat /\ DayOfMinute(w.t) \in Nat
        BY <3>6, TimesOfDay
      <4> QED
        BY <2>3, <4>1, <4>2 DEF PRICE_TAIL_DAYS
    <3>8. w \in p.bars
      <4>1. DayOfMinute(w.t) \in day..(day + PRICE_TAIL_DAYS)
        BY <3>6, <3>7
      <4> QED
        BY <2>7, <4>1
    <3>9. \A b \in all.bars : b.t >= MinuteOf(v.at) /\ b.t <= w.t => b \in p.bars
      BY <2>7, <2>8, <3>1, <3>7
    <3>10. ASSUME NEW t \in Nat, t >= MinuteOf(v.at), t <= w.t
           PROVE  {c \in p.close : c.day = DayOfMinute(t)} = {c \in all.close : c.day = DayOfMinute(t)}
      <4>1. PICK d \in Nat : d = DayOfMinute(t) /\ d \in day..(day + PRICE_TAIL_DAYS)
                             /\ d \in lo..(hi + PRICE_TAIL_DAYS)
        BY <3>2, <3>7, <3>10, TimesOfDay
      <4> QED
        BY <2>7, <2>8, <4>1
    <3> QED
      BY <3>4, <3>5, <3>8, <3>9, <3>10 DEF Agree
  <2>10. Simulate(v, p, FALSE) = Simulate(v, all, FALSE)
    BY <1>1, <2>9, AlikeTrades
  <2> QED
    BY <1>2, <1>6, <2>5, <2>6, <2>10 DEF EvaluateOne
<1> QED
  BY <1>4, <1>5, <1>6

-----------------------------------------------------------------------------
(***************************************************************************)
(* The scan                                                                *)
(***************************************************************************)

MinuteBars == [t : Nat, low : Int, high : Int, open : Int, close : Int]
Days(f) ==
  /\ IsFiniteSet(DOMAIN f) /\ DOMAIN f \in SUBSET Int
  /\ \A d \in DOMAIN f : f[d].low \in Int /\ f[d].high \in Int

(* What the command line, the market data and the corpus guarantee of a    *)
(* scan: a ticker has one bar per minute, in no particular order, and the  *)
(* index has a finite number of days; nas_threshold is a whole number of    *)
(* hundredths of a percent.                                                *)
ScanAsked(q) ==
  /\ q.calm \in Int
  /\ \A tk \in DOMAIN q.bars :
       /\ q.bars[tk] \in Seq(MinuteBars)
       /\ \A i, j \in DOMAIN q.bars[tk] : q.bars[tk][i].t = q.bars[tk][j].t => i = j
  /\ Days(q.index)
  /\ q.articles \in SUBSET [id : Nat, day : Int, afterHours : BOOLEAN, primary : Names,
                            more : SUBSET Names]

LEMMA TwoDays == IsFiniteSet({1, 2}) /\ IsFiniteSet({2})
<1>1. IsFiniteSet({1}) /\ IsFiniteSet({2}) /\ {1, 2} = {1} \cup {2}
  BY FS_Singleton
<1>2. PICK x, y : x = {1} /\ y = {2}
  OBVIOUS
<1>3. IsFiniteSet(x) /\ IsFiniteSet(y)
  BY <1>1, <1>2
<1>4. IsFiniteSet(x \cup y)
  BY <1>3, FS_Union
<1> QED
  BY <1>1, <1>2, <1>4

(* The scans that are model-checked are such. *)
LEMMA AskedScan == AskScan => ScanAsked(question')
<1> SUFFICES ASSUME AskScan PROVE ScanAsked(question')
  OBVIOUS
<1>1. PICK t1 \in {4, 5}, t2 \in {6, 7}, t3 \in {6, 9}, l1 \in {0, 10, 20}, l2 \in {0, 10, 20},
           l3 \in {0, 10, 20}, h1 \in {20, 21}, h2 \in {20, 21}, fails \in BOOLEAN,
           failed \in {{}, {"B"}},
           index \in {[d \in {1, 2} |-> [low |-> 1505, high |-> 1519 + 2 * d]],
                      [d \in {1, 2} |-> [low |-> 1505, high |-> 1526 - d]],
                      [d \in {2} |-> [low |-> 1505, high |-> 1505]]},
           day1 \in 0..2, late1 \in BOOLEAN, late2 \in BOOLEAN :
        /\ t2 # t3 /\ (fails => DOMAIN index = {2})
        /\ question' =
             [of |-> "scan", threshold |-> 5, calm |-> 120, failed |-> failed,
              indexFails |-> fails, index |-> index,
              bars |-> [A |-> <<Bar(t1, l1, h1), Bar(t2, l2, h2), Bar(t3, l3, 21)>>,
                        B |-> <<Bar(6, 10, 20)>>],
              articles |-> {[id |-> 1, day |-> day1, afterHours |-> late1, primary |-> "A",
                             more |-> {"B"}],
                            [id |-> 2, day |-> 1, afterHours |-> late2, primary |-> "C",
                             more |-> {"A"}]}]
  BY Zenon DEF AskScan
<1>2. PICK A : A = <<Bar(t1, l1, h1), Bar(t2, l2, h2), Bar(t3, l3, 21)>>
  OBVIOUS
<1>3. PICK B : B = <<Bar(6, 10, 20)>>
  OBVIOUS
<1>4. PICK articles : articles =
        {[id |-> 1, day |-> day1, afterHours |-> late1, primary |-> "A", more |-> {"B"}],
         [id |-> 2, day |-> 1, afterHours |-> late2, primary |-> "C", more |-> {"A"}]}
  OBVIOUS
<1>5. question' = [of |-> "scan", threshold |-> 5, calm |-> 120, failed |-> failed,
                   indexFails |-> fails, index |-> index, bars |-> [A |-> A, B |-> B],
                   articles |-> articles]
  BY <1>1, <1>2, <1>3, <1>4, Zenon
<1>6. /\ A \in Seq(MinuteBars) /\ B \in Seq(MinuteBars)
      /\ \A i, j \in DOMAIN A : A[i].t = A[j].t => i = j
      /\ \A i, j \in DOMAIN B : B[i].t = B[j].t => i = j
  <2>1. \A t, l, h \in Nat : Bar(t, l, h) \in MinuteBars /\ Bar(t, l, h).t = t
    BY DEF Bar, MinuteBars
  <2>2. PICK x, y, z : x = Bar(t1, l1, h1) /\ y = Bar(t2, l2, h2) /\ z = Bar(t3, l3, 21)
    OBVIOUS
  <2>3. PICK w : w = Bar(6, 10, 20)
    OBVIOUS
  <2>a. /\ t1 \in Nat /\ t2 \in Nat /\ t3 \in Nat /\ l1 \in Nat /\ l2 \in Nat /\ l3 \in Nat
        /\ h1 \in Nat /\ h2 \in Nat /\ 21 \in Nat /\ 6 \in Nat /\ 10 \in Nat /\ 20 \in Nat
    OBVIOUS
  <2>4. /\ x \in MinuteBars /\ y \in MinuteBars /\ z \in MinuteBars /\ w \in MinuteBars
        /\ x.t = t1 /\ y.t = t2 /\ z.t = t3
    <3>1. x \in MinuteBars /\ y \in MinuteBars /\ x.t = t1 /\ y.t = t2
      BY <2>2, <2>a DEF Bar, MinuteBars
    <3>2. z \in MinuteBars /\ z.t = t3
      BY <2>2, <2>a DEF Bar, MinuteBars
    <3>3. w \in MinuteBars
      BY <2>1, <2>3, <2>a
    <3> QED
      BY <3>1, <3>2, <3>3
  <2>5. A = <<x, y, z>> /\ B = <<w>>
    BY <1>2, <1>3, <2>2, <2>3, Zenon
  <2>6. t1 # t2 /\ t2 # t3 /\ t1 # t3
    BY <1>1
  <2> QED
    BY <2>4, <2>5, <2>6
<1>7. Days(index)
  <2>1. IsFiniteSet({1, 2}) /\ IsFiniteSet({2})
    BY TwoDays
  <2>2. DOMAIN index = {1, 2} \/ DOMAIN index = {2}
    OBVIOUS
  <2>3. \A d \in DOMAIN index : index[d].low \in Int /\ index[d].high \in Int
    OBVIOUS
  <2> QED
    BY <2>1, <2>2, <2>3 DEF Days
<1>8. articles \in SUBSET [id : Nat, day : Int, afterHours : BOOLEAN, primary : Names,
                            more : SUBSET Names]
  BY <1>4 DEF Names
<1> QED
  BY <1>5, <1>6, <1>7, <1>8 DEF ScanAsked

LEMMA DivisionBound ==
  ASSUME NEW a \in Int, NEW b \in Int, b > 0
  PROVE  a < b * (a \div b) + b
<1>1. PICK q \in Int, r \in 0..(b - 1) : a = b * q + r /\ a \div b = q
  BY SMTT(30)
<1>2. PICK p \in Int : p = b * q
  OBVIOUS
<1> QED
  BY <1>1, <1>2

(* A range that is below a whole threshold once it is rounded was below it *)
(* before.                                                                 *)
LEMMA RoundingKeepsCalm ==
  ASSUME NEW low \in Int, low > 0, NEW high \in Int, NEW calm \in Int,
         RangePercent(low, high) < calm
  PROVE  (high - low) * 10000 < calm * low
<1>1. PICK exact \in Int : exact = (high - low) * 10000
  OBVIOUS
<1>2. PICK down \in Int : down = exact \div low
  BY <1>1
<1>3. exact < low * down + low
  BY <1>1, <1>2, DivisionBound
<1>4. down < calm
  BY <1>1, <1>2 DEF RangePercent
<1>5. low * (down + 1) <= low * calm
  BY <1>2, <1>4
<1>6. PICK p, c \in Int : p = low * down /\ c = low * calm /\ low * (down + 1) = p + low
  BY <1>2
<1>7. exact < c
  BY <1>1, <1>3, <1>5, <1>6
<1> QED
  BY <1>1, <1>6, <1>7

LEMMA ScannedDays ==
  ASSUME NEW q, ScanAsked(q), NEW rows, rows = Scan(q),
         NEW days, days = {r.day : r \in rows}
  PROVE  /\ days \in SUBSET Int /\ IsFiniteSet(days)
         /\ \A r \in rows :
              /\ r.day \in DOMAIN q.index /\ ~q.indexFails
              /\ MovedLess(q.index[r.day], q.calm)
<1> DEFINE all == FlaggedRows(q)
           idx == IndexRanges(q, {r.day : r \in all})
<1>1. rows = {r \in all : /\ r.day \in DOMAIN idx /\ idx[r.day].low > 0
                          /\ RangePercent(idx[r.day].low, idx[r.day].high) < q.calm}
  BY Zenon DEF Scan
<1>2. \A d \in DOMAIN idx : d \in DOMAIN q.index /\ ~q.indexFails /\ idx[d] = q.index[d]
  <2> HIDE DEF all
  <2> QED
    BY DEF IndexRanges
<1> HIDE DEF idx, all
<1>6. ASSUME NEW r \in rows
      PROVE  MovedLess(q.index[r.day], q.calm)
  <2>1. /\ r.day \in DOMAIN q.index /\ q.index[r.day].low > 0
        /\ RangePercent(q.index[r.day].low, q.index[r.day].high) < q.calm
    BY <1>1, <1>2
  <2>2. q.index[r.day].low \in Int /\ q.index[r.day].high \in Int /\ q.calm \in Int
    BY <2>1 DEF ScanAsked, Days
  <2>3. PICK low, high, calm : low = q.index[r.day].low /\ high = q.index[r.day].high
                               /\ calm = q.calm
    OBVIOUS
  <2>4. (high - low) * 10000 < calm * low
    BY <2>1, <2>2, <2>3, RoundingKeepsCalm
  <2> QED
    BY <2>3, <2>4 DEF MovedLess
<1>3. \A r \in rows : r.day \in DOMAIN q.index /\ ~q.indexFails
  BY <1>1, <1>2
<1>4. days \in SUBSET (DOMAIN q.index)
  BY <1>3
<1>5. IsFiniteSet(DOMAIN q.index) /\ DOMAIN q.index \in SUBSET Int
  BY DEF ScanAsked, Days
<1> QED
  BY <1>3, <1>4, <1>5, <1>6, FS_Subset

(* The articles that are filed under a ticker and a day. *)
LEMMA FiledArticles ==
  ASSUME NEW records, NEW tickers, NEW tk \in tickers, NEW d \in Int,
         \A a \in records : a.day \in Int /\ a.afterHours \in BOOLEAN,
         NEW id
  PROVE  (\E x \in IndexArticles(records, tickers) : x.ticker = tk /\ x.day = d /\ x.article = id)
           <=> \E a \in records : /\ a.id = id /\ tk \in {a.primary} \cup a.more
                                  /\ a.day = d \/ (a.afterHours /\ a.day = d - 1)
<1> DEFINE Own(a, t) == [ticker |-> t, day |-> a.day, article |-> a.id, when |-> "same-day"]
           Late(a, t) == [ticker |-> t, day |-> a.day + 1, article |-> a.id,
                          when |-> "prev-after-hours"]
           same == UNION {{Own(a, t) : t \in Touched(a, tickers)} : a \in records}
           late == UNION {{Late(a, t) : t \in Touched(a, tickers)} :
                            a \in {x \in records : x.afterHours}}
<1>1. IndexArticles(records, tickers) = same \cup late
  BY DEF IndexArticles
<1>2. /\ \A x \in same : \E a \in records : \E t \in Touched(a, tickers) : x = Own(a, t)
      /\ \A a \in records : \A t \in Touched(a, tickers) : Own(a, t) \in same
  <2> HIDE DEF Own
  <2> QED
    OBVIOUS
<1>3. /\ \A x \in late : \E a \in records : \E t \in Touched(a, tickers) :
           a.afterHours /\ x = Late(a, t)
      /\ \A a \in records : \A t \in Touched(a, tickers) : a.afterHours => Late(a, t) \in late
  <2> HIDE DEF Late
  <2> QED
    OBVIOUS
<1>4. \A a, t : /\ Own(a, t).ticker = t /\ Own(a, t).day = a.day /\ Own(a, t).article = a.id
                /\ Late(a, t).ticker = t /\ Late(a, t).day = a.day + 1
                /\ Late(a, t).article = a.id
  OBVIOUS
<1> HIDE DEF Own, Late, same, late
<1>5. \A a \in records : tk \in Touched(a, tickers) <=> tk \in {a.primary} \cup a.more
  BY DEF Touched
<1>6. ASSUME NEW x \in IndexArticles(records, tickers), x.ticker = tk, x.day = d, x.article = id
      PROVE  \E a \in records : /\ a.id = id /\ tk \in {a.primary} \cup a.more
                                /\ a.day = d \/ (a.afterHours /\ a.day = d - 1)
  <2>1. CASE x \in same
    <3>1. PICK a \in records : \E t \in Touched(a, tickers) : x = Own(a, t)
      BY <1>2, <2>1
    <3>2. PICK t \in Touched(a, tickers) : x = Own(a, t)
      BY <3>1
    <3> QED
      BY <1>4, <1>5, <1>6, <3>2
  <2>2. CASE x \in late
    <3>0. PICK a \in records : \E t \in Touched(a, tickers) : a.afterHours /\ x = Late(a, t)
      BY <1>3, <2>2
    <3>1. PICK t \in Touched(a, tickers) : a.afterHours /\ x = Late(a, t)
      BY <3>0
    <3>2. a.day \in Int /\ a.day + 1 = d /\ a.id = id /\ tk \in Touched(a, tickers)
      BY <1>4, <1>6, <3>1
    <3>3. a.day = d - 1
      BY <3>2
    <3> QED
      BY <1>5, <3>1, <3>2, <3>3
  <2> QED
    BY <1>1, <1>6, <2>1, <2>2
<1>7. ASSUME NEW a \in records, a.id = id, tk \in {a.primary} \cup a.more,
             a.day = d \/ (a.afterHours /\ a.day = d - 1)
      PROVE  \E x \in IndexArticles(records, tickers) : x.ticker = tk /\ x.day = d /\ x.article = id
  <2>1. tk \in Touched(a, tickers)
    BY <1>5, <1>7
  <2>2. CASE a.day = d
    BY <1>1, <1>2, <1>4, <1>7, <2>1, <2>2
  <2>3. CASE a.afterHours /\ a.day = d - 1
    <3>1. Late(a, tk) \in late /\ Late(a, tk).day = d
      BY <1>3, <1>4, <2>1, <2>3
    <3> QED
      BY <1>1, <1>4, <1>7, <3>1
  <2> QED
    BY <1>7, <2>2, <2>3
<1> QED
  BY <1>6, <1>7

(* For any tickers, bars, index and articles: each day of a scan was calm  *)
(* by an index bar that exists - the index moved by less than a threshold  *)
(* of whole hundredths of a percent, rounded or not -, and carries exactly *)
(* the articles of its ticker of that day and of the evening of the        *)
(* calendar day before.                                                    *)
THEOREM ScannedDaysAreExplained ==
  (Asked("scan") => ScanAsked(question)) => NewsOfTheDay
<1> SUFFICES ASSUME Asked("scan"), ScanAsked(question),
                    NEW rows, rows = Scan(question), rows # {},
                    NEW attached, attached = Attach(question, rows)
             PROVE  \A r \in rows :
                      /\ r.day \in DOMAIN question.index /\ ~question.indexFails
                      /\ MovedLess(question.index[r.day], question.calm)
                      /\ {x.article : x \in attached[r]} =
                           {a.id : a \in {b \in question.articles :
                                            /\ r.ticker \in {b.primary} \cup b.more
                                            /\ b.day = r.day \/ (b.afterHours /\ b.day = r.day - 1)}}
  BY Zenon DEF NewsOfTheDay
<1> DEFINE tickers == {r.ticker : r \in rows}
           days == {r.day : r \in rows}
           start == CHOOSE d \in days : \A e \in days : d <= e
           end == CHOOSE d \in days : \A e \in days : e <= d
           records == FetchArticles(question, tickers, start, end)
           byDay == IndexArticles(records, tickers)
<1>1. attached = [r \in rows |-> {[article |-> x.article, when |-> x.when] :
                                    x \in {y \in byDay : y.ticker = r.ticker /\ y.day = r.day}}]
  BY Zenon DEF Attach
<1>2. /\ days \in SUBSET Int /\ IsFiniteSet(days)
      /\ \A r \in rows :
           /\ r.day \in DOMAIN question.index /\ ~question.indexFails
           /\ MovedLess(question.index[r.day], question.calm)
  BY ScannedDays
<1>3. start \in days /\ end \in days /\ \A d \in days : start <= d /\ d <= end
  <2>1. days # {}
    OBVIOUS
  <2> HIDE DEF days
  <2>2. \E d \in days : \A e \in days : d <= e
    BY <1>2, <2>1, GreatestExists
  <2>3. \E d \in days : \A e \in days : e <= d
    BY <1>2, <2>1, GreatestExists
  <2> QED
    BY <2>2, <2>3
<1>4. \A r \in rows : r.day \in days /\ r.ticker \in tickers
  OBVIOUS
<1>5. records = {a \in question.articles : a.day \in (start - 1)..end /\ Touched(a, tickers) # {}}
  BY Zenon DEF FetchArticles
<1>6. \A a \in question.articles : a.day \in Int /\ a.afterHours \in BOOLEAN
  BY DEF ScanAsked
<1>7. \A a \in records : a \in question.articles
  BY <1>5
<1> HIDE DEF tickers, days, start, end, records, byDay
<1>8. ASSUME NEW r \in rows
      PROVE  {x.article : x \in attached[r]} =
               {a.id : a \in {b \in question.articles :
                                /\ r.ticker \in {b.primary} \cup b.more
                                /\ b.day = r.day \/ (b.afterHours /\ b.day = r.day - 1)}}
  <2>1. \A id : id \in {x.article : x \in attached[r]} <=>
          \E x \in byDay : x.ticker = r.ticker /\ x.day = r.day /\ x.article = id
    <3> DEFINE mine == {y \in byDay : y.ticker = r.ticker /\ y.day = r.day}
               Shown(x) == [article |-> x.article, when |-> x.when]
    <3>1. attached[r] = {Shown(x) : x \in mine}
      BY <1>1
    <3>2. \A x : Shown(x).article = x.article
      OBVIOUS
    <3> HIDE DEF Shown
    <3> QED
      BY <3>1, <3>2
  <2>2. r.day \in Int /\ r.ticker \in tickers /\ start <= r.day /\ r.day <= end
        /\ start \in Int /\ end \in Int
    BY <1>2, <1>3, <1>4
  <2>3. \A id : (\E x \in byDay : x.ticker = r.ticker /\ x.day = r.day /\ x.article = id)
          <=> \E a \in records : /\ a.id = id /\ r.ticker \in {a.primary} \cup a.more
                                 /\ a.day = r.day \/ (a.afterHours /\ a.day = r.day - 1)
    <3>1. PICK tk, d : tk = r.ticker /\ d = r.day
      OBVIOUS
    <3>2. tk \in tickers /\ d \in Int /\ byDay = IndexArticles(records, tickers)
      BY <2>2, <3>1 DEF byDay
    <3>3. \A a \in records : a.day \in Int /\ a.afterHours \in BOOLEAN
      BY <1>6, <1>7
    <3>4. \A id : (\E x \in byDay : x.ticker = tk /\ x.day = d /\ x.article = id)
            <=> \E a \in records : /\ a.id = id /\ tk \in {a.primary} \cup a.more
                                   /\ a.day = d \/ (a.afterHours /\ a.day = d - 1)
      BY <3>2, <3>3, FiledArticles
    <3> QED
      BY <3>1, <3>4
  <2>4. ASSUME NEW a \in question.articles, r.ticker \in {a.primary} \cup a.more,
               a.day = r.day \/ (a.afterHours /\ a.day = r.day - 1)
        PROVE  a \in records
    <3>1. Touched(a, tickers) # {}
      BY <2>2, <2>4 DEF Touched
    <3>2. a.day \in (start - 1)..end
      BY <1>6, <2>2, <2>4
    <3> QED
      BY <1>5, <3>1, <3>2
  <2>5. \A id : (\E a \in records : /\ a.id = id /\ r.ticker \in {a.primary} \cup a.more
                                    /\ a.day = r.day \/ (a.afterHours /\ a.day = r.day - 1))
          <=> \E a \in question.articles :
                 /\ a.id = id /\ r.ticker \in {a.primary} \cup a.more
                 /\ a.day = r.day \/ (a.afterHours /\ a.day = r.day - 1)
    BY <1>7, <2>4
  <2>6. \A id : id \in {x.article : x \in attached[r]} <=>
          \E a \in question.articles :
             /\ a.id = id /\ r.ticker \in {a.primary} \cup a.more
             /\ a.day = r.day \/ (a.afterHours /\ a.day = r.day - 1)
    BY <2>1, <2>3, <2>5, Zenon
  <2> QED
    BY <2>6
<1> QED
  BY <1>2, <1>8

-----------------------------------------------------------------------------
Ranges == [low : Int, lowAt : Nat, high : Int, highAt : Nat,
           open : Int, first : Nat, close : Int, last : Nat]

LEMMA RangeTypes ==
  /\ \A b \in MinuteBars : FirstRange(b) \in Ranges
  /\ \A r \in Ranges, b \in MinuteBars : UpdateRange(r, b) \in Ranges
<1>1. \A b \in MinuteBars : FirstRange(b) \in Ranges
  BY DEF FirstRange, Ranges, MinuteBars
<1>2. ASSUME NEW r \in Ranges, NEW b \in MinuteBars PROVE UpdateRange(r, b) \in Ranges
  BY DEF UpdateRange, Ranges, MinuteBars
<1> QED
  BY <1>1, <1>2

RangesAfter(F, base, list) ==
  /\ F \in [0..Len(list) -> Ranges] /\ F[0] = base
  /\ \A i \in 1..Len(list) : F[i] = UpdateRange(F[i - 1], list[i])

(* The range after all bars is that after all but the last, updated. *)
LEMMA RangeSteps ==
  ASSUME NEW base \in Ranges, NEW list \in Seq(MinuteBars)
  PROVE  \E F : RangesAfter(F, base, list) /\ FoldLeft(UpdateRange, base, list) = F[Len(list)]
<1> DEFINE n == Len(list)
           Updated(g) == g = [s \in SUBSET (DOMAIN list) |->
                                IF s = {} THEN base ELSE UpdateRange(g[s \ {Max(s)}], list[Max(s)])]
           h == CHOOSE g : Updated(g)
           G == [p \in Ranges \X (1..n) |-> UpdateRange(p[1], list[p[2]])]
           last == [s \in SUBSET (1..n) |-> Max(s)]
<1>1. n \in Nat /\ DOMAIN list = 1..n /\ \A i \in 1..n : list[i] \in MinuteBars
  BY LenProperties
<1>2. FoldLeft(UpdateRange, base, list) = h[1..n]
  BY <1>1 DEF FoldLeft, MapThenFoldSet
<1>3. /\ G \in [Ranges \X (1..n) -> Ranges]
      /\ \A a \in Ranges, i \in 1..n : G[<<a, i>>] = UpdateRange(a, list[i])
  BY <1>1, RangeTypes
<1>4. \A s \in SUBSET (1..n) : last[s] = Max(s) /\ (s # {} => last[s] \in s)
  BY <1>1, LastIsElement
<1> HIDE DEF G, last
<1>5. Updated(h)
  <2>1. IsFiniteSet(1..n)
    BY <1>1, FirstNumbers
  <2>2. PICK g : Iterates(g, 1..n, Ranges, base, G, last)
    BY <1>3, <1>4, <2>1, IteratedExists
  <2>3. g \in [SUBSET (1..n) -> Ranges]
    BY <2>2 DEF Iterates
  <2>4. ASSUME NEW s \in SUBSET (1..n)
        PROVE  g[s] = IF s = {} THEN base ELSE UpdateRange(g[s \ {Max(s)}], list[Max(s)])
    <3>1. g[s] = IF s = {} THEN base ELSE G[<<g[s \ {last[s]}], last[s]>>]
      BY <2>2 DEF Iterates
    <3>2. s # {} => last[s] \in 1..n /\ last[s] = Max(s) /\ g[s \ {last[s]}] \in Ranges
      BY <1>4, <2>3
    <3> QED
      BY <1>3, <3>1, <3>2
  <2>5. Updated(g)
    BY <1>1, <2>3, <2>4
  <2> QED
    BY <2>5
<1> HIDE DEF h
<1>6. /\ h[{}] = base
      /\ \A s \in SUBSET (1..n) : s # {} => h[s] = UpdateRange(h[s \ {Max(s)}], list[Max(s)])
  BY <1>1, <1>5
<1>7. Unfolds(h, n, Ranges, base, G)
  <2>1. ASSUME NEW s \in SUBSET (1..n), s # {}, h[s \ {Max(s)}] \in Ranges
        PROVE  h[s] = G[<<h[s \ {Max(s)}], Max(s)>>]
    <3>1. Max(s) \in 1..n
      BY <1>4, <2>1
    <3> QED
      BY <1>3, <1>6, <2>1, <3>1
  <2> QED
    BY <1>3, <1>6, <2>1 DEF Unfolds
<1>8. PICK F : Accumulates(F, n, Ranges, base, G) /\ F[n] = h[1..n]
  <2> HIDE DEF n
  <2> QED
    BY <1>1, <1>7, Unrolled
<1>9. F \in [0..n -> Ranges] /\ F[0] = base /\ \A i \in 1..n : F[i] = G[<<F[i - 1], i>>]
  BY <1>8 DEF Accumulates
<1>10. ASSUME NEW i \in 1..n PROVE F[i] = UpdateRange(F[i - 1], list[i])
  <2>1. i - 1 \in 0..n
    BY <1>1
  <2> QED
    BY <1>3, <1>9, <2>1
<1> QED
  BY <1>2, <1>8, <1>9, <1>10 DEF RangesAfter

(* What the range after n bars says of each of its four sides: it is that  *)
(* of one of the bars, an extreme that no earlier bar reached.             *)
LowIs(r, list, n) ==
  \E j \in 1..n : /\ list[j].low = r.low /\ list[j].t = r.lowAt
                  /\ \A k \in 1..n : r.low <= list[k].low /\ (k < j => r.low < list[k].low)

HighIs(r, list, n) ==
  \E j \in 1..n : /\ list[j].high = r.high /\ list[j].t = r.highAt
                  /\ \A k \in 1..n : r.high >= list[k].high /\ (k < j => r.high > list[k].high)

OpenIs(r, list, n) ==
  \E j \in 1..n : /\ list[j].open = r.open /\ list[j].t = r.first
                  /\ \A k \in 1..n : r.first <= list[k].t

CloseIs(r, list, n) ==
  \E j \in 1..n : /\ list[j].close = r.close /\ list[j].t = r.last
                  /\ \A k \in 1..n : list[k].t <= r.last

Covers(r, list, n) ==
  LowIs(r, list, n) /\ HighIs(r, list, n) /\ OpenIs(r, list, n) /\ CloseIs(r, list, n)

LEMMA UpdateCovers ==
  ASSUME NEW list \in Seq(MinuteBars), NEW i \in DOMAIN list, i > 1,
         NEW r \in Ranges, Covers(r, list, i - 1), NEW u, u = UpdateRange(r, list[i])
  PROVE  Covers(u, list, i)
<1>1. PICK b \in MinuteBars : b = list[i]
  BY LenProperties
<1>2. i \in Nat /\ i - 1 \in Nat /\ 1..(i - 1) \in SUBSET (1..i) /\ i \in 1..i
      /\ \A k \in 1..i : k \in 1..(i - 1) \/ k = i
  BY LenProperties
<1>3. \A k \in 1..i : list[k] \in MinuteBars
  BY LenProperties
<1>4. \A k \in 1..i : /\ list[k].low \in Int /\ list[k].high \in Int /\ list[k].t \in Nat
  BY <1>3 DEF MinuteBars
<1>5. /\ r.low \in Int /\ r.high \in Int /\ r.first \in Nat /\ r.last \in Nat
      /\ b.low \in Int /\ b.high \in Int /\ b.t \in Nat
  BY DEF Ranges, MinuteBars
<1>6. LowIs(u, list, i)
  <2>1. u.low = (IF b.low < r.low THEN b.low ELSE r.low)
        /\ u.lowAt = (IF b.low < r.low THEN b.t ELSE r.lowAt)
    BY <1>1 DEF UpdateRange
  <2>2. PICK j \in 1..(i - 1) :
          /\ list[j].low = r.low /\ list[j].t = r.lowAt
          /\ \A k \in 1..(i - 1) : r.low <= list[k].low /\ (k < j => r.low < list[k].low)
    BY DEF Covers, LowIs
  <2>3. CASE b.low < r.low
    <3>0. ASSUME NEW k \in 1..(i - 1) PROVE u.low < list[k].low
      <4>1. k \in 1..i /\ r.low <= list[k].low
        BY <1>2, <2>2
      <4> QED
        BY <1>4, <1>5, <2>1, <2>3, <4>1
    <3>1. ASSUME NEW k \in 1..i
          PROVE  u.low <= list[k].low /\ (k < i => u.low < list[k].low)
      <4>1. CASE k \in 1..(i - 1)
        BY <1>4, <1>5, <2>1, <2>3, <3>0, <4>1
      <4>2. CASE k = i
        BY <1>1, <1>2, <1>5, <2>1, <2>3, <4>2
      <4> QED
        BY <1>2, <4>1, <4>2
    <3>2. list[i].low = u.low /\ list[i].t = u.lowAt
      BY <1>1, <2>1, <2>3
    <3> QED
      BY <1>2, <3>1, <3>2 DEF LowIs
  <2>4. CASE ~(b.low < r.low)
    <3>0. u.low = r.low /\ j \in Nat /\ j < i
      BY <1>2, <2>1, <2>2, <2>4
    <3>1. ASSUME NEW k \in 1..i
          PROVE  u.low <= list[k].low /\ (k < j => u.low < list[k].low)
      <4>1. CASE k \in 1..(i - 1)
        <5>1. r.low <= list[k].low /\ (k < j => r.low < list[k].low)
          BY <2>2, <4>1
        <5> QED
          BY <3>0, <5>1
      <4>2. CASE k = i
        BY <1>1, <1>2, <1>5, <2>4, <3>0, <4>2
      <4> QED
        BY <1>2, <4>1, <4>2
    <3>2. list[j].low = u.low /\ list[j].t = u.lowAt /\ j \in 1..i
      BY <1>2, <2>1, <2>2, <2>4
    <3> QED
      BY <3>1, <3>2 DEF LowIs
  <2> QED
    BY <2>3, <2>4
<1>7. HighIs(u, list, i)
  <2>1. u.high = (IF b.high > r.high THEN b.high ELSE r.high)
        /\ u.highAt = (IF b.high > r.high THEN b.t ELSE r.highAt)
    BY <1>1 DEF UpdateRange
  <2>2. PICK j \in 1..(i - 1) :
          /\ list[j].high = r.high /\ list[j].t = r.highAt
          /\ \A k \in 1..(i - 1) : r.high >= list[k].high /\ (k < j => r.high > list[k].high)
    BY DEF Covers, HighIs
  <2>3. CASE b.high > r.high
    <3>0. ASSUME NEW k \in 1..(i - 1) PROVE u.high > list[k].high
      <4>1. k \in 1..i /\ r.high >= list[k].high
        BY <1>2, <2>2
      <4> QED
        BY <1>4, <1>5, <2>1, <2>3, <4>1
    <3>1. ASSUME NEW k \in 1..i
          PROVE  u.high >= list[k].high /\ (k < i => u.high > list[k].high)
      <4>1. CASE k \in 1..(i - 1)
        BY <1>4, <1>5, <2>1, <2>3, <3>0, <4>1
      <4>2. CASE k = i
        BY <1>1, <1>2, <1>5, <2>1, <2>3, <4>2
      <4> QED
        BY <1>2, <4>1, <4>2
    <3>2. list[i].high = u.high /\ list[i].t = u.highAt
      BY <1>1, <2>1, <2>3
    <3> QED
      BY <1>2, <3>1, <3>2 DEF HighIs
  <2>4. CASE ~(b.high > r.high)
    <3>0. u.high = r.high /\ j \in Nat /\ j < i
      BY <1>2, <2>1, <2>2, <2>4
    <3>1. ASSUME NEW k \in 1..i
          PROVE  u.high >= list[k].high /\ (k < j => u.high > list[k].high)
      <4>1. CASE k \in 1..(i - 1)
        <5>1. r.high >= list[k].high /\ (k < j => r.high > list[k].high)
          BY <2>2, <4>1
        <5> QED
          BY <3>0, <5>1
      <4>2. CASE k = i
        BY <1>1, <1>2, <1>5, <2>4, <3>0, <4>2
      <4> QED
        BY <1>2, <4>1, <4>2
    <3>2. list[j].high = u.high /\ list[j].t = u.highAt /\ j \in 1..i
      BY <1>2, <2>1, <2>2, <2>4
    <3> QED
      BY <3>1, <3>2 DEF HighIs
  <2> QED
    BY <2>3, <2>4
<1>8. OpenIs(u, list, i)
  <2>1. u.open = (IF b.t < r.first THEN b.open ELSE r.open)
        /\ u.first = (IF b.t < r.first THEN b.t ELSE r.first)
    BY <1>1 DEF UpdateRange
  <2>2. PICK j \in 1..(i - 1) : /\ list[j].open = r.open /\ list[j].t = r.first
                                /\ \A k \in 1..(i - 1) : r.first <= list[k].t
    BY DEF Covers, OpenIs
  <2>3. ASSUME NEW k \in 1..i PROVE u.first <= list[k].t
    <3>1. u.first <= r.first /\ u.first <= b.t /\ u.first \in Nat
      BY <1>5, <2>1
    <3>2. CASE k \in 1..(i - 1)
      <4>1. r.first <= list[k].t /\ list[k].t \in Nat
        BY <1>4, <2>2, <3>2
      <4>2. r.first \in Nat
        BY <1>5
      <4> QED
        BY <3>1, <4>1, <4>2
    <3>3. CASE k = i
      BY <1>1, <3>1, <3>3
    <3> QED
      BY <1>2, <3>2, <3>3
  <2>4. CASE b.t < r.first
    <3>1. list[i].open = u.open /\ list[i].t = u.first
      BY <1>1, <2>1, <2>4
    <3> QED
      BY <1>2, <2>3, <3>1 DEF OpenIs
  <2>5. CASE ~(b.t < r.first)
    <3>1. list[j].open = u.open /\ list[j].t = u.first /\ j \in 1..i
      BY <1>2, <2>1, <2>2, <2>5
    <3> QED
      BY <2>3, <3>1 DEF OpenIs
  <2> QED
    BY <2>4, <2>5
<1>9. CloseIs(u, list, i)
  <2>1. u.close = (IF b.t > r.last THEN b.close ELSE r.close)
        /\ u.last = (IF b.t > r.last THEN b.t ELSE r.last)
    BY <1>1 DEF UpdateRange
  <2>2. PICK j \in 1..(i - 1) : /\ list[j].close = r.close /\ list[j].t = r.last
                                /\ \A k \in 1..(i - 1) : list[k].t <= r.last
    BY DEF Covers, CloseIs
  <2>3. \A k \in 1..i : list[k].t <= u.last
    <3>1. r.last <= u.last /\ b.t <= u.last /\ u.last \in Nat
      BY <1>5, <2>1
    <3>2. ASSUME NEW k \in 1..(i - 1) PROVE list[k].t <= u.last
      <4>1. list[k].t <= r.last /\ list[k].t \in Nat
        BY <1>4, <2>2
      <4>2. r.last \in Nat
        BY <1>5
      <4> QED
        BY <3>1, <4>1, <4>2
    <3>3. list[i].t <= u.last
      BY <1>1, <3>1
    <3> QED
      BY <1>2, <3>2, <3>3
  <2>4. CASE b.t > r.last
    <3>1. list[i].close = u.close /\ list[i].t = u.last
      BY <1>1, <2>1, <2>4
    <3> QED
      BY <1>2, <2>3, <3>1 DEF CloseIs
  <2>5. CASE ~(b.t > r.last)
    <3>1. list[j].close = u.close /\ list[j].t = u.last /\ j \in 1..i
      BY <1>2, <2>1, <2>2, <2>5
    <3> QED
      BY <2>3, <3>1 DEF CloseIs
  <2> QED
    BY <2>4, <2>5
<1> QED
  BY <1>6, <1>7, <1>8, <1>9 DEF Covers

LEMMA FirstCovers ==
  ASSUME NEW list \in Seq(MinuteBars), list # <<>>,
         NEW u, u = UpdateRange(FirstRange(list[1]), list[1])
  PROVE  Covers(u, list, 1)
<1>1. 1 \in DOMAIN list
  BY LenProperties, EmptySeq
<1>2. PICK b \in MinuteBars : b = list[1]
  BY <1>1, LenProperties
<1>3. b.low \in Int /\ b.high \in Int /\ b.t \in Nat
  BY DEF MinuteBars
<1>4. /\ u.low = b.low /\ u.lowAt = b.t /\ u.high = b.high /\ u.highAt = b.t
      /\ u.open = b.open /\ u.first = b.t /\ u.close = b.close /\ u.last = b.t
  BY <1>2, <1>3 DEF UpdateRange, FirstRange
<1>5. 1..1 = {1}
  OBVIOUS
<1>6. LowIs(u, list, 1) /\ HighIs(u, list, 1)
  BY <1>2, <1>3, <1>4, <1>5 DEF LowIs, HighIs
<1>7. OpenIs(u, list, 1) /\ CloseIs(u, list, 1)
  BY <1>2, <1>3, <1>4, <1>5 DEF OpenIs, CloseIs
<1> QED
  BY <1>6, <1>7 DEF Covers

(* The range of a list of bars covers all of them. *)
LEMMA RangeCovers ==
  ASSUME NEW list \in Seq(MinuteBars), list # <<>>,
         NEW r, r = FoldLeft(UpdateRange, FirstRange(list[1]), list)
  PROVE  Covers(r, list, Len(list))
<1>1. Len(list) \in Nat /\ Len(list) > 0 /\ DOMAIN list = 1..Len(list) /\ list[1] \in MinuteBars
  BY LenProperties, EmptySeq
<1>2. PICK base \in Ranges : base = FirstRange(list[1])
  BY <1>1, RangeTypes
<1>3. PICK F : RangesAfter(F, base, list) /\ r = F[Len(list)]
  BY <1>2, RangeSteps
<1>4. /\ F \in [0..Len(list) -> Ranges] /\ F[0] = base
      /\ \A i \in 1..Len(list) : F[i] = UpdateRange(F[i - 1], list[i])
  BY <1>3 DEF RangesAfter
<1> DEFINE Bad == {i \in 1..Len(list) : ~Covers(F[i], list, i)}
<1>5. 1 \notin Bad
  <2>1. F[1] = UpdateRange(FirstRange(list[1]), list[1])
    BY <1>1, <1>2, <1>4
  <2> QED
    BY <2>1, FirstCovers
<1>6. ASSUME NEW i \in 1..Len(list), i > 1, i - 1 \notin Bad PROVE i \notin Bad
  <2>1. i - 1 \in 1..Len(list) /\ i - 1 \in 0..Len(list) /\ i \in DOMAIN list
    BY <1>1, <1>6
  <2>2. PICK before \in Ranges : before = F[i - 1]
    BY <1>4, <2>1
  <2>3. Covers(before, list, i - 1) /\ F[i] = UpdateRange(before, list[i])
    BY <1>4, <1>6, <2>1, <2>2
  <2>4. Covers(F[i], list, i)
    BY <1>6, <2>1, <2>3, UpdateCovers
  <2> QED
    BY <2>4
<1>7. Bad = {}
  <2> SUFFICES ASSUME Bad # {} PROVE FALSE
    OBVIOUS
  <2>1. Bad \in SUBSET Nat /\ Bad \in SUBSET (1..Len(list))
    OBVIOUS
  <2> HIDE DEF Bad
  <2>2. PICK m \in Bad : \A k \in Bad : m <= k
    BY <2>1, LeastExists
  <2>3. m \in 1..Len(list) /\ m > 1
    BY <1>5, <2>1, <2>2
  <2>4. m - 1 \notin Bad
    BY <2>1, <2>2, <2>3
  <2> QED
    BY <1>6, <2>2, <2>3, <2>4
<1>8. Covers(F[Len(list)], list, Len(list))
  BY <1>1, <1>7
<1> QED
  BY <1>3, <1>8

InTimeOrder(bars) == \A i, j \in DOMAIN bars : i < j => bars[i].t <= bars[j].t

(* The bars of a day, in the order they were sent. *)
IsDay(list, bars, d) ==
  /\ list \in Seq(MinuteBars) /\ list # <<>> /\ DOMAIN list = 1..Len(list)
  /\ ToSet(list) = {b \in ToSet(bars) : BarDay(b) = d}
  /\ \A m, n \in DOMAIN list : list[m].t = list[n].t => m = n
  /\ InTimeOrder(bars) => InTimeOrder(list)

LEMMA BarsOfDay ==
  ASSUME NEW bars \in Seq(MinuteBars), \A i, j \in DOMAIN bars : bars[i].t = bars[j].t => i = j,
         NEW d \in DaysOf(bars),
         NEW list, list = Picked(bars, {i \in DOMAIN bars : BarDay(bars[i]) = d})
  PROVE  IsDay(list, bars, d)
<1> DEFINE P == {i \in DOMAIN bars : BarDay(bars[i]) = d}
<1>1. list = Picked(bars, P) /\ P \in SUBSET (DOMAIN bars)
  OBVIOUS
<1>2. P # {}
  BY DEF DaysOf
<1>3. {bars[i] : i \in P} = {b \in ToSet(bars) : BarDay(b) = d}
  BY DEF ToSet
<1> HIDE DEF P
<1>4. /\ list \in Seq(MinuteBars) /\ Len(list) = Cardinality(P) /\ DOMAIN list = 1..Cardinality(P)
      /\ ToSet(list) = {bars[i] : i \in P}
  <2>1. /\ Picked(bars, P) \in Seq(MinuteBars) /\ Len(Picked(bars, P)) = Cardinality(P)
        /\ DOMAIN Picked(bars, P) = 1..Cardinality(P)
        /\ ToSet(Picked(bars, P)) = {bars[i] : i \in P}
    BY <1>1, PickedList
  <2> QED
    BY <1>1, <2>1
<1>5. PICK at \in [1..Cardinality(P) -> P] :
        /\ Picked(bars, P) = [n \in 1..Cardinality(P) |-> bars[at[n]]]
        /\ \A m, n \in 1..Cardinality(P) : at[m] < at[n] <=> m < n
        /\ \A i \in P : \E n \in 1..Cardinality(P) : at[n] = i
  BY <1>1, PickedPositions
<1>6. DOMAIN list # {}
  BY <1>2, <1>4, <1>5
<1>7. list # <<>>
  BY <1>6, <1>4, EmptySeq
<1>8. Cardinality(P) \in Nat /\ \A n \in DOMAIN list : at[n] \in DOMAIN bars /\ list[n] = bars[at[n]]
  <2>1. Cardinality(P) \in Nat
    BY <1>1, PickedPositions
  <2>2. ASSUME NEW n \in DOMAIN list PROVE at[n] \in DOMAIN bars /\ list[n] = bars[at[n]]
    <3>1. n \in 1..Cardinality(P) /\ list = Picked(bars, P)
      BY <1>1, <1>4
    <3>2. at[n] \in P
      BY <3>1
    <3>3. list[n] = bars[at[n]]
      BY <1>5, <3>1
    <3> QED
      BY <1>1, <3>2, <3>3
  <2> QED
    BY <2>1, <2>2
<1>9. \A m, n \in DOMAIN list : list[m].t = list[n].t => m = n
  <2> SUFFICES ASSUME NEW m \in DOMAIN list, NEW n \in DOMAIN list, list[m].t = list[n].t
               PROVE  m = n
    OBVIOUS
  <2>1. at[m] = at[n]
    BY <1>8
  <2>2. at[m] \in Nat /\ m \in Nat /\ n \in Nat
    BY <1>4, <1>8, LenProperties
  <2>3. ~(at[m] < at[n]) /\ ~(at[n] < at[m])
    BY <2>1, <2>2
  <2>4. ~(m < n) /\ ~(n < m)
    BY <1>4, <1>5, <2>3
  <2> QED
    BY <2>2, <2>4
<1>10. InTimeOrder(bars) => InTimeOrder(list)
  BY <1>4, <1>5, <1>8 DEF InTimeOrder
<1> QED
  BY <1>1, <1>3, <1>4, <1>7, <1>8, <1>9, <1>10 DEF IsDay

(* For any bars of any tickers: the range of each day is that of its bars, *)
(* in whatever order they arrive.                                          *)
THEOREM DailyRangesAreRight ==
  (Asked("scan") => ScanAsked(question)) => RangeOfTheDay
<1> DEFINE First(S) == CHOOSE b \in S : \A c \in S : b.t <= c.t
           Latest(S) == CHOOSE b \in S : \A c \in S : c.t <= b.t
<1> SUFFICES ASSUME Asked("scan"), ScanAsked(question), NEW tk \in DOMAIN question.bars,
                    NEW d \in DaysOf(question.bars[tk])
             PROVE  LET bars == question.bars[tk]
                        mine == {b \in ToSet(bars) : BarDay(b) = d}
                        r == DailyRange(bars, d)
                        lows == {b \in mine : \A c \in mine : b.low <= c.low}
                        highs == {b \in mine : \A c \in mine : b.high >= c.high}
                    IN /\ r.low = First(lows).low /\ r.high = First(highs).high
                       /\ r.open = First(mine).open /\ r.close = Latest(mine).close
                       /\ InTimeOrder(bars) => (Direction(r) = "up" <=> First(lows).t <= First(highs).t)
  BY Zenon DEF RangeOfTheDay, InTimeOrder
<1>0. PICK bars : bars = question.bars[tk]
  OBVIOUS
<1> DEFINE mine == {b \in ToSet(bars) : BarDay(b) = d}
           r == DailyRange(bars, d)
           lows == {b \in mine : \A c \in mine : b.low <= c.low}
           highs == {b \in mine : \A c \in mine : b.high >= c.high}
<1>1. /\ bars \in Seq(MinuteBars)
      /\ \A i, j \in DOMAIN bars : bars[i].t = bars[j].t => i = j
      /\ d \in DaysOf(bars)
  BY <1>0 DEF ScanAsked
<1>2. PICK list : list = Picked(bars, {i \in DOMAIN bars : BarDay(bars[i]) = d})
  OBVIOUS
<1>3. /\ list \in Seq(MinuteBars) /\ list # <<>> /\ DOMAIN list = 1..Len(list)
      /\ ToSet(list) = mine
      /\ \A m, n \in DOMAIN list : list[m].t = list[n].t => m = n
      /\ InTimeOrder(bars) => InTimeOrder(list)
  <2>1. IsDay(list, bars, d)
    BY <1>1, <1>2, BarsOfDay
  <2> QED
    BY <2>1, Zenon DEF IsDay
<1>4. r = FoldLeft(UpdateRange, FirstRange(list[1]), list)
  BY <1>2, Zenon DEF DailyRange, Filtered, Positions
<1> HIDE DEF mine, r
<1>5. Covers(r, list, Len(list))
  BY <1>3, <1>4, RangeCovers
<1> DEFINE n == Len(list)
<1>6. \A k \in 1..n : /\ list[k] \in mine /\ list[k].t \in Nat
                      /\ list[k].low \in Int /\ list[k].high \in Int
  <2>1. \A k \in 1..n : list[k] \in mine /\ list[k] \in MinuteBars
    BY <1>3 DEF ToSet
  <2> QED
    BY <2>1 DEF MinuteBars
<1>7. \A b \in mine : \E k \in 1..n : b = list[k]
  BY <1>3 DEF ToSet
<1>8. PICK l \in 1..n :
        /\ list[l].low = r.low /\ list[l].t = r.lowAt
        /\ \A k \in 1..n : r.low <= list[k].low /\ (k < l => r.low < list[k].low)
  BY <1>5 DEF Covers, LowIs
<1>9. PICK h \in 1..n :
        /\ list[h].high = r.high /\ list[h].t = r.highAt
        /\ \A k \in 1..n : r.high >= list[k].high /\ (k < h => r.high > list[k].high)
  BY <1>5 DEF Covers, HighIs
<1>10. PICK o \in 1..n : /\ list[o].open = r.open /\ list[o].t = r.first
                         /\ \A k \in 1..n : r.first <= list[k].t
  BY <1>5 DEF Covers, OpenIs
<1>11. PICK c \in 1..n : /\ list[c].close = r.close /\ list[c].t = r.last
                         /\ \A k \in 1..n : list[k].t <= r.last
  BY <1>5 DEF Covers, CloseIs
<1> HIDE DEF n
<1>12. ASSUME NEW S \in SUBSET mine, S # {}
       PROVE  First(S) \in S /\ \A b \in S : First(S).t <= b.t
  <2> DEFINE times == {b.t : b \in S}
  <2>1. times \in SUBSET Nat /\ times # {}
    BY <1>6, <1>7, <1>12
  <2>2. PICK t \in times : \A u \in times : t <= u
    BY <2>1, LeastExists
  <2>3. PICK b \in S : b.t = t
    BY <2>2
  <2>4. \A x \in S : b.t <= x.t
    BY <2>2, <2>3
  <2> QED
    BY <2>4
<1>13. \A b, x \in mine : b.t = x.t => b = x
  <2> SUFFICES ASSUME NEW b \in mine, NEW x \in mine, b.t = x.t PROVE b = x
    OBVIOUS
  <2>1. PICK k \in 1..n : b = list[k]
    BY <1>7
  <2>2. PICK m \in 1..n : x = list[m]
    BY <1>7
  <2>3. k = m
    BY <1>3, <2>1, <2>2 DEF n
  <2> QED
    BY <2>1, <2>2, <2>3
<1>14. /\ list[l] \in lows /\ list[h] \in highs
       /\ lows \in SUBSET mine /\ highs \in SUBSET mine /\ mine # {}
  BY <1>6, <1>7, <1>8, <1>9
<1> HIDE DEF lows, highs, First
<1>15. /\ First(lows) \in lows /\ \A b \in lows : First(lows).t <= b.t
       /\ First(highs) \in highs /\ \A b \in highs : First(highs).t <= b.t
       /\ First(mine) \in mine /\ \A b \in mine : First(mine).t <= b.t
  BY <1>12, <1>14
<1>16. r.low = First(lows).low
  <2>1. PICK k \in 1..n : First(lows) = list[k]
    BY <1>7, <1>14, <1>15
  <2>2. list[k].low <= list[l].low /\ list[l].low <= list[k].low
    BY <1>6, <1>14, <1>15, <2>1 DEF lows
  <2> QED
    BY <1>6, <1>8, <2>1, <2>2
<1>17. r.high = First(highs).high
  <2>1. PICK k \in 1..n : First(highs) = list[k]
    BY <1>7, <1>14, <1>15
  <2>2. list[k].high >= list[h].high /\ list[h].high >= list[k].high
    BY <1>6, <1>14, <1>15, <2>1 DEF highs
  <2> QED
    BY <1>6, <1>9, <2>1, <2>2
<1>18. r.open = First(mine).open
  <2>1. list[o] \in mine /\ First(mine) \in mine /\ First(mine).t \in Nat /\ list[o].t \in Nat
    BY <1>6, <1>7, <1>15
  <2>2. First(mine).t <= list[o].t /\ list[o].t <= First(mine).t
    BY <1>7, <1>10, <1>15, <2>1
  <2>3. First(mine) = list[o]
    BY <1>13, <2>1, <2>2
  <2> QED
    BY <1>10, <2>3
<1>19. r.close = Latest(mine).close
  <2>1. list[c] \in mine /\ \A b \in mine : b.t <= list[c].t
    BY <1>6, <1>7, <1>11
  <2>2. Latest(mine) \in mine /\ \A b \in mine : b.t <= Latest(mine).t
    BY <2>1
  <2> HIDE DEF Latest
  <2>3. Latest(mine).t \in Nat /\ list[c].t \in Nat
    BY <1>6, <1>7, <2>2
  <2>4. Latest(mine).t = list[c].t
    BY <2>1, <2>2, <2>3
  <2>5. Latest(mine) = list[c]
    BY <1>13, <2>1, <2>2, <2>4
  <2> QED
    BY <1>11, <2>5
<1>20. ASSUME InTimeOrder(bars)
       PROVE  Direction(r) = "up" <=> First(lows).t <= First(highs).t
  <2>1. \A i, j \in 1..n : i < j => list[i].t <= list[j].t
    BY <1>3, <1>20 DEF n, InTimeOrder
  <2>2. \A k \in 1..n : list[k] \in lows => list[l].t <= list[k].t
    <3> SUFFICES ASSUME NEW k \in 1..n, list[k] \in lows PROVE list[l].t <= list[k].t
      OBVIOUS
    <3>1. list[k].low <= list[l].low
      BY <1>14 DEF lows
    <3>2. k \in Int /\ l \in Int /\ ~(k < l)
      BY <1>6, <1>8, <3>1
    <3>3. k = l \/ l < k
      BY <3>2
    <3> QED
      BY <1>6, <2>1, <3>3
  <2>3. \A k \in 1..n : list[k] \in highs => list[h].t <= list[k].t
    <3> SUFFICES ASSUME NEW k \in 1..n, list[k] \in highs PROVE list[h].t <= list[k].t
      OBVIOUS
    <3>1. list[k].high >= list[h].high
      BY <1>14 DEF highs
    <3>2. k \in Int /\ h \in Int /\ ~(k < h)
      BY <1>6, <1>9, <3>1
    <3>3. k = h \/ h < k
      BY <3>2
    <3> QED
      BY <1>6, <2>1, <3>3
  <2>4. First(lows).t = r.lowAt
    <3>1. PICK k \in 1..n : First(lows) = list[k]
      BY <1>7, <1>14, <1>15
    <3>2. list[l].t <= list[k].t /\ list[k].t <= list[l].t
      BY <1>14, <1>15, <2>2, <3>1
    <3> QED
      BY <1>6, <1>8, <3>1, <3>2
  <2>5. First(highs).t = r.highAt
    <3>1. PICK k \in 1..n : First(highs) = list[k]
      BY <1>7, <1>14, <1>15
    <3>2. list[h].t <= list[k].t /\ list[k].t <= list[h].t
      BY <1>14, <1>15, <2>3, <3>1
    <3> QED
      BY <1>6, <1>9, <3>1, <3>2
  <2> QED
    BY <2>4, <2>5 DEF Direction
<1>21. /\ r.low = First(lows).low /\ r.high = First(highs).high
       /\ r.open = First(mine).open /\ r.close = Latest(mine).close
       /\ InTimeOrder(bars) => (Direction(r) = "up" <=> First(lows).t <= First(highs).t)
  BY <1>16, <1>17, <1>18, <1>19, <1>20
<1> HIDE DEF Latest
<1> QED
  BY <1>0, <1>21, Zenon DEF mine, r, lows, highs

-----------------------------------------------------------------------------
(***************************************************************************)
(* The counts of a backtest                                                *)
(***************************************************************************)

Actions == {"buy", "sell", "hold"}
Levels == {"high", "middle", "low"}
Reasons == {"hold", "after_hours", "no_prices"}

(* What the rows of a backtest have in common. *)
IsRow(r) ==
  /\ r.skipped = "no" \/ r.skipped \in Reasons
  /\ (r.skipped = "no") <=> r.trade.traded
  /\ r.verdict.action \in Actions
  /\ r.signed = <<>> \/ \E x \in Int : r.signed = <<x>>
  /\ r.verdict.action = "hold" => r.signed = <<>>

LEMMA SimulatedTrade ==
  ASSUME NEW a, a.at \in Nat, NEW p, p.bars \in SUBSET Bars, p.close \in SUBSET Closes,
         NEW late, NEW trade, trade = Simulate(a, p, late)
  PROVE  trade.traded \in BOOLEAN /\ (trade.traded => trade.gain \in Int)
<1>1. trade.traded \in BOOLEAN
  BY DEF Simulate, NoTrade
<1>2. trade.traded => trade.gain \in Int
  BY TradeShape
<1> QED
  BY <1>1, <1>2

LEMMA ResultIsRow ==
  ASSUME NEW v \in Verdicts, NEW trade, trade.traded \in BOOLEAN,
         trade.traded => trade.gain \in Int,
         NEW reason, reason = "no" \/ reason \in Reasons, (reason = "no") <=> trade.traded,
         NEW r, r = Result(v, trade, reason)
  PROVE  IsRow(r)
<1>1. r.verdict = v /\ r.trade = trade /\ r.skipped = reason
      /\ r.signed = IF ~trade.traded \/ v.action = "hold" THEN <<>>
                    ELSE IF v.action = "buy" THEN <<trade.gain>> ELSE <<-trade.gain>>
  BY DEF Result
<1>2. v.action \in Actions
  BY DEF Verdicts, Actions
<1>3. r.signed = <<>> \/ \E x \in Int : r.signed = <<x>>
  <2>1. CASE ~trade.traded \/ v.action = "hold"
    BY <1>1, <2>1
  <2>2. CASE ~(~trade.traded \/ v.action = "hold")
    <3>1. PICK gain \in Int : gain = trade.gain
      BY <2>2
    <3>2. -gain \in Int
      OBVIOUS
    <3> QED
      BY <1>1, <2>2, <3>1, <3>2
  <2> QED
    BY <2>1, <2>2
<1> QED
  BY <1>1, <1>2, <1>3 DEF IsRow

(* Every verdict has a row of its own. *)
LEMMA EvaluatedRows ==
  ASSUME NEW q, BacktestAsked(q), NEW rows, rows = Evaluate(q)
  PROVE  /\ rows \in Seq(ToSet(rows)) /\ DOMAIN rows = DOMAIN q.verdicts
         /\ \A i \in DOMAIN rows : IsRow(rows[i]) /\ rows[i].verdict = q.verdicts[i]
<1>1. q.verdicts \in Seq(Verdicts) /\ DOMAIN q.verdicts = 1..Len(q.verdicts) /\ Len(q.verdicts) \in Nat
  BY LenProperties DEF BacktestAsked
<1>2. rows = [i \in 1..Len(q.verdicts) |-> EvaluateOne(q, q.verdicts[i])]
  BY <1>1 DEF Evaluate
<1>3. rows \in Seq(ToSet(rows)) /\ DOMAIN rows = DOMAIN q.verdicts
  BY <1>1, <1>2 DEF ToSet
<1>4. ASSUME NEW i \in DOMAIN q.verdicts
      PROVE  IsRow(rows[i]) /\ rows[i].verdict = q.verdicts[i]
  <2>1. PICK v \in Verdicts : v = q.verdicts[i]
    BY <1>1
  <2>2. rows[i] = EvaluateOne(q, v)
    BY <1>1, <1>2, <2>1
  <2>3. rows[i].verdict = v
    BY <2>2, TradedVerdict
  <2>4. PICK trade : trade = Simulate(v, FetchedPrices(q, v.ticker), FALSE)
    OBVIOUS
  <2>5. trade.traded \in BOOLEAN /\ (trade.traded => trade.gain \in Int)
    <3>1. PICK p : p = FetchedPrices(q, v.ticker)
      OBVIOUS
    <3>2. PICK lo, hi : p = Prices(q, v.ticker, lo, hi)
      BY <3>1, Zenon DEF FetchedPrices
    <3>3. q.bars \in SUBSET Bars /\ q.closes \in SUBSET Closes /\ v.at \in Nat
      BY DEF BacktestAsked, Verdicts
    <3>4. p.bars \in SUBSET Bars /\ p.close \in SUBSET Closes
      BY <3>2, <3>3, FetchedAreStored
    <3> QED
      BY <2>4, <3>1, <3>3, <3>4, SimulatedTrade
  <2>6. NoTrade.traded = FALSE
    BY DEF NoTrade
  <2>7. PICK none : none = NoTrade /\ none.traded = FALSE
    BY <2>6
  <2>8. PICK reason : reason = IF trade.traded THEN "no"
                               ELSE IF InDay(MinuteOf(v.at)) >= CloseMinute
                                    THEN "after_hours" ELSE "no_prices"
    OBVIOUS
  <2>9. \/ rows[i] = Result(v, none, "hold")
        \/ rows[i] = Result(v, none, "no_prices")
        \/ rows[i] = Result(v, trade, reason)
    BY <2>2, <2>4, <2>7, <2>8, Zenon DEF EvaluateOne
  <2>10. IsRow(Result(v, none, "hold"))
    <3>1. PICK why : why = "hold" /\ why \in Reasons /\ why # "no"
      BY DEF Reasons
    <3>2. /\ none.traded \in BOOLEAN
          /\ none.traded => none.gain \in Int
          /\ why = "no" \/ why \in Reasons
          /\ (why = "no") <=> none.traded
      BY <2>7, <3>1
    <3>3. IsRow(Result(v, none, why))
      BY <3>1, <3>2, ResultIsRow
    <3> QED
      BY <3>1, <3>3
  <2>11. IsRow(Result(v, none, "no_prices"))
    <3>1. PICK why : why = "no_prices" /\ why \in Reasons /\ why # "no"
      BY DEF Reasons
    <3>2. /\ none.traded \in BOOLEAN
          /\ none.traded => none.gain \in Int
          /\ why = "no" \/ why \in Reasons
          /\ (why = "no") <=> none.traded
      BY <2>7, <3>1
    <3>3. IsRow(Result(v, none, why))
      BY <3>1, <3>2, ResultIsRow
    <3> QED
      BY <3>1, <3>3
  <2>12. IsRow(Result(v, trade, reason))
    <3>1. (reason = "no" \/ reason \in Reasons) /\ ((reason = "no") <=> trade.traded)
      BY <2>5, <2>8 DEF Reasons
    <3> QED
      BY <2>5, <3>1, ResultIsRow
  <2> QED
    BY <2>1, <2>3, <2>9, <2>10, <2>11, <2>12
<1> QED
  BY <1>3, <1>4

-----------------------------------------------------------------------------
(* The return of each row that has one, and zero of the others. *)
SignedAt(rows) == {i \in DOMAIN rows : rows[i].signed # <<>>}
Gains(rows) == [i \in DOMAIN rows |-> IF rows[i].signed # <<>> THEN rows[i].signed[1] ELSE 0]

RowList(e, n) == n \in Nat /\ e \in Seq(ToSet(e)) /\ DOMAIN e = 1..n /\ Len(e) = n
                 /\ \A i \in 1..n : IsRow(e[i])

LEMMA GainsAreNumbers ==
  ASSUME NEW e, NEW n, RowList(e, n)
  PROVE  Gains(e) \in [1..n -> Int]
<1>1. DOMAIN e = 1..n
  BY DEF RowList
<1>2. ASSUME NEW i \in 1..n
      PROVE  (IF e[i].signed # <<>> THEN e[i].signed[1] ELSE 0) \in Int
  <2>1. e[i].signed = <<>> \/ \E x \in Int : e[i].signed = <<x>>
    BY DEF RowList, IsRow
  <2> QED
    BY <2>1
<1> QED
  BY <1>1, <1>2 DEF Gains

(* Some of the rows: their number, and their returns. *)
LEMMA PickedRows ==
  ASSUME NEW e, NEW n, RowList(e, n), NEW P \in SUBSET (1..n), NEW some, some = Picked(e, P)
  PROVE  /\ RowList(some, Cardinality(P))
         /\ Gains(some) = Picked(Gains(e), P)
         /\ [i \in DOMAIN some |-> some[i].signed[1]]
              = Picked([i \in DOMAIN e |-> e[i].signed[1]], P)
<1>1. n \in Nat /\ DOMAIN e = 1..n /\ \A i \in 1..n : IsRow(e[i])
  BY DEF RowList
<1>2. Cardinality(P) \in Nat
  BY <1>1, PositionsInOrder
<1>3. PICK at \in [1..Cardinality(P) -> P] :
        /\ \A list : Picked(list, P) = [k \in 1..Cardinality(P) |-> list[at[k]]]
        /\ \A j, k \in 1..Cardinality(P) : at[j] < at[k] <=> j < k
        /\ \A i \in P : \E k \in 1..Cardinality(P) : at[k] = i
        /\ \A k \in 1..Cardinality(P) : Cardinality({y \in P : y < at[k]}) = k - 1
  BY <1>1, PositionsInOrder
<1>4. PICK c \in Nat : c = Cardinality(P)
  BY <1>2
<1>5. at \in [1..c -> P] /\ \A list : Picked(list, P) = [k \in 1..c |-> list[at[k]]]
  BY <1>3, <1>4
<1>6. some = [k \in 1..c |-> e[at[k]]] /\ DOMAIN some = 1..c
  BY <1>5
<1>7. \A k \in 1..c : at[k] \in P /\ at[k] \in 1..n /\ some[k] = e[at[k]]
  BY <1>5, <1>6
<1>8. RowList(some, c)
  <2>1. some \in [1..c -> ToSet(some)]
    BY <1>6 DEF ToSet
  <2>2. some \in Seq(ToSet(some)) /\ Len(some) = c
    BY <2>1, FunctionIsList
  <2> QED
    BY <1>1, <1>6, <1>7, <2>2 DEF RowList
<1>9. Gains(some) = Picked(Gains(e), P)
  <2>1. Picked(Gains(e), P) = [k \in 1..c |-> Gains(e)[at[k]]]
    BY <1>5
  <2>2. ASSUME NEW k \in 1..c PROVE Gains(e)[at[k]] = Gains(some)[k]
    BY <1>1, <1>6, <1>7 DEF Gains
  <2>3. Gains(some) = [k \in 1..c |-> Gains(some)[k]]
    BY <1>6 DEF Gains
  <2> QED
    BY <2>1, <2>2, <2>3
<1>10. [i \in DOMAIN some |-> some[i].signed[1]] = Picked([i \in DOMAIN e |-> e[i].signed[1]], P)
  <2>1. PICK g : g = [i \in DOMAIN e |-> e[i].signed[1]]
    OBVIOUS
  <2>2. Picked(g, P) = [k \in 1..c |-> g[at[k]]]
    BY <1>5
  <2>3. \A k \in 1..c : g[at[k]] = some[k].signed[1]
    BY <1>1, <1>7, <2>1
  <2> QED
    BY <1>6, <2>1, <2>2, <2>3
<1> QED
  BY <1>4, <1>6, <1>7, <1>8, <1>9, <1>10

LEMMA StatsOf ==
  ASSUME NEW e, NEW n, RowList(e, n), NEW s, s = Stats(e)
  PROVE  /\ s.n = n /\ s.total = SumOf(Gains(e)) /\ s.scored = Cardinality(SignedAt(e))
<1> DEFINE P == SignedAt(e)
           signed == Picked(e, P)
<1>1. n \in Nat /\ DOMAIN e = 1..n /\ Len(e) = n /\ P \in SUBSET (1..n)
  BY DEF RowList, SignedAt
<1>2. /\ s.n = Len(e) /\ s.scored = Len(signed)
      /\ s.total = SumOf([i \in DOMAIN signed |-> signed[i].signed[1]])
  <2>1. \E wins : s = [n |-> Len(e), scored |-> Len(signed), wins |-> wins,
                      total |-> SumOf([i \in DOMAIN signed |-> signed[i].signed[1]])]
    BY Zenon DEF Stats, Filtered, SignedAt, Positions
  <2> QED
    BY <2>1
<1>3. PICK some : some = signed
  OBVIOUS
<1> HIDE DEF P
<1>4. /\ RowList(some, Cardinality(P))
      /\ [i \in DOMAIN some |-> some[i].signed[1]] = Picked([i \in DOMAIN e |-> e[i].signed[1]], P)
  BY <1>1, <1>3, PickedRows
<1>5. s.scored = Cardinality(P)
  BY <1>2, <1>3, <1>4 DEF RowList
<1>6. s.total = SumOf(Picked([i \in DOMAIN e |-> e[i].signed[1]], P))
  BY <1>2, <1>3, <1>4
<1>7. Picked([i \in DOMAIN e |-> e[i].signed[1]], P) = Picked(Gains(e), P)
  <2>1. PICK g : g = [i \in DOMAIN e |-> e[i].signed[1]]
    OBVIOUS
  <2>2. \A i \in P : g[i] = Gains(e)[i]
    BY <2>1 DEF P, SignedAt, Gains
  <2>3. PICK at \in [1..Cardinality(P) -> P] :
          /\ \A list : Picked(list, P) = [k \in 1..Cardinality(P) |-> list[at[k]]]
          /\ \A j, k \in 1..Cardinality(P) : at[j] < at[k] <=> j < k
          /\ \A i \in P : \E k \in 1..Cardinality(P) : at[k] = i
          /\ \A k \in 1..Cardinality(P) : Cardinality({y \in P : y < at[k]}) = k - 1
    BY <1>1, PositionsInOrder
  <2>4. \A k \in 1..Cardinality(P) : g[at[k]] = Gains(e)[at[k]]
    BY <2>2
  <2>5. Picked(g, P) = Picked(Gains(e), P)
    BY <2>3, <2>4
  <2> QED
    BY <2>1, <2>5
<1>8. SumOf(Picked(Gains(e), P)) = SumOf(Gains(e))
  <2>1. Gains(e) \in [1..n -> Int]
    BY GainsAreNumbers
  <2>2. PICK v \in [1..n -> Int] : v = Gains(e)
    BY <2>1
  <2>3. SumOf(Picked(v, P)) = SumOf([i \in 1..n |-> IF i \in P THEN v[i] ELSE 0])
    BY <1>1, SumOfPicked
  <2>4. \A i \in 1..n : (IF i \in P THEN v[i] ELSE 0) = v[i]
    BY <1>1, <2>2 DEF P, SignedAt, Gains
  <2>5. [i \in 1..n |-> IF i \in P THEN v[i] ELSE 0] = v
    BY <2>4
  <2> QED
    BY <2>2, <2>3, <2>5
<1> QED
  BY <1>1, <1>2, <1>5, <1>6, <1>7, <1>8 DEF P

(* What the figures of some of the rows are, in terms of all of them. *)
PartOf(v, P, n) == [i \in 1..n |-> IF i \in P THEN v[i] ELSE 0]

LEMMA StatsOfPart ==
  ASSUME NEW e, NEW n, RowList(e, n), NEW P \in SUBSET (1..n), NEW s, s = Stats(Picked(e, P))
  PROVE  /\ s.n = Cardinality(P)
         /\ s.total = SumOf(PartOf(Gains(e), P, n))
         /\ (\A i \in P : e[i].signed = <<>>) => s.scored = 0
<1>1. PICK some : some = Picked(e, P)
  OBVIOUS
<1>2. /\ RowList(some, Cardinality(P)) /\ Gains(some) = Picked(Gains(e), P)
      /\ \A i \in DOMAIN some : \E j \in P : some[i] = e[j]
  <2>1. RowList(some, Cardinality(P)) /\ Gains(some) = Picked(Gains(e), P)
    BY <1>1, PickedRows
  <2>2. \A i \in DOMAIN some : \E j \in P : some[i] = e[j]
    <3>1. e \in Seq(ToSet(e)) /\ P \in SUBSET (DOMAIN e)
      BY DEF RowList
    <3>2. ToSet(some) = {e[j] : j \in P}
      BY <1>1, <3>1, PickedList
    <3> QED
      BY <3>2 DEF ToSet
  <2> QED
    BY <2>1, <2>2
<1>3. /\ s.n = Cardinality(P) /\ s.total = SumOf(Gains(some))
      /\ s.scored = Cardinality(SignedAt(some))
  BY <1>1, <1>2, StatsOf
<1>4. SumOf(Gains(some)) = SumOf(PartOf(Gains(e), P, n))
  <2>1. PICK v \in [1..n -> Int] : v = Gains(e)
    BY GainsAreNumbers
  <2>2. n \in Nat
    BY DEF RowList
  <2>3. SumOf(Picked(v, P)) = SumOf([i \in 1..n |-> IF i \in P THEN v[i] ELSE 0])
    BY <2>2, SumOfPicked
  <2> QED
    BY <1>2, <2>1, <2>3 DEF PartOf
<1>5. (\A i \in P : e[i].signed = <<>>) => SignedAt(some) = {}
  BY <1>2 DEF SignedAt
<1> QED
  BY <1>3, <1>4, <1>5, FS_EmptySet

(* The figures of a summary, one by one. *)
KindAt(rows, n, kind) == {i \in 1..n : rows[i].skipped = kind}
ActionAt(rows, n, x) == {i \in 1..n : rows[i].verdict.action = x}
LevelAt(rows, n, x) == {i \in 1..n : Bucket(rows[i].verdict.confidence) = x}

LEMMA SummaryOf ==
  ASSUME NEW rows, NEW N, RowList(rows, N), NEW e, e = Picked(rows, KindAt(rows, N, "no")),
         NEW n, RowList(e, n), NEW sum, sum = Summarize(rows)
  PROVE  /\ sum.total = N
         /\ sum.skipped = [reason \in Reasons |-> Cardinality(KindAt(rows, N, reason))]
         /\ sum.overall = Stats(e)
         /\ sum.byAction = [x \in Actions |-> Stats(Picked(e, ActionAt(e, n, x)))]
         /\ sum.byConfidence = [x \in Levels |-> Stats(Picked(e, LevelAt(e, n, x)))]
<1>1. DOMAIN rows = 1..N /\ Len(rows) = N /\ DOMAIN e = 1..n
  BY DEF RowList
<1> DEFINE traded == Picked(rows, {i \in DOMAIN rows : rows[i].skipped = "no"})
           Skips == [reason \in {"hold", "after_hours", "no_prices"} |->
                       Cardinality({i \in DOMAIN rows : rows[i].skipped = reason})]
           ByAction == [x \in {"buy", "sell", "hold"} |->
             Stats(Picked(traded, {i \in DOMAIN traded : traded[i].verdict.action = x}))]
           ByLevel == [x \in {"high", "middle", "low"} |->
             Stats(Picked(traded, {i \in DOMAIN traded : Bucket(traded[i].verdict.confidence) = x}))]
<1>2. sum = [total |-> Len(rows), skipped |-> Skips, overall |-> Stats(traded),
             byAction |-> ByAction, byConfidence |-> ByLevel]
  BY Zenon DEF Summarize, Filtered, Positions
<1>3. traded = e
  BY <1>1, Zenon DEF KindAt
<1>4. ByAction = [x \in Actions |-> Stats(Picked(e, ActionAt(e, n, x)))]
  BY <1>1, <1>3, Zenon DEF ActionAt, Actions
<1>5. ByLevel = [x \in Levels |-> Stats(Picked(e, LevelAt(e, n, x)))]
  BY <1>1, <1>3, Zenon DEF LevelAt, Levels
<1>6. Skips = [reason \in Reasons |-> Cardinality(KindAt(rows, N, reason))]
  BY <1>1, Zenon DEF KindAt, Reasons
<1> HIDE DEF traded, Skips, ByAction, ByLevel
<1>7. /\ sum.total = Len(rows) /\ sum.skipped = Skips /\ sum.overall = Stats(traded)
      /\ sum.byAction = ByAction /\ sum.byConfidence = ByLevel
  BY <1>2
<1> QED
  BY <1>1, <1>3, <1>4, <1>5, <1>6, <1>7, Zenon

(* Each row is of one kind, and each that was traded of one action and of  *)
(* one level.                                                              *)
KindsAddUp(rows, N) ==
  /\ N = Cardinality(KindAt(rows, N, "no")) + Cardinality(KindAt(rows, N, "hold"))
         + Cardinality(KindAt(rows, N, "after_hours"))
         + Cardinality(KindAt(rows, N, "no_prices"))
  /\ N = Cardinality(ActionAt(rows, N, "buy")) + Cardinality(ActionAt(rows, N, "sell"))
         + Cardinality(ActionAt(rows, N, "hold"))
  /\ N = Cardinality(LevelAt(rows, N, "high")) + Cardinality(LevelAt(rows, N, "middle"))
         + Cardinality(LevelAt(rows, N, "low"))
  /\ \A x : /\ Cardinality(KindAt(rows, N, x)) \in Nat
            /\ Cardinality(ActionAt(rows, N, x)) \in Nat
            /\ Cardinality(LevelAt(rows, N, x)) \in Nat

LEMMA KindsOfRows ==
  ASSUME NEW rows, NEW N, RowList(rows, N)
  PROVE  KindsAddUp(rows, N)
<1>1. N \in Nat /\ \A i \in 1..N : IsRow(rows[i])
  BY DEF RowList
<1>2. PICK D : D = 1..N /\ IsFiniteSet(D) /\ Cardinality(D) = N
  BY <1>1, FirstNumbers
<1>a. IsFiniteSet(D) /\ Cardinality(D) = N
  BY <1>2
<1>3. \A x : /\ Cardinality(KindAt(rows, N, x)) \in Nat
             /\ Cardinality(ActionAt(rows, N, x)) \in Nat
             /\ Cardinality(LevelAt(rows, N, x)) \in Nat
  <2>1. \A S \in SUBSET (1..N) : Cardinality(S) \in Nat
    BY <1>2, FS_Subset, FS_CardinalityType
  <2>2. \A x : /\ KindAt(rows, N, x) \in SUBSET (1..N) /\ ActionAt(rows, N, x) \in SUBSET (1..N)
               /\ LevelAt(rows, N, x) \in SUBSET (1..N)
    BY DEF KindAt, ActionAt, LevelAt
  <2> QED
    BY <2>1, <2>2
<1>4. N = Cardinality(KindAt(rows, N, "no")) + Cardinality(KindAt(rows, N, "hold"))
          + Cardinality(KindAt(rows, N, "after_hours")) + Cardinality(KindAt(rows, N, "no_prices"))
  <2>0. PICK no, hold, late, quiet :
          /\ no = KindAt(rows, N, "no") /\ hold = KindAt(rows, N, "hold")
          /\ late = KindAt(rows, N, "after_hours") /\ quiet = KindAt(rows, N, "no_prices")
    OBVIOUS
  <2>a. PICK others : others = hold \cup late \cup quiet
    OBVIOUS
  <2>1. /\ no = KindAt(rows, N, "no") /\ hold = KindAt(rows, N, "hold")
        /\ late = KindAt(rows, N, "after_hours") /\ quiet = KindAt(rows, N, "no_prices")
        /\ others = hold \cup late \cup quiet
    BY <2>0, <2>a
  <2>2. D = no \cup others /\ no \cap others = {}
    BY <1>1, <1>2, <2>1 DEF KindAt, IsRow, Reasons
  <2>3. hold \cap late = {} /\ hold \cap quiet = {} /\ late \cap quiet = {}
    BY <2>1 DEF KindAt
  <2>4. N = Cardinality(no) + Cardinality(others) /\ IsFiniteSet(others) /\ Cardinality(no) \in Nat
    BY <1>a, <2>2, PartsAddUp
  <2>5. /\ Cardinality(others) = Cardinality(hold) + Cardinality(late) + Cardinality(quiet)
        /\ Cardinality(hold) \in Nat /\ Cardinality(late) \in Nat /\ Cardinality(quiet) \in Nat
    <3>1. IsFiniteSet(others) /\ ThreeParts(others, hold, late, quiet)
      BY <2>1, <2>3, <2>4 DEF ThreeParts
    <3> QED
      BY <3>1, ThreePartsAddUp
  <2> QED
    BY <2>1, <2>4, <2>5
<1>5. N = Cardinality(ActionAt(rows, N, "buy")) + Cardinality(ActionAt(rows, N, "sell"))
          + Cardinality(ActionAt(rows, N, "hold"))
  <2>1. PICK a, b, c : /\ a = ActionAt(rows, N, "buy") /\ b = ActionAt(rows, N, "sell")
                       /\ c = ActionAt(rows, N, "hold")
    OBVIOUS
  <2>2. ThreeParts(D, a, b, c)
    BY <1>1, <1>2, <2>1 DEF ActionAt, IsRow, Actions, ThreeParts
  <2>4. Cardinality(D) = Cardinality(a) + Cardinality(b) + Cardinality(c)
    BY <1>a, <2>2, ThreePartsAddUp
  <2> QED
    BY <1>a, <2>1, <2>4
<1>6. N = Cardinality(LevelAt(rows, N, "high")) + Cardinality(LevelAt(rows, N, "middle"))
          + Cardinality(LevelAt(rows, N, "low"))
  <2>1. PICK a, b, c : /\ a = LevelAt(rows, N, "high") /\ b = LevelAt(rows, N, "middle")
                       /\ c = LevelAt(rows, N, "low")
    OBVIOUS
  <2>2. \A confidence : Bucket(confidence) \in {"high", "middle", "low"}
    BY DEF Bucket
  <2>3. ThreeParts(D, a, b, c)
    BY <1>2, <2>1, <2>2 DEF LevelAt, ThreeParts
  <2>4. Cardinality(D) = Cardinality(a) + Cardinality(b) + Cardinality(c)
    BY <1>a, <2>3, ThreePartsAddUp
  <2> QED
    BY <1>a, <2>1, <2>4
<1> QED
  BY <1>3, <1>4, <1>5, <1>6 DEF KindsAddUp

(* For any verdicts and prices: each verdict has a row, that is traded or  *)
(* skipped for one reason, and the counts and the returns by reason, by    *)
(* action and by confidence add up to those of all.                        *)
THEOREM EveryVerdictIsCounted ==
  (Asked("backtest") => BacktestAsked(question)) => EveryVerdictCounted
<1> DEFINE AddUp(f) == SumOf([i \in 1..3 |-> f[SetToSeq(DOMAIN f)[i]]])
<1> SUFFICES ASSUME Asked("backtest"), BacktestAsked(question),
                    NEW rows, rows = Evaluate(question), NEW sum, sum = Summarize(rows)
             PROVE  /\ \A i \in DOMAIN rows : /\ rows[i].verdict = question.verdicts[i]
                                              /\ (rows[i].skipped = "no") <=> rows[i].trade.traded
                    /\ sum.total = sum.overall.n + AddUp(sum.skipped)
                    /\ sum.overall.n = AddUp([x \in DOMAIN sum.byAction |-> sum.byAction[x].n])
                    /\ sum.overall.n
                         = AddUp([x \in DOMAIN sum.byConfidence |-> sum.byConfidence[x].n])
                    /\ sum.overall.total = sum.byAction["buy"].total + sum.byAction["sell"].total
                    /\ sum.byAction["hold"].scored = 0
  BY Zenon DEF EveryVerdictCounted
<1>1. /\ rows \in Seq(ToSet(rows)) /\ DOMAIN rows = DOMAIN question.verdicts
      /\ \A i \in DOMAIN rows : IsRow(rows[i]) /\ rows[i].verdict = question.verdicts[i]
  BY EvaluatedRows
<1>2. PICK N : N = Len(rows) /\ RowList(rows, N)
  BY <1>1, LenProperties DEF RowList
<1>3. PICK e : e = Picked(rows, KindAt(rows, N, "no"))
  OBVIOUS
<1>4. PICK n : n = Cardinality(KindAt(rows, N, "no")) /\ RowList(e, n)
  <2>1. PICK P : P = KindAt(rows, N, "no") /\ P \in SUBSET (1..N)
    BY DEF KindAt
  <2> QED
    BY <1>2, <1>3, <2>1, PickedRows
<1>5. /\ sum.total = N
      /\ sum.skipped = [reason \in Reasons |-> Cardinality(KindAt(rows, N, reason))]
      /\ sum.overall = Stats(e)
      /\ sum.byAction = [x \in Actions |-> Stats(Picked(e, ActionAt(e, n, x)))]
      /\ sum.byConfidence = [x \in Levels |-> Stats(Picked(e, LevelAt(e, n, x)))]
  BY <1>2, <1>3, <1>4, SummaryOf
<1>6. /\ N = n + Cardinality(KindAt(rows, N, "hold")) + Cardinality(KindAt(rows, N, "after_hours"))
                + Cardinality(KindAt(rows, N, "no_prices"))
      /\ \A x : Cardinality(KindAt(rows, N, x)) \in Nat
  <2>1. /\ N = Cardinality(KindAt(rows, N, "no")) + Cardinality(KindAt(rows, N, "hold"))
                 + Cardinality(KindAt(rows, N, "after_hours")) + Cardinality(KindAt(rows, N, "no_prices"))
        /\ \A x : Cardinality(KindAt(rows, N, x)) \in Nat
    <3>1. KindsAddUp(rows, N)
      BY <1>2, KindsOfRows
    <3> QED
      BY <3>1 DEF KindsAddUp
  <2> QED
    BY <1>4, <2>1
<1>7. /\ n = Cardinality(ActionAt(e, n, "buy")) + Cardinality(ActionAt(e, n, "sell"))
                + Cardinality(ActionAt(e, n, "hold"))
      /\ n = Cardinality(LevelAt(e, n, "high")) + Cardinality(LevelAt(e, n, "middle"))
                + Cardinality(LevelAt(e, n, "low"))
      /\ \A x : Cardinality(ActionAt(e, n, x)) \in Nat /\ Cardinality(LevelAt(e, n, x)) \in Nat
  <2>1. KindsAddUp(e, n)
    BY <1>4, KindsOfRows
  <2> QED
    BY <2>1 DEF KindsAddUp
<1>8. sum.overall.n = n /\ sum.overall.total = SumOf(Gains(e)) /\ n \in Nat
  <2>1. /\ Stats(e).n = n /\ Stats(e).total = SumOf(Gains(e))
    BY <1>4, StatsOf
  <2> QED
    BY <1>4, <1>5, <2>1 DEF RowList
<1>9. \A x \in Actions : /\ sum.byAction[x].n = Cardinality(ActionAt(e, n, x))
                         /\ sum.byAction[x].total = SumOf(PartOf(Gains(e), ActionAt(e, n, x), n))
                         /\ (\A i \in ActionAt(e, n, x) : e[i].signed = <<>>)
                              => sum.byAction[x].scored = 0
  <2> TAKE x \in Actions
  <2>1. PICK P : P = ActionAt(e, n, x) /\ P \in SUBSET (1..n)
    BY DEF ActionAt
  <2>2. PICK s : s = Stats(Picked(e, P)) /\ s = sum.byAction[x]
    BY <1>5, <2>1
  <2>3. /\ s.n = Cardinality(P) /\ s.total = SumOf(PartOf(Gains(e), P, n))
        /\ (\A i \in P : e[i].signed = <<>>) => s.scored = 0
    BY <1>4, <2>1, <2>2, StatsOfPart
  <2> QED
    BY <2>1, <2>2, <2>3
<1>10. \A x \in Levels : sum.byConfidence[x].n = Cardinality(LevelAt(e, n, x))
  <2> TAKE x \in Levels
  <2>1. PICK P : P = LevelAt(e, n, x) /\ P \in SUBSET (1..n)
    BY DEF LevelAt
  <2>2. PICK s : s = Stats(Picked(e, P)) /\ s = sum.byConfidence[x]
    BY <1>5, <2>1
  <2>3. s.n = Cardinality(P)
    BY <1>4, <2>1, <2>2, StatsOfPart
  <2> QED
    BY <2>1, <2>2, <2>3
<1>11. sum.total = sum.overall.n + AddUp(sum.skipped)
  <2>1. PICK f \in [{"hold", "after_hours", "no_prices"} -> Int] : f = sum.skipped
    BY <1>5, <1>6 DEF Reasons
  <2>2. AddUp(f) = f["hold"] + f["after_hours"] + f["no_prices"]
    <3>1. PICK a, b, c : a = "hold" /\ b = "after_hours" /\ c = "no_prices"
      OBVIOUS
    <3>2. PICK S : S = DOMAIN f /\ Three(S, a, b, c)
      BY <3>1 DEF Three
    <3>3. f \in [S -> Int]
      BY <3>2
    <3>4. Together(f) = f[a] + f[b] + f[c]
      BY <3>2, <3>3, SummedUp
    <3>5. AddUp(f) = Together(f)
      BY Zenon DEF Together
    <3> QED
      BY <3>1, <3>4, <3>5
  <2>3. /\ f["hold"] = Cardinality(KindAt(rows, N, "hold"))
        /\ f["after_hours"] = Cardinality(KindAt(rows, N, "after_hours"))
        /\ f["no_prices"] = Cardinality(KindAt(rows, N, "no_prices"))
    BY <1>5, <2>1 DEF Reasons
  <2> HIDE DEF AddUp
  <2> QED
    BY <1>5, <1>6, <1>8, <2>1, <2>2, <2>3
<1>12. sum.overall.n = AddUp([x \in DOMAIN sum.byAction |-> sum.byAction[x].n])
  <2>1. DOMAIN sum.byAction = {"buy", "sell", "hold"}
    BY <1>5 DEF Actions
  <2>2. PICK f : f = [x \in DOMAIN sum.byAction |-> sum.byAction[x].n]
    OBVIOUS
  <2>a. f \in [{"buy", "sell", "hold"} -> Int]
    <3>1. \A x \in DOMAIN sum.byAction : sum.byAction[x].n \in Int
      BY <1>7, <1>9, <2>1, SMTT(20) DEF Actions
    <3> QED
      BY <2>1, <2>2, <3>1
  <2>3. AddUp(f) = f["buy"] + f["sell"] + f["hold"]
    <3>1. PICK a, b, c : a = "buy" /\ b = "sell" /\ c = "hold"
      OBVIOUS
    <3>2. PICK S : S = DOMAIN f /\ Three(S, a, b, c)
      BY <2>a, <3>1 DEF Three
    <3>3. f \in [S -> Int]
      BY <2>a, <3>2
    <3>4. Together(f) = f[a] + f[b] + f[c]
      BY <3>2, <3>3, SummedUp
    <3>5. AddUp(f) = Together(f)
      BY Zenon DEF Together
    <3> QED
      BY <3>1, <3>4, <3>5
  <2>4. /\ f["buy"] = Cardinality(ActionAt(e, n, "buy"))
        /\ f["sell"] = Cardinality(ActionAt(e, n, "sell"))
        /\ f["hold"] = Cardinality(ActionAt(e, n, "hold"))
    BY <1>9, <2>1, <2>2 DEF Actions
  <2> HIDE DEF AddUp
  <2> QED
    BY <1>7, <1>8, <2>2, <2>3, <2>4
<1>13. sum.overall.n = AddUp([x \in DOMAIN sum.byConfidence |-> sum.byConfidence[x].n])
  <2>1. DOMAIN sum.byConfidence = {"high", "middle", "low"}
    BY <1>5 DEF Levels
  <2>2. PICK f : f = [x \in DOMAIN sum.byConfidence |-> sum.byConfidence[x].n]
    OBVIOUS
  <2>a. f \in [{"high", "middle", "low"} -> Int]
    <3>1. \A x \in DOMAIN sum.byConfidence : sum.byConfidence[x].n \in Int
      BY <1>7, <1>10, <2>1 DEF Levels
    <3> QED
      BY <2>1, <2>2, <3>1
  <2>3. AddUp(f) = f["high"] + f["middle"] + f["low"]
    <3>1. PICK a, b, c : a = "high" /\ b = "middle" /\ c = "low"
      OBVIOUS
    <3>2. PICK S : S = DOMAIN f /\ Three(S, a, b, c)
      BY <2>a, <3>1 DEF Three
    <3>3. f \in [S -> Int]
      BY <2>a, <3>2
    <3>4. Together(f) = f[a] + f[b] + f[c]
      BY <3>2, <3>3, SummedUp
    <3>5. AddUp(f) = Together(f)
      BY Zenon DEF Together
    <3> QED
      BY <3>1, <3>4, <3>5
  <2>4. /\ f["high"] = Cardinality(LevelAt(e, n, "high"))
        /\ f["middle"] = Cardinality(LevelAt(e, n, "middle"))
        /\ f["low"] = Cardinality(LevelAt(e, n, "low"))
    BY <1>10, <2>1, <2>2 DEF Levels
  <2> HIDE DEF AddUp
  <2> QED
    BY <1>7, <1>8, <2>2, <2>3, <2>4
<1>14. sum.byAction["hold"].scored = 0
  <2>1. \A i \in ActionAt(e, n, "hold") : e[i].signed = <<>>
    BY <1>4 DEF ActionAt, RowList, IsRow
  <2> QED
    BY <1>9, <2>1 DEF Actions
<1>15. sum.overall.total = sum.byAction["buy"].total + sum.byAction["sell"].total
  <2>1. PICK w \in [1..n -> Int] : w = Gains(e)
    BY <1>4, GainsAreNumbers
  <2>2. PICK u : u = PartOf(w, ActionAt(e, n, "buy"), n)
    OBVIOUS
  <2>3. PICK v : v = PartOf(w, ActionAt(e, n, "sell"), n)
    OBVIOUS
  <2>4. u \in [1..n -> Int] /\ v \in [1..n -> Int]
    BY <2>2, <2>3 DEF PartOf
  <2>5. ASSUME NEW i \in 1..n PROVE w[i] = u[i] + v[i]
    <3>1. IsRow(e[i]) /\ w[i] \in Int /\ i \in DOMAIN e
      BY <1>4 DEF RowList
    <3>2. CASE e[i].verdict.action = "buy"
      <4>1. u[i] = w[i] /\ v[i] = 0
        BY <2>2, <2>3, <3>2 DEF PartOf, ActionAt
      <4> QED
        BY <3>1, <4>1
    <3>3. CASE e[i].verdict.action = "sell"
      <4>1. u[i] = 0 /\ v[i] = w[i]
        BY <2>2, <2>3, <3>3 DEF PartOf, ActionAt
      <4> QED
        BY <3>1, <4>1
    <3>4. CASE e[i].verdict.action = "hold"
      <4>1. u[i] = 0 /\ v[i] = 0
        BY <2>2, <2>3, <3>4 DEF PartOf, ActionAt
      <4>2. w[i] = 0
        BY <2>1, <3>1, <3>4 DEF IsRow, Gains
      <4> QED
        BY <4>1, <4>2
    <3> QED
      BY <3>1, <3>2, <3>3, <3>4 DEF IsRow, Actions
  <2>6. SumOf(w) = SumOf(u) + SumOf(v)
    <3>1. n \in Nat /\ w \in [1..n -> Int] /\ \A i \in 1..n : w[i] = u[i] + v[i]
      BY <1>8, <2>1, <2>5
    <3> QED
      BY <2>4, <3>1, SumOfSums
  <2>7. /\ sum.byAction["buy"].total = SumOf(u) /\ sum.byAction["sell"].total = SumOf(v)
    BY <1>9, <2>1, <2>2, <2>3 DEF Actions
  <2> QED
    BY <1>8, <2>1, <2>6, <2>7
<1>16. \A i \in DOMAIN rows : /\ rows[i].verdict = question.verdicts[i]
                              /\ (rows[i].skipped = "no") <=> rows[i].trade.traded
  BY <1>1 DEF IsRow
<1> HIDE DEF AddUp
<1> QED
  BY <1>11, <1>12, <1>13, <1>14, <1>15, <1>16

-----------------------------------------------------------------------------
(***************************************************************************)
(* The scores                                                              *)
(***************************************************************************)

(* p numbers the elements of B with those of A. *)
Numbers(p, A, B) ==
  /\ p \in [A -> B]
  /\ \A j, k \in A : p[j] = p[k] => j = k
  /\ \A b \in B : \E k \in A : p[k] = b

(* So it numbers a part of B with a part of A. *)
Matches(p, A, B, X, Y) ==
  /\ IsFiniteSet(A) /\ Numbers(p, A, B)
  /\ X \in SUBSET A /\ Y \in SUBSET B
  /\ \A k \in A : k \in X <=> p[k] \in Y

LEMMA SameCount ==
  ASSUME NEW p, NEW A, NEW B, NEW X, NEW Y, Matches(p, A, B, X, Y)
  PROVE  Cardinality(X) \in Nat /\ Cardinality(X) = Cardinality(Y)
<1>0. /\ IsFiniteSet(A) /\ Numbers(p, A, B)
      /\ X \in SUBSET A /\ Y \in SUBSET B
      /\ \A k \in A : k \in X <=> p[k] \in Y
  BY DEF Matches
<1>1. IsFiniteSet(X) /\ Cardinality(X) \in Nat
  BY <1>0, FS_Subset, FS_CardinalityType
<1> DEFINE f == [k \in X |-> p[k]]
<1>2. f \in [X -> Y]
  BY <1>0 DEF Numbers
<1>3. \A j, k \in X : f[j] = f[k] => j = k
  BY <1>0 DEF Numbers
<1>4. \A y \in Y : \E k \in X : f[k] = y
  <2> TAKE y \in Y
  <2>1. PICK k \in A : p[k] = y
    BY <1>0 DEF Numbers
  <2> QED
    BY <1>0, <2>1
<1> HIDE DEF f
<1>5. f \in Bijection(X, Y)
  <2>1. f \in Injection(X, Y)
    BY <1>2, <1>3 DEF Injection, IsInjective
  <2>2. f \in Surjection(X, Y)
    BY <1>2, <1>4 DEF Surjection
  <2> QED
    BY <2>1, <2>2 DEF Bijection
<1>6. ExistsBijection(X, Y)
  BY <1>5 DEF ExistsBijection
<1> QED
  BY <1>1, <1>6, FS_Bijection

(* The elements of a list at some of its positions, numbered. *)
PicksAt(at, P, c) ==
  /\ c = Cardinality(P) /\ c \in Nat
  /\ Numbers(at, 1..c, P)
  /\ \A list : Picked(list, P) = [n \in 1..c |-> list[at[n]]]

LEMMA PickedNumbers ==
  ASSUME NEW N \in Nat, NEW P, P \in SUBSET (1..N), NEW c, c = Cardinality(P)
  PROVE  IsFiniteSet(P) /\ \E at : PicksAt(at, P, c)
<1>1. IsFiniteSet(P) /\ c \in Nat
  BY PositionsInOrder
<1>3. PICK at \in [1..Cardinality(P) -> P] :
        /\ \A list : Picked(list, P) = [n \in 1..Cardinality(P) |-> list[at[n]]]
        /\ \A m, n \in 1..Cardinality(P) : at[m] < at[n] <=> m < n
        /\ \A i \in P : \E n \in 1..Cardinality(P) : at[n] = i
        /\ \A n \in 1..Cardinality(P) : Cardinality({y \in P : y < at[n]}) = n - 1
  BY PositionsInOrder
<1>4. \A m, n \in 1..c : at[m] = at[n] => m = n
  <2> TAKE m, n \in 1..c
  <2>1. Cardinality({y \in P : y < at[m]}) = m - 1 /\ Cardinality({y \in P : y < at[n]}) = n - 1
    BY <1>3
  <2> QED
    BY <2>1
<1>5. Numbers(at, 1..c, P)
  BY <1>3, <1>4 DEF Numbers
<1> QED
  BY <1>1, <1>3, <1>5 DEF PicksAt

(* Two lists of what is in a first and a second part of a third list.      *)
SplitOf(A, B, list, P, Q, N, T) ==
  /\ N \in Nat /\ P \in SUBSET (1..N) /\ Q \in SUBSET (1..N) /\ P \cap Q = {}
  /\ A = Picked(list, P) /\ B = Picked(list, Q)
  /\ A \in Seq(T) /\ B \in Seq(T)

Renumbered(p, M, K, list, other) ==
  /\ M \in Nat /\ Numbers(p, 1..M, K)
  /\ other = [k \in 1..M |-> list[p[k]]]

LEMMA JoinedNumbers ==
  ASSUME NEW N, NEW P, NEW Q, NEW list, NEW T, NEW A, NEW B, SplitOf(A, B, list, P, Q, N, T)
  PROVE  \E p, M : Renumbered(p, M, P \cup Q, list, A \o B)
<1>0. /\ N \in Nat /\ P \in SUBSET (1..N) /\ Q \in SUBSET (1..N) /\ P \cap Q = {}
      /\ A = Picked(list, P) /\ B = Picked(list, Q)
      /\ A \in Seq(T) /\ B \in Seq(T)
  BY DEF SplitOf
<1>1. PICK K : K = P \cup Q
  OBVIOUS
<1>a. P \cap Q = {}
  BY <1>0
<1>b. A \in Seq(T) /\ B \in Seq(T)
  BY <1>0
<1>2. PICK a : a = Cardinality(P)
  OBVIOUS
<1>3. PICK b : b = Cardinality(Q)
  OBVIOUS
<1>4. PICK at : PicksAt(at, P, a)
  BY <1>0, <1>2, PickedNumbers
<1>5. a \in Nat /\ Numbers(at, 1..a, P) /\ A = [n \in 1..a |-> list[at[n]]]
  BY <1>0, <1>4 DEF PicksAt
<1>6. PICK to : PicksAt(to, Q, b)
  BY <1>0, <1>3, PickedNumbers
<1>7. b \in Nat /\ Numbers(to, 1..b, Q) /\ B = [n \in 1..b |-> list[to[n]]]
  BY <1>0, <1>1, <1>6 DEF PicksAt
<1>8. PICK M \in Nat : M = a + b
  BY <1>5, <1>7
<1>9. PICK p : p = [k \in 1..M |-> IF k <= a THEN at[k] ELSE to[k - a]]
  OBVIOUS
<1>10. /\ \A k \in 1..a : k \in 1..M /\ p[k] = at[k] /\ p[k] \in P
       /\ \A k \in 1..b : k + a \in 1..M /\ p[k + a] = to[k] /\ p[k + a] \in Q
  <2>1. \A k \in 1..a : k \in 1..M /\ k <= a /\ at[k] \in P
    BY <1>5, <1>7, <1>8 DEF Numbers
  <2>2. \A k \in 1..b : k + a \in 1..M /\ ~(k + a <= a) /\ (k + a) - a = k /\ to[k] \in Q
    BY <1>5, <1>7, <1>8 DEF Numbers
  <2> QED
    BY <1>9, <2>1, <2>2
<1>11. \A k \in 1..M : k \in 1..a \/ \E j \in 1..b : k = j + a
  <2> TAKE k \in 1..M
  <2>1. CASE k <= a
    BY <1>0, <1>5, <2>1
  <2>2. CASE ~(k <= a)
    <3>1. k - a \in 1..b /\ k = (k - a) + a
      BY <1>5, <1>7, <1>8, <2>2
    <3> QED
      BY <3>1
  <2> QED
    BY <2>1, <2>2
<1>12. Numbers(p, 1..M, K)
  <2>1. p \in [1..M -> K]
    <3>1. ASSUME NEW k \in 1..M PROVE p[k] \in K
      <4>1. p[k] \in P \/ p[k] \in Q
        BY <1>10, <1>11
      <4> QED
        BY <1>1, <4>1
    <3> QED
      BY <1>9, <3>1
  <2>2. ASSUME NEW j \in 1..M, NEW k \in 1..M, p[j] = p[k] PROVE j = k
    <3>1. CASE j \in 1..a /\ k \in 1..a
      BY <1>5, <1>10, <2>2, <3>1 DEF Numbers
    <3>2. CASE j \in 1..a /\ k \notin 1..a
      <4>1. p[j] \in P /\ p[k] \in Q
        BY <1>10, <1>11, <3>2
      <4> QED
        BY <1>a, <2>2, <4>1
    <3>3. CASE j \notin 1..a /\ k \in 1..a
      <4>1. p[k] \in P /\ p[j] \in Q
        BY <1>10, <1>11, <3>3
      <4> QED
        BY <1>a, <2>2, <4>1
    <3>4. CASE j \notin 1..a /\ k \notin 1..a
      <4>1. PICK x \in 1..b : j = x + a
        BY <1>11, <3>4
      <4>2. PICK y \in 1..b : k = y + a
        BY <1>11, <3>4
      <4>3. to[x] = to[y]
        BY <1>10, <2>2, <4>1, <4>2
      <4>4. x = y
        BY <1>7, <4>3 DEF Numbers
      <4> QED
        BY <4>1, <4>2, <4>4
    <3> QED
      BY <3>1, <3>2, <3>3, <3>4
  <2>3. ASSUME NEW i \in K PROVE \E k \in 1..M : p[k] = i
    <3>1. CASE i \in P
      <4>1. PICK k \in 1..a : at[k] = i
        BY <1>5, <3>1 DEF Numbers
      <4> QED
        BY <1>10, <4>1
    <3>2. CASE i \notin P
      <4>1. PICK k \in 1..b : to[k] = i
        BY <1>1, <1>7, <3>2 DEF Numbers
      <4> QED
        BY <1>10, <4>1
    <3> QED
      BY <3>1, <3>2
  <2> QED
    BY <2>1, <2>2, <2>3 DEF Numbers
<1>13. Len(A) = a /\ Len(B) = b
  BY <1>5, <1>7, LenProperties
<1>14. A \o B = [k \in 1..M |-> list[p[k]]]
  <2>1. A \o B = [k \in 1..(Len(A) + Len(B)) |-> IF k <= Len(A) THEN A[k] ELSE B[k - Len(A)]]
    <3>1. PICK s : s = A \o B
      OBVIOUS
    <3>2. /\ s \in Seq(T) /\ Len(s) = Len(A) + Len(B)
          /\ \A k \in 1..(Len(A) + Len(B)) : s[k] = IF k <= Len(A) THEN A[k] ELSE B[k - Len(A)]
      BY <1>b, <3>1, ConcatProperties
    <3>3. s \in [1..(Len(A) + Len(B)) -> T]
      BY <3>2, LenProperties
    <3> QED
      BY <3>1, <3>2, <3>3
  <2>2. A \o B = [k \in 1..M |-> IF k <= a THEN A[k] ELSE B[k - a]]
    BY <1>8, <1>13, <2>1
  <2>3. ASSUME NEW k \in 1..M PROVE (IF k <= a THEN A[k] ELSE B[k - a]) = list[p[k]]
    <3>1. CASE k <= a
      <4>1. k \in 1..a
        BY <1>0, <1>5, <3>1
      <4> QED
        BY <1>5, <1>10, <3>1, <4>1
    <3>2. CASE ~(k <= a)
      <4>1. k - a \in 1..b /\ (k - a) + a = k
        BY <1>5, <1>7, <1>8, <3>2
      <4>2. p[k] = to[k - a]
        BY <1>10, <4>1
      <4> QED
        BY <1>7, <3>2, <4>1, <4>2
    <3> QED
      BY <3>1, <3>2
  <2> QED
    BY <2>2, <2>3
<1> QED
  BY <1>1, <1>8, <1>12, <1>14 DEF Renumbered

(* Counts by key, added up over any finite set of keys.                    *)
TotalOf(f, table, keys) == FoldFunctionOnSet(LAMBDA row, n : row[f] + n, 0, table, keys)

CountAt(X, key, keys) == Cardinality({k \in X : key[k] \in keys})

CountsByKey(table, f, keys, X, key) ==
  /\ IsFiniteSet(keys) /\ IsFiniteSet(X)
  /\ \A c \in keys : table[c][f] = CountAt(X, key, {c})

LEMMA TotalOfCounts ==
  ASSUME NEW C, NEW X, NEW key, NEW table, NEW f, CountsByKey(table, f, C, X, key)
  PROVE  TotalOf(f, table, C) = CountAt(X, key, C)
<1>0. IsFiniteSet(C) /\ IsFiniteSet(X) /\ \A c \in C : table[c][f] = CountAt(X, key, {c})
  BY DEF CountsByKey
<1> DEFINE First(s) == CHOOSE x \in s : TRUE
           Sums(g) == g = [s \in SUBSET C |->
                             IF s = {} THEN 0 ELSE table[First(s)][f] + g[s \ {First(s)}]]
           h == CHOOSE g : Sums(g)
           G == [a \in Nat \X C |-> table[a[2]][f] + a[1]]
           last == [s \in SUBSET C |-> First(s)]
<1>1. TotalOf(f, table, C) = h[C]
  BY Zenon DEF TotalOf, FoldFunctionOnSet, MapThenFoldSet
<1>2. \A keys : CountAt(X, key, keys) \in Nat /\ IsFiniteSet({k \in X : key[k] \in keys})
  <2> TAKE keys
  <2>1. PICK K : K = {k \in X : key[k] \in keys}
    OBVIOUS
  <2>2. IsFiniteSet(K) /\ Cardinality(K) \in Nat
    <3>1. K \in SUBSET X
      BY <2>1
    <3> QED
      BY <1>0, <3>1, FS_Subset, FS_CardinalityType
  <2> QED
    BY <2>1, <2>2 DEF CountAt
<1>3. G \in [Nat \X C -> Nat] /\ \A a \in Nat, c \in C : G[<<a, c>>] = table[c][f] + a
  <2>1. \A c \in C : table[c][f] \in Nat
    BY <1>0, <1>2
  <2> QED
    BY <2>1
<1>4. \A s \in SUBSET C : s # {} => last[s] = First(s) /\ last[s] \in s
  OBVIOUS
<1> HIDE DEF G, last, First
<1>5. Sums(h)
  <2>1. 0 \in Nat
    OBVIOUS
  <2>2. PICK g : Iterates(g, C, Nat, 0, G, last)
    BY <1>0, <1>3, <1>4, <2>1, IteratedExists
  <2>3. g \in [SUBSET C -> Nat]
    BY <2>2 DEF Iterates
  <2>4. ASSUME NEW s \in SUBSET C
        PROVE  g[s] = IF s = {} THEN 0 ELSE table[First(s)][f] + g[s \ {First(s)}]
    <3>1. g[s] = IF s = {} THEN 0 ELSE G[<<g[s \ {last[s]}], last[s]>>]
      BY <2>2 DEF Iterates
    <3>2. s # {} => last[s] \in C /\ last[s] = First(s) /\ g[s \ {last[s]}] \in Nat
      BY <1>4, <2>3
    <3> QED
      BY <1>3, <3>1, <3>2
  <2>5. Sums(g)
    BY <2>3, <2>4
  <2> QED
    BY <2>5
<1> HIDE DEF h
<1>6. h[{}] = 0 /\ \A s \in SUBSET C : s # {} =>
        /\ First(s) \in s
        /\ h[s] = table[First(s)][f] + h[s \ {First(s)}]
  BY <1>4, <1>5
<1> HIDE DEF Sums
<1> DEFINE Bad == {k \in Nat : \E s \in SUBSET C : Cardinality(s) = k /\ h[s] # CountAt(X, key, s)}
<1>7. 0 \notin Bad
  <2>1. \A s \in SUBSET C : Cardinality(s) = 0 => s = {}
    BY <1>0, FS_Subset, FS_EmptySet
  <2>2. CountAt(X, key, {}) = 0
    <3>1. {k \in X : key[k] \in {}} = {}
      OBVIOUS
    <3> QED
      BY <3>1, FS_EmptySet DEF CountAt
  <2> QED
    BY <1>6, <2>1, <2>2
<1>8. ASSUME NEW k \in Nat, k > 0, k - 1 \notin Bad PROVE k \notin Bad
  <2> SUFFICES ASSUME NEW s \in SUBSET C, Cardinality(s) = k PROVE h[s] = CountAt(X, key, s)
    OBVIOUS
  <2>1. s # {} /\ IsFiniteSet(s)
    BY <1>0, <1>8, FS_Subset, FS_EmptySet
  <2>2. PICK x : x = First(s) /\ x \in s /\ x \in C
    BY <1>6, <2>1
  <2>3. PICK t : t = s \ {x}
    OBVIOUS
  <2>4. t \in SUBSET C /\ Cardinality(t) = k - 1
    <3>1. Cardinality(s \ {x}) = Cardinality(s) - 1
      BY <2>1, <2>2, FS_RemoveElement
    <3> QED
      BY <2>3, <3>1
  <2>5. h[t] = CountAt(X, key, t)
    BY <1>8, <2>4
  <2>6. h[s] = CountAt(X, key, {x}) + CountAt(X, key, t)
    BY <1>0, <1>6, <2>1, <2>2, <2>3, <2>5
  <2>7. CountAt(X, key, s) = CountAt(X, key, {x}) + CountAt(X, key, t)
    <3>1. PICK D : D = {j \in X : key[j] \in s}
      OBVIOUS
    <3>2. PICK A : A = {j \in X : key[j] \in {x}}
      OBVIOUS
    <3>3. PICK B : B = {j \in X : key[j] \in t}
      OBVIOUS
    <3>4. IsFiniteSet(D) /\ D = A \cup B /\ A \cap B = {}
      BY <1>2, <2>2, <2>3, <3>1, <3>2, <3>3
    <3>5. Cardinality(D) = Cardinality(A) + Cardinality(B)
      BY <3>4, PartsAddUp
    <3> QED
      BY <3>1, <3>2, <3>3, <3>5 DEF CountAt
  <2> QED
    BY <2>6, <2>7
<1>9. Bad = {}
  <2> SUFFICES ASSUME Bad # {} PROVE FALSE
    OBVIOUS
  <2>1. Bad \in SUBSET Nat
    OBVIOUS
  <2> HIDE DEF Bad
  <2>2. PICK m \in Bad : \A k \in Bad : m <= k
    BY <2>1, LeastExists
  <2>3. m \in Nat /\ m > 0
    BY <1>7, <2>1, <2>2
  <2>4. m - 1 \notin Bad
    BY <2>2, <2>3
  <2> QED
    BY <1>8, <2>2, <2>3, <2>4
<1>10. Cardinality(C) \in Nat
  BY <1>0, FS_CardinalityType
<1>11. h[C] = CountAt(X, key, C)
  BY <1>9, <1>10
<1> QED
  BY <1>1, <1>11

-----------------------------------------------------------------------------
(* What a dataset guarantees: a classifier gives some answer or fails, and *)
(* an item of a binary dataset is labelled YES, NO or not at all.          *)
ClassifyAsked(q) ==
  /\ q.variant \in {"binary", "finegrained", "finegrained-act"}
  /\ q.items \in Seq(ToSet(q.items))
  /\ \A i \in DOMAIN q.items :
       /\ q.items[i].answer # "none"
       /\ q.variant # "finegrained" => q.items[i].expected \in {"none", "YES", "NO"}

(* The articles that have a result, and the items that are not lost.       *)
DoneIn(data) == {it.article : it \in {x \in ToSet(data) : ~Errored(x)}}
IsLost(data, it) ==
  Errored(it) /\ \E other \in ToSet(data) : other.article = it.article /\ ~Errored(other)
KeptItems(data) == {i \in DOMAIN data : ~IsLost(data, data[i])}

(* The results are those of the kept items of the dataset, in some order.  *)
ResultsCover(p, M, K, data, results, fine) ==
  /\ Numbers(p, 1..M, K) /\ K = KeptItems(data)
  /\ DOMAIN results = 1..M /\ M \in Nat
  /\ \A k \in 1..M :
       /\ results[k].expected = data[p[k]].expected
       /\ results[k].label = "none" <=> data[p[k]].answer = "errored"
       /\ ~fine => /\ results[k].expected \in {"none", "YES", "NO"}
                   /\ results[k].label \in {"none", "YES", "NO"}

LEMMA LabelOfItem ==
  ASSUME NEW q, ClassifyAsked(q), NEW i \in DOMAIN q.items,
         NEW item, item = q.items[i], NEW r, r = ItemResult(q, item)
  PROVE  /\ r.expected = item.expected
         /\ r.label = "none" <=> item.answer = "errored"
         /\ q.variant # "finegrained" => /\ r.expected \in {"none", "YES", "NO"}
                                         /\ r.label \in {"none", "YES", "NO"}
<1>1. /\ item.answer # "none"
      /\ q.variant \in {"binary", "finegrained", "finegrained-act"}
      /\ q.variant # "finegrained" => item.expected \in {"none", "YES", "NO"}
  BY DEF ClassifyAsked
<1>2. /\ r.expected = item.expected
      /\ r.label = IF item.answer = "errored" THEN "none" ELSE DatasetLabelOf(q.variant, item.answer)
  BY DEF ItemResult, Errored
<1>3. \A act : YesNo(act) \in {"YES", "NO"}
  BY DEF YesNo
<1>4. q.variant # "finegrained" => DatasetLabelOf(q.variant, item.answer) \in {"YES", "NO"}
  BY <1>1, <1>3 DEF DatasetLabelOf
<1>5. q.variant = "finegrained" => DatasetLabelOf(q.variant, item.answer) = item.answer
  BY DEF DatasetLabelOf
<1> QED
  BY <1>1, <1>2, <1>4, <1>5

LEMMA EveryItemHasResult ==
  ASSUME NEW q, ClassifyAsked(q), NEW data, data = Data(q),
         NEW results, results = WithMissingItems(q)
  PROVE  \E p, M, K : ResultsCover(p, M, K, data, results, q.variant = "finegrained")
<1> DEFINE T == ToSet(q.items)
           Pos == {i \in DOMAIN q.items : q.ids = {} \/ q.items[i].article \in q.ids}
           P == {i \in DOMAIN data : ~Errored(data[i])}
           E == {i \in DOMAIN data : data[i].article \notin DoneIn(data)}
<1>1. data = Picked(q.items, Pos)
  BY Zenon DEF Data, Filtered, Positions
<1>2. q.items \in Seq(T) /\ Pos \in SUBSET (DOMAIN q.items)
  BY DEF ClassifyAsked
<1>3. PICK N : N = Cardinality(Pos) /\ N \in Nat /\ data \in Seq(T) /\ DOMAIN data = 1..N
  <2> HIDE DEF T, Pos
  <2> QED
    BY <1>1, <1>2, PickedList
<1>4. \A k \in 1..N : \E i \in DOMAIN q.items : data[k] = q.items[i]
  <2>1. \A k \in 1..N : data[k] \in T
    BY <1>3, ElementOfSeq, LenProperties
  <2> QED
    BY <2>1 DEF ToSet
<1>5. results = Results(q, Picked(data, P)) \o Results(q, Picked(data, E))
  BY Zenon DEF WithMissingItems, ItemResults, Filtered, Positions, DoneIn
<1>6. PICK res : res = [i \in 1..N |-> ItemResult(q, data[i])]
  OBVIOUS
<1>7. P \in SUBSET (1..N) /\ E \in SUBSET (1..N) /\ P \cap E = {} /\ P \cup E = KeptItems(data)
  <2>1. \A i \in DOMAIN data : data[i] \in ToSet(data)
    BY DEF ToSet
  <2>2. \A i \in DOMAIN data : data[i].article \in DoneIn(data)
          <=> \E other \in ToSet(data) : other.article = data[i].article /\ ~Errored(other)
    BY DEF DoneIn
  <2> QED
    BY <1>3, <2>1, <2>2 DEF KeptItems, IsLost
<1> HIDE DEF P, E, T, Pos
<1>8. \A S \in SUBSET (1..N) : Results(q, Picked(data, S)) = Picked(res, S)
                               /\ Picked(res, S) \in Seq(ToSet(res))
  <2> TAKE S \in SUBSET (1..N)
  <2>1. PICK c : c = Cardinality(S)
    OBVIOUS
  <2>2. PICK at : PicksAt(at, S, c)
    BY <1>3, <2>1, PickedNumbers
  <2>3. /\ c \in Nat /\ at \in [1..c -> S]
        /\ Picked(data, S) = [n \in 1..c |-> data[at[n]]]
        /\ Picked(res, S) = [n \in 1..c |-> res[at[n]]]
    BY <2>2 DEF PicksAt, Numbers
  <2>4. \A n \in 1..c : res[at[n]] = ItemResult(q, data[at[n]])
    BY <1>6, <2>3
  <2>5. Results(q, Picked(data, S)) = [n \in 1..c |-> ItemResult(q, data[at[n]])]
    BY <2>3 DEF Results
  <2>6. \A n \in 1..c : res[at[n]] \in ToSet(res)
    BY <1>6, <2>3 DEF ToSet
  <2>7. Picked(res, S) \in [1..c -> ToSet(res)]
    BY <2>3, <2>6
  <2> QED
    BY <2>3, <2>4, <2>5, <2>7, FunctionIsList
<1>9. PICK A, B : /\ A = Picked(res, P) /\ B = Picked(res, E)
                  /\ A \in Seq(ToSet(res)) /\ B \in Seq(ToSet(res)) /\ results = A \o B
  BY <1>5, <1>7, <1>8
<1>10. PICK p, M : M \in Nat /\ Numbers(p, 1..M, P \cup E) /\ results = [k \in 1..M |-> res[p[k]]]
  <2>1. SplitOf(A, B, res, P, E, N, ToSet(res))
    BY <1>3, <1>7, <1>9 DEF SplitOf
  <2>2. PICK p, M : Renumbered(p, M, P \cup E, res, A \o B)
    BY <2>1, JoinedNumbers
  <2>3. M \in Nat /\ Numbers(p, 1..M, P \cup E) /\ A \o B = [k \in 1..M |-> res[p[k]]]
    BY <2>2 DEF Renumbered
  <2>4. results = A \o B
    BY <1>9
  <2> QED
    BY <2>3, <2>4
<1>11. ASSUME NEW k \in 1..M
       PROVE  /\ results[k].expected = data[p[k]].expected
              /\ results[k].label = "none" <=> data[p[k]].answer = "errored"
              /\ q.variant # "finegrained" => /\ results[k].expected \in {"none", "YES", "NO"}
                                              /\ results[k].label \in {"none", "YES", "NO"}
  <2>1. p[k] \in 1..N
    BY <1>7, <1>10 DEF Numbers
  <2>2. PICK i \in DOMAIN q.items : data[p[k]] = q.items[i]
    BY <1>4, <2>1
  <2>3. results[k] = ItemResult(q, data[p[k]])
    BY <1>6, <1>10, <2>1
  <2> QED
    BY <2>2, <2>3, LabelOfItem
<1>12. ResultsCover(p, M, P \cup E, data, results, q.variant = "finegrained")
  BY <1>7, <1>10, <1>11 DEF ResultsCover
<1> QED
  BY <1>12

(* The labelled results, numbered by where they stand in the results, and  *)
(* by the labelled items of the dataset they are about.                    *)
GoldItems(data, D) == {i \in D : data[i].expected # "none"}

IsLabelled(labelled, at, t, m, results, M, data, K, fine) ==
  /\ m \in Nat /\ Len(labelled) = m /\ DOMAIN labelled = 1..m
  /\ Numbers(at, 1..m, GoldItems(results, 1..M))
  /\ Numbers(t, 1..m, GoldItems(data, K))
  /\ \A k \in 1..m :
       /\ labelled[k] = results[at[k]]
       /\ labelled[k].expected # "none"
       /\ labelled[k].expected = data[t[k]].expected
       /\ labelled[k].label = "none" <=> data[t[k]].answer = "errored"
       /\ ~fine => labelled[k].expected \in {"YES", "NO"} /\ labelled[k].label \in {"none", "YES", "NO"}

LEMMA LabelledItems ==
  ASSUME NEW data, NEW results, NEW fine, NEW p, NEW M, NEW K, ResultsCover(p, M, K, data, results, fine),
         NEW labelled, labelled = Labelled(results)
  PROVE  \E at, t, m : IsLabelled(labelled, at, t, m, results, M, data, K, fine)
<1> DEFINE P == {i \in DOMAIN results : results[i].expected # "none"}
<1>1. labelled = Picked(results, P)
  BY Zenon DEF Labelled, Filtered, Positions
<1>2. /\ M \in Nat /\ DOMAIN results = 1..M
      /\ P \in SUBSET (1..M) /\ P = GoldItems(results, 1..M)
  BY DEF ResultsCover, GoldItems
<1>3. /\ p \in [1..M -> K]
      /\ \A j, k \in 1..M : p[j] = p[k] => j = k
      /\ \A b \in K : \E k \in 1..M : p[k] = b
  BY DEF ResultsCover, Numbers
<1>4. \A k \in 1..M : /\ results[k].expected = data[p[k]].expected
                      /\ results[k].label = "none" <=> data[p[k]].answer = "errored"
                      /\ ~fine => /\ results[k].expected \in {"none", "YES", "NO"}
                                  /\ results[k].label \in {"none", "YES", "NO"}
  BY DEF ResultsCover
<1> HIDE DEF P
<1>5. PICK m : m = Cardinality(P)
  OBVIOUS
<1>6. PICK at : PicksAt(at, P, m)
  BY <1>2, <1>5, PickedNumbers
<1>7. m \in Nat /\ Numbers(at, 1..m, P) /\ labelled = [n \in 1..m |-> results[at[n]]]
  BY <1>1, <1>6 DEF PicksAt
<1>8. /\ at \in [1..m -> P]
      /\ \A j, k \in 1..m : at[j] = at[k] => j = k
      /\ \A b \in P : \E k \in 1..m : at[k] = b
  BY <1>7 DEF Numbers
<1>9. Len(labelled) = m /\ DOMAIN labelled = 1..m
  BY <1>7, LenProperties
<1>10. PICK t : t = [k \in 1..m |-> p[at[k]]]
  OBVIOUS
<1>11. \A i \in P : i \in 1..M /\ results[i].expected # "none"
  BY <1>2 DEF GoldItems
<1>12. Numbers(t, 1..m, GoldItems(data, K))
  <2>1. \A k \in 1..m : t[k] \in GoldItems(data, K)
    BY <1>3, <1>4, <1>8, <1>10, <1>11 DEF GoldItems
  <2>2. \A j, k \in 1..m : t[j] = t[k] => j = k
    BY <1>3, <1>8, <1>10, <1>11
  <2>3. \A b \in GoldItems(data, K) : \E k \in 1..m : t[k] = b
    <3> TAKE b \in GoldItems(data, K)
    <3>1. b \in K /\ data[b].expected # "none"
      BY DEF GoldItems
    <3>2. PICK j \in 1..M : p[j] = b
      BY <1>3, <3>1
    <3>3. j \in P
      BY <1>2, <1>4, <3>1, <3>2 DEF GoldItems
    <3>4. PICK k \in 1..m : at[k] = j
      BY <1>8, <3>3
    <3> QED
      BY <1>10, <3>2, <3>4
  <2> QED
    BY <1>10, <2>1, <2>2, <2>3 DEF Numbers
<1>13. ASSUME NEW k \in 1..m
       PROVE  /\ labelled[k] = results[at[k]]
              /\ labelled[k].expected # "none"
              /\ labelled[k].expected = data[t[k]].expected
              /\ labelled[k].label = "none" <=> data[t[k]].answer = "errored"
              /\ ~fine => /\ labelled[k].expected \in {"YES", "NO"}
                          /\ labelled[k].label \in {"none", "YES", "NO"}
  <2>1. at[k] \in 1..M /\ results[at[k]].expected # "none"
    BY <1>8, <1>11
  <2>2. labelled[k] = results[at[k]] /\ t[k] = p[at[k]]
    BY <1>7, <1>10
  <2> QED
    BY <1>4, <2>1, <2>2
<1>14. Numbers(at, 1..m, GoldItems(results, 1..M))
  BY <1>2, <1>7
<1>15. IsLabelled(labelled, at, t, m, results, M, data, K, fine)
  BY <1>7, <1>9, <1>12, <1>13, <1>14 DEF IsLabelled
<1> QED
  BY <1>15

(* The values of a finite list are finitely many. *)
LEMMA FiniteValues ==
  ASSUME NEW m \in Nat, NEW e
  PROVE  IsFiniteSet({e[k] : k \in 1..m})
<1> DEFINE E == {e[k] : k \in 1..m}
           f == [k \in 1..m |-> e[k]]
<1>1. f \in Surjection(1..m, E)
  BY DEF Surjection
<1>2. IsFiniteSet(1..m)
  BY FirstNumbers
<1> HIDE DEF f, E
<1>3. IsFiniteSet(E)
  BY <1>1, <1>2, FS_Surjection
<1> QED
  BY <1>3 DEF E

(* A finite set in two parts. *)
TwoParts(D, A, B) == IsFiniteSet(D) /\ D = A \cup B /\ A \cap B = {}

PartsCount(D, A, B) ==
  /\ IsFiniteSet(A) /\ IsFiniteSet(B) /\ Cardinality(A) \in Nat /\ Cardinality(B) \in Nat
  /\ Cardinality(D) = Cardinality(A) + Cardinality(B)

LEMMA TwoPartsAddUp ==
  \A D, A, B : TwoParts(D, A, B) => PartsCount(D, A, B)
<1> SUFFICES ASSUME NEW D, NEW A, NEW B, TwoParts(D, A, B) PROVE PartsCount(D, A, B)
  OBVIOUS
<1>1. IsFiniteSet(D) /\ D = A \cup B /\ A \cap B = {}
  BY DEF TwoParts
<1>2. IsFiniteSet(A) /\ IsFiniteSet(B)
  BY <1>1, FS_Subset
<1>3. Cardinality(A) \in Nat /\ Cardinality(B) \in Nat
  BY <1>2, FS_CardinalityType
<1>4. Cardinality(A \cup B) = Cardinality(A) + Cardinality(B) - Cardinality(A \cap B)
  BY <1>2, FS_Union
<1>5. Cardinality(A \cap B) = 0
  BY <1>1, FS_EmptySet
<1> QED
  BY <1>1, <1>2, <1>3, <1>4, <1>5 DEF PartsCount

(* The counts of a table of categories, as sizes of sets of positions in   *)
(* the labelled results: e their expected categories, l their labels.      *)
Both(e, l, m, c) == {k \in 1..m : e[k] = c /\ l[k] = c}
OnlyLabel(e, l, m, c) == {k \in 1..m : e[k] # c /\ l[k] = c}
OnlyExpected(e, l, m, c) == {k \in 1..m : e[k] = c /\ l[k] # c}
Expected(e, m, c) == {k \in 1..m : e[k] = c}
Right(e, l, m) == {k \in 1..m : l[k] = e[k]}
Wrong(e, l, m) == {k \in 1..m : l[k] # e[k]}
Classes(e, l, m) == {e[k] : k \in 1..m} \cup ({l[k] : k \in 1..m} \ {"none"})

Fields(list, e, l, m) ==
  /\ m \in Nat /\ DOMAIN list = 1..m /\ Len(list) = m
  /\ e = [k \in 1..m |-> list[k].expected] /\ l = [k \in 1..m |-> list[k].label]

TableOf(table, e, l, m) ==
  /\ DOMAIN table = Classes(e, l, m)
  /\ \A c \in Classes(e, l, m) :
       /\ table[c].tp = Cardinality(Both(e, l, m, c))
       /\ table[c].fp = Cardinality(OnlyLabel(e, l, m, c))
       /\ table[c].fn = Cardinality(OnlyExpected(e, l, m, c))
       /\ table[c].support = Cardinality(Expected(e, m, c))

LEMMA TableOfCategories ==
  ASSUME NEW results, NEW e, NEW l, NEW m, Fields(Labelled(results), e, l, m)
  PROVE  TableOf(FinegrainedConfusion(results), e, l, m)
<1> DEFINE labelled == Labelled(results)
           table == FinegrainedConfusion(results)
           classes == {labelled[i].expected : i \in DOMAIN labelled}
                        \cup ({labelled[i].label : i \in DOMAIN labelled} \ {"none"})
<1>1. table = [c \in classes |->
        [tp |-> Cardinality({i \in DOMAIN labelled : labelled[i].expected = c /\ labelled[i].label = c}),
         fp |-> Cardinality({i \in DOMAIN labelled : labelled[i].expected # c /\ labelled[i].label = c}),
         fn |-> Cardinality({i \in DOMAIN labelled : labelled[i].expected = c /\ labelled[i].label # c}),
         support |-> Cardinality({i \in DOMAIN labelled : labelled[i].expected = c})]]
  BY Zenon DEF FinegrainedConfusion, Count, Positions
<1> HIDE DEF labelled, table
<1>2. /\ m \in Nat /\ DOMAIN labelled = 1..m
      /\ \A k \in 1..m : e[k] = labelled[k].expected /\ l[k] = labelled[k].label
  BY DEF Fields, labelled
<1>3. classes = Classes(e, l, m)
  BY <1>2 DEF Classes
<1>4. \A c : /\ {i \in DOMAIN labelled : labelled[i].expected = c /\ labelled[i].label = c} = Both(e, l, m, c)
             /\ {i \in DOMAIN labelled : labelled[i].expected # c /\ labelled[i].label = c} = OnlyLabel(e, l, m, c)
             /\ {i \in DOMAIN labelled : labelled[i].expected = c /\ labelled[i].label # c} = OnlyExpected(e, l, m, c)
             /\ {i \in DOMAIN labelled : labelled[i].expected = c} = Expected(e, m, c)
  BY <1>2 DEF Both, OnlyLabel, OnlyExpected, Expected
<1> HIDE DEF classes
<1>5. table = [c \in classes |-> [tp |-> Cardinality(Both(e, l, m, c)),
                                  fp |-> Cardinality(OnlyLabel(e, l, m, c)),
                                  fn |-> Cardinality(OnlyExpected(e, l, m, c)),
                                  support |-> Cardinality(Expected(e, m, c))]]
  BY <1>1, <1>4
<1>6. TableOf(table, e, l, m)
  BY <1>3, <1>5 DEF TableOf
<1> QED
  BY <1>6 DEF table

(* Among labelled results, the parts of the table add up: over a category  *)
(* to what is expected of it, over all of them to right and wrong answers. *)
TablesAddUp(table, e, l, m) ==
  LET Total(f) == TotalOf(f, table, Classes(e, l, m))
  IN /\ \A c \in Classes(e, l, m) :
          /\ c # "none"
          /\ table[c].tp + table[c].fn = Cardinality(Expected(e, m, c))
          /\ table[c].support = Cardinality(Expected(e, m, c))
     /\ Total("tp") = Cardinality(Right(e, l, m)) /\ Total("tp") \in Nat
     /\ Total("fn") \in Nat /\ Total("tp") + Total("fn") = m
     /\ Total("fp") \in Nat /\ m - Total("tp") - Total("fp") = Cardinality({k \in 1..m : l[k] = "none"})

LEMMA CategoriesAddUp ==
  ASSUME NEW m \in Nat, NEW e, NEW l, NEW table, TableOf(table, e, l, m),
         \A k \in 1..m : e[k] # "none"
  PROVE  TablesAddUp(table, e, l, m)
<1>1. PICK C : C = Classes(e, l, m)
  OBVIOUS
<1>2. PICK R : R = Right(e, l, m)
  OBVIOUS
<1>3. PICK W : W = Wrong(e, l, m)
  OBVIOUS
<1>4. PICK D : D = 1..m /\ IsFiniteSet(D) /\ Cardinality(D) = m
  BY FirstNumbers
<1>5. D = R \cup W /\ R \cap W = {}
  BY <1>2, <1>3, <1>4 DEF Right, Wrong
<1>6. /\ IsFiniteSet(R) /\ IsFiniteSet(W) /\ Cardinality(R) \in Nat /\ Cardinality(W) \in Nat
      /\ m = Cardinality(R) + Cardinality(W)
  <2>1. TwoParts(D, R, W)
    BY <1>4, <1>5 DEF TwoParts
  <2>2. PartsCount(D, R, W)
    BY <2>1, TwoPartsAddUp
  <2> QED
    BY <1>4, <2>2 DEF PartsCount
<1>7. IsFiniteSet(C)
  <2>1. IsFiniteSet({e[k] : k \in 1..m}) /\ IsFiniteSet({l[k] : k \in 1..m})
    BY FiniteValues
  <2>2. PICK A : A = {e[k] : k \in 1..m} /\ IsFiniteSet(A)
    BY <2>1
  <2>3. PICK B : B = {l[k] : k \in 1..m} \ {"none"} /\ IsFiniteSet(B)
    <3>1. PICK L : L = {l[k] : k \in 1..m} /\ IsFiniteSet(L)
      BY <2>1
    <3>2. L \ {"none"} \in SUBSET L
      OBVIOUS
    <3>3. IsFiniteSet(L \ {"none"})
      BY <3>1, <3>2, FS_Subset
    <3> QED
      BY <3>1, <3>3
  <2>4. C = A \cup B
    BY <1>1, <2>2, <2>3 DEF Classes
  <2> QED
    BY <2>2, <2>3, <2>4, FS_Union
<1>8. /\ \A c \in C : c # "none"
      /\ \A k \in 1..m : e[k] \in C /\ (l[k] \in C <=> l[k] # "none")
  BY <1>1 DEF Classes
<1>9. \A c \in C : /\ table[c].tp = Cardinality(Both(e, l, m, c))
                   /\ table[c].fp = Cardinality(OnlyLabel(e, l, m, c))
                   /\ table[c].fn = Cardinality(OnlyExpected(e, l, m, c))
                   /\ table[c].support = Cardinality(Expected(e, m, c))
  BY <1>1 DEF TableOf
<1>10. ASSUME NEW c \in C PROVE table[c].tp + table[c].fn = Cardinality(Expected(e, m, c))
  <2>1. PICK X : X = Expected(e, m, c)
    OBVIOUS
  <2>2. PICK A : A = Both(e, l, m, c)
    OBVIOUS
  <2>3. PICK B : B = OnlyExpected(e, l, m, c)
    OBVIOUS
  <2>4. X \in SUBSET D
    BY <1>4, <2>1 DEF Expected
  <2>5. IsFiniteSet(X) /\ X = A \cup B /\ A \cap B = {}
    <3>1. X = A \cup B /\ A \cap B = {}
      BY <2>1, <2>2, <2>3 DEF Expected, Both, OnlyExpected
    <3> QED
      BY <1>4, <2>4, <3>1, FS_Subset
  <2>6. TwoParts(X, A, B)
    BY <2>5 DEF TwoParts
  <2>7. PartsCount(X, A, B)
    BY <2>6, TwoPartsAddUp
  <2> QED
    BY <1>9, <2>1, <2>2, <2>3, <2>7 DEF PartsCount
<1>11. TotalOf("tp", table, C) = Cardinality(R)
  <2>1. \A c \in C : table[c]["tp"] = CountAt(R, e, {c})
    <3> TAKE c \in C
    <3>1. {k \in R : e[k] \in {c}} = Both(e, l, m, c)
      BY <1>2 DEF Both, Right
    <3> QED
      BY <1>9, <3>1 DEF CountAt
  <2>2. CountsByKey(table, "tp", C, R, e)
    BY <1>6, <1>7, <2>1 DEF CountsByKey
  <2>3. TotalOf("tp", table, C) = CountAt(R, e, C)
    BY <2>2, TotalOfCounts
  <2>4. {k \in R : e[k] \in C} = R
    BY <1>2, <1>8 DEF Right
  <2> QED
    BY <2>3, <2>4 DEF CountAt
<1>12. TotalOf("fn", table, C) = Cardinality(W)
  <2>1. \A c \in C : table[c]["fn"] = CountAt(W, e, {c})
    <3> TAKE c \in C
    <3>1. {k \in W : e[k] \in {c}} = OnlyExpected(e, l, m, c)
      BY <1>3 DEF OnlyExpected, Wrong
    <3> QED
      BY <1>9, <3>1 DEF CountAt
  <2>2. CountsByKey(table, "fn", C, W, e)
    BY <1>6, <1>7, <2>1 DEF CountsByKey
  <2>3. TotalOf("fn", table, C) = CountAt(W, e, C)
    BY <2>2, TotalOfCounts
  <2>4. {k \in W : e[k] \in C} = W
    BY <1>3, <1>8 DEF Wrong
  <2> QED
    BY <2>3, <2>4 DEF CountAt
<1>13. PICK Z : Z = {k \in 1..m : l[k] = "none"}
  OBVIOUS
<1>14. PICK V : V = {k \in W : l[k] \in C}
  OBVIOUS
<1>15. TotalOf("fp", table, C) = Cardinality(V)
  <2>1. \A c \in C : table[c]["fp"] = CountAt(W, l, {c})
    <3> TAKE c \in C
    <3>1. {k \in W : l[k] \in {c}} = OnlyLabel(e, l, m, c)
      BY <1>3 DEF OnlyLabel, Wrong
    <3> QED
      BY <1>9, <3>1 DEF CountAt
  <2>2. CountsByKey(table, "fp", C, W, l)
    BY <1>6, <1>7, <2>1 DEF CountsByKey
  <2>3. TotalOf("fp", table, C) = CountAt(W, l, C)
    BY <2>2, TotalOfCounts
  <2> QED
    BY <1>14, <2>3 DEF CountAt
<1>16. W = V \cup Z /\ V \cap Z = {}
  BY <1>3, <1>8, <1>13, <1>14 DEF Wrong
<1>17. /\ Cardinality(V) \in Nat /\ Cardinality(Z) \in Nat
       /\ Cardinality(W) = Cardinality(V) + Cardinality(Z)
  BY <1>6, <1>16, PartsAddUp
<1>18. /\ TotalOf("tp", table, C) \in Nat /\ TotalOf("fn", table, C) \in Nat /\ TotalOf("fp", table, C) \in Nat
       /\ TotalOf("tp", table, C) + TotalOf("fn", table, C) = m
       /\ m - TotalOf("tp", table, C) - TotalOf("fp", table, C) = Cardinality(Z)
  BY <1>6, <1>11, <1>12, <1>15, <1>17
<1> QED
  BY <1>1, <1>2, <1>8, <1>9, <1>10, <1>11, <1>13, <1>18 DEF TablesAddUp

(* What the scores of a binary classification add up to.                   *)
Hits(list, N, x) == {i \in 1..N : list[i].expected = x /\ list[i].label = x}
Misses(list, N, x) == {i \in 1..N : list[i].expected = x /\ list[i].label # x}

LEMMA BinaryCounts ==
  ASSUME NEW results, NEW N, DOMAIN results = 1..N
  PROVE  /\ BinaryConfusion(results).tp = Cardinality(Hits(results, N, "YES"))
         /\ BinaryConfusion(results).fn = Cardinality(Misses(results, N, "YES"))
         /\ BinaryConfusion(results).fp = Cardinality(Misses(results, N, "NO"))
         /\ BinaryConfusion(results).tn = Cardinality(Hits(results, N, "NO"))
<1>1. BinaryConfusion(results) =
        [tp |-> Cardinality({i \in DOMAIN results : results[i].expected = "YES" /\ results[i].label = "YES"}),
         fn |-> Cardinality({i \in DOMAIN results : results[i].expected = "YES" /\ results[i].label # "YES"}),
         fp |-> Cardinality({i \in DOMAIN results : results[i].expected = "NO" /\ results[i].label # "NO"}),
         tn |-> Cardinality({i \in DOMAIN results : results[i].expected = "NO" /\ results[i].label = "NO"})]
  BY Zenon DEF BinaryConfusion, Count, Positions
<1>2. \A x : /\ {i \in DOMAIN results : results[i].expected = x /\ results[i].label = x} = Hits(results, N, x)
             /\ {i \in DOMAIN results : results[i].expected = x /\ results[i].label # x} = Misses(results, N, x)
  BY DEF Hits, Misses
<1>3. BinaryConfusion(results) =
        [tp |-> Cardinality(Hits(results, N, "YES")), fn |-> Cardinality(Misses(results, N, "YES")),
         fp |-> Cardinality(Misses(results, N, "NO")), tn |-> Cardinality(Hits(results, N, "NO"))]
  BY <1>1, <1>2
<1> QED
  BY <1>3

GoldOf(data, D, c) == {i \in D : data[i].expected = c}

LEMMA BinaryAddsUp ==
  ASSUME NEW fine, ~fine, NEW data, NEW results, NEW p, NEW M, NEW K, ResultsCover(p, M, K, data, results, fine),
         NEW labelled, NEW at, NEW t, NEW m, IsLabelled(labelled, at, t, m, results, M, data, K, fine),
         NEW e, NEW l, Fields(labelled, e, l, m)
  PROVE  /\ BinaryConfusion(results).tp + BinaryConfusion(results).fn = Cardinality(GoldOf(data, K, "YES"))
         /\ BinaryConfusion(results).fp + BinaryConfusion(results).tn = Cardinality(GoldOf(data, K, "NO"))
         /\ BinaryConfusion(results).tp + BinaryConfusion(results).tn = Cardinality(Right(e, l, m))
<1>1. /\ M \in Nat /\ DOMAIN results = 1..M /\ Numbers(p, 1..M, K)
      /\ \A k \in 1..M : /\ results[k].expected = data[p[k]].expected
                         /\ results[k].expected \in {"none", "YES", "NO"}
                         /\ results[k].label \in {"none", "YES", "NO"}
  BY DEF ResultsCover
<1>2. IsFiniteSet(1..M)
  BY <1>1, FirstNumbers
<1>3. ASSUME NEW x
      PROVE  /\ Cardinality(Hits(results, M, x)) \in Nat /\ Cardinality(Misses(results, M, x)) \in Nat
             /\ Cardinality(Hits(results, M, x)) + Cardinality(Misses(results, M, x))
                  = Cardinality(GoldOf(data, K, x))
  <2>1. PICK A : A = Hits(results, M, x)
    OBVIOUS
  <2>2. PICK B : B = Misses(results, M, x)
    OBVIOUS
  <2>3. PICK X : X = GoldOf(results, 1..M, x)
    OBVIOUS
  <2>4. PICK Y : Y = GoldOf(data, K, x)
    OBVIOUS
  <2>5. TwoParts(X, A, B)
    <3>1. X = A \cup B /\ A \cap B = {} /\ X \in SUBSET (1..M)
      BY <2>1, <2>2, <2>3 DEF Hits, Misses, GoldOf
    <3> QED
      BY <1>2, <3>1, FS_Subset DEF TwoParts
  <2>6. PartsCount(X, A, B)
    BY <2>5, TwoPartsAddUp
  <2>7. Matches(p, 1..M, K, X, Y)
    <3>1. X \in SUBSET (1..M) /\ Y \in SUBSET K
      BY <2>3, <2>4 DEF GoldOf
    <3>2. \A k \in 1..M : p[k] \in K
      BY <1>1 DEF Numbers
    <3>3. \A k \in 1..M : k \in X <=> p[k] \in Y
      BY <1>1, <2>3, <2>4, <3>2 DEF GoldOf
    <3> QED
      BY <1>1, <1>2, <3>1, <3>3 DEF Matches
  <2>8. Cardinality(X) = Cardinality(Y)
    BY <2>7, SameCount
  <2> QED
    BY <2>1, <2>2, <2>4, <2>6, <2>8 DEF PartsCount
<1>4. PICK A : A = Hits(results, M, "YES")
  OBVIOUS
<1>5. PICK B : B = Hits(results, M, "NO")
  OBVIOUS
<1>6. PICK V : V = {i \in 1..M : results[i].expected # "none" /\ results[i].label = results[i].expected}
  OBVIOUS
<1>7. PICK R : R = Right(e, l, m)
  OBVIOUS
<1>8. PartsCount(V, A, B)
  <2>1. V = A \cup B /\ A \cap B = {}
    BY <1>1, <1>4, <1>5, <1>6 DEF Hits, Misses
  <2>2. IsFiniteSet(V)
    <3>1. V \in SUBSET (1..M)
      BY <1>6
    <3> QED
      BY <1>2, <3>1, FS_Subset
  <2>3. TwoParts(V, A, B)
    BY <2>1, <2>2 DEF TwoParts
  <2> QED
    BY <2>3, TwoPartsAddUp
<1>9. PICK G : G = GoldItems(results, 1..M)
  OBVIOUS
<1>10. Matches(at, 1..m, G, R, V)
  <2>1. m \in Nat /\ Numbers(at, 1..m, G) /\ \A k \in 1..m : labelled[k] = results[at[k]]
    BY <1>9 DEF IsLabelled
  <2>2. IsFiniteSet(1..m)
    BY <2>1, FirstNumbers
  <2>3. R \in SUBSET (1..m) /\ V \in SUBSET G
    BY <1>6, <1>7, <1>9 DEF Right, GoldItems
  <2>4. \A k \in 1..m : e[k] = results[at[k]].expected /\ l[k] = results[at[k]].label
    BY <2>1 DEF Fields
  <2>5. \A k \in 1..m : at[k] \in 1..M /\ results[at[k]].expected # "none"
    BY <1>9, <2>1 DEF Numbers, GoldItems
  <2>6. \A k \in 1..m : k \in R <=> at[k] \in V
    BY <1>6, <1>7, <2>4, <2>5 DEF Right
  <2> QED
    BY <2>1, <2>2, <2>3, <2>6 DEF Matches
<1>11. Cardinality(R) = Cardinality(V)
  BY <1>10, SameCount
<1>12. Cardinality(A) + Cardinality(B) = Cardinality(R)
  BY <1>8, <1>11 DEF PartsCount
<1> HIDE DEF Hits, Misses
<1>13. /\ BinaryConfusion(results).tp = Cardinality(Hits(results, M, "YES"))
       /\ BinaryConfusion(results).fn = Cardinality(Misses(results, M, "YES"))
       /\ BinaryConfusion(results).fp = Cardinality(Misses(results, M, "NO"))
       /\ BinaryConfusion(results).tn = Cardinality(Hits(results, M, "NO"))
  BY <1>1, BinaryCounts
<1>14. /\ BinaryConfusion(results).tp + BinaryConfusion(results).fn = Cardinality(GoldOf(data, K, "YES"))
       /\ BinaryConfusion(results).tn + BinaryConfusion(results).fp = Cardinality(GoldOf(data, K, "NO"))
       /\ BinaryConfusion(results).fp \in Nat /\ BinaryConfusion(results).tn \in Nat
  BY <1>3, <1>13
<1>15. BinaryConfusion(results).tp + BinaryConfusion(results).tn = Cardinality(Right(e, l, m))
  BY <1>4, <1>5, <1>7, <1>12, <1>13
<1> QED
  BY <1>14, <1>15

(* A category right is an act decision right.                              *)
Derived(e, l, m) == {k \in 1..m : l[k] # "none" /\ (IsActFinegrained(l[k]) <=> IsActFinegrained(e[k]))}

LEMMA DerivedCount ==
  ASSUME NEW results, NEW e, NEW l, NEW m, Fields(Labelled(results), e, l, m),
         \A k \in 1..m : e[k] # "none"
  PROVE  /\ DerivedAct(results) \in Nat
         /\ Cardinality(Right(e, l, m)) <= DerivedAct(results) /\ DerivedAct(results) <= m
<1> DEFINE labelled == Labelled(results)
<1>1. DerivedAct(results) = Cardinality({i \in DOMAIN labelled :
        labelled[i].label # "none"
          /\ (IsActFinegrained(labelled[i].label) <=> IsActFinegrained(labelled[i].expected))})
  BY Zenon DEF DerivedAct, Count, Positions
<1> HIDE DEF labelled
<1>2. /\ m \in Nat /\ DOMAIN labelled = 1..m
      /\ \A k \in 1..m : e[k] = labelled[k].expected /\ l[k] = labelled[k].label
  BY DEF Fields, labelled
<1>3. PICK D : D = Derived(e, l, m)
  OBVIOUS
<1>4. DerivedAct(results) = Cardinality(D)
  BY <1>1, <1>2, <1>3 DEF Derived
<1>5. PICK R : R = Right(e, l, m)
  OBVIOUS
<1>6. PICK M : M = 1..m /\ IsFiniteSet(M) /\ Cardinality(M) = m
  BY <1>2, FirstNumbers
<1>7. D \in SUBSET M /\ R \in SUBSET D
  BY <1>3, <1>5, <1>6 DEF Derived, Right
<1>8. IsFiniteSet(D) /\ Cardinality(D) <= m
  BY <1>6, <1>7, FS_Subset
<1>9. Cardinality(R) <= Cardinality(D) /\ Cardinality(D) \in Nat
  BY <1>7, <1>8, FS_Subset, FS_CardinalityType
<1> QED
  BY <1>4, <1>5, <1>8, <1>9

(* Whatever items raised, the scores of a classification cover the         *)
(* labelled items of its dataset, each once, but for those that raised     *)
(* while another item of their article did not.                            *)
LEMMA ClassificationAddsUp ==
  ASSUME NEW q, ClassifyAsked(q)
  PROVE  ClassifyAddsUp(q)
<1> DEFINE data == Data(q)
           results == WithMissingItems(q)
           fine == q.variant = "finegrained"
           labelled == Labelled(results)
           table == FinegrainedConfusion(results)
           accuracy == LabelAccuracy(results)
           Lost(it) == Errored(it) /\ \E other \in ToSet(data) : /\ other.article = it.article
                                                                 /\ ~Errored(other)
<1>1. PICK p, B, K : ResultsCover(p, B, K, data, results, fine)
  <2> HIDE DEF fine
  <2>1. \E p, B, K : ResultsCover(p, B, K, data, results, q.variant = "finegrained")
    BY EveryItemHasResult
  <2> QED
    BY <2>1 DEF fine
<1>2. accuracy = [correct |-> Cardinality({i \in DOMAIN labelled : labelled[i].label = labelled[i].expected}),
                  of |-> Len(labelled)]
  BY Zenon DEF LabelAccuracy, Count, Positions
<1> HIDE DEF data, results, accuracy
<1>3. PICK at, t, m : IsLabelled(labelled, at, t, m, results, B, data, K, fine)
  <2> HIDE DEF fine
  <2> QED
    BY <1>1, LabelledItems
<1> HIDE DEF table, labelled, fine, Lost
<1>4. PICK e, l : e = [k \in 1..m |-> labelled[k].expected] /\ l = [k \in 1..m |-> labelled[k].label]
  OBVIOUS
<1>5. /\ m \in Nat /\ Len(labelled) = m /\ DOMAIN labelled = 1..m
      /\ Numbers(t, 1..m, GoldItems(data, K))
      /\ \A k \in 1..m : /\ e[k] # "none" /\ e[k] = data[t[k]].expected
                         /\ l[k] = "none" <=> data[t[k]].answer = "errored"
  BY <1>3, <1>4 DEF IsLabelled
<1>6. Fields(labelled, e, l, m)
  BY <1>4, <1>5 DEF Fields
<1>7. K = {i \in DOMAIN data : ~Lost(data[i])}
  BY <1>1 DEF ResultsCover, KeptItems, IsLost, Lost
<1>8. PICK G : G = GoldItems(data, K)
  OBVIOUS
<1>9. PICK M : M = 1..m /\ IsFiniteSet(M) /\ Cardinality(M) = m
  BY <1>5, FirstNumbers
<1>10. Numbers(t, M, G) /\ \A k \in M : t[k] \in G
  BY <1>5, <1>8, <1>9 DEF Numbers
<1>11. ASSUME NEW X, X \in SUBSET M, NEW Y, Y \in SUBSET G, \A k \in M : k \in X <=> t[k] \in Y
       PROVE  Cardinality(X) = Cardinality(Y)
  <2>1. Matches(t, M, G, X, Y)
    BY <1>9, <1>10, <1>11 DEF Matches
  <2> QED
    BY <2>1, SameCount
<1>12. accuracy.correct = Cardinality(Right(e, l, m)) /\ accuracy.of = m
  <2>1. {i \in DOMAIN labelled : labelled[i].label = labelled[i].expected} = Right(e, l, m)
    BY <1>4, <1>5 DEF Right
  <2> QED
    BY <1>2, <1>5, <2>1
<1>13. accuracy.of = Cardinality({i \in DOMAIN data : data[i].expected # "none" /\ ~Lost(data[i])})
  <2>1. {i \in DOMAIN data : data[i].expected # "none" /\ ~Lost(data[i])} = G
    BY <1>7, <1>8 DEF GoldItems
  <2>2. Cardinality(M) = Cardinality(G)
    BY <1>10, <1>11
  <2> QED
    BY <1>9, <1>12, <2>1, <2>2
<1>14. \A c : {i \in DOMAIN data : data[i].expected = c /\ ~Lost(data[i])} = GoldOf(data, K, c)
  BY <1>7 DEF GoldOf
<1>15. ASSUME NEW c, c # "none" PROVE Cardinality(Expected(e, m, c)) = Cardinality(GoldOf(data, K, c))
  <2>1. PICK X : X = Expected(e, m, c)
    OBVIOUS
  <2>2. PICK Y : Y = GoldOf(data, K, c)
    OBVIOUS
  <2>3. X \in SUBSET M /\ Y \in SUBSET G
    BY <1>8, <1>9, <1>15, <2>1, <2>2 DEF Expected, GoldOf, GoldItems
  <2>4. \A k \in M : k \in X <=> t[k] \in Y
    BY <1>5, <1>8, <1>9, <1>10, <2>1, <2>2 DEF Expected, GoldOf, GoldItems
  <2> QED
    BY <1>11, <2>1, <2>2, <2>3, <2>4
<1>16. Cardinality({k \in 1..m : l[k] = "none"})
         = Cardinality({i \in DOMAIN data : Errored(data[i]) /\ data[i].expected # "none" /\ ~Lost(data[i])})
  <2>1. PICK X : X = {k \in 1..m : l[k] = "none"}
    OBVIOUS
  <2>2. PICK Y : Y = {i \in DOMAIN data : data[i].answer = "errored" /\ data[i].expected # "none" /\ ~Lost(data[i])}
    OBVIOUS
  <2>3. X \in SUBSET M /\ Y \in SUBSET G
    BY <1>7, <1>8, <1>9, <2>1, <2>2 DEF GoldItems
  <2>4. \A k \in M : k \in X <=> t[k] \in Y
    BY <1>5, <1>7, <1>8, <1>9, <1>10, <2>1, <2>2 DEF GoldItems
  <2>5. Cardinality(X) = Cardinality(Y)
    BY <1>11, <2>3, <2>4
  <2> QED
    BY <2>1, <2>2, <2>5 DEF Errored
<1>17. CASE fine
  <2>1. TableOf(table, e, l, m)
    BY <1>6, TableOfCategories DEF labelled, table
  <2>2. TablesAddUp(table, e, l, m)
    BY <1>5, <2>1, CategoriesAddUp
  <2>3. PICK C : C = Classes(e, l, m)
    OBVIOUS
  <2>4. DOMAIN table = C
    BY <2>1, <2>3 DEF TableOf
  <2>5. /\ TotalOf("tp", table, C) = Cardinality(Right(e, l, m)) /\ TotalOf("tp", table, C) \in Nat
        /\ TotalOf("fn", table, C) \in Nat /\ TotalOf("tp", table, C) + TotalOf("fn", table, C) = m
        /\ m - TotalOf("tp", table, C) - TotalOf("fp", table, C) = Cardinality({k \in 1..m : l[k] = "none"})
        /\ \A c \in C : /\ c # "none"
                        /\ table[c].tp + table[c].fn = Cardinality(Expected(e, m, c))
                        /\ table[c].support = Cardinality(Expected(e, m, c))
    BY <2>2, <2>3 DEF TablesAddUp
  <2>6. \A c \in DOMAIN table :
          /\ table[c].tp + table[c].fn = Cardinality({i \in DOMAIN data : data[i].expected = c /\ ~Lost(data[i])})
          /\ table[c].support = Cardinality({i \in DOMAIN data : data[i].expected = c /\ ~Lost(data[i])})
    <3> TAKE c \in DOMAIN table
    <3>1. /\ c # "none"
          /\ table[c].tp + table[c].fn = Cardinality(Expected(e, m, c))
          /\ table[c].support = Cardinality(Expected(e, m, c))
      BY <2>4, <2>5
    <3>2. Cardinality(Expected(e, m, c)) = Cardinality(GoldOf(data, K, c))
      BY <1>15, <3>1
    <3>3. {i \in DOMAIN data : data[i].expected = c /\ ~Lost(data[i])} = GoldOf(data, K, c)
      BY <1>14
    <3> QED
      BY <3>1, <3>2, <3>3
  <2>7. /\ DerivedAct(results) \in Nat
        /\ Cardinality(Right(e, l, m)) <= DerivedAct(results) /\ DerivedAct(results) <= m
    BY <1>5, <1>6, DerivedCount DEF labelled
  <2>8. DerivedAct(results) \in accuracy.correct..accuracy.of
    <3>1. Cardinality(Right(e, l, m)) \in Int
      BY <2>5
    <3> QED
      BY <1>5, <1>12, <2>7, <3>1
  <2>9. /\ TotalOf("tp", table, DOMAIN table) = accuracy.correct
        /\ TotalOf("tp", table, DOMAIN table) + TotalOf("fn", table, DOMAIN table) = accuracy.of
        /\ accuracy.of - TotalOf("tp", table, DOMAIN table) - TotalOf("fp", table, DOMAIN table)
             = Cardinality({i \in DOMAIN data : Errored(data[i]) /\ data[i].expected # "none" /\ ~Lost(data[i])})
    BY <1>12, <1>16, <2>4, <2>5
  <2> QED
    BY <1>13, <1>17, <2>6, <2>8, <2>9, Zenon
       DEF ClassifyAddsUp, Count, Positions, TotalOf, data, results, fine, table, accuracy, Lost
<1>18. CASE ~fine
  <2>2. /\ BinaryConfusion(results).tp + BinaryConfusion(results).fn = Cardinality(GoldOf(data, K, "YES"))
        /\ BinaryConfusion(results).fp + BinaryConfusion(results).tn = Cardinality(GoldOf(data, K, "NO"))
        /\ BinaryConfusion(results).tp + BinaryConfusion(results).tn = Cardinality(Right(e, l, m))
    BY <1>1, <1>3, <1>6, <1>18, BinaryAddsUp
  <2>3. /\ BinaryConfusion(results).tp + BinaryConfusion(results).fn
             = Cardinality({i \in DOMAIN data : data[i].expected = "YES" /\ ~Lost(data[i])})
        /\ BinaryConfusion(results).fp + BinaryConfusion(results).tn
             = Cardinality({i \in DOMAIN data : data[i].expected = "NO" /\ ~Lost(data[i])})
        /\ BinaryConfusion(results).tp + BinaryConfusion(results).tn = accuracy.correct
    BY <1>12, <1>14, <2>2
  <2> QED
    BY <1>13, <1>18, <2>3, Zenon
       DEF ClassifyAddsUp, Count, Positions, data, results, fine, accuracy, Lost
<1> QED
  BY <1>17, <1>18

-----------------------------------------------------------------------------
(* What a run of the pipeline evaluation is: a list of items, each with an *)
(* act decision unless its task failed.                                    *)
PipelineEvalAsked(q) ==
  /\ q.items \in Seq(ToSet(q.items))
  /\ \A i \in DOMAIN q.items : q.items[i].act \in BOOLEAN

(* The act table and the averaged verdicts are about the same articles,    *)
(* and the table's movers are those of the items that did not fail.        *)
LEMMA DecisionsAddUp ==
  ASSUME NEW q, PipelineEvalAsked(q)
  PROVE  PipelineAddsUp(q)
<1> DEFINE items == q.items
           P == {i \in DOMAIN items : ~items[i].failed}
           results == Returned(q)
           act == ActConfusion(results)
           average == AvgVerdictScore(results)
           Cell(c) == {i \in DOMAIN results : ScoreAct(results[i]) = c}
           right == {i \in DOMAIN results : ActCorrect(results[i])}
           scored == {i \in DOMAIN results : VerdictScored(results[i])}
<1>1. act = [cell \in {"TP", "FP", "FN", "TN"} |-> Cardinality({i \in DOMAIN results : ScoreAct(results[i]) = cell})]
  BY Zenon DEF ActConfusion, Count, Positions
<1>2. average = [of |-> Cardinality({i \in DOMAIN results : VerdictScored(results[i])}),
                 correct |-> Cardinality({i \in DOMAIN results :
                               VerdictScored(results[i]) /\ ScoreDecision(results[i])})]
  BY Zenon DEF AvgVerdictScore, Count, Positions
<1>a. results = Picked(items, P)
  BY Zenon DEF Returned, Filtered, Positions
<1> HIDE DEF results, act, average
<1>b. PICK N \in Nat : DOMAIN items = 1..N /\ P \in SUBSET (1..N)
  <2>1. items \in Seq(ToSet(items))
    BY DEF PipelineEvalAsked
  <2> QED
    BY <2>1, LenProperties
<1>c. \A i \in P : i \in DOMAIN items /\ ~items[i].failed /\ items[i].act \in BOOLEAN
  BY DEF PipelineEvalAsked
<1>d. \A i : i \in P <=> i \in DOMAIN items /\ ~items[i].failed
  OBVIOUS
<1> HIDE DEF P, items
<1>e. PICK n : n = Cardinality(P)
  OBVIOUS
<1>f. PICK at : PicksAt(at, P, n)
  BY <1>b, <1>e, PickedNumbers
<1>3. n \in Nat /\ Numbers(at, 1..n, P) /\ DOMAIN results = 1..n
      /\ results = [k \in 1..n |-> items[at[k]]]
  BY <1>a, <1>f DEF PicksAt
<1>g. \A k \in 1..n : at[k] \in P /\ results[k] = items[at[k]]
  BY <1>3 DEF Numbers
<1>4. \A i \in 1..n : results[i].act \in BOOLEAN
  BY <1>c, <1>g
<1>5. PICK D : D = 1..n /\ IsFiniteSet(D)
  BY <1>3, FirstNumbers
<1>6. ASSUME NEW i \in D
      PROVE  /\ ScoreAct(results[i]) = "TP" <=>
                  results[i].acceptable # {} /\ results[i].act /\ "hold" \notin results[i].acceptable
             /\ ScoreAct(results[i]) = "FP" <=>
                  results[i].acceptable # {} /\ results[i].act /\ "hold" \in results[i].acceptable
             /\ ScoreAct(results[i]) = "FN" <=>
                  results[i].acceptable # {} /\ ~results[i].act /\ "hold" \notin results[i].acceptable
  <2>1. PICK r : r = results[i]
    OBVIOUS
  <2>2. r.act \in BOOLEAN
    BY <1>4, <1>5, <2>1
  <2>3. CASE r.acceptable = {}
    <3>1. ScoreAct(r) = "unscored"
      BY <2>3 DEF ScoreAct
    <3> QED
      BY <2>1, <2>3, <3>1
  <2>4. CASE r.acceptable # {} /\ ~r.act
    <3>1. "hold" \notin r.acceptable => ScoreAct(r) = "FN"
      BY <2>4 DEF ScoreAct, TruthAct
    <3>2. "hold" \in r.acceptable => ScoreAct(r) = "TN"
      BY <2>4 DEF ScoreAct, TruthAct
    <3> QED
      BY <2>1, <2>4, <3>1, <3>2
  <2>5. CASE r.acceptable # {} /\ r.act
    <3>1. "hold" \notin r.acceptable => ScoreAct(r) = "TP"
      BY <2>5 DEF ScoreAct, TruthAct
    <3>2. "hold" \in r.acceptable => ScoreAct(r) = "FP"
      BY <2>5 DEF ScoreAct, TruthAct
    <3> QED
      BY <2>1, <2>5, <3>1, <3>2
  <2> QED
    BY <2>2, <2>3, <2>4, <2>5
<1>7. PICK TP : TP = Cell("TP")
  OBVIOUS
<1>8. PICK FP : FP = Cell("FP")
  OBVIOUS
<1>9. PICK TN : TN = Cell("TN")
  OBVIOUS
<1>h. PICK FN : FN = Cell("FN")
  OBVIOUS
<1>i. PICK V : V = {k \in 1..n : results[k].acceptable # {} /\ TruthAct(results[k].acceptable)}
  OBVIOUS
<1>10. PICK R : R = right
  OBVIOUS
<1>11. PICK S : S = scored
  OBVIOUS
<1>12. R \in SUBSET D /\ S \in SUBSET D /\ V \in SUBSET D
  BY <1>3, <1>5, <1>i, <1>10, <1>11
<1>13. IsFiniteSet(R) /\ IsFiniteSet(S) /\ IsFiniteSet(V)
  BY <1>5, <1>12, FS_Subset
<1>14. R = TP \cup TN /\ TP \cap TN = {}
  BY <1>7, <1>9, <1>10 DEF ActCorrect
<1>15. S = TP \cup FP /\ TP \cap FP = {}
  BY <1>3, <1>5, <1>6, <1>7, <1>8, <1>11 DEF VerdictScored
<1>j. V = TP \cup FN /\ TP \cap FN = {}
  <2>1. \A k \in 1..n : k \in V <=> k \in TP \/ k \in FN
    BY <1>3, <1>4, <1>5, <1>6, <1>7, <1>h, <1>i DEF TruthAct
  <2>2. TP \in SUBSET (1..n) /\ FN \in SUBSET (1..n) /\ V \in SUBSET (1..n)
    BY <1>3, <1>7, <1>h, <1>i
  <2>3. TP \cap FN = {}
    BY <1>7, <1>h
  <2> QED
    BY <2>1, <2>2, <2>3
<1>16. TwoParts(R, TP, TN) /\ TwoParts(S, TP, FP) /\ TwoParts(V, TP, FN)
  BY <1>13, <1>14, <1>15, <1>j DEF TwoParts
<1>17. PartsCount(R, TP, TN) /\ PartsCount(S, TP, FP) /\ PartsCount(V, TP, FN)
  BY <1>16, TwoPartsAddUp
<1>18. act["TP"] = Cardinality(TP) /\ act["FP"] = Cardinality(FP) /\ act["TN"] = Cardinality(TN)
       /\ act["FN"] = Cardinality(FN)
  BY <1>1, <1>7, <1>8, <1>9, <1>h
<1>19. act["TP"] + act["TN"] = Cardinality({i \in DOMAIN results : ActCorrect(results[i])})
  BY <1>10, <1>17, <1>18 DEF PartsCount
<1>20. average.of = act["TP"] + act["FP"]
  BY <1>2, <1>11, <1>17, <1>18 DEF PartsCount
<1>21. \A i \in DOMAIN results :
         ScoreDecision(results[i]) /\ results[i].action \in {"none", "hold"}
           => ~TruthAct(results[i].acceptable)
  BY DEF ScoreDecision, TruthAct
<1>k. PICK Y : Y = {i \in DOMAIN items : ~items[i].failed /\ items[i].acceptable # {}
                                           /\ TruthAct(items[i].acceptable)}
  OBVIOUS
<1>l. Matches(at, 1..n, P, V, Y)
  <2>1. Y \in SUBSET P
    BY <1>d, <1>k
  <2>2. \A k \in 1..n : k \in V <=> at[k] \in Y
    <3>1. \A k \in 1..n : at[k] \in DOMAIN items /\ ~items[at[k]].failed
      BY <1>d, <1>g
    <3> QED
      BY <1>g, <1>i, <1>k, <3>1
  <2> QED
    BY <1>3, <1>5, <1>12, <2>1, <2>2 DEF Matches
<1>22. act["TP"] + act["FN"] = Cardinality(Y)
  <2>1. Cardinality(V) = Cardinality(Y)
    BY <1>l, SameCount
  <2> QED
    BY <1>17, <1>18, <2>1 DEF PartsCount
<1>23. act["TP"] + act["FN"] = Cardinality({i \in DOMAIN items :
         ~items[i].failed /\ items[i].acceptable # {} /\ TruthAct(items[i].acceptable)})
  BY <1>22, <1>k
<1> QED
  BY <1>19, <1>20, <1>21, <1>23, Zenon
     DEF PipelineAddsUp, Count, Positions, results, act, average, items

-----------------------------------------------------------------------------
(* What a cluster evaluation is about: a list of seeds, each with the      *)
(* articles it retrieved and those its cluster names.                      *)
ClusterEvalAsked(q) ==
  /\ q.clusters \in Seq(ToSet(q.clusters))
  /\ \A i \in DOMAIN q.clusters :
       IsFiniteSet(q.clusters[i].expected) /\ IsFiniteSet(q.clusters[i].retrieved)

(* A list of sums of two others. *)
SumsOf(w, u, v, n) ==
  /\ n \in Nat /\ u \in [1..n -> Int] /\ v \in [1..n -> Int] /\ w \in [1..n -> Int]
  /\ \A i \in 1..n : w[i] = u[i] + v[i]

LEMMA SumOfSumsOf ==
  ASSUME NEW w, NEW u, NEW v, NEW n, SumsOf(w, u, v, n)
  PROVE  SumOf(w) = SumOf(u) + SumOf(v)
<1>1. /\ n \in Nat /\ u \in [1..n -> Int] /\ v \in [1..n -> Int] /\ w \in [1..n -> Int]
      /\ \A i \in 1..n : w[i] = u[i] + v[i]
  BY DEF SumsOf
<1> QED
  BY <1>1, SumOfSums

(* The totals over the clusters are those of their articles.               *)
LEMMA ClustersAddUpTo ==
  ASSUME NEW q, ClusterEvalAsked(q)
  PROVE  ClustersAddUp(q)
<1> DEFINE rows == [i \in DOMAIN q.clusters |-> Metrics(q.clusters[i].expected, q.clusters[i].retrieved)]
           tp == [i \in DOMAIN rows |-> rows[i].tp]
           fp == [i \in DOMAIN rows |-> rows[i].fp]
           fn == [i \in DOMAIN rows |-> rows[i].fn]
           got == [i \in DOMAIN q.clusters |-> Cardinality(q.clusters[i]["retrieved"])]
           due == [i \in DOMAIN q.clusters |-> Cardinality(q.clusters[i]["expected"])]
<1>1. Agg(q) = [tp |-> SumOf(tp), fp |-> SumOf(fp), fn |-> SumOf(fn)]
  BY Zenon DEF Agg
<1>2. PICK n \in Nat : DOMAIN q.clusters = 1..n
  <2>1. q.clusters \in Seq(ToSet(q.clusters))
    BY DEF ClusterEvalAsked
  <2> QED
    BY <2>1, LenProperties
<1>3. ASSUME NEW i \in 1..n
      PROVE  /\ rows[i].tp \in Nat /\ rows[i].fp \in Nat /\ rows[i].fn \in Nat
             /\ Cardinality(q.clusters[i].retrieved) = rows[i].tp + rows[i].fp
             /\ Cardinality(q.clusters[i].expected) = rows[i].tp + rows[i].fn
  <2>1. PICK E : E = q.clusters[i].expected /\ IsFiniteSet(E)
    BY <1>2 DEF ClusterEvalAsked
  <2>2. PICK R : R = q.clusters[i].retrieved /\ IsFiniteSet(R)
    BY <1>2 DEF ClusterEvalAsked
  <2>3. rows[i] = [tp |-> Cardinality(R \cap E), fp |-> Cardinality(R \ E), fn |-> Cardinality(E \ R)]
    BY <1>2, <2>1, <2>2 DEF Metrics
  <2>4. TwoParts(R, R \cap E, R \ E) /\ TwoParts(E, R \cap E, E \ R)
    BY <2>1, <2>2 DEF TwoParts
  <2>5. PartsCount(R, R \cap E, R \ E) /\ PartsCount(E, R \cap E, E \ R)
    BY <2>4, TwoPartsAddUp
  <2> HIDE DEF rows
  <2> QED
    BY <2>1, <2>2, <2>3, <2>5 DEF PartsCount
<1>4. DOMAIN rows = 1..n
  BY <1>2
<1> HIDE DEF rows
<1>5. /\ tp \in [1..n -> Int] /\ fp \in [1..n -> Int] /\ fn \in [1..n -> Int]
      /\ got \in [1..n -> Int] /\ due \in [1..n -> Int]
      /\ \A i \in 1..n : got[i] = tp[i] + fp[i] /\ due[i] = tp[i] + fn[i]
  <2>1. ASSUME NEW i \in 1..n
        PROVE  /\ tp[i] \in Int /\ fp[i] \in Int /\ fn[i] \in Int /\ got[i] \in Int /\ due[i] \in Int
               /\ got[i] = tp[i] + fp[i] /\ due[i] = tp[i] + fn[i]
    <3>1. tp[i] = rows[i].tp /\ fp[i] = rows[i].fp /\ fn[i] = rows[i].fn
      BY <1>4
    <3>2. got[i] = Cardinality(q.clusters[i].retrieved) /\ due[i] = Cardinality(q.clusters[i].expected)
      BY <1>2
    <3> HIDE DEF tp, fp, fn, got, due
    <3> QED
      BY <1>3, <3>1, <3>2
  <2>2. /\ tp = [i \in 1..n |-> tp[i]] /\ fp = [i \in 1..n |-> fp[i]] /\ fn = [i \in 1..n |-> fn[i]]
        /\ got = [i \in 1..n |-> got[i]] /\ due = [i \in 1..n |-> due[i]]
    BY <1>2, <1>4
  <2> HIDE DEF tp, fp, fn, got, due
  <2> QED
    BY <2>1, <2>2
<1> HIDE DEF tp, fp, fn, got, due
<1>6. SumOf(got) = SumOf(tp) + SumOf(fp)
  <2>1. SumsOf(got, tp, fp, n)
    BY <1>5 DEF SumsOf
  <2> QED
    BY <2>1, SumOfSumsOf
<1>7. SumOf(due) = SumOf(tp) + SumOf(fn)
  <2>1. SumsOf(due, tp, fn, n)
    BY <1>5 DEF SumsOf
  <2> QED
    BY <2>1, SumOfSumsOf
<1>8. Agg(q).tp + Agg(q).fp = SumOf(got) /\ Agg(q).tp + Agg(q).fn = SumOf(due)
  BY <1>1, <1>6, <1>7
<1> QED
  BY <1>8, Zenon DEF ClustersAddUp, got, due

-----------------------------------------------------------------------------
(* The evaluations the runs check ask such questions. *)
LEMMA AskedEvaluations ==
  /\ AskClassifyEval => ClassifyAsked(question')
  /\ AskPipelineEval => PipelineEvalAsked(question')
  /\ AskClusterEval => ClusterEvalAsked(question')
<1>1. ASSUME AskClassifyEval PROVE ClassifyAsked(question')
  <2>1. PICK variant \in {"binary", "finegrained", "finegrained-act"}, ids \in {{}, {1, 3}},
             articles \in {<<1, 2, 3>>, <<1, 1, 3>>} :
        \E answers \in [1..3 -> Answers(variant)], golds \in [1..3 -> Golds(variant)] :
          question' = [of |-> "classify-eval", variant |-> variant, ids |-> ids,
                       items |-> [i \in 1..3 |-> [article |-> articles[i], answer |-> answers[i],
                                                  expected |-> golds[i]]]]
    BY <1>1, Zenon DEF AskClassifyEval
  <2>2. PICK answers \in [1..3 -> Answers(variant)], golds \in [1..3 -> Golds(variant)] :
          question' = [of |-> "classify-eval", variant |-> variant, ids |-> ids,
                       items |-> [i \in 1..3 |-> [article |-> articles[i], answer |-> answers[i],
                                                  expected |-> golds[i]]]]
    BY <2>1
  <2>3. PICK q : q = question'
    OBVIOUS
  <2>4. PICK items : items = [i \in 1..3 |-> [article |-> articles[i], answer |-> answers[i],
                                            expected |-> golds[i]]]
    OBVIOUS
  <2>5. q.variant = variant /\ q.items = items
    BY <2>2, <2>3, <2>4
  <2>6. \A i \in 1..3 : /\ items[i].answer = answers[i] /\ items[i].expected = golds[i]
                        /\ answers[i] \in Answers(variant) /\ golds[i] \in Golds(variant)
    BY <2>2, <2>4
  <2>7. \A i \in 1..3 : items[i].answer # "none"
    BY <2>6 DEF Answers
  <2>8. variant # "finegrained" => \A i \in 1..3 : items[i].expected \in {"none", "YES", "NO"}
    BY <2>6 DEF Golds
  <2>9. DOMAIN items = 1..3
    BY <2>4
  <2>10. items \in Seq(ToSet(items))
    <3>1. items \in [1..3 -> ToSet(items)]
      BY <2>4, <2>9 DEF ToSet
    <3> QED
      BY <3>1, FunctionIsList
  <2>11. ClassifyAsked(q)
    BY <2>5, <2>7, <2>8, <2>9, <2>10 DEF ClassifyAsked
  <2> QED
    BY <2>3, <2>11
<1>2. ASSUME AskPipelineEval PROVE PipelineEvalAsked(question')
  <2>1. PICK acts, failed \in [1..2 -> BOOLEAN], acceptable \in [1..2 -> Acceptables],
             actions \in [1..2 -> {"none", "buy", "sell", "hold"}] :
          /\ \A i \in 1..2 : (~acts[i] => actions[i] = "none") /\ (failed[i] => ~acts[i])
          /\ question' = [of |-> "pipeline-eval",
                          items |-> [i \in 1..2 |-> [failed |-> failed[i], act |-> acts[i],
                                                     action |-> actions[i],
                                                     acceptable |-> acceptable[i]]]]
    BY <1>2, Zenon DEF AskPipelineEval
  <2>2. PICK q : q = question'
    OBVIOUS
  <2>3. PICK list : list = [i \in 1..2 |-> [failed |-> failed[i], act |-> acts[i], action |-> actions[i],
                                            acceptable |-> acceptable[i]]]
    OBVIOUS
  <2>4. q.items = list
    BY <2>1, <2>2, <2>3
  <2>5. DOMAIN list = 1..2 /\ \A i \in 1..2 : list[i].act \in BOOLEAN
    BY <2>3
  <2>6. list \in Seq(ToSet(list))
    <3>1. list \in [1..2 -> ToSet(list)]
      BY <2>3, <2>5 DEF ToSet
    <3> QED
      BY <3>1, FunctionIsList
  <2>7. PipelineEvalAsked(q)
    BY <2>4, <2>5, <2>6 DEF PipelineEvalAsked
  <2> QED
    BY <2>2, <2>7
<1>3. ASSUME AskClusterEval PROVE ClusterEvalAsked(question')
  <2>1. PICK a, b, c, d \in SUBSET (1..3) :
          question' = [of |-> "cluster-eval",
                       clusters |-> <<[expected |-> a, retrieved |-> b],
                                      [expected |-> c, retrieved |-> d]>>]
    BY <1>3, Zenon DEF AskClusterEval
  <2>2. PICK q : q = question'
    OBVIOUS
  <2>3. PICK list : list = <<[expected |-> a, retrieved |-> b], [expected |-> c, retrieved |-> d]>>
    OBVIOUS
  <2>4. q.clusters = list
    BY <2>1, <2>2, <2>3
  <2>5. IsFiniteSet(a) /\ IsFiniteSet(b) /\ IsFiniteSet(c) /\ IsFiniteSet(d)
    <3>1. 3 \in Nat
      OBVIOUS
    <3>2. IsFiniteSet(1..3)
      BY <3>1, FirstNumbers
    <3> QED
      BY <3>2, FS_Subset
  <2>6. DOMAIN list = 1..2 /\ \A i \in 1..2 : IsFiniteSet(list[i].expected) /\ IsFiniteSet(list[i].retrieved)
    BY <2>3, <2>5
  <2>7. list \in Seq(ToSet(list))
    <3>1. list \in [1..2 -> ToSet(list)]
      BY <2>3, <2>6 DEF ToSet
    <3> QED
      BY <3>1, FunctionIsList
  <2>8. ClusterEvalAsked(q)
    BY <2>4, <2>6, <2>7 DEF ClusterEvalAsked
  <2> QED
    BY <2>2, <2>8
<1> QED
  BY <1>1, <1>2, <1>3

(* For a dataset of any size (evals/classify_eval.py, pipeline_eval.py and *)
(* cluster_eval.py): the classification counts a failed item as wrong,     *)
(* unless another item of its article returned, the pipeline evaluation    *)
(* leaves it out; every other item is counted once, the confusion tables   *)
(* agree with the accuracies, the totals with their parts.                 *)
THEOREM EvaluationsAddUp ==
  ASSUME Asked("classify-eval") => ClassifyAsked(question),
         Asked("pipeline-eval") => PipelineEvalAsked(question),
         Asked("cluster-eval") => ClusterEvalAsked(question)
  PROVE  ScoresAddUp
<1>1. Asked("classify-eval") => ClassifyAddsUp(question)
  BY ClassificationAddsUp
<1>2. Asked("pipeline-eval") => PipelineAddsUp(question)
  BY DecisionsAddUp
<1>3. Asked("cluster-eval") => ClustersAddUp(question)
  BY ClustersAddUpTo
<1> QED
  BY <1>1, <1>2, <1>3 DEF ScoresAddUp

-----------------------------------------------------------------------------
(***************************************************************************)
(* The tickers of an article                                               *)
(***************************************************************************)

LEMMA ConcatenatedSet ==
  ASSUME NEW T, NEW A \in Seq(T), NEW B \in Seq(T)
  PROVE  A \o B \in Seq(T) /\ ToSet(A \o B) = ToSet(A) \cup ToSet(B)
<1>1. PICK a \in Nat : a = Len(A) /\ DOMAIN A = 1..a
  BY LenProperties
<1>2. PICK b \in Nat : b = Len(B) /\ DOMAIN B = 1..b
  BY LenProperties
<1>3. PICK C : C = A \o B
  OBVIOUS
<1>4. /\ C \in Seq(T) /\ Len(C) = a + b
      /\ \A k \in 1..(a + b) : C[k] = IF k <= a THEN A[k] ELSE B[k - a]
  BY <1>1, <1>2, <1>3, ConcatProperties
<1>5. DOMAIN C = 1..(a + b)
  BY <1>4, LenProperties
<1>6. \A k \in 1..a : k \in 1..(a + b) /\ C[k] = A[k]
  BY <1>1, <1>2, <1>4
<1>7. \A k \in 1..b : k + a \in 1..(a + b) /\ C[k + a] = B[k]
  <2> TAKE k \in 1..b
  <2>1. k + a \in 1..(a + b) /\ ~(k + a <= a) /\ (k + a) - a = k
    BY <1>1, <1>2
  <2> QED
    BY <1>4, <2>1
<1>8. \A k \in 1..(a + b) : k \in 1..a \/ \E j \in 1..b : k = j + a
  <2> TAKE k \in 1..(a + b)
  <2>1. CASE k <= a
    BY <1>1, <2>1
  <2>2. CASE ~(k <= a)
    <3>1. k - a \in 1..b /\ k = (k - a) + a
      BY <1>1, <1>2, <2>2
    <3> QED
      BY <3>1
  <2> QED
    BY <2>1, <2>2
<1>9. ToSet(C) \subseteq ToSet(A) \cup ToSet(B)
  <2>1. ASSUME NEW k \in 1..(a + b) PROVE C[k] \in ToSet(A) \cup ToSet(B)
    <3>1. CASE k \in 1..a
      BY <1>1, <1>6, <3>1 DEF ToSet
    <3>2. CASE \E j \in 1..b : k = j + a
      BY <1>2, <1>7, <3>2 DEF ToSet
    <3> QED
      BY <1>8, <3>1, <3>2
  <2> QED
    BY <1>5, <2>1 DEF ToSet
<1>10. ToSet(A) \subseteq ToSet(C)
  BY <1>1, <1>5, <1>6 DEF ToSet
<1>11. ToSet(B) \subseteq ToSet(C)
  BY <1>2, <1>5, <1>7 DEF ToSet
<1> QED
  BY <1>3, <1>4, <1>9, <1>10, <1>11

LEMMA OneElement ==
  ASSUME NEW T, NEW x \in T
  PROVE  <<x>> \in Seq(T) /\ ToSet(<<x>>) = {x}
<1>1. PICK one : one = <<x>>
  OBVIOUS
<1>2. one \in Seq(T) /\ DOMAIN one = 1..1 /\ one[1] = x
  BY <1>1
<1>3. {one[i] : i \in DOMAIN one} = {x}
  BY <1>2
<1> QED
  BY <1>1, <1>2, <1>3 DEF ToSet

LEMMA SetListedAll ==
  ASSUME NEW S, IsFiniteSet(S)
  PROVE  SetToSeq(S) \in Seq(S) /\ ToSet(SetToSeq(S)) = S
<1>1. PICK list : list = SetToSeq(S)
  OBVIOUS
<1>2. /\ list \in Seq(S) /\ DOMAIN list = 1..Len(list)
      /\ \A x \in S : \E i \in DOMAIN list : list[i] = x
  BY <1>1, SetListed
<1>3. \A i \in DOMAIN list : list[i] \in S
  BY <1>2, LenProperties
<1>4. ToSet(list) = S
  BY <1>2, <1>3 DEF ToSet
<1> QED
  BY <1>1, <1>2, <1>4

(* What was found up to each token of a text. *)
FoundUpTo(F, u, text, n) ==
  /\ F \in [0..n -> Seq(u)] /\ F[0] = <<>>
  /\ \A i \in 1..n : F[i] = F[i - 1] \o SetToSeq(TickersAt(u, text[i]))

LEMMA FoundSteps ==
  ASSUME NEW u, IsFiniteSet(u), NEW text, NEW n \in Nat, DOMAIN text = 1..n
  PROVE  \E F : FoundUpTo(F, u, text, n) /\ Find(u, text) = Dedup(F[n])
<1> DEFINE Sums(g) == g = [s \in SUBSET (DOMAIN text) |->
                             IF s = {} THEN <<>>
                             ELSE g[s \ {Max(s)}] \o SetToSeq(TickersAt(u, text[Max(s)]))]
           h == CHOOSE g : Sums(g)
           D == Seq(u)
           G == [p \in D \X (1..n) |-> p[1] \o SetToSeq(TickersAt(u, text[p[2]]))]
           last == [s \in SUBSET (1..n) |-> Max(s)]
<1>1. Find(u, text) = Dedup(h[DOMAIN text])
  BY Zenon DEF Find, FoldLeft, MapThenFoldSet
<1>2. Find(u, text) = Dedup(h[1..n])
  BY <1>1
<1>3. G \in [D \X (1..n) -> D]
      /\ \A a \in D, i \in 1..n : G[<<a, i>>] = a \o SetToSeq(TickersAt(u, text[i]))
  <2>1. ASSUME NEW i \in 1..n PROVE SetToSeq(TickersAt(u, text[i])) \in D
    <3>1. PICK S : S = TickersAt(u, text[i])
      OBVIOUS
    <3>2. S \in SUBSET u
      BY <3>1 DEF TickersAt, SymbolAt, NameToTickers
    <3>3. IsFiniteSet(S)
      BY <3>2, FS_Subset
    <3>4. SetToSeq(S) \in Seq(S)
      BY <3>3, SetListedAll
    <3>5. SetToSeq(S) \in Seq(u)
      BY <3>2, <3>4
    <3> QED
      BY <3>1, <3>5
  <2>2. \A a \in D, i \in 1..n : a \o SetToSeq(TickersAt(u, text[i])) \in D
    BY <2>1
  <2> HIDE DEF D
  <2>3. \A p \in D \X (1..n) : p[1] \in D /\ p[2] \in 1..n
    OBVIOUS
  <2>4. \A p \in D \X (1..n) : p[1] \o SetToSeq(TickersAt(u, text[p[2]])) \in D
    BY <2>2, <2>3
  <2>5. G \in [D \X (1..n) -> D]
    BY <2>4
  <2>6. ASSUME NEW a \in D, NEW i \in 1..n
        PROVE  G[<<a, i>>] = a \o SetToSeq(TickersAt(u, text[i]))
    <3>1. PICK p : p = <<a, i>>
      OBVIOUS
    <3>2. p \in D \X (1..n) /\ p[1] = a /\ p[2] = i
      BY <3>1
    <3>3. G[p] = p[1] \o SetToSeq(TickersAt(u, text[p[2]]))
      BY <3>2
    <3> QED
      BY <3>1, <3>2, <3>3
  <2> HIDE DEF G
  <2> QED
    BY <2>5, <2>6
<1>4. \A s \in SUBSET (1..n) : last[s] = Max(s) /\ (s # {} => last[s] \in s)
  BY LastIsElement
<1>b. <<>> \in D
  OBVIOUS
<1> HIDE DEF G, last, D
<1>5. Sums(h)
  <2>1. IsFiniteSet(1..n)
    BY FirstNumbers
  <2>2. PICK g : Iterates(g, 1..n, D, <<>>, G, last)
    BY <1>3, <1>4, <1>b, <2>1, IteratedExists
  <2>3. g \in [SUBSET (1..n) -> D]
    BY <2>2 DEF Iterates
  <2>4. ASSUME NEW s \in SUBSET (1..n)
        PROVE  g[s] = IF s = {} THEN <<>> ELSE g[s \ {Max(s)}] \o SetToSeq(TickersAt(u, text[Max(s)]))
    <3>1. g[s] = IF s = {} THEN <<>> ELSE G[<<g[s \ {last[s]}], last[s]>>]
      BY <2>2 DEF Iterates
    <3>2. s # {} => last[s] \in 1..n /\ last[s] = Max(s) /\ g[s \ {last[s]}] \in D
      BY <1>4, <2>3
    <3> QED
      BY <1>3, <3>1, <3>2
  <2>5. Sums(g)
    BY <2>3, <2>4
  <2> QED
    BY <2>5
<1> HIDE DEF h
<1>6. h[{}] = <<>> /\ \A s \in SUBSET (1..n) : s # {} =>
        h[s] = h[s \ {Max(s)}] \o SetToSeq(TickersAt(u, text[Max(s)]))
  BY <1>5
<1>7. \A s \in SUBSET (1..n) : s # {} /\ h[s \ {Max(s)}] \in D =>
        h[s] = G[<<h[s \ {Max(s)}], Max(s)>>]
  <2> SUFFICES ASSUME NEW s \in SUBSET (1..n), s # {}, h[s \ {Max(s)}] \in D
               PROVE  h[s] = G[<<h[s \ {Max(s)}], Max(s)>>]
    OBVIOUS
  <2>1. Max(s) \in 1..n
    BY <1>4
  <2> QED
    BY <1>3, <1>6, <2>1
<1>8. PICK F : Accumulates(F, n, D, <<>>, G) /\ F[n] = h[1..n]
  <2>1. Unfolds(h, n, D, <<>>, G)
    BY <1>3, <1>6, <1>7, <1>b DEF Unfolds
  <2> QED
    BY <2>1, Unrolled
<1>9. F \in [0..n -> D] /\ F[0] = <<>> /\ \A i \in 1..n : F[i] = G[<<F[i - 1], i>>]
  BY <1>8 DEF Accumulates
<1>10. \A i \in 1..n : F[i] = F[i - 1] \o SetToSeq(TickersAt(u, text[i]))
  <2> TAKE i \in 1..n
  <2>1. i - 1 \in 0..n
    OBVIOUS
  <2> QED
    BY <1>3, <1>9, <2>1
<1>11. FoundUpTo(F, u, text, n)
  BY <1>9, <1>10 DEF FoundUpTo, D
<1> QED
  BY <1>2, <1>8, <1>11

(* The tickers found in a text are those one of its tokens names, each     *)
(* once.                                                                   *)
Named(u, text, n) == UNION {TickersAt(u, text[i]) : i \in 1..n}

LEMMA FoundAreNamed ==
  ASSUME NEW u, IsFiniteSet(u), NEW text, NEW n \in Nat, DOMAIN text = 1..n,
         NEW found, found = Find(u, text)
  PROVE  found \in Seq(u) /\ ToSet(found) = Named(u, text, n)
<1>1. PICK F : FoundUpTo(F, u, text, n) /\ found = Dedup(F[n])
  BY FoundSteps
<1>2. /\ F \in [0..n -> Seq(u)] /\ F[0] = <<>>
      /\ \A i \in 1..n : F[i] = F[i - 1] \o SetToSeq(TickersAt(u, text[i]))
  BY <1>1 DEF FoundUpTo
<1>3. ASSUME NEW i \in 1..n
      PROVE  ToSet(F[i]) = ToSet(F[i - 1]) \cup TickersAt(u, text[i])
  <2>1. PICK S : S = TickersAt(u, text[i])
    OBVIOUS
  <2>2. S \in SUBSET u
    BY <2>1 DEF TickersAt, SymbolAt, NameToTickers
  <2>3. IsFiniteSet(S)
    BY <2>2, FS_Subset
  <2>4. PICK B : B = SetToSeq(S) /\ B \in Seq(S) /\ ToSet(B) = S
    BY <2>3, SetListedAll
  <2>5. PICK A : A = F[i - 1]
    OBVIOUS
  <2>6. A \in Seq(u)
    <3>1. i - 1 \in 0..n
      OBVIOUS
    <3> QED
      BY <1>2, <2>5, <3>1
  <2>7. B \in Seq(u)
    BY <2>2, <2>4, SeqMonotonic
  <2>8. F[i] = A \o B
    BY <1>2, <2>1, <2>4, <2>5
  <2>9. ToSet(F[i]) = ToSet(A) \cup ToSet(B)
    BY <2>6, <2>7, <2>8, ConcatenatedSet
  <2> QED
    BY <2>1, <2>4, <2>5, <2>9
<1> DEFINE Bad == {i \in 0..n : ToSet(F[i]) # Named(u, text, i)}
<1>4. 0 \notin Bad
  <2>1. Named(u, text, 0) = {}
    BY DEF Named
  <2>2. ToSet(<<>>) = {}
    BY DEF ToSet
  <2> QED
    BY <1>2, <2>1, <2>2
<1>5. ASSUME NEW i \in 1..n, i - 1 \notin Bad PROVE i \notin Bad
  <2>1. i - 1 \in 0..n
    OBVIOUS
  <2>2. ToSet(F[i - 1]) = Named(u, text, i - 1)
    BY <1>5, <2>1
  <2>3. Named(u, text, i) = Named(u, text, i - 1) \cup TickersAt(u, text[i])
    <3>1. 1..i = 1..(i - 1) \cup {i}
      OBVIOUS
    <3> QED
      BY <3>1 DEF Named
  <2> QED
    BY <1>3, <2>2, <2>3
<1>6. Bad = {}
  <2> SUFFICES ASSUME Bad # {} PROVE FALSE
    OBVIOUS
  <2>1. Bad \in SUBSET Nat /\ \A k \in Bad : k \in 0..n
    OBVIOUS
  <2> HIDE DEF Bad
  <2>2. PICK m \in Bad : \A k \in Bad : m <= k
    BY <2>1, LeastExists
  <2>3. m \in 0..n /\ m # 0
    BY <1>4, <2>1, <2>2
  <2>4. m \in 1..n /\ m - 1 \notin Bad
    BY <2>1, <2>2, <2>3
  <2> QED
    BY <1>5, <2>2, <2>4
<1>7. ToSet(F[n]) = Named(u, text, n) /\ F[n] \in Seq(u)
  <2>1. n \in 0..n
    OBVIOUS
  <2> QED
    BY <1>2, <1>6, <2>1
<1>8. Dedup(F[n]) \in Seq(u) /\ ToSet(Dedup(F[n])) = ToSet(F[n])
  BY <1>7, DedupList
<1> QED
  BY <1>1, <1>7, <1>8

(* A list without repetitions is as long as it has elements. *)
LEMMA DistinctCount ==
  ASSUME NEW T, NEW list \in Seq(T),
         \A m, n \in DOMAIN list : list[m] = list[n] => m = n
  PROVE  /\ IsFiniteSet(ToSet(list)) /\ Len(list) \in Nat
         /\ Cardinality(ToSet(list)) = Len(list)
<1>1. PICK k \in Nat : k = Len(list) /\ DOMAIN list = 1..k
  BY LenProperties
<1>2. PICK S : S = ToSet(list)
  OBVIOUS
<1>3. S = {list[i] : i \in 1..k}
  BY <1>1, <1>2 DEF ToSet
<1>4. list \in [1..k -> S]
  BY <1>1, <1>3, LenProperties
<1>5. IsFiniteSet(1..k) /\ Cardinality(1..k) = k
  BY FirstNumbers
<1>6. Numbers(list, 1..k, S)
  BY <1>1, <1>3, <1>4 DEF Numbers
<1>7. Matches(list, 1..k, S, 1..k, S)
  BY <1>3, <1>5, <1>6 DEF Matches
<1>8. Cardinality(1..k) = Cardinality(S)
  BY <1>7, SameCount
<1>9. IsFiniteSet(S)
  <2>1. \A t \in S : \E i \in 1..k : list[i] = t
    BY <1>3
  <2>2. list \in Surjection(1..k, S)
    BY <1>4, <2>1 DEF Surjection
  <2> QED
    BY <1>5, <2>2, FS_Surjection
<1> QED
  BY <1>1, <1>2, <1>5, <1>8, <1>9

LEMMA HeadAndTail ==
  ASSUME NEW T, NEW list \in Seq(T), list # <<>>
  PROVE  /\ Head(list) \in T /\ Tail(list) \in Seq(T)
         /\ ToSet(list) = {Head(list)} \cup ToSet(Tail(list))
<1>1. PICK k \in Nat : k = Len(list) /\ DOMAIN list = 1..k /\ k # 0
  BY LenProperties, EmptySeq
<1>2. PICK rest : rest = Tail(list)
  OBVIOUS
<1>3. /\ Head(list) \in T /\ rest \in Seq(T) /\ Len(rest) = Len(list) - 1
      /\ \A i \in 1..Len(rest) : rest[i] = list[i + 1]
  BY <1>2, HeadTailProperties
<1>4. DOMAIN rest = 1..(k - 1) /\ \A i \in 1..(k - 1) : rest[i] = list[i + 1]
  BY <1>1, <1>3, LenProperties
<1>h. Head(list) = list[1]
  OBVIOUS
<1>5. ToSet(list) \subseteq {list[1]} \cup ToSet(rest)
  <2>1. ASSUME NEW i \in 1..k, i # 1 PROVE list[i] \in ToSet(rest)
    <3>1. i - 1 \in 1..(k - 1) /\ (i - 1) + 1 = i
      BY <1>1, <2>1
    <3> QED
      BY <1>4, <3>1 DEF ToSet
  <2> QED
    BY <1>1, <2>1 DEF ToSet
<1>6. {list[1]} \cup ToSet(rest) \subseteq ToSet(list)
  <2>1. \A i \in 1..(k - 1) : i + 1 \in 1..k
    BY <1>1
  <2>2. 1 \in 1..k
    BY <1>1
  <2> QED
    BY <1>1, <1>4, <2>1, <2>2 DEF ToSet
<1> QED
  BY <1>2, <1>3, <1>5, <1>6, <1>h

Once(list) == \A m, n \in DOMAIN list : list[m] = list[n] => m = n

LEMMA DedupOnce ==
  ASSUME NEW T, NEW list \in Seq(T), NEW left, left = Dedup(list)
  PROVE  left \in Seq(T) /\ ToSet(left) = ToSet(list) /\ Once(left)
<1>1. Dedup(list) \in Seq(T) /\ ToSet(Dedup(list)) = ToSet(list)
  BY DedupList
<1>2. \A m, n \in DOMAIN Dedup(list) : Dedup(list)[m] = Dedup(list)[n] => m = n
  BY DedupList
<1> QED
  BY <1>1, <1>2 DEF Once

(* What filtering and then removing repetitions leaves of a list. *)
LeftOf(left, list, Out) ==
  left = Dedup(Picked(list, {i \in DOMAIN list : list[i] \notin Out}))

LEMMA FilteredOnce ==
  ASSUME NEW T, NEW list \in Seq(T), NEW Out, NEW left, LeftOf(left, list, Out)
  PROVE  left \in Seq(T) /\ ToSet(left) = ToSet(list) \ Out /\ Once(left)
<1>1. PICK P : P = {i \in DOMAIN list : list[i] \notin Out}
  OBVIOUS
<1>2. PICK kept : kept = Picked(list, P)
  OBVIOUS
<1>3. P \in SUBSET (DOMAIN list)
  BY <1>1
<1>4. kept \in Seq(T) /\ ToSet(kept) = {list[i] : i \in P}
  BY <1>2, <1>3, PickedList
<1>5. ToSet(kept) = ToSet(list) \ Out
  BY <1>1, <1>4 DEF ToSet
<1>6. left = Dedup(kept)
  BY <1>1, <1>2 DEF LeftOf
<1>7. left \in Seq(T) /\ ToSet(left) = ToSet(kept) /\ Once(left)
  BY <1>4, <1>6, DedupOnce
<1> QED
  BY <1>5, <1>7

-----------------------------------------------------------------------------
(***************************************************************************)
(* The notes of a text                                                     *)
(***************************************************************************)

Symbols == {"AI", "GOOG", "GOOGL", "MRVL", "XY"}
FullNames == {"C3.ai", "Alphabet", "Marvell Technology"}

InContext == {"$AI", "NASDAQ: AI", "$GOOG", "$GOOGL", "$MRVL", "$XY", "NYSE: XY"}

(* What is a symbol, one in a context, a name or an alias is only one of    *)
(* them.                                                                    *)
LEMMA WordsAreTold ==
  /\ DOMAIN TickerData = Symbols
  /\ \A t \in Symbols : /\ TickerData[t].name \in FullNames \cup {""}
                        /\ Strong[t] \in SUBSET InContext
  /\ \A s, t \in Symbols : Strong[s] \cap Strong[t] # {} => s = t
  /\ \A n \in FullNames : ShortAlias(n) \subseteq {"Marvell"}
                          /\ (ShortAlias(n) # {} => n = "Marvell Technology")
<1>1. DOMAIN TickerData = Symbols
  BY DEF TickerData, Symbols
<1>2. \A t \in Symbols : TickerData[t].name \in FullNames \cup {""}
  <2>1. TickerData["AI"].name = "C3.ai" /\ TickerData["GOOG"].name = "Alphabet"
    BY DEF TickerData
  <2>2. TickerData["GOOGL"].name = "Alphabet" /\ TickerData["MRVL"].name = "Marvell Technology"
    BY DEF TickerData
  <2>3. TickerData["XY"].name = ""
    BY DEF TickerData
  <2> QED
    BY <2>1, <2>2, <2>3 DEF Symbols, FullNames
<1>3. /\ Strong["AI"] = {"$AI", "NASDAQ: AI"} /\ Strong["GOOG"] = {"$GOOG"}
      /\ Strong["GOOGL"] = {"$GOOGL"} /\ Strong["MRVL"] = {"$MRVL"}
      /\ Strong["XY"] = {"$XY", "NYSE: XY"}
  BY DEF Strong
<1>4. \A t \in Symbols : Strong[t] \in SUBSET InContext
  BY <1>3 DEF Symbols, InContext
<1>5. \A s, t \in Symbols : Strong[s] \cap Strong[t] # {} => s = t
  <2> SUFFICES ASSUME NEW s \in Symbols, NEW t \in Symbols, NEW x \in Strong[s] \cap Strong[t]
               PROVE  s = t
    OBVIOUS
  <2>1. ASSUME NEW r \in Symbols, x \in Strong[r]
        PROVE  r = CASE x \in {"$AI", "NASDAQ: AI"} -> "AI" [] x = "$GOOG" -> "GOOG"
                     [] x = "$GOOGL" -> "GOOGL" [] x = "$MRVL" -> "MRVL" [] OTHER -> "XY"
    <3>1. CASE r = "AI"
      BY <1>3, <2>1, <3>1
    <3>2. CASE r = "GOOG"
      BY <1>3, <2>1, <3>2
    <3>3. CASE r = "GOOGL"
      BY <1>3, <2>1, <3>3
    <3>4. CASE r = "MRVL"
      BY <1>3, <2>1, <3>4
    <3>5. CASE r = "XY"
      BY <1>3, <2>1, <3>5
    <3> QED
      BY <2>1, <3>1, <3>2, <3>3, <3>4, <3>5 DEF Symbols
  <2>2. x \in Strong[s] /\ x \in Strong[t]
    OBVIOUS
  <2> QED
    BY <2>1, <2>2
<1>6. \A n \in FullNames : ShortAlias(n) \subseteq {"Marvell"}
                           /\ (ShortAlias(n) # {} => n = "Marvell Technology")
  BY DEF ShortAlias
<1> QED
  BY <1>1, <1>2, <1>4, <1>5, <1>6

(* A word that is a symbol, or has one in a context, mentions one ticker, and is no name. *)
LEMMA SymbolsMention ==
  ASSUME NEW u \in SUBSET Symbols, NEW w, NEW t \in SymbolAt(u, w)
  PROVE  TickersAt(u, w) = {t}
<1>1. t \in u /\ (w \in Strong[t] \/ w = t)
  BY DEF SymbolAt
<1>2. \A s \in Symbols : t \notin Strong[s] /\ (w \in Strong[s] \/ w = s => s = t)
  <2> TAKE s \in Symbols
  <2>1. t \in Symbols
    BY <1>1
  <2>2. /\ Strong[s] \in SUBSET InContext /\ Strong[t] \in SUBSET InContext
        /\ Strong[s] \cap Strong[t] # {} => s = t
    BY <2>1, WordsAreTold
  <2>3. \A x \in Symbols : x \notin InContext
    BY DEF Symbols, InContext
  <2> QED
    BY <1>1, <2>1, <2>2, <2>3
<1>3. SymbolAt(u, w) = {t}
  <2>1. \A s \in SymbolAt(u, w) : s = t
    BY <1>2 DEF SymbolAt
  <2> QED
    BY <2>1
<1>4. NameToTickers(u, w) = {}
  <2>1. w \notin FullNames \cup {"Marvell"}
    <3>1. Strong[t] \in SUBSET InContext /\ t \in Symbols
      BY <1>1, WordsAreTold
    <3> QED
      BY <1>1, <3>1 DEF Symbols, FullNames, InContext
  <2>2. ASSUME NEW s \in NameToTickers(u, w) PROVE FALSE
    <3>1. /\ s \in Symbols /\ TickerData[s].name # ""
          /\ w \in {TickerData[s].name} \cup ShortAlias(TickerData[s].name)
      BY <2>2 DEF NameToTickers
    <3>2. TickerData[s].name \in FullNames
      BY <3>1, WordsAreTold
    <3>3. ShortAlias(TickerData[s].name) \subseteq {"Marvell"}
      BY <3>2, WordsAreTold
    <3> QED
      BY <2>1, <3>1, <3>2, <3>3
  <2> QED
    BY <2>2
<1> QED
  BY <1>3, <1>4 DEF TickersAt

LEMMA NamesMention ==
  ASSUME NEW u \in SUBSET Symbols, OneTickerEach(u), NEW w, NEW t \in NameToTickers(u, w)
  PROVE  TickersAt(u, w) = {t}
<1>1. /\ t \in u /\ TickerData[t].name \in FullNames
      /\ w \in {TickerData[t].name} \cup ShortAlias(TickerData[t].name)
  BY WordsAreTold DEF NameToTickers
<1>2. SymbolAt(u, w) = {}
  <2>1. ASSUME NEW s \in SymbolAt(u, w) PROVE FALSE
    <3>1. TickersAt(u, w) = {s} /\ s \in Symbols /\ t \in TickersAt(u, w)
      BY <2>1, SymbolsMention DEF TickersAt, SymbolAt
    <3>2. w \in Strong[s] \/ w = s
      BY <2>1 DEF SymbolAt
    <3>3. Strong[s] \in SUBSET InContext
      BY <3>1, WordsAreTold
    <3>4. ShortAlias(TickerData[t].name) \subseteq {"Marvell"}
      BY <1>1, WordsAreTold
    <3> QED
      BY <1>1, <3>1, <3>2, <3>3, <3>4 DEF Symbols, FullNames, InContext
  <2> QED
    BY <2>1
<1>3. ASSUME NEW s \in NameToTickers(u, w) PROVE s = t
  <2>1. /\ s \in u /\ TickerData[s].name \in FullNames
        /\ w \in {TickerData[s].name} \cup ShortAlias(TickerData[s].name)
    BY <1>3, WordsAreTold DEF NameToTickers
  <2>2. TickerData[s].name = TickerData[t].name
    <3>1. \A n \in FullNames : ShortAlias(n) \subseteq {"Marvell"}
                               /\ (ShortAlias(n) # {} => n = "Marvell Technology")
      BY WordsAreTold
    <3>2. "Marvell" \notin FullNames
      BY DEF FullNames
    <3> QED
      BY <1>1, <2>1, <3>1, <3>2
  <2> QED
    BY <1>1, <2>1, <2>2 DEF OneTickerEach
<1> QED
  BY <1>2, <1>3 DEF TickersAt

(* What stands beside a mention is a list of words, none of which names    *)
(* another entity.                                                         *)
LEMMA CounterpartWords ==
  ASSUME NEW u \in SUBSET Symbols, NEW w
  PROVE  /\ Counterparts(u, w) \in Seq(Symbols \cup FullNames)
         /\ \A c \in ToSet(Counterparts(u, w)) :
              \/ \E t \in SymbolAt(u, w) : c = TickerData[t].name /\ c # ""
              \/ c \in NameToTickers(u, w)
<1>1. CASE SymbolAt(u, w) # {}
  <2>1. PICK t \in SymbolAt(u, w) : t = (CHOOSE tk \in SymbolAt(u, w) : TRUE)
    BY <1>1
  <2>2. PICK name : name = TickerData[t].name
    OBVIOUS
  <2>3. PICK list : list = <<name>>
    OBVIOUS
  <2>a. DOMAIN list = 1..1 /\ list[1] = name /\ list \in Seq({name})
    BY <2>3
  <2>4. PICK P : P = {i \in DOMAIN list : list[i] # ""}
    OBVIOUS
  <2>5. Counterparts(u, w) = Picked(list, P)
    BY <1>1, <2>1, <2>2, <2>3, <2>4 DEF Counterparts, Filtered, Positions
  <2>6. list \in Seq({name}) /\ P \in SUBSET (DOMAIN list)
    BY <2>a, <2>4
  <2>7. Picked(list, P) \in Seq({name}) /\ ToSet(Picked(list, P)) = {list[i] : i \in P}
    BY <2>6, PickedList
  <2>8. name \in FullNames \cup {""}
    <3>1. t \in Symbols
      BY DEF SymbolAt
    <3> QED
      BY <2>2, <3>1, WordsAreTold
  <2>9. \A c \in ToSet(Picked(list, P)) : c = name /\ c # ""
    <3>1. ASSUME NEW i \in P PROVE list[i] = name /\ list[i] # ""
      <4>1. i \in DOMAIN list /\ list[i] # ""
        BY <2>4
      <4>2. \A k \in DOMAIN list : list[k] \in {name}
        BY <2>6, LenProperties
      <4> QED
        BY <4>1, <4>2
    <3> QED
      BY <2>7, <3>1
  <2>10. Picked(list, P) \in Seq(Symbols \cup FullNames)
    <3>1. PICK kept : kept = Picked(list, P)
      OBVIOUS
    <3>2. kept \in [1..Len(kept) -> {name}] /\ DOMAIN kept = 1..Len(kept) /\ Len(kept) \in Nat
      BY <2>7, <3>1, LenProperties
    <3>3. \A i \in 1..Len(kept) : kept[i] # "" /\ kept[i] = name
      BY <2>9, <3>1, <3>2 DEF ToSet
    <3>4. \A i \in 1..Len(kept) : kept[i] \in Symbols \cup FullNames
      BY <2>8, <3>3
    <3>5. kept \in [1..Len(kept) -> Symbols \cup FullNames]
      BY <3>2, <3>4
    <3> QED
      BY <3>1, <3>2, <3>5
  <2> QED
    BY <2>2, <2>5, <2>9, <2>10
<1>2. CASE SymbolAt(u, w) = {}
  <2>1. PICK P : P = {i \in DOMAIN InOrder : InOrder[i] \in NameToTickers(u, w)}
    OBVIOUS
  <2>2. Counterparts(u, w) = Picked(InOrder, P)
    BY <1>2, <2>1 DEF Counterparts, Filtered, Positions
  <2>3. InOrder \in Seq(Symbols)
    BY DEF InOrder, Symbols
  <2>4. P \in SUBSET (DOMAIN InOrder)
    BY <2>1
  <2>5. Picked(InOrder, P) \in Seq(Symbols) /\ ToSet(Picked(InOrder, P)) = {InOrder[i] : i \in P}
    BY <2>3, <2>4, PickedList
  <2>6. Picked(InOrder, P) \in Seq(Symbols \cup FullNames)
    BY <2>5, SeqMonotonic
  <2> QED
    BY <2>1, <2>2, <2>5, <2>6
<1> QED
  BY <1>1, <1>2

(* Parentheses are no mentions, and what is put in them mentions the       *)
(* entity it stands beside, or none.                                       *)
Consistent(u) ==
  /\ TickersAt(u, "(") = {} /\ TickersAt(u, ")") = {}
  /\ \A w : /\ Counterparts(u, w) \in Seq(Symbols \cup FullNames)
            /\ \A c \in ToSet(Counterparts(u, w)) :
                 c # ")" /\ TickersAt(u, c) \in {{}, TickersAt(u, w)}

LEMMA TickersAreConsistent ==
  ASSUME NEW u \in SUBSET Symbols, OneTickerEach(u)
  PROVE  Consistent(u)
<1>1. ASSUME NEW x \in {"(", ")"} PROVE TickersAt(u, x) = {}
  <2>1. ASSUME NEW t \in TickersAt(u, x) PROVE FALSE
    <3>1. t \in Symbols /\ Strong[t] \in SUBSET InContext
      BY <2>1, WordsAreTold DEF TickersAt, SymbolAt, NameToTickers
    <3>2. t \notin SymbolAt(u, x)
      BY <1>1, <3>1 DEF SymbolAt, Symbols, InContext
    <3>3. t \in NameToTickers(u, x)
      BY <2>1, <3>2 DEF TickersAt
    <3>4. TickerData[t].name # "" /\ x \in {TickerData[t].name} \cup ShortAlias(TickerData[t].name)
      BY <3>3 DEF NameToTickers
    <3>5. TickerData[t].name \in FullNames
      BY <3>1, <3>4, WordsAreTold
    <3>6. ShortAlias(TickerData[t].name) \subseteq {"Marvell"}
      BY <3>5, WordsAreTold
    <3> QED
      BY <1>1, <3>4, <3>5, <3>6 DEF FullNames
  <2> QED
    BY <2>1
<1>2. ASSUME NEW w, NEW c \in ToSet(Counterparts(u, w))
      PROVE  c # ")" /\ TickersAt(u, c) \in {{}, TickersAt(u, w)}
  <2>1. CASE \E t \in SymbolAt(u, w) : c = TickerData[t].name /\ c # ""
    <3>1. PICK t \in SymbolAt(u, w) : c = TickerData[t].name /\ c # ""
      BY <2>1
    <3>2. t \in u /\ t \in Symbols /\ TickersAt(u, w) = {t}
      BY <3>1, SymbolsMention DEF SymbolAt
    <3>3. t \in NameToTickers(u, c)
      BY <3>1, <3>2 DEF NameToTickers
    <3>4. TickersAt(u, c) = {t}
      BY <3>3, NamesMention
    <3>5. c \in FullNames
      BY <3>1, <3>2, WordsAreTold
    <3>6. c # ")"
      BY <3>5 DEF FullNames
    <3> QED
      BY <3>2, <3>4, <3>6
  <2>2. CASE c \in NameToTickers(u, w)
    <3>1. TickersAt(u, w) = {c} /\ c \in u /\ c \in Symbols
      BY <2>2, NamesMention DEF NameToTickers
    <3>2. TickersAt(u, c) \subseteq {c}
      <4>1. ASSUME NEW s \in SymbolAt(u, c) PROVE s = c
        <5>1. /\ s \in Symbols /\ Strong[s] \in SUBSET InContext
              /\ (c \in Strong[s] \/ c = s)
          BY <4>1, WordsAreTold DEF SymbolAt
        <5> QED
          BY <3>1, <5>1 DEF Symbols, InContext
      <4>2. ASSUME NEW s \in NameToTickers(u, c) PROVE FALSE
        <5>1. /\ s \in Symbols /\ TickerData[s].name # ""
              /\ c \in {TickerData[s].name} \cup ShortAlias(TickerData[s].name)
          BY <4>2 DEF NameToTickers
        <5>2. TickerData[s].name \in FullNames
          BY <5>1, WordsAreTold
        <5>3. ShortAlias(TickerData[s].name) \subseteq {"Marvell"}
          BY <5>2, WordsAreTold
        <5> QED
          BY <3>1, <5>1, <5>2, <5>3 DEF Symbols, FullNames
      <4> QED
        BY <4>1, <4>2 DEF TickersAt
    <3>3. c # ")"
      BY <3>1 DEF Symbols
    <3> QED
      BY <3>1, <3>2, <3>3
  <2> QED
    BY <2>1, <2>2, CounterpartWords
<1>3. \A w : Counterparts(u, w) \in Seq(Symbols \cup FullNames)
  BY CounterpartWords
<1> QED
  BY <1>1, <1>2, <1>3 DEF Consistent

(* What was written, and which entities have been mentioned, up to each    *)
(* token of a text.                                                        *)
NotedUpTo(A, u, text, n, W) ==
  /\ A \in [0..n -> [out : Seq(W), done : SUBSET (SUBSET u)]]
  /\ A[0] = [out |-> <<>>, done |-> {}]
  /\ \A i \in 1..n : A[i] = Annotated(u, text, A[i - 1], i)

(* A text over some words that the notes are made of, too. *)
Readable(u, text, n, W) ==
  /\ u \in SUBSET Symbols /\ n \in Nat /\ text \in Seq(W) /\ DOMAIN text = 1..n
  /\ Symbols \cup FullNames \cup {"(", ")"} \subseteq W

LEMMA NotesAreWords ==
  ASSUME NEW u, NEW text, NEW n, NEW W, Readable(u, text, n, W), NEW w
  PROVE  Note(u, w) \in Seq(W)
<1>1. u \in SUBSET Symbols /\ Symbols \cup FullNames \subseteq W /\ "(" \in W /\ ")" \in W
  BY DEF Readable
<1>2. PICK c : c = Counterparts(u, w)
  OBVIOUS
<1>3. c \in Seq(Symbols \cup FullNames)
  BY <1>1, <1>2, CounterpartWords
<1>4. c \in Seq(W)
  BY <1>1, <1>3, SeqMonotonic
<1>5. <<"(">> \in Seq(W) /\ <<")">> \in Seq(W) /\ <<>> \in Seq(W)
  BY <1>1, OneElement
<1>6. <<"(">> \o c \in Seq(W)
  BY <1>4, <1>5, ConcatProperties
<1>7. (<<"(">> \o c) \o <<")">> \in Seq(W)
  BY <1>5, <1>6, ConcatProperties
<1> QED
  BY <1>2, <1>5, <1>7 DEF Note

LEMMA AnnotatedIsWritten ==
  ASSUME NEW u, NEW text, NEW n, NEW W, Readable(u, text, n, W), NEW i \in 1..n,
         NEW acc \in [out : Seq(W), done : SUBSET (SUBSET u)]
  PROVE  Annotated(u, text, acc, i) \in [out : Seq(W), done : SUBSET (SUBSET u)]
<1>1. text[i] \in W
  <2>1. text \in Seq(W) /\ DOMAIN text = 1..n
    BY DEF Readable
  <2> QED
    BY <2>1, LenProperties
<1>2. Note(u, text[i]) \in Seq(W) /\ <<>> \in Seq(W)
  BY NotesAreWords, EmptySeq
<1>3. PICK out, done : out = acc.out /\ done = acc.done
  OBVIOUS
<1>4. out \in Seq(W) /\ done \in SUBSET (SUBSET u)
  BY <1>3
<1>5. PICK entity : entity = TickersAt(u, text[i])
  OBVIOUS
<1>6. entity \in SUBSET u
  BY <1>5 DEF TickersAt, SymbolAt, NameToTickers
<1>7. PICK extra : extra = IF entity # {} /\ entity \notin done /\ ~FollowedByCounterpart(u, text, i)
                           THEN Note(u, text[i]) ELSE <<>>
  OBVIOUS
<1>8. extra \in Seq(W)
  BY <1>2, <1>7
<1>9. Append(out, text[i]) \in Seq(W)
  BY <1>1, <1>4, AppendProperties
<1>10. Append(out, text[i]) \o extra \in Seq(W)
  BY <1>8, <1>9, ConcatProperties
<1>11. Annotated(u, text, acc, i) = [out |-> Append(out, text[i]) \o extra, done |-> done \cup {entity}]
  BY <1>3, <1>5, <1>7 DEF Annotated
<1> QED
  BY <1>4, <1>6, <1>10, <1>11

LEMMA NoteSteps ==
  ASSUME NEW u, NEW text, NEW n, NEW W, Readable(u, text, n, W)
  PROVE  \E A : NotedUpTo(A, u, text, n, W) /\ Annotate(u, text) = A[n].out
<1> DEFINE each == [i \in DOMAIN text |-> i]
           base == [out |-> <<>>, done |-> {}]
           Folds(g) == g = [s \in SUBSET (DOMAIN each) |->
                              IF s = {} THEN base
                              ELSE Annotated(u, text, g[s \ {Max(s)}], each[Max(s)])]
           h == CHOOSE g : Folds(g)
           D == [out : Seq(W), done : SUBSET (SUBSET u)]
           G == [p \in D \X (1..n) |-> Annotated(u, text, p[1], p[2])]
           last == [s \in SUBSET (1..n) |-> Max(s)]
<1>0. n \in Nat /\ DOMAIN text = 1..n
  BY DEF Readable
<1>1. Annotate(u, text) = h[DOMAIN each].out
  BY Zenon DEF Annotate, FoldLeft, MapThenFoldSet
<1>2. Annotate(u, text) = h[1..n].out
  <2>1. DOMAIN each = 1..n
    BY <1>0
  <2> QED
    BY <1>1, <2>1
<1>3. G \in [D \X (1..n) -> D]
      /\ \A a \in D, i \in 1..n : G[<<a, i>>] = Annotated(u, text, a, i)
  <2>1. \A a \in D, i \in 1..n : Annotated(u, text, a, i) \in D
    BY AnnotatedIsWritten
  <2> HIDE DEF D
  <2>2. \A p \in D \X (1..n) : p[1] \in D /\ p[2] \in 1..n
    OBVIOUS
  <2>3. \A p \in D \X (1..n) : Annotated(u, text, p[1], p[2]) \in D
    BY <2>1, <2>2
  <2>4. G \in [D \X (1..n) -> D]
    BY <2>3
  <2>5. ASSUME NEW a \in D, NEW i \in 1..n PROVE G[<<a, i>>] = Annotated(u, text, a, i)
    <3>1. PICK p : p = <<a, i>>
      OBVIOUS
    <3>2. p \in D \X (1..n) /\ p[1] = a /\ p[2] = i
      BY <3>1
    <3>3. G[p] = Annotated(u, text, p[1], p[2])
      BY <3>2
    <3> QED
      BY <3>1, <3>2, <3>3
  <2> HIDE DEF G
  <2> QED
    BY <2>4, <2>5
<1>4. \A s \in SUBSET (1..n) : last[s] = Max(s) /\ (s # {} => last[s] \in s)
  BY <1>0, LastIsElement
<1>5. base \in D
  <2>1. <<>> \in Seq(W) /\ {} \in SUBSET (SUBSET u)
    BY EmptySeq
  <2> QED
    BY <2>1
<1>6. \A i \in 1..n : each[i] = i
  BY <1>0
<1>7. DOMAIN each = 1..n
  BY <1>0
<1> HIDE DEF G, last, D, each, base
<1>8. Folds(h)
  <2>1. IsFiniteSet(1..n)
    BY <1>0, FirstNumbers
  <2>2. PICK g : Iterates(g, 1..n, D, base, G, last)
    BY <1>3, <1>4, <1>5, <2>1, IteratedExists
  <2>3. g \in [SUBSET (1..n) -> D]
    BY <2>2 DEF Iterates
  <2>4. ASSUME NEW s \in SUBSET (1..n)
        PROVE  g[s] = IF s = {} THEN base
                      ELSE Annotated(u, text, g[s \ {Max(s)}], each[Max(s)])
    <3>1. g[s] = IF s = {} THEN base ELSE G[<<g[s \ {last[s]}], last[s]>>]
      BY <2>2 DEF Iterates
    <3>2. s # {} => last[s] \in 1..n /\ last[s] = Max(s) /\ g[s \ {last[s]}] \in D
      BY <1>4, <2>3
    <3>3. CASE s = {}
      BY <3>1, <3>3
    <3>4. CASE s # {}
      <4>1. PICK m \in 1..n : m = last[s] /\ m = Max(s) /\ g[s \ {m}] \in D
        BY <3>2, <3>4
      <4>2. g[s] = G[<<g[s \ {m}], m>>]
        BY <3>1, <3>4, <4>1
      <4>3. g[s] = Annotated(u, text, g[s \ {m}], m) /\ each[m] = m
        BY <1>3, <1>6, <4>1, <4>2
      <4> QED
        BY <3>4, <4>1, <4>3
    <3> QED
      BY <3>3, <3>4
  <2>5. Folds(g)
    BY <1>7, <2>3, <2>4
  <2> QED
    BY <2>5
<1> HIDE DEF h
<1>9. h[{}] = base /\ \A s \in SUBSET (1..n) : s # {} =>
        h[s] = Annotated(u, text, h[s \ {Max(s)}], Max(s))
  <2>1. h[{}] = base /\ \A s \in SUBSET (1..n) : s # {} =>
          h[s] = Annotated(u, text, h[s \ {Max(s)}], each[Max(s)])
    BY <1>7, <1>8
  <2>2. \A s \in SUBSET (1..n) : s # {} => each[Max(s)] = Max(s)
    BY <1>4, <1>6
  <2> QED
    BY <2>1, <2>2
<1>10. \A s \in SUBSET (1..n) : s # {} /\ h[s \ {Max(s)}] \in D =>
         h[s] = G[<<h[s \ {Max(s)}], Max(s)>>]
  <2> SUFFICES ASSUME NEW s \in SUBSET (1..n), s # {}, h[s \ {Max(s)}] \in D
               PROVE  h[s] = G[<<h[s \ {Max(s)}], Max(s)>>]
    OBVIOUS
  <2>1. Max(s) \in 1..n
    BY <1>4
  <2> QED
    BY <1>3, <1>9, <2>1
<1>11. PICK A : Accumulates(A, n, D, base, G) /\ A[n] = h[1..n]
  <2>1. Unfolds(h, n, D, base, G)
    BY <1>3, <1>5, <1>9, <1>10 DEF Unfolds
  <2> QED
    BY <1>0, <2>1, Unrolled
<1>12. A \in [0..n -> D] /\ A[0] = base /\ \A i \in 1..n : A[i] = G[<<A[i - 1], i>>]
  BY <1>11 DEF Accumulates
<1>13. \A i \in 1..n : A[i] = Annotated(u, text, A[i - 1], i)
  <2> TAKE i \in 1..n
  <2>1. i - 1 \in 0..n
    BY <1>0
  <2> QED
    BY <1>3, <1>12, <2>1
<1>14. NotedUpTo(A, u, text, n, W)
  BY <1>12, <1>13 DEF NotedUpTo, D, base
<1> QED
  BY <1>2, <1>11, <1>14

(***************************************************************************)
(* How a text and its notes are laid out                                   *)
(***************************************************************************)

(* The note behind each token: at the first mention of an entity, unless   *)
(* one is there.                                                           *)
Noting(note, u, text, n) ==
  note = [i \in 1..n |->
            IF /\ TickersAt(u, text[i]) # {}
               /\ \A k \in 1..(i - 1) : TickersAt(u, text[k]) # TickersAt(u, text[i])
               /\ ~FollowedByCounterpart(u, text, i)
            THEN Note(u, text[i]) ELSE <<>>]

(* Token i ends, with its note, at L[i] of the noted text. *)
Laid(noted, L, note, text, n) ==
  /\ L \in [0..n -> Nat] /\ L[0] = 0 /\ L[n] = Len(noted)
  /\ \A i \in 1..n : /\ L[i] = L[i - 1] + 1 + Len(note[i])
                     /\ noted[L[i - 1] + 1] = text[i]
                     /\ \A d \in 1..Len(note[i]) : noted[L[i - 1] + 1 + d] = note[i][d]

(* Each step appends a token and its note. *)
Writes(O, note, text, n, W) ==
  /\ O \in [0..n -> Seq(W)] /\ O[0] = <<>>
  /\ \A i \in 1..n : O[i] = Append(O[i - 1], text[i]) \o note[i]

LEMMA NotesAreWritten ==
  ASSUME NEW u, NEW text, NEW n, NEW W, Readable(u, text, n, W),
         NEW note, Noting(note, u, text, n)
  PROVE  \E O : Writes(O, note, text, n, W) /\ Annotate(u, text) = O[n]
<1>0. n \in Nat
  BY DEF Readable
<1>1. PICK A : NotedUpTo(A, u, text, n, W) /\ Annotate(u, text) = A[n].out
  BY NoteSteps
<1>2. /\ A \in [0..n -> [out : Seq(W), done : SUBSET (SUBSET u)]]
      /\ A[0] = [out |-> <<>>, done |-> {}]
      /\ \A i \in 1..n : A[i] = Annotated(u, text, A[i - 1], i)
  BY <1>1 DEF NotedUpTo
<1> DEFINE Seen(i) == {TickersAt(u, text[k]) : k \in 1..i}
           Bad == {i \in 0..n : A[i].done # Seen(i)}
<1>3. 0 \notin Bad
  <2>1. Seen(0) = {} /\ A[0].done = {}
    BY <1>2
  <2> QED
    BY <2>1
<1>4. ASSUME NEW i \in 1..n PROVE A[i].done = A[i - 1].done \cup {TickersAt(u, text[i])}
  <2>1. A[i] = Annotated(u, text, A[i - 1], i)
    BY <1>2
  <2> QED
    BY <2>1 DEF Annotated
<1>5. ASSUME NEW i \in 1..n, i - 1 \notin Bad PROVE i \notin Bad
  <2>1. i - 1 \in 0..n
    BY <1>0
  <2>2. A[i - 1].done = Seen(i - 1)
    BY <1>5, <2>1
  <2>3. Seen(i) = Seen(i - 1) \cup {TickersAt(u, text[i])}
    <3>1. 1..i = 1..(i - 1) \cup {i}
      BY <1>0
    <3> QED
      BY <3>1
  <2> QED
    BY <1>4, <2>2, <2>3
<1>6. Bad = {}
  <2> SUFFICES ASSUME Bad # {} PROVE FALSE
    OBVIOUS
  <2>1. Bad \in SUBSET Nat /\ \A k \in Bad : k \in 0..n
    BY <1>0
  <2> HIDE DEF Bad
  <2>2. PICK m \in Bad : \A k \in Bad : m <= k
    BY <2>1, LeastExists
  <2>3. m \in 0..n /\ m # 0
    BY <1>3, <2>1, <2>2
  <2>4. m \in 1..n /\ m - 1 \notin Bad
    BY <1>0, <2>1, <2>2, <2>3
  <2> QED
    BY <1>5, <2>2, <2>4
<1>7. ASSUME NEW i \in 1..n
      PROVE  A[i].out = Append(A[i - 1].out, text[i]) \o note[i]
  <2>1. PICK entity : entity = TickersAt(u, text[i])
    OBVIOUS
  <2>2. i - 1 \in 0..n
    BY <1>0
  <2>3. A[i - 1].done = {TickersAt(u, text[k]) : k \in 1..(i - 1)}
    BY <1>6, <2>2
  <2>4. entity \notin A[i - 1].done <=> \A k \in 1..(i - 1) : TickersAt(u, text[k]) # entity
    BY <2>3
  <2>5. A[i].out = Append(A[i - 1].out, text[i])
           \o (IF entity # {} /\ entity \notin A[i - 1].done /\ ~FollowedByCounterpart(u, text, i)
               THEN Note(u, text[i]) ELSE <<>>)
    <3>1. PICK out, done : out = A[i - 1].out /\ done = A[i - 1].done
      OBVIOUS
    <3>2. PICK extra : extra = IF entity # {} /\ entity \notin done /\ ~FollowedByCounterpart(u, text, i)
                               THEN Note(u, text[i]) ELSE <<>>
      OBVIOUS
    <3>3. PICK next : next = Append(out, text[i]) \o extra
      OBVIOUS
    <3>4. Annotated(u, text, A[i - 1], i) = [out |-> next, done |-> done \cup {entity}]
      BY <2>1, <3>1, <3>2, <3>3 DEF Annotated
    <3>5. A[i] = [out |-> next, done |-> done \cup {entity}]
      BY <1>2, <3>4
    <3>6. A[i].out = next
      BY <3>5
    <3> QED
      BY <3>1, <3>2, <3>3, <3>6
  <2>6. note[i] = IF entity # {} /\ (\A k \in 1..(i - 1) : TickersAt(u, text[k]) # entity)
                     /\ ~FollowedByCounterpart(u, text, i)
                  THEN Note(u, text[i]) ELSE <<>>
    BY <2>1 DEF Noting
  <2>7. note[i] = IF entity # {} /\ entity \notin A[i - 1].done /\ ~FollowedByCounterpart(u, text, i)
                  THEN Note(u, text[i]) ELSE <<>>
    BY <2>4, <2>6
  <2> QED
    BY <2>5, <2>7
<1>8. PICK O : O = [i \in 0..n |-> A[i].out]
  OBVIOUS
<1>9. Writes(O, note, text, n, W)
  <2>1. O \in [0..n -> Seq(W)] /\ O[0] = <<>>
    BY <1>0, <1>2, <1>8
  <2>2. ASSUME NEW i \in 1..n PROVE O[i] = Append(O[i - 1], text[i]) \o note[i]
    <3>1. i \in 0..n /\ i - 1 \in 0..n
      BY <1>0
    <3> QED
      BY <1>7, <1>8, <3>1
  <2> QED
    BY <2>1, <2>2 DEF Writes
<1>10. Annotate(u, text) = O[n]
  <2>1. n \in 0..n
    BY <1>0
  <2> QED
    BY <1>1, <1>8, <2>1
<1> QED
  BY <1>9, <1>10

(* What is written stays where it is. *)
LEMMA WrittenIsLaid ==
  ASSUME NEW text, NEW n \in Nat, NEW W, NEW note, NEW O, Writes(O, note, text, n, W),
         text \in Seq(W), DOMAIN text = 1..n, \A i \in 1..n : note[i] \in Seq(W)
  PROVE  \E L : Laid(O[n], L, note, text, n)
<1>0. /\ O \in [0..n -> Seq(W)] /\ O[0] = <<>>
      /\ \A i \in 1..n : O[i] = Append(O[i - 1], text[i]) \o note[i]
  BY DEF Writes
<1>1. PICK L : L = [i \in 0..n |-> Len(O[i])]
  OBVIOUS
<1>2. L \in [0..n -> Nat] /\ L[0] = 0 /\ \A i \in 0..n : L[i] = Len(O[i])
  <2>1. \A i \in 0..n : Len(O[i]) \in Nat
    BY <1>0, LenProperties
  <2>2. Len(O[0]) = 0
    BY <1>0
  <2> QED
    BY <1>1, <2>1, <2>2
<1>3. ASSUME NEW i \in 1..n
      PROVE  /\ L[i] = L[i - 1] + 1 + Len(note[i]) /\ Len(note[i]) \in Nat
             /\ \A p \in 1..L[i - 1] : O[i][p] = O[i - 1][p]
             /\ O[i][L[i - 1] + 1] = text[i]
             /\ \A d \in 1..Len(note[i]) : O[i][L[i - 1] + 1 + d] = note[i][d]
  <2>1. i - 1 \in 0..n /\ i \in 0..n
    OBVIOUS
  <2>2. PICK o : o = O[i - 1] /\ o \in Seq(W) /\ Len(o) = L[i - 1] /\ L[i - 1] \in Nat
    BY <1>0, <1>2, <2>1
  <2>3. PICK t : t = text[i] /\ t \in W
    BY LenProperties
  <2>4. PICK m : m = note[i] /\ m \in Seq(W) /\ Len(m) \in Nat
    BY LenProperties
  <2>5. PICK a : a = Append(o, t)
    OBVIOUS
  <2>6. /\ a \in Seq(W) /\ Len(a) = Len(o) + 1 /\ a[Len(o) + 1] = t
        /\ \A p \in 1..Len(o) : a[p] = o[p]
    BY <2>2, <2>3, <2>5, AppendProperties
  <2>7. PICK c : c = a \o m
    OBVIOUS
  <2>8. /\ Len(c) = Len(a) + Len(m)
        /\ \A p \in 1..(Len(a) + Len(m)) : c[p] = IF p <= Len(a) THEN a[p] ELSE m[p - Len(a)]
    BY <2>4, <2>6, <2>7, ConcatProperties
  <2>9. O[i] = c
    BY <1>0, <2>2, <2>3, <2>4, <2>5, <2>7
  <2>10. L[i] = Len(c)
    BY <1>2, <2>1, <2>9
  <2>11. PICK k \in Nat : k = L[i - 1] /\ Len(o) = k /\ Len(a) = k + 1
    BY <2>2, <2>6
  <2>12. PICK q \in Nat : q = Len(m)
    BY <2>4
  <2>13. \A p \in 1..k : c[p] = o[p]
    <3> TAKE p \in 1..k
    <3>1. p \in 1..((k + 1) + q) /\ p <= k + 1
      OBVIOUS
    <3> QED
      BY <2>6, <2>8, <2>11, <2>12, <3>1
  <2>14. c[k + 1] = t
    <3>1. k + 1 \in 1..((k + 1) + q) /\ k + 1 <= k + 1
      OBVIOUS
    <3> QED
      BY <2>6, <2>8, <2>11, <2>12, <3>1
  <2>15. \A d \in 1..q : c[k + 1 + d] = m[d]
    <3> TAKE d \in 1..q
    <3>1. k + 1 + d \in 1..((k + 1) + q) /\ ~(k + 1 + d <= k + 1) /\ (k + 1 + d) - (k + 1) = d
      OBVIOUS
    <3> QED
      BY <2>8, <2>11, <2>12, <3>1
  <2> QED
    BY <2>2, <2>3, <2>4, <2>8, <2>9, <2>10, <2>11, <2>12, <2>13, <2>14, <2>15
(* Nothing that is written later changes it. *)
<1> DEFINE Stays(m) == \A k \in 0..m : \A p \in 1..L[k] : p \in 1..L[m] /\ O[m][p] = O[k][p]
           Bad == {m \in 0..n : ~Stays(m)}
<1>4. 0 \notin Bad
  OBVIOUS
<1>5. ASSUME NEW m \in 1..n, m - 1 \notin Bad PROVE m \notin Bad
  <2>1. m - 1 \in 0..n
    OBVIOUS
  <2>2. Stays(m - 1)
    BY <1>5, <2>1
  <2>3. ASSUME NEW k \in 0..m, NEW p \in 1..L[k] PROVE p \in 1..L[m] /\ O[m][p] = O[k][p]
    <3>1. CASE k = m
      BY <3>1
    <3>2. CASE k # m
      <4>1. k \in 0..(m - 1)
        BY <3>2
      <4>2. p \in 1..L[m - 1] /\ O[m - 1][p] = O[k][p]
        BY <2>2, <4>1
      <4>3. L[m] = L[m - 1] + 1 + Len(note[m]) /\ Len(note[m]) \in Nat /\ O[m][p] = O[m - 1][p]
        BY <1>3, <4>2
      <4>4. L[m - 1] \in Nat
        BY <1>2, <2>1
      <4>5. p \in 1..L[m]
        BY <4>2, <4>3, <4>4
      <4> QED
        BY <4>2, <4>3, <4>5
    <3> QED
      BY <3>1, <3>2
  <2> QED
    BY <2>3
<1>6. Bad = {}
  <2> SUFFICES ASSUME Bad # {} PROVE FALSE
    OBVIOUS
  <2>1. Bad \in SUBSET Nat /\ \A k \in Bad : k \in 0..n
    OBVIOUS
  <2> HIDE DEF Bad
  <2>2. PICK m \in Bad : \A k \in Bad : m <= k
    BY <2>1, LeastExists
  <2>3. m \in 0..n /\ m # 0
    BY <1>4, <2>1, <2>2
  <2>4. m \in 1..n /\ m - 1 \notin Bad
    BY <2>1, <2>2, <2>3
  <2> QED
    BY <1>5, <2>2, <2>4
<1>7. Stays(n)
  <2>1. n \in 0..n
    OBVIOUS
  <2> QED
    BY <1>6, <2>1
<1> HIDE DEF Bad
<1>8. ASSUME NEW i \in 1..n
      PROVE  /\ O[n][L[i - 1] + 1] = text[i]
             /\ \A d \in 1..Len(note[i]) : O[n][L[i - 1] + 1 + d] = note[i][d]
  <2>1. \A p \in 1..L[i] : O[n][p] = O[i][p]
    <3>1. i \in 0..n
      OBVIOUS
    <3> QED
      BY <1>7, <3>1
  <2>2. PICK k \in Nat : k = L[i - 1]
    <3>1. i - 1 \in 0..n
      OBVIOUS
    <3> QED
      BY <1>2, <3>1
  <2>3. PICK q \in Nat : q = Len(note[i]) /\ L[i] = k + 1 + q
    BY <1>3, <2>2
  <2>4. O[i][k + 1] = text[i] /\ \A d \in 1..q : O[i][k + 1 + d] = note[i][d]
    BY <1>3, <2>2, <2>3
  <2>5. k + 1 \in 1..(k + 1 + q) /\ \A d \in 1..q : k + 1 + d \in 1..(k + 1 + q)
    OBVIOUS
  <2> QED
    BY <2>1, <2>2, <2>3, <2>4, <2>5
<1>9. L[n] = Len(O[n])
  BY <1>2
<1>10. Laid(O[n], L, note, text, n)
  BY <1>2, <1>3, <1>8, <1>9 DEF Laid
<1> QED
  BY <1>10

(* A text with its notes written in. *)
Noted(noted, L, note, u, text, n, W) ==
  /\ Readable(u, text, n, W) /\ Consistent(u) /\ Noting(note, u, text, n)
  /\ noted \in Seq(W) /\ Laid(noted, L, note, text, n)

LEMMA NotedExists ==
  ASSUME NEW u, NEW text, NEW n, NEW W, Readable(u, text, n, W), Consistent(u)
  PROVE  \E L, note : Noted(Annotate(u, text), L, note, u, text, n, W)
<1>1. PICK note : Noting(note, u, text, n)
  BY DEF Noting
<1>2. PICK O : Writes(O, note, text, n, W) /\ Annotate(u, text) = O[n]
  BY <1>1, NotesAreWritten
<1>3. /\ n \in Nat /\ text \in Seq(W) /\ DOMAIN text = 1..n
      /\ \A i \in 1..n : note[i] \in Seq(W)
  <2>1. n \in Nat /\ text \in Seq(W) /\ DOMAIN text = 1..n
    BY DEF Readable
  <2>2. ASSUME NEW i \in 1..n PROVE note[i] \in Seq(W)
    <3>1. note[i] \in {Note(u, text[i]), <<>>}
      BY <1>1 DEF Noting
    <3>2. Note(u, text[i]) \in Seq(W) /\ <<>> \in Seq(W)
      BY NotesAreWords, EmptySeq
    <3> QED
      BY <3>1, <3>2
  <2> QED
    BY <2>1, <2>2
<1>4. PICK L : Laid(O[n], L, note, text, n)
  BY <1>2, <1>3, WrittenIsLaid
<1>5. O[n] \in Seq(W)
  BY <1>2, <1>3 DEF Writes
<1> QED
  BY <1>1, <1>2, <1>4, <1>5 DEF Noted

(* A note is a list of words in parentheses that mention what it stands    *)
(* behind, or nothing.                                                     *)
LEMMA NoteIsWritten ==
  ASSUME NEW u, NEW w, Consistent(u), Note(u, w) # <<>>
  PROVE  \E m \in Nat \ {0} :
           /\ Len(Note(u, w)) = m + 2 /\ Note(u, w)[1] = "(" /\ Note(u, w)[m + 2] = ")"
           /\ \A d \in 2..(m + 1) : /\ Holds(Note(u, w)[d], Counterparts(u, w))
                                    /\ Note(u, w)[d] # ")"
                                    /\ TickersAt(u, Note(u, w)[d]) \in {{}, TickersAt(u, w)}
<1>1. PICK c : c = Counterparts(u, w)
  OBVIOUS
<1>2. PICK T : c \in Seq(T)
  BY <1>1 DEF Consistent
<1>3. PICK m \in Nat : m = Len(c) /\ DOMAIN c = 1..m
  BY <1>2, LenProperties
<1>4. PICK N : N = Note(u, w)
  OBVIOUS
<1>5. c # <<>> /\ N = (<<"(">> \o c) \o <<")">>
  BY <1>1, <1>4 DEF Note
<1>6. m # 0
  BY <1>2, <1>3, <1>5, EmptySeq
<1>7. PICK S : S = T \cup {"(", ")"}
  OBVIOUS
<1>8. PICK open, shut : open = <<"(">> /\ shut = <<")">>
  OBVIOUS
<1>9. /\ open \in Seq(S) /\ Len(open) = 1 /\ open[1] = "("
      /\ shut \in Seq(S) /\ Len(shut) = 1 /\ shut[1] = ")" /\ c \in Seq(S)
  <2>1. c \in Seq(S)
    BY <1>2, <1>7, SeqMonotonic
  <2>2. "(" \in S /\ ")" \in S
    BY <1>7
  <2> QED
    BY <1>8, <2>1, <2>2
<1>10. PICK a : a = open \o c
  OBVIOUS
<1>11. /\ a \in Seq(S) /\ Len(a) = 1 + m
       /\ \A p \in 1..(1 + m) : a[p] = IF p <= 1 THEN open[p] ELSE c[p - 1]
  <2>1. /\ a \in Seq(S) /\ Len(a) = Len(open) + Len(c)
        /\ \A p \in 1..(Len(open) + Len(c)) : a[p] = IF p <= Len(open) THEN open[p] ELSE c[p - Len(open)]
    BY <1>9, <1>10, ConcatProperties
  <2> QED
    BY <1>3, <1>9, <2>1
<1>12. /\ Len(N) = (1 + m) + 1
       /\ \A p \in 1..((1 + m) + 1) : N[p] = IF p <= 1 + m THEN a[p] ELSE shut[p - (1 + m)]
  <2>1. N = a \o shut
    BY <1>5, <1>8, <1>10
  <2>2. /\ Len(N) = Len(a) + Len(shut)
        /\ \A p \in 1..(Len(a) + Len(shut)) : N[p] = IF p <= Len(a) THEN a[p] ELSE shut[p - Len(a)]
    BY <1>9, <1>11, <2>1, ConcatProperties
  <2>3. Len(a) = 1 + m /\ Len(shut) = 1
    BY <1>9, <1>11
  <2> QED
    BY <2>2, <2>3
<1>13. N[1] = "("
  <2>1. 1 \in 1..((1 + m) + 1) /\ 1 <= 1 + m /\ 1 \in 1..(1 + m) /\ 1 <= 1
    OBVIOUS
  <2> QED
    BY <1>9, <1>11, <1>12, <2>1
<1>14. N[m + 2] = ")"
  <2>1. m + 2 \in 1..((1 + m) + 1) /\ ~(m + 2 <= 1 + m) /\ (m + 2) - (1 + m) = 1
    OBVIOUS
  <2> QED
    BY <1>9, <1>12, <2>1
<1>15. ASSUME NEW d \in 2..(m + 1)
       PROVE  /\ Holds(N[d], c) /\ N[d] # ")" /\ TickersAt(u, N[d]) \in {{}, TickersAt(u, w)}
  <2>1. d \in 1..((1 + m) + 1) /\ d <= 1 + m /\ d \in 1..(1 + m) /\ ~(d <= 1) /\ d - 1 \in 1..m
    OBVIOUS
  <2>2. N[d] = c[d - 1]
    BY <1>11, <1>12, <2>1
  <2>3. Holds(N[d], c)
    BY <1>3, <2>1, <2>2 DEF Holds, ToSet
  <2>4. N[d] \in ToSet(c)
    BY <1>3, <2>1, <2>2 DEF ToSet
  <2> QED
    BY <1>1, <2>3, <2>4 DEF Consistent
<1>16. m \in Nat \ {0} /\ Len(N) = m + 2
  BY <1>6, <1>12
<1> QED
  BY <1>1, <1>4, <1>13, <1>14, <1>15, <1>16

LEMMA NoteMentions ==
  ASSUME NEW u, NEW w, Consistent(u), NEW d \in 1..Len(Note(u, w))
  PROVE  TickersAt(u, Note(u, w)[d]) \in {{}, TickersAt(u, w)}
<1>1. Note(u, w) # <<>>
  <2>1. ASSUME Note(u, w) = <<>> PROVE FALSE
    <3>1. Len(Note(u, w)) = 0
      BY <2>1
    <3> QED
      BY <3>1
  <2> QED
    BY <2>1
<1>2. PICK m \in Nat \ {0} :
        /\ Len(Note(u, w)) = m + 2 /\ Note(u, w)[1] = "(" /\ Note(u, w)[m + 2] = ")"
        /\ \A e \in 2..(m + 1) : TickersAt(u, Note(u, w)[e]) \in {{}, TickersAt(u, w)}
  BY <1>1, NoteIsWritten
<1>3. d = 1 \/ d = m + 2 \/ d \in 2..(m + 1)
  BY <1>2
<1> QED
  BY <1>2, <1>3 DEF Consistent

(***************************************************************************)
(* Where the tokens of a text stand in the noted text                      *)
(***************************************************************************)

LEMMA Places ==
  ASSUME NEW noted, NEW L, NEW note, NEW u, NEW text, NEW n, NEW W,
         Noted(noted, L, note, u, text, n, W)
  PROVE  /\ n \in Nat /\ Len(noted) \in Nat /\ DOMAIN noted = 1..Len(noted)
         /\ L \in [0..n -> Nat] /\ L[0] = 0 /\ L[n] = Len(noted)
         /\ \A i \in 1..n : /\ note[i] \in {Note(u, text[i]), <<>>}
                            /\ Len(note[i]) \in Nat /\ L[i - 1] \in Nat /\ L[i] \in Nat
                            /\ L[i] = L[i - 1] + 1 + Len(note[i])
         /\ \A i, k \in 0..n : i <= k => L[i] <= L[k]
<1>1. /\ n \in Nat /\ L \in [0..n -> Nat] /\ L[0] = 0 /\ L[n] = Len(noted)
      /\ \A i \in 1..n : L[i] = L[i - 1] + 1 + Len(note[i])
  BY DEF Noted, Readable, Laid
<1>2. Len(noted) \in Nat /\ DOMAIN noted = 1..Len(noted)
  BY LenProperties DEF Noted
<1>3. ASSUME NEW i \in 1..n
      PROVE  note[i] \in {Note(u, text[i]), <<>>} /\ Len(note[i]) \in Nat
  <2>1. Readable(u, text, n, W) /\ Noting(note, u, text, n)
    BY DEF Noted
  <2>2. note[i] \in {Note(u, text[i]), <<>>}
    BY <2>1 DEF Noting
  <2>3. Note(u, text[i]) \in Seq(W) /\ <<>> \in Seq(W)
    BY <2>1, NotesAreWords, EmptySeq
  <2>4. note[i] \in Seq(W)
    BY <2>2, <2>3
  <2> QED
    BY <2>2, <2>4, LenProperties
<1>4. ASSUME NEW i \in 1..n PROVE L[i - 1] \in Nat /\ L[i] \in Nat
  <2>1. i - 1 \in 0..n /\ i \in 0..n
    BY <1>1
  <2> QED
    BY <1>1, <2>1
<1>5. ASSUME NEW i \in 0..n, NEW k \in 0..n, i <= k PROVE L[i] <= L[k]
  <2> DEFINE Bad == {m \in i..n : ~(L[i] <= L[m])}
  <2>1. Bad = {}
    <3> SUFFICES ASSUME Bad # {} PROVE FALSE
      OBVIOUS
    <3>1. Bad \in SUBSET Nat /\ \A m \in Bad : m \in i..n /\ ~(L[i] <= L[m])
      BY <1>1
    <3>2. \A m \in i..n : m \notin Bad => L[i] <= L[m]
      OBVIOUS
    <3> HIDE DEF Bad
    <3>3. PICK m \in Bad : \A e \in Bad : m <= e
      BY <3>1, LeastExists
    <3>4. m \in i..n /\ ~(L[i] <= L[m]) /\ L[i] \in Nat
      BY <1>1, <3>1, <3>3
    <3>5. m # i
      BY <3>4
    <3>6. m \in 1..n /\ m - 1 \in i..n /\ ~(m <= m - 1)
      BY <1>1, <3>4, <3>5
    <3>7. L[i] <= L[m - 1]
      BY <3>2, <3>3, <3>6
    <3>8. L[m] = L[m - 1] + 1 + Len(note[m]) /\ Len(note[m]) \in Nat /\ L[m - 1] \in Nat
      BY <1>1, <1>3, <1>4, <3>6
    <3> QED
      BY <3>4, <3>7, <3>8
  <2>2. k \in i..n
    BY <1>1, <1>5
  <2> QED
    BY <2>1, <2>2
<1> QED
  BY <1>1, <1>2, <1>3, <1>4, <1>5

(* Every token of the noted text is one of the text or one of a note.      *)
LEMMA TokenOrNote ==
  ASSUME NEW noted, NEW L, NEW note, NEW u, NEW text, NEW n, NEW W,
         Noted(noted, L, note, u, text, n, W), NEW p \in 1..Len(noted)
  PROVE  \E i \in 1..n :
           \/ p = L[i - 1] + 1 /\ noted[p] = text[i]
           \/ \E d \in 1..Len(note[i]) :
                p = L[i - 1] + 1 + d /\ noted[p] = note[i][d] /\ note[i] = Note(u, text[i])
<1>1. PICK S : S = {i \in 0..n : p <= L[i]}
  OBVIOUS
<1>2. /\ n \in Nat /\ L \in [0..n -> Nat] /\ L[0] = 0 /\ L[n] = Len(noted) /\ Len(noted) \in Nat
      /\ \A i \in 1..n : /\ note[i] \in {Note(u, text[i]), <<>>}
                         /\ Len(note[i]) \in Nat /\ L[i - 1] \in Nat
                         /\ L[i] = L[i - 1] + 1 + Len(note[i])
  BY Places
<1>3. S \in SUBSET Nat /\ n \in S
  BY <1>1, <1>2
<1>4. PICK i \in S : \A k \in S : i <= k
  BY <1>3, LeastExists
<1>5. i \in 1..n /\ p <= L[i] /\ i - 1 \notin S
  <2>1. i \in 0..n /\ p <= L[i]
    BY <1>1, <1>4
  <2>2. i # 0
    BY <1>2, <2>1
  <2>3. i - 1 \notin S
    BY <1>2, <1>4, <2>1
  <2> QED
    BY <1>2, <2>1, <2>2, <2>3
<1>6. PICK a \in Nat, q \in Nat : a = L[i - 1] /\ q = Len(note[i]) /\ L[i] = a + 1 + q
  BY <1>2, <1>5
<1>7. ~(p <= a)
  <2>1. i - 1 \in 0..n
    BY <1>2, <1>5
  <2> QED
    BY <1>1, <1>5, <1>6, <2>1
<1>8. /\ noted[a + 1] = text[i] /\ \A d \in 1..q : noted[a + 1 + d] = note[i][d]
  BY <1>5, <1>6 DEF Noted, Laid
<1>9. p = a + 1 \/ \E d \in 1..q : p = a + 1 + d
  <2>1. CASE p = a + 1
    BY <2>1
  <2>2. CASE p # a + 1
    <3>1. p \in Nat /\ p <= a + 1 + q
      BY <1>2, <1>5, <1>6
    <3>2. p - a - 1 \in 1..q /\ p = a + 1 + (p - a - 1)
      <4>1. \A x, y, z \in Nat : ~(x <= y) /\ x # y + 1 /\ x <= y + 1 + z =>
              x - y - 1 \in 1..z /\ x = y + 1 + (x - y - 1)
        OBVIOUS
      <4> QED
        BY <1>7, <2>2, <3>1, <4>1
    <3> QED
      BY <3>2
  <2> QED
    BY <2>1, <2>2
<1>10. CASE p = a + 1
  BY <1>5, <1>6, <1>8, <1>10
<1>11. CASE \E d \in 1..q : p = a + 1 + d
  <2>1. PICK d \in 1..q : p = a + 1 + d
    BY <1>11
  <2>2. noted[p] = note[i][d]
    BY <1>8, <2>1
  <2>3. note[i] # <<>>
    <3>1. ASSUME note[i] = <<>> PROVE FALSE
      <4>1. Len(note[i]) = 0
        BY <3>1
      <4> QED
        BY <1>6, <2>1, <4>1
    <3> QED
      BY <3>1
  <2>4. note[i] = Note(u, text[i])
    BY <1>2, <1>5, <2>3
  <2> QED
    BY <1>5, <1>6, <2>1, <2>2, <2>4
<1> QED
  BY <1>9, <1>10, <1>11

(* The notes name nobody that the text does not name. *)
LEMMA NotesNameNobody ==
  ASSUME NEW noted, NEW L, NEW note, NEW u, NEW text, NEW n, NEW W,
         Noted(noted, L, note, u, text, n, W)
  PROVE  Named(u, noted, Len(noted)) = Named(u, text, n)
<1>1. /\ n \in Nat /\ Len(noted) \in Nat /\ L \in [0..n -> Nat] /\ L[n] = Len(noted)
      /\ \A i \in 1..n : Len(note[i]) \in Nat /\ L[i - 1] \in Nat /\ L[i] \in Nat
                         /\ L[i] = L[i - 1] + 1 + Len(note[i])
      /\ \A i, k \in 0..n : i <= k => L[i] <= L[k]
  BY Places
<1>2. ASSUME NEW i \in 1..n PROVE L[i - 1] + 1 \in 1..Len(noted) /\ noted[L[i - 1] + 1] = text[i]
  <2>1. i \in 0..n /\ n \in 0..n /\ i <= n
    BY <1>1
  <2>2. L[i] <= Len(noted)
    BY <1>1, <2>1
  <2>5. PICK a \in Nat, q \in Nat : a = L[i - 1] /\ q = Len(note[i]) /\ L[i] = a + 1 + q
    BY <1>1
  <2>3. L[i - 1] + 1 \in 1..Len(noted)
    BY <1>1, <2>2, <2>5
  <2>4. noted[L[i - 1] + 1] = text[i]
    BY DEF Noted, Laid
  <2> QED
    BY <2>3, <2>4
<1>3. Named(u, text, n) \subseteq Named(u, noted, Len(noted))
  <2> SUFFICES ASSUME NEW t \in Named(u, text, n) PROVE t \in Named(u, noted, Len(noted))
    OBVIOUS
  <2>1. PICK i \in 1..n : t \in TickersAt(u, text[i])
    BY DEF Named
  <2>2. PICK p \in 1..Len(noted) : noted[p] = text[i]
    BY <1>2
  <2>3. t \in TickersAt(u, noted[p])
    BY <2>1, <2>2
  <2> QED
    BY <2>3 DEF Named
<1>4. Named(u, noted, Len(noted)) \subseteq Named(u, text, n)
  <2> SUFFICES ASSUME NEW t \in Named(u, noted, Len(noted)) PROVE t \in Named(u, text, n)
    OBVIOUS
  <2>1. PICK p \in 1..Len(noted) : t \in TickersAt(u, noted[p])
    BY DEF Named
  <2>2. PICK i \in 1..n :
           \/ p = L[i - 1] + 1 /\ noted[p] = text[i]
           \/ \E d \in 1..Len(note[i]) :
                p = L[i - 1] + 1 + d /\ noted[p] = note[i][d] /\ note[i] = Note(u, text[i])
    BY TokenOrNote
  <2>3. t \in TickersAt(u, text[i])
    <3>1. CASE noted[p] = text[i]
      BY <2>1, <3>1
    <3>2. CASE \E d \in 1..Len(note[i]) : noted[p] = note[i][d] /\ note[i] = Note(u, text[i])
      <4>1. PICK d \in 1..Len(Note(u, text[i])) : noted[p] = Note(u, text[i])[d]
        BY <3>2
      <4>2. TickersAt(u, noted[p]) \in {{}, TickersAt(u, text[i])}
        BY <4>1, NoteMentions DEF Noted
      <4> QED
        BY <2>1, <4>2
    <3> QED
      BY <2>2, <3>1, <3>2
  <2> QED
    BY <2>3 DEF Named
<1> QED
  BY <1>3, <1>4

(* Where nothing is noted, the tokens stay next to each other. *)
LEMMA Unmoved ==
  ASSUME NEW noted, NEW L, NEW note, NEW u, NEW text, NEW n, NEW W,
         Noted(noted, L, note, u, text, n, W),
         NEW i \in 1..n, NEW j \in i..n, \A k \in i..(j - 1) : note[k] = <<>>
  PROVE  \A k \in i..j : L[k - 1] = L[i - 1] + (k - i) /\ noted[L[i - 1] + 1 + (k - i)] = text[k]
<1>1. /\ n \in Nat
      /\ \A k \in 1..n : Len(note[k]) \in Nat /\ L[k - 1] \in Nat /\ L[k] = L[k - 1] + 1 + Len(note[k])
  BY Places
<1>2. \A k \in 1..n : noted[L[k - 1] + 1] = text[k]
  BY DEF Noted, Laid
<1>3. PICK a \in Nat : a = L[i - 1]
  BY <1>1
<1> DEFINE Bad == {k \in i..j : L[k - 1] # a + (k - i)}
<1>4. Bad = {}
  <2> SUFFICES ASSUME Bad # {} PROVE FALSE
    OBVIOUS
  <2>1. Bad \in SUBSET Nat /\ \A k \in Bad : k \in i..j /\ L[k - 1] # a + (k - i)
    BY <1>1
  <2>2. \A k \in i..j : k \notin Bad => L[k - 1] = a + (k - i)
    OBVIOUS
  <2> HIDE DEF Bad
  <2>3. PICK m \in Bad : \A k \in Bad : m <= k
    BY <2>1, LeastExists
  <2>4. m \in i..j /\ m # i
    <3>1. m \in i..j /\ L[m - 1] # a + (m - i)
      BY <2>1, <2>3
    <3>2. a + (i - i) = a
      BY <1>1, <1>3
    <3> QED
      BY <1>3, <3>1, <3>2
  <2>5. m - 1 \in i..(j - 1) /\ m - 1 \in i..j /\ m - 1 \in 1..n /\ ~(m <= m - 1)
    BY <1>1, <2>4
  <2>6. L[(m - 1) - 1] = a + ((m - 1) - i)
    BY <2>2, <2>3, <2>5
  <2>7. note[m - 1] = <<>>
    BY <2>5
  <2>8. Len(note[m - 1]) = 0
    BY <2>7
  <2>9. L[m - 1] = L[(m - 1) - 1] + 1 + 0
    BY <1>1, <2>5, <2>8
  <2>10. L[m - 1] = a + (m - i)
    <3>1. m \in Nat /\ i \in Nat
      BY <1>1, <2>4
    <3>2. (a + ((m - 1) - i)) + 1 + 0 = a + (m - i)
      BY <1>3, <3>1
    <3> QED
      BY <2>6, <2>9, <3>2
  <2> QED
    BY <2>1, <2>3, <2>10
<1>5. ASSUME NEW k \in i..j
      PROVE  L[k - 1] = L[i - 1] + (k - i) /\ noted[L[i - 1] + 1 + (k - i)] = text[k]
  <2>1. k \in 1..n /\ L[k - 1] = a + (k - i)
    <3>1. k \in 1..n
      BY <1>1
    <3>2. k \notin Bad
      BY <1>4
    <3> QED
      BY <3>1, <3>2
  <2>2. noted[L[k - 1] + 1] = text[k]
    BY <1>2, <2>1
  <2>3. L[k - 1] + 1 = a + 1 + (k - i)
    BY <1>1, <1>3, <2>1
  <2> QED
    BY <1>3, <2>1, <2>2, <2>3
<1> QED
  BY <1>5

(* A counterpart that stands behind a mention is still there in the noted  *)
(* text, because nothing is noted between the two.                         *)
LEMMA StillFollowed ==
  ASSUME NEW noted, NEW L, NEW note, NEW u, NEW text, NEW n, NEW W,
         Noted(noted, L, note, u, text, n, W), CounterpartsFirst(u, text),
         NEW i \in 1..n, FollowedByCounterpart(u, text, i)
  PROVE  FollowedByCounterpart(u, noted, L[i - 1] + 1)
<1>1. /\ n \in Nat /\ Len(noted) \in Nat /\ L \in [0..n -> Nat] /\ L[n] = Len(noted)
      /\ \A k \in 1..n : Len(note[k]) \in Nat /\ L[k - 1] \in Nat /\ L[k] \in Nat
                         /\ L[k] = L[k - 1] + 1 + Len(note[k])
      /\ \A k, m \in 0..n : k <= m => L[k] <= L[m]
  BY Places
<1>2. Consistent(u) /\ Noting(note, u, text, n) /\ Readable(u, text, n, W)
  BY DEF Noted
<1>3. DOMAIN text = 1..n /\ Len(text) = n
  <2>1. text \in Seq(W) /\ DOMAIN text = 1..n
    BY <1>2 DEF Readable
  <2> QED
    BY <1>1, <2>1, LenProperties
<1>4. PICK close \in (i + 2)..n :
        /\ text[i + 1] = "(" /\ text[close] = ")"
        /\ \A j \in (i + 2)..(close - 1) : text[j] # ")"
  BY <1>3 DEF FollowedByCounterpart
<1>5. PICK j \in (i + 2)..n :
        /\ Holds(text[j], Counterparts(u, text[i]))
        /\ \A k \in (i + 2)..j :
             text[k] # ")" /\ TickersAt(u, text[k]) \in {{}, TickersAt(u, text[i])}
  <2>1. i \in DOMAIN text
    BY <1>3
  <2> QED
    BY <1>3, <2>1 DEF CounterpartsFirst
<1>6. text[j] # ")" /\ (i + 2)..(j - 1) \subseteq (i + 2)..j
  BY <1>1, <1>5
<1>7. j < close
  <2>1. CASE close = j
    BY <1>4, <1>6, <2>1
  <2>2. CASE close < j
    <3>1. close \in (i + 2)..(j - 1)
      BY <1>1, <2>2
    <3> QED
      BY <1>4, <1>5, <1>6, <3>1
  <2> QED
    BY <1>1, <2>1, <2>2
<1>8. \A k \in i..(j - 1) : note[k] = <<>>
  <2> SUFFICES ASSUME NEW k \in i..(j - 1) PROVE note[k] = <<>>
    OBVIOUS
  <2>1. k \in 1..n
    BY <1>1
  <2>2. note[k] = IF /\ TickersAt(u, text[k]) # {}
                     /\ \A m \in 1..(k - 1) : TickersAt(u, text[m]) # TickersAt(u, text[k])
                     /\ ~FollowedByCounterpart(u, text, k)
                  THEN Note(u, text[k]) ELSE <<>>
    BY <1>2, <2>1 DEF Noting
  <2>3. CASE k = i
    BY <2>2, <2>3
  <2>4. CASE k = i + 1
    <3>1. TickersAt(u, text[k]) = {}
      BY <1>2, <1>4, <2>4 DEF Consistent
    <3> QED
      BY <2>2, <3>1
  <2>5. CASE k # i /\ k # i + 1
    <3>1. k \in (i + 2)..(j - 1) /\ i \in 1..(k - 1)
      BY <1>1, <2>5
    <3>2. TickersAt(u, text[k]) \in {{}, TickersAt(u, text[i])}
      BY <1>5, <1>6, <3>1
    <3> QED
      BY <2>2, <3>1, <3>2
  <2> QED
    BY <2>3, <2>4, <2>5
<1>9. PICK a \in Nat : a = L[i - 1]
  BY <1>1
<1>10. \A k \in i..j : L[k - 1] = a + (k - i) /\ noted[a + 1 + (k - i)] = text[k]
  <2>1. j \in i..n
    BY <1>1
  <2> QED
    BY <1>8, <1>9, <2>1, Unmoved
<1>11. PICK b \in Nat : b = a + 1 + (j - i)
  BY <1>1
<1>12. b >= a + 3 /\ noted[b] = text[j] /\ L[j - 1] + 1 = b
  <2>1. j \in i..j /\ j >= i + 2
    BY <1>1
  <2>2. L[j - 1] = a + (j - i) /\ noted[a + 1 + (j - i)] = text[j]
    BY <1>10, <2>1
  <2>3. i \in Nat /\ j \in Nat
    BY <1>1
  <2>4. b >= a + 3 /\ (a + (j - i)) + 1 = b
    BY <1>9, <1>11, <2>1, <2>3
  <2> QED
    BY <1>11, <2>2, <2>4
<1>13. PICK s \in (b + 1)..Len(noted) : noted[s] = ")"
  <2>1. close \in 1..n /\ j \in 1..n /\ j \in 0..n /\ close - 1 \in 0..n /\ j <= close - 1
    BY <1>1, <1>7
  <2>2. L[j] <= L[close - 1] /\ L[close] <= Len(noted)
    <3>1. close \in 0..n /\ n \in 0..n /\ close <= n
      BY <1>1
    <3> QED
      BY <1>1, <2>1, <3>1
  <2>3. L[j] >= b
    <3>1. L[j] = L[j - 1] + 1 + Len(note[j]) /\ Len(note[j]) \in Nat /\ L[j - 1] \in Nat
      BY <1>1, <2>1
    <3> QED
      BY <1>12, <3>1
  <2>4. PICK v \in Nat : v = L[close - 1] /\ L[close] >= v + 1
    <3>1. /\ L[close] = L[close - 1] + 1 + Len(note[close]) /\ Len(note[close]) \in Nat
          /\ L[close - 1] \in Nat
      BY <1>1, <2>1
    <3> QED
      BY <3>1
  <2>5. v + 1 \in (b + 1)..Len(noted)
    <3>1. PICK x \in Nat, y \in Nat, z \in Nat : x = L[j] /\ y = L[close] /\ z = Len(noted)
      BY <1>1, <2>1
    <3>2. b <= x /\ x <= v /\ v + 1 <= y /\ y <= z
      BY <2>2, <2>3, <2>4, <3>1
    <3>3. v + 1 \in (b + 1)..z
      BY <3>2
    <3> QED
      BY <3>1, <3>3
  <2>6. noted[v + 1] = text[close]
    BY <2>1, <2>4 DEF Noted, Laid
  <2> QED
    BY <1>4, <2>5, <2>6
<1>14. PICK S : S = {p \in (b + 1)..Len(noted) : noted[p] = ")"}
  OBVIOUS
<1>15. PICK c \in S : \A p \in S : c <= p
  <2>1. s \in S
    BY <1>13, <1>14
  <2>2. S \subseteq (b + 1)..Len(noted) /\ (b + 1)..Len(noted) \subseteq Nat
    BY <1>1, <1>11, <1>14
  <2>3. S \in SUBSET Nat /\ S # {}
    BY <2>1, <2>2
  <2> QED
    BY <2>3, LeastExists
<1>16. c \in (b + 1)..Len(noted) /\ noted[c] = ")"
  BY <1>14, <1>15
<1>17. noted[a + 1] = text[i] /\ noted[a + 2] = "("
  <2>1. i \in i..j /\ i + 1 \in i..j
    BY <1>1
  <2>2. noted[a + 1 + (i - i)] = text[i] /\ noted[a + 1 + ((i + 1) - i)] = text[i + 1]
    BY <1>10, <2>1
  <2>3. a + 1 + (i - i) = a + 1 /\ a + 1 + ((i + 1) - i) = a + 2
    BY <1>1
  <2> QED
    BY <1>4, <2>2, <2>3
<1>18. ASSUME NEW p \in (a + 3)..(c - 1) PROVE noted[p] # ")"
  <2>1. CASE p < b
    <3>1. PICK k \in (i + 2)..(j - 1) : p = a + 1 + (k - i)
      <4>1. p - a - 1 + i \in (i + 2)..(j - 1) /\ p = a + 1 + ((p - a - 1 + i) - i)
        BY <1>1, <1>11, <2>1
      <4> QED
        BY <4>1
    <3>2. k \in i..j
      BY <1>1
    <3> QED
      BY <1>5, <1>6, <1>10, <3>1, <3>2
  <2>2. CASE p = b
    BY <1>6, <1>12, <2>2
  <2>3. CASE p > b
    <3>1. p \in (b + 1)..Len(noted) /\ ~(c <= p)
      BY <1>1, <1>16, <2>3
    <3> QED
      BY <1>14, <1>15, <3>1
  <2> QED
    BY <1>1, <2>1, <2>2, <2>3
<1>19. b \in (a + 3)..(c - 1) /\ c \in (a + 3)..Len(noted)
  BY <1>1, <1>12, <1>16
<1>20. PICK q \in Nat : q = a + 1 /\ q + 1 = a + 2 /\ q + 2 = a + 3
  OBVIOUS
<1>21. FollowedByCounterpart(u, noted, q)
  <2>1. c \in (q + 2)..Len(noted) /\ b \in (q + 2)..(c - 1)
    BY <1>19, <1>20
  <2>2. noted[q + 1] = "(" /\ noted[c] = ")" /\ \A p \in (q + 2)..(c - 1) : noted[p] # ")"
    BY <1>16, <1>17, <1>18, <1>20
  <2>3. Holds(noted[b], Counterparts(u, noted[q]))
    BY <1>5, <1>12, <1>17, <1>20
  <2> QED
    BY <2>1, <2>2, <2>3 DEF FollowedByCounterpart
<1> QED
  BY <1>9, <1>20, <1>21

(* A note that was written is the counterpart behind its mention. *)
LEMMA NoteFollows ==
  ASSUME NEW noted, NEW L, NEW note, NEW u, NEW text, NEW n, NEW W,
         Noted(noted, L, note, u, text, n, W),
         NEW i \in 1..n, note[i] = Note(u, text[i]), note[i] # <<>>
  PROVE  FollowedByCounterpart(u, noted, L[i - 1] + 1)
<1>1. /\ n \in Nat /\ Len(noted) \in Nat /\ L[n] = Len(noted)
      /\ L[i - 1] \in Nat /\ L[i] \in Nat /\ L[i] = L[i - 1] + 1 + Len(note[i])
      /\ \A k, m \in 0..n : k <= m => L[k] <= L[m]
  BY Places
<1>2. PICK m \in Nat \ {0} :
        /\ Len(note[i]) = m + 2 /\ note[i][1] = "(" /\ note[i][m + 2] = ")"
        /\ \A d \in 2..(m + 1) : Holds(note[i][d], Counterparts(u, text[i])) /\ note[i][d] # ")"
  <2>1. Consistent(u)
    BY DEF Noted
  <2> QED
    BY <2>1, NoteIsWritten
<1>3. PICK q \in Nat : q = L[i - 1] + 1
  BY <1>1
<1>4. noted[q] = text[i] /\ \A d \in 1..(m + 2) : noted[q + d] = note[i][d]
  <2>1. noted[L[i - 1] + 1] = text[i] /\ \A d \in 1..Len(note[i]) : noted[L[i - 1] + 1 + d] = note[i][d]
    BY DEF Noted, Laid
  <2> QED
    BY <1>2, <1>3, <2>1
<1>5. q + m + 2 <= Len(noted)
  <2>1. i \in 0..n /\ n \in 0..n /\ i <= n
    BY <1>1
  <2>2. L[i] <= Len(noted)
    BY <1>1, <2>1
  <2>3. L[i] = q + (m + 2)
    BY <1>1, <1>2, <1>3
  <2>4. q + (m + 2) = q + m + 2
    OBVIOUS
  <2> QED
    BY <2>2, <2>3, <2>4
<1>6. PICK c \in Nat : c = q + (m + 2)
  OBVIOUS
<1>7. noted[q + 1] = "(" /\ noted[c] = ")"
  <2>1. 1 \in 1..(m + 2) /\ m + 2 \in 1..(m + 2)
    OBVIOUS
  <2> QED
    BY <1>2, <1>4, <1>6, <2>1
<1>8. ASSUME NEW p \in (q + 2)..(c - 1)
      PROVE  noted[p] # ")" /\ Holds(noted[p], Counterparts(u, noted[q]))
  <2>1. PICK d : d = p - q
    OBVIOUS
  <2>2. d \in 2..(m + 1) /\ d \in 1..(m + 2) /\ p = q + d
    BY <1>6, <2>1
  <2> QED
    BY <1>2, <1>4, <2>2
<1>9. c \in (q + 2)..Len(noted) /\ q + 2 \in (q + 2)..(c - 1)
  BY <1>1, <1>5, <1>6
<1>10. FollowedByCounterpart(u, noted, q)
  BY <1>7, <1>8, <1>9 DEF FollowedByCounterpart
<1> QED
  BY <1>3, <1>10

(* The noted text asks for no further note. *)
LEMMA NothingLeftToNote ==
  ASSUME NEW noted, NEW L, NEW note, NEW u, NEW text, NEW n, NEW W,
         Noted(noted, L, note, u, text, n, W), CounterpartsFirst(u, text),
         NEW p \in 1..Len(noted),
         TickersAt(u, noted[p]) # {},
         \A k \in 1..(p - 1) : TickersAt(u, noted[k]) # TickersAt(u, noted[p]),
         ~FollowedByCounterpart(u, noted, p)
  PROVE  Note(u, noted[p]) = <<>>
<1>1. /\ n \in Nat /\ Len(noted) \in Nat
      /\ \A k \in 1..n : Len(note[k]) \in Nat /\ L[k - 1] \in Nat /\ L[k] \in Nat
                         /\ L[k] = L[k - 1] + 1 + Len(note[k])
      /\ \A k, m \in 0..n : k <= m => L[k] <= L[m]
  BY Places
<1>2. PICK i \in 1..n :
           \/ p = L[i - 1] + 1 /\ noted[p] = text[i]
           \/ \E d \in 1..Len(note[i]) :
                p = L[i - 1] + 1 + d /\ noted[p] = note[i][d] /\ note[i] = Note(u, text[i])
  BY TokenOrNote
<1>3. PICK a \in Nat : a = L[i - 1]
  BY <1>1
<1>4. \A k \in 1..n : noted[L[k - 1] + 1] = text[k]
  BY DEF Noted, Laid
<1>5. CASE \E d \in 1..Len(note[i]) : p = a + 1 + d /\ noted[p] = note[i][d] /\ note[i] = Note(u, text[i])
  <2>1. PICK d \in 1..Len(Note(u, text[i])) : p = a + 1 + d /\ noted[p] = Note(u, text[i])[d]
    BY <1>5
  <2>2. TickersAt(u, noted[p]) = TickersAt(u, text[i])
    <3>1. TickersAt(u, noted[p]) \in {{}, TickersAt(u, text[i])}
      BY <2>1, NoteMentions DEF Noted
    <3> QED
      BY <3>1
  <2>3. noted[a + 1] = text[i]
    BY <1>3, <1>4
  <2>4. a + 1 \in 1..(p - 1)
    <3>1. d \in Nat /\ d >= 1
      BY <1>1, <1>5, <2>1
    <3> QED
      BY <1>1, <2>1, <3>1
  <2> QED
    BY <2>2, <2>3, <2>4
<1>6. CASE p = a + 1 /\ noted[p] = text[i]
  <2>1. ASSUME NEW k \in 1..(i - 1) PROVE TickersAt(u, text[k]) # TickersAt(u, text[i])
    <3>1. k \in 1..n /\ k \in 0..n /\ i - 1 \in 0..n /\ k <= i - 1
      BY <1>1
    <3>2. L[k] <= a /\ L[k] = L[k - 1] + 1 + Len(note[k])
      BY <1>1, <1>3, <3>1
    <3>3. PICK v \in Nat, q \in Nat : v = L[k - 1] /\ q = Len(note[k]) /\ v + 1 + q <= a
      BY <1>1, <3>1, <3>2
    <3>4. v + 1 \in 1..(p - 1)
      <4>1. v + 1 \in 1..a
        <5>1. \A x, y, z \in Nat : x + 1 + y <= z => x + 1 \in 1..z
          OBVIOUS
        <5> QED
          BY <3>3, <5>1
      <4>2. p - 1 = a
        BY <1>3, <1>6
      <4> QED
        BY <4>1, <4>2
    <3>5. noted[v + 1] = text[k]
      BY <1>4, <3>1, <3>3
    <3> QED
      BY <1>6, <3>4, <3>5
  <2>2. ~FollowedByCounterpart(u, text, i)
    BY <1>3, <1>6, StillFollowed
  <2>3. note[i] = Note(u, text[i])
    <3>1. Noting(note, u, text, n)
      BY DEF Noted
    <3> QED
      BY <1>6, <2>1, <2>2, <3>1 DEF Noting
  <2>4. note[i] = <<>>
    BY <1>3, <1>6, <2>3, NoteFollows
  <2> QED
    BY <1>6, <2>3, <2>4
<1> QED
  BY <1>2, <1>3, <1>5, <1>6

(* A second annotation writes every token and nothing else. *)
LEMMA NotedStays ==
  ASSUME NEW u, NEW text, NEW n, NEW W, Readable(u, text, n, W), Consistent(u),
         CounterpartsFirst(u, text)
  PROVE  Annotate(u, Annotate(u, text)) = Annotate(u, text)
<1>1. PICK noted : noted = Annotate(u, text)
  OBVIOUS
<1>2. PICK L, note : Noted(noted, L, note, u, text, n, W)
  BY <1>1, NotedExists
<1>3. PICK N \in Nat : N = Len(noted) /\ DOMAIN noted = 1..N /\ noted \in Seq(W)
  BY <1>2, LenProperties DEF Noted
<1>4. Readable(u, noted, N, W)
  BY <1>3 DEF Readable
<1>5. PICK second : second = Annotate(u, noted)
  OBVIOUS
<1>6. PICK L2, note2 : Noted(second, L2, note2, u, noted, N, W)
  BY <1>4, <1>5, NotedExists
<1>7. \A p \in 1..N : note2[p] = <<>>
  <2> SUFFICES ASSUME NEW p \in 1..N PROVE note2[p] = <<>>
    OBVIOUS
  <2>1. note2[p] = IF /\ TickersAt(u, noted[p]) # {}
                      /\ \A k \in 1..(p - 1) : TickersAt(u, noted[k]) # TickersAt(u, noted[p])
                      /\ ~FollowedByCounterpart(u, noted, p)
                   THEN Note(u, noted[p]) ELSE <<>>
    BY <1>6 DEF Noted, Noting
  <2>2. CASE /\ TickersAt(u, noted[p]) # {}
             /\ \A k \in 1..(p - 1) : TickersAt(u, noted[k]) # TickersAt(u, noted[p])
             /\ ~FollowedByCounterpart(u, noted, p)
    <3>1. Note(u, noted[p]) = <<>>
      BY <1>2, <1>3, <2>2, NothingLeftToNote
    <3> QED
      BY <2>1, <3>1
  <2> QED
    BY <2>1, <2>2
<1>8. /\ L2[0] = 0 /\ L2[N] = Len(second) /\ Len(second) \in Nat /\ DOMAIN second = 1..Len(second)
      /\ \A p \in 1..N : L2[p] = L2[p - 1] + 1 + Len(note2[p])
  BY <1>6, Places
<1>9. \A p \in 1..N : second[L2[p - 1] + 1] = noted[p]
  BY <1>6 DEF Noted, Laid
<1>10. CASE N = 0
  <2>1. Len(second) = 0
    BY <1>8, <1>10
  <2>2. second = <<>> /\ noted = <<>>
    <3>1. second \in Seq(W)
      BY <1>6 DEF Noted
    <3> QED
      BY <1>3, <1>10, <2>1, <3>1, EmptySeq
  <2> QED
    BY <1>1, <1>5, <2>2
<1>11. CASE N # 0
  <2>1. 1 \in 1..N /\ N \in 1..N /\ N \in 1..N
    BY <1>11
  <2>2. \A p \in 1..N : L2[p - 1] = p - 1 /\ second[p] = noted[p]
    <3>1. \A k \in 1..(N - 1) : note2[k] = <<>>
      BY <1>7
    <3>2. \A k \in 1..N : L2[k - 1] = L2[1 - 1] + (k - 1) /\ second[L2[1 - 1] + 1 + (k - 1)] = noted[k]
      BY <1>6, <2>1, <3>1, Unmoved
    <3> TAKE p \in 1..N
    <3>3. L2[1 - 1] = 0
      BY <1>8
    <3>4. 0 + (p - 1) = p - 1 /\ 0 + 1 + (p - 1) = p
      OBVIOUS
    <3> QED
      BY <3>2, <3>3, <3>4
  <2>3. Len(second) = N
    <3>1. L2[N] = L2[N - 1] + 1 + Len(note2[N]) /\ Len(note2[N]) = 0
      BY <1>7, <1>8, <2>1
    <3>2. L2[N - 1] = N - 1
      BY <2>1, <2>2
    <3> QED
      BY <1>8, <3>1, <3>2
  <2>4. second = noted
    <3>1. second \in Seq(W)
      BY <1>6 DEF Noted
    <3>2. \A p \in 1..N : second[p] = noted[p]
      BY <2>2
    <3>3. second \in [1..N -> W] /\ noted \in [1..N -> W]
      BY <1>3, <2>3, <3>1, LenProperties
    <3> QED
      BY <3>2, <3>3
  <2> QED
    BY <1>1, <1>5, <2>4
<1> QED
  BY <1>10, <1>11

-----------------------------------------------------------------------------
(* A text with the tickers of its feed, the known tickers and an insight.  *)
MentionsAsked(q) ==
  /\ \E tickers : q.array \in Seq(tickers)
  /\ q.universe \in SUBSET (DOMAIN TickerData)
  /\ \E words : q.text \in Seq(words)
  /\ \E head, quotes : q.box = [head |-> head, quotes |-> quotes]

(* The texts that are model-checked are such. *)
LEMMA AskedTags == AskTags => MentionsAsked(question')
<1> SUFFICES ASSUME AskTags PROVE MentionsAsked(question')
  OBVIOUS
<1>1. PICK a, b, c \in Chunks, array \in Arrays,
           universe \in {DOMAIN TickerData, DOMAIN TickerData \ {"GOOGL"}} :
        question' = [of |-> "tags", text |-> a \o b \o c, array |-> array, universe |-> universe,
                     box |-> [head |-> a \o c,
                              quotes |-> <<b \o c, <<"never", "said">>, a \o <<"fell">>, b \o c>>]]
  BY DEF AskTags
<1>2. PICK W : W = {"MRVL", "Marvell", "Marvell Technology", "rose", "(", ")", "Alphabet",
                    "GOOG", "GOOGL", "AI", "$AI", "NASDAQ: AI", "C3.ai", "said", "XY",
                    "NYSE: XY"}
  OBVIOUS
<1>3. Chunks \subseteq Seq(W)
  <2>1. \A w \in W : <<w>> \in Seq(W)
    OBVIOUS
  <2>2. \A w, x, y, z \in W : <<w, x, y, z>> \in Seq(W)
    OBVIOUS
  <2>m. "MRVL" \in W /\ "Marvell" \in W /\ "Marvell Technology" \in W /\ "(" \in W /\ ")" \in W
    BY <1>2
  <2>3. <<"MRVL", "(", "Marvell Technology", ")">> \in Seq(W)
    BY <2>m, <2>2, Zenon
  <2>4. <<"Marvell", "(", "MRVL", ")">> \in Seq(W)
    BY <2>m, <2>2, Zenon
  <2>5. <<"C3.ai", "(", "rose", "AI", ")">> \in Seq(W)
    <3>1. \A v, w, x, y, z \in W : <<v, w, x, y, z>> \in Seq(W)
      OBVIOUS
    <3>2. "C3.ai" \in W /\ "rose" \in W /\ "AI" \in W
      BY <1>2
    <3> QED
      BY <2>m, <3>1, <3>2, Zenon
  <2>6. <<"MRVL", "(", "C3.ai", "Marvell Technology", ")">> \in Seq(W)
    <3>1. \A v, w, x, y, z \in W : <<v, w, x, y, z>> \in Seq(W)
      OBVIOUS
    <3>2. "C3.ai" \in W
      BY <1>2
    <3> QED
      BY <2>m, <3>1, <3>2, Zenon
  <2>7. <<"C3.ai", "(", "said", ")">> \in Seq(W)
    <3>1. "C3.ai" \in W /\ "said" \in W
      BY <1>2
    <3> QED
      BY <2>m, <2>2, <3>1, Zenon
  <2>8. <<"Alphabet", "(", "GOOGL", ")">> \in Seq(W)
    <3>1. "Alphabet" \in W /\ "GOOGL" \in W
      BY <1>2
    <3> QED
      BY <2>m, <2>2, <3>1, Zenon
  <2> QED
    BY <1>2, <2>1, <2>3, <2>4, <2>5, <2>6, <2>7, <2>8 DEF Chunks
<1>4. PICK text : text = a \o b \o c /\ text \in Seq(W)
  <2>1. a \in Seq(W) /\ b \in Seq(W) /\ c \in Seq(W)
    BY <1>3
  <2>2. a \o b \in Seq(W)
    BY <2>1, ConcatProperties
  <2>3. (a \o b) \o c \in Seq(W)
    BY <2>1, <2>2, ConcatProperties
  <2> QED
    BY <2>3
<1>5. PICK D : D = {"AI", "GOOG", "GOOGL", "MRVL", "XY"}
  OBVIOUS
<1>6. array \in Seq(D)
  <2>1. <<>> \in Seq(D)
    OBVIOUS
  <2>3. <<"GOOG", "GOOGL", "AI">> \in Seq(D)
    BY <1>5
  <2>4. <<"XY", "MRVL", "XY", "MRVL">> \in Seq(D)
    BY <1>5
  <2> QED
    BY <2>1, <2>3, <2>4 DEF Arrays
<1>7. universe \in SUBSET (DOMAIN TickerData)
  OBVIOUS
<1>10. PICK head, quotes : head = a \o c
                           /\ quotes = <<b \o c, <<"never", "said">>, a \o <<"fell">>, b \o c>>
  OBVIOUS
<1>11. question' = [of |-> "tags", text |-> text, array |-> array, universe |-> universe,
                    box |-> [head |-> head, quotes |-> quotes]]
  BY <1>1, <1>4, <1>10
<1> QED
  BY <1>4, <1>6, <1>7, <1>11 DEF MentionsAsked

LEMMA SymbolsAreFinite ==
  ASSUME NEW u \in SUBSET (DOMAIN TickerData)
  PROVE  IsFiniteSet(u) /\ u \in SUBSET Symbols
<1>1. DOMAIN TickerData = Symbols
  BY WordsAreTold
<1>2. Symbols = {"AI"} \cup {"GOOG"} \cup {"GOOGL"} \cup {"MRVL"} \cup {"XY"}
  BY DEF Symbols
<1>3. /\ IsFiniteSet({"AI"}) /\ IsFiniteSet({"GOOG"}) /\ IsFiniteSet({"GOOGL"})
      /\ IsFiniteSet({"MRVL"}) /\ IsFiniteSet({"XY"})
  BY FS_Singleton
<1>4. IsFiniteSet({"AI"} \cup {"GOOG"})
  BY <1>3, FS_Union
<1>5. IsFiniteSet({"AI"} \cup {"GOOG"} \cup {"GOOGL"})
  BY <1>3, <1>4, FS_Union
<1>6. IsFiniteSet({"AI"} \cup {"GOOG"} \cup {"GOOGL"} \cup {"MRVL"})
  BY <1>3, <1>5, FS_Union
<1>7. IsFiniteSet({"AI"} \cup {"GOOG"} \cup {"GOOGL"} \cup {"MRVL"} \cup {"XY"})
  BY <1>3, <1>6, FS_Union
<1> QED
  BY <1>1, <1>2, <1>7, FS_Subset

LEMMA RowOfTags ==
  ASSUME NEW q, MentionsAsked(q), q.array # <<>>
  PROVE  TagsCoverMentions(q)
<1>0. PICK u, text, array, n : u = q.universe /\ text = q.text /\ array = q.array /\ n = Len(text)
  OBVIOUS
<1>1. PICK T : /\ array \in Seq(T) /\ array # <<>> /\ u \in SUBSET T /\ IsFiniteSet(u)
               /\ n \in Nat /\ DOMAIN text = 1..n
  <2>1. PICK T : array \in Seq(T) /\ u \in SUBSET T
    <3>1. PICK tickers : array \in Seq(tickers)
      BY <1>0 DEF MentionsAsked
    <3>2. array \in Seq(tickers \cup u)
      BY <3>1, SeqMonotonic
    <3> QED
      BY <3>2
  <2>2. PICK words : text \in Seq(words)
    BY <1>0 DEF MentionsAsked
  <2>3. n \in Nat /\ DOMAIN text = 1..n
    BY <1>0, <2>2, LenProperties
  <2>4. IsFiniteSet(u) /\ array # <<>>
    BY <1>0, SymbolsAreFinite DEF MentionsAsked
  <2> QED
    BY <2>1, <2>3, <2>4
<1>2. PICK found : found = Find(u, text)
  OBVIOUS
<1>3. found \in Seq(u)
  BY <1>1, <1>2, FoundAreNamed
<1>4. found \in Seq(T)
  BY <1>1, <1>3, SeqMonotonic
<1>5. PICK first, rest : first = Head(array) /\ rest = Tail(array)
  OBVIOUS
<1>6. first \in T /\ rest \in Seq(T) /\ ToSet(array) = {first} \cup ToSet(rest)
  BY <1>1, <1>5, HeadAndTail
<1>7. PICK long : long = rest \o found
  OBVIOUS
<1>8. long \in Seq(T) /\ ToSet(long) = ToSet(rest) \cup ToSet(found)
  BY <1>4, <1>6, <1>7, ConcatenatedSet
<1>9. PICK Out : Out = {first}
  OBVIOUS
<1>10. PICK more : more = Dedup(Picked(long, {i \in DOMAIN long : long[i] # first}))
  OBVIOUS
<1>11. more \in Seq(T) /\ ToSet(more) = ToSet(long) \ {first} /\ Once(more)
  <2>1. {i \in DOMAIN long : long[i] # first} = {i \in DOMAIN long : long[i] \notin Out}
    BY <1>9
  <2>2. LeftOf(more, long, Out)
    BY <1>10, <2>1 DEF LeftOf
  <2>3. more \in Seq(T) /\ ToSet(more) = ToSet(long) \ Out /\ Once(more)
    BY <1>8, <2>2, FilteredOnce
  <2> QED
    BY <1>9, <2>3
<1>12. MoreTickers(q) = more
  BY <1>0, <1>2, <1>5, <1>7, <1>10 DEF MoreTickers, Filtered, Positions
<1>13. PICK own : own = Segment(u, first)
  OBVIOUS
<1>14. PICK segs : segs = [i \in DOMAIN more |-> Segment(u, more[i])]
  OBVIOUS
<1>15. PICK Others : Others = {"", own}
  OBVIOUS
<1>16. PICK others : others = Dedup(Picked(segs, {i \in DOMAIN segs : segs[i] \notin {"", own}}))
  OBVIOUS
<1>17. PICK row : row = ComputeRow(q)
  OBVIOUS
<1>18. row = [primary |-> first, segment |-> own, more |-> more, moreSegments |-> others]
  BY <1>0, <1>1, <1>5, <1>12, <1>13, <1>14, <1>16, <1>17 DEF ComputeRow, Filtered, Positions
<1>19. PICK all : all = ToSet(<<first>> \o more)
  OBVIOUS
<1>20. all = {first} \cup ToSet(more)
  <2>1. PICK one : one = <<first>> /\ one \in Seq(T) /\ ToSet(one) = {first}
    BY <1>6, OneElement
  <2>2. ToSet(one \o more) = ToSet(one) \cup ToSet(more)
    <3>1. one \in Seq(T) /\ more \in Seq(T)
      BY <1>11, <2>1
    <3> QED
      BY <3>1, ConcatenatedSet, SMTT(20)
  <2> QED
    BY <1>19, <2>1, <2>2
<1>21. all = ToSet(array) \cup ToSet(found)
  BY <1>6, <1>8, <1>11, <1>20
<1>22. Len(more) + 1 = Cardinality(all)
  <2>1. PICK S : S = ToSet(more) /\ IsFiniteSet(S) /\ Len(more) \in Nat /\ Cardinality(S) = Len(more)
    BY <1>11, DistinctCount DEF Once
  <2>2. first \notin S /\ all = S \cup {first}
    BY <1>11, <1>20, <2>1
  <2> QED
    BY <2>1, <2>2, FS_AddElement
<1>23. PICK V : V = {Segment(u, tk) : tk \in all} \cup {own}
  OBVIOUS
<1>24. PICK k \in Nat : k = Len(more) /\ DOMAIN more = 1..k
  BY <1>11, LenProperties
<1>25. segs \in Seq(V) /\ ToSet(segs) = {Segment(u, tk) : tk \in ToSet(more)} /\ DOMAIN segs = 1..k
  <2>1. \A i \in 1..k : more[i] \in all
    BY <1>20, <1>24 DEF ToSet
  <2>2. segs \in [1..k -> V] /\ \A i \in 1..k : segs[i] = Segment(u, more[i])
    BY <1>14, <1>23, <1>24, <2>1
  <2>3. segs \in Seq(V) /\ DOMAIN segs = 1..k
    BY <2>2
  <2> QED
    BY <1>24, <2>2, <2>3 DEF ToSet
<1>26. others \in Seq(V) /\ ToSet(others) = ToSet(segs) \ {"", own} /\ Once(others)
  <2>1. LeftOf(others, segs, Others)
    BY <1>15, <1>16 DEF LeftOf
  <2>2. others \in Seq(V) /\ ToSet(others) = ToSet(segs) \ Others /\ Once(others)
    BY <1>25, <2>1, FilteredOnce
  <2> QED
    BY <1>15, <2>2
<1>27. ToSet(<<own>> \o others) = {own} \cup ToSet(others)
  <2>1. PICK one : one = <<own>> /\ one \in Seq(V) /\ ToSet(one) = {own}
    <3>1. own \in V
      BY <1>23
    <3> QED
      BY <3>1, OneElement
  <2>2. ToSet(one \o others) = ToSet(one) \cup ToSet(others)
    <3>1. one \in Seq(V) /\ others \in Seq(V)
      BY <1>26, <2>1
    <3> QED
      BY <3>1, ConcatenatedSet, SMTT(20)
  <2> QED
    BY <2>1, <2>2
<1>28. ToSet(<<own>> \o others) \ {""} = {Segment(u, tk) : tk \in all} \ {""}
  <2>1. {Segment(u, tk) : tk \in all} = {own} \cup ToSet(segs)
    BY <1>13, <1>20, <1>25
  <2> QED
    BY <1>26, <1>27, <2>1
<1>29. IsInjective(others)
  BY <1>26 DEF IsInjective, Once
<1>30. /\ row.primary = first /\ row.segment = own /\ row.more = more
       /\ row.moreSegments = others
  BY <1>18
<1> QED
  BY <1>0, <1>2, <1>17, <1>19, <1>21, <1>22, <1>28, <1>29, <1>30 DEF TagsCoverMentions

LEMMA NotesOfTags ==
  ASSUME NEW q, MentionsAsked(q)
  PROVE  NotesSayNothingNew(q)
<1> SUFFICES ASSUME OneTickerEach(q.universe)
             PROVE  /\ ToSet(Find(q.universe, Annotate(q.universe, q.text)))
                         = ToSet(Find(q.universe, q.text))
                    /\ CounterpartsFirst(q.universe, q.text)
                         => Annotate(q.universe, Annotate(q.universe, q.text))
                              = Annotate(q.universe, q.text)
  BY DEF NotesSayNothingNew
<1>1. PICK u, text : u = q.universe /\ text = q.text
  OBVIOUS
<1>2. PICK words : text \in Seq(words)
  BY <1>1 DEF MentionsAsked
<1>3. PICK W : W = words \cup Symbols \cup FullNames \cup {"(", ")"}
  OBVIOUS
<1>4. PICK n \in Nat : n = Len(text) /\ DOMAIN text = 1..n
  BY <1>2, LenProperties
<1>5. IsFiniteSet(u) /\ u \in SUBSET Symbols
  BY <1>1, SymbolsAreFinite DEF MentionsAsked
<1>6. Readable(u, text, n, W)
  <2>1. text \in Seq(W)
    BY <1>2, <1>3, SeqMonotonic
  <2> QED
    BY <1>3, <1>4, <1>5, <2>1 DEF Readable
<1>7. Consistent(u)
  BY <1>1, <1>5, TickersAreConsistent
<1>8. PICK noted : noted = Annotate(u, text)
  OBVIOUS
<1>9. PICK L, note : Noted(noted, L, note, u, text, n, W)
  BY <1>6, <1>7, <1>8, NotedExists
<1>10. Len(noted) \in Nat /\ DOMAIN noted = 1..Len(noted)
  BY <1>9, Places
<1>11. ToSet(Find(u, noted)) = Named(u, noted, Len(noted))
  BY <1>5, <1>10, FoundAreNamed
<1>12. ToSet(Find(u, text)) = Named(u, text, n)
  BY <1>4, <1>5, FoundAreNamed
<1>13. Named(u, noted, Len(noted)) = Named(u, text, n)
  BY <1>9, NotesNameNobody
<1>14. CounterpartsFirst(u, text) => Annotate(u, noted) = noted
  BY <1>6, <1>7, <1>8, NotedStays
<1> QED
  BY <1>1, <1>8, <1>11, <1>12, <1>13, <1>14

(* Tagging loses and repeats no ticker, and records the segments of all of *)
(* them; where each company has one ticker, the notes that are written     *)
(* into a text name nobody it did not name, and a second annotation adds   *)
(* none if no parenthesis names another company up to the counterpart; and *)
(* the quotes of a box that was just stored are those that a correction of *)
(* the quotes finds (enrichment/tagging.py: compute_row, build_annotator;  *)
(* enrichment/insights.py: fix_quotes).                                    *)
THEOREM MentionsAreAccountedFor ==
  (Asked("tags") => MentionsAsked(question)) => MentionsAccountedFor
<1> SUFFICES ASSUME MentionsAsked(question)
             PROVE  /\ TagsCoverMentions(question)
                    /\ NotesSayNothingNew(question)
                    /\ FixQuotes(question, StoreBox(question)) = StoreBox(question)
  BY DEF MentionsAccountedFor
<1>1. TagsCoverMentions(question)
  <2>1. CASE question.array = <<>>
    BY <2>1 DEF TagsCoverMentions
  <2>2. CASE question.array # <<>>
    BY <2>2, RowOfTags
  <2> QED
    BY <2>1, <2>2
<1>2. FixQuotes(question, StoreBox(question)) = StoreBox(question)
  <2>1. PICK head, quotes : question.box = [head |-> head, quotes |-> quotes]
    BY DEF MentionsAsked
  <2>2. PICK noted : noted = Annotate(question.universe, question.box.head)
    OBVIOUS
  <2>3. AnnotateBox(question.universe, question.box) = [head |-> noted, quotes |-> quotes]
    BY <2>1, <2>2 DEF AnnotateBox
  <2>4. PICK kept : kept = VerbatimizeQuotes(quotes, question.text)
    OBVIOUS
  <2>5. StoreBox(question) = [quotes |-> kept, boxText |-> [head |-> noted, quotes |-> quotes]]
    BY <2>1, <2>3, <2>4 DEF StoreBox
  <2> QED
    BY <2>4, <2>5 DEF FixQuotes
<1>3. NotesSayNothingNew(question)
  BY NotesOfTags
<1> QED
  BY <1>1, <1>2, <1>3

=============================================================================
