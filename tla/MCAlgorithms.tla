---------------------------- MODULE MCAlgorithms ----------------------------
(* Asks every read-only component its questions, one at a time. *)
EXTENDS Precedents, SeedSearch, Trades, TickerScan, EvalRun, EvalScores, Mentions

Init == question = Nobody

Answered == ~Asked("nobody") /\ ~Evaluating /\ question' = Nobody

Next == AskPrecedents \/ AskSearch \/ AskRelated
  \/ AskBacktest \/ AskCatalysts \/ AskScan \/ AskTags
  \/ AskClassifyEval \/ AskPipelineEval \/ AskClusterEval \/ EvalStep \/ Answered

Spec == Init /\ [][Next]_question

=============================================================================
