------------------------ MODULE ArticleStagesProofs ------------------------
(***************************************************************************)
(* Proofs about ArticleStages, for any number of boxes, extractions,       *)
(* attempts and batch processes, and any choice of commands.               *)
(*                                                                         *)
(* What an actor asked a model for was justified by what it read before.   *)
(* The proofs carry that justification from the read to the write: whoever *)
(* stores boxes that will be upserted found none, or two extractions have  *)
(* crossed; a row's text only grows younger, and a vector under way knows  *)
(* which text it was made of; only what is recorded as redone can take     *)
(* back the reasons of a verdict.                                          *)
(***************************************************************************)
EXTENDS ArticleStages, TLAPS

JudgingTasks == {"sentiment", "judge", "rejudge"}

BatchTasks == \A b \in Batches : task[b] \in Commands \cup {"none"}

(* The service works for the row as it stands, one place at a time. *)
ServiceAtStage ==
  /\ pc["service"] # "idle" =>
       /\ up /\ status = "taken" /\ stage # Done
       /\ task["service"] = StageName[stage]
  /\ pc["service"] = "idle" => task["service"] = "none"
  /\ pc["service"] \in {"refused", "blank"} => stage = 1
  /\ pc["service"] \in {"boxed", "vectors"} => stage = 5
  /\ status = "done" => stage = Done

(* Without a stamp there is no box, and whoever would upsert the first     *)
(* ones finds it so, unless another extraction was faster.                 *)
FirstExtraction ==
  /\ ~row.stamped => \A i \in Indices : boxes[i] = NoBox
  /\ \A p \in Actors :
       pc[p] = "asked" /\ task[p] \in {"insights", "extract"} /\ ~crossed =>
         /\ \A i \in Indices : boxes[i] = NoBox
         /\ ~row.stamped \/ blind

(* A row of article_insights keeps its text for life unless extractions    *)
(* cross; and what was read of it earlier is no younger than what it has.  *)
IdTellsText ==
  \A i \in Indices :
    /\ boxes[i].id <= boxes[i].text /\ boxes[i].text <= texts
    /\ ~crossed => boxes[i].id = boxes[i].text
    /\ \A p \in Actors :
         /\ mem[p][i].id <= mem[p][i].text /\ mem[p][i].text <= texts
         /\ mem[p][i].id # 0 /\ mem[p][i].id = boxes[i].id => mem[p][i].text <= boxes[i].text

Due == Actionable(row.label) /\ row.ticker /\ HasBoxes

(* A verdict that was asked for is due while it is computed. *)
AskedIsDue ==
  \A p \in Actors : pc[p] = "asked" /\ task[p] \in JudgingTasks /\ ~redone => Due

TaggedIsNamed == row.ticker => named

(* The stage with this number is over, and no stage found the text gone. *)
Behind(s) == ~blind /\ (stage > s \/ (stage = s /\ pc["service"] = "returned"))

(* Every stage the job has behind it has left what it owes the article. *)
StagesBehind ==
  /\ Behind(2) => row.embedding
  /\ Behind(3) => row.label # "none"
  /\ Behind(4) => row.ticker = named
  /\ Behind(5) => row.stamped
  /\ Behind(6) => (~redone /\ ~crossed /\ Due => verdict # "none")
  /\ pc["service"] \in {"boxed", "vectors"} => row.stamped

IInv ==
  /\ TypeOK /\ BatchTasks /\ ServiceAtStage
  /\ FirstExtraction /\ IdTellsText /\ OneExtraction /\ VectorOfItsText
  /\ AskedIsDue /\ TaggedIsNamed /\ VerdictWasDue /\ StagesBehind

-----------------------------------------------------------------------------
(* The stages by number and by name. *)
LEMMA StageNames ==
  /\ \A s \in 1..6 : /\ StageName[s] = "scrape" <=> s = 1
                     /\ StageName[s] = "embed" <=> s = 2
                     /\ StageName[s] = "classify" <=> s = 3
                     /\ StageName[s] = "tag" <=> s = 4
                     /\ StageName[s] = "insights" <=> s = 5
                     /\ StageName[s] = "sentiment" <=> s = 6
  /\ \A s \in 1..6 : StageName[s] \in {"scrape", "embed", "classify", "tag", "insights", "sentiment"}
BY DEF StageName

(* An idle actor remembers nothing. *)
LEMMA NothingRead ==
  /\ NoBoxes \in [Indices -> BoxType]
  /\ \A i \in Indices : NoBoxes[i].id = 0 /\ NoBoxes[i].text = 0
<1> USE StagesAssumption
<1>1. NoBox \in BoxType
  BY DEF NoBox, BoxType
<1> QED
  BY <1>1 DEF NoBoxes, NoBox

(* Who has written is not asking any more, and nobody else notices. *)
LEMMA EndsEffect ==
  ASSUME TypeOK, NEW p \in Actors, Ends(p)
  PROVE  /\ pc' \in [Actors -> AtWork \cup {"idle", "blank", "returned"}]
         /\ task' \in [Actors -> Commands \cup {"none"} \cup {StageName[s] : s \in 1..6}]
         /\ mem' \in [Actors -> [Indices -> BoxType]]
         /\ \A q \in Actors \ {p} : pc'[q] = pc[q] /\ task'[q] = task[q] /\ mem'[q] = mem[q]
         /\ p = "service" => pc'[p] = "returned" /\ task'[p] = task[p] /\ mem'[p] = mem[p]
         /\ p # "service" => pc'[p] = "idle" /\ task'[p] = "none" /\ mem'[p] = NoBoxes
<1>1. CASE p = "service"
  BY <1>1 DEF TypeOK, Ends, Goes, AtWork
<1>2. CASE p # "service"
  <2>1. /\ pc' = [pc EXCEPT ![p] = "idle"] /\ task' = [task EXCEPT ![p] = "none"]
        /\ mem' = [mem EXCEPT ![p] = NoBoxes]
    BY <1>2 DEF Ends, Stops, Goes, Takes
  <2>2. pc' \in [Actors -> AtWork \cup {"idle", "blank", "returned"}]
    BY <2>1 DEF TypeOK
  <2>3. mem' \in [Actors -> [Indices -> BoxType]]
    BY <2>1, NothingRead DEF TypeOK
  <2>4. task' \in [Actors -> Commands \cup {"none"} \cup {StageName[s] : s \in 1..6}]
    BY <2>1 DEF TypeOK
  <2> QED
    BY <1>2, <2>1, <2>2, <2>3, <2>4 DEF TypeOK
<1> QED
  BY <1>1, <1>2

(* What the places and the memories of the actors have to do with it. *)
LEMMA EndsKeeps ==
  ASSUME IInv, NEW p \in Actors, Ends(p), UNCHANGED job, pc[p] # "idle"
  PROVE  BatchTasks' /\ ServiceAtStage'
<1> USE EndsEffect DEF job
<1>1. TypeOK
  BY DEF IInv
<1>2. BatchTasks'
  BY <1>1 DEF IInv, BatchTasks, Actors
<1>3. ServiceAtStage'
  BY <1>1 DEF IInv, ServiceAtStage, Actors
<1> QED
  BY <1>2, <1>3

LEMMA InitIInv == Init => IInv
<1> SUFFICES ASSUME Init PROVE IInv
  OBVIOUS
<1> USE StagesAssumption DEF Done
<1>5. \E l \in Labels, e \in BOOLEAN :
        row = [embedding |-> e, label |-> l, ticker |-> FALSE, stamped |-> FALSE]
  BY Zenon DEF Init, Labels
<1>6. /\ up = FALSE /\ stage = 1 /\ status = "queued" /\ attempts = 0
      /\ boxes = NoBoxes /\ verdict = "none" /\ named \in BOOLEAN
      /\ pc = [p \in Actors |-> "idle"] /\ task = [p \in Actors |-> "none"]
      /\ mem = [p \in Actors |-> NoBoxes]
      /\ texts = 0 /\ redone = FALSE /\ crossed = FALSE /\ blind = FALSE
      /\ page \in {"none", "ok"}
  BY Zenon DEF Init
<1>1. TypeOK
  <2>1. row \in [embedding : BOOLEAN, label : Labels, ticker : BOOLEAN, stamped : BOOLEAN]
    BY <1>5
  <2>2. task \in [Actors -> Commands \cup {"none"} \cup {StageName[s] : s \in 1..6}]
    BY <1>6, Zenon
  <2>3. mem \in [Actors -> [Indices -> BoxType]] /\ boxes \in [Indices -> BoxType]
    BY <1>6, NothingRead
  <2>4. /\ pc \in [Actors -> AtWork \cup {"idle", "blank", "returned"}]
        /\ stage \in 1..Done /\ attempts \in 0..MaxAttempts /\ texts \in 0..MaxTexts
        /\ attempts < MaxAttempts
    BY <1>6
  <2>5. /\ up \in BOOLEAN /\ status \in {"queued", "taken", "parked", "done"}
        /\ page \in {"none", "error", "empty", "ok"} /\ verdict \in Actors \cup {"none"}
        /\ redone \in BOOLEAN /\ crossed \in BOOLEAN /\ blind \in BOOLEAN
    BY <1>6
  <2> QED
    BY <1>6, <2>1, <2>2, <2>3, <2>4, <2>5, Zenon DEF TypeOK
<1>2. BatchTasks /\ ServiceAtStage
  BY <1>6 DEF BatchTasks, ServiceAtStage, Actors
<1>3. FirstExtraction /\ IdTellsText /\ OneExtraction /\ VectorOfItsText
  BY <1>6, NothingRead DEF FirstExtraction, IdTellsText, OneExtraction, VectorOfItsText, Actors,
     NoBoxes, NoBox
<1>4. AskedIsDue /\ TaggedIsNamed /\ VerdictWasDue /\ StagesBehind
  <2>1. ~row.ticker
    BY <1>5
  <2>2. \A s \in {2, 3, 4, 5, 6} : ~Behind(s)
    BY <1>6 DEF Behind, Actors
  <2> QED
    BY <1>6, <2>1, <2>2 DEF AskedIsDue, TaggedIsNamed, VerdictWasDue, StagesBehind, Actors
<1> QED
  BY <1>1, <1>2, <1>3, <1>4 DEF IInv

LEMMA StartIInv ==
  ASSUME IInv, Start
  PROVE  IInv'
<1> USE StagesAssumption DEF AtWork, Start, job, data, tale, Done
<1>1. TypeOK'
  BY DEF IInv, TypeOK
<1>2. BatchTasks'
  BY DEF IInv, TypeOK, BatchTasks
<1>3. ServiceAtStage'
  BY DEF IInv, TypeOK, ServiceAtStage, Actors
<1>4. FirstExtraction' /\ IdTellsText' /\ OneExtraction' /\ VectorOfItsText'
  BY DEF IInv, FirstExtraction, IdTellsText, OneExtraction, VectorOfItsText
<1>5. AskedIsDue' /\ TaggedIsNamed' /\ VerdictWasDue'
  BY DEF IInv, TypeOK, AskedIsDue, TaggedIsNamed, VerdictWasDue, Due, HasBoxes
<1>6. StagesBehind'
  BY DEF IInv, StagesBehind, Behind, Due, HasBoxes
<1> QED
  BY <1>1, <1>2, <1>3, <1>4, <1>5, <1>6 DEF IInv

LEMMA CrashIInv ==
  ASSUME IInv, Crash
  PROVE  IInv'
<1> USE StagesAssumption DEF AtWork, Crash, Stops, Goes, Takes, job, data, tale, Done
<1>1. TypeOK'
  <2>1. TypeOK /\ "service" \in Actors
    BY DEF IInv, Actors
  <2>2. pc' \in [Actors -> AtWork \cup {"idle", "blank", "returned"}]
    BY <2>1 DEF TypeOK
  <2>3. mem' \in [Actors -> [Indices -> BoxType]]
    BY <2>1, NothingRead DEF TypeOK
  <2>4. task' \in [Actors -> Commands \cup {"none"} \cup {StageName[s] : s \in 1..6}]
    BY <2>1 DEF TypeOK
  <2>5. status \in {"queued", "taken"} => attempts < MaxAttempts
    BY <2>1 DEF TypeOK
  <2>6. /\ up' \in BOOLEAN
        /\ UNCHANGED <<stage, status, attempts, page, row, boxes, verdict, named, texts>>
        /\ UNCHANGED <<redone, crossed, blind>>
    OBVIOUS
  <2> HIDE DEF Crash, Stops, Goes, Takes, AtWork
  <2> QED
    BY <2>1, <2>2, <2>3, <2>4, <2>5, <2>6 DEF TypeOK
<1>2. BatchTasks'
  BY DEF IInv, TypeOK, BatchTasks, Actors
<1>3. ServiceAtStage'
  BY DEF IInv, TypeOK, ServiceAtStage, Actors
<1>4. FirstExtraction' /\ OneExtraction' /\ VectorOfItsText'
  BY DEF IInv, TypeOK, FirstExtraction, OneExtraction, VectorOfItsText, Actors
<1>5. IdTellsText'
  BY NothingRead DEF IInv, TypeOK, IdTellsText, Actors
<1>6. AskedIsDue' /\ TaggedIsNamed' /\ VerdictWasDue'
  BY DEF IInv, TypeOK, AskedIsDue, TaggedIsNamed, VerdictWasDue, Due, HasBoxes
<1>7. StagesBehind'
  BY DEF IInv, StagesBehind, Behind, Due, HasBoxes
<1> QED
  BY <1>1, <1>2, <1>3, <1>4, <1>5, <1>6, <1>7 DEF IInv

LEMMA BeginStageIInv ==
  ASSUME IInv, BeginStage
  PROVE  IInv'
<1> USE StagesAssumption DEF AtWork, BeginStage, Goes, Takes, job, data, tale, Done
<1>1. TypeOK'
  BY DEF IInv, TypeOK, ServiceAtStage, Actors
<1>2. BatchTasks'
  BY DEF IInv, TypeOK, BatchTasks, Actors
<1>3. ServiceAtStage'
  BY DEF IInv, TypeOK, ServiceAtStage, Actors
<1>4. FirstExtraction' /\ IdTellsText' /\ OneExtraction' /\ VectorOfItsText'
  BY DEF IInv, FirstExtraction, IdTellsText, OneExtraction, VectorOfItsText
<1>5. AskedIsDue' /\ TaggedIsNamed' /\ VerdictWasDue'
  BY DEF IInv, TypeOK, AskedIsDue, TaggedIsNamed, VerdictWasDue, Due, HasBoxes
<1>6. StagesBehind'
  BY DEF IInv, StagesBehind, Behind, Due, HasBoxes
<1> QED
  BY <1>1, <1>2, <1>3, <1>4, <1>5, <1>6 DEF IInv

(* What the stage has returned with is what the job has behind it. *)
LEMMA StageDoneIInv ==
  ASSUME IInv, StageDone
  PROVE  IInv'
<1> USE StagesAssumption DEF AtWork, StageDone, Stops, Goes, Takes, job, data, tale, Done
<1>1. TypeOK'
  BY NothingRead DEF IInv, TypeOK, ServiceAtStage, Actors
<1>2. BatchTasks'
  BY DEF IInv, TypeOK, BatchTasks, Actors
<1>3. ServiceAtStage'
  BY DEF IInv, TypeOK, ServiceAtStage, Actors
<1>4. FirstExtraction' /\ OneExtraction' /\ VectorOfItsText'
  BY DEF IInv, TypeOK, FirstExtraction, OneExtraction, VectorOfItsText, Actors
<1>5. IdTellsText'
  BY NothingRead DEF IInv, TypeOK, IdTellsText, Actors
<1>6. AskedIsDue' /\ TaggedIsNamed' /\ VerdictWasDue'
  BY DEF IInv, TypeOK, AskedIsDue, TaggedIsNamed, VerdictWasDue, Due, HasBoxes
<1>7. StagesBehind'
  <2>1. pc'["service"] = "idle"
    BY DEF IInv, TypeOK, Actors
  <2>2. ASSUME NEW s \in 2..6, Behind(s)'
        PROVE  Behind(s)
    <3>1. stage \in 1..7 /\ stage' \in 1..7
      BY <1>1 DEF IInv, TypeOK
    <3>2. CASE pc["service"] = "blank"
      BY <2>1, <2>2, <3>1, <3>2 DEF IInv, ServiceAtStage, Behind
    <3>3. CASE pc["service"] = "returned"
      <4>1. stage' = stage + 1
        BY <3>3
      <4>2. stage' > s => stage > s \/ (stage = s /\ pc["service"] = "returned")
        BY <3>1, <3>3, <4>1
      <4> QED
        BY <2>1, <2>2, <3>3, <4>2 DEF Behind
    <3> QED
      BY <3>2, <3>3
  <2>3. Due' <=> Due
    BY DEF Due, HasBoxes
  <2> QED
    BY <2>1, <2>2, <2>3 DEF IInv, StagesBehind
<1> QED
  BY <1>1, <1>2, <1>3, <1>4, <1>5, <1>6, <1>7 DEF IInv

LEMMA StageFailsIInv ==
  ASSUME IInv, StageFails
  PROVE  IInv'
<1> USE StagesAssumption DEF AtWork, StageFails, Stops, Goes, Takes, job, data, tale, Done
<1>1. TypeOK'
  BY NothingRead DEF IInv, TypeOK, ServiceAtStage, Actors
<1>2. BatchTasks'
  BY DEF IInv, TypeOK, BatchTasks, Actors
<1>3. ServiceAtStage'
  BY DEF IInv, TypeOK, ServiceAtStage, Actors
<1>4. FirstExtraction' /\ OneExtraction' /\ VectorOfItsText'
  BY DEF IInv, TypeOK, FirstExtraction, OneExtraction, VectorOfItsText, Actors
<1>5. IdTellsText'
  BY NothingRead DEF IInv, TypeOK, IdTellsText, Actors
<1>6. AskedIsDue' /\ TaggedIsNamed' /\ VerdictWasDue'
  BY DEF IInv, TypeOK, AskedIsDue, TaggedIsNamed, VerdictWasDue, Due, HasBoxes
<1>7. StagesBehind'
  BY DEF IInv, StagesBehind, Behind, Due, HasBoxes
<1> QED
  BY <1>1, <1>2, <1>3, <1>4, <1>5, <1>6, <1>7 DEF IInv

LEMMA RetryParkedIInv ==
  ASSUME IInv, RetryParked
  PROVE  IInv'
<1> USE StagesAssumption DEF AtWork, RetryParked, job, data, tale, Done
<1>1. TypeOK'
  BY DEF IInv, TypeOK
<1>2. BatchTasks'
  BY DEF IInv, TypeOK, BatchTasks, Actors
<1>3. ServiceAtStage'
  BY DEF IInv, TypeOK, ServiceAtStage, Actors
<1>4. FirstExtraction' /\ IdTellsText' /\ OneExtraction' /\ VectorOfItsText'
  BY DEF IInv, FirstExtraction, IdTellsText, OneExtraction, VectorOfItsText
<1>5. AskedIsDue' /\ TaggedIsNamed' /\ VerdictWasDue'
  BY DEF IInv, TypeOK, AskedIsDue, TaggedIsNamed, VerdictWasDue, Due, HasBoxes
<1>6. StagesBehind'
  BY DEF IInv, StagesBehind, Behind, Due, HasBoxes
<1> QED
  BY <1>1, <1>2, <1>3, <1>4, <1>5, <1>6 DEF IInv

(* An early return finds the work done. *)
LEMMA SkipStageIInv ==
  ASSUME IInv, SkipStage
  PROVE  IInv'
<1> USE StagesAssumption DEF AtWork, SkipStage, AlreadyDone, Goes, job, data, tale, Done
<1>1. TypeOK'
  <2>1. pc' \in [Actors -> AtWork \cup {"idle", "blank", "returned"}]
    BY DEF IInv, TypeOK, Actors
  <2> QED
    BY <2>1 DEF IInv, TypeOK, Actors
<1>2. BatchTasks'
  BY DEF IInv, TypeOK, BatchTasks, Actors
<1>3. ServiceAtStage'
  BY DEF IInv, TypeOK, ServiceAtStage, Actors
<1>4. FirstExtraction' /\ IdTellsText' /\ OneExtraction' /\ VectorOfItsText'
  BY DEF IInv, FirstExtraction, IdTellsText, OneExtraction, VectorOfItsText
<1>5. AskedIsDue' /\ TaggedIsNamed' /\ VerdictWasDue'
  BY DEF IInv, TypeOK, AskedIsDue, TaggedIsNamed, VerdictWasDue, Due, HasBoxes
<1>6. StagesBehind'
  BY StageNames DEF IInv, TypeOK, ServiceAtStage, StagesBehind, Behind, Due, HasBoxes, TaggedIsNamed, Actors
<1> QED
  BY <1>1, <1>2, <1>3, <1>4, <1>5, <1>6 DEF IInv

LEMMA AskModelIInv ==
  ASSUME IInv, AskModel
  PROVE  IInv'
<1> USE StagesAssumption DEF AtWork, AskModel, AlreadyDone, Goes, job, data, tale, Done
<1>1. TypeOK'
  <2>1. pc' \in [Actors -> AtWork \cup {"idle", "blank", "returned"}]
    BY DEF IInv, TypeOK, Actors
  <2> QED
    BY <2>1 DEF IInv, TypeOK, Actors
<1>2. BatchTasks'
  BY DEF IInv, TypeOK, BatchTasks, Actors
<1>3. ServiceAtStage'
  BY StageNames DEF IInv, TypeOK, ServiceAtStage, Actors
<1>4. FirstExtraction' /\ IdTellsText' /\ OneExtraction' /\ VectorOfItsText'
  BY DEF IInv, FirstExtraction, IdTellsText, OneExtraction, VectorOfItsText
<1>5. AskedIsDue' /\ TaggedIsNamed' /\ VerdictWasDue'
  BY DEF IInv, TypeOK, AskedIsDue, TaggedIsNamed, VerdictWasDue, Due, HasBoxes, Actors, JudgingTasks
<1>6. StagesBehind'
  BY DEF IInv, StagesBehind, Behind, Due, HasBoxes
<1> QED
  BY <1>1, <1>2, <1>3, <1>4, <1>5, <1>6 DEF IInv

(* Nothing is asked, and what the stage owes is not claimed any more. *)
LEMMA SkipForWantOfTextIInv ==
  ASSUME IInv, SkipForWantOfText
  PROVE  IInv'
<1> USE StagesAssumption DEF AtWork, SkipForWantOfText, Goes, job, data, tale, Done
<1>0. /\ row' \in [embedding : BOOLEAN, label : Labels, ticker : BOOLEAN, stamped : BOOLEAN]
      /\ row'.embedding = row.embedding /\ row'.label = row.label /\ row'.ticker = row.ticker
      /\ row.stamped => row'.stamped
      /\ blind'
  BY DEF IInv, TypeOK
<1>1. TypeOK'
  BY <1>0 DEF IInv, TypeOK, Actors
<1>2. BatchTasks'
  BY DEF IInv, TypeOK, BatchTasks, Actors
<1>3. ServiceAtStage'
  BY DEF IInv, TypeOK, ServiceAtStage, Actors
<1>4. FirstExtraction'
  BY <1>0 DEF IInv, TypeOK, FirstExtraction
<1>5. IdTellsText' /\ OneExtraction' /\ VectorOfItsText'
  BY DEF IInv, IdTellsText, OneExtraction, VectorOfItsText
<1>6. AskedIsDue' /\ TaggedIsNamed' /\ VerdictWasDue'
  BY <1>0 DEF IInv, TypeOK, AskedIsDue, TaggedIsNamed, VerdictWasDue, Due, HasBoxes
<1>7. StagesBehind'
  BY <1>0 DEF IInv, TypeOK, ServiceAtStage, StagesBehind, Behind, Actors
<1> QED
  BY <1>1, <1>2, <1>3, <1>4, <1>5, <1>6, <1>7 DEF IInv

(* What is read of the boxes now is no younger than they are. *)
LEMMA MemoryOfBoxes ==
  ASSUME TypeOK, IdTellsText, UNCHANGED <<boxes, texts, crossed>>,
         \A q \in Actors : mem'[q] = mem[q] \/ mem'[q] = boxes
  PROVE  IdTellsText'
<1>1. \A i \in Indices : boxes[i].text \in Nat
  BY StagesAssumption DEF TypeOK, BoxType
<1>2. ASSUME NEW i \in Indices, NEW q \in Actors
      PROVE  /\ mem'[q][i].id <= mem'[q][i].text /\ mem'[q][i].text <= texts
             /\ mem'[q][i].id # 0 /\ mem'[q][i].id = boxes[i].id => mem'[q][i].text <= boxes[i].text
  <2>1. CASE mem'[q] = mem[q]
    BY <2>1 DEF IdTellsText
  <2>2. CASE mem'[q] = boxes
    BY <1>1, <2>2 DEF IdTellsText
  <2> QED
    BY <2>1, <2>2
<1> QED
  BY <1>2 DEF IdTellsText

LEMMA ReadUnembeddedIInv ==
  ASSUME IInv, ReadUnembedded
  PROVE  IInv'
<1> USE StagesAssumption DEF AtWork, ReadUnembedded, Goes, job, data, tale, Done
<1>1. TypeOK'
  <2>1. pc' \in [Actors -> AtWork \cup {"idle", "blank", "returned"}]
    BY DEF IInv, TypeOK, Actors
  <2> QED
    BY <2>1 DEF IInv, TypeOK, Actors
<1>2. BatchTasks'
  BY DEF IInv, TypeOK, BatchTasks, Actors
<1>3. ServiceAtStage'
  BY DEF IInv, TypeOK, ServiceAtStage, Actors
<1>4. FirstExtraction' /\ OneExtraction' /\ VectorOfItsText'
  BY DEF IInv, TypeOK, FirstExtraction, OneExtraction, VectorOfItsText, Actors
<1>7. IdTellsText'
  <2>1. \A q \in Actors : mem'[q] = mem[q] \/ mem'[q] = boxes
    BY DEF IInv, TypeOK
  <2> QED
    BY <2>1, MemoryOfBoxes DEF IInv
<1>5. AskedIsDue' /\ TaggedIsNamed' /\ VerdictWasDue'
  BY DEF IInv, TypeOK, AskedIsDue, TaggedIsNamed, VerdictWasDue, Due, HasBoxes
<1>6. StagesBehind'
  BY StageNames DEF IInv, TypeOK, ServiceAtStage, StagesBehind, Behind, Due, HasBoxes, Actors
<1> QED
  BY <1>1, <1>2, <1>3, <1>4, <1>5, <1>6, <1>7 DEF IInv

LEMMA BatchBeginsIInv ==
  ASSUME IInv, NEW b \in Batches, NEW c \in Commands, BatchBegins(b, c)
  PROVE  IInv'
<1> USE StagesAssumption DEF AtWork, BatchBegins, Goes, Takes, job, data, tale, Done
<1>1. TypeOK'
  <2>1. TypeOK /\ b \in Actors
    BY DEF IInv, Actors
  <2>2. pc' \in [Actors -> AtWork \cup {"idle", "blank", "returned"}]
    BY <2>1 DEF TypeOK
  <2>3. mem' \in [Actors -> [Indices -> BoxType]]
    BY <2>1 DEF TypeOK
  <2>4. task' \in [Actors -> Commands \cup {"none"} \cup {StageName[s] : s \in 1..6}]
    BY <2>1 DEF TypeOK
  <2>5. verdict' \in Actors \cup {"none"} /\ redone' \in BOOLEAN
    BY <2>1 DEF TypeOK
  <2> QED
    BY <2>1, <2>2, <2>3, <2>4, <2>5 DEF TypeOK
<1>2. BatchTasks'
  BY DEF IInv, TypeOK, BatchTasks
<1>3. ServiceAtStage'
  BY DEF IInv, TypeOK, ServiceAtStage, Actors
<1>4. FirstExtraction'
  <2>1. \A i \in Indices : boxes'[i] = boxes[i]
    OBVIOUS
  <2>2. ASSUME NEW p \in Actors, pc'[p] = "asked", task'[p] \in {"insights", "extract"}, ~crossed
        PROVE  (\A i \in Indices : boxes[i] = NoBox) /\ (~row.stamped \/ blind)
    <3>1. CASE p = b
      <4>1. c = "extract"
        BY <2>2, <3>1 DEF IInv, TypeOK, Actors, BatchCommands
      <4>2. ~row.stamped
        BY <4>1 DEF Selects
      <4> QED
        BY <4>2 DEF IInv, FirstExtraction
    <3>2. CASE p # b
      BY <2>2, <3>2 DEF IInv, TypeOK, FirstExtraction, Actors
    <3> QED
      BY <3>1, <3>2
  <2> QED
    BY <2>1, <2>2 DEF IInv, FirstExtraction
<1>7. IdTellsText'
  <2>1. \A p \in Actors : mem'[p] = mem[p] \/ mem'[p] = boxes
    BY DEF IInv, TypeOK
  <2> QED
    BY <2>1, MemoryOfBoxes DEF IInv
<1>8. OneExtraction' /\ VectorOfItsText'
  BY DEF IInv, OneExtraction, VectorOfItsText
<1>5. AskedIsDue' /\ TaggedIsNamed' /\ VerdictWasDue'
  <2>1. Due' <=> Due
    BY DEF Due, HasBoxes
  <2>2. AskedIsDue'
    <3> SUFFICES ASSUME NEW p \in Actors, pc'[p] = "asked", task'[p] \in JudgingTasks, ~redone'
                 PROVE  Due
      BY <2>1 DEF AskedIsDue
    <3>1. p # b
      BY DEF IInv, TypeOK, JudgingTasks, Actors, BatchCommands
    <3> QED
      BY <3>1 DEF IInv, TypeOK, AskedIsDue, Actors
  <2>3. TaggedIsNamed'
    BY DEF IInv, TaggedIsNamed
  <2>4. VerdictWasDue'
    BY DEF IInv, VerdictWasDue, HasBoxes
  <2> QED
    BY <2>2, <2>3, <2>4
<1>6. StagesBehind'
  BY StageNames DEF IInv, TypeOK, ServiceAtStage, StagesBehind, Behind, Due, HasBoxes, Actors
<1> QED
  BY <1>1, <1>2, <1>3, <1>4, <1>5, <1>6, <1>7, <1>8 DEF IInv

LEMMA BatchEndsIInv ==
  ASSUME IInv, NEW b \in Batches, BatchEnds(b)
  PROVE  IInv'
<1> USE StagesAssumption DEF AtWork, BatchEnds, Stops, Goes, Takes, job, data, tale, Done
<1>1. TypeOK'
  BY NothingRead DEF IInv, TypeOK, ServiceAtStage, Actors
<1>2. BatchTasks'
  BY DEF IInv, TypeOK, BatchTasks, Actors
<1>3. ServiceAtStage'
  BY DEF IInv, TypeOK, ServiceAtStage, Actors
<1>4. FirstExtraction' /\ OneExtraction' /\ VectorOfItsText'
  BY DEF IInv, TypeOK, FirstExtraction, OneExtraction, VectorOfItsText, Actors
<1>5. IdTellsText'
  BY NothingRead DEF IInv, TypeOK, IdTellsText, Actors
<1>6. AskedIsDue' /\ TaggedIsNamed' /\ VerdictWasDue'
  BY DEF IInv, TypeOK, AskedIsDue, TaggedIsNamed, VerdictWasDue, Due, HasBoxes
<1>7. StagesBehind'
  BY DEF IInv, StagesBehind, Behind, Due, HasBoxes
<1> QED
  BY <1>1, <1>2, <1>3, <1>4, <1>5, <1>6, <1>7 DEF IInv

(* An idle actor's memory is no younger than any box. *)
LEMMA NothingKnown ==
  ASSUME TypeOK, NEW i \in Indices, NEW n \in Nat, NEW b
  PROVE  /\ NoBoxes[i].id <= NoBoxes[i].text /\ NoBoxes[i].text <= n
         /\ NoBoxes[i].id # 0 /\ NoBoxes[i].id = b.id => NoBoxes[i].text <= b.text
BY NothingRead

(* Who writes a column leaves the boxes and what is known of them alone. *)
LEMMA BoxesStand ==
  ASSUME IInv, NEW p \in Actors, Ends(p), UNCHANGED <<boxes, texts, crossed>>,
         row'.stamped = row.stamped, blind => blind'
  PROVE  FirstExtraction' /\ IdTellsText' /\ OneExtraction' /\ VectorOfItsText'
<1> USE EndsEffect
<1>1. TypeOK
  BY DEF IInv
<1>2. FirstExtraction'
  BY <1>1 DEF IInv, FirstExtraction
<1>3. IdTellsText'
  <2>1. \A q \in Actors : mem'[q] = mem[q] \/ mem'[q] = NoBoxes
    BY <1>1
  <2>2. texts \in Nat
    BY <1>1, StagesAssumption DEF TypeOK
  <2>3. ASSUME NEW i \in Indices, NEW q \in Actors
        PROVE  /\ mem'[q][i].id <= mem'[q][i].text /\ mem'[q][i].text <= texts
               /\ mem'[q][i].id # 0 /\ mem'[q][i].id = boxes[i].id => mem'[q][i].text <= boxes[i].text
    <3>1. CASE mem'[q] = mem[q]
      BY <3>1 DEF IInv, IdTellsText
    <3>2. CASE mem'[q] = NoBoxes
      BY <1>1, <2>2, <3>2, NothingKnown
    <3> QED
      BY <2>1, <3>1, <3>2
  <2> QED
    BY <2>3 DEF IInv, IdTellsText
<1>4. OneExtraction' /\ VectorOfItsText'
  BY DEF IInv, OneExtraction, VectorOfItsText
<1> QED
  BY <1>2, <1>3, <1>4

(* Nor does it take back the reasons of a verdict, if they still hold. *)
LEMMA ReasonsStand ==
  ASSUME IInv, NEW p \in Actors, Ends(p), redone => redone', ~redone' /\ Due => Due'
  PROVE  AskedIsDue'
<1>1. TypeOK
  BY DEF IInv
<1> QED
  BY <1>1, EndsEffect DEF IInv, AskedIsDue

(* The stages behind are behind already, but for the one that returns now. *)
LEMMA NewlyBehind ==
  ASSUME IInv, NEW p \in Actors, Ends(p), UNCHANGED job, pc[p] # "idle", blind => blind',
         NEW s \in 1..6, Behind(s)'
  PROVE  Behind(s) \/ (~blind /\ s = stage /\ p = "service" /\ task[p] = StageName[s])
<1>1. TypeOK
  BY DEF IInv
<1> QED
  BY <1>1, EndsEffect DEF IInv, ServiceAtStage, Behind, job, Actors

LEMMA WritePageIInv ==
  ASSUME IInv, NEW p \in Actors, WritePage(p)
  PROVE  IInv'
<1> USE StagesAssumption DEF AtWork, job, data, tale, Done
<1>0. /\ TypeOK /\ pc[p] = "asked" /\ task[p] \in {"scrape", "rescrape"}
      /\ page' \in {"ok", "empty", "error"}
      /\ UNCHANGED <<job, row, boxes, verdict, named, texts, tale>>
      /\ Ends(p) \/ (/\ p = "service" /\ UNCHANGED <<mem, task>>
                     /\ pc' = [pc EXCEPT ![p] = IF page' = "empty" THEN "blank" ELSE "refused"])
  BY DEF IInv, WritePage, Goes
<1>1. CASE Ends(p)
  <2>1. TypeOK'
    BY <1>0, <1>1, EndsEffect DEF TypeOK
  <2>2. BatchTasks' /\ ServiceAtStage'
    BY <1>0, <1>1, EndsKeeps
  <2>3. FirstExtraction' /\ IdTellsText' /\ OneExtraction' /\ VectorOfItsText'
    BY <1>0, <1>1, BoxesStand
  <2>4. Due' <=> Due
    BY <1>0 DEF Due, HasBoxes
  <2>5. AskedIsDue' /\ TaggedIsNamed' /\ VerdictWasDue'
    BY <1>0, <1>1, <2>4, ReasonsStand DEF IInv, TaggedIsNamed, VerdictWasDue, HasBoxes
  <2>6. \A s \in 2..6 : Behind(s)' => Behind(s)
    BY <1>0, <1>1, NewlyBehind, StageNames
  <2>7. pc'["service"] \in {"boxed", "vectors"} => pc["service"] \in {"boxed", "vectors"}
    BY <1>0, <1>1, EndsEffect DEF Actors
  <2>8. StagesBehind'
    BY <1>0, <2>4, <2>6, <2>7 DEF IInv, StagesBehind
  <2> QED
    BY <2>1, <2>2, <2>3, <2>5, <2>8 DEF IInv
<1>2. CASE p = "service" /\ UNCHANGED <<mem, task>>
           /\ pc' = [pc EXCEPT ![p] = IF page' = "empty" THEN "blank" ELSE "refused"]
  <2>0. pc'[p] \in {"blank", "refused"} /\ \A q \in Actors : q # p => pc'[q] = pc[q]
    BY <1>0, <1>2 DEF TypeOK
  <2>1. TypeOK'
    BY <1>0, <1>2 DEF TypeOK, AtWork
  <2>2. BatchTasks'
    BY <1>2 DEF IInv, BatchTasks
  <2>3. ServiceAtStage'
    <3>1. "rescrape" \notin {StageName[s] : s \in 1..6} /\ stage \in 1..6
      BY <1>0, <1>2, StageNames DEF IInv, TypeOK, ServiceAtStage
    <3>2. stage = 1
      BY <1>0, <1>2, <3>1, StageNames DEF IInv, ServiceAtStage
    <3> QED
      BY <1>0, <1>2, <2>0, <3>2 DEF IInv, ServiceAtStage
  <2>4. FirstExtraction'
    BY <1>0, <2>0, <1>2 DEF IInv, FirstExtraction
  <2>5. IdTellsText' /\ OneExtraction' /\ VectorOfItsText'
    BY <1>0, <1>2 DEF IInv, IdTellsText, OneExtraction, VectorOfItsText
  <2>6. AskedIsDue' /\ TaggedIsNamed' /\ VerdictWasDue'
    BY <1>0, <1>2, <2>0 DEF IInv, AskedIsDue, TaggedIsNamed, VerdictWasDue, Due, HasBoxes
  <2>7. StagesBehind'
    BY <1>0, <1>2, <2>0 DEF IInv, StagesBehind, Behind, Due, HasBoxes
  <2> QED
    BY <2>1, <2>2, <2>3, <2>4, <2>5, <2>6, <2>7 DEF IInv
<1> QED
  BY <1>0, <1>1, <1>2

LEMMA WriteEmbeddingIInv ==
  ASSUME IInv, NEW p \in Actors, WriteEmbedding(p)
  PROVE  IInv'
<1> USE StagesAssumption DEF AtWork, job, data, tale, Done
<1>0. /\ TypeOK /\ pc[p] = "asked" /\ task[p] \in {"embed", "reembed"} /\ Ends(p)
      /\ row' = [row EXCEPT !.embedding = TRUE]
      /\ UNCHANGED <<job, page, boxes, verdict, named, texts, tale>>
  BY DEF IInv, WriteEmbedding
<1>1. /\ row' \in [embedding : BOOLEAN, label : Labels, ticker : BOOLEAN, stamped : BOOLEAN]
      /\ row'.embedding /\ row'.label = row.label /\ row'.ticker = row.ticker
      /\ row'.stamped = row.stamped
  BY <1>0 DEF TypeOK
<1>2. TypeOK'
  BY <1>0, <1>1, EndsEffect DEF TypeOK
<1>3. BatchTasks' /\ ServiceAtStage'
  BY <1>0, EndsKeeps
<1>4. FirstExtraction' /\ IdTellsText' /\ OneExtraction' /\ VectorOfItsText'
  BY <1>0, <1>1, BoxesStand
<1>5. Due' <=> Due
  BY <1>0, <1>1 DEF Due, HasBoxes
<1>6. AskedIsDue' /\ TaggedIsNamed' /\ VerdictWasDue'
  BY <1>0, <1>1, <1>5, ReasonsStand DEF IInv, TaggedIsNamed, VerdictWasDue, HasBoxes
<1>7. \A s \in 3..6 : Behind(s)' => Behind(s)
  BY <1>0, NewlyBehind, StageNames
<1>8. pc'["service"] \in {"boxed", "vectors"} => pc["service"] \in {"boxed", "vectors"}
  BY <1>0, EndsEffect DEF Actors
<1>9. StagesBehind'
  BY <1>0, <1>1, <1>5, <1>7, <1>8 DEF IInv, StagesBehind
<1> QED
  BY <1>2, <1>3, <1>4, <1>6, <1>9 DEF IInv

LEMMA WriteLabelIInv ==
  ASSUME IInv, NEW p \in Actors, WriteLabel(p)
  PROVE  IInv'
<1> USE StagesAssumption DEF AtWork, job, data, tale, Done
<1>1. PICK l \in {"act", "no_act"} :
        /\ row' = [row EXCEPT !.label = l]
        /\ redone' = (redone \/ row.label \notin {"none", l})
  BY Zenon DEF WriteLabel
<1>0. /\ TypeOK /\ pc[p] = "asked" /\ task[p] \in {"classify", "reclassify"} /\ Ends(p)
      /\ UNCHANGED <<job, page, boxes, verdict, named, texts, crossed, blind>>
  BY Zenon DEF IInv, WriteLabel
<1>2. /\ row'.label = l /\ l \in Labels /\ l # "none"
      /\ row'.embedding = row.embedding /\ row'.ticker = row.ticker /\ row'.stamped = row.stamped
      /\ row' \in [embedding : BOOLEAN, label : Labels, ticker : BOOLEAN, stamped : BOOLEAN]
      /\ redone' \in BOOLEAN
  BY <1>0, <1>1 DEF TypeOK, Labels
<1>3. ~redone' => ~redone /\ row.label \in {"none", l}
  BY <1>0, <1>1 DEF TypeOK
<1>4. ~redone' /\ Due => Due'
  <2> SUFFICES ASSUME ~redone', Due PROVE Due'
    OBVIOUS
  <2>1. row.label = row'.label
    BY <1>2, <1>3 DEF Due, Actionable
  <2> QED
    BY <1>0, <1>2, <2>1 DEF Due, HasBoxes
<1>5. TypeOK'
  BY <1>0, <1>2, EndsEffect DEF TypeOK
<1>6. BatchTasks' /\ ServiceAtStage'
  BY <1>0, EndsKeeps
<1>8. FirstExtraction' /\ IdTellsText' /\ OneExtraction' /\ VectorOfItsText'
  BY <1>0, <1>2, BoxesStand
<1>9. AskedIsDue'
  BY <1>0, <1>3, <1>4, ReasonsStand
<1>10. TaggedIsNamed'
  BY <1>0, <1>2 DEF IInv, TaggedIsNamed
<1>11. VerdictWasDue'
  BY <1>0, <1>3, <1>4 DEF IInv, VerdictWasDue, Due
<1>12. StagesBehind'
  <2>1. \A s \in {2, 4, 5, 6} : Behind(s)' => Behind(s)
    BY <1>0, NewlyBehind, StageNames
  <2>2. Behind(6) => Behind(3)
    BY <1>0 DEF Behind, TypeOK
  <2>3. Behind(6)' /\ ~redone' => row'.label = row.label /\ ~redone
    BY <1>2, <1>3, <2>1, <2>2 DEF IInv, StagesBehind
  <2>4. Behind(6)' => (~redone' /\ ~crossed' /\ Due' => verdict' # "none")
    BY <1>0, <1>2, <2>1, <2>3 DEF IInv, StagesBehind, Due, HasBoxes
  <2>5. pc'["service"] \in {"boxed", "vectors"} => pc["service"] \in {"boxed", "vectors"}
    BY <1>0, EndsEffect DEF Actors
  <2> QED
    BY <1>0, <1>2, <2>1, <2>4, <2>5 DEF IInv, StagesBehind
<1> QED
  BY <1>5, <1>6, <1>8, <1>9, <1>10, <1>11, <1>12 DEF IInv

LEMMA WriteTagsIInv ==
  ASSUME IInv, NEW p \in Actors, WriteTags(p)
  PROVE  IInv'
<1> USE StagesAssumption DEF AtWork, job, data, tale, Done
<1>0. /\ TypeOK /\ pc[p] = "asked" /\ task[p] \in {"tag", "retag"} /\ Ends(p)
      /\ row' = [row EXCEPT !.ticker = named]
      /\ UNCHANGED <<job, page, boxes, verdict, named, texts, tale>>
  BY DEF IInv, WriteTags
<1>1. /\ row' \in [embedding : BOOLEAN, label : Labels, ticker : BOOLEAN, stamped : BOOLEAN]
      /\ row'.embedding = row.embedding /\ row'.label = row.label /\ row'.ticker = named
      /\ row'.stamped = row.stamped
  BY <1>0 DEF TypeOK
<1>2. TypeOK'
  BY <1>0, <1>1, EndsEffect DEF TypeOK
<1>3. BatchTasks' /\ ServiceAtStage'
  BY <1>0, EndsKeeps
<1>4. FirstExtraction' /\ IdTellsText' /\ OneExtraction' /\ VectorOfItsText'
  BY <1>0, <1>1, BoxesStand
<1>5. Due => Due'
  BY <1>0, <1>1 DEF IInv, Due, HasBoxes, TaggedIsNamed
<1>6. AskedIsDue' /\ TaggedIsNamed' /\ VerdictWasDue'
  BY <1>0, <1>1, <1>5, ReasonsStand DEF IInv, TaggedIsNamed, VerdictWasDue, Due
<1>7. \A s \in {2, 3, 5, 6} : Behind(s)' => Behind(s)
  BY <1>0, NewlyBehind, StageNames
<1>8. pc'["service"] \in {"boxed", "vectors"} => pc["service"] \in {"boxed", "vectors"}
  BY <1>0, EndsEffect DEF Actors
<1>9. StagesBehind'
  <2>1. Behind(6) => Behind(4)
    BY <1>0 DEF Behind, TypeOK
  <2>2. Behind(6)' => (Due' <=> Due)
    BY <1>0, <1>1, <1>7, <2>1 DEF IInv, StagesBehind, Due, HasBoxes
  <2> QED
    BY <1>0, <1>1, <1>7, <1>8, <2>2 DEF IInv, StagesBehind
<1> QED
  BY <1>2, <1>3, <1>4, <1>6, <1>9 DEF IInv

LEMMA StoreBoxesIInv ==
  ASSUME IInv, NEW p \in Actors, StoreBoxes(p)
  PROVE  IInv'
<1> USE StagesAssumption DEF AtWork, job, data, tale, Done
<1>0. /\ TypeOK /\ pc[p] = "asked" /\ task[p] \in {"insights", "extract", "reextract"}
      /\ row' = [row EXCEPT !.stamped = TRUE]
      /\ redone' = (redone \/ task[p] = "reextract") /\ crossed' = (crossed \/ Overtaken(p))
      /\ texts < MaxTexts /\ texts' = texts + 1
      /\ UNCHANGED <<job, page, verdict, named, blind>>
  BY DEF IInv, StoreBoxes
<1>1. /\ row'.stamped /\ row'.embedding = row.embedding /\ row'.label = row.label
      /\ row'.ticker = row.ticker
      /\ row' \in [embedding : BOOLEAN, label : Labels, ticker : BOOLEAN, stamped : BOOLEAN]
      /\ redone' \in BOOLEAN /\ crossed' \in BOOLEAN /\ (crossed => crossed')
  BY <1>0 DEF TypeOK, Overtaken
<1>14. texts \in Nat /\ texts' = texts + 1 /\ texts' \in 0..MaxTexts
  BY <1>0 DEF TypeOK
<1>2. PICK n \in 0..MaxBoxes : boxes' = Stored(n, task[p] = "reextract")
  BY Zenon DEF StoreBoxes
(* The writer goes on to the vectors, or ends; nobody else moves. *)
<1>15. /\ pc' \in [Actors -> AtWork \cup {"idle", "blank", "returned"}]
       /\ task' \in [Actors -> Commands \cup {"none"} \cup {StageName[s] : s \in 1..6}]
       /\ mem' \in [Actors -> [Indices -> BoxType]]
       /\ \A q \in Actors \ {p} : pc'[q] = pc[q] /\ task'[q] = task[q] /\ mem'[q] = mem[q]
       /\ p = "service" => pc'[p] = "boxed" /\ task'[p] = task[p] /\ mem'[p] = mem[p]
       /\ p # "service" => pc'[p] = "idle" /\ task'[p] = "none" /\ mem'[p] = NoBoxes
  <2>1. CASE p = "service"
    <3>1. pc' = [pc EXCEPT ![p] = "boxed"] /\ UNCHANGED <<mem, task>>
      BY <2>1 DEF StoreBoxes, Goes
    <3> QED
      BY <1>0, <2>1, <3>1 DEF TypeOK
  <2>2. CASE p # "service"
    <3>1. Ends(p)
      BY <2>2 DEF StoreBoxes, Ends
    <3> QED
      BY <1>0, <2>2, <3>1, EndsEffect
  <2> QED
    BY <2>1, <2>2
<1>3. task[p] # "reextract" => crossed \/ ((\A i \in Indices : boxes[i] = NoBox) /\ (~row.stamped \/ blind))
  BY <1>0 DEF IInv, FirstExtraction
<1>4. \A i \in Indices :
        \/ i <= n /\ boxes'[i] = [id |-> texts', text |-> texts', vec |-> 0]
        \/ i > n /\ boxes'[i] = NoBox /\ (task[p] = "reextract" \/ boxes[i] = NoBox)
        \/ /\ task[p] # "reextract" /\ crossed
           /\ \/ i <= n /\ boxes'[i] = [id |-> boxes[i].id, text |-> texts', vec |-> 0]
                        /\ boxes[i].id # 0
              \/ i > n /\ boxes'[i] = boxes[i]
  <2>1. \A i \in Indices : i \in Nat
    BY DEF Indices
  <2>2. NoBox.id = 0
    BY DEF NoBox
  <2> QED
    BY <1>2, <1>3, <1>14, <2>1, <2>2 DEF Stored
<1>16. \A i \in Indices : /\ boxes[i] \in BoxType /\ boxes'[i] \in BoxType
                          /\ boxes[i].id \in Nat /\ boxes[i].text \in Nat
                          /\ boxes'[i].id \in Nat /\ boxes'[i].text \in Nat
  <2>1. NoBox \in BoxType /\ [id |-> texts', text |-> texts', vec |-> 0] \in BoxType
    BY <1>14 DEF NoBox, BoxType
  <2>2. \A i \in Indices : boxes[i] \in BoxType
    BY <1>0 DEF TypeOK
  <2>3. \A i \in Indices : [id |-> boxes[i].id, text |-> texts', vec |-> 0] \in BoxType
    BY <2>2, <1>14 DEF BoxType
  <2>4. \A i \in Indices : boxes'[i] \in BoxType
    BY <1>4, <2>1, <2>2, <2>3
  <2> QED
    BY <2>2, <2>4 DEF BoxType
<1>18. \A i \in Indices :
        \/ /\ i <= n
           /\ boxes'[i].id = texts' /\ boxes'[i].text = texts' /\ boxes'[i].vec = 0
        \/ /\ i > n
           /\ boxes'[i].id = 0 /\ boxes'[i].text = 0 /\ boxes'[i].vec = 0
           /\ task[p] = "reextract" \/ boxes[i].id = 0
        \/ /\ task[p] # "reextract" /\ crossed /\ i <= n /\ boxes[i].id # 0
           /\ boxes'[i].id = boxes[i].id /\ boxes'[i].text = texts' /\ boxes'[i].vec = 0
        \/ /\ task[p] # "reextract" /\ crossed /\ i > n
           /\ boxes'[i].id = boxes[i].id /\ boxes'[i].text = boxes[i].text
           /\ boxes'[i].vec = boxes[i].vec
  <2> SUFFICES ASSUME NEW i \in Indices PROVE
        \/ /\ i <= n
           /\ boxes'[i].id = texts' /\ boxes'[i].text = texts' /\ boxes'[i].vec = 0
        \/ /\ i > n
           /\ boxes'[i].id = 0 /\ boxes'[i].text = 0 /\ boxes'[i].vec = 0
           /\ task[p] = "reextract" \/ boxes[i].id = 0
        \/ /\ task[p] # "reextract" /\ crossed /\ i <= n /\ boxes[i].id # 0
           /\ boxes'[i].id = boxes[i].id /\ boxes'[i].text = texts' /\ boxes'[i].vec = 0
        \/ /\ task[p] # "reextract" /\ crossed /\ i > n
           /\ boxes'[i].id = boxes[i].id /\ boxes'[i].text = boxes[i].text
           /\ boxes'[i].vec = boxes[i].vec
    OBVIOUS
  <2>1. CASE i <= n /\ boxes'[i] = [id |-> texts', text |-> texts', vec |-> 0]
    BY <2>1
  <2>2. CASE i > n /\ boxes'[i] = NoBox /\ (task[p] = "reextract" \/ boxes[i] = NoBox)
    BY <2>2 DEF NoBox
  <2>3. CASE /\ task[p] # "reextract" /\ crossed /\ i <= n /\ boxes[i].id # 0
             /\ boxes'[i] = [id |-> boxes[i].id, text |-> texts', vec |-> 0]
    BY <2>3
  <2>4. CASE task[p] # "reextract" /\ crossed /\ i > n /\ boxes'[i] = boxes[i]
    BY <2>4
  <2> QED
    BY <1>4, <2>1, <2>2, <2>3, <2>4
<1>19. texts \in Nat /\ texts' \in Nat /\ texts' > texts /\ texts' # 0 /\ \A i \in Indices : i \in Nat
  BY <1>14 DEF Indices
<1>5. boxes' \in [Indices -> BoxType]
  <2>1. boxes' = [i \in Indices |-> boxes'[i]]
    BY <1>2 DEF Stored
  <2> QED
    BY <1>16, <2>1
<1>6. TypeOK'
  BY <1>0, <1>1, <1>5, <1>14, <1>15 DEF TypeOK
<1>7. BatchTasks'
  BY <1>15 DEF IInv, BatchTasks, Actors
<1>8. ServiceAtStage'
  <2>1. p = "service" => stage = 5
    <3>1. "extract" \notin {StageName[s] : s \in 1..6} /\ "reextract" \notin {StageName[s] : s \in 1..6}
      BY StageNames
    <3>2. p = "service" => stage \in 1..6 /\ task[p] = StageName[stage]
      BY <1>0 DEF IInv, TypeOK, ServiceAtStage
    <3> QED
      BY <1>0, <3>1, <3>2, StageNames
  <2> QED
    BY <1>0, <1>15, <2>1 DEF IInv, ServiceAtStage, Actors
<1>9. FirstExtraction'
  <2> SUFFICES ASSUME NEW q \in Actors, pc'[q] = "asked", task'[q] \in {"insights", "extract"}
               PROVE  crossed'
    BY <1>1 DEF FirstExtraction
  <2>1. q # p /\ pc[q] = "asked" /\ task[q] \in {"insights", "extract"}
    BY <1>15
  <2> QED
    BY <1>0, <2>1 DEF Overtaken
<1>10. IdTellsText'
  <2>1. ASSUME NEW i \in Indices
        PROVE  /\ boxes'[i].id <= boxes'[i].text /\ boxes'[i].text <= texts'
               /\ ~crossed' => boxes'[i].id = boxes'[i].text
    <3>1. boxes[i].id <= boxes[i].text /\ boxes[i].text <= texts
      BY DEF IInv, IdTellsText
    <3> QED
      BY <1>1, <1>16, <1>18, <1>19, <3>1
  <2>2. ASSUME NEW i \in Indices, NEW q \in Actors
        PROVE  /\ mem'[q][i].id <= mem'[q][i].text /\ mem'[q][i].text <= texts'
               /\ mem'[q][i].id # 0 /\ mem'[q][i].id = boxes'[i].id => mem'[q][i].text <= boxes'[i].text
    <3>1. CASE mem'[q] = NoBoxes
      BY <3>1, <1>14, NothingRead
    <3>2. CASE mem'[q] = mem[q]
      <4>1. /\ mem[q][i] \in BoxType /\ mem[q][i].id <= mem[q][i].text /\ mem[q][i].text <= texts
            /\ mem[q][i].id # 0 /\ mem[q][i].id = boxes[i].id => mem[q][i].text <= boxes[i].text
        BY <1>0 DEF IInv, TypeOK, IdTellsText
      <4>2. mem[q][i].id \in Nat /\ mem[q][i].text \in Nat
        BY <4>1 DEF BoxType
      <4>3. mem[q][i].id # texts'
        BY <1>14, <4>1, <4>2
      <4> QED
        BY <1>16, <1>18, <1>19, <3>2, <4>1, <4>2, <4>3
    <3> QED
      BY <1>15, <3>1, <3>2
  <2> QED
    BY <2>1, <2>2 DEF IdTellsText
<1>17. OneExtraction' /\ VectorOfItsText'
  <2>1. \A i \in Indices : i \in Nat /\ boxes[i].text <= texts
    BY DEF Indices, IInv, IdTellsText
  <2>2. OneExtraction'
    <3> SUFFICES ASSUME NEW i \in Indices, NEW j \in Indices, i < j, boxes'[j].id # 0
                 PROVE  /\ boxes'[i].id # 0
                        /\ \/ boxes'[i].text = boxes'[j].text
                           \/ crossed' /\ boxes'[i].text > boxes'[j].text
      BY DEF OneExtraction
    <3>2. CASE j <= n
      <4>1. i <= n
        BY <2>1, <3>2
      <4> QED
        BY <1>18, <1>19, <3>2, <4>1
    <3>3. CASE j > n
      <4>1. /\ crossed /\ task[p] # "reextract"
            /\ boxes'[j].id = boxes[j].id /\ boxes'[j].text = boxes[j].text
        BY <1>18, <1>19, <3>3
      <4>2. CASE i <= n
        BY <1>1, <1>16, <1>18, <1>19, <2>1, <4>1, <4>2
      <4>3. CASE i > n
        <5>1. boxes[i].id # 0
          BY <4>1 DEF IInv, OneExtraction
        <5>2. boxes'[i].id = boxes[i].id /\ boxes'[i].text = boxes[i].text
          BY <1>18, <1>19, <4>1, <4>3, <5>1
        <5> QED
          BY <1>1, <4>1, <5>2 DEF IInv, OneExtraction
      <4> QED
        BY <2>1, <4>2, <4>3
    <3> QED
      BY <2>1, <3>2, <3>3
  <2>3. VectorOfItsText'
    BY <1>1, <1>18 DEF IInv, VectorOfItsText
  <2> QED
    BY <2>2, <2>3
<1>11. Due /\ ~redone' => Due' /\ ~redone
  <2> SUFFICES ASSUME Due, ~redone' PROVE HasBoxes'
    BY <1>0, <1>1 DEF Due
  <2>1. PICK i \in Indices : boxes[i].id # 0
    BY DEF Due, HasBoxes
  <2>2. boxes'[i].id # 0
    BY <1>0, <1>18, <1>19, <2>1
  <2> QED
    BY <2>2 DEF HasBoxes
<1>12. AskedIsDue' /\ TaggedIsNamed' /\ VerdictWasDue'
  <2>1. AskedIsDue'
    BY <1>0, <1>11, <1>15 DEF IInv, AskedIsDue
  <2>2. TaggedIsNamed'
    BY <1>0, <1>1 DEF IInv, TaggedIsNamed
  <2>3. VerdictWasDue'
    BY <1>0, <1>11 DEF IInv, VerdictWasDue, Due
  <2> QED
    BY <2>1, <2>2, <2>3
<1>13. StagesBehind'
  <2>1. \A s \in {2, 3, 4, 5, 6} : Behind(s)' => Behind(s)
    BY <1>0, <1>15 DEF Behind, Actors
  <2>2. Behind(6) => Behind(5)
    BY <1>0 DEF Behind, TypeOK
  <2>3. Behind(6)' => redone' \/ crossed'
    BY <1>0, <1>1, <1>3, <2>1, <2>2 DEF IInv, StagesBehind, Behind
  <2> QED
    BY <1>0, <1>1, <2>1, <2>3 DEF IInv, StagesBehind
<1> QED
  BY <1>6, <1>7, <1>8, <1>9, <1>10, <1>12, <1>13, <1>17 DEF IInv

LEMMA StoreVectorsIInv ==
  ASSUME IInv, NEW p \in Actors, StoreVectors(p)
  PROVE  IInv'
<1> USE StagesAssumption DEF AtWork, job, data, tale, Done
<1>0. /\ TypeOK /\ pc[p] = "vectors" /\ Ends(p)
      /\ UNCHANGED <<job, page, row, verdict, named, texts, tale>>
      /\ boxes' = [i \in Indices |->
                     IF mem[p][i].id # 0 /\ mem[p][i].vec = 0 /\ boxes[i].id = mem[p][i].id
                     THEN [boxes[i] EXCEPT !.vec = mem[p][i].text] ELSE boxes[i]]
  BY DEF IInv, StoreVectors
<1>1. \A i \in Indices : /\ mem[p][i] \in BoxType /\ boxes[i] \in BoxType
                         /\ mem[p][i].id \in Nat /\ mem[p][i].text \in Nat
                         /\ boxes[i].id \in Nat /\ boxes[i].text \in Nat
  <2>1. \A i \in Indices : mem[p][i] \in BoxType /\ boxes[i] \in BoxType
    BY <1>0 DEF TypeOK
  <2> QED
    BY <2>1 DEF BoxType
<1>2. \A i \in Indices :
        /\ boxes'[i] \in BoxType
        /\ boxes'[i].id = boxes[i].id /\ boxes'[i].text = boxes[i].text
        /\ \/ boxes'[i].vec = boxes[i].vec
           \/ /\ boxes'[i].vec = mem[p][i].text
              /\ mem[p][i].id # 0 /\ boxes[i].id = mem[p][i].id
        /\ boxes[i] = NoBox => boxes'[i] = NoBox
  BY <1>0, <1>1 DEF BoxType, NoBox
<1>3. boxes' \in [Indices -> BoxType]
  BY <1>0, <1>2
<1>4. TypeOK'
  BY <1>0, <1>3, EndsEffect DEF TypeOK
<1>5. BatchTasks' /\ ServiceAtStage'
  BY <1>0, EndsKeeps
<1>6. FirstExtraction'
  BY <1>0, <1>2, EndsEffect DEF IInv, FirstExtraction
<1>7. IdTellsText'
  <2>1. \A q \in Actors : mem'[q] = mem[q] \/ mem'[q] = NoBoxes
    BY <1>0, EndsEffect
  <2>2. texts \in Nat
    BY <1>0 DEF TypeOK
  <2>3. ASSUME NEW i \in Indices, NEW q \in Actors
        PROVE  /\ mem'[q][i].id <= mem'[q][i].text /\ mem'[q][i].text <= texts
               /\ mem'[q][i].id # 0 /\ mem'[q][i].id = boxes'[i].id
                    => mem'[q][i].text <= boxes'[i].text
    <3>1. CASE mem'[q] = mem[q]
      BY <1>2, <3>1 DEF IInv, IdTellsText
    <3>2. CASE mem'[q] = NoBoxes
      BY <1>0, <2>2, <3>2, NothingKnown
    <3> QED
      BY <2>1, <3>1, <3>2
  <2> QED
    BY <1>0, <1>2, <2>3 DEF IInv, IdTellsText
<1>8. OneExtraction'
  BY <1>0, <1>2 DEF IInv, OneExtraction
<1>9. VectorOfItsText'
  <2> SUFFICES ASSUME NEW i \in Indices, boxes'[i].vec # boxes[i].vec
               PROVE  boxes'[i].vec = boxes'[i].text \/ (crossed' /\ boxes'[i].id # boxes'[i].text)
    BY <1>0, <1>2 DEF IInv, VectorOfItsText
  <2>1. /\ boxes'[i].vec = mem[p][i].text /\ mem[p][i].id # 0 /\ boxes[i].id = mem[p][i].id
        /\ mem[p][i].id <= mem[p][i].text /\ mem[p][i].text <= boxes[i].text
        /\ ~crossed => boxes[i].id = boxes[i].text
    BY <1>2 DEF IInv, IdTellsText
  <2> QED
    BY <1>0, <1>1, <1>2, <2>1
<1>10. HasBoxes' <=> HasBoxes
  BY <1>2 DEF HasBoxes
<1>11. AskedIsDue' /\ TaggedIsNamed' /\ VerdictWasDue'
  BY <1>0, <1>10, ReasonsStand DEF IInv, TaggedIsNamed, VerdictWasDue, Due
<1>12. \A s \in {2, 3, 4, 6} : Behind(s)' => Behind(s)
  BY <1>0 , EndsEffect DEF IInv, TypeOK, ServiceAtStage, Behind, Actors
<1>13. StagesBehind'
  <2>1. Behind(5)' => Behind(5) \/ row.stamped
    BY <1>0, EndsEffect DEF IInv, StagesBehind, Behind, Actors
  <2>2. pc'["service"] \in {"boxed", "vectors"} => pc["service"] \in {"boxed", "vectors"}
    BY <1>0, EndsEffect DEF Actors
  <2> QED
    BY <1>0, <1>10, <1>12, <2>1, <2>2 DEF IInv, StagesBehind, Due
<1> QED
  BY <1>4, <1>5, <1>6, <1>7, <1>8, <1>9, <1>11, <1>13 DEF IInv

LEMMA SkipVerdictIInv ==
  ASSUME IInv, NEW p \in Actors, SkipVerdict(p)
  PROVE  IInv'
<1> USE StagesAssumption DEF AtWork, job, data, tale, Done
<1>0. /\ TypeOK /\ pc[p] = "begun" /\ task[p] \in {"sentiment", "judge", "rejudge"} /\ Ends(p)
      /\ ~WorthJudging /\ blind' = (blind \/ (p = "service" /\ page # "ok"))
      /\ UNCHANGED <<job, page, row, boxes, verdict, named, texts, redone, crossed>>
  BY DEF IInv, SkipVerdict, Judging
<1>1. blind' \in BOOLEAN /\ (blind => blind')
  BY <1>0 DEF TypeOK
<1>2. TypeOK'
  BY <1>0, <1>1, EndsEffect DEF TypeOK
<1>3. BatchTasks' /\ ServiceAtStage'
  BY <1>0, EndsKeeps
<1>4. FirstExtraction' /\ IdTellsText' /\ OneExtraction' /\ VectorOfItsText'
  BY <1>0, <1>1, BoxesStand
<1>5. Due' <=> Due
  BY <1>0 DEF Due, HasBoxes
<1>6. AskedIsDue' /\ TaggedIsNamed' /\ VerdictWasDue'
  BY <1>0, <1>5, ReasonsStand DEF IInv, TaggedIsNamed, VerdictWasDue, HasBoxes
<1>7. \A s \in 2..5 : Behind(s)' => Behind(s)
  BY <1>0, <1>1, NewlyBehind, StageNames
<1>8. Behind(6)' => Behind(6) \/ (Due => verdict # "none")
  <2>1. Behind(6)' => ~blind' /\ (Behind(6) \/ p = "service")
    BY <1>0, <1>1, NewlyBehind DEF Behind
  <2> QED
    BY <1>0, <2>1 DEF WorthJudging, Due
<1>9. pc'["service"] \in {"boxed", "vectors"} => pc["service"] \in {"boxed", "vectors"}
  BY <1>0, EndsEffect DEF Actors
<1>10. StagesBehind'
  BY <1>0, <1>5, <1>7, <1>8, <1>9 DEF IInv, StagesBehind
<1> QED
  BY <1>2, <1>3, <1>4, <1>6, <1>10 DEF IInv

LEMMA AskPanelIInv ==
  ASSUME IInv, NEW p \in Actors, AskPanel(p)
  PROVE  IInv'
<1> USE StagesAssumption DEF AtWork, AskPanel, Judging, WorthJudging, Goes, job, data, tale, Done
<1>1. TypeOK'
  BY DEF IInv, TypeOK
<1>2. BatchTasks'
  BY DEF IInv, TypeOK, BatchTasks, Actors
<1>3. ServiceAtStage'
  BY StageNames DEF IInv, TypeOK, ServiceAtStage, Actors
<1>4. FirstExtraction' /\ IdTellsText' /\ OneExtraction' /\ VectorOfItsText'
  BY DEF IInv, FirstExtraction, IdTellsText, OneExtraction, VectorOfItsText
<1>5. AskedIsDue' /\ TaggedIsNamed' /\ VerdictWasDue'
  BY DEF IInv, TypeOK, AskedIsDue, TaggedIsNamed, VerdictWasDue, Due, HasBoxes
<1>6. StagesBehind'
  BY StageNames DEF IInv, TypeOK, ServiceAtStage, StagesBehind, Behind, Due, HasBoxes, Actors
<1> QED
  BY <1>1, <1>2, <1>3, <1>4, <1>5, <1>6 DEF IInv

LEMMA SaveVerdictIInv ==
  ASSUME IInv, NEW p \in Actors, SaveVerdict(p)
  PROVE  IInv'
<1> USE StagesAssumption DEF AtWork, job, data, tale, Done
<1>0. /\ TypeOK /\ pc[p] = "asked" /\ task[p] \in JudgingTasks /\ Ends(p)
      /\ verdict' = IF verdict = "none" THEN p ELSE verdict
      /\ UNCHANGED <<job, page, row, boxes, named, texts, tale>>
  BY DEF IInv, SaveVerdict, JudgingTasks
<1>1. verdict' \in Actors /\ verdict' # "none"
  BY <1>0 DEF TypeOK, Actors
<1>2. TypeOK'
  BY <1>0, <1>1, EndsEffect DEF TypeOK
<1>3. BatchTasks' /\ ServiceAtStage'
  BY <1>0, EndsKeeps
<1>4. FirstExtraction' /\ IdTellsText' /\ OneExtraction' /\ VectorOfItsText'
  BY <1>0, BoxesStand
<1>5. Due' <=> Due
  BY <1>0 DEF Due, HasBoxes
<1>6. AskedIsDue' /\ TaggedIsNamed' /\ VerdictWasDue'
  BY <1>0, <1>5, ReasonsStand DEF IInv, TaggedIsNamed, VerdictWasDue, AskedIsDue, Due
<1>7. \A s \in 2..5 : Behind(s)' => Behind(s)
  BY <1>0, NewlyBehind, StageNames DEF JudgingTasks
<1>8. pc'["service"] \in {"boxed", "vectors"} => pc["service"] \in {"boxed", "vectors"}
  BY <1>0, EndsEffect DEF Actors
<1>9. StagesBehind'
  BY <1>0, <1>1, <1>5, <1>7, <1>8 DEF IInv, StagesBehind
<1> QED
  BY <1>2, <1>3, <1>4, <1>6, <1>9 DEF IInv

LEMMA StutterIInv ==
  ASSUME IInv, UNCHANGED vars
  PROVE  IInv'
<1> USE DEF vars, job, data, tale
<1>1. TypeOK' /\ BatchTasks' /\ ServiceAtStage'
  BY DEF IInv, TypeOK, BatchTasks, ServiceAtStage
<1>2. FirstExtraction' /\ IdTellsText' /\ OneExtraction' /\ VectorOfItsText'
  BY DEF IInv, FirstExtraction, IdTellsText, OneExtraction, VectorOfItsText
<1>3. AskedIsDue' /\ TaggedIsNamed' /\ VerdictWasDue' /\ StagesBehind'
  BY DEF IInv, AskedIsDue, TaggedIsNamed, VerdictWasDue, Due, HasBoxes, StagesBehind, Behind
<1> QED
  BY <1>1, <1>2, <1>3 DEF IInv

LEMMA NextIInv ==
  IInv /\ [Next]_vars => IInv'
<1> SUFFICES ASSUME IInv, [Next]_vars PROVE IInv'
  OBVIOUS
<1>1. CASE Start \/ Crash \/ BeginStage \/ StageDone \/ StageFails \/ RetryParked
  BY <1>1, StartIInv, CrashIInv, BeginStageIInv, StageDoneIInv, StageFailsIInv,
     RetryParkedIInv
<1>2. CASE SkipStage \/ AskModel \/ SkipForWantOfText \/ ReadUnembedded
  BY <1>2, SkipStageIInv, AskModelIInv, SkipForWantOfTextIInv, ReadUnembeddedIInv
<1>3. ASSUME NEW b \in Batches, BatchEnds(b) PROVE IInv'
  BY <1>3, BatchEndsIInv
<1>4. ASSUME NEW b \in Batches, NEW c \in Commands, BatchBegins(b, c) PROVE IInv'
  BY <1>4, BatchBeginsIInv
<1>5. ASSUME NEW p \in Actors, WritePage(p) \/ WriteEmbedding(p) \/ WriteLabel(p) \/ WriteTags(p)
      PROVE  IInv'
  BY <1>5, WritePageIInv, WriteEmbeddingIInv, WriteLabelIInv, WriteTagsIInv
<1>6. ASSUME NEW p \in Actors, StoreBoxes(p) \/ StoreVectors(p) PROVE IInv'
  BY <1>6, StoreBoxesIInv, StoreVectorsIInv
<1>7. ASSUME NEW p \in Actors, SkipVerdict(p) \/ AskPanel(p) \/ SaveVerdict(p) PROVE IInv'
  BY <1>7, SkipVerdictIInv, AskPanelIInv, SaveVerdictIInv
<1>8. CASE UNCHANGED vars
  BY <1>8, StutterIInv
<1> QED
  BY <1>1, <1>2, <1>3, <1>4, <1>5, <1>6, <1>7, <1>8 DEF Next, Writes

-----------------------------------------------------------------------------
(***************************************************************************)
(* The theorems                                                            *)
(***************************************************************************)

(* service/stages.py and the batch commands beside it keep every inductive *)
(* fact of this module, in whatever order they read, ask and write.        *)
THEOREM StagesInvariant ==
  Spec => []IInv
<1>1. IInv /\ [Next]_vars => IInv'
  BY NextIInv
<1> QED
  BY <1>1, InitIInv, PTL DEF Spec

(* The columns, boxes and job of stages.py keep their types, and a job     *)
(* that is waiting or running has an attempt left.                         *)
THEOREM StagesTypes ==
  Spec => []TypeOK
<1>1. IInv => TypeOK
  BY DEF IInv
<1> QED
  BY <1>1, StagesInvariant, PTL

(* enrichment/insights.py:282-327, upsert by (article_id, box_index): the  *)
(* boxes of an article are numbered without a gap and in layers, and mix   *)
(* two extractions only if one was stored while the other was under way.   *)
THEOREM BoxesAreOfOneExtraction ==
  Spec => []OneExtraction
<1>1. IInv => OneExtraction
  BY DEF IInv
<1> QED
  BY <1>1, StagesInvariant, PTL

(* enrichment/insights.py, embed_missing and the service's insights stage: *)
(* a vector written back late is the vector of another text only in a row  *)
(* that one of two crossing extractions has overwritten.                   *)
THEOREM VectorsMatchTexts ==
  Spec => []VectorOfItsText
<1>1. IInv => VectorOfItsText
  BY DEF IInv
<1> QED
  BY <1>1, StagesInvariant, PTL

(* service/worker.py and stages.py: a job becomes done only with what its  *)
(* six stages owe the article, whatever was skipped, retried, redone or    *)
(* scraped again, unless a stage met it without its text.                  *)
THEOREM DoneArticlesAreComplete ==
  Spec => []DoneIsComplete
<1>1. IInv => DoneIsComplete
  <2> SUFFICES ASSUME IInv, status = "done", ~blind
               PROVE  /\ row.embedding /\ row.label # "none" /\ row.stamped
                      /\ row.ticker = named
                      /\ ~redone /\ ~crossed /\ Actionable(row.label) /\ named /\ HasBoxes
                           => verdict # "none"
    BY DEF DoneIsComplete
  <2>1. \A s \in {2, 3, 4, 5, 6} : Behind(s)
    BY DEF IInv, ServiceAtStage, Behind, Done
  <2> QED
    BY <2>1 DEF IInv, StagesBehind, Due
<1> QED
  BY <1>1, StagesInvariant, PTL

(* service/stages.py, sentiment_stage: between the question and the saved  *)
(* verdict nobody takes back its reasons without being recorded as redoing *)
(* them.                                                                   *)
THEOREM VerdictsWereDue ==
  Spec => []VerdictWasDue
<1>1. IInv => VerdictWasDue
  BY DEF IInv
<1> QED
  BY <1>1, StagesInvariant, PTL

(* sentiment/batch.py and stages.py, ON CONFLICT DO NOTHING: a verdict is  *)
(* replaced by nobody, and removed by the command that judges again.       *)
THEOREM VerdictsStay ==
  Spec => FirstVerdictStays
<1>1. TypeOK /\ [Next]_vars =>
        [verdict # "none" =>
           verdict' = verdict \/ \E b \in Batches : verdict' = "none" /\ task'[b] = "rejudge"]_vars
  <2> SUFFICES ASSUME TypeOK, Next, verdict # "none", verdict' # verdict
               PROVE  \E b \in Batches : verdict' = "none" /\ task'[b] = "rejudge"
    BY DEF vars
  <2>1. PICK b \in Batches, c \in Commands : BatchBegins(b, c)
    BY DEF Next, Writes, Start, Crash, BeginStage, StageDone, StageFails, RetryParked,
       SkipStage, AskModel, SkipForWantOfText, ReadUnembedded, BatchEnds, WritePage, WriteEmbedding, WriteLabel, WriteTags,
       StoreBoxes, StoreVectors, SkipVerdict, AskPanel, SaveVerdict, data, tale
  <2>2. verdict' = "none" /\ c = "rejudge" /\ task'[b] = c
    BY <2>1 DEF BatchBegins, Takes, TypeOK, Actors
  <2> QED
    BY <2>2
<1>2. IInv => TypeOK
  BY DEF IInv
<1> QED
  BY <1>1, <1>2, StagesInvariant, PTL DEF Spec, FirstVerdictStays
=============================================================================
