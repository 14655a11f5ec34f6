---------------------------- MODULE ArticleStages ----------------------------
(***************************************************************************)
(* What the pipeline writes about one article: its columns, its insight    *)
(* boxes and its verdict.  Several actors write it: the service, which     *)
(* runs the six stages of service/stages.py one after the other, and batch *)
(* commands (scrape, embed, classify, tag, insights, sentiment) started by *)
(* hand beside it.  All read the article, ask a model or a site, and write *)
(* what came back in a later transaction, with no lock and no check in     *)
(* between, and any of them may die at any point.                          *)
(*                                                                         *)
(* A text is its extraction number, a vector is the number of the text it  *)
(* was computed from, a verdict is the actor that judged.                  *)
(***************************************************************************)
EXTENDS Naturals

CONSTANTS MaxBoxes,     \* bound: most boxes one extraction yields
          MaxTexts,     \* bound: extractions that reach the database
          MaxAttempts,  \* jobs.MAX_ATTEMPTS
          Batches,      \* bound: the batch processes that may run at once
          Commands      \* the batch commands the operator uses

(* The commands, each with and without its --reprocess, --retry-errors or  *)
(* --all.                                                                  *)
BatchCommands ==
  {"scrape", "rescrape", "embed", "reembed", "classify", "reclassify", "tag", "retag",
   "extract", "reextract", "vectors", "judge", "rejudge"}

ASSUME StagesAssumption ==
  /\ MaxBoxes \in Nat \ {0} /\ MaxTexts \in Nat \ {0} /\ MaxAttempts \in Nat \ {0}
  /\ Commands \subseteq BatchCommands
  /\ "service" \notin Batches /\ "none" \notin Batches

VARIABLES up,        \* the service process runs
          stage,     \* pipeline_jobs.stage, 7 is "done"
          status,    \* pipeline_jobs.status
          attempts,  \* pipeline_jobs.attempts
          page,      \* articles.status: the content is there when it is "ok"
          row,       \* the derived columns of articles
          boxes,     \* article_insights by box_index
          verdict,   \* article_sentiment for the primary ticker
          named,     \* the feed gave the article at least one ticker
          pc, mem,   \* how far each actor is, and what it read before it asked
          task,      \* the stage or command it works on
          texts,     \* extractions stored so far
          redone,    \* history: a label was replaced, boxes or a verdict redone
          crossed,   \* history: an extraction was stored while another one that
                     \* will not delete its boxes had been asked for
          blind      \* history: a stage of the pipeline ended, with nothing done,
                     \* because the article had no text

job  == <<up, stage, status, attempts>>
tale == <<redone, crossed, blind>>
data == <<page, row, boxes, verdict, named, texts, tale>>
vars == <<job, data, pc, mem, task>>

Actors  == Batches \cup {"service"}
Labels  == {"none", "act", "no_act"}
Indices == 1..MaxBoxes
NoBox   == [id |-> 0, text |-> 0, vec |-> 0]
NoBoxes == [i \in Indices |-> NoBox]
StageName == <<"scrape", "embed", "classify", "tag", "insights", "sentiment">>
Done == 7

-----------------------------------------------------------------------------
(* The article is new, or was stored and labelled before this pipeline.    *)
Init ==
  /\ up = FALSE /\ stage = 1 /\ status = "queued" /\ attempts = 0
  /\ \/ page = "none" /\ row = [embedding |-> FALSE, label |-> "none",
                                ticker |-> FALSE, stamped |-> FALSE]
     \/ \E l \in Labels :
          page = "ok" /\ row = [embedding |-> TRUE, label |-> l,
                                ticker |-> FALSE, stamped |-> FALSE]
  /\ boxes = NoBoxes /\ verdict = "none" /\ named \in BOOLEAN
  /\ pc = [p \in Actors |-> "idle"] /\ task = [p \in Actors |-> "none"]
  /\ mem = [p \in Actors |-> NoBoxes]
  /\ texts = 0 /\ redone = FALSE /\ crossed = FALSE /\ blind = FALSE

(* is_act, or for a row labelled before is_act existed, whether its        *)
(* category is "real news".                                                *)
Actionable(label) == label = "act"
HasBoxes == \E i \in Indices : boxes[i].id # 0

Goes(p, place) == pc' = [pc EXCEPT ![p] = place]
Takes(p, t)    == task' = [task EXCEPT ![p] = t]
Stops(p)       == Goes(p, "idle") /\ Takes(p, "none") /\ mem' = [mem EXCEPT ![p] = NoBoxes]

(* p is through: the stage returns, the command is done with the article.  *)
Ends(p) == IF p = "service" THEN Goes(p, "returned") /\ UNCHANGED <<mem, task>>
                            ELSE Stops(p)

-----------------------------------------------------------------------------
(* The job around the stages.                                              *)

Start ==
  /\ ~up /\ up' = TRUE
  /\ status' = IF status = "taken" THEN "queued" ELSE status
  /\ UNCHANGED <<stage, attempts, data, pc, mem, task>>

Crash ==
  /\ up /\ up' = FALSE
  /\ Stops("service")
  /\ UNCHANGED <<stage, status, attempts, data>>

BeginStage ==
  /\ up /\ pc["service"] = "idle" /\ stage # Done
  /\ status \in {"queued", "taken"}
  /\ status' = "taken"
  /\ Goes("service", "begun") /\ Takes("service", StageName[stage])
  /\ UNCHANGED <<up, stage, attempts, data, mem>>

(* "blank": the scrape returned "empty", and the article goes to its end   *)
(* whatever the page holds by now.                                         *)
StageDone ==
  /\ up /\ pc["service"] \in {"returned", "blank"}
  /\ stage' = IF pc["service"] = "blank" THEN Done ELSE stage + 1
  /\ status' = IF stage' = Done THEN "done" ELSE status
  /\ blind' = (blind \/ pc["service"] = "blank")
  /\ Stops("service")
  /\ UNCHANGED <<up, attempts, page, row, boxes, verdict, named, texts, redone, crossed>>

AtWork == {"begun", "asked", "refused", "boxed", "vectors"}

(* Mutant of StageFails: the failed attempt is not held against the cap.    *)
StageFailsUncapped ==
  /\ up /\ pc["service"] \in AtWork
  /\ attempts' = attempts + 1
  /\ status' = IF attempts' > MaxAttempts THEN "parked" ELSE "queued"
  /\ Stops("service")
  /\ UNCHANGED <<up, stage, data>>

(* Mutant of StageFails: the record moves on before the failure is noted.   *)
StageFailsAhead ==
  /\ up /\ pc["service"] \in AtWork
  /\ attempts' = attempts + 1
  /\ status' = IF attempts' >= MaxAttempts THEN "parked" ELSE "queued"
  /\ stage' = IF stage < 6 THEN stage + 1 ELSE stage
  /\ Stops("service")
  /\ UNCHANGED <<up, data>>

(* The read, the model or the write raised; jobs.fail counts the attempt.  *)
(* "refused": the scrape stored an error page, and the job is parked at    *)
(* once when robots.txt forbids it.                                        *)
StageFails ==
  /\ up /\ pc["service"] \in AtWork
  /\ attempts' = attempts + 1
  /\ \/ status' = IF attempts' >= MaxAttempts THEN "parked" ELSE "queued"
     \/ pc["service"] = "refused" /\ status' = "parked"
  /\ Stops("service")
  /\ UNCHANGED <<up, stage, data>>

RetryParked ==
  /\ status = "parked"
  /\ status' = "queued" /\ attempts' = 0
  /\ UNCHANGED <<up, stage, data, pc, mem, task>>

-----------------------------------------------------------------------------
(* A runner before it asks anybody.                                        *)

(* The early return of a stage whose work is done already; the scrape's is *)
(* Store.exists_ok.                                                        *)
AlreadyDone(t) ==
  CASE t = "scrape"   -> page = "ok"
    [] t = "embed"    -> row.embedding
    [] t = "classify" -> row.label # "none"
    [] t = "tag"      -> row.ticker
    [] t = "insights" -> row.stamped
    [] OTHER          -> FALSE

SkipStage ==
  /\ pc["service"] = "begun" /\ AlreadyDone(task["service"])
  /\ Goes("service", "returned")
  /\ UNCHANGED <<job, data, mem, task>>

(* Only an ok page has a text; an empty one may have a title, which the    *)
(* embedding makes do with, and the tags need neither.                     *)
HasTextFor(t) ==
  CASE t = "embed"                    -> page \in {"ok", "empty"}
    [] t \in {"classify", "insights"} -> page = "ok"
    [] OTHER                          -> TRUE

AskModel ==
  /\ pc["service"] = "begun"
  /\ task["service"] \in {"scrape", "embed", "classify", "tag", "insights"}
  /\ ~AlreadyDone(task["service"]) /\ HasTextFor(task["service"])
  /\ Goes("service", "asked")
  /\ UNCHANGED <<job, data, mem, task>>

(* The page has lost its text, or never had one: nothing is asked, and the *)
(* insights stage stamps the article.                                      *)
SkipForWantOfText ==
  /\ pc["service"] = "begun" /\ page # "ok"
  /\ task["service"] \in {"embed", "classify", "insights"}
  /\ ~AlreadyDone(task["service"])
  /\ row' = [row EXCEPT !.stamped = @ \/ task["service"] = "insights"]
  /\ blind' = TRUE
  /\ Goes("service", "returned")
  /\ UNCHANGED <<job, page, boxes, verdict, named, texts, redone, crossed, mem, task>>

-----------------------------------------------------------------------------
(* The batch commands: which of them would select the article.             *)

Selects(c) ==
  CASE c = "scrape"     -> page # "ok"
    [] c = "rescrape"   -> TRUE
    [] c = "embed"      -> page \in {"ok", "empty"} /\ ~row.embedding
    [] c = "reembed"    -> page \in {"ok", "empty"}
    [] c = "classify"   -> page = "ok" /\ row.label = "none"
    [] c = "reclassify" -> page = "ok"
    [] c = "tag"        -> page # "none" /\ ~row.ticker
    [] c = "retag"      -> page # "none"
    [] c = "extract"    -> page = "ok" /\ ~row.stamped /\ ~HasBoxes
    [] c = "reextract"  -> page = "ok"
    [] c = "vectors"    -> \E i \in Indices : boxes[i].id # 0 /\ boxes[i].vec = 0
    [] c = "judge"      -> /\ page = "ok" /\ Actionable(row.label) /\ row.ticker
                           /\ verdict = "none"
    [] c = "rejudge"    -> page = "ok" /\ Actionable(row.label) /\ row.ticker

(* "vectors" reads the boxes it will embed, "rejudge" deletes the verdict.  *)
BatchBegins(b, c) ==
  /\ pc[b] = "idle" /\ Selects(c)
  /\ Takes(b, c)
  /\ mem' = IF c = "vectors" THEN [mem EXCEPT ![b] = boxes] ELSE mem
  /\ Goes(b, CASE c = "vectors" -> "vectors"
               [] c \in {"judge", "rejudge"} -> "begun"
               [] OTHER -> "asked")
  /\ verdict' = IF c = "rejudge" THEN "none" ELSE verdict
  /\ redone' = (redone \/ (c = "rejudge" /\ verdict # "none"))
  /\ UNCHANGED <<job, page, row, boxes, named, texts, crossed, blind>>

(* The command is interrupted, or gives the article up.                    *)
BatchEnds(b) ==
  /\ pc[b] # "idle"
  /\ Stops(b)
  /\ UNCHANGED <<job, data>>

-----------------------------------------------------------------------------
(* What either actor writes when the model or the site has answered.       *)

(* Store.save clobbers whatever page is there.                             *)
WritePage(p) ==
  /\ pc[p] = "asked" /\ task[p] \in {"scrape", "rescrape"}
  /\ page' \in {"ok", "empty", "error"}
  /\ IF p = "service" /\ page' # "ok"
     THEN Goes(p, IF page' = "empty" THEN "blank" ELSE "refused") /\ UNCHANGED <<mem, task>>
     ELSE Ends(p)
  /\ UNCHANGED <<job, row, boxes, verdict, named, texts, tale>>

WriteEmbedding(p) ==
  /\ pc[p] = "asked" /\ task[p] \in {"embed", "reembed"}
  /\ row' = [row EXCEPT !.embedding = TRUE]
  /\ Ends(p)
  /\ UNCHANGED <<job, page, boxes, verdict, named, texts, tale>>

WriteLabel(p) ==
  /\ pc[p] = "asked" /\ task[p] \in {"classify", "reclassify"}
  /\ \E l \in {"act", "no_act"} :
       /\ row' = [row EXCEPT !.label = l]
       /\ redone' = (redone \/ row.label \notin {"none", l})
  /\ Ends(p)
  /\ UNCHANGED <<job, page, boxes, verdict, named, texts, crossed, blind>>

WriteTags(p) ==
  /\ pc[p] = "asked" /\ task[p] \in {"tag", "retag"}
  /\ row' = [row EXCEPT !.ticker = named]
  /\ Ends(p)
  /\ UNCHANGED <<job, page, boxes, verdict, named, texts, tale>>

(* Mutant of Stored: --reprocess upserts without deleting the old rows.     *)
StoredOverOld(n, fresh) ==
  [i \in Indices |->
     IF i > n THEN boxes[i]
     ELSE [id |-> IF boxes[i].id # 0 THEN boxes[i].id ELSE texts + 1,
           text |-> texts + 1, vec |-> 0]]

(* n boxes of a new extraction, after a delete or over what is there: an   *)
(* upserted row keeps its id and loses its vector.                         *)
Stored(n, fresh) ==
  [i \in Indices |->
     IF i > n THEN IF fresh THEN NoBox ELSE boxes[i]
     ELSE [id |-> IF ~fresh /\ boxes[i].id # 0 THEN boxes[i].id ELSE texts + 1,
           text |-> texts + 1, vec |-> 0]]

(* Another actor has asked for an extraction that it will upsert.          *)
Overtaken(p) ==
  \E q \in Actors \ {p} : pc[q] = "asked" /\ task[q] \in {"insights", "extract"}

(* Boxes and stamp in one commit.  The service goes on to the vectors.     *)
StoreBoxes(p) ==
  /\ pc[p] = "asked" /\ task[p] \in {"insights", "extract", "reextract"}
  /\ texts < MaxTexts /\ texts' = texts + 1
  /\ \E n \in 0..MaxBoxes : boxes' = Stored(n, task[p] = "reextract")
  /\ row' = [row EXCEPT !.stamped = TRUE]
  /\ redone' = (redone \/ task[p] = "reextract")
  /\ crossed' = (crossed \/ Overtaken(p))
  /\ IF p = "service" THEN Goes(p, "boxed") /\ UNCHANGED <<mem, task>> ELSE Stops(p)
  /\ UNCHANGED <<job, page, verdict, named, blind>>

ReadUnembedded ==
  /\ pc["service"] = "boxed"
  /\ mem' = [mem EXCEPT !["service"] = boxes]
  /\ Goes("service", IF \E i \in Indices : boxes[i].id # 0 /\ boxes[i].vec = 0
                     THEN "vectors" ELSE "returned")
  /\ UNCHANGED <<job, data, task>>

(* Mutant of StoreVectors: the update finds the box by its index.           *)
StoreVectorsByIndex(p) ==
  /\ pc[p] = "vectors"
  /\ boxes' = [i \in Indices |->
                 IF mem[p][i].id # 0 /\ mem[p][i].vec = 0 /\ boxes[i].id # 0
                 THEN [boxes[i] EXCEPT !.vec = mem[p][i].text] ELSE boxes[i]]
  /\ Ends(p)
  /\ UNCHANGED <<job, page, row, verdict, named, texts, tale>>

StoreVectors(p) ==
  /\ pc[p] = "vectors"
  /\ boxes' = [i \in Indices |->
                 IF mem[p][i].id # 0 /\ mem[p][i].vec = 0 /\ boxes[i].id = mem[p][i].id
                 THEN [boxes[i] EXCEPT !.vec = mem[p][i].text] ELSE boxes[i]]
  /\ Ends(p)
  /\ UNCHANGED <<job, page, row, verdict, named, texts, tale>>

-----------------------------------------------------------------------------
(* sentiment: the service's stage and the batch command run the same code. *)

Judging(p) == pc[p] = "begun" /\ task[p] \in {"sentiment", "judge", "rejudge"}

(* Mutant of WorthJudging: articles with no insight are judged too.         *)
WorthJudgingAnyway ==
  Actionable(row.label) /\ row.ticker /\ page = "ok" /\ verdict = "none"

WorthJudging ==
  Actionable(row.label) /\ row.ticker /\ page = "ok" /\ verdict = "none" /\ HasBoxes

SkipVerdict(p) ==
  /\ Judging(p) /\ ~WorthJudging
  /\ blind' = (blind \/ (p = "service" /\ page # "ok"))
  /\ Ends(p)
  /\ UNCHANGED <<job, page, row, boxes, verdict, named, texts, redone, crossed>>

AskPanel(p) ==
  /\ Judging(p) /\ WorthJudging
  /\ Goes(p, "asked")
  /\ UNCHANGED <<job, data, mem, task>>

(* Mutant of SaveVerdict: ON CONFLICT DO UPDATE.                            *)
SaveVerdictOver(p) ==
  /\ pc[p] = "asked" /\ task[p] \in {"sentiment", "judge", "rejudge"}
  /\ verdict' = p
  /\ Ends(p)
  /\ UNCHANGED <<job, page, row, boxes, named, texts, tale>>

(* ON CONFLICT DO NOTHING: the first verdict stays.                        *)
SaveVerdict(p) ==
  /\ pc[p] = "asked" /\ task[p] \in {"sentiment", "judge", "rejudge"}
  /\ verdict' = IF verdict = "none" THEN p ELSE verdict
  /\ Ends(p)
  /\ UNCHANGED <<job, page, row, boxes, named, texts, tale>>

-----------------------------------------------------------------------------
Writes(p) ==
  \/ WritePage(p) \/ WriteEmbedding(p) \/ WriteLabel(p) \/ WriteTags(p)
  \/ StoreBoxes(p) \/ StoreVectors(p)
  \/ SkipVerdict(p) \/ AskPanel(p) \/ SaveVerdict(p)

Next ==
  \/ Start \/ Crash \/ BeginStage \/ StageDone \/ StageFails \/ RetryParked
  \/ SkipStage \/ AskModel \/ SkipForWantOfText \/ ReadUnembedded
  \/ \E b \in Batches : BatchEnds(b) \/ \E c \in Commands : BatchBegins(b, c)
  \/ \E p \in Actors : Writes(p)

Spec == Init /\ [][Next]_vars

-----------------------------------------------------------------------------
BoxType == [id : 0..MaxTexts, text : 0..MaxTexts, vec : 0..MaxTexts]

(* The columns, the boxes and the job hold values the code can put there;  *)
(* a job that is waiting or running has an attempt left.                   *)
TypeOK ==
  /\ up \in BOOLEAN /\ stage \in 1..Done
  /\ status \in {"queued", "taken", "parked", "done"} /\ attempts \in 0..MaxAttempts
  /\ status \in {"queued", "taken"} => attempts < MaxAttempts
  /\ page \in {"none", "error", "empty", "ok"}
  /\ row \in [embedding : BOOLEAN, label : Labels, ticker : BOOLEAN, stamped : BOOLEAN]
  /\ boxes \in [Indices -> BoxType]
  /\ verdict \in Actors \cup {"none"}
  /\ named \in BOOLEAN /\ texts \in 0..MaxTexts
  /\ redone \in BOOLEAN /\ crossed \in BOOLEAN /\ blind \in BOOLEAN
  /\ pc \in [Actors -> AtWork \cup {"idle", "blank", "returned"}]
  /\ task \in [Actors -> Commands \cup {"none"} \cup {StageName[s] : s \in 1..6}]
  /\ mem \in [Actors -> [Indices -> BoxType]]

(* The boxes of an article are numbered without a gap, and come from one   *)
(* extraction, whatever was retried, re-extracted or interrupted.  Nothing *)
(* keeps the insights command from a new article that the service is at:   *)
(* then the upsert by (article_id, box_index) leaves the tail of the       *)
(* longer extraction, below the boxes of a later one, and only then.       *)
OneExtraction ==
  \A i, j \in Indices : i < j /\ boxes[j].id # 0 =>
    /\ boxes[i].id # 0
    /\ boxes[i].text = boxes[j].text \/ (crossed /\ boxes[i].text > boxes[j].text)

(* A box's vector was computed from the text that is in the box now,       *)
(* although the text is read, sent away and its vector written back later, *)
(* by several actors.  What goes wrong is a row of two extractions that    *)
(* crossed: it keeps its id, and a vector under way finds it.              *)
VectorOfItsText ==
  \A i \in Indices :
    boxes[i].vec \in {0, boxes[i].text} \/ (crossed /\ boxes[i].id # boxes[i].text)

(* A done article has what its stages owe it, after any crash, retry and   *)
(* batch command beside: vector, label, tags, stamp and, unless somebody   *)
(* redid a label, the boxes or a verdict or two extractions crossed, a     *)
(* verdict when one is due.  What it takes is that the pipeline found the  *)
(* text: an article that ended "empty", or lost its text to a failing      *)
(* re-scrape for a stage, is done without, even when a later scrape stores *)
(* a good page.                                                            *)
DoneIsComplete ==
  status = "done" /\ ~blind =>
    /\ row.embedding /\ row.label # "none" /\ row.stamped
    /\ row.ticker = named
    /\ ~redone /\ ~crossed /\ Actionable(row.label) /\ named /\ HasBoxes
         => verdict # "none"

(* An article is judged only if it is actionable, has a ticker and at      *)
(* least one insight.                                                      *)
VerdictWasDue ==
  verdict # "none" /\ ~redone => Actionable(row.label) /\ row.ticker /\ HasBoxes

(* The first verdict stays, whoever judges at the same time: only the      *)
(* sentiment command's --reprocess removes one.                            *)
FirstVerdictStays ==
  [][verdict # "none" =>
       verdict' = verdict \/ \E b \in Batches : verdict' = "none" /\ task'[b] = "rejudge"]_vars

(* stages.py:248-249: the boxes of an article are embedded when its        *)
(* insights stage is over, no separate embedding pass is needed.           *)
BoxesSearchable ==
  status = "done" => \A i \in Indices : boxes[i].id # 0 => boxes[i].vec # 0

=============================================================================
