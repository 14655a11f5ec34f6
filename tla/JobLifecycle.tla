---------------------------- MODULE JobLifecycle ----------------------------
(***************************************************************************)
(* What the job queue promises about one article, with no workers, no      *)
(* clock and no failures in sight: an article is submitted once, is taken  *)
(* and given back any number of times, moves through the stages in order,  *)
(* leaves a stage only after the stage's work was done, and once it is     *)
(* done nothing happens to it any more.                                    *)
(*                                                                         *)
(* PipelineService implements this module (see PipelineServiceRefinement). *)
(***************************************************************************)
EXTENDS Naturals

CONSTANTS Urls,       \* the article URLs, one job each
          NumStages   \* length of the stage chain, 6 in the code

VARIABLES phase,      \* where the job is: [Urls -> Phases]
          stage,      \* the stage recorded for it
          completed,  \* the stages whose work was done for it
          blank       \* the articles whose scrape extracted nothing

lifecycle == <<phase, stage, completed, blank>>

Scrape == 1
Done   == NumStages + 1
Stages == 1..NumStages
Phases == {"absent", "queued", "taken", "parked", "done"}

Init ==
  /\ phase = [u \in Urls |-> "absent"]
  /\ stage = [u \in Urls |-> Scrape]
  /\ completed = [u \in Urls |-> {}]
  /\ blank = {}

-----------------------------------------------------------------------------

Move(S, from, to) ==
  /\ S \subseteq {u \in Urls : phase[u] = from}
  /\ phase' = [u \in Urls |-> IF u \in S THEN to ELSE phase[u]]

Submit(u) ==
  /\ Move({u}, "absent", "queued")
  /\ UNCHANGED <<stage, completed, blank>>

Take(u) ==
  /\ Move({u}, "queued", "taken")
  /\ UNCHANGED <<stage, completed, blank>>

(* The work of the recorded stage is done; the record has not moved yet. *)
Work(u) ==
  /\ phase[u] = "taken"
  /\ stage[u] \in Stages
  /\ completed' = [completed EXCEPT ![u] = @ \cup {stage[u]}]
  /\ UNCHANGED <<phase, stage, blank>>

(* The scrape found a page without an article in it. *)
FindBlank(u) ==
  /\ phase[u] = "taken"
  /\ stage[u] = Scrape
  /\ blank' = blank \cup {u}
  /\ UNCHANGED <<phase, stage, completed>>

(* The record moves past a stage whose work was done ... *)
Proceed(u) ==
  /\ phase[u] = "taken"
  /\ stage[u] \in completed[u]
  /\ stage' = [stage EXCEPT ![u] = @ + 1]
  /\ phase' = [phase EXCEPT ![u] = IF stage[u] = NumStages THEN "done" ELSE @]
  /\ UNCHANGED <<completed, blank>>

(* ... or straight to the end, for a blank article. *)
Drop(u) ==
  /\ phase[u] = "taken"
  /\ stage[u] = Scrape
  /\ u \in blank
  /\ stage' = [stage EXCEPT ![u] = Done]
  /\ phase' = [phase EXCEPT ![u] = "done"]
  /\ UNCHANGED <<completed, blank>>

GiveBack(S) ==
  /\ Move(S, "taken", "queued")
  /\ UNCHANGED <<stage, completed, blank>>

Park(u) ==
  /\ Move({u}, "taken", "parked")
  /\ UNCHANGED <<stage, completed, blank>>

Retry(S) ==
  /\ Move(S, "parked", "queued")
  /\ UNCHANGED <<stage, completed, blank>>

Next ==
  \/ \E u \in Urls :
        \/ Submit(u) \/ Take(u) \/ Work(u) \/ FindBlank(u)
        \/ Proceed(u) \/ Drop(u) \/ Park(u)
  \/ \E S \in SUBSET Urls : GiveBack(S) \/ Retry(S)

Spec == Init /\ [][Next]_lifecycle

=============================================================================
