------------------------ MODULE PipelineServiceProofs ------------------------
(***************************************************************************)
(* Proofs about PipelineService, for any articles, workers, number of      *)
(* stages and attempt cap.                                                 *)
(***************************************************************************)
EXTENDS PipelineService, TLAPS

(* A row that is absent is the blank row jobs.enqueue starts from, and a   *)
(* row is done exactly at the end of the chain.                            *)
RowShape ==
  \A u \in Urls :
    /\ job[u].status = "absent" => job[u] = NoRow
    /\ job[u].status = "done" <=> job[u].stage = Done

(* A worker has a job exactly while it is inside process_article ... *)
HoldsWhileProcessing ==
  \A w \in Workers : pc[w] \in Processing <=> held[w] # None

(* ... and nobody has one while no process runs. *)
NobodyHoldsAtRest ==
  svc \in {"down", "finished"} => \A w \in Workers : held[w] = None

(* The inductive invariant. *)
IInv ==
  /\ TypeOK
  /\ RowShape
  /\ HoldsWhileProcessing
  /\ NobodyHoldsAtRest
  /\ SoleOwner
  /\ OwnerAgrees
  /\ NoOrphanWhileUp
  /\ ClaimableIsRunnable

LEMMA NoRowFacts ==
  /\ NoRow \in Row
  /\ NoRow.status = "absent"
  /\ NoRow.stage = Scrape
  /\ NoRow.attempts = 0
  /\ Scrape \in Stages
  /\ Stages \subseteq 1..Done
  /\ Done \in 1..Done
  /\ Done \notin Stages
BY ServiceAssumption DEF NoRow, Row, Scrape, Done, Stages

LEMMA InitIInv == Init => IInv
<1> SUFFICES ASSUME Init PROVE IInv
  OBVIOUS
<1> USE NoRowFacts DEF Init
<1>1. TypeOK
  <2>1. at \in [Workers -> 1..Done]
    OBVIOUS
  <2>2. ran \in [Urls -> SUBSET Stages]
    OBVIOUS
  <2>3. QED
    BY <2>1, <2>2 DEF TypeOK, PCs
<1>2. RowShape
  BY DEF RowShape
<1>3. HoldsWhileProcessing /\ NobodyHoldsAtRest /\ SoleOwner /\ OwnerAgrees
  BY DEF HoldsWhileProcessing, NobodyHoldsAtRest, SoleOwner, OwnerAgrees, Agrees, Processing
<1>4. NoOrphanWhileUp /\ ClaimableIsRunnable
  BY DEF NoOrphanWhileUp, ClaimableIsRunnable, With
<1>5. QED
  BY <1>1, <1>2, <1>3, <1>4 DEF IInv

LEMMA ClaimJobIInv ==
  ASSUME IInv, NEW w \in Workers, ClaimJob(w)
  PROVE  IInv'
<1> USE ServiceAssumption DEF ClaimJob, Goto, Oldest, Claimable, With,
        process, history, Running
<1>1. PICK u \in Urls :
        /\ job[u].status = "pending"
        /\ job' = [job EXCEPT ![u].status = "running"]
        /\ held' = [held EXCEPT ![w] = u]
        /\ at' = [at EXCEPT ![w] = job[u].stage]
  OBVIOUS
<1>2. TypeOK'
  BY <1>1 DEF IInv, TypeOK, Row, PCs
<1>3. /\ \A v \in Urls : job'[v] = IF v = u THEN [job[u] EXCEPT !.status = "running"]
                                            ELSE job[v]
      /\ job[u].stage \in Stages /\ job[u].attempts < MaxAttempts
  BY <1>1 DEF IInv, TypeOK, ClaimableIsRunnable
<1>4. RowShape'
  BY <1>1, <1>3 DEF IInv, RowShape, TypeOK, Row, Stages, Done, NoRow
<1>5. \A v \in Workers : held[v] # u
  BY <1>1 DEF IInv, OwnerAgrees, Agrees, HoldsWhileProcessing
<1>6. HoldsWhileProcessing'
  BY <1>1 DEF IInv, HoldsWhileProcessing, TypeOK, Processing
<1>7. NobodyHoldsAtRest'
  BY DEF IInv, NobodyHoldsAtRest
<1>8. SoleOwner'
  BY <1>1, <1>5 DEF IInv, SoleOwner, TypeOK
<1>9. OwnerAgrees'
  BY <1>1, <1>3, <1>5 DEF IInv, OwnerAgrees, Agrees, TypeOK, Processing, Row
<1>10. NoOrphanWhileUp'
  BY <1>1, <1>3 DEF IInv, NoOrphanWhileUp, TypeOK, HoldsWhileProcessing, Processing
<1>11. ClaimableIsRunnable'
  BY <1>1, <1>3 DEF IInv, ClaimableIsRunnable, TypeOK, Row
<1>12. QED
  BY <1>2, <1>4, <1>6, <1>7, <1>8, <1>9, <1>10, <1>11 DEF IInv

(* Steps that only move a worker from one idle place to another. *)
LEMMA IdleMoveIInv ==
  ASSUME IInv, NEW w \in Workers, NEW label \in PCs \ Processing,
         pc[w] \notin Processing, Goto(w, label),
         UNCHANGED <<table, process, held, at, history>>
  PROVE  IInv'
<1> USE DEF Goto, table, process, history, With
<1>1. TypeOK'
  BY DEF IInv, TypeOK
<1>2. \A v \in Workers : pc'[v] \in Processing => pc'[v] = pc[v]
  BY DEF IInv, TypeOK
<1>3. HoldsWhileProcessing'
  BY DEF IInv, HoldsWhileProcessing, TypeOK
<1>4. OwnerAgrees'
  BY <1>2 DEF IInv, OwnerAgrees, Agrees, Processing
<1>5. RowShape' /\ NobodyHoldsAtRest' /\ SoleOwner' /\ NoOrphanWhileUp' /\ ClaimableIsRunnable'
  BY DEF IInv, RowShape, NobodyHoldsAtRest, SoleOwner, NoOrphanWhileUp, ClaimableIsRunnable
<1>6. QED
  BY <1>1, <1>3, <1>4, <1>5 DEF IInv

LEMMA IdleStepsIInv ==
  ASSUME IInv, NEW w \in Workers,
         ClaimNothing(w) \/ FallAsleep(w) \/ CheckDrained(w) \/ PollTimeout(w)
  PROVE  IInv'
<1>1. CASE ClaimNothing(w)
  <2>1. "empty" \in PCs \ Processing /\ pc[w] \notin Processing
    BY <1>1 DEF ClaimNothing, PCs, Processing
  <2>2. QED
    BY <1>1, <2>1, IdleMoveIInv DEF ClaimNothing
<1>2. CASE FallAsleep(w)
  <2>1. PICK label \in {"drain", "wait"} : Goto(w, label)
    BY <1>2 DEF FallAsleep
  <2>2. label \in PCs \ Processing /\ pc[w] \notin Processing
    BY <1>2 DEF FallAsleep, PCs, Processing
  <2>3. QED
    BY <1>2, <2>1, <2>2, IdleMoveIInv DEF FallAsleep
<1>3. CASE CheckDrained(w)
  <2>1. PICK label \in {"exited", "wait"} : Goto(w, label)
    BY <1>3 DEF CheckDrained
  <2>2. label \in PCs \ Processing /\ pc[w] \notin Processing
    BY <1>3 DEF CheckDrained, PCs, Processing
  <2>3. QED
    BY <1>3, <2>1, <2>2, IdleMoveIInv DEF CheckDrained
<1>4. CASE PollTimeout(w)
  <2>1. "claim" \in PCs \ Processing /\ pc[w] \notin Processing
    BY <1>4 DEF PollTimeout, PCs, Processing
  <2>2. QED
    BY <1>4, <2>1, IdleMoveIInv DEF PollTimeout
<1>5. QED
  BY <1>1, <1>2, <1>3, <1>4

(* A worker that runs a stage has a running row in front of that stage. *)
LEMMA StageFacts ==
  ASSUME IInv, NEW w \in Workers, pc[w] \in {"stage", "fail", "park"}
  PROVE  /\ held[w] \in Urls
         /\ job[held[w]].status = "running"
         /\ job[held[w]].stage = at[w]
         /\ at[w] \in Stages
         /\ at[w] + 1 \in 1..Done
         /\ job[held[w]].attempts \in 0..MaxAttempts
         /\ job[held[w]].attempts < MaxAttempts
<1>1. held[w] \in Urls /\ job[held[w]].status = "running" /\ job[held[w]].stage = at[w]
  BY DEF IInv, OwnerAgrees, Agrees, Processing
<1>2. at[w] \in Stages /\ job[held[w]].attempts < MaxAttempts
  BY <1>1 DEF IInv, ClaimableIsRunnable, With
<1>3. job[held[w]].attempts \in 0..MaxAttempts
  BY <1>1 DEF IInv, TypeOK, Row
<1>4. at[w] + 1 \in 1..Done
  BY <1>2, ServiceAssumption DEF Stages, Done
<1>5. QED
  BY <1>1, <1>2, <1>3, <1>4

(* Steps of a runner after which the worker still holds the job and the    *)
(* row is untouched.                                                       *)
LEMMA RunnerStepsIInv ==
  ASSUME IInv, NEW w \in Workers,
         StageReturns(w) \/ ScrapeReturnsEmpty(w) \/ StageRaises(w)
           \/ StageAborts(w) \/ AdvanceRaises(w)
  PROVE  IInv'
<1> USE DEF Goto, table, process, history
<1> DEFINE u == held[w]
<1>1. PICK label \in Processing : Goto(w, label)
  BY DEF StageReturns, ScrapeReturnsEmpty, StageRaises, StageAborts, AdvanceRaises, Processing
<1>2. /\ UNCHANGED <<table, process, held>>
      /\ pc[w] \in Processing
      /\ u \in Urls
  BY DEF StageReturns, ScrapeReturnsEmpty, StageRaises, StageAborts, AdvanceRaises,
         Processing, IInv, OwnerAgrees, Agrees
<1>3. /\ ran' \in [Urls -> SUBSET Stages] /\ \A x \in Urls : ran[x] \subseteq ran'[x]
      /\ blank \subseteq blank' /\ blank' \subseteq Urls
      /\ at' \in [Workers -> 1..Done] /\ \A v \in Workers \ {w} : at'[v] = at[v]
  <2>1. CASE StageReturns(w)
    BY <2>1, <1>2, StageFacts DEF StageReturns, IInv, TypeOK
  <2>2. CASE ScrapeReturnsEmpty(w)
    BY <2>2, <1>2, NoRowFacts DEF ScrapeReturnsEmpty, IInv, TypeOK
  <2>3. CASE StageRaises(w) \/ StageAborts(w) \/ AdvanceRaises(w)
    BY <2>3 DEF StageRaises, StageAborts, AdvanceRaises, IInv, TypeOK
  <2>4. QED
    BY <2>1, <2>2, <2>3
<1>4. TypeOK'
  BY <1>1, <1>2, <1>3 DEF IInv, TypeOK, Processing, PCs
<1>5. HoldsWhileProcessing'
  BY <1>1, <1>2 DEF IInv, HoldsWhileProcessing, TypeOK
<1>6. OwnerAgrees'
  <2> SUFFICES ASSUME NEW v \in Workers PROVE Agrees(v)'
    BY DEF OwnerAgrees
  <2>1. CASE v # w
    <3>1. pc'[v] = pc[v] /\ at'[v] = at[v] /\ held' = held /\ job' = job
      BY <2>1, <1>1, <1>2, <1>3 DEF IInv, TypeOK
    <3>2. held[v] \in Urls => ran[held[v]] \subseteq ran'[held[v]]
      BY <1>3
    <3>3. Agrees(v)
      BY DEF IInv, OwnerAgrees
    <3>4. QED
      BY <3>1, <3>2, <3>3, <1>3 DEF Agrees, Processing
  <2>2. CASE v = w /\ StageReturns(w)
    BY <2>2, <1>2, StageFacts DEF StageReturns, IInv, OwnerAgrees, Agrees, TypeOK, Processing
  <2>3. CASE v = w /\ ScrapeReturnsEmpty(w)
    BY <2>3, <1>2, StageFacts DEF ScrapeReturnsEmpty, IInv, OwnerAgrees, Agrees, TypeOK, Processing
  <2>4. CASE v = w /\ (StageRaises(w) \/ StageAborts(w) \/ AdvanceRaises(w))
    BY <2>4, <1>2 DEF StageRaises, StageAborts, AdvanceRaises, IInv, OwnerAgrees, Agrees, TypeOK, Processing
  <2>5. QED
    BY <2>1, <2>2, <2>3, <2>4
<1>7. RowShape' /\ NobodyHoldsAtRest' /\ SoleOwner' /\ NoOrphanWhileUp' /\ ClaimableIsRunnable'
  BY <1>2 DEF IInv, RowShape, NobodyHoldsAtRest, SoleOwner, NoOrphanWhileUp,
              ClaimableIsRunnable, With
<1>8. QED
  BY <1>4, <1>5, <1>6, <1>7 DEF IInv

(* A worker about to commit an advance writes a later stage. *)
LEMMA AdvanceFacts ==
  ASSUME IInv, NEW w \in Workers, pc[w] = "advance"
  PROVE  /\ held[w] \in Urls
         /\ job[held[w]].status = "running"
         /\ job[held[w]].stage \in Stages
         /\ at[w] \in 1..Done
         /\ job[held[w]].stage < at[w]
<1>1. held[w] \in Urls /\ job[held[w]].status = "running"
  BY DEF IInv, OwnerAgrees, Agrees, Processing
<1>2. job[held[w]].stage \in Stages /\ at[w] \in 1..Done
  BY <1>1 DEF IInv, ClaimableIsRunnable, With, TypeOK
<1>3. \/ at[w] = job[held[w]].stage + 1
      \/ at[w] = Done /\ job[held[w]].stage = Scrape
  BY DEF IInv, OwnerAgrees, Agrees
<1>4. job[held[w]].stage < at[w]
  BY <1>2, <1>3, ServiceAssumption DEF Stages, Done, Scrape
<1>5. QED
  BY <1>1, <1>2, <1>4

LEMMA AdvanceIInv ==
  ASSUME IInv, NEW w \in Workers, Advance(w)
  PROVE  IInv'
<1> DEFINE u == held[w]
<1> DEFINE row == [stage    |-> at[w],
                   status   |-> IF at[w] = Done THEN "done" ELSE "running",
                   attempts |-> 0,
                   error    |-> FALSE]
<1>1. /\ u \in Urls /\ job[u].status = "running" /\ pc[w] = "advance"
      /\ at[w] \in 1..Done
  BY AdvanceFacts DEF Advance
<1>2. row \in Row
  BY <1>1, ServiceAssumption DEF Row
<1>3. /\ job' \in [Urls -> Row]
      /\ job'[u] = row
      /\ \A x \in Urls \ {u} : job'[x] = job[x]
  BY <1>1, <1>2 DEF Advance, IInv, TypeOK
<1>3a. /\ job'[u].stage = at[w]
       /\ job'[u].status = (IF at[w] = Done THEN "done" ELSE "running")
       /\ job'[u].attempts = 0
       /\ at[w] # Done => at[w] \in Stages
  BY <1>1, <1>3, ServiceAssumption DEF Stages, Done
<1> HIDE DEF row
<1>4. /\ \A v \in Workers \ {w} : pc'[v] = pc[v] /\ held'[v] = held[v] /\ at'[v] = at[v]
      /\ at[w] = Done => pc'[w] = "claim" /\ held'[w] = None
      /\ at[w] # Done => pc'[w] = "stage" /\ held'[w] = u /\ at'[w] = at[w]
  BY DEF Advance, Goto, LetGo, IInv, TypeOK
<1>5. TypeOK'
  BY <1>3, NoRowFacts DEF Advance, Goto, LetGo, IInv, TypeOK, PCs, process, history
<1>6. RowShape'
  BY <1>3, <1>3a DEF IInv, RowShape
<1>7. \A v \in Workers \ {w} : held[v] # u
  BY <1>1, ServiceAssumption DEF IInv, SoleOwner
<1>8. HoldsWhileProcessing'
  BY <1>1, <1>4, ServiceAssumption DEF IInv, HoldsWhileProcessing, Processing
<1>9. NobodyHoldsAtRest'
  BY <1>1 DEF Advance, process, Running, IInv, NobodyHoldsAtRest
<1>10. SoleOwner'
  BY <1>4, <1>7 DEF IInv, SoleOwner
<1>11. OwnerAgrees'
  <2> SUFFICES ASSUME NEW v \in Workers PROVE Agrees(v)'
    BY DEF OwnerAgrees
  <2>1. CASE v # w
    <3>1. pc'[v] = pc[v] /\ held'[v] = held[v] /\ at'[v] = at[v] /\ ran' = ran /\ blank' = blank
      BY <2>1, <1>4 DEF Advance, history
    <3>2. held[v] \in Urls => job'[held[v]] = job[held[v]]
      BY <2>1, <1>3, <1>7
    <3>3. Agrees(v)
      BY DEF IInv, OwnerAgrees
    <3>4. QED
      BY <3>1, <3>2, <3>3 DEF Agrees, Processing
  <2>2. CASE v = w
    BY <2>2, <1>1, <1>3, <1>3a, <1>4 DEF Agrees, Processing
  <2>3. QED
    BY <2>1, <2>2
<1>12. NoOrphanWhileUp'
  BY <1>3, <1>3a, <1>4 DEF Advance, process, IInv, NoOrphanWhileUp, With
<1>13. ClaimableIsRunnable'
  BY <1>3, <1>3a, ServiceAssumption DEF IInv, ClaimableIsRunnable, With
<1>14. QED
  BY <1>5, <1>6, <1>8, <1>9, <1>10, <1>11, <1>12, <1>13 DEF IInv

LEMMA FailIInv ==
  ASSUME IInv, NEW w \in Workers, Fail(w)
  PROVE  IInv'
<1> DEFINE u == held[w]
<1> DEFINE attempts == job[u].attempts + 1
<1> DEFINE over == pc[w] = "park" \/ attempts >= MaxAttempts
<1> DEFINE row == [job[u] EXCEPT !.attempts = attempts, !.error = TRUE,
                                 !.status = IF over THEN "failed" ELSE "pending"]
<1>1. /\ pc[w] \in {"fail", "park"}
      /\ u \in Urls /\ job[u].status = "running" /\ job[u].stage \in Stages
      /\ job[u].attempts \in 0..MaxAttempts /\ job[u].attempts < MaxAttempts
  BY StageFacts DEF Fail
<1>2. /\ row.stage = job[u].stage
      /\ row.attempts = attempts
      /\ row.status = (IF over THEN "failed" ELSE "pending")
      /\ row \in Row
  <2>1. job[u] \in Row
    BY <1>1 DEF IInv, TypeOK
  <2>2. attempts \in 0..MaxAttempts
    BY <1>1, ServiceAssumption
  <2>3. QED
    BY <2>1, <2>2 DEF Row
<1>3. /\ job' \in [Urls -> Row]
      /\ job'[u] = row
      /\ \A x \in Urls \ {u} : job'[x] = job[x]
  BY <1>1, <1>2 DEF Fail, IInv, TypeOK
<1>3a. /\ job'[u].stage \in Stages /\ job'[u].stage # Done
       /\ job'[u].status \in {"failed", "pending"}
       /\ job'[u].status = "pending" => job'[u].attempts < MaxAttempts
  <2>1. job'[u].stage \in Stages /\ job'[u].stage # Done
    BY <1>1, <1>2, <1>3, NoRowFacts
  <2>2. job'[u].status \in {"failed", "pending"}
    BY <1>2, <1>3
  <2>3. ASSUME job'[u].status = "pending" PROVE job'[u].attempts < MaxAttempts
    <3>1. ~over
      BY <2>3, <1>2, <1>3
    <3>2. attempts < MaxAttempts
      BY <3>1, <1>1, ServiceAssumption
    <3>3. QED
      BY <3>2, <1>2, <1>3
  <2>4. QED
    BY <2>1, <2>2, <2>3
<1> HIDE DEF row, over, attempts
<1>4. /\ \A v \in Workers \ {w} : pc'[v] = pc[v] /\ held'[v] = held[v] /\ at'[v] = at[v]
      /\ pc'[w] = "claim" /\ held'[w] = None
      /\ pc' \in [Workers -> PCs] /\ held' \in [Workers -> Urls \cup {None}]
      /\ at' \in [Workers -> 1..Done]
  BY NoRowFacts DEF Fail, Goto, LetGo, IInv, TypeOK, PCs
<1>5. TypeOK'
  BY <1>1, <1>3, <1>4 DEF Fail, IInv, TypeOK, process, history, over
<1>6. RowShape'
  <2> SUFFICES ASSUME NEW x \in Urls
               PROVE  /\ job'[x].status = "absent" => job'[x] = NoRow
                      /\ job'[x].status = "done" <=> job'[x].stage = Done
    BY DEF RowShape
  <2>1. CASE x = u
    BY <2>1, <1>3a
  <2>2. CASE x # u
    BY <2>2, <1>3 DEF IInv, RowShape
  <2>3. QED
    BY <2>1, <2>2
<1>7. \A v \in Workers \ {w} : held[v] # u
  BY <1>1, ServiceAssumption DEF IInv, SoleOwner
<1>8. HoldsWhileProcessing'
  BY <1>4 DEF IInv, HoldsWhileProcessing, Processing
<1>9. NobodyHoldsAtRest'
  BY DEF Fail, process, Running, IInv, NobodyHoldsAtRest
<1>10. SoleOwner'
  BY <1>4, <1>7 DEF IInv, SoleOwner
<1>11. OwnerAgrees'
  <2> SUFFICES ASSUME NEW v \in Workers PROVE Agrees(v)'
    BY DEF OwnerAgrees
  <2>1. CASE v # w
    <3>1. pc'[v] = pc[v] /\ held'[v] = held[v] /\ at'[v] = at[v] /\ ran' = ran /\ blank' = blank
      BY <2>1, <1>4 DEF Fail, history
    <3>2. held[v] \in Urls => job'[held[v]] = job[held[v]]
      BY <2>1, <1>3, <1>7
    <3>3. Agrees(v)
      BY DEF IInv, OwnerAgrees
    <3>4. QED
      BY <3>1, <3>2, <3>3 DEF Agrees, Processing
  <2>2. CASE v = w
    BY <2>2, <1>4 DEF Agrees, Processing
  <2>3. QED
    BY <2>1, <2>2
<1>12. NoOrphanWhileUp'
  BY <1>3, <1>4, <1>3a DEF Fail, process, IInv, NoOrphanWhileUp, With
<1>13. ClaimableIsRunnable'
  <2> SUFFICES ASSUME NEW x \in Urls, job'[x].status \in {"pending", "running"}
               PROVE  job'[x].attempts < MaxAttempts /\ job'[x].stage \in Stages
    BY DEF ClaimableIsRunnable, With
  <2>1. CASE x = u
    BY <2>1, <1>3a
  <2>2. CASE x # u
    BY <2>2, <1>3 DEF IInv, ClaimableIsRunnable, With
  <2>3. QED
    BY <2>1, <2>2
<1>14. QED
  BY <1>5, <1>6, <1>8, <1>9, <1>10, <1>11, <1>12, <1>13 DEF IInv

LEMMA UnwindIInv ==
  ASSUME IInv, NEW w \in Workers, QueueCallRaises(w) \/ StageEscapes(w)
  PROVE  IInv'
<1>1. /\ Unwind(w) /\ Running /\ UNCHANGED <<table, history>>
  BY DEF QueueCallRaises, StageEscapes
<1>2. /\ \A v \in Workers \ {w} : pc'[v] = pc[v] /\ held'[v] = held[v] /\ at'[v] = at[v]
      /\ pc'[w] = "dead" /\ held'[w] = None
      /\ svc' = "stopping"
      /\ job' = job /\ ran' = ran /\ blank' = blank
  BY <1>1 DEF Unwind, Goto, LetGo, IInv, TypeOK, table, history
<1>3. TypeOK'
  BY <1>1, NoRowFacts DEF Unwind, Goto, LetGo, IInv, TypeOK, PCs, table, history
<1>4. HoldsWhileProcessing'
  BY <1>2 DEF IInv, HoldsWhileProcessing, Processing
<1>5. SoleOwner'
  BY <1>2 DEF IInv, SoleOwner
<1>6. OwnerAgrees'
  <2> SUFFICES ASSUME NEW v \in Workers PROVE Agrees(v)'
    BY DEF OwnerAgrees
  <2>1. Agrees(v)
    BY DEF IInv, OwnerAgrees
  <2>2. QED
    BY <2>1, <1>2 DEF Agrees, Processing
<1>7. RowShape' /\ NobodyHoldsAtRest' /\ NoOrphanWhileUp' /\ ClaimableIsRunnable'
  BY <1>2 DEF IInv, RowShape, NobodyHoldsAtRest, NoOrphanWhileUp, ClaimableIsRunnable, With
<1>8. QED
  BY <1>3, <1>4, <1>5, <1>6, <1>7 DEF IInv

LEMMA EnqueueIInv ==
  ASSUME IInv, NEW u \in Urls, Enqueue(u)
  PROVE  IInv'
<1>1. UNCHANGED <<svc, pc, held, at, ran, blank>>
  BY DEF Enqueue, workers, history
<1>2. CASE u \in With("absent")
  <2>1. job[u] = NoRow
    BY <1>2 DEF IInv, RowShape, With
  <2>2. /\ job' \in [Urls -> Row]
        /\ job'[u].status = "pending" /\ job'[u].stage = Scrape /\ job'[u].attempts = 0
        /\ \A x \in Urls \ {u} : job'[x] = job[x]
    BY <1>2, <2>1, NoRowFacts DEF Enqueue, IInv, TypeOK, Row
  <2>3. TypeOK'
    BY <1>1, <1>2, <2>2 DEF Enqueue, IInv, TypeOK
  <2>4. RowShape'
    BY <2>2, NoRowFacts DEF IInv, RowShape
  <2>5. \A v \in Workers : pc[v] \in Processing => held[v] # u
    BY <1>2 DEF IInv, OwnerAgrees, Agrees, With
  <2>6. OwnerAgrees'
    <3> SUFFICES ASSUME NEW v \in Workers PROVE Agrees(v)'
      BY DEF OwnerAgrees
    <3>1. Agrees(v)
      BY DEF IInv, OwnerAgrees
    <3>2. QED
      BY <3>1, <1>1, <2>2, <2>5 DEF Agrees, Processing
  <2>7. HoldsWhileProcessing' /\ NobodyHoldsAtRest' /\ SoleOwner'
    BY <1>1 DEF IInv, HoldsWhileProcessing, NobodyHoldsAtRest, SoleOwner
  <2>8. NoOrphanWhileUp' /\ ClaimableIsRunnable'
    BY <1>1, <2>2, NoRowFacts, ServiceAssumption
       DEF IInv, NoOrphanWhileUp, ClaimableIsRunnable, With
  <2>9. QED
    BY <2>3, <2>4, <2>6, <2>7, <2>8 DEF IInv
<1>3. CASE u \notin With("absent")
  <2>1. UNCHANGED <<table, feed, notice>> /\ source' \in SUBSET Urls
    BY <1>3 DEF Enqueue, IInv, TypeOK
  <2>2. QED
    BY <1>1, <2>1 DEF IInv, TypeOK, RowShape, HoldsWhileProcessing, NobodyHoldsAtRest,
         SoleOwner, OwnerAgrees, Agrees, NoOrphanWhileUp, ClaimableIsRunnable, With, table
<1>4. QED
  BY <1>2, <1>3

(* Steps that wake workers up, or only touch the feed or next_attempt_at. *)
LEMMA QuietStepsIInv ==
  ASSUME IInv,
         \/ FeedSignals \/ ListenerWakes \/ FeedEnds \/ FeedRaises
         \/ \E u \in Urls : Ripen(u)
  PROVE  IInv'
<1>1. /\ UNCHANGED <<job, enqueuedAt, clock, svc, source, held, at, ran, blank>>
      /\ due' \subseteq Urls
      /\ feed' \in {"off", "streaming", "signal", "exhausted", "broken"}
      /\ notice' \in BOOLEAN
      /\ pc' = pc \/ WakeAll
  BY DEF FeedSignals, ListenerWakes, FeedEnds, FeedRaises, Ripen, IInv, TypeOK,
         table, process, workers, history, With
<1>2. /\ pc' \in [Workers -> PCs]
      /\ \A v \in Workers : pc'[v] = pc[v] \/ (pc[v] = "wait" /\ pc'[v] = "claim")
  BY <1>1 DEF WakeAll, IInv, TypeOK, PCs
<1>3. TypeOK'
  BY <1>1, <1>2 DEF IInv, TypeOK
<1>4. HoldsWhileProcessing'
  BY <1>1, <1>2 DEF IInv, HoldsWhileProcessing, Processing
<1>5. OwnerAgrees'
  <2> SUFFICES ASSUME NEW v \in Workers PROVE Agrees(v)'
    BY DEF OwnerAgrees
  <2>1. Agrees(v)
    BY DEF IInv, OwnerAgrees
  <2>2. QED
    BY <2>1, <1>1, <1>2 DEF Agrees, Processing
<1>6. RowShape' /\ NobodyHoldsAtRest' /\ SoleOwner' /\ NoOrphanWhileUp' /\ ClaimableIsRunnable'
  BY <1>1 DEF IInv, RowShape, NobodyHoldsAtRest, SoleOwner, NoOrphanWhileUp,
              ClaimableIsRunnable, With
<1>7. QED
  BY <1>3, <1>4, <1>5, <1>6 DEF IInv

LEMMA RequeueFailedIInv ==
  ASSUME IInv, NEW S, RequeueFailed(S)
  PROVE  IInv'
<1>1. /\ \A u \in S : u \in Urls /\ job[u].status = "failed"
      /\ \A u \in Urls : job'[u] = IF u \in S
             THEN [job[u] EXCEPT !.status = "pending", !.attempts = 0] ELSE job[u]
      /\ UNCHANGED <<enqueuedAt, clock, svc, feed, source, notice, pc, held, at, ran, blank>>
      /\ due' = due \cup S
  BY DEF RequeueFailed, With, process, workers, history
<1>2. \A u \in Urls : job'[u] \in Row
  <2> SUFFICES ASSUME NEW u \in Urls PROVE job'[u] \in Row
    OBVIOUS
  <2>1. job[u] \in Row
    BY DEF IInv, TypeOK
  <2>2. 0 \in 0..MaxAttempts
    BY ServiceAssumption
  <2>3. [job[u] EXCEPT !.status = "pending", !.attempts = 0] \in Row
    BY <2>1, <2>2 DEF Row
  <2>4. QED
    BY <1>1, <2>1, <2>3
<1>3. TypeOK'
  BY <1>1, <1>2 DEF RequeueFailed, IInv, TypeOK
<1>4. /\ \A u \in Urls \ S : job'[u] = job[u]
      /\ \A u \in S : job'[u].status = "pending" /\ job'[u].attempts = 0
                      /\ job'[u].stage = job[u].stage
  BY <1>1 DEF IInv, TypeOK, Row
<1>5. \A u \in Urls : job[u].stage \in 1..Done
  BY DEF IInv, TypeOK, Row
<1>6. RowShape'
  BY <1>1, <1>4, ZenonT(40) DEF IInv, RowShape
<1>7. \A v \in Workers : pc[v] \in Processing => held[v] \notin S
  BY <1>1 DEF IInv, OwnerAgrees, Agrees
<1>8. OwnerAgrees'
  <2> SUFFICES ASSUME NEW v \in Workers PROVE Agrees(v)'
    BY DEF OwnerAgrees
  <2>1. Agrees(v)
    BY DEF IInv, OwnerAgrees
  <2>2. QED
    BY <2>1, <1>1, <1>4, <1>7 DEF Agrees, Processing
<1>9. HoldsWhileProcessing' /\ NobodyHoldsAtRest' /\ SoleOwner' /\ NoOrphanWhileUp'
  BY <1>1, <1>4 DEF IInv, HoldsWhileProcessing, NobodyHoldsAtRest, SoleOwner,
                    NoOrphanWhileUp, With
<1>10. ClaimableIsRunnable'
  <2> SUFFICES ASSUME NEW u \in Urls, job'[u].status \in {"pending", "running"}
               PROVE  job'[u].attempts < MaxAttempts /\ job'[u].stage \in Stages
    BY DEF ClaimableIsRunnable, With
  <2>1. CASE u \in S
    <3>1. job[u].stage # Done
      BY <2>1, <1>1 DEF IInv, RowShape
    <3>2. job[u].stage \in Stages
      BY <3>1, <1>5, ServiceAssumption DEF Stages, Done
    <3>3. QED
      BY <2>1, <3>2, <1>4, ServiceAssumption
  <2>2. CASE u \notin S
    BY <2>2, <1>4 DEF IInv, ClaimableIsRunnable, With
  <2>3. QED
    BY <2>1, <2>2
<1>11. QED
  BY <1>3, <1>6, <1>8, <1>9, <1>10 DEF IInv

LEMMA StartIInv ==
  ASSUME IInv, Start
  PROVE  IInv'
<1>1. /\ \A u \in Urls : job'[u] = IF job[u].status = "running"
             THEN [job[u] EXCEPT !.status = "pending"] ELSE job[u]
      /\ UNCHANGED <<due, enqueuedAt, clock, held, at, ran, blank>>
      /\ \A w \in Workers : held[w] = None /\ pc'[w] = "claim"
  BY DEF Start, history, IInv, NobodyHoldsAtRest
<1>2. \A u \in Urls : /\ job'[u] \in Row
                      /\ job'[u].stage = job[u].stage
                      /\ job'[u].attempts = job[u].attempts
                      /\ job'[u].status = IF job[u].status = "running" THEN "pending"
                                          ELSE job[u].status
                      /\ job[u].status # "running" => job'[u] = job[u]
  BY <1>1, ZenonT(30) DEF IInv, TypeOK, Row
<1>3. TypeOK'
  BY <1>1, <1>2 DEF Start, IInv, TypeOK, PCs
<1>4. RowShape'
  BY <1>2 DEF IInv, RowShape
<1>5. HoldsWhileProcessing' /\ NobodyHoldsAtRest' /\ SoleOwner'
  BY <1>1 DEF HoldsWhileProcessing, NobodyHoldsAtRest, SoleOwner, Processing
<1>6. OwnerAgrees'
  BY <1>1 DEF OwnerAgrees, Agrees, Processing
<1>7. NoOrphanWhileUp' /\ ClaimableIsRunnable'
  BY <1>2 DEF IInv, NoOrphanWhileUp, ClaimableIsRunnable, With
<1>8. QED
  BY <1>3, <1>4, <1>5, <1>6, <1>7 DEF IInv

LEMMA HaltIInv ==
  ASSUME IInv, Crash \/ Finish
  PROVE  IInv'
<1>1. PICK how \in {"down", "finished"} : Halt(how)
  BY DEF Crash, Finish
<1>2. /\ UNCHANGED <<job, due, enqueuedAt, clock, ran, blank>>
      /\ \A w \in Workers : held'[w] = None /\ pc'[w] = "off"
      /\ svc' # "up"
  BY <1>1 DEF Halt, table, history
<1>3. TypeOK'
  BY <1>1, <1>2, NoRowFacts DEF Halt, IInv, TypeOK, PCs
<1>4. /\ RowShape' /\ HoldsWhileProcessing' /\ NobodyHoldsAtRest' /\ SoleOwner'
      /\ OwnerAgrees' /\ NoOrphanWhileUp' /\ ClaimableIsRunnable'
  BY <1>2 DEF IInv, RowShape, HoldsWhileProcessing, NobodyHoldsAtRest, SoleOwner,
     OwnerAgrees, Agrees, NoOrphanWhileUp, ClaimableIsRunnable, Processing, With
<1>5. QED
  BY <1>3, <1>4 DEF IInv

LEMMA NextIInv == IInv /\ [Next]_vars => IInv'
<1> SUFFICES ASSUME IInv, [Next]_vars PROVE IInv'
  OBVIOUS
<1>1. ASSUME NEW w \in Workers, WorkerStep(w) PROVE IInv'
  BY <1>1, ClaimJobIInv, IdleStepsIInv, RunnerStepsIInv, AdvanceIInv, FailIInv, UnwindIInv
     DEF WorkerStep, RunnerEnds
<1>2. ASSUME FeedStep \/ ListenerWakes \/ \E u \in Urls : Ripen(u) PROVE IInv'
  BY <1>2, EnqueueIInv, QuietStepsIInv DEF FeedStep
<1>3. ASSUME Start \/ Crash \/ Finish PROVE IInv'
  BY <1>3, StartIInv, HaltIInv
<1>4. ASSUME NEW S, RequeueFailed(S) PROVE IInv'
  BY <1>4, RequeueFailedIInv
<1>5. CASE UNCHANGED vars
  BY <1>5 DEF vars, table, process, workers, history, IInv, TypeOK, RowShape,
     HoldsWhileProcessing, NobodyHoldsAtRest, SoleOwner, OwnerAgrees, Agrees,
     NoOrphanWhileUp, ClaimableIsRunnable, With
<1>6. QED
  BY <1>1, <1>2, <1>3, <1>4, <1>5 DEF Next

THEOREM Invariance == Spec => []IInv
<1>1. QED
  BY InitIInv, NextIInv, PTL DEF Spec

(* Every variable of the service keeps its type: the columns of a row, the *)
(* attempts within the cap, the places of the workers.                     *)
THEOREM TypeCorrect == Spec => []TypeOK
<1>1. IInv => TypeOK
  BY DEF IInv
<1>2. QED
  BY <1>1, Invariance, PTL

(* No two workers process the same article, however many there are.        *)
THEOREM OneOwner == Spec => []SoleOwner
<1>1. IInv => SoleOwner
  BY DEF IInv
<1>2. QED
  BY <1>1, Invariance, PTL

(* A worker's copy of its job agrees with the row it reports on.           *)
THEOREM CopiesAgree == Spec => []OwnerAgrees
<1>1. IInv => OwnerAgrees
  BY DEF IInv
<1>2. QED
  BY <1>1, Invariance, PTL

(* No running row is without an owner while the service is up.             *)
THEOREM NoOrphans == Spec => []NoOrphanWhileUp
<1>1. IInv => NoOrphanWhileUp
  BY DEF IInv
<1>2. QED
  BY <1>1, Invariance, PTL

(* Every job that can be claimed has an attempt and a stage left.          *)
THEOREM ClaimsAreRunnable == Spec => []ClaimableIsRunnable
<1>1. IInv => ClaimableIsRunnable
  BY DEF IInv
<1>2. QED
  BY <1>1, Invariance, PTL

-----------------------------------------------------------------------------
(***************************************************************************)
(* PipelineService implements JobLifecycle, and a drain that exits has     *)
(* drained: both from the inductive invariant above.                       *)
(***************************************************************************)

LEMMA PhaseFacts ==
  /\ PhaseOf("absent") = "absent"
  /\ PhaseOf("pending") = "queued"
  /\ PhaseOf("running") = "taken"
  /\ PhaseOf("failed") = "parked"
  /\ PhaseOf("done") = "done"
BY DEF PhaseOf

(* What JobLifecycle sees of the service. *)
Phase == [u \in Urls |-> PhaseOf(job[u].status)]
Stage == [u \in Urls |-> job[u].stage]

LEMMA RefinesInit == Init => Lifecycle!Init
<1> SUFFICES ASSUME Init PROVE Lifecycle!Init
  OBVIOUS
<1>1. \A u \in Urls : job[u].status = "absent" /\ job[u].stage = Scrape
  BY NoRowFacts DEF Init
<1>2. QED
  BY <1>1, PhaseFacts DEF Init, Lifecycle!Init, Scrape, Lifecycle!Scrape

(* A step that leaves the table's status and stage and the history alone   *)
(* is no step of the lifecycle.                                            *)
LEMMA Stutters ==
  ASSUME UNCHANGED <<job, ran, blank>>
  PROVE  UNCHANGED Lifecycle!lifecycle
BY DEF Lifecycle!lifecycle

LEMMA ClaimRefines ==
  ASSUME IInv, NEW w \in Workers, ClaimJob(w)
  PROVE  Lifecycle!Next
<1>1. PICK u \in Urls :
        /\ job[u].status = "pending"
        /\ job' = [job EXCEPT ![u].status = "running"]
  BY DEF ClaimJob, Oldest, Claimable, With
<1>2. /\ job'[u].status = "running" /\ job'[u].stage = job[u].stage
      /\ \A x \in Urls \ {u} : job'[x] = job[x]
  BY <1>1 DEF IInv, TypeOK, Row
<1>3. Lifecycle!Take(u)
  BY <1>1, <1>2, PhaseFacts DEF Lifecycle!Take, Lifecycle!Move, ClaimJob, history
<1>4. QED
  BY <1>3 DEF Lifecycle!Next

LEMMA StageReturnsRefines ==
  ASSUME IInv, NEW w \in Workers, StageReturns(w) \/ ScrapeReturnsEmpty(w)
  PROVE  Lifecycle!Next
<1> DEFINE u == held[w]
<1>1. /\ u \in Urls /\ job[u].status = "running" /\ job[u].stage = at[w] /\ at[w] \in Stages
      /\ job' = job
  BY StageFacts DEF StageReturns, ScrapeReturnsEmpty, table
<1>2. CASE StageReturns(w)
  <2>1. Lifecycle!Work(u)
    BY <1>1, <1>2, PhaseFacts DEF Lifecycle!Work, StageReturns, Lifecycle!Stages, Stages
  <2>2. QED
    BY <1>1, <2>1 DEF Lifecycle!Next
<1>3. CASE ScrapeReturnsEmpty(w)
  <2>1. Lifecycle!FindBlank(u)
    BY <1>1, <1>3, PhaseFacts DEF Lifecycle!FindBlank, ScrapeReturnsEmpty, Lifecycle!Scrape, Scrape
  <2>2. QED
    BY <1>1, <2>1 DEF Lifecycle!Next
<1>4. QED
  BY <1>2, <1>3

LEMMA AdvanceRefines ==
  ASSUME IInv, NEW w \in Workers, Advance(w)
  PROVE  Lifecycle!Next
<1>0. PICK u \in Urls : u = held[w]
  BY AdvanceFacts DEF Advance
<1>1. /\ u \in Urls /\ job[u].status = "running" /\ job[u].stage \in Stages
      /\ at[w] \in 1..Done
  BY <1>0, AdvanceFacts DEF Advance
<1>2. /\ job'[u].stage = at[w]
      /\ job'[u].status = IF at[w] = Done THEN "done" ELSE "running"
      /\ \A x \in Urls \ {u} : job'[x] = job[x]
      /\ ran' = ran /\ blank' = blank
  BY <1>0, <1>1 DEF Advance, IInv, TypeOK, history
<1>3. \/ at[w] = job[u].stage + 1 /\ job[u].stage \in ran[u]
      \/ at[w] = Done /\ job[u].stage = Scrape /\ u \in blank
  BY <1>0 DEF Advance, IInv, OwnerAgrees, Agrees
<1>4. /\ Phase[u] = "taken" /\ Stage[u] = job[u].stage
      /\ Phase' = [Phase EXCEPT ![u] = IF at[w] = Done THEN "done" ELSE "taken"]
      /\ Stage' = [Stage EXCEPT ![u] = at[w]]
  BY <1>1, <1>2, PhaseFacts DEF Phase, Stage
<1>5. CASE at[w] = job[u].stage + 1 /\ job[u].stage \in ran[u]
  <2>1. at[w] = Done <=> job[u].stage = NumStages
    BY <1>1, <1>5, ServiceAssumption DEF Done, Stages
  <2>2. Lifecycle!Proceed(u)
    BY <1>1, <1>2, <1>4, <1>5, <2>1 DEF Lifecycle!Proceed, Phase, Stage
  <2>3. QED
    BY <2>2 DEF Lifecycle!Next
<1>6. CASE at[w] = Done /\ job[u].stage = Scrape /\ u \in blank
  <2>1. Lifecycle!Drop(u)
    BY <1>1, <1>2, <1>4, <1>6 DEF Lifecycle!Drop, Phase, Stage,
       Lifecycle!Scrape, Scrape, Lifecycle!Done, Done
  <2>2. QED
    BY <2>1 DEF Lifecycle!Next
<1>7. QED
  BY <1>3, <1>5, <1>6

LEMMA FailRefines ==
  ASSUME IInv, NEW w \in Workers, Fail(w)
  PROVE  Lifecycle!Next
<1> DEFINE u == held[w]
<1>1. u \in Urls /\ job[u].status = "running"
  BY StageFacts DEF Fail
<1>2. /\ job'[u].stage = job[u].stage
      /\ job'[u].status \in {"failed", "pending"}
      /\ \A x \in Urls \ {u} : job'[x] = job[x]
      /\ ran' = ran /\ blank' = blank
  BY <1>1 DEF Fail, IInv, TypeOK, Row, history
<1>3. CASE job'[u].status = "failed"
  <2>1. Lifecycle!Park(u)
    BY <1>1, <1>2, <1>3, PhaseFacts DEF Lifecycle!Park, Lifecycle!Move
  <2>2. QED
    BY <1>1, <2>1 DEF Lifecycle!Next
<1>4. CASE job'[u].status = "pending"
  <2>1. Lifecycle!GiveBack({u})
    BY <1>1, <1>2, <1>4, PhaseFacts DEF Lifecycle!GiveBack, Lifecycle!Move
  <2>2. {u} \in SUBSET Urls
    BY <1>1
  <2>3. QED
    BY <2>1, <2>2 DEF Lifecycle!Next
<1>5. QED
  BY <1>2, <1>3, <1>4

LEMMA EnqueueRefines ==
  ASSUME IInv, NEW u \in Urls, Enqueue(u)
  PROVE  Lifecycle!Next \/ UNCHANGED Lifecycle!lifecycle
<1>1. CASE u \in With("absent")
  <2>1. /\ job[u].status = "absent" /\ job'[u].status = "pending"
        /\ job'[u].stage = job[u].stage
        /\ \A x \in Urls \ {u} : job'[x] = job[x]
        /\ ran' = ran /\ blank' = blank
    BY <1>1 DEF Enqueue, With, IInv, TypeOK, Row, history
  <2>2. Lifecycle!Submit(u)
    BY <2>1, PhaseFacts DEF Lifecycle!Submit, Lifecycle!Move
  <2>3. QED
    BY <2>2 DEF Lifecycle!Next
<1>2. CASE u \notin With("absent")
  BY <1>2, Stutters DEF Enqueue, table, history
<1>3. QED
  BY <1>1, <1>2

LEMMA StartRefines ==
  ASSUME IInv, Start
  PROVE  Lifecycle!Next
<1> DEFINE S == {u \in Urls : job[u].status = "running"}
<1>1. \A u \in Urls :
        /\ job'[u].stage = job[u].stage
        /\ job'[u].status = IF job[u].status = "running" THEN "pending" ELSE job[u].status
  BY DEF Start, IInv, TypeOK, Row
<1>2. ran' = ran /\ blank' = blank
  BY DEF Start, history
<1>3. Lifecycle!GiveBack(S)
  BY <1>1, <1>2, PhaseFacts DEF Lifecycle!GiveBack, Lifecycle!Move
<1>4. QED
  BY <1>3 DEF Lifecycle!Next

LEMMA RequeueRefines ==
  ASSUME IInv, NEW S, RequeueFailed(S)
  PROVE  Lifecycle!Next
<1>1. /\ \A u \in S : u \in Urls /\ job[u].status = "failed"
      /\ ran' = ran /\ blank' = blank
  BY DEF RequeueFailed, With, history
<1>2. \A u \in Urls :
        /\ job'[u].stage = job[u].stage
        /\ job'[u].status = IF u \in S THEN "pending" ELSE job[u].status
  BY <1>1 DEF RequeueFailed, IInv, TypeOK, Row
<1>3. Lifecycle!Retry(S)
  BY <1>1, <1>2, PhaseFacts DEF Lifecycle!Retry, Lifecycle!Move
<1>4. S \in SUBSET Urls
  BY <1>1
<1>5. QED
  BY <1>3, <1>4 DEF Lifecycle!Next

LEMMA RefinesNext ==
  IInv /\ [Next]_vars => [Lifecycle!Next]_(Lifecycle!lifecycle)
<1> SUFFICES ASSUME IInv, [Next]_vars
             PROVE  Lifecycle!Next \/ UNCHANGED Lifecycle!lifecycle
  OBVIOUS
<1>1. ASSUME NEW w \in Workers, WorkerStep(w)
      PROVE  Lifecycle!Next \/ UNCHANGED Lifecycle!lifecycle
  <2>1. CASE ClaimJob(w) \/ StageReturns(w) \/ ScrapeReturnsEmpty(w) \/ Advance(w) \/ Fail(w)
    BY <2>1, ClaimRefines, StageReturnsRefines, AdvanceRefines, FailRefines
  <2>2. CASE \/ ClaimNothing(w) \/ FallAsleep(w) \/ CheckDrained(w) \/ PollTimeout(w)
             \/ StageRaises(w) \/ StageAborts(w) \/ StageEscapes(w)
             \/ AdvanceRaises(w) \/ QueueCallRaises(w)
    BY <2>2, Stutters DEF ClaimNothing, FallAsleep, CheckDrained, PollTimeout, StageRaises,
       StageAborts, StageEscapes, AdvanceRaises, QueueCallRaises, table, history
  <2>3. QED
    BY <1>1, <2>1, <2>2 DEF WorkerStep, RunnerEnds
<1>2. ASSUME FeedStep
      PROVE  Lifecycle!Next \/ UNCHANGED Lifecycle!lifecycle
  BY <1>2, EnqueueRefines, Stutters
     DEF FeedStep, FeedSignals, FeedEnds, FeedRaises, table, workers, history
<1>3. CASE ListenerWakes \/ Crash \/ Finish \/ \E u \in Urls : Ripen(u)
  BY <1>3, Stutters DEF ListenerWakes, Crash, Finish, Halt, Ripen, table, history
<1>4. CASE Start
  BY <1>4, StartRefines
<1>5. ASSUME NEW S, RequeueFailed(S)
      PROVE  Lifecycle!Next \/ UNCHANGED Lifecycle!lifecycle
  BY <1>5, RequeueRefines
<1>6. CASE UNCHANGED vars
  BY <1>6, Stutters DEF vars, table, history
<1>7. QED
  BY <1>1, <1>2, <1>3, <1>4, <1>5, <1>6 DEF Next

(* The service implements the lifecycle the queue promises.                *)
THEOREM Implementation == Spec => ImplementsLifecycle
<1>1. QED
  BY RefinesInit, RefinesNext, Invariance, PTL DEF Spec, ImplementsLifecycle, Lifecycle!Spec

-----------------------------------------------------------------------------

(* The stages before the recorded one were run, or the page was blank. *)
Behind(u) ==
  \/ 1..(job[u].stage - 1) \subseteq ran[u]
  \/ u \in blank /\ job[u].stage = Done

(* The argument needs nothing of the service but that it is a lifecycle:   *)
(* only Proceed and Drop move the record.                                  *)
LEMMA BehindStep ==
  ASSUME IInv, NEW u \in Urls, Behind(u), [Next]_vars
  PROVE  Behind(u)'
<1> DEFINE s == job[u].stage
<1>1. s \in Nat /\ ran \in [Urls -> SUBSET Stages]
  BY ServiceAssumption DEF IInv, TypeOK, Row, Done
<1>2. CASE job'[u].stage = s /\ ran[u] \subseteq ran'[u] /\ blank \subseteq blank'
  BY <1>2 DEF Behind
<1>3. CASE job'[u].stage = s + 1 /\ s \in ran[u] /\ ran' = ran /\ s # Done
  <2>1. 1..(s - 1) \subseteq ran[u]
    BY <1>3 DEF Behind
  <2>2. \A i \in 1..(job'[u].stage - 1) : i \in 1..(s - 1) \/ i = s
    BY <1>1, <1>3
  <2>3. QED
    BY <1>3, <2>1, <2>2 DEF Behind
<1>4. CASE job'[u].stage = Done /\ u \in blank'
  BY <1>4 DEF Behind
<1>5. ASSUME Lifecycle!Next
      PROVE  \/ job'[u].stage = s /\ ran[u] \subseteq ran'[u] /\ blank \subseteq blank'
             \/ job'[u].stage = s + 1 /\ s \in ran[u] /\ ran' = ran
             \/ job'[u].stage = Done /\ u \in blank'
  <2>1. ASSUME NEW x \in Urls, Lifecycle!Work(x) \/ Lifecycle!FindBlank(x)
        PROVE  job'[u].stage = s /\ ran[u] \subseteq ran'[u] /\ blank \subseteq blank'
    BY <2>1, <1>1 DEF Lifecycle!Work, Lifecycle!FindBlank
  <2>2. ASSUME NEW x \in Urls, Lifecycle!Proceed(x)
        PROVE  /\ ran' = ran /\ blank' = blank
               /\ IF x = u THEN job'[u].stage = s + 1 /\ s \in ran[u]
                           ELSE job'[u].stage = s
    BY <2>2 DEF Lifecycle!Proceed
  <2>3. ASSUME NEW x \in Urls, Lifecycle!Drop(x)
        PROVE  /\ ran' = ran /\ blank' = blank
               /\ IF x = u THEN job'[u].stage = Done /\ u \in blank
                           ELSE job'[u].stage = s
    BY <2>3 DEF Lifecycle!Drop, Lifecycle!Done, Done
  <2>4. ASSUME NEW x \in Urls, Lifecycle!Submit(x) \/ Lifecycle!Take(x) \/ Lifecycle!Park(x)
        PROVE  job'[u].stage = s /\ ran' = ran /\ blank' = blank
    BY <2>4 DEF Lifecycle!Submit, Lifecycle!Take, Lifecycle!Park
  <2>5. ASSUME NEW S, Lifecycle!GiveBack(S) \/ Lifecycle!Retry(S)
        PROVE  job'[u].stage = s /\ ran' = ran /\ blank' = blank
    BY <2>5 DEF Lifecycle!GiveBack, Lifecycle!Retry
  <2>6. QED
    BY <1>5, <2>1, <2>2, <2>3, <2>4, <2>5 DEF Lifecycle!Next
<1>6. CASE UNCHANGED Lifecycle!lifecycle
  <2>1. job'[u].stage = s /\ ran' = ran /\ blank' = blank
    BY <1>6 DEF Lifecycle!lifecycle
  <2>2. QED
    BY <2>1, <1>2
<1>7. s # Done \/ job'[u].stage # s + 1
  <2>1. job'[u].stage \in 1..Done
    BY NextIInv DEF IInv, TypeOK, Row
  <2>2. QED
    BY <2>1, ServiceAssumption DEF Done
<1>8. QED
  BY RefinesNext, <1>2, <1>3, <1>4, <1>5, <1>6, <1>7

(* No row is ever ahead of the work done for its article.                  *)
THEOREM RecordIsHonest == Spec => []RecordBehindWork
<1> DEFINE AllBehind == \A u \in Urls : Behind(u)
<1>1. Init => AllBehind
  <2> SUFFICES ASSUME Init, NEW u \in Urls PROVE Behind(u)
    OBVIOUS
  <2>1. job[u].stage = 1
    BY NoRowFacts DEF Init, Scrape
  <2>2. 1..(job[u].stage - 1) = {}
    BY <2>1
  <2>3. QED
    BY <2>2 DEF Behind
<1>2. IInv /\ AllBehind /\ [Next]_vars => AllBehind'
  BY BehindStep
<1>3. IInv /\ AllBehind => RecordBehindWork
  BY DEF IInv, RowShape, RecordBehindWork, Behind
<1>4. QED
  BY <1>1, <1>2, <1>3, Invariance, PTL DEF Spec

-----------------------------------------------------------------------------

(* A worker that asks whether the table is drained knows that the feed is  *)
(* done, and it stays done for the rest of the run.                        *)
AsksAfterFeed ==
  svc = "up" => \A w \in Workers : pc[w] \in {"drain", "exited"} => FeedDone

LEMMA DrainStep ==
  ASSUME IInv, AsksAfterFeed, DrainExitsDrained, Retryable = {}, [Next]_vars
  PROVE  AsksAfterFeed' /\ DrainExitsDrained'
<1> USE DEF FeedDone
<1>1. SUFFICES ASSUME svc' = "up", NEW v \in Workers, pc'[v] \in {"drain", "exited"}
               PROVE  FeedDone' /\ (pc'[v] = "exited" => QueueDrained')
  BY DEF AsksAfterFeed, DrainExitsDrained
<1>2. ASSUME NEW w \in Workers, WorkerStep(w)
      PROVE  FeedDone' /\ (pc'[v] = "exited" => QueueDrained')
  <2>1. svc = "up" /\ feed' = feed
    BY <1>1, <1>2 DEF WorkerStep, RunnerEnds, ClaimJob, ClaimNothing, FallAsleep, CheckDrained,
       PollTimeout, StageReturns, ScrapeReturnsEmpty, StageRaises, StageAborts, StageEscapes,
       Advance, AdvanceRaises, Fail, QueueCallRaises, Unwind, process
  <2>2. CASE ClaimNothing(w) \/ FallAsleep(w) \/ CheckDrained(w) \/ PollTimeout(w)
               \/ StageReturns(w) \/ ScrapeReturnsEmpty(w) \/ StageRaises(w)
               \/ StageAborts(w) \/ AdvanceRaises(w)
    <3>1. job' = job
      BY <2>2 DEF ClaimNothing, FallAsleep, CheckDrained, PollTimeout, StageReturns,
         ScrapeReturnsEmpty, StageRaises, StageAborts, AdvanceRaises, table
    <3>2. v # w => pc'[v] = pc[v]
      BY <2>2 DEF ClaimNothing, FallAsleep, CheckDrained, PollTimeout, StageReturns,
         ScrapeReturnsEmpty, StageRaises, StageAborts, AdvanceRaises, Goto, IInv, TypeOK
    <3>3. CASE v # w
      BY <1>1, <2>1, <3>1, <3>2, <3>3 DEF AsksAfterFeed, DrainExitsDrained, QueueDrained, With
    <3>4. CASE v = w
      <4>1. pc'[w] = "drain" => FeedDone
        BY <2>2, <3>4, <1>1 DEF ClaimNothing, FallAsleep, CheckDrained, PollTimeout,
           StageReturns, ScrapeReturnsEmpty, StageRaises, StageAborts, AdvanceRaises,
           Goto, IInv, TypeOK
      <4>2. pc'[w] = "exited" => pc[w] = "drain" /\ QueueDrained
        BY <2>2 DEF ClaimNothing, FallAsleep, CheckDrained, PollTimeout,
           StageReturns, ScrapeReturnsEmpty, StageRaises, StageAborts, AdvanceRaises,
           Goto, IInv, TypeOK
      <4>3. QED
        BY <1>1, <2>1, <3>1, <3>4, <4>1, <4>2 DEF AsksAfterFeed, QueueDrained, With
    <3>5. QED
      BY <3>3, <3>4
  <2>3. CASE ClaimJob(w) \/ Advance(w) \/ Fail(w)
    <3>1. \E u \in Urls : job[u].status \in {"pending", "running"}
      BY <2>3, StageFacts, AdvanceFacts DEF ClaimJob, Oldest, Claimable, With, Advance, Fail
    <3>2. v # w /\ pc'[v] = pc[v]
      BY <1>1, <2>3 DEF ClaimJob, Advance, Fail, Goto, LetGo, IInv, TypeOK
    <3>3. pc[v] # "exited"
      BY <2>1, <3>1 DEF DrainExitsDrained, QueueDrained, With
    <3>4. QED
      BY <1>1, <2>1, <3>2, <3>3 DEF AsksAfterFeed
  <2>4. CASE StageEscapes(w) \/ QueueCallRaises(w)
    BY <1>1, <2>4 DEF StageEscapes, QueueCallRaises, Unwind
  <2>5. QED
    BY <1>2, <2>2, <2>3, <2>4 DEF WorkerStep, RunnerEnds
<1>3. ASSUME FeedStep \/ ListenerWakes \/ \E u \in Urls : Ripen(u)
      PROVE  FeedDone' /\ (pc'[v] = "exited" => QueueDrained')
  <2>1. svc = "up" /\ pc'[v] = pc[v]
    BY <1>1, <1>3 DEF FeedStep, Enqueue, FeedSignals, FeedEnds, FeedRaises, ListenerWakes,
       Ripen, WakeAll, process, workers
  <2>2. FeedDone
    BY <1>1, <2>1 DEF AsksAfterFeed
  <2>3. ListenerWakes \/ \E u \in Urls : Ripen(u)
    BY <1>3, <2>2 DEF FeedStep, Enqueue, FeedSignals, FeedEnds, FeedRaises
  <2>4. job' = job /\ feed' = feed
    BY <2>3 DEF ListenerWakes, Ripen, table, process
  <2>5. QED
    BY <1>1, <2>1, <2>2, <2>4 DEF DrainExitsDrained, QueueDrained, With
<1>4. CASE Start \/ Crash \/ Finish
  BY <1>1, <1>4 DEF Start, Crash, Finish, Halt
<1>5. ASSUME NEW S \in {{u} : u \in Retryable} \cup {With("failed")}, RequeueFailed(S)
      PROVE  FALSE
  BY <1>5 DEF RequeueFailed
<1>6. CASE UNCHANGED vars
  BY <1>1, <1>6 DEF vars, table, process, workers, AsksAfterFeed, DrainExitsDrained,
     QueueDrained, With
<1>7. QED
  BY <1>2, <1>3, <1>4, <1>5, <1>6 DEF Next

(* When no operator retries jobs, a worker of a drain that has returned    *)
(* leaves nothing to do, and nothing comes up afterwards.                  *)
THEOREM DrainIsComplete == Retryable = {} => (Spec => []DrainExitsDrained)
<1> SUFFICES ASSUME Retryable = {} PROVE Spec => []DrainExitsDrained
  OBVIOUS
<1>1. Init => AsksAfterFeed /\ DrainExitsDrained
  BY DEF Init, AsksAfterFeed, DrainExitsDrained
<1>2. IInv /\ AsksAfterFeed /\ DrainExitsDrained /\ [Next]_vars
        => AsksAfterFeed' /\ DrainExitsDrained'
  BY DrainStep
<1>3. QED
  BY <1>1, <1>2, Invariance, PTL DEF Spec

=============================================================================
