--------------------------- MODULE ScrapingProofs ---------------------------
(***************************************************************************)
(* Proofs about Scraping and the DomainLimiter inside it, for any number   *)
(* of workers, URLs and domains, any limits, and any CSV file.             *)
(*                                                                         *)
(* The limiter's part is proved once per operation of the limiter: permits *)
(* are never exceeded, and with one permit a task that sleeps wakes up     *)
(* when the delay is over, because nobody else can start meanwhile.  The   *)
(* command's part is that its workers use the limiter, the robots cache    *)
(* and the browser through these operations only.                          *)
(*                                                                         *)
(* The next part is about the rows of a run: none is lost or counted twice *)
(* between the queue, the workers and the sentinels, and a good page is    *)
(* never fetched and replaced again.  Both follow from where a row can be: *)
(* still in the file, on the queue, in the hands of one worker, or         *)
(* counted.                                                                *)
(*                                                                         *)
(* The last part is the safety half of RunEnds: while a run goes on,       *)
(* somebody has a turn, and every turn but the clock's brings the run      *)
(* nearer to its end.                                                      *)
(***************************************************************************)
EXTENDS Scraping, FiniteSetTheorems, TLAPS

Capped == \A d \in Domains : IsFiniteSet(Holders(d)) /\ Cardinality(Holders(d)) <= PerDomain

SoleHolder == \A d \in Domains : \A t, u \in Holders(d) : t = u

(* A sleeping task sleeps until the delay since the last start is over. *)
SleepsLongEnough ==
  \A t \in Tasks : In(t, "asleep") => left[t] + since[slot[t].domain] >= Delay

LimiterInv ==
  /\ LimiterTypeOK
  /\ Capped
  /\ PerDomain = 1 => SoleHolder /\ SleepsLongEnough

-----------------------------------------------------------------------------
(***************************************************************************)
(* The limiter                                                             *)
(***************************************************************************)

LEMMA HoldersChange ==
  ASSUME LimiterTypeOK, NEW t \in Tasks, NEW place \in Places,
         slot' = [slot EXCEPT ![t] = place], NEW d \in Domains
  PROVE  Holders(d)' = IF place.at \in {"asleep", "inside"} /\ place.domain = d
                         THEN Holders(d) \cup {t} ELSE Holders(d) \ {t}
BY DEF LimiterTypeOK, Holders

LEMMA InitLimiter == LimiterInit => LimiterInv
<1> SUFFICES ASSUME LimiterInit PROVE LimiterInv
  OBVIOUS
<1> USE LimiterAssumption DEF LimiterInit
<1>1. \A t \in Tasks : slot[t].at = "out"
  BY DEF Outside
<1>2. \A d \in Domains : Holders(d) = {}
  BY <1>1 DEF Holders
<1>3. LimiterTypeOK
  BY DEF LimiterTypeOK, Places, Outside
<1>4. Capped
  <2>1. IsFiniteSet({}) /\ Cardinality({}) = 0
    BY FS_EmptySet
  <2>2. \A d \in Domains : Cardinality(Holders(d)) = 0 /\ IsFiniteSet(Holders(d))
    BY <1>2, <2>1
  <2> QED
    BY <2>2 DEF Capped
<1>5. SoleHolder
  BY <1>2 DEF SoleHolder
<1>6. SleepsLongEnough
  BY <1>1 DEF SleepsLongEnough, In
<1> QED
  BY <1>3, <1>4, <1>5, <1>6 DEF LimiterInv

LEMMA EnterLimiter ==
  ASSUME LimiterInv, NEW t \in Tasks, NEW d \in Domains, Enter(t, d)
  PROVE  LimiterInv'
<1> USE LimiterAssumption DEF Enter
<1> DEFINE place == [at |-> "queued", domain |-> d]
<1>1. place \in Places /\ LimiterTypeOK
  BY DEF Places, LimiterInv
<1>2. \A e \in Domains : Holders(e)' = Holders(e)
  BY <1>1 DEF LimiterTypeOK, Holders, In
<1>3. LimiterTypeOK'
  BY <1>1 DEF LimiterTypeOK
<1>4. Capped'
  BY <1>2 DEF LimiterInv, Capped
<1>5. SoleHolder => SoleHolder'
  BY <1>2 DEF SoleHolder
<1>6. SleepsLongEnough => SleepsLongEnough'
  BY <1>1 DEF SleepsLongEnough, In, LimiterTypeOK
<1> QED
  BY <1>3, <1>4, <1>5, <1>6 DEF LimiterInv

(* The permit is there: the domain has a holder less than it may. *)
LEMMA GrantLimiter ==
  ASSUME LimiterInv, NEW t \in Tasks, Grant(t)
  PROVE  LimiterInv'
<1> USE LimiterAssumption
<1>1. PICK d \in Domains :
        /\ LimiterTypeOK /\ In(t, "queued") /\ d = slot[t].domain
        /\ waiters[d] # <<>> /\ Cardinality(Holders(d)) < PerDomain
        /\ waiters' = [waiters EXCEPT ![d] = Tail(@)]
  BY DEF Grant, LimiterInv, LimiterTypeOK, Places, In
<1>2. PICK where \in {"asleep", "inside"} :
        /\ slot' = [slot EXCEPT ![t] = [at |-> where, domain |-> d]]
        /\ where = "asleep" => /\ left' = [left EXCEPT ![t] = Delay - since[d]]
                               /\ since' = since /\ since[d] < Delay
        /\ where = "inside" => left' = left /\ since' = [since EXCEPT ![d] = 0]
  <2>1. CASE since[d] >= Delay
    BY <1>1, <2>1 DEF Grant, Pass
  <2>2. CASE ~(since[d] >= Delay)
    <3>1. since[d] < Delay
      BY <1>1, <2>2 DEF LimiterTypeOK
    <3> QED
      BY <1>1, <2>2, <3>1 DEF Grant
  <2> QED
    BY <2>1, <2>2
<1>3. [at |-> where, domain |-> d] \in Places
  BY <1>1 DEF Places
<1>8. since[d] \in 0..Delay /\ Delay - since[d] \in 0..Delay /\ 0 \in 0..Delay
  BY <1>1 DEF LimiterTypeOK
<1>4. LimiterTypeOK'
  <2>1. waiters' \in [Domains -> Seq(Tasks)]
    BY <1>1 DEF LimiterTypeOK
  <2>2. slot' \in [Tasks -> Places]
    BY <1>1, <1>2, <1>3 DEF LimiterTypeOK
  <2>3. left' \in [Tasks -> 0..Delay] /\ since' \in [Domains -> 0..Delay]
    <3>1. CASE where = "asleep"
      BY <1>1, <1>2, <1>8, <3>1 DEF LimiterTypeOK
    <3>2. CASE where = "inside"
      <4>1. left' = left /\ since' = [since EXCEPT ![d] = 0]
        BY <1>2, <3>2
      <4> QED
        BY <1>1, <1>8, <4>1 DEF LimiterTypeOK
    <3> QED
      BY <3>1, <3>2
  <2> QED
    BY <2>1, <2>2, <2>3 DEF LimiterTypeOK
<1>5. /\ Holders(d)' = Holders(d) \cup {t} /\ t \notin Holders(d)
      /\ \A e \in Domains \ {d} : Holders(e)' = Holders(e)
  BY <1>1, <1>2 DEF LimiterTypeOK, Holders, In
<1>6. Capped'
  <2>1. IsFiniteSet(Holders(d)) /\ Cardinality(Holders(d)) \in Nat
    BY <1>1, FS_CardinalityType DEF LimiterInv, Capped
  <2>2. /\ IsFiniteSet(Holders(d) \cup {t})
        /\ Cardinality(Holders(d) \cup {t}) = Cardinality(Holders(d)) + 1
    BY <1>5, <2>1, FS_AddElement
  <2>3. IsFiniteSet(Holders(d)') /\ Cardinality(Holders(d)') <= PerDomain
    BY <1>1, <1>5, <2>1, <2>2
  <2> SUFFICES ASSUME NEW e \in Domains
               PROVE  IsFiniteSet(Holders(e)') /\ Cardinality(Holders(e)') <= PerDomain
    BY DEF Capped
  <2>4. CASE e # d
    BY <1>5, <2>4 DEF LimiterInv, Capped
  <2>5. CASE e = d
    BY <2>3, <2>5 DEF Holders
  <2> QED
    BY <2>4, <2>5
<1>7. PerDomain = 1 => SoleHolder' /\ SleepsLongEnough'
  <2> SUFFICES ASSUME PerDomain = 1 PROVE SoleHolder' /\ SleepsLongEnough'
    OBVIOUS
  <2>1. Holders(d) = {}
    BY <1>1, FS_EmptySet, FS_CardinalityType DEF LimiterInv, Capped
  <2>2. SoleHolder'
    <3> SUFFICES ASSUME NEW e \in Domains, NEW u \in Holders(e)', NEW v \in Holders(e)'
                 PROVE  u = v
      BY DEF SoleHolder
    <3>1. CASE e = d
      BY <1>5, <2>1, <3>1 DEF Holders
    <3>2. CASE e # d
      BY <1>5, <3>2 DEF LimiterInv, SoleHolder
    <3> QED
      BY <3>1, <3>2
  <2>3. \A u \in Tasks : In(u, "asleep") => slot[u].domain # d
    BY <2>1 DEF Holders, In
  <2>4. SleepsLongEnough'
    <3>1. \A u \in Tasks \ {t} : slot'[u] = slot[u]
      BY <1>1, <1>2 DEF LimiterTypeOK
    <3>2. \A u \in Tasks \ {t} :
            In(u, "asleep") => left[u] + since[slot[u].domain] >= Delay /\ slot[u].domain \in Domains
      BY <1>1 DEF LimiterInv, LimiterTypeOK, Places, SleepsLongEnough, In
    <3>3. slot'[t] = [at |-> where, domain |-> d]
      BY <1>1, <1>2 DEF LimiterTypeOK
    <3>4. CASE where = "asleep"
      <4>1. left'[t] + since'[d] >= Delay
        BY <1>1, <1>2, <1>8, <3>4 DEF LimiterTypeOK
      <4>2. \A u \in Tasks \ {t} : left'[u] = left[u]
        BY <1>1, <1>2, <3>4 DEF LimiterTypeOK
      <4> QED
        BY <1>2, <3>1, <3>2, <3>3, <3>4, <4>1, <4>2 DEF SleepsLongEnough, In
    <3>5. CASE where = "inside"
      <4>1. \A e \in Domains \ {d} : since'[e] = since[e]
        BY <1>1, <1>2, <3>5 DEF LimiterTypeOK
      <4> QED
        BY <1>2, <2>3, <3>1, <3>2, <3>3, <3>5, <4>1 DEF SleepsLongEnough, In
    <3> QED
      BY <3>4, <3>5
  <2> QED
    BY <2>2, <2>4
<1> QED
  BY <1>4, <1>6, <1>7 DEF LimiterInv

(* With one permit nobody else sleeps for the domain. *)
LEMMA WakeUpLimiter ==
  ASSUME LimiterInv, NEW t \in Tasks, WakeUp(t)
  PROVE  LimiterInv'
<1> USE LimiterAssumption DEF WakeUp, Pass
<1>1. PICK d \in Domains :
        /\ LimiterTypeOK /\ In(t, "asleep")
        /\ slot[t] = [at |-> "asleep", domain |-> d]
        /\ [at |-> "inside", domain |-> d] \in Places
  BY DEF LimiterInv, LimiterTypeOK, Places, In
<1>2. LimiterTypeOK'
  BY <1>1 DEF LimiterTypeOK
<1>3. \A e \in Domains : Holders(e)' = Holders(e)
  BY <1>1 DEF LimiterTypeOK, Holders, In
<1>4. Capped'
  BY <1>3 DEF LimiterInv, Capped
<1>5. PerDomain = 1 => SoleHolder' /\ SleepsLongEnough'
  <2> SUFFICES ASSUME PerDomain = 1 PROVE SoleHolder' /\ SleepsLongEnough'
    OBVIOUS
  <2>1. SoleHolder'
    BY <1>3 DEF LimiterInv, SoleHolder
  <2>2. \A u \in Tasks \ {t} : In(u, "asleep") => slot[u].domain # d
    BY <1>1 DEF LimiterInv, SoleHolder, Holders, In
  <2>3. SleepsLongEnough'
    BY <1>1, <2>2 DEF LimiterInv, LimiterTypeOK, SleepsLongEnough, In
  <2> QED
    BY <2>1, <2>3
<1> QED
  BY <1>2, <1>4, <1>5 DEF LimiterInv

LEMMA LeaveLimiter ==
  ASSUME LimiterInv, NEW t \in Tasks, Leave(t)
  PROVE  LimiterInv'
<1> USE LimiterAssumption DEF Leave
<1>1. LimiterTypeOK /\ Outside \in Places /\ Outside.at = "out"
  BY DEF LimiterInv, Outside, Places
<1>2. LimiterTypeOK'
  BY <1>1 DEF LimiterTypeOK
<1>3. \A e \in Domains : Holders(e)' = Holders(e) \/ Holders(e)' = Holders(e) \ {t}
  BY <1>1 DEF LimiterTypeOK, Holders, In
<1>4. Capped'
  <2> SUFFICES ASSUME NEW e \in Domains
               PROVE  IsFiniteSet(Holders(e)') /\ Cardinality(Holders(e)') <= PerDomain
    BY DEF Capped
  <2>1. IsFiniteSet(Holders(e)) /\ Cardinality(Holders(e)) <= PerDomain
    BY DEF LimiterInv, Capped
  <2>2. /\ IsFiniteSet(Holders(e) \ {t}) /\ Cardinality(Holders(e)) \in Nat
        /\ Cardinality(Holders(e) \ {t}) \in {Cardinality(Holders(e)), Cardinality(Holders(e)) - 1}
    BY <2>1, FS_CardinalityType, FS_RemoveElement
  <2>3. CASE Holders(e)' = Holders(e)
    BY <2>1, <2>3
  <2>4. CASE Holders(e)' = Holders(e) \ {t}
    <3>1. Cardinality(Holders(e)') <= Cardinality(Holders(e))
      BY <2>2, <2>4
    <3> QED
      BY <2>1, <2>2, <2>4, <3>1
  <2> QED
    BY <1>3, <2>3, <2>4
<1>5. SoleHolder => SoleHolder'
  BY <1>3 DEF SoleHolder
<1>6. SleepsLongEnough => SleepsLongEnough'
  BY <1>1 DEF SleepsLongEnough, In, LimiterTypeOK
<1> QED
  BY <1>2, <1>4, <1>5, <1>6 DEF LimiterInv

LEMMA TickLimiter ==
  ASSUME LimiterInv, Tick
  PROVE  LimiterInv'
<1> USE LimiterAssumption DEF Tick
<1>1. LimiterTypeOK'
  BY DEF LimiterInv, LimiterTypeOK
<1>2. \A d \in Domains : Holders(d)' = Holders(d)
  BY DEF Holders
<1>3. Capped' /\ (SoleHolder => SoleHolder')
  BY <1>2 DEF LimiterInv, Capped, SoleHolder
<1>4. SleepsLongEnough => SleepsLongEnough'
  BY DEF LimiterInv, LimiterTypeOK, Places, SleepsLongEnough, In
<1> QED
  BY <1>1, <1>3, <1>4 DEF LimiterInv

LEMMA SameLimiter ==
  ASSUME LimiterInv, UNCHANGED limiter
  PROVE  LimiterInv'
<1> USE DEF limiter
<1>1. \A d \in Domains : Holders(d)' = Holders(d)
  BY DEF Holders
<1> QED
  BY <1>1 DEF LimiterInv, LimiterTypeOK, Capped, SoleHolder, SleepsLongEnough, In

-----------------------------------------------------------------------------
(***************************************************************************)
(* The command                                                             *)
(***************************************************************************)

Working == PCs \ {"off", "get", "returned"}

(* TypeOK, component by component. *)
ConveyorType ==
  /\ run \in {"off", "producing", "joining", "finished"}
  /\ starts \in 0..MaxStarts
  /\ file \in Files
  /\ produced \in 0..Len(file)
  /\ stops \in 0..Cardinality(Workers)
  /\ Len(queue) <= QueueSize
  /\ queue \in Seq(Urls \cup {Stop})

WorkerType ==
  /\ pc \in [Workers -> PCs]
  /\ job \in [Workers -> Urls \cup {None}]
  /\ tries \in [Workers -> 0..Attempts]
  /\ found \in [Workers -> [response : Responses, text : Texts]]

CountsType == counts \in [{"ok", "empty", "error", "skip"} -> Nat]

RobotsType ==
  robots \in [holder : Workers \cup {None},
              known : SUBSET Hosts,
              disallowed : [Hosts -> SUBSET Urls],
              fetches : [Hosts -> Nat],
              raised : [Hosts -> Nat]]

BrowserType ==
  browser \in [holder : Workers \cup {None}, up : {"no", "half", "yes"}, launches : Nat]

PageType == page \in [Urls -> Statuses]

LEMMA TypeParts ==
  /\ TypeOK => ConveyorType /\ WorkerType /\ CountsType /\ RobotsType /\ BrowserType /\ PageType
  /\ LimiterTypeOK /\ ConveyorType /\ WorkerType /\ CountsType
       /\ RobotsType /\ BrowserType /\ PageType => TypeOK
<1>1. TypeOK => ConveyorType /\ WorkerType /\ CountsType /\ RobotsType /\ BrowserType /\ PageType
  BY Zenon DEF TypeOK, ConveyorType, WorkerType, CountsType, RobotsType, BrowserType, PageType
<1>2. LimiterTypeOK /\ ConveyorType /\ WorkerType /\ CountsType
        /\ RobotsType /\ BrowserType /\ PageType => TypeOK
  BY Zenon DEF TypeOK, ConveyorType, WorkerType, CountsType, RobotsType, BrowserType, PageType
<1> QED
  BY <1>1, <1>2

JobHeld == \A w \in Workers : pc[w] \in Working => job[w] \in Urls

(* Whoever asks for robots.txt holds the lock and found nothing cached;    *)
(* what was asked for is cached, or its parsing or request raised.         *)
RobotsOnce ==
  /\ \A h \in Hosts :
       robots.fetches[h] = robots.raised[h] + (IF h \in robots.known THEN 1 ELSE 0)
  /\ \A w \in Workers :
       /\ pc[w] \in {"locked", "asking"} => robots.holder = w
       /\ pc[w] = "asking" => Host(w) \notin robots.known

(* The browser is launched by the holder of the lock, who found none. *)
BrowserOnce ==
  /\ \A w \in Workers : pc[w] = "launch" => browser.holder = w /\ browser.up = "no"
  /\ IF run = "finished"
       THEN browser.launches \in {0, 1} /\ \A w \in Workers : pc[w] = "returned"
       ELSE browser.launches = IF browser.up = "no" THEN 0 ELSE 1

IInv ==
  /\ LimiterInv /\ ConveyorType /\ WorkerType /\ CountsType /\ PageType
  /\ JobHeld
  /\ RobotsType /\ RobotsOnce
  /\ BrowserType /\ BrowserOnce

LEMMA InitIInv == Init => IInv
<1> SUFFICES ASSUME Init PROVE IInv
  OBVIOUS
<1> USE LimiterAssumption, ScrapingAssumption
<1>1. LimiterInv
  BY InitLimiter DEF Init
<1>2. ConveyorType
  BY FS_CardinalityType DEF Init, ConveyorType, Workers
<1>3. WorkerType /\ JobHeld
  BY DEF Init, Idle, Nothing, WorkerType, JobHeld, Working, PCs, Responses, Texts
<1>4. CountsType /\ PageType
  BY DEF Init, NoCounts, CountsType, PageType, Statuses
<1>5. RobotsType /\ RobotsOnce
  BY DEF Init, Idle, NoRobots, RobotsType, RobotsOnce
<1>6. BrowserType /\ BrowserOnce
  BY DEF Init, Idle, NoBrowser, BrowserType, BrowserOnce
<1> QED
  BY <1>1, <1>2, <1>3, <1>4, <1>5, <1>6 DEF IInv

(* A new run of the command starts from nothing but the table. *)
LEMMA AnewIInv ==
  ASSUME IInv, NEW label \in {"get", "off"}, Anew(label),
         run' \in {"producing", "off"}, starts' \in 0..MaxStarts
  PROVE  IInv'
<1> USE LimiterAssumption, ScrapingAssumption DEF Workers
<1>1. LimiterInv'
  <2>1. LimiterInit'
    BY DEF Anew, LimiterInit
  <2> QED
    BY <2>1, InitLimiter, PTL
<1>2. ConveyorType'
  <2>1. Cardinality(Tasks) \in Nat
    BY FS_CardinalityType
  <2>2. file \in Seq(Urls)
    BY DEF IInv, ConveyorType
  <2> QED
    BY <2>1, <2>2 DEF Anew, IInv, ConveyorType
<1>3. WorkerType' /\ JobHeld'
  BY DEF Anew, Nothing, WorkerType, JobHeld, Working, PCs, Responses, Texts
<1>4. CountsType' /\ PageType'
  BY DEF Anew, IInv, NoCounts, CountsType, PageType
<1>5. RobotsType' /\ RobotsOnce'
  BY DEF Anew, NoRobots, RobotsType, RobotsOnce
<1>6. BrowserType' /\ BrowserOnce'
  BY DEF Anew, NoBrowser, BrowserType, BrowserOnce
<1> QED
  BY <1>1, <1>2, <1>3, <1>4, <1>5, <1>6 DEF IInv

(* A worker is done with its job. *)
LEMMA EndsWorker ==
  ASSUME IInv, NEW w \in Workers,
         NEW outcome \in {"ok", "empty", "error", "skip"}, Ends(w, outcome)
  PROVE  WorkerType' /\ JobHeld' /\ CountsType'
<1> USE ScrapingAssumption DEF Ends, Goto
<1>1. "get" \in PCs /\ "get" \notin Working /\ Nothing \in [response : Responses, text : Texts]
  BY DEF PCs, Working, Nothing, Responses, Texts
<1>2. WorkerType'
  BY <1>1 DEF IInv, WorkerType
<1>3. JobHeld'
  BY <1>1 DEF IInv, WorkerType, JobHeld
<1>4. CountsType'
  BY DEF IInv, CountsType
<1> QED
  BY <1>2, <1>3, <1>4

LEMMA ProduceIInv ==
  ASSUME IInv, Produce
  PROVE  IInv'
<1> USE DEF Workers
<1>1. LimiterInv'
  BY SameLimiter DEF Produce, IInv
<1>2. ConveyorType'
  <2>1. /\ run = "producing" /\ Len(queue) < QueueSize
        /\ \/ /\ produced < Rows
              /\ queue' = Append(queue, file[produced + 1]) /\ produced' = produced + 1
              /\ stops' = stops
           \/ /\ stops < Cardinality(Workers)
              /\ queue' = Append(queue, Stop) /\ stops' = stops + 1
              /\ produced' = produced
        /\ UNCHANGED <<run, starts, file>>
    BY DEF Produce
  <2>2. Cardinality(Workers) \in Nat /\ file \in Seq(Urls) /\ {Limit, QueueSize} \subseteq Nat
    BY FS_CardinalityType, LimiterAssumption, ScrapingAssumption DEF IInv, ConveyorType
  <2>3. produced < Rows => produced' \in 0..Len(file) /\ file[produced + 1] \in Urls
    BY <2>1, <2>2 DEF IInv, ConveyorType, Rows
  <2>4. stops < Cardinality(Workers) => stops + 1 \in 0..Cardinality(Workers)
    BY <2>2 DEF IInv, ConveyorType
  <2>5. queue' \in Seq(Urls \cup {Stop}) /\ Len(queue') <= QueueSize
    <3>1. queue \in Seq(Urls \cup {Stop}) /\ Len(queue) < QueueSize /\ QueueSize \in Nat
      BY <2>1, <2>2 DEF IInv, ConveyorType
    <3>2. PICK x \in Urls \cup {Stop} : queue' = Append(queue, x)
      BY <2>1, <2>3
    <3> QED
      BY <3>1, <3>2
  <2> QED
    BY <2>1, <2>2, <2>3, <2>4, <2>5 DEF IInv, ConveyorType
<1>3. WorkerType' /\ JobHeld'
  BY DEF Produce, IInv, WorkerType, JobHeld, Working, PCs, worker
<1>4. CountsType' /\ PageType'
  BY DEF Produce, IInv, CountsType, PageType
<1>5. RobotsType' /\ RobotsOnce'
  BY DEF Produce, IInv, WorkerType, RobotsType, RobotsOnce, Host, worker
<1>6. BrowserType' /\ BrowserOnce'
  BY DEF Produce, IInv, WorkerType, BrowserType, BrowserOnce, worker, conveyor
<1> QED
  BY <1>1, <1>2, <1>3, <1>4, <1>5, <1>6 DEF IInv

LEMMA JoinsIInv ==
  ASSUME IInv, Joins
  PROVE  IInv'
<1> USE DEF Workers
<1>1. LimiterInv'
  BY SameLimiter DEF Joins, IInv
<1>2. ConveyorType'
  BY DEF Joins, IInv, ConveyorType, conveyor
<1>3. WorkerType' /\ JobHeld'
  BY DEF Joins, IInv, WorkerType, JobHeld, Working, PCs, worker
<1>4. CountsType' /\ PageType'
  BY DEF Joins, IInv, CountsType, PageType
<1>5. RobotsType' /\ RobotsOnce'
  BY DEF Joins, IInv, WorkerType, RobotsType, RobotsOnce, Host, worker
<1>6. BrowserType' /\ BrowserOnce'
  BY DEF Joins, IInv, WorkerType, BrowserType, BrowserOnce, worker, conveyor
<1> QED
  BY <1>1, <1>2, <1>3, <1>4, <1>5, <1>6 DEF IInv

LEMMA FinishIInv ==
  ASSUME IInv, Finish
  PROVE  IInv'
<1> USE DEF Workers
<1>1. LimiterInv'
  BY SameLimiter DEF Finish, IInv
<1>2. ConveyorType'
  BY DEF Finish, IInv, ConveyorType, conveyor
<1>3. WorkerType' /\ JobHeld'
  BY DEF Finish, IInv, WorkerType, JobHeld, Working, PCs, worker
<1>4. CountsType' /\ PageType'
  BY DEF Finish, IInv, CountsType, PageType
<1>5. RobotsType' /\ RobotsOnce'
  BY DEF Finish, IInv, WorkerType, RobotsType, RobotsOnce, Host, worker
<1>6. BrowserType' /\ BrowserOnce'
  BY DEF Finish, IInv, WorkerType, BrowserType, BrowserOnce, worker, conveyor
<1> QED
  BY <1>1, <1>2, <1>3, <1>4, <1>5, <1>6 DEF IInv

LEMMA TakeIInv ==
  ASSUME IInv, NEW w \in Workers, Take(w)
  PROVE  IInv'
<1> USE DEF Workers
<1>1. LimiterInv'
  BY SameLimiter DEF Take, Goto, IInv
<1>2. ConveyorType'
  <2>1. QueueSize \in Nat
    BY ScrapingAssumption
  <2>2. /\ queue # <<>> /\ queue' = Tail(queue)
        /\ UNCHANGED <<run, starts, file, produced, stops>>
    BY DEF Take
  <2>3. queue' \in Seq(Urls \cup {Stop}) /\ Len(queue') <= QueueSize
    BY <2>1, <2>2 DEF IInv, ConveyorType
  <2> QED
    BY <2>2, <2>3 DEF IInv, ConveyorType
<1>3. WorkerType' /\ JobHeld'
  <2>1. Head(queue) \in Urls \cup {Stop} /\ "check" \in PCs /\ "returned" \in PCs \ Working
    BY DEF Take, IInv, ConveyorType, PCs, Working
  <2> QED
    BY <2>1 DEF Take, Goto, IInv, WorkerType, JobHeld
<1>4. CountsType' /\ PageType'
  BY DEF Take, Goto, IInv, CountsType, PageType
<1>5. RobotsType' /\ RobotsOnce'
  BY DEF Take, Goto, IInv, WorkerType, RobotsType, RobotsOnce, Host, worker
<1>6. BrowserType' /\ BrowserOnce'
  BY DEF Take, Goto, IInv, WorkerType, BrowserType, BrowserOnce, worker, conveyor
<1> QED
  BY <1>1, <1>2, <1>3, <1>4, <1>5, <1>6 DEF IInv

LEMMA CheckIInv ==
  ASSUME IInv, NEW w \in Workers, Check(w)
  PROVE  IInv'
<1> USE DEF Workers
<1>1. LimiterInv'
  BY SameLimiter DEF Check, Goto, Asked, Ends, IInv
<1>2. ConveyorType'
  BY DEF Check, Goto, Asked, Ends, IInv, ConveyorType, conveyor
<1>3. WorkerType' /\ JobHeld'
  <2>1. CASE ~RetryErrors /\ page[job[w]] = "ok"
    BY <2>1, EndsWorker DEF Check
  <2>2. CASE ~(~RetryErrors /\ page[job[w]] = "ok")
    BY <2>2 DEF Check, Goto, Asked, IInv, WorkerType, JobHeld, Working, PCs
  <2> QED
    BY <2>1, <2>2
<1>4. CountsType' /\ PageType'
  BY DEF Check, Goto, Asked, Ends, IInv, CountsType, PageType
<1>5. RobotsType' /\ RobotsOnce'
  BY DEF Check, Goto, Asked, Ends, IInv, WorkerType, RobotsType, RobotsOnce, Host, worker
<1>6. BrowserType' /\ BrowserOnce'
  BY DEF Check, Goto, Asked, Ends, IInv, WorkerType, BrowserType, BrowserOnce, worker, conveyor
<1> QED
  BY <1>1, <1>2, <1>3, <1>4, <1>5, <1>6 DEF IInv

LEMMA LockRobotsIInv ==
  ASSUME IInv, NEW w \in Workers, LockRobots(w)
  PROVE  IInv'
<1> USE DEF Workers
<1>1. LimiterInv'
  BY SameLimiter DEF LockRobots, Goto, IInv
<1>2. ConveyorType'
  BY DEF LockRobots, Goto, IInv, ConveyorType, conveyor
<1>3. WorkerType' /\ JobHeld'
  BY DEF LockRobots, Goto, IInv, WorkerType, JobHeld, Working, PCs, worker
<1>4. CountsType' /\ PageType'
  BY DEF LockRobots, Goto, IInv, CountsType, PageType
<1>5. RobotsType' /\ RobotsOnce'
  <2>1. \A v \in Workers : v # None
    BY ScrapingAssumption
  <2>2. RobotsType'
    BY DEF LockRobots, IInv, RobotsType
  <2>3. RobotsOnce'
    BY <2>1 DEF LockRobots, Goto, IInv, WorkerType, RobotsType, RobotsOnce, Host
  <2> QED
    BY <2>2, <2>3
<1>6. BrowserType' /\ BrowserOnce'
  BY DEF LockRobots, Goto, IInv, WorkerType, BrowserType, BrowserOnce, worker, conveyor
<1> QED
  BY <1>1, <1>2, <1>3, <1>4, <1>5, <1>6 DEF IInv

LEMMA RobotsCachedIInv ==
  ASSUME IInv, NEW w \in Workers, RobotsCached(w)
  PROVE  IInv'
<1> USE DEF Workers
<1>1. LimiterInv'
  BY SameLimiter DEF RobotsCached, Goto, Host, IInv
<1>2. ConveyorType'
  BY DEF RobotsCached, Goto, Host, IInv, ConveyorType, conveyor
<1>3. WorkerType' /\ JobHeld'
  BY DEF RobotsCached, Goto, Host, IInv, WorkerType, JobHeld, Working, PCs, worker
<1>4. CountsType' /\ PageType'
  BY DEF RobotsCached, Goto, Host, IInv, CountsType, PageType
<1>5. RobotsType' /\ RobotsOnce'
  BY DEF RobotsCached, Goto, Host, IInv, WorkerType, RobotsType, RobotsOnce, worker
<1>6. BrowserType' /\ BrowserOnce'
  BY DEF RobotsCached, Goto, Host, IInv, WorkerType, BrowserType, BrowserOnce, worker, conveyor
<1> QED
  BY <1>1, <1>2, <1>3, <1>4, <1>5, <1>6 DEF IInv

LEMMA AskRobotsIInv ==
  ASSUME IInv, NEW w \in Workers, AskRobots(w)
  PROVE  IInv'
<1> USE DEF Workers
<1>1. LimiterInv'
  BY SameLimiter DEF AskRobots, Goto, Host, IInv
<1>2. ConveyorType'
  BY DEF AskRobots, Goto, Host, IInv, ConveyorType, conveyor
<1>3. WorkerType' /\ JobHeld'
  BY DEF AskRobots, Goto, Host, IInv, WorkerType, JobHeld, Working, PCs, worker
<1>4. CountsType' /\ PageType'
  BY DEF AskRobots, Goto, Host, IInv, CountsType, PageType
<1>5. RobotsType' /\ RobotsOnce'
  BY DEF AskRobots, Goto, Host, IInv, WorkerType, RobotsType, RobotsOnce, worker
<1>6. BrowserType' /\ BrowserOnce'
  BY DEF AskRobots, Goto, Host, IInv, WorkerType, BrowserType, BrowserOnce, worker, conveyor
<1> QED
  BY <1>1, <1>2, <1>3, <1>4, <1>5, <1>6 DEF IInv

LEMMA RobotsFetchedIInv ==
  ASSUME IInv, NEW w \in Workers, RobotsFetched(w)
  PROVE  IInv'
<1> USE DEF Workers
<1>1. LimiterInv'
  BY SameLimiter DEF RobotsFetched, Goto, Host, IInv
<1>2. ConveyorType'
  BY DEF RobotsFetched, Goto, Host, IInv, ConveyorType, conveyor
<1>3. WorkerType' /\ JobHeld'
  BY DEF RobotsFetched, Goto, Host, IInv, WorkerType, JobHeld, Working, PCs, worker
<1>4. CountsType' /\ PageType'
  BY DEF RobotsFetched, Goto, Host, IInv, CountsType, PageType
<1>5. RobotsType' /\ RobotsOnce'
  <2>1. PICK disallowed \in SUBSET Urls :
          robots' = [robots EXCEPT !.holder = None,
                                   !.known = @ \cup {Host(w)},
                                   !.disallowed[Host(w)] = disallowed,
                                   !.fetches[Host(w)] = @ + 1]
    BY DEF RobotsFetched
  <2>2. Host(w) \in Hosts /\ Host(w) \notin robots.known /\ robots.holder = w
    BY ScrapingAssumption DEF RobotsFetched, IInv, JobHeld, Working, PCs, RobotsOnce, Host
  <2>3. RobotsType'
    <3>1. robots' = [holder |-> None,
                     known |-> robots.known \cup {Host(w)},
                     disallowed |-> [robots.disallowed EXCEPT ![Host(w)] = disallowed],
                     fetches |-> [robots.fetches EXCEPT ![Host(w)] = @ + 1],
                     raised |-> robots.raised]
      BY <2>1 DEF IInv, RobotsType
    <3> QED
      BY <2>2, <3>1 DEF IInv, RobotsType
  <2>4. ASSUME NEW h \in Hosts
        PROVE  robots'.fetches[h] = robots'.raised[h] + (IF h \in robots'.known THEN 1 ELSE 0)
    BY <2>1, <2>2 DEF IInv, RobotsType, RobotsOnce
  <2>5. \A v \in Workers : pc'[v] \notin {"locked", "asking"}
    BY <2>2 DEF RobotsFetched, Goto, IInv, WorkerType, RobotsOnce
  <2> QED
    BY <2>3, <2>4, <2>5 DEF RobotsOnce
<1>6. BrowserType' /\ BrowserOnce'
  BY DEF RobotsFetched, Goto, Host, IInv, WorkerType, BrowserType, BrowserOnce, worker, conveyor
<1> QED
  BY <1>1, <1>2, <1>3, <1>4, <1>5, <1>6 DEF IInv

LEMMA RefuseIInv ==
  ASSUME IInv, NEW w \in Workers, Refuse(w)
  PROVE  IInv'
<1> USE DEF Workers
<1>1. LimiterInv'
  BY SameLimiter DEF Refuse, Goto, Ends, IInv
<1>2. ConveyorType'
  BY DEF Refuse, Goto, Ends, IInv, ConveyorType, conveyor
<1>3. WorkerType' /\ JobHeld' /\ CountsType'
  BY EndsWorker DEF Refuse
<1>4. PageType'
  BY DEF Refuse, IInv, PageType, Statuses
<1>5. RobotsType' /\ RobotsOnce'
  BY DEF Refuse, Goto, Ends, IInv, WorkerType, RobotsType, RobotsOnce, Host, worker
<1>6. BrowserType' /\ BrowserOnce'
  BY DEF Refuse, Goto, Ends, IInv, WorkerType, BrowserType, BrowserOnce, worker, conveyor
<1> QED
  BY <1>1, <1>2, <1>3, <1>4, <1>5, <1>6 DEF IInv

LEMMA EnterSlotIInv ==
  ASSUME IInv, NEW w \in Workers, EnterSlot(w)
  PROVE  IInv'
<1> USE DEF Workers
<1>1. LimiterInv'
  <2>1. Domain(w) \in Domains
    BY ScrapingAssumption DEF EnterSlot, IInv, JobHeld, Working, PCs, Domain
  <2> QED
    BY <2>1, EnterLimiter DEF EnterSlot, Goto, IInv
<1>2. ConveyorType'
  BY DEF EnterSlot, Goto, IInv, ConveyorType, conveyor
<1>3. WorkerType' /\ JobHeld'
  BY DEF EnterSlot, Goto, IInv, WorkerType, JobHeld, Working, PCs, worker
<1>4. CountsType' /\ PageType'
  BY DEF EnterSlot, Goto, IInv, CountsType, PageType
<1>5. RobotsType' /\ RobotsOnce'
  BY DEF EnterSlot, Goto, IInv, WorkerType, RobotsType, RobotsOnce, Host, worker
<1>6. BrowserType' /\ BrowserOnce'
  BY DEF EnterSlot, Goto, IInv, WorkerType, BrowserType, BrowserOnce, worker, conveyor
<1> QED
  BY <1>1, <1>2, <1>3, <1>4, <1>5, <1>6 DEF IInv

LEMMA LimiterStepIInv ==
  ASSUME IInv, NEW w \in Workers, LimiterStep(w)
  PROVE  IInv'
<1> USE DEF Workers
<1>1. LimiterInv'
  BY GrantLimiter, WakeUpLimiter DEF LimiterStep, IInv
<1>2. ConveyorType'
  BY DEF LimiterStep, IInv, ConveyorType, conveyor
<1>3. WorkerType' /\ JobHeld'
  BY DEF LimiterStep, IInv, WorkerType, JobHeld, Working, PCs, worker
<1>4. CountsType' /\ PageType'
  BY DEF LimiterStep, IInv, CountsType, PageType
<1>5. RobotsType' /\ RobotsOnce'
  BY DEF LimiterStep, IInv, WorkerType, RobotsType, RobotsOnce, Host, worker
<1>6. BrowserType' /\ BrowserOnce'
  BY DEF LimiterStep, IInv, WorkerType, BrowserType, BrowserOnce, worker, conveyor
<1> QED
  BY <1>1, <1>2, <1>3, <1>4, <1>5, <1>6 DEF IInv

LEMMA HttpRetryIInv ==
  ASSUME IInv, NEW w \in Workers, HttpRetry(w)
  PROVE  IInv'
<1> USE DEF Workers
<1>1. LimiterInv'
  BY SameLimiter DEF HttpRetry, IInv
<1>2. ConveyorType'
  BY DEF HttpRetry, IInv, ConveyorType, conveyor
<1>3. WorkerType' /\ JobHeld'
  <2>1. Attempts \in Nat
    BY ScrapingAssumption
  <2> QED
    BY <2>1 DEF HttpRetry, IInv, WorkerType, JobHeld
<1>4. CountsType' /\ PageType'
  BY DEF HttpRetry, IInv, CountsType, PageType
<1>5. RobotsType' /\ RobotsOnce'
  BY DEF HttpRetry, IInv, WorkerType, RobotsType, RobotsOnce, Host, worker
<1>6. BrowserType' /\ BrowserOnce'
  BY DEF HttpRetry, IInv, WorkerType, BrowserType, BrowserOnce, worker, conveyor
<1> QED
  BY <1>1, <1>2, <1>3, <1>4, <1>5, <1>6 DEF IInv

LEMMA HttpAnswerIInv ==
  ASSUME IInv, NEW w \in Workers, HttpAnswer(w)
  PROVE  IInv'
<1> USE DEF Workers
<1>1. LimiterInv'
  BY LeaveLimiter DEF HttpAnswer, Goto, IInv
<1>2. ConveyorType'
  BY DEF HttpAnswer, Goto, IInv, ConveyorType, conveyor
<1>3. WorkerType' /\ JobHeld'
  <2>6. PICK r \in Responses :
          \E text \in Extracts(r) : found' = [found EXCEPT ![w] = [response |-> r, text |-> text]]
    BY Zenon DEF HttpAnswer
  <2>1. PICK text \in Extracts(r) : found' = [found EXCEPT ![w] = [response |-> r, text |-> text]]
    BY <2>6, Zenon
  <2>2. PICK place \in {"browserSlot", "save"} : pc' = [pc EXCEPT ![w] = place]
    BY DEF HttpAnswer, Goto
  <2>3. UNCHANGED <<job, tries>> /\ pc[w] = "http"
    BY DEF HttpAnswer
  <2>4. text \in Texts
    BY <2>1 DEF Extracts, Texts
  <2>5. found' \in [Workers -> [response : Responses, text : Texts]]
    BY <2>1, <2>4 DEF IInv, WorkerType
  <2> QED
    BY <2>2, <2>3, <2>5 DEF IInv, WorkerType, JobHeld, Working, PCs
<1>4. CountsType' /\ PageType'
  BY DEF HttpAnswer, Goto, IInv, CountsType, PageType
<1>5. RobotsType' /\ RobotsOnce'
  BY DEF HttpAnswer, Goto, IInv, WorkerType, RobotsType, RobotsOnce, Host, worker
<1>6. BrowserType' /\ BrowserOnce'
  BY DEF HttpAnswer, Goto, IInv, WorkerType, BrowserType, BrowserOnce, worker, conveyor
<1> QED
  BY <1>1, <1>2, <1>3, <1>4, <1>5, <1>6 DEF IInv

LEMMA LockBrowserIInv ==
  ASSUME IInv, NEW w \in Workers, LockBrowser(w)
  PROVE  IInv'
<1> USE DEF Workers
<1>1. LimiterInv'
  BY SameLimiter DEF LockBrowser, Goto, IInv
<1>2. ConveyorType'
  BY DEF LockBrowser, Goto, IInv, ConveyorType, conveyor
<1>3. WorkerType' /\ JobHeld'
  BY DEF LockBrowser, Goto, IInv, WorkerType, JobHeld, Working, PCs, worker
<1>4. CountsType' /\ PageType'
  BY DEF LockBrowser, Goto, IInv, CountsType, PageType
<1>5. RobotsType' /\ RobotsOnce'
  BY DEF LockBrowser, Goto, IInv, WorkerType, RobotsType, RobotsOnce, Host, worker
<1>6. BrowserType' /\ BrowserOnce'
  <2>1. \A v \in Workers : v # None
    BY ScrapingAssumption
  <2>2. BrowserType'
    BY DEF LockBrowser, IInv, BrowserType
  <2>3. BrowserOnce'
    BY <2>1 DEF LockBrowser, Goto, IInv, WorkerType, BrowserType, BrowserOnce, conveyor
  <2> QED
    BY <2>2, <2>3
<1> QED
  BY <1>1, <1>2, <1>3, <1>4, <1>5, <1>6 DEF IInv

LEMMA LaunchedIInv ==
  ASSUME IInv, NEW w \in Workers, Launched(w)
  PROVE  IInv'
<1> USE DEF Workers
<1>1. LimiterInv'
  BY SameLimiter DEF Launched, Goto, IInv
<1>2. ConveyorType'
  BY DEF Launched, Goto, IInv, ConveyorType, conveyor
<1>3. WorkerType' /\ JobHeld'
  BY DEF Launched, Goto, IInv, WorkerType, JobHeld, Working, PCs, worker
<1>4. CountsType' /\ PageType'
  BY DEF Launched, Goto, IInv, CountsType, PageType
<1>5. RobotsType' /\ RobotsOnce'
  BY DEF Launched, Goto, IInv, WorkerType, RobotsType, RobotsOnce, Host, worker
<1>6. BrowserType' /\ BrowserOnce'
  BY DEF Launched, Goto, IInv, WorkerType, BrowserType, BrowserOnce, worker, conveyor
<1> QED
  BY <1>1, <1>2, <1>3, <1>4, <1>5, <1>6 DEF IInv

LEMMA LaunchRaisesIInv ==
  ASSUME IInv, NEW w \in Workers, LaunchRaises(w)
  PROVE  IInv'
<1> USE DEF Workers
<1>1. LimiterInv'
  BY LeaveLimiter DEF LaunchRaises, Goto, Ends, IInv
<1>2. ConveyorType'
  BY DEF LaunchRaises, Goto, Ends, IInv, ConveyorType, conveyor
<1>3. WorkerType' /\ JobHeld' /\ CountsType'
  BY EndsWorker DEF LaunchRaises
<1>4. PageType'
  BY DEF LaunchRaises, IInv, PageType
<1>5. RobotsType' /\ RobotsOnce'
  BY DEF LaunchRaises, Goto, Ends, IInv, WorkerType, RobotsType, RobotsOnce, Host, worker
<1>6. BrowserType' /\ BrowserOnce'
  BY DEF LaunchRaises, Goto, Ends, IInv, WorkerType, BrowserType, BrowserOnce, worker, conveyor
<1> QED
  BY <1>1, <1>2, <1>3, <1>4, <1>5, <1>6 DEF IInv

LEMMA BrowserAnswerIInv ==
  ASSUME IInv, NEW w \in Workers, BrowserAnswer(w)
  PROVE  IInv'
<1> USE DEF Workers
<1>1. LimiterInv'
  BY LeaveLimiter DEF BrowserAnswer, Goto, IInv
<1>2. ConveyorType'
  BY DEF BrowserAnswer, Goto, IInv, ConveyorType, conveyor
<1>3. WorkerType' /\ JobHeld'
  <2>1. found' \in [Workers -> [response : Responses, text : Texts]]
    <3>1. CASE UNCHANGED found
      BY <3>1 DEF IInv, WorkerType
    <3>2. ASSUME NEW text \in Texts, found' = [found EXCEPT ![w] = [response |-> "good", text |-> text]]
          PROVE  found' \in [Workers -> [response : Responses, text : Texts]]
      BY <3>2 DEF IInv, WorkerType, Responses
    <3> QED
      BY <3>1, <3>2 DEF BrowserAnswer
  <2>2. /\ pc' = [pc EXCEPT ![w] = "save"] /\ pc[w] = "browser"
        /\ UNCHANGED <<job, tries>>
    BY DEF BrowserAnswer, Goto
  <2> QED
    BY <2>1, <2>2 DEF IInv, WorkerType, JobHeld, Working, PCs
<1>4. CountsType' /\ PageType'
  BY DEF BrowserAnswer, Goto, IInv, CountsType, PageType
<1>5. RobotsType' /\ RobotsOnce'
  BY DEF BrowserAnswer, Goto, IInv, WorkerType, RobotsType, RobotsOnce, Host, worker
<1>6. BrowserType' /\ BrowserOnce'
  BY DEF BrowserAnswer, Goto, IInv, WorkerType, BrowserType, BrowserOnce, worker, conveyor
<1> QED
  BY <1>1, <1>2, <1>3, <1>4, <1>5, <1>6 DEF IInv

LEMMA SaveIInv ==
  ASSUME IInv, NEW w \in Workers, Save(w)
  PROVE  IInv'
<1> USE DEF Workers
<1>1. LimiterInv'
  BY SameLimiter DEF Save, Goto, Ends, IInv
<1>2. ConveyorType'
  BY DEF Save, Goto, Ends, IInv, ConveyorType, conveyor
<1>3. WorkerType' /\ JobHeld' /\ CountsType'
  <2>1. Verdict(found[w]) \in {"ok", "empty", "error"}
    BY DEF Verdict
  <2> QED
    BY <2>1, EndsWorker DEF Save
<1>4. PageType'
  <2>1. Verdict(found[w]) \in {"ok", "empty", "error"}
    BY DEF Verdict
  <2> QED
    BY <2>1 DEF Save, IInv, PageType, Statuses
<1>5. RobotsType' /\ RobotsOnce'
  BY DEF Save, Goto, Ends, IInv, WorkerType, RobotsType, RobotsOnce, Host, worker
<1>6. BrowserType' /\ BrowserOnce'
  BY DEF Save, Goto, Ends, IInv, WorkerType, BrowserType, BrowserOnce, worker, conveyor
<1> QED
  BY <1>1, <1>2, <1>3, <1>4, <1>5, <1>6 DEF IInv

LEMMA RaisesIInv ==
  ASSUME IInv, NEW w \in Workers, Raises(w)
  PROVE  IInv'
<1> USE DEF Workers
<1>1. LimiterInv'
  BY LeaveLimiter, SameLimiter DEF Raises, IInv
<1>2. ConveyorType'
  BY DEF Raises, Goto, Ends, IInv, ConveyorType, conveyor
<1>3. WorkerType' /\ JobHeld' /\ CountsType'
  BY EndsWorker DEF Raises
<1>4. PageType'
  BY DEF Raises, IInv, PageType
<1>5. RobotsType' /\ RobotsOnce'
  <2>1. \A v \in Workers : v # w => pc'[v] = pc[v] /\ job'[v] = job[v]
    BY DEF Raises, Goto, Ends, IInv, WorkerType
  <2>2. pc'[w] = "get"
    BY DEF Raises, Goto, Ends, IInv, WorkerType
  <2>3. CASE pc[w] # "asking"
    <3>1. robots' = robots
      BY <2>3 DEF Raises
    <3> QED
      BY <2>1, <2>2, <3>1 DEF IInv, RobotsType, RobotsOnce, Host
  <2>4. CASE pc[w] = "asking"
    <3>1. robots' = [robots EXCEPT !.holder = None,
                                   !.fetches[Host(w)] = @ + 1, !.raised[Host(w)] = @ + 1]
      BY <2>4 DEF Raises, RobotsForgotten
    <3>2. Host(w) \in Hosts /\ Host(w) \notin robots.known /\ robots.holder = w
      BY <2>4, ScrapingAssumption DEF IInv, JobHeld, Working, PCs, RobotsOnce, Host
    <3>3. RobotsType'
      <4>1. robots' = [holder |-> None,
                       known |-> robots.known,
                       disallowed |-> robots.disallowed,
                       fetches |-> [robots.fetches EXCEPT ![Host(w)] = @ + 1],
                       raised |-> [robots.raised EXCEPT ![Host(w)] = @ + 1]]
        BY <3>1 DEF IInv, RobotsType
      <4> QED
        BY <3>2, <4>1 DEF IInv, RobotsType
    <3>4. ASSUME NEW h \in Hosts
          PROVE  robots'.fetches[h] = robots'.raised[h] + (IF h \in robots'.known THEN 1 ELSE 0)
      BY <3>1, <3>2 DEF IInv, RobotsType, RobotsOnce
    <3>5. \A v \in Workers : pc'[v] \notin {"locked", "asking"}
      BY <2>1, <2>2, <3>2 DEF IInv, RobotsOnce
    <3> QED
      BY <3>3, <3>4, <3>5 DEF RobotsOnce
  <2> QED
    BY <2>3, <2>4
<1>6. BrowserType' /\ BrowserOnce'
  BY DEF Raises, Goto, Ends, IInv, WorkerType, BrowserType, BrowserOnce, worker, conveyor
<1> QED
  BY <1>1, <1>2, <1>3, <1>4, <1>5, <1>6 DEF IInv

LEMMA TimeIInv ==
  ASSUME IInv, Time
  PROVE  IInv'
<1> USE DEF Workers
<1>1. LimiterInv'
  BY TickLimiter DEF Time, IInv
<1>2. ConveyorType'
  BY DEF Time, IInv, ConveyorType, conveyor
<1>3. WorkerType' /\ JobHeld'
  BY DEF Time, IInv, WorkerType, JobHeld, Working, PCs, worker
<1>4. CountsType' /\ PageType'
  BY DEF Time, IInv, CountsType, PageType
<1>5. RobotsType' /\ RobotsOnce'
  BY DEF Time, IInv, WorkerType, RobotsType, RobotsOnce, Host, worker
<1>6. BrowserType' /\ BrowserOnce'
  BY DEF Time, IInv, WorkerType, BrowserType, BrowserOnce, worker, conveyor
<1> QED
  BY <1>1, <1>2, <1>3, <1>4, <1>5, <1>6 DEF IInv

LEMMA StutterIInv ==
  ASSUME IInv, UNCHANGED vars
  PROVE  IInv'
<1> USE DEF vars, conveyor, worker
<1>1. LimiterInv' /\ ConveyorType' /\ WorkerType' /\ JobHeld'
  BY SameLimiter DEF IInv, ConveyorType, WorkerType, JobHeld
<1>2. CountsType' /\ PageType' /\ RobotsType' /\ BrowserType'
  BY DEF IInv, CountsType, PageType, RobotsType, BrowserType
<1>3. RobotsOnce' /\ BrowserOnce'
  BY DEF IInv, RobotsOnce, BrowserOnce, Host
<1> QED
  BY <1>1, <1>2, <1>3 DEF IInv

LEMMA NextIInv == IInv /\ [Next]_vars => IInv'
<1> SUFFICES ASSUME IInv, [Next]_vars PROVE IInv'
  OBVIOUS
<1>1. CASE Start
  <2>1. run' = "producing" /\ starts' \in 0..MaxStarts /\ Anew("get")
    BY <1>1, ScrapingAssumption DEF Start, IInv, ConveyorType
  <2> QED
    BY <2>1, AnewIInv
<1>2. CASE Kill
  <2>1. run' = "off" /\ starts' \in 0..MaxStarts /\ Anew("off")
    BY <1>2 DEF Kill, IInv, ConveyorType
  <2> QED
    BY <2>1, AnewIInv
<1>3. CASE Produce \/ Joins \/ Finish \/ Time
  BY <1>3, ProduceIInv, JoinsIInv, FinishIInv, TimeIInv
<1>4. ASSUME NEW w \in Workers, WorkerStep(w) PROVE IInv'
  <2>1. CASE Take(w) \/ Check(w) \/ LockRobots(w) \/ RobotsCached(w) \/ AskRobots(w)
             \/ RobotsFetched(w) \/ Refuse(w)
    BY <2>1, TakeIInv, CheckIInv, LockRobotsIInv, RobotsCachedIInv, AskRobotsIInv,
       RobotsFetchedIInv, RefuseIInv
  <2>2. CASE EnterSlot(w) \/ LimiterStep(w) \/ HttpRetry(w) \/ HttpAnswer(w)
    BY <2>2, EnterSlotIInv, LimiterStepIInv, HttpRetryIInv, HttpAnswerIInv
  <2>3. CASE LockBrowser(w) \/ Launched(w) \/ LaunchRaises(w) \/ BrowserAnswer(w)
             \/ Save(w) \/ Raises(w)
    BY <2>3, LockBrowserIInv, LaunchedIInv, LaunchRaisesIInv, BrowserAnswerIInv, SaveIInv,
       RaisesIInv
  <2> QED
    BY <1>4, <2>1, <2>2, <2>3 DEF WorkerStep
<1>5. CASE UNCHANGED vars
  BY <1>5, StutterIInv
<1> QED
  BY <1>1, <1>2, <1>3, <1>4, <1>5 DEF Next

(* All that a step of the command does to the limiter. *)
LEMMA LimiterMoves ==
  ASSUME IInv, [Next]_vars
  PROVE  \/ LimiterInit' \/ Tick \/ UNCHANGED limiter
         \/ \E t \in Tasks : Grant(t) \/ WakeUp(t) \/ Leave(t) \/ \E d \in Domains : Enter(t, d)
<1>1. CASE Start \/ Kill
  BY <1>1 DEF Start, Kill, Anew, LimiterInit
<1>2. CASE Produce \/ Joins \/ Finish \/ Time \/ UNCHANGED vars
  BY <1>2 DEF Produce, Joins, Finish, Time, vars
<1>3. ASSUME NEW w \in Workers, WorkerStep(w)
      PROVE  \/ UNCHANGED limiter
             \/ \E t \in Tasks : Grant(t) \/ WakeUp(t) \/ Leave(t) \/ \E d \in Domains : Enter(t, d)
  <2>1. CASE Take(w) \/ Check(w) \/ LockRobots(w) \/ RobotsCached(w) \/ AskRobots(w)
             \/ RobotsFetched(w) \/ Refuse(w) \/ HttpRetry(w) \/ LockBrowser(w) \/ Launched(w)
             \/ Save(w)
    BY <2>1 DEF Take, Check, LockRobots, RobotsCached, AskRobots, RobotsFetched, Refuse, HttpRetry,
       LockBrowser, Launched, Save
  <2>2. CASE HttpAnswer(w) \/ LaunchRaises(w) \/ BrowserAnswer(w) \/ Raises(w)
    BY <2>2 DEF HttpAnswer, LaunchRaises, BrowserAnswer, Raises, Workers
  <2>3. CASE LimiterStep(w)
    BY <2>3 DEF LimiterStep, Workers
  <2>4. CASE EnterSlot(w)
    <3>1. Domain(w) \in Domains
      BY <2>4, ScrapingAssumption DEF EnterSlot, IInv, JobHeld, Working, PCs, Domain
    <3> QED
      BY <2>4, <3>1 DEF EnterSlot, Workers
  <2> QED
    BY <1>3, <2>1, <2>2, <2>3, <2>4 DEF WorkerStep
<1> QED
  BY <1>1, <1>2, <1>3 DEF Next

(* With one permit a visit starts no sooner than the delay allows, and     *)
(* alone.                                                                  *)
LEMMA DelayKept ==
  ASSUME IInv, [Next]_vars, PerDomain = 1, NEW t \in Tasks,
         ~In(t, "inside"), slot'[t].at = "inside"
  PROVE  /\ since[slot'[t].domain] >= Delay
         /\ \A o \in Tasks \ {t} : slot[o].at = "inside" => slot[o].domain # slot'[t].domain
<1>1. LimiterTypeOK /\ SoleHolder /\ SleepsLongEnough /\ LimiterAssumption
  BY LimiterAssumption DEF IInv, LimiterInv
<1>2. ~LimiterInit' /\ ~Tick /\ ~UNCHANGED limiter
  BY DEF LimiterInit, Outside, Tick, limiter, In
<1>3. \A u \in Tasks, d \in Domains : ~Enter(u, d)
  <2> SUFFICES ASSUME NEW u \in Tasks, NEW d \in Domains, Enter(u, d) PROVE FALSE
    OBVIOUS
  <2>1. CASE t = u
    <3>1. slot'[t] = [at |-> "queued", domain |-> d]
      BY <1>1, <2>1 DEF Enter, LimiterTypeOK
    <3> QED
      BY <3>1
  <2>2. CASE t # u
    <3>1. slot'[t] = slot[t]
      BY <1>1, <2>2 DEF Enter, LimiterTypeOK
    <3> QED
      BY <3>1 DEF In
  <2> QED
    BY <2>1, <2>2
<1>4. \A u \in Tasks : ~Leave(u)
  BY <1>1 DEF Leave, LimiterTypeOK, Outside, In
<1>5. PICK u \in Tasks : Grant(u) \/ WakeUp(u)
  BY <1>2, <1>3, <1>4, LimiterMoves
<1>6. CASE Grant(u)
  <2>1. PICK d \in Domains : d = slot[u].domain
    BY <1>1, <1>6 DEF Grant, LimiterTypeOK, Places, In
  <2>2. CASE since[d] >= Delay
    <3>1. slot' = [slot EXCEPT ![u] = [at |-> "inside", domain |-> d]]
      BY <1>6, <2>1, <2>2 DEF Grant, Pass
    <3>2. t # u => slot'[t] = slot[t]
      BY <1>1, <3>1 DEF LimiterTypeOK
    <3>3. slot'[u] = [at |-> "inside", domain |-> d]
      BY <1>1, <3>1 DEF LimiterTypeOK
    <3>4. t = u
      BY <3>2 DEF In
    <3>5. Holders(d) = {}
      <4>1. IsFiniteSet(Holders(d)) /\ Cardinality(Holders(d)) < 1 /\ d \in Domains
        BY <1>1, <1>6, <2>1 DEF IInv, LimiterInv, Capped, Grant, LimiterTypeOK, Places, In
      <4> QED
        BY <4>1, FS_EmptySet, FS_CardinalityType
    <3> QED
      BY <2>2, <3>3, <3>4, <3>5 DEF Holders
  <2>3. CASE ~(since[d] >= Delay)
    <3>1. slot' = [slot EXCEPT ![u] = [at |-> "asleep", domain |-> d]]
      BY <1>6, <2>1, <2>3 DEF Grant
    <3>2. t # u => slot'[t] = slot[t]
      BY <1>1, <3>1 DEF LimiterTypeOK
    <3>3. slot'[u] = [at |-> "asleep", domain |-> d]
      BY <1>1, <3>1 DEF LimiterTypeOK
    <3> QED
      BY <3>2, <3>3 DEF In
  <2> QED
    BY <2>2, <2>3
<1>7. CASE WakeUp(u)
  <2>1. PICK d \in Domains : slot[u] = [at |-> "asleep", domain |-> d]
    BY <1>1, <1>7 DEF WakeUp, LimiterTypeOK, Places, In
  <2>2. slot' = [slot EXCEPT ![u] = [at |-> "inside", domain |-> d]] /\ left[u] = 0
    BY <1>7, <2>1 DEF WakeUp, Pass
  <2>3. t # u => slot'[t] = slot[t]
    BY <1>1, <2>2 DEF LimiterTypeOK
  <2>4. t = u /\ slot'[t].domain = d
    BY <1>1, <2>2, <2>3 DEF LimiterTypeOK, In
  <2>5. since[d] >= Delay
    BY <1>1, <2>1, <2>2 DEF SleepsLongEnough, LimiterTypeOK, In
  <2>6. u \in Holders(d)
    BY <2>1 DEF Holders
  <2>7. \A o \in Tasks \ {u} : slot[o].at = "inside" => slot[o].domain # d
    BY <1>1, <2>6 DEF SoleHolder, Holders
  <2> QED
    BY <2>4, <2>5, <2>7
<1> QED
  BY <1>5, <1>6, <1>7

-----------------------------------------------------------------------------
(***************************************************************************)
(* Theorems                                                                *)
(***************************************************************************)

(* The inductive invariant holds in every run of the command, however      *)
(* often it is killed and started again.                                   *)
THEOREM ScrapingInvariant == Spec => []IInv
<1>1. Init => IInv
  BY InitIInv
<1>2. IInv /\ [Next]_vars => IInv'
  BY NextIInv
<1> QED
  BY <1>1, <1>2, PTL DEF Spec

(* Every variable of the command keeps its type: in particular the queue   *)
(* never holds more than its maxsize, and no more sentinels are sent than  *)
(* there are workers.                                                      *)
THEOREM ScrapingTypes == Spec => []TypeOK
<1>1. IInv => TypeOK
  BY TypeParts DEF IInv, LimiterInv
<1> QED
  BY <1>1, ScrapingInvariant, PTL

(* robots.txt is asked for again only after an attempt that raised, and at *)
(* most one browser is launched in a run, however the workers interleave   *)
(* around the two locks and whatever raises under them.                    *)
THEOREM LocksDoTheirWork == Spec => []FetchedOnce
<1>1. IInv => FetchedOnce
  BY DEF IInv, RobotsOnce, RobotsType, BrowserOnce, BrowserType, FetchedOnce
<1> QED
  BY <1>1, ScrapingInvariant, PTL

(* With one permit per domain, the visits to a domain do not overlap and   *)
(* start at least the delay apart; with the default of two they do not     *)
(* (the run domain_delay).  It is about visits, not about requests.        *)
THEOREM OnePermitKeepsVisitsApart == Spec => VisitsApart
<1> DEFINE Apart == \A t \in Tasks :
                      ~In(t, "inside") /\ slot'[t].at = "inside" /\ PerDomain = 1 =>
                        LET d == slot'[t].domain IN
                        /\ since[d] >= Delay
                        /\ \A u \in Tasks \ {t} : slot[u].at = "inside" => slot[u].domain # d
<1>1. IInv /\ [Next]_vars => [Apart]_limiter
  <2> SUFFICES ASSUME IInv, [Next]_vars PROVE Apart
    OBVIOUS
  <2> QED
    BY DelayKept
<1> QED
  BY <1>1, ScrapingInvariant, PTL DEF Spec, VisitsApart

-----------------------------------------------------------------------------
(***************************************************************************)
(* The steps, as far as rows are concerned                                 *)
(***************************************************************************)

GoesOn(w) ==
  /\ pc[w] \in Working
  /\ pc[w] = "check" => RetryErrors \/ page[job[w]] # "ok"
  /\ \E label \in Working \ {"check"} : Goto(w, label)
  /\ UNCHANGED <<conveyor, job, counts, page>>

Skips(w) ==
  /\ pc[w] = "check" /\ page[job[w]] = "ok"
  /\ Ends(w, "skip")
  /\ UNCHANGED <<conveyor, page>>

Saves(w) ==
  /\ pc[w] \in {"refuse", "save"}
  /\ \E status \in {"ok", "empty", "error"} :
        Ends(w, status) /\ page' = [page EXCEPT ![job[w]] = status]
  /\ UNCHANGED conveyor

Throws(w) ==
  /\ pc[w] \in Working
  /\ Ends(w, "error")
  /\ UNCHANGED <<conveyor, page>>

NoRowMoves == UNCHANGED <<conveyor, pc, job, counts, page>>

(* What a worker does with a row. *)
RowStep(w) == Take(w) \/ GoesOn(w) \/ Skips(w) \/ Saves(w) \/ Throws(w)

LEMMA Kinds ==
  ASSUME IInv, [Next]_vars
  PROVE  \/ \E label \in {"get", "off"} : Anew(label) /\ run' \in {"producing", "off"}
         \/ Produce \/ Joins \/ Finish \/ NoRowMoves
         \/ \E w \in Workers : RowStep(w)
<1>1. CASE Start \/ Kill
  BY <1>1 DEF Start, Kill
<1>2. CASE Produce \/ Joins \/ Finish
  BY <1>2
<1>3. CASE Time \/ UNCHANGED vars
  BY <1>3 DEF Time, vars, NoRowMoves, worker
<1>4. ASSUME NEW w \in Workers, WorkerStep(w) PROVE RowStep(w) \/ NoRowMoves
  <2> USE DEF RowStep, Working, PCs
  <2>1. CASE Take(w)
    BY <2>1
  <2>2. CASE Check(w)
    <3>1. CASE ~RetryErrors /\ page[job[w]] = "ok"
      BY <2>2, <3>1 DEF Check, Skips
    <3>2. CASE ~(~RetryErrors /\ page[job[w]] = "ok")
      <4>1. Asked \in Working \ {"check"}
        BY DEF Asked
      <4>2. Goto(w, Asked) /\ pc[w] = "check" /\ UNCHANGED <<conveyor, job, counts, page>>
        BY <2>2, <3>2 DEF Check
      <4> QED
        BY <3>2, <4>1, <4>2 DEF GoesOn
    <3> QED
      BY <3>1, <3>2
  <2>3. CASE LockRobots(w) \/ RobotsCached(w) \/ AskRobots(w) \/ RobotsFetched(w)
    BY <2>3 DEF LockRobots, RobotsCached, AskRobots, RobotsFetched, GoesOn
  <2>4. CASE Refuse(w)
    BY <2>4 DEF Refuse, Saves
  <2>5. CASE EnterSlot(w)
    BY <2>5 DEF EnterSlot, GoesOn
  <2>6. CASE LimiterStep(w) \/ HttpRetry(w)
    BY <2>6 DEF LimiterStep, HttpRetry, NoRowMoves, worker
  <2>7. CASE HttpAnswer(w)
    BY <2>7 DEF HttpAnswer, GoesOn
  <2>8. CASE LockBrowser(w) \/ Launched(w) \/ BrowserAnswer(w)
    BY <2>8 DEF LockBrowser, Launched, BrowserAnswer, GoesOn
  <2>9. CASE LaunchRaises(w)
    BY <2>9 DEF LaunchRaises, Throws
  <2>10. CASE Save(w)
    <3>1. Verdict(found[w]) \in {"ok", "empty", "error"}
      BY DEF Verdict
    <3> QED
      BY <2>10, <3>1 DEF Save, Saves
  <2>11. CASE Raises(w)
    BY <2>11 DEF Raises, Throws
  <2> QED
    BY <1>4, <2>1, <2>2, <2>3, <2>4, <2>5, <2>6, <2>7, <2>8, <2>9, <2>10, <2>11 DEF WorkerStep
<1> QED
  BY <1>1, <1>2, <1>3, <1>4 DEF Next

-----------------------------------------------------------------------------
(***************************************************************************)
(* Invariants                                                              *)
(***************************************************************************)

AtRestNoJob == \A w \in Workers : pc[w] \notin Working => job[w] = None

Busy    == {w \in Workers : job[w] # None}
Back    == {w \in Workers : pc[w] = "returned"}
Settled == counts["ok"] + counts["empty"] + counts["error"] + counts["skip"]

(* Whatever was put on the queue is there, in work, counted, or a sentinel *)
(* that brought a worker home.                                             *)
Balance ==
  Settled + Cardinality(Busy) + Len(queue) + Cardinality(Back) = produced + stops

Phases ==
  /\ produced <= Rows
  /\ run \in {"joining", "finished"} => produced = Rows /\ stops = Cardinality(Workers)
  /\ run = "finished" => queue = <<>> /\ Back = Workers

Listed == {file[i] : i \in 1..produced}

(* Rows that were read and left no trace in the table. *)
Lost ==
  {u \in Listed : /\ page[u] = "absent"
                  /\ \A i \in 1..Len(queue) : queue[i] # u
                  /\ \A w \in Workers : job[w] # u}

LostAreErrors == IsFiniteSet(Lost) /\ Cardinality(Lost) <= counts["error"]

NoRepeats(list) ==
  \A i, j \in 1..Len(list) : list[i] = list[j] /\ list[i] # Stop => i = j

(* If no URL is listed twice, none is in two places. *)
Once ==
  /\ \A i \in 1..Len(queue) : queue[i] # Stop => queue[i] \in Listed
  /\ NoRepeats(queue)
  /\ \A w \in Workers : job[w] # None =>
       job[w] \in Listed /\ \A i \in 1..Len(queue) : queue[i] # job[w]
  /\ \A v, w \in Workers : job[v] = job[w] /\ job[v] # None => v = w

(* Past the check, what is stored for a job is no good page. *)
PastCheck ==
  \A w \in Workers : pc[w] \in Working \ {"check"} => page[job[w]] # "ok"

RowInv ==
  /\ AtRestNoJob /\ Balance /\ Phases /\ LostAreErrors
  /\ Distinct => Once
  /\ Distinct /\ ~RetryErrors => PastCheck

LEMMA WorkersFinite ==
  /\ IsFiniteSet(Busy) /\ Cardinality(Busy) \in Nat
  /\ IsFiniteSet(Back) /\ Cardinality(Back) \in Nat
<1>1. IsFiniteSet(Workers) /\ Busy \subseteq Workers /\ Back \subseteq Workers
  BY LimiterAssumption DEF Workers, Busy, Back
<1> QED
  BY <1>1, FS_Subset, FS_CardinalityType

LEMMA RowTypes ==
  ASSUME IInv
  PROVE  /\ Settled \in Nat /\ counts["error"] \in Nat
         /\ produced \in Nat /\ stops \in Nat /\ Len(queue) \in Nat /\ Rows \in Nat
         /\ Rows <= Len(file)
         /\ \A i \in 1..Len(file) : file[i] \in Urls
         /\ queue \in Seq(Urls \cup {None})
<1> USE ScrapingAssumption DEF IInv
<1>1. Settled \in Nat /\ counts["error"] \in Nat
  BY DEF CountsType, Settled
<1>2. file \in Seq(Urls) /\ queue \in Seq(Urls \cup {None})
  BY DEF ConveyorType, Stop
<1>3. produced \in Nat /\ stops \in Nat /\ Len(queue) \in Nat
  BY <1>2, LimiterAssumption, FS_CardinalityType DEF ConveyorType, Workers
<1>4. Rows \in Nat /\ Rows <= Len(file)
  BY <1>2 DEF Rows
<1> QED
  BY <1>1, <1>2, <1>3, <1>4

LEMMA OneMoreSettled ==
  ASSUME CountsType, NEW outcome \in {"ok", "empty", "error", "skip"},
         counts' = [counts EXCEPT ![outcome] = @ + 1]
  PROVE  Settled' = Settled + 1
<1>1. PICK a, b, c, d \in Nat :
        /\ counts["ok"] = a /\ counts["empty"] = b
        /\ counts["error"] = c /\ counts["skip"] = d
  BY DEF CountsType
<1>2. Settled = a + b + c + d
  BY <1>1 DEF Settled
<1>3. CASE outcome = "ok"
  <2>1. counts'["ok"] = a + 1 /\ counts'["empty"] = b /\ counts'["error"] = c /\ counts'["skip"] = d
    BY <1>1, <1>3 DEF CountsType
  <2> QED
    BY <1>1, <1>2, <2>1 DEF Settled
<1>4. CASE outcome = "empty"
  <2>1. counts'["ok"] = a /\ counts'["empty"] = b + 1 /\ counts'["error"] = c /\ counts'["skip"] = d
    BY <1>1, <1>4 DEF CountsType
  <2> QED
    BY <1>1, <1>2, <2>1 DEF Settled
<1>5. CASE outcome = "error"
  <2>1. counts'["ok"] = a /\ counts'["empty"] = b /\ counts'["error"] = c + 1 /\ counts'["skip"] = d
    BY <1>1, <1>5 DEF CountsType
  <2>2. Settled' = a + b + (c + 1) + d
    BY <2>1 DEF Settled
  <2> QED
    BY <1>2, <2>2
<1>6. CASE outcome = "skip"
  <2>1. counts'["ok"] = a /\ counts'["empty"] = b /\ counts'["error"] = c /\ counts'["skip"] = d + 1
    BY <1>1, <1>6 DEF CountsType
  <2>2. Settled' = a + b + c + (d + 1)
    BY <2>1 DEF Settled
  <2> QED
    BY <1>2, <2>2
<1> QED
  BY <1>3, <1>4, <1>5, <1>6

(* A job that ends frees its worker and is counted. *)
LEMMA EndsRow ==
  ASSUME IInv, NEW w \in Workers, pc[w] \in Working,
         NEW outcome \in {"ok", "empty", "error", "skip"}, Ends(w, outcome)
  PROVE  /\ job[w] \in Urls /\ job[w] # None
         /\ job' = [job EXCEPT ![w] = None] /\ pc' = [pc EXCEPT ![w] = "get"]
         /\ Busy' = Busy \ {w} /\ w \in Busy
         /\ Back' = Back
         /\ Settled' = Settled + 1
         /\ counts'["error"] = IF outcome = "error" THEN counts["error"] + 1 ELSE counts["error"]
<1> USE ScrapingAssumption DEF Ends, Goto, IInv, WorkerType
<1>1. job[w] \in Urls /\ job[w] # None
  BY DEF JobHeld
<1>2. Busy' = Busy \ {w} /\ w \in Busy
  BY <1>1 DEF Busy
<1>3. Back' = Back
  BY DEF Back, Working, PCs
<1>4. Settled' = Settled + 1 /\ counts'["error"] = IF outcome = "error" THEN counts["error"] + 1 ELSE counts["error"]
  <2>1. counts' = [counts EXCEPT ![outcome] = @ + 1]
    OBVIOUS
  <2>2. Settled' = Settled + 1
    BY <2>1, OneMoreSettled
  <2>3. counts'["error"] = IF outcome = "error" THEN counts["error"] + 1 ELSE counts["error"]
    BY <2>1 DEF CountsType
  <2> QED
    BY <2>2, <2>3
<1> QED
  BY <1>1, <1>2, <1>3, <1>4

-----------------------------------------------------------------------------
(***************************************************************************)
(* One lemma per part of the invariant                                     *)
(***************************************************************************)

LEMMA AtRestNoJobNext ==
  ASSUME IInv, [Next]_vars, AtRestNoJob
  PROVE  AtRestNoJob'
<1> USE DEF AtRestNoJob, IInv, WorkerType
<1>1. ASSUME NEW label \in {"get", "off"}, Anew(label) PROVE AtRestNoJob'
  BY <1>1 DEF Anew
<1>2. CASE Produce \/ Joins \/ Finish \/ NoRowMoves
  BY <1>2 DEF Produce, Joins, Finish, NoRowMoves, worker
<1>3. ASSUME NEW w \in Workers, RowStep(w) PROVE AtRestNoJob'
  <2>1. CASE Take(w)
    <3>1. pc[w] = "get"
      BY <2>1 DEF Take
    <3>2. CASE Head(queue) = Stop
      BY <2>1, <3>1, <3>2 DEF Take, Goto, Working, PCs
    <3>3. CASE Head(queue) # Stop
      <4>1. pc' = [pc EXCEPT ![w] = "check"] /\ \A v \in Workers \ {w} : job'[v] = job[v]
        BY <2>1, <3>3 DEF Take, Goto
      <4> QED
        BY <4>1 DEF Working, PCs
    <3> QED
      BY <3>2, <3>3
  <2>2. CASE GoesOn(w)
    BY <2>2 DEF GoesOn, Goto
  <2>3. CASE Skips(w) \/ Saves(w) \/ Throws(w)
    BY <2>3 DEF Skips, Saves, Throws, Ends, Goto
  <2> QED
    BY <1>3, <2>1, <2>2, <2>3 DEF RowStep
<1> QED
  BY <1>1, <1>2, <1>3, Kinds

LEMMA BalanceNext ==
  ASSUME IInv, [Next]_vars, AtRestNoJob, Balance
  PROVE  Balance'
<1> USE WorkersFinite, RowTypes
<1>1. ASSUME NEW label \in {"get", "off"}, Anew(label) PROVE Balance'
  <2>1. Busy' = {} /\ Back' = {}
    BY <1>1 DEF Anew, Busy, Back
  <2>2. Settled' = 0 /\ Len(queue') = 0 /\ produced' = 0 /\ stops' = 0
    BY <1>1 DEF Anew, NoCounts, Settled
  <2>3. Cardinality({}) = 0
    BY FS_EmptySet
  <2> QED
    BY <2>1, <2>2, <2>3 DEF Balance
<1>2. CASE Produce
  <2>1. Busy' = Busy /\ Back' = Back /\ Settled' = Settled
    BY <1>2 DEF Produce, worker, Busy, Back, Settled
  <2>2. Len(queue') = Len(queue) + 1 /\ produced' + stops' = produced + stops + 1
    <3>1. PICK item \in Urls \cup {None} : queue' = Append(queue, item)
      <4>1. CASE produced < Rows
        BY <1>2, <4>1 DEF Produce
      <4>2. CASE ~(produced < Rows)
        BY <1>2, <4>2 DEF Produce, Stop
      <4> QED
        BY <4>1, <4>2
    <3>2. Len(queue') = Len(queue) + 1
      BY <3>1
    <3>3. \/ produced' = produced + 1 /\ stops' = stops
          \/ produced' = produced /\ stops' = stops + 1
      BY <1>2 DEF Produce
    <3> QED
      BY <3>2, <3>3
  <2> QED
    BY <2>1, <2>2 DEF Balance
<1>3. CASE Joins \/ Finish \/ NoRowMoves
  <2>1. UNCHANGED <<queue, produced, stops, pc, job, counts>>
    BY <1>3 DEF Joins, Finish, NoRowMoves, worker, conveyor
  <2> QED
    BY <2>1 DEF Balance, Busy, Back, Settled
<1>4. ASSUME NEW w \in Workers, Take(w) PROVE Balance'
  <2>1. /\ queue' = Tail(queue) /\ queue # <<>> /\ Len(queue') = Len(queue) - 1
        /\ UNCHANGED <<produced, stops, counts>>
    BY <1>4 DEF Take
  <2>2. Settled' = Settled
    BY <2>1 DEF Settled
  <2>3. pc[w] = "get" /\ job[w] = None
    BY <1>4 DEF Take, AtRestNoJob, Working, PCs
  <2>4. CASE Head(queue) = Stop
    <3>1. pc' = [pc EXCEPT ![w] = "returned"] /\ job' = job
      BY <1>4, <2>4 DEF Take, Goto
    <3>2. Busy' = Busy /\ Back' = Back \cup {w} /\ w \notin Back
      BY <2>3, <3>1 DEF Busy, Back, IInv, WorkerType
    <3>3. Cardinality(Back') = Cardinality(Back) + 1
      BY <3>2, FS_AddElement
    <3> QED
      BY <2>1, <2>2, <3>2, <3>3 DEF Balance
  <2>5. CASE Head(queue) # Stop
    <3>1. pc' = [pc EXCEPT ![w] = "check"] /\ job' = [job EXCEPT ![w] = Head(queue)]
      BY <1>4, <2>5 DEF Take, Goto
    <3>2. Busy' = Busy \cup {w} /\ w \notin Busy /\ Back' = Back
      BY <2>3, <2>5, <3>1 DEF Busy, Back, IInv, WorkerType, Stop
    <3>3. Cardinality(Busy') = Cardinality(Busy) + 1
      BY <3>2, FS_AddElement
    <3> QED
      BY <2>1, <2>2, <3>2, <3>3 DEF Balance
  <2> QED
    BY <2>4, <2>5
<1>5. ASSUME NEW w \in Workers, GoesOn(w) PROVE Balance'
  <2>1. UNCHANGED <<queue, produced, stops, job, counts>>
    BY <1>5 DEF GoesOn, conveyor
  <2>2. Back' = Back
    BY <1>5 DEF GoesOn, Goto, Back, Working, PCs, IInv, WorkerType
  <2> QED
    BY <2>1, <2>2 DEF Balance, Busy, Settled
<1>6. ASSUME NEW w \in Workers, Skips(w) \/ Saves(w) \/ Throws(w) PROVE Balance'
  <2>1. PICK outcome \in {"ok", "empty", "error", "skip"} : Ends(w, outcome)
    BY <1>6 DEF Skips, Saves, Throws
  <2>2. pc[w] \in Working /\ UNCHANGED <<queue, produced, stops>>
    BY <1>6 DEF Skips, Saves, Throws, Working, PCs, conveyor
  <2>3. Busy' = Busy \ {w} /\ w \in Busy /\ Back' = Back /\ Settled' = Settled + 1
    BY <2>1, <2>2, EndsRow
  <2>4. Cardinality(Busy') = Cardinality(Busy) - 1
    BY <2>3, FS_RemoveElement
  <2> QED
    BY <2>2, <2>3, <2>4 DEF Balance
<1> QED
  BY <1>1, <1>2, <1>3, <1>4, <1>5, <1>6, Kinds DEF RowStep

LEMMA PhasesNext ==
  ASSUME IInv, [Next]_vars, Phases
  PROVE  Phases'
<1> USE RowTypes DEF Phases
<1>1. Rows' = Rows
  <2>1. file' = file
    <3>1. CASE \E w \in Workers : RowStep(w)
      BY <3>1 DEF RowStep, Take, GoesOn, Skips, Saves, Throws, conveyor
    <3> QED
      BY <3>1, Kinds DEF Anew, Produce, Joins, Finish, NoRowMoves, conveyor
  <2> QED
    BY <2>1 DEF Rows
<1>2. ASSUME NEW label \in {"get", "off"}, Anew(label), run' \in {"producing", "off"} PROVE Phases'
  BY <1>1, <1>2 DEF Anew
<1>3. CASE Produce
  BY <1>1, <1>3 DEF Produce
<1>4. CASE Joins
  BY <1>1, <1>4 DEF Joins
<1>5. CASE Finish
  <2>1. Back' = Workers
    BY <1>5 DEF Finish, Back, worker
  <2> QED
    BY <1>1, <1>5, <2>1 DEF Finish
<1>6. CASE NoRowMoves
  BY <1>1, <1>6 DEF NoRowMoves, conveyor, Back
<1>7. ASSUME NEW w \in Workers, RowStep(w) PROVE Phases'
  <2>1. pc[w] # "returned"
    BY <1>7 DEF RowStep, Take, GoesOn, Skips, Saves, Throws, Working, PCs
  <2>2. run # "finished"
    BY <2>1 DEF Back
  <2>3. UNCHANGED <<run, produced, stops>>
    BY <1>7 DEF RowStep, Take, GoesOn, Skips, Saves, Throws, conveyor
  <2> QED
    BY <1>1, <2>2, <2>3
<1> QED
  BY <1>2, <1>3, <1>4, <1>5, <1>6, <1>7, Kinds

(* A trace is lost only by a job that raises, and that one is counted. *)
LEMMA ListedAreUrls ==
  ASSUME IInv, produced <= Len(file)
  PROVE  \A u \in Listed : u \in Urls /\ u # None
<1>1. file \in Seq(Urls) /\ produced \in Nat /\ None \notin Urls
  BY ScrapingAssumption DEF IInv, ConveyorType
<1>2. \A i \in 1..produced : file[i] \in Urls
  BY <1>1
<1> QED
  BY <1>1, <1>2 DEF Listed

LEMMA LostAreErrorsNext ==
  ASSUME IInv, [Next]_vars, AtRestNoJob, LostAreErrors
  PROVE  LostAreErrors'
<1> USE RowTypes DEF LostAreErrors
<1>1. IsFiniteSet(Lost) /\ Cardinality(Lost) \in Nat
  BY FS_CardinalityType
<1>2. ASSUME Lost' \subseteq Lost, counts'["error"] \in Nat, counts'["error"] >= counts["error"]
      PROVE  LostAreErrors'
  <2>1. IsFiniteSet(Lost') /\ Cardinality(Lost') <= Cardinality(Lost) /\ Cardinality(Lost') \in Nat
    BY <1>1, <1>2, FS_Subset, FS_CardinalityType
  <2> QED
    BY <1>1, <1>2, <2>1
<1>3. ASSUME NEW label \in {"get", "off"}, Anew(label) PROVE LostAreErrors'
  <2>1. Lost' = {} /\ counts'["error"] = 0
    BY <1>3 DEF Anew, NoCounts, Lost, Listed
  <2> QED
    BY <2>1, FS_EmptySet
<1>4. CASE Produce
  <2>1. counts' = counts /\ page' = page /\ job' = job /\ file' = file
    BY <1>4 DEF Produce, worker
  <2>2. \A i \in 1..Len(queue) : i \in 1..Len(queue') /\ queue'[i] = queue[i]
    <3>1. PICK item \in Urls \cup {None} : queue' = Append(queue, item)
      <4>1. CASE produced < Rows
        BY <1>4, <4>1 DEF Produce
      <4>2. CASE ~(produced < Rows)
        BY <1>4, <4>2 DEF Produce, Stop
      <4> QED
        BY <4>1, <4>2
    <3> QED
      BY <3>1
  <2>3. \A u \in Lost' : u \in Listed
    <3>1. CASE produced < Rows
      <4>1. /\ queue' = Append(queue, file[produced + 1]) /\ produced' = produced + 1
            /\ produced + 1 \in 1..Len(file)
        BY <1>4, <3>1 DEF Produce
      <4>2. Len(queue') \in 1..Len(queue') /\ queue'[Len(queue')] = file[produced + 1]
        BY <4>1
      <4>3. \A u \in Lost' : u # file[produced + 1]
        BY <4>2 DEF Lost
      <4>4. \A u \in Listed' : u \in Listed \/ u = file[produced + 1]
        BY <2>1, <4>1 DEF Listed
      <4> QED
        BY <4>3, <4>4 DEF Lost
    <3>2. CASE ~(produced < Rows)
      BY <1>4, <2>1, <3>2 DEF Produce, Lost, Listed
    <3> QED
      BY <3>1, <3>2
  <2> QED
    BY <1>2, <2>1, <2>2, <2>3 DEF Lost
<1>5. CASE Joins \/ Finish \/ NoRowMoves
  BY <1>2, <1>5 DEF Joins, Finish, NoRowMoves, Lost, Listed, worker, conveyor
<1>6. ASSUME NEW w \in Workers, Take(w) PROVE LostAreErrors'
  <2>1. UNCHANGED <<file, produced, counts, page>> /\ queue' = Tail(queue) /\ queue # <<>>
    BY <1>6 DEF Take
  <2>2. job[w] = None
    BY <1>6 DEF Take, AtRestNoJob, Working, PCs
  <2>3. \A u \in Listed : u \in Urls /\ u # None
    <3>1. produced <= Len(file)
      BY DEF IInv, ConveyorType
    <3> QED
      BY <3>1, ListedAreUrls
  <2>4. \A i \in 1..Len(queue) : i = 1 \/ (i - 1 \in 1..Len(queue') /\ queue'[i - 1] = queue[i])
    BY <2>1
  <2>7. Lost' \subseteq Listed
    BY <2>1 DEF Lost, Listed
  <2>5. \A u \in Lost' : \A i \in 1..Len(queue) : queue[i] # u
    <3> SUFFICES ASSUME NEW u \in Lost', queue[1] = u PROVE FALSE
      BY <2>1, <2>4 DEF Lost
    <3>1. u # None /\ Head(queue) = u
      BY <2>1, <2>3, <2>7
    <3>2. job' = [job EXCEPT ![w] = u]
      BY <1>6, <3>1 DEF Take, Stop
    <3>3. job'[w] = u
      BY <3>2 DEF IInv, WorkerType
    <3> QED
      BY <3>3 DEF Lost
  <2>6. \A u \in Lost' : \A v \in Workers : job[v] # u
    <3> SUFFICES ASSUME NEW u \in Lost', NEW v \in Workers, job[v] = u PROVE FALSE
      OBVIOUS
    <3>1. v # w
      BY <2>1, <2>2, <2>3 DEF Lost, Listed
    <3>2. job'[v] = job[v]
      BY <1>6, <3>1 DEF Take, IInv, WorkerType
    <3> QED
      BY <3>2 DEF Lost
  <2>8. Lost' \subseteq Lost
    BY <2>1, <2>5, <2>6, <2>7 DEF Lost
  <2>9. counts'["error"] = counts["error"]
    BY <2>1
  <2> QED
    BY <1>2, <2>8, <2>9
<1>7. ASSUME NEW w \in Workers, GoesOn(w) PROVE LostAreErrors'
  BY <1>2, <1>7 DEF GoesOn, Lost, Listed, conveyor
<1>8. ASSUME NEW w \in Workers, NEW outcome \in {"ok", "empty", "error", "skip"},
             Ends(w, outcome), pc[w] \in Working, UNCHANGED conveyor,
             \/ page' = page /\ page[job[w]] = "ok"
             \/ \E status \in {"ok", "empty", "error"} : page' = [page EXCEPT ![job[w]] = status]
      PROVE  LostAreErrors'
  <2>1. /\ job[w] \in Urls /\ job' = [job EXCEPT ![w] = None]
        /\ counts'["error"] \in Nat /\ counts'["error"] >= counts["error"]
    <3>1. /\ job[w] \in Urls /\ job' = [job EXCEPT ![w] = None]
          /\ counts'["error"] \in {counts["error"], counts["error"] + 1}
      BY <1>8, EndsRow, ZenonT(30)
    <3>2. counts["error"] \in Nat
      BY RowTypes
    <3> QED
      BY <3>1, <3>2
  <2>2. page'[job[w]] # "absent" /\ \A u \in Urls : u # job[w] => page'[u] = page[u]
    BY <1>8, <2>1 DEF IInv, PageType
  <2>3. \A u \in Lost' : u # job[w] /\ u \in Urls
    <3>1. Lost' \subseteq Listed
      BY <1>8 DEF Lost, Listed, conveyor
    <3>2. Listed \subseteq Urls
      BY ScrapingAssumption DEF Listed, IInv, ConveyorType
    <3> QED
      BY <2>2, <3>1, <3>2 DEF Lost
  <2>4. \A u \in Lost' : \A v \in Workers : job[v] # u
    BY <2>1, <2>3 DEF Lost, IInv, WorkerType
  <2>5. Lost' \subseteq Listed /\ UNCHANGED queue
    BY <1>8 DEF Lost, Listed, conveyor
  <2>6. Lost' \subseteq Lost
    BY <2>2, <2>3, <2>4, <2>5 DEF Lost
  <2> QED
    BY <1>2, <2>1, <2>6
<1>9. ASSUME NEW w \in Workers, Throws(w) PROVE LostAreErrors'
  <2>1. /\ job' = [job EXCEPT ![w] = None]
        /\ counts'["error"] = counts["error"] + 1
        /\ UNCHANGED <<file, produced, queue, page>>
    BY <1>9, EndsRow DEF Throws, conveyor
  <2>2. Lost' \subseteq Lost \cup {job[w]}
    BY <2>1 DEF Lost, Listed, IInv, WorkerType
  <2>3. /\ IsFiniteSet(Lost \cup {job[w]})
        /\ Cardinality(Lost \cup {job[w]}) \in {Cardinality(Lost), Cardinality(Lost) + 1}
    BY <1>1, FS_AddElement
  <2>4. /\ IsFiniteSet(Lost') /\ Cardinality(Lost') \in Nat
        /\ Cardinality(Lost') <= Cardinality(Lost \cup {job[w]})
    BY <2>2, <2>3, FS_Subset, FS_CardinalityType
  <2> QED
    BY <1>1, <2>1, <2>3, <2>4
<1>10. ASSUME NEW w \in Workers, Skips(w) \/ Saves(w) PROVE LostAreErrors'
  BY <1>8, <1>10 DEF Skips, Saves, Working, PCs
<1> QED
  BY <1>3, <1>4, <1>5, <1>6, <1>7, <1>9, <1>10, Kinds DEF RowStep

LEMMA AppendNoRepeats ==
  ASSUME NEW S, NEW q \in Seq(S), NEW x \in S, NoRepeats(q),
         x = Stop \/ \A i \in 1..Len(q) : q[i] # x
  PROVE  NoRepeats(Append(q, x))
<1> DEFINE r == Append(q, x)
<1>1. /\ Len(q) \in Nat /\ Len(r) = Len(q) + 1
      /\ \A i \in 1..Len(q) : r[i] = q[i]
      /\ r[Len(q) + 1] = x
  OBVIOUS
<1> HIDE DEF r
<1>2. SUFFICES ASSUME NEW i \in 1..Len(r), NEW j \in 1..Len(r), r[i] = r[j], r[i] # Stop
               PROVE  i = j
  BY DEF NoRepeats, r
<1>3. \A k \in 1..Len(r) : k \in 1..Len(q) \/ k = Len(q) + 1
  BY <1>1
<1>4. CASE i \in 1..Len(q) /\ j \in 1..Len(q)
  BY <1>1, <1>2, <1>4 DEF NoRepeats
<1>5. CASE i = Len(q) + 1
  BY <1>1, <1>2, <1>3, <1>5
<1>6. CASE j = Len(q) + 1
  BY <1>1, <1>2, <1>3, <1>6
<1> QED
  BY <1>3, <1>4, <1>5, <1>6

LEMMA SameOnce ==
  ASSUME Once, UNCHANGED <<file, produced, queue, job>>
  PROVE  Once'
BY DEF Once, Listed, NoRepeats

LEMMA OnceNext ==
  ASSUME IInv, [Next]_vars, AtRestNoJob, Distinct, Once
  PROVE  Once'
<1> USE RowTypes DEF Once
<1>1. ASSUME NEW label \in {"get", "off"}, Anew(label) PROVE Once'
  BY <1>1 DEF Anew, NoRepeats
<1>2. CASE Produce
  <2>1. UNCHANGED <<file, job>>
    BY <1>2 DEF Produce, worker
  <2>2. CASE produced < Rows
    <3>1. /\ queue' = Append(queue, file[produced + 1]) /\ produced' = produced + 1
          /\ produced + 1 \in 1..Len(file)
      BY <1>2, <2>2 DEF Produce
    <3>2. file[produced + 1] \notin Listed
      BY <3>1 DEF Listed, Distinct
    <3>3. Listed' = Listed \cup {file[produced + 1]}
      BY <2>1, <3>1 DEF Listed
    <3>4. /\ Len(queue') = Len(queue) + 1
          /\ \A i \in 1..Len(queue) : queue'[i] = queue[i]
          /\ queue'[Len(queue) + 1] = file[produced + 1]
      BY <3>1
    <3>5. \A i \in 1..Len(queue') : queue'[i] # Stop => queue'[i] \in Listed'
      <4>1. \A i \in 1..Len(queue') : i \in 1..Len(queue) \/ i = Len(queue) + 1
        BY <3>4
      <4> QED
        BY <3>3, <3>4, <4>1
    <3>6. NoRepeats(queue')
      <4>1. file[produced + 1] \in Urls \cup {None} /\ file[produced + 1] # None
        BY <3>1, ScrapingAssumption
      <4>2. \A k \in 1..Len(queue) : queue[k] # file[produced + 1]
        BY <3>2, <4>1 DEF Stop
      <4> QED
        BY <3>1, <4>1, <4>2, AppendNoRepeats
    <3>7. \A w \in Workers : job'[w] # None =>
            job'[w] \in Listed' /\ \A i \in 1..Len(queue') : queue'[i] # job'[w]
      <4> SUFFICES ASSUME NEW w \in Workers, job'[w] # None
                   PROVE  job'[w] \in Listed' /\ \A i \in 1..Len(queue') : queue'[i] # job'[w]
        OBVIOUS
      <4>1. job[w] \in Listed /\ job'[w] = job[w]
        BY <2>1
      <4>2. \A i \in 1..Len(queue) : queue[i] # job[w]
        BY <2>1
      <4>3. job[w] # file[produced + 1]
        BY <3>2, <4>1
      <4>4. \A i \in 1..Len(queue') : i \in 1..Len(queue) \/ i = Len(queue) + 1
        BY <3>4
      <4> QED
        BY <3>3, <3>4, <4>1, <4>2, <4>3, <4>4
    <3> QED
      BY <2>1, <3>5, <3>6, <3>7
  <2>3. CASE ~(produced < Rows)
    <3>1. queue' = Append(queue, Stop) /\ produced' = produced
      BY <1>2, <2>3 DEF Produce
    <3>2. Listed' = Listed
      BY <2>1, <3>1 DEF Listed
    <3>4. /\ Len(queue') = Len(queue) + 1
          /\ \A i \in 1..Len(queue) : queue'[i] = queue[i]
          /\ queue'[Len(queue) + 1] = None
      BY <3>1 DEF Stop
    <3>5. \A i \in 1..Len(queue') : queue'[i] # Stop => queue'[i] \in Listed'
      BY <3>2, <3>4 DEF Stop
    <3>6. NoRepeats(queue')
      <4>1. Stop \in Urls \cup {None}
        BY DEF Stop
      <4> QED
        BY <3>1, <4>1, AppendNoRepeats
    <3>7. \A w \in Workers : job'[w] # None =>
            job'[w] \in Listed' /\ \A i \in 1..Len(queue') : queue'[i] # job'[w]
      BY <2>1, <3>2, <3>4
    <3> QED
      BY <2>1, <3>5, <3>6, <3>7
  <2> QED
    BY <2>2, <2>3
<1>3. ASSUME UNCHANGED <<file, produced, queue, job>> PROVE Once'
  BY <1>3, SameOnce
<1>4. CASE Joins \/ Finish \/ NoRowMoves
  BY <1>3, <1>4 DEF Joins, Finish, NoRowMoves, worker, conveyor
<1>5. ASSUME NEW w \in Workers, Take(w) PROVE Once'
  <2>1. UNCHANGED <<file, produced>> /\ queue' = Tail(queue) /\ queue # <<>>
    BY <1>5 DEF Take
  <2>2. Listed' = Listed
    BY <2>1 DEF Listed
  <2>3. /\ Len(queue') = Len(queue) - 1
        /\ \A i \in 1..Len(queue') : i + 1 \in 1..Len(queue) /\ queue'[i] = queue[i + 1]
        /\ 1 \in 1..Len(queue)
    BY <2>1
  <2>4. \A i \in 1..Len(queue') : queue'[i] # Stop => queue'[i] \in Listed'
    BY <2>2, <2>3
  <2>5. NoRepeats(queue')
    <3> SUFFICES ASSUME NEW i \in 1..Len(queue'), NEW j \in 1..Len(queue'),
                        queue'[i] = queue'[j], queue'[i] # Stop
                 PROVE  i = j
      BY DEF NoRepeats
    <3>1. i + 1 \in 1..Len(queue) /\ j + 1 \in 1..Len(queue) /\ queue[i + 1] = queue[j + 1]
      BY <2>3
    <3>2. i + 1 = j + 1
      BY <2>3, <3>1 DEF NoRepeats
    <3> QED
      BY <3>2
  <2>6. job[w] = None
    BY <1>5 DEF Take, AtRestNoJob, Working, PCs
  <2>7. CASE Head(queue) = Stop
    <3>1. job' = job
      BY <1>5, <2>7 DEF Take
    <3> QED
      BY <2>2, <2>3, <2>4, <2>5, <3>1
  <2>8. CASE Head(queue) # Stop
    <3>1. queue[1] # Stop /\ job' = [job EXCEPT ![w] = queue[1]]
      BY <1>5, <2>1, <2>8 DEF Take
    <3>2. job'[w] = queue[1] /\ \A v \in Workers \ {w} : job'[v] = job[v]
      BY <3>1 DEF IInv, WorkerType
    <3>3. \A v \in Workers : job'[v] # None =>
            job'[v] \in Listed' /\ \A i \in 1..Len(queue') : queue'[i] # job'[v]
      <4>1. queue[1] \in Listed' /\ \A i \in 1..Len(queue') : queue'[i] # queue[1]
        <5>1. queue[1] \in Listed'
          BY <2>2, <2>3, <3>1
        <5>2. \A i \in 1..Len(queue') : queue[i + 1] # queue[1]
          BY <2>3, <3>1 DEF NoRepeats
        <5> QED
          BY <2>3, <5>1, <5>2
      <4>2. \A v \in Workers \ {w} : job'[v] # None =>
              job'[v] \in Listed' /\ \A i \in 1..Len(queue') : queue'[i] # job'[v]
        BY <2>2, <2>3, <3>2
      <4> QED
        BY <3>2, <4>1, <4>2
    <3>4. \A u, v \in Workers : job'[u] = job'[v] /\ job'[u] # None => u = v
      <4>1. \A v \in Workers \ {w} : job'[v] # None => job'[v] # queue[1]
        BY <2>3, <3>2
      <4> QED
        BY <3>2, <4>1
    <3> QED
      BY <2>4, <2>5, <3>3, <3>4
  <2> QED
    BY <2>7, <2>8
<1>6. ASSUME NEW w \in Workers, GoesOn(w) PROVE Once'
  BY <1>3, <1>6 DEF GoesOn, conveyor
<1>7. ASSUME NEW w \in Workers, Skips(w) \/ Saves(w) \/ Throws(w) PROVE Once'
  <2>1. job' = [job EXCEPT ![w] = None] /\ UNCHANGED <<file, produced, queue>>
    BY <1>7 DEF Skips, Saves, Throws, Ends, conveyor
  <2>2. Listed' = Listed /\ \A v \in Workers : job'[v] # None => v # w /\ job'[v] = job[v]
    BY <2>1 DEF Listed, IInv, WorkerType
  <2> QED
    BY <2>1, <2>2
<1> QED
  BY <1>1, <1>2, <1>4, <1>5, <1>6, <1>7, Kinds DEF RowStep

LEMMA PastCheckNext ==
  ASSUME IInv, [Next]_vars, AtRestNoJob, Once, ~RetryErrors, PastCheck
  PROVE  PastCheck'
<1> USE DEF PastCheck, IInv, WorkerType
<1>1. ASSUME NEW label \in {"get", "off"}, Anew(label) PROVE PastCheck'
  BY <1>1 DEF Anew, Working
<1>2. CASE Produce \/ Joins \/ Finish \/ NoRowMoves
  BY <1>2 DEF Produce, Joins, Finish, NoRowMoves, worker
<1>3. ASSUME NEW w \in Workers, Take(w) PROVE PastCheck'
  <2>1. page' = page /\ \A v \in Workers \ {w} : job'[v] = job[v] /\ pc'[v] = pc[v]
    BY <1>3 DEF Take, Goto
  <2>2. pc'[w] \in {"returned", "check"}
    BY <1>3 DEF Take, Goto
  <2> QED
    BY <2>1, <2>2 DEF Working
<1>4. ASSUME NEW w \in Workers, GoesOn(w) PROVE PastCheck'
  <2>1. page' = page /\ job' = job /\ \A v \in Workers \ {w} : pc'[v] = pc[v]
    BY <1>4 DEF GoesOn, Goto
  <2>2. page[job[w]] # "ok"
    BY <1>4 DEF GoesOn
  <2> QED
    BY <2>1, <2>2
<1>5. ASSUME NEW w \in Workers, Skips(w) \/ Saves(w) \/ Throws(w) PROVE PastCheck'
  <2>1. /\ pc[w] \in Working
        /\ job' = [job EXCEPT ![w] = None] /\ pc' = [pc EXCEPT ![w] = "get"]
    BY <1>5 DEF Skips, Saves, Throws, Ends, Goto, Working, PCs
  <2>2. \A v \in Workers : pc'[v] \in Working => v # w /\ job'[v] = job[v] /\ pc'[v] = pc[v]
    BY <2>1 DEF Working
  <2>3. \A v \in Workers : pc'[v] \in Working => job[v] \in Urls /\ job[v] # None /\ job[v] # job[w]
    BY <2>2, ScrapingAssumption DEF JobHeld, Once
  <2>4. \A u \in Urls : u # job[w] => page'[u] = page[u]
    BY <1>5 DEF Skips, Saves, Throws, PageType
  <2> QED
    BY <2>2, <2>3, <2>4
<1> QED
  BY <1>1, <1>2, <1>3, <1>4, <1>5, Kinds DEF RowStep

LEMMA RowInvInit == Init => RowInv
<1> SUFFICES ASSUME Init PROVE RowInv
  OBVIOUS
<1> USE DEF Init, Idle
<1>1. AtRestNoJob /\ Once /\ PastCheck
  BY DEF AtRestNoJob, Once, NoRepeats, PastCheck, Working
<1>2. Balance
  <2>1. Busy = {} /\ Back = {} /\ Settled = 0 /\ Len(queue) = 0
    BY DEF Busy, Back, Settled, NoCounts
  <2> QED
    BY <2>1, FS_EmptySet DEF Balance
<1>3. Phases
  BY RowTypes, InitIInv DEF Phases
<1>4. LostAreErrors
  <2>1. Lost = {} /\ counts["error"] = 0
    BY DEF Lost, Listed, NoCounts
  <2> QED
    BY <2>1, FS_EmptySet DEF LostAreErrors
<1> QED
  BY <1>1, <1>2, <1>3, <1>4 DEF RowInv

-----------------------------------------------------------------------------
(***************************************************************************)
(* Theorems                                                                *)
(***************************************************************************)

(* The invariant about rows holds in every run, however often the command  *)
(* is killed and started again.                                            *)
THEOREM RowInvariant == Spec => []RowInv
<1>1. Init => RowInv
  BY RowInvInit
<1>2. IInv /\ RowInv /\ [Next]_vars => RowInv'
  <2> SUFFICES ASSUME IInv, RowInv, [Next]_vars PROVE RowInv'
    OBVIOUS
  <2>1. Distinct' <=> Distinct
    <3>1. file' = file
      <4>1. CASE \E w \in Workers : RowStep(w)
        BY <4>1 DEF RowStep, Take, GoesOn, Skips, Saves, Throws, conveyor
      <4> QED
        BY <4>1, Kinds DEF Anew, Produce, Joins, Finish, NoRowMoves, conveyor
    <3> QED
      BY <3>1 DEF Distinct
  <2>2. AtRestNoJob' /\ Balance' /\ Phases' /\ LostAreErrors'
    BY AtRestNoJobNext, BalanceNext, PhasesNext, LostAreErrorsNext DEF RowInv
  <2>3. Distinct => Once'
    BY OnceNext DEF RowInv
  <2>4. Distinct /\ ~RetryErrors => PastCheck'
    BY PastCheckNext DEF RowInv
  <2> QED
    BY <2>1, <2>2, <2>3, <2>4 DEF RowInv
<1> QED
  BY <1>1, <1>2, ScrapingInvariant, PTL DEF Spec

(* When the command ends every row it read was counted exactly once, and   *)
(* only rows counted as errors left no trace in the table: nothing is lost *)
(* between the queue, the workers and the sentinels.                       *)
THEOREM NoRowIsLost == Spec => []EveryRowCounted
<1>1. IInv /\ RowInv => EveryRowCounted
  <2> SUFFICES ASSUME IInv, RowInv, run = "finished" PROVE EveryRowCounted!2
    BY DEF EveryRowCounted
  <2> USE RowTypes DEF RowInv
  <2>1. produced = Rows /\ stops = Cardinality(Workers) /\ queue = <<>> /\ Back = Workers
    BY DEF Phases
  <2>2. \A w \in Workers : job[w] = None
    BY <2>1 DEF AtRestNoJob, Back, Working
  <2>3. Busy = {} /\ Cardinality(Busy) = 0 /\ Len(queue) = 0
    BY <2>1, <2>2, FS_EmptySet DEF Busy
  <2>4. Settled = Rows
    BY <2>1, <2>3, WorkersFinite DEF Balance
  <2>5. {u \in {file[i] : i \in 1..Rows} : page[u] = "absent"} = Lost
    <3>1. Listed \subseteq Urls /\ None \notin Urls
      BY ScrapingAssumption DEF Listed, IInv, ConveyorType
    <3>2. Listed = {file[i] : i \in 1..Rows}
      BY <2>1 DEF Listed
    <3> QED
      BY <2>2, <2>3, <3>1, <3>2 DEF Lost
  <2> QED
    BY <2>4, <2>5 DEF Settled, LostAreErrors
<1> QED
  BY <1>1, ScrapingInvariant, RowInvariant, PTL

(* Without --retry-errors, and with no URL listed twice, a good page is     *)
(* never replaced, neither by two workers at once nor after a restart.     *)
THEOREM GoodPagesStay == Spec => GoodPageKept
<1> DEFINE Kept == ~RetryErrors /\ Distinct => \A u \in Urls : page[u] = "ok" => page'[u] = "ok"
<1>1. IInv /\ RowInv /\ [Next]_vars => [Kept]_vars
  <2> SUFFICES ASSUME IInv, RowInv, [Next]_vars, ~RetryErrors, Distinct,
                      NEW u \in Urls, page[u] = "ok"
               PROVE  page'[u] = "ok"
    OBVIOUS
  <2>1. CASE \E w \in Workers : Saves(w)
    <3>1. PICK w \in Workers : Saves(w)
      BY <2>1
    <3>2. page[job[w]] # "ok"
      BY <3>1 DEF Saves, RowInv, PastCheck, Working, PCs
    <3> QED
      BY <3>1, <3>2 DEF Saves, IInv, PageType
  <2>2. CASE ~ \E w \in Workers : Saves(w)
    <3>1. page' = page
      <4>1. CASE \E w \in Workers : RowStep(w)
        BY <2>2, <4>1 DEF RowStep, Take, GoesOn, Skips, Throws
      <4> QED
        BY <4>1, Kinds DEF Anew, Produce, Joins, Finish, NoRowMoves
    <3> QED
      BY <3>1
  <2> QED
    BY <2>1, <2>2
<1> QED
  BY <1>1, ScrapingInvariant, RowInvariant, PTL DEF Spec, GoodPageKept

-----------------------------------------------------------------------------
(***************************************************************************)
(* Nobody waits for ever                                                   *)
(***************************************************************************)

(* The sentinels come after the rows, and each brings one worker home.     *)
SentinelsLast ==
  /\ stops > 0 => produced = Rows
  /\ \A i \in 1..Len(queue) : queue[i] = Stop <=> i + stops > Len(queue)
  /\ Cardinality(Back) = IF stops > Len(queue) THEN stops - Len(queue) ELSE 0

(* Whoever is in the slot is at a request, and the browser is launched in  *)
(* it.                                                                     *)
SlotHeld ==
  \A w \in Workers :
    /\ In(w, "out") <=> pc[w] \notin {"http", "browser", "launch"}
    /\ pc[w] = "launch" => In(w, "inside")

(* Who waits for a domain is in its line, once, and nobody else is.        *)
InLine(t, d) == \E i \in 1..Len(waiters[d]) : waiters[d][i] = t

Lines ==
  /\ \A t \in Tasks : In(t, "queued") => InLine(t, slot[t].domain)
  /\ \A d \in Domains : \A i \in 1..Len(waiters[d]) :
       /\ In(waiters[d][i], "queued") /\ slot[waiters[d][i]].domain = d
       /\ \A j \in 1..Len(waiters[d]) : waiters[d][i] = waiters[d][j] => i = j

(* A lock is held by someone who is about to release it. *)
LocksHeld ==
  /\ robots.holder # None => pc[robots.holder] \in {"locked", "asking"}
  /\ browser.holder # None => pc[browser.holder] = "launch"

AllStarted == run \in {"producing", "joining"} => \A w \in Workers : pc[w] # "off"

WayInv == SentinelsLast /\ SlotHeld /\ Lines /\ LocksHeld /\ AllStarted

LEMMA WayInit == Init => WayInv
<1> SUFFICES ASSUME Init PROVE WayInv
  OBVIOUS
<1> USE DEF Init, Idle, LimiterInit, Workers
<1>1. SentinelsLast
  <2>1. Back = {}
    BY DEF Back
  <2> QED
    BY <2>1, FS_EmptySet DEF SentinelsLast
<1>2. SlotHeld
  BY DEF SlotHeld, In, Outside
<1>3. Lines
  BY DEF Lines, In, Outside
<1>4. LocksHeld
  BY DEF LocksHeld, NoRobots, NoBrowser
<1>5. AllStarted
  BY DEF AllStarted
<1> QED
  BY <1>1, <1>2, <1>3, <1>4, <1>5 DEF WayInv

LEMMA SentinelsLastNext ==
  ASSUME IInv, [Next]_vars, AtRestNoJob, Phases, SentinelsLast
  PROVE  SentinelsLast'
<1> USE WorkersFinite, RowTypes
<1>0. file' = file
  <2>1. CASE \E w \in Workers : RowStep(w)
    BY <2>1 DEF RowStep, Take, GoesOn, Skips, Saves, Throws, conveyor
  <2> QED
    BY <2>1, Kinds DEF Anew, Produce, Joins, Finish, NoRowMoves, conveyor
<1>a. Rows' = Rows
  BY <1>0 DEF Rows
<1>1. ASSUME NEW label \in {"get", "off"}, Anew(label) PROVE SentinelsLast'
  <2>1. Back' = {} /\ Len(queue') = 0 /\ stops' = 0
    BY <1>1 DEF Anew, Back
  <2> QED
    BY <2>1, FS_EmptySet DEF SentinelsLast
<1>2. CASE Produce
  <2>0. Back' = Back
    BY <1>2 DEF Produce, worker, Back
  <2>1. CASE produced < Rows
    <3>1. queue' = Append(queue, file[produced + 1]) /\ produced' = produced + 1 /\ stops' = stops
      BY <1>2, <2>1 DEF Produce
    <3>2. file[produced + 1] \in Urls /\ file[produced + 1] # Stop
      <4>1. produced + 1 \in 1..Len(file)
        <5>1. produced \in Nat /\ Rows <= Len(file) /\ Rows \in Nat /\ Len(file) \in Int
          BY ScrapingAssumption DEF IInv, ConveyorType
        <5> QED
          BY <2>1, <5>1
      <4>2. file[produced + 1] \in Urls
        BY <4>1
      <4>3. Stop \notin Urls
        BY ScrapingAssumption DEF Stop
      <4> QED
        BY <4>2, <4>3
    <3>3. stops = 0
      BY <2>1 DEF SentinelsLast
    <3>4. /\ Len(queue') = Len(queue) + 1 /\ queue'[Len(queue) + 1] # Stop
          /\ \A i \in 1..Len(queue) : queue'[i] = queue[i]
      BY <3>1, <3>2
    <3>5. \A i \in 1..Len(queue) : queue[i] # Stop
      BY <3>3 DEF SentinelsLast
    <3>6. \A i \in 1..Len(queue') : queue'[i] # Stop /\ ~(i + stops' > Len(queue'))
      BY <3>1, <3>3, <3>4, <3>5
    <3> QED
      BY <2>0, <3>1, <3>3, <3>4, <3>6 DEF SentinelsLast
  <2>2. CASE ~(produced < Rows)
    <3>1. queue' = Append(queue, Stop) /\ produced' = produced /\ stops' = stops + 1
      BY <1>2, <2>2 DEF Produce
    <3>2. produced = Rows
      BY <2>2 DEF Phases
    <3>3. /\ Len(queue') = Len(queue) + 1 /\ queue'[Len(queue) + 1] = Stop
          /\ \A i \in 1..Len(queue) : queue'[i] = queue[i]
      <4>1. Stop \in Urls \cup {None}
        BY DEF Stop
      <4> QED
        BY <3>1, <4>1
    <3>4. PICK n \in Nat : n = Len(queue) /\ Len(queue') = n + 1 /\ stops \in Nat
      BY <3>3
    <3>5. \A i \in 1..(n + 1) : queue'[i] = Stop <=> i + (stops + 1) > n + 1
      <4> TAKE i \in 1..(n + 1)
      <4>1. CASE i = n + 1
        BY <3>3, <3>4, <4>1
      <4>2. CASE i # n + 1
        <5>1. i \in 1..n
          BY <4>2
        <5>2. queue[i] = Stop <=> i + stops > n
          BY <3>4, <5>1 DEF SentinelsLast
        <5>3. i + stops > n <=> i + (stops + 1) > n + 1
          BY <3>4
        <5> QED
          BY <3>3, <3>4, <5>1, <5>2, <5>3
      <4> QED
        BY <4>1, <4>2
    <3>6. Cardinality(Back') = IF stops + 1 > n + 1 THEN (stops + 1) - (n + 1) ELSE 0
      <4>1. Cardinality(Back) = IF stops > n THEN stops - n ELSE 0
        BY <3>4 DEF SentinelsLast
      <4> QED
        BY <2>0, <3>4, <4>1
    <3> QED
      BY <1>a, <3>1, <3>2, <3>4, <3>5, <3>6 DEF SentinelsLast
  <2> QED
    BY <2>1, <2>2
<1>3. CASE Joins \/ Finish \/ NoRowMoves
  <2>1. UNCHANGED <<queue, produced, stops, pc>>
    BY <1>3 DEF Joins, Finish, NoRowMoves, worker, conveyor
  <2> QED
    BY <1>a, <2>1 DEF SentinelsLast, Back
<1>4. ASSUME NEW w \in Workers, Take(w) PROVE SentinelsLast'
  <2>1. /\ queue' = Tail(queue) /\ queue # <<>> /\ UNCHANGED <<produced, stops>> /\ pc[w] = "get"
    BY <1>4 DEF Take
  <2>2. PICK k \in Nat : Len(queue) = k + 1 /\ Len(queue') = k /\ stops \in Nat
    <3>1. Len(queue) # 0 /\ Len(queue) \in Nat /\ stops \in Nat
      BY <2>1
    <3>2. Len(queue') = Len(queue) - 1
      BY <2>1, <3>1
    <3>3. PICK k : k = Len(queue) - 1
      OBVIOUS
    <3>4. k \in Nat /\ Len(queue) = k + 1 /\ Len(queue') = k
      BY <3>1, <3>2, <3>3
    <3> QED
      BY <3>1, <3>4
  <2>3. \A i \in 1..k : queue'[i] = queue[i + 1]
    BY <2>1, <2>2
  <2>4. \A i \in 1..k : queue'[i] = Stop <=> i + stops > k
    <3> TAKE i \in 1..k
    <3>1. i + 1 \in 1..Len(queue)
      BY <2>2
    <3>2. queue[i + 1] = Stop <=> i + 1 + stops > k + 1
      BY <2>2, <3>1 DEF SentinelsLast
    <3>3. i + 1 + stops > k + 1 <=> i + stops > k
      BY <2>2
    <3> QED
      BY <2>3, <3>2, <3>3
  <2>5. Head(queue) = Stop <=> 1 + stops > k + 1
    <3>1. Head(queue) = queue[1] /\ 1 \in 1..Len(queue)
      BY <2>2
    <3> QED
      BY <2>2, <3>1 DEF SentinelsLast
  <2>6. Cardinality(Back) = IF stops > k + 1 THEN stops - (k + 1) ELSE 0
    BY <2>2 DEF SentinelsLast
  <2>7. Cardinality(Back') = IF stops > k THEN stops - k ELSE 0
    <3>1. CASE Head(queue) = Stop
      <4>1. pc' = [pc EXCEPT ![w] = "returned"]
        BY <1>4, <3>1 DEF Take, Goto
      <4>2. Back' = Back \cup {w} /\ w \notin Back
        BY <2>1, <4>1 DEF Back, IInv, WorkerType
      <4>3. Cardinality(Back') = Cardinality(Back) + 1
        BY <4>2, FS_AddElement
      <4>4. stops >= k + 1
        BY <2>2, <2>5, <3>1
      <4> QED
        BY <2>2, <2>6, <4>3, <4>4
    <3>2. CASE Head(queue) # Stop
      <4>1. pc' = [pc EXCEPT ![w] = "check"]
        BY <1>4, <3>2 DEF Take, Goto
      <4>2. Back' = Back
        BY <2>1, <4>1 DEF Back, IInv, WorkerType
      <4>3. ~(stops > k)
        BY <2>2, <2>5, <3>2
      <4> QED
        BY <2>2, <2>6, <4>2, <4>3
    <3> QED
      BY <3>1, <3>2
  <2> QED
    BY <1>a, <2>1, <2>2, <2>4, <2>7 DEF SentinelsLast
<1>5. ASSUME NEW w \in Workers, GoesOn(w) \/ Skips(w) \/ Saves(w) \/ Throws(w)
      PROVE SentinelsLast'
  <2>1. UNCHANGED <<queue, produced, stops>>
    BY <1>5 DEF GoesOn, Skips, Saves, Throws, conveyor
  <2>2. Back' = Back
    BY <1>5 DEF GoesOn, Skips, Saves, Throws, Ends, Goto, Back, Working, PCs, IInv, WorkerType
  <2> QED
    BY <1>a, <2>1, <2>2 DEF SentinelsLast
<1> QED
  BY <1>1, <1>2, <1>3, <1>4, <1>5, Kinds DEF RowStep

(* What takes a worker into the slot and out of it. *)
LEMMA SlotHeldNext ==
  ASSUME IInv, [Next]_vars, SlotHeld
  PROVE  SlotHeld'
<1> USE DEF Workers, IInv, WorkerType, LimiterInv, LimiterTypeOK, Goto, Ends
<1>1. CASE Start \/ Kill
  BY <1>1 DEF Start, Kill, Anew, SlotHeld, In, Outside
<1>2. CASE Produce \/ Joins \/ Finish \/ Time \/ UNCHANGED vars
  <2>1. UNCHANGED <<slot, pc>>
    BY <1>2 DEF Produce, Joins, Finish, Time, Tick, vars, limiter, worker
  <2> QED
    BY <2>1 DEF SlotHeld, In
<1>3. ASSUME NEW w \in Workers, WorkerStep(w) PROVE SlotHeld'
  <2>1. CASE Take(w) \/ Check(w) \/ LockRobots(w) \/ RobotsCached(w) \/ AskRobots(w)
             \/ RobotsFetched(w) \/ Refuse(w) \/ Save(w)
    <3>1. PICK label \in PCs \ {"http", "browser", "launch"} :
             pc' = [pc EXCEPT ![w] = label]
      BY <2>1 DEF Take, Check, Asked, LockRobots, RobotsCached, AskRobots, RobotsFetched, Refuse, Save, PCs
    <3>2. pc[w] \notin {"http", "browser", "launch"} /\ slot' = slot
      BY <2>1 DEF Take, Check, LockRobots, RobotsCached, AskRobots, RobotsFetched, Refuse, Save, limiter
    <3> QED
      BY <3>1, <3>2 DEF SlotHeld, In
  <2>2. CASE EnterSlot(w)
    <3>1. /\ In(w, "out") /\ slot' = [slot EXCEPT ![w] = [at |-> "queued", domain |-> Domain(w)]]
          /\ pc' = [pc EXCEPT ![w] = IF pc[w] = "slot" THEN "http" ELSE "browser"]
      BY <2>2 DEF EnterSlot, Enter
    <3> QED
      BY <3>1 DEF SlotHeld, In
  <2>3. CASE LimiterStep(w)
    <3>1. \E at \in {"asleep", "inside"} : \E d :
             slot' = [slot EXCEPT ![w] = [at |-> at, domain |-> d]]
      <4>1. CASE Grant(w)
        <5>1. CASE since[slot[w].domain] >= Delay
          BY <4>1, <5>1 DEF Grant, Pass
        <5>2. CASE ~(since[slot[w].domain] >= Delay)
          BY <4>1, <5>2 DEF Grant
        <5> QED
          BY <5>1, <5>2
      <4>2. CASE WakeUp(w)
        BY <4>2 DEF WakeUp, Pass
      <4> QED
        BY <2>3, <4>1, <4>2 DEF LimiterStep
    <3>2. (In(w, "queued") \/ In(w, "asleep")) /\ pc' = pc
      BY <2>3 DEF LimiterStep, Grant, WakeUp, worker
    <3> QED
      BY <3>1, <3>2 DEF SlotHeld, In
  <2>4. CASE HttpRetry(w)
    BY <2>4 DEF HttpRetry, limiter, SlotHeld, In
  <2>5. CASE LockBrowser(w) \/ Launched(w)
    <3>1. slot' = slot /\ In(w, "inside")
      BY <2>5 DEF LockBrowser, Launched, limiter, SlotHeld
    <3>2. PICK label \in {"browser", "launch"} : pc' = [pc EXCEPT ![w] = label]
      BY <2>5 DEF LockBrowser, Launched
    <3> QED
      BY <3>1, <3>2 DEF SlotHeld, In
  <2>6. ASSUME NEW label \in PCs \ {"http", "browser", "launch"},
               Leave(w), pc' = [pc EXCEPT ![w] = label]
        PROVE  SlotHeld'
    BY <2>6 DEF Leave, Outside, SlotHeld, In
  <2>7. CASE HttpAnswer(w) \/ LaunchRaises(w) \/ BrowserAnswer(w)
    <3>1. Leave(w) /\ \E label \in PCs \ {"http", "browser", "launch"} : pc' = [pc EXCEPT ![w] = label]
      BY <2>7 DEF HttpAnswer, LaunchRaises, BrowserAnswer, PCs
    <3> QED
      BY <2>6, <3>1
  <2>8. CASE Raises(w)
    <3>1. pc' = [pc EXCEPT ![w] = "get"]
      BY <2>8 DEF Raises
    <3>2. CASE Leave(w)
      BY <2>6, <3>1, <3>2 DEF PCs
    <3>3. CASE ~Leave(w)
      <4>1. pc[w] \in {"check", "robots", "asking", "refuse", "save"} /\ slot' = slot
        BY <2>8, <3>3 DEF Raises, limiter
      <4> QED
        BY <3>1, <4>1 DEF SlotHeld, In
    <3> QED
      BY <3>2, <3>3
  <2> QED
    BY <1>3, <2>1, <2>2, <2>3, <2>4, <2>5, <2>7, <2>8 DEF WorkerStep
<1> QED
  BY <1>1, <1>2, <1>3 DEF Next

(* The line of a domain grows at its end and shrinks at its head. *)
LEMMA LinesNext ==
  ASSUME IInv, [Next]_vars, Lines
  PROVE  Lines'
<1>0. /\ waiters \in [Domains -> Seq(Tasks)] /\ slot \in [Tasks -> Places]
      /\ \A d \in Domains : Len(waiters[d]) \in Nat
  BY DEF IInv, LimiterInv, LimiterTypeOK
<1>1. CASE LimiterInit'
  BY <1>1 DEF LimiterInit, Lines, In, Outside
<1>2. CASE Tick \/ UNCHANGED limiter
  <2>1. UNCHANGED <<waiters, slot>>
    BY <1>2 DEF Tick, limiter
  <2> QED
    BY <2>1 DEF Lines, InLine, In
<1>3. ASSUME NEW t \in Tasks, NEW e \in Domains, Enter(t, e) PROVE Lines'
  <2>1. /\ In(t, "out") /\ slot' = [slot EXCEPT ![t] = [at |-> "queued", domain |-> e]]
        /\ waiters' = [waiters EXCEPT ![e] = Append(@, t)]
    BY <1>3 DEF Enter
  <2>2. \A d \in Domains : \A i \in 1..Len(waiters[d]) : waiters[d][i] # t /\ waiters[d][i] \in Tasks
    BY <1>0, <2>1 DEF Lines, In
  <2>3. PICK old, n : old = waiters[e] /\ n = Len(old) /\ n \in Nat /\ old \in Seq(Tasks)
    BY <1>0
  <2>4. /\ waiters'[e] = Append(old, t) /\ Len(waiters'[e]) = n + 1 /\ waiters'[e][n + 1] = t
        /\ \A i \in 1..n : waiters'[e][i] = old[i]
        /\ \A d \in Domains \ {e} : waiters'[d] = waiters[d]
    BY <1>0, <2>1, <2>3
  <2>5. /\ slot'[t].at = "queued" /\ slot'[t].domain = e
        /\ \A u \in Tasks \ {t} : slot'[u] = slot[u]
    BY <1>0, <2>1
  <2>6. ASSUME NEW u \in Tasks, slot'[u].at = "queued"
        PROVE  \E i \in 1..Len(waiters'[slot'[u].domain]) : waiters'[slot'[u].domain][i] = u
    <3>1. CASE u = t
      BY <2>3, <2>4, <2>5, <3>1
    <3>2. CASE u # t
      <4>1. slot'[u] = slot[u] /\ In(u, "queued")
        BY <2>5, <2>6, <3>2 DEF In
      <4>2. PICK d \in Domains : d = slot[u].domain /\ InLine(u, d)
        BY <1>0, <4>1 DEF Lines, Places, In
      <4>3. PICK i \in 1..Len(waiters[d]) : waiters[d][i] = u
        BY <4>2 DEF InLine
      <4>4. CASE d = e
        <5>1. i \in 1..(n + 1) /\ waiters'[e][i] = u
          BY <2>3, <2>4, <4>3, <4>4
        <5> QED
          BY <2>4, <4>1, <4>2, <4>4, <5>1
      <4>5. CASE d # e
        BY <2>4, <4>1, <4>2, <4>3, <4>5
      <4> QED
        BY <4>4, <4>5
    <3> QED
      BY <3>1, <3>2
  <2>7. ASSUME NEW d \in Domains, NEW i \in 1..Len(waiters'[d])
        PROVE  /\ slot'[waiters'[d][i]].at = "queued" /\ slot'[waiters'[d][i]].domain = d
               /\ \A j \in 1..Len(waiters'[d]) : waiters'[d][i] = waiters'[d][j] => i = j
    <3>1. CASE d # e
      BY <2>2, <2>4, <2>5, <3>1 DEF Lines, In
    <3>2. CASE d = e
      <4>1. \A k \in 1..n : old[k] \in Tasks \ {t} /\ slot[old[k]].at = "queued" /\ slot[old[k]].domain = e
                            /\ \A j \in 1..n : old[k] = old[j] => k = j
        BY <2>2, <2>3 DEF Lines, In
      <4>2. \A k \in 1..(n + 1) : k \in 1..n \/ k = n + 1
        BY <2>3
      <4> QED
        BY <2>4, <2>5, <3>2, <4>1, <4>2
    <3> QED
      BY <3>1, <3>2
  <2> QED
    BY <2>6, <2>7 DEF Lines, InLine, In
<1>4. ASSUME NEW t \in Tasks, Grant(t) PROVE Lines'
  <2>1. PICK e \in Domains :
          /\ e = slot[t].domain /\ In(t, "queued") /\ waiters[e] # <<>> /\ Head(waiters[e]) = t
          /\ waiters' = [waiters EXCEPT ![e] = Tail(@)]
    BY <1>0, <1>4 DEF Grant, Places, In
  <2>2. PICK at \in {"asleep", "inside"} : slot' = [slot EXCEPT ![t] = [at |-> at, domain |-> e]]
    <3>1. CASE since[e] >= Delay
      BY <1>4, <2>1, <3>1 DEF Grant, Pass
    <3>2. CASE ~(since[e] >= Delay)
      BY <1>4, <2>1, <3>2 DEF Grant
    <3> QED
      BY <3>1, <3>2
  <2>3. PICK old : old = waiters[e] /\ old \in Seq(Tasks) /\ old # <<>>
    BY <1>0, <2>1
  <2>4. PICK n \in Nat : /\ Len(old) = n + 1 /\ old[1] = t /\ waiters'[e] = Tail(old)
                         /\ Len(waiters'[e]) = n /\ \A i \in 1..n : waiters'[e][i] = old[i + 1]
    <3>1. Len(old) \in Nat /\ Len(old) # 0
      BY <2>3
    <3>2. waiters'[e] = Tail(old) /\ old[1] = t
      BY <1>0, <2>1, <2>3
    <3>3. Len(Tail(old)) = Len(old) - 1 /\ \A i \in 1..(Len(old) - 1) : Tail(old)[i] = old[i + 1]
      BY <2>3, <3>1
    <3>4. PICK n : n = Len(old) - 1
      OBVIOUS
    <3>5. n \in Nat /\ Len(old) = n + 1
      BY <3>1, <3>4
    <3> QED
      BY <3>2, <3>3, <3>4, <3>5
  <2>5. \A d \in Domains \ {e} : waiters'[d] = waiters[d]
    BY <1>0, <2>1
  <2>6. slot'[t].at # "queued" /\ \A u \in Tasks \ {t} : slot'[u] = slot[u]
    BY <1>0, <2>2
  <2>7. \A k \in 1..(n + 1) : old[k] \in Tasks /\ slot[old[k]].at = "queued" /\ slot[old[k]].domain = e
                            /\ \A j \in 1..(n + 1) : old[k] = old[j] => k = j
    BY <2>3, <2>4 DEF Lines, In
  <2>8. ASSUME NEW u \in Tasks, slot'[u].at = "queued"
        PROVE  \E i \in 1..Len(waiters'[slot'[u].domain]) : waiters'[slot'[u].domain][i] = u
    <3>1. u # t /\ slot'[u] = slot[u] /\ In(u, "queued")
      BY <2>6, <2>8 DEF In
    <3>2. PICK d \in Domains : d = slot[u].domain /\ InLine(u, d)
      BY <1>0, <3>1 DEF Lines, Places, In
    <3>a. PICK i \in 1..Len(waiters[d]) : waiters[d][i] = u
      BY <3>2 DEF InLine
    <3>3. CASE d # e
      BY <2>5, <3>1, <3>2, <3>a, <3>3
    <3>4. CASE d = e
      <4>1. i \in 1..(n + 1) /\ old[i] = u /\ i # 1
        BY <2>3, <2>4, <3>1, <3>a, <3>4
      <4>2. i - 1 \in 1..n /\ (i - 1) + 1 = i
        BY <4>1
      <4>3. waiters'[e][i - 1] = u
        BY <2>4, <4>1, <4>2
      <4> QED
        BY <2>4, <3>1, <3>2, <3>4, <4>2, <4>3
    <3> QED
      BY <3>3, <3>4
  <2>9. ASSUME NEW d \in Domains, NEW i \in 1..Len(waiters'[d])
        PROVE  /\ slot'[waiters'[d][i]].at = "queued" /\ slot'[waiters'[d][i]].domain = d
               /\ \A j \in 1..Len(waiters'[d]) : waiters'[d][i] = waiters'[d][j] => i = j
    <3>1. CASE d # e
      <4>1. waiters'[d] = waiters[d]
        BY <2>5, <3>1
      <4>2. \A k \in 1..Len(waiters[d]) : waiters[d][k] \in Tasks /\ slot[waiters[d][k]].domain = d
        BY <1>0 DEF Lines
      <4>3. \A k \in 1..Len(waiters[d]) : waiters[d][k] # t
        BY <2>1, <3>1, <4>2
      <4> QED
        BY <2>6, <4>1, <4>2, <4>3 DEF Lines, In
    <3>2. CASE d = e
      <4>1. \A k \in 1..n : k + 1 \in 1..(n + 1) /\ k + 1 # 1 /\ waiters'[e][k] = old[k + 1]
        BY <2>4
      <4>2. \A k \in 1..n : waiters'[e][k] \in Tasks \ {t}
        <5> TAKE k \in 1..n
        <5>1. 1 \in 1..(n + 1) /\ k + 1 \in 1..(n + 1) /\ k + 1 # 1
          OBVIOUS
        <5>2. old[k + 1] # old[1]
          BY <2>7, <5>1
        <5> QED
          BY <2>4, <2>7, <4>1, <5>1, <5>2
      <4>3. \A k, j \in 1..n : waiters'[e][k] = waiters'[e][j] => k = j
        BY <2>7, <4>1
      <4>4. i \in 1..n /\ waiters'[e][i] \in Tasks \ {t}
        BY <2>4, <3>2, <4>2
      <4>5. slot[waiters'[e][i]].at = "queued" /\ slot[waiters'[e][i]].domain = e
        BY <2>7, <4>1, <4>4
      <4>6. slot'[waiters'[e][i]] = slot[waiters'[e][i]]
        BY <2>6, <4>4
      <4> QED
        BY <2>4, <3>2, <4>3, <4>4, <4>5, <4>6
    <3> QED
      BY <3>1, <3>2
  <2> QED
    BY <2>8, <2>9 DEF Lines, InLine, In
<1>5. ASSUME NEW t \in Tasks, WakeUp(t) \/ Leave(t) PROVE Lines'
  <2>1. waiters' = waiters /\ ~In(t, "queued")
    BY <1>5 DEF WakeUp, Leave, In
  <2>2. PICK place : place.at # "queued" /\ slot' = [slot EXCEPT ![t] = place]
    <3>1. CASE WakeUp(t)
      <4>1. PICK place : place = [at |-> "inside", domain |-> slot[t].domain]
        OBVIOUS
      <4> QED
        BY <3>1, <4>1 DEF WakeUp, Pass
    <3>2. CASE Leave(t)
      BY <3>2 DEF Leave, Outside
    <3> QED
      BY <1>5, <3>1, <3>2
  <2>3. slot'[t].at # "queued" /\ \A u \in Tasks \ {t} : slot'[u] = slot[u]
    BY <1>0, <2>2
  <2>4. \A d \in Domains : \A i \in 1..Len(waiters[d]) : waiters[d][i] \in Tasks \ {t}
    BY <1>0, <2>1 DEF Lines
  <2> QED
    BY <2>1, <2>3, <2>4 DEF Lines, InLine, In
<1> QED
  BY <1>1, <1>2, <1>3, <1>4, <1>5, LimiterMoves

(* Who takes a lock, and who goes on with it, comes to its release.        *)
LEMMA LocksHeldNext ==
  ASSUME IInv, [Next]_vars, LocksHeld
  PROVE  LocksHeld'
<1> USE ScrapingAssumption DEF Goto, Ends
<1>0. /\ pc \in [Workers -> PCs] /\ robots.holder \in Workers \cup {None}
      /\ browser.holder \in Workers \cup {None} /\ None \notin Workers
      /\ \A w \in Workers : pc[w] \in {"locked", "asking"} => robots.holder = w
      /\ \A w \in Workers : pc[w] = "launch" => browser.holder = w
  BY DEF IInv, WorkerType, RobotsType, BrowserType, RobotsOnce, BrowserOnce
<1>1. CASE Start \/ Kill
  BY <1>1 DEF Start, Kill, Anew, NoRobots, NoBrowser, LocksHeld
<1>2. CASE Produce \/ Joins \/ Finish \/ Time \/ UNCHANGED vars
  <2>1. UNCHANGED <<robots, pc>> /\ browser'.holder = browser.holder
    <3>1. CASE Finish
      BY <3>1 DEF Finish, worker, IInv, BrowserType
    <3> QED
      BY <1>2, <3>1 DEF Produce, Joins, Time, vars, worker
  <2> QED
    BY <2>1 DEF LocksHeld
<1>3. ASSUME NEW w \in Workers, WorkerStep(w) PROVE LocksHeld'
  <2>1. CASE Take(w) \/ Check(w) \/ Refuse(w) \/ EnterSlot(w) \/ LimiterStep(w) \/ HttpRetry(w)
             \/ HttpAnswer(w) \/ BrowserAnswer(w) \/ Save(w)
             \/ (Raises(w) /\ pc[w] # "asking")
    <3>1. UNCHANGED <<robots, browser>>
      BY <2>1 DEF Take, Check, Refuse, EnterSlot, LimiterStep, HttpRetry, HttpAnswer, BrowserAnswer,
         Save, Raises
    <3>2. pc[w] \notin {"locked", "asking", "launch"} \/ pc' = pc
      BY <2>1 DEF Take, Check, Refuse, EnterSlot, LimiterStep, HttpRetry, HttpAnswer, BrowserAnswer,
         Save, Raises, worker
    <3>3. \A v \in Workers \ {w} : pc'[v] = pc[v]
      BY <1>0, <2>1 DEF Take, Check, Refuse, EnterSlot, LimiterStep, HttpRetry, HttpAnswer,
         BrowserAnswer, Save, Raises, worker
    <3> QED
      BY <1>0, <3>1, <3>2, <3>3 DEF LocksHeld
  <2>2. CASE LockRobots(w)
    <3>1. /\ robots'.holder = w /\ pc' = [pc EXCEPT ![w] = "locked"] /\ browser' = browser
          /\ pc[w] = "robots"
      BY <2>2 DEF LockRobots, IInv, RobotsType
    <3> QED
      BY <1>0, <3>1 DEF LocksHeld
  <2>3. CASE RobotsCached(w) \/ RobotsFetched(w) \/ (Raises(w) /\ pc[w] = "asking")
    <3>1. robots'.holder = None /\ browser' = browser /\ pc[w] \in {"locked", "asking"}
      BY <2>3 DEF RobotsCached, RobotsFetched, Raises, RobotsForgotten, IInv, RobotsType
    <3>2. \A v \in Workers \ {w} : pc'[v] = pc[v]
      BY <1>0, <2>3 DEF RobotsCached, RobotsFetched, Raises
    <3> QED
      BY <1>0, <3>1, <3>2 DEF LocksHeld
  <2>4. CASE AskRobots(w)
    <3>1. UNCHANGED <<robots, browser>> /\ pc' = [pc EXCEPT ![w] = "asking"] /\ pc[w] = "locked"
      BY <2>4 DEF AskRobots
    <3> QED
      BY <1>0, <3>1 DEF LocksHeld
  <2>5. CASE LockBrowser(w)
    <3>1. /\ browser'.holder = w /\ pc' = [pc EXCEPT ![w] = "launch"] /\ robots' = robots
          /\ pc[w] = "browser"
      BY <2>5 DEF LockBrowser, IInv, BrowserType
    <3> QED
      BY <1>0, <3>1 DEF LocksHeld
  <2>6. CASE Launched(w) \/ LaunchRaises(w)
    <3>1. browser'.holder = None /\ robots' = robots /\ pc[w] = "launch"
      BY <2>6 DEF Launched, LaunchRaises, IInv, BrowserType
    <3>2. \A v \in Workers \ {w} : pc'[v] = pc[v]
      BY <1>0, <2>6 DEF Launched, LaunchRaises
    <3> QED
      BY <1>0, <3>1, <3>2 DEF LocksHeld
  <2> QED
    BY <1>3, <2>1, <2>2, <2>3, <2>4, <2>5, <2>6 DEF WorkerStep
<1> QED
  BY <1>1, <1>2, <1>3 DEF Next

LEMMA AllStartedNext ==
  ASSUME IInv, [Next]_vars, AllStarted
  PROVE  AllStarted'
<1> USE DEF AllStarted
<1>0. pc \in [Workers -> PCs]
  BY DEF IInv, WorkerType
<1>1. CASE Start \/ Kill
  BY <1>1 DEF Start, Kill, Anew
<1>2. CASE Produce \/ Joins \/ Finish \/ Time \/ UNCHANGED vars
  BY <1>2 DEF Produce, Joins, Finish, Time, vars, worker, conveyor
<1>3. ASSUME NEW w \in Workers, WorkerStep(w) PROVE AllStarted'
  <2>1. run' = run
    BY <1>3 DEF WorkerStep, Take, Check, LockRobots, RobotsCached, AskRobots, RobotsFetched, Refuse,
       EnterSlot, LimiterStep, HttpRetry, HttpAnswer, LockBrowser, Launched, LaunchRaises,
       BrowserAnswer, Save, Raises, conveyor
  <2>2. ASSUME NEW label \in PCs \ {"off"}, Goto(w, label) PROVE AllStarted'
    BY <1>0, <2>1, <2>2 DEF Goto
  <2>3. CASE Take(w) \/ Check(w) \/ Refuse(w) \/ Save(w) \/ LaunchRaises(w) \/ Raises(w)
    <3>1. \E label \in PCs \ {"off"} : Goto(w, label)
      BY <2>3 DEF Take, Check, Asked, Refuse, Save, LaunchRaises, Raises, Ends, PCs
    <3> QED
      BY <2>2, <3>1
  <2>4. CASE LockRobots(w) \/ RobotsCached(w) \/ AskRobots(w) \/ RobotsFetched(w) \/ EnterSlot(w)
             \/ HttpAnswer(w) \/ LockBrowser(w) \/ Launched(w) \/ BrowserAnswer(w)
    <3>1. \E label \in PCs \ {"off"} : Goto(w, label)
      BY <2>4 DEF LockRobots, RobotsCached, AskRobots, RobotsFetched, EnterSlot, HttpAnswer,
         LockBrowser, Launched, BrowserAnswer, PCs
    <3> QED
      BY <2>2, <3>1
  <2>5. CASE LimiterStep(w) \/ HttpRetry(w)
    <3>1. pc' = pc
      BY <2>5 DEF LimiterStep, HttpRetry, worker
    <3> QED
      BY <2>1, <3>1
  <2> QED
    BY <1>3, <2>3, <2>4, <2>5 DEF WorkerStep
<1> QED
  BY <1>1, <1>2, <1>3 DEF Next

(***************************************************************************)
(* Who can go on                                                           *)
(***************************************************************************)

(* The oldest waiter of a domain with a free permit. *)
IsNext(w) ==
  LET d == slot[w].domain IN
  /\ In(w, "queued") /\ waiters[d] # <<>> /\ Head(waiters[d]) = w
  /\ Cardinality(Holders(d)) < PerDomain

(* The guards of WorkerStep. *)
CanStep(w) ==
  \/ pc[w] = "get" /\ queue # <<>>
  \/ pc[w] \in {"check", "locked", "asking", "refuse", "launch", "save"}
  \/ pc[w] = "robots" /\ robots.holder = None
  \/ pc[w] \in {"slot", "browserSlot"} /\ In(w, "out")
  \/ IsNext(w)
  \/ In(w, "asleep") /\ left[w] = 0
  \/ pc[w] = "http" /\ In(w, "inside")
  \/ pc[w] = "browser" /\ In(w, "inside") /\ (browser.up # "no" \/ browser.holder = None)

(* The producer can put something on the queue or is done with it, the     *)
(* command can end, a worker can take a step, or one sleeps and only time  *)
(* has to pass.                                                            *)
SomebodyGoesOn ==
  run \in {"producing", "joining"} /\ Workers # {} =>
    \/ run = "producing" /\ Len(queue) < QueueSize
    \/ run = "joining" /\ queue = <<>> /\ Back = Workers
    \/ \E w \in Workers : CanStep(w) \/ (In(w, "asleep") /\ left[w] > 0)

(* Who is in the slot goes on, or sleeps, or waits for one who does.       *)
LEMMA SlotGoesOn ==
  ASSUME IInv, WayInv, NEW w \in Workers, ~In(w, "out")
  PROVE  \E v \in Workers : CanStep(v) \/ (In(v, "asleep") /\ left[v] > 0)
<1>0. /\ waiters \in [Domains -> Seq(Tasks)] /\ slot \in [Tasks -> Places]
      /\ left \in [Tasks -> 0..Delay] /\ Delay \in Nat /\ PerDomain \in Nat \ {0} /\ Workers = Tasks
      /\ IsFiniteSet(Tasks)
  BY LimiterAssumption DEF IInv, LimiterInv, LimiterTypeOK, Workers
<1>1. ASSUME NEW v \in Workers, In(v, "inside")
      PROVE  \E t \in Workers : CanStep(t)
  <2>1. pc[v] \in {"http", "browser", "launch"}
    BY <1>1 DEF WayInv, SlotHeld, In
  <2>2. CASE pc[v] = "browser" /\ browser.up = "no" /\ browser.holder # None
    <3>1. browser.holder \in Workers /\ pc[browser.holder] = "launch"
      BY <2>2 DEF IInv, BrowserType, WayInv, LocksHeld
    <3> QED
      BY <3>1 DEF CanStep
  <2>3. CASE ~(pc[v] = "browser" /\ browser.up = "no" /\ browser.holder # None)
    BY <1>1, <2>1, <2>3 DEF CanStep
  <2> QED
    BY <2>2, <2>3
<1>2. ASSUME NEW v \in Workers, In(v, "asleep")
      PROVE  CanStep(v) \/ (In(v, "asleep") /\ left[v] > 0)
  <2>1. left[v] \in Nat
    BY <1>0
  <2> QED
    BY <1>2, <2>1 DEF CanStep
<1>3. CASE In(w, "queued")
  <2>1. PICK d \in Domains : d = slot[w].domain /\ InLine(w, d)
    BY <1>0, <1>3 DEF WayInv, Lines, Places, In
  <2>2. PICK line : line = waiters[d] /\ line \in Seq(Tasks) /\ line # <<>>
    BY <1>0, <2>1 DEF InLine
  <2>3. PICK t \in Workers : t = Head(line) /\ t = line[1] /\ 1 \in 1..Len(line)
    BY <1>0, <2>2
  <2>4. In(t, "queued") /\ slot[t].domain = d
    BY <2>2, <2>3 DEF WayInv, Lines
  <2>5. CASE Cardinality(Holders(d)) < PerDomain
    BY <2>2, <2>3, <2>4, <2>5 DEF CanStep, IsNext
  <2>6. CASE ~(Cardinality(Holders(d)) < PerDomain)
    <3>1. ASSUME Holders(d) = {} PROVE FALSE
      <4>1. Cardinality(Holders(d)) = 0
        BY <3>1, FS_EmptySet
      <4>2. PerDomain \in Nat /\ PerDomain > 0
        BY <1>0
      <4> QED
        BY <2>6, <4>1, <4>2
    <3>2. PICK v \in Workers : In(v, "asleep") \/ In(v, "inside")
      BY <1>0, <3>1 DEF Holders, In
    <3> QED
      BY <1>1, <1>2, <3>2
  <2> QED
    BY <2>5, <2>6
<1>4. In(w, "queued") \/ In(w, "asleep") \/ In(w, "inside")
  BY <1>0 DEF Places, In
<1> QED
  BY <1>1, <1>2, <1>3, <1>4

(* When every worker is home, the last sentinel was taken; when the queue  *)
(* was joined and nobody works, every worker is home.                      *)
LEMMA AllComeHome ==
  ASSUME IInv, Phases, SentinelsLast, Workers # {}
  PROVE  /\ Back = Workers => queue = <<>>
         /\ run = "joining" /\ queue = <<>> => Back = Workers
<1> USE WorkersFinite, RowTypes
<1>1. IsFiniteSet(Workers) /\ Back \subseteq Workers
  BY LimiterAssumption DEF Workers, Back
<1>2. PICK N \in Nat : N = Cardinality(Workers) /\ N # 0 /\ stops <= N
  <2>1. Cardinality(Workers) \in Nat /\ Cardinality(Workers) # 0
    BY <1>1, FS_CardinalityType, FS_EmptySet
  <2> QED
    BY <2>1 DEF IInv, ConveyorType
<1>3. PICK k \in Nat : k = Len(queue) /\ stops \in Nat
                        /\ Cardinality(Back) = IF stops > k THEN stops - k ELSE 0
  BY DEF SentinelsLast
<1>4. ASSUME Back = Workers PROVE queue = <<>>
  <2>1. Len(queue) = 0
    BY <1>2, <1>3, <1>4
  <2>2. queue \in Seq(Urls \cup {Stop})
    BY DEF IInv, ConveyorType
  <2> QED
    BY <2>1, <2>2
<1>5. ASSUME run = "joining", queue = <<>> PROVE Back = Workers
  <2>1. stops = N /\ k = 0
    BY <1>2, <1>3, <1>5 DEF Phases
  <2>2. Cardinality(Back) = N
    BY <1>2, <1>3, <2>1
  <2> QED
    BY <1>1, <1>2, <2>2, FS_Subset
<1> QED
  BY <1>4, <1>5

LEMMA NobodyIsStuck == IInv /\ RowInv /\ WayInv => SomebodyGoesOn
<1> SUFFICES ASSUME IInv, RowInv, WayInv, run \in {"producing", "joining"}, Workers # {},
                    ~(\E w \in Workers : CanStep(w) \/ (In(w, "asleep") /\ left[w] > 0)),
                    ~(run = "producing" /\ Len(queue) < QueueSize)
             PROVE  run = "joining" /\ queue = <<>> /\ Back = Workers
  BY DEF SomebodyGoesOn
<1>1. \A w \in Workers : In(w, "out")
  BY SlotGoesOn
<1>2. \A w \in Workers : pc[w] \in PCs \ {"http", "browser", "launch", "off"}
  BY <1>1 DEF WayInv, SlotHeld, AllStarted, IInv, WorkerType
<1>3. \A w \in Workers : pc[w] # "robots"
  <2> SUFFICES ASSUME NEW w \in Workers, pc[w] = "robots" PROVE FALSE
    OBVIOUS
  <2>1. CASE robots.holder = None
    BY <2>1 DEF CanStep
  <2>2. CASE robots.holder # None
    <3>1. robots.holder \in Workers /\ pc[robots.holder] \in {"locked", "asking"}
      BY <2>2 DEF IInv, RobotsType, WayInv, LocksHeld
    <3> QED
      BY <3>1 DEF CanStep
  <2> QED
    BY <2>1, <2>2
<1>4. \A w \in Workers : pc[w] \in {"get", "returned"}
  BY <1>1, <1>2, <1>3 DEF CanStep, PCs
<1>5. queue = <<>> \/ Back = Workers
  BY <1>4 DEF CanStep, Back
<1>6. queue = <<>>
  BY <1>5, AllComeHome DEF RowInv, WayInv
<1>7. run = "joining"
  <2>1. Len(queue) < QueueSize
    BY <1>6, ScrapingAssumption
  <2> QED
    BY <2>1
<1> QED
  BY <1>6, <1>7, AllComeHome DEF RowInv, WayInv

THEOREM WayInvariant == Spec => []WayInv
<1>1. Init => WayInv
  BY WayInit
<1>2. IInv /\ RowInv /\ WayInv /\ [Next]_vars => WayInv'
  BY SentinelsLastNext, SlotHeldNext, LinesNext, LocksHeldNext, AllStartedNext DEF RowInv, WayInv
<1> QED
  BY <1>1, <1>2, ScrapingInvariant, RowInvariant, PTL DEF Spec

(* No circular wait: as long as a run goes on, the producer, a worker or   *)
(* the end of the command has its turn, or a worker sleeps and wakes up    *)
(* when time passes.  Neither the two locks, nor the lines for the permits *)
(* of the domains, nor the bounded queue, nor a kill or an exception can   *)
(* leave everyone waiting for each other.                                  *)
THEOREM SomebodyAlwaysGoesOn == Spec => []SomebodyGoesOn
<1> QED
  BY NobodyIsStuck, ScrapingInvariant, RowInvariant, WayInvariant, PTL

-----------------------------------------------------------------------------
(***************************************************************************)
(* Every step leads on                                                     *)
(***************************************************************************)

(* An upper bound of the steps a worker still takes for its job. *)
StepsLeft(w) ==
  CASE pc[w] \in {"off", "get", "returned"} -> 0
    [] pc[w] \in {"save", "refuse"} -> 1
    [] pc[w] = "launch" -> 3
    [] pc[w] = "browser" /\ In(w, "inside") -> IF browser.up = "no" THEN 4 ELSE 2
    [] pc[w] = "browser" /\ In(w, "asleep") -> 5
    [] pc[w] = "browser" /\ In(w, "queued") -> 6
    [] pc[w] = "browserSlot" -> 7
    [] pc[w] = "http" /\ In(w, "inside") -> 8 + Attempts - tries[w]
    [] pc[w] = "http" /\ In(w, "asleep") -> 9 + Attempts
    [] pc[w] = "http" /\ In(w, "queued") -> 10 + Attempts
    [] pc[w] = "slot" -> 11 + Attempts
    [] pc[w] = "asking" -> 12 + Attempts
    [] pc[w] = "locked" -> 13 + Attempts
    [] pc[w] = "robots" -> 14 + Attempts
    [] pc[w] = "check" -> 15 + Attempts

(* Each row and each sentinel is put on the queue and taken from it. *)
Ahead == 2 * (Rows + Cardinality(Workers) - produced - stops) + Len(queue)

Phase == CASE run = "producing" -> 2 [] run = "joining" -> 1 [] run \in {"off", "finished"} -> 0

(* Lexicographically smaller: the queue's business; the workers' jobs; the *)
(* command's phases.                                                       *)
Nearer ==
  \/ Ahead' < Ahead
  \/ /\ Ahead' = Ahead
     /\ \E w \in Workers : /\ StepsLeft(w)' < StepsLeft(w)
                           /\ \A v \in Workers \ {w} : StepsLeft(v)' <= StepsLeft(v)
  \/ /\ Ahead' = Ahead
     /\ \A v \in Workers : StepsLeft(v)' = StepsLeft(v)
     /\ Phase' < Phase

(* Time only makes the sleeps shorter. *)
Passes ==
  /\ Ahead' = Ahead /\ Phase' = Phase
  /\ \A v \in Workers : StepsLeft(v)' = StepsLeft(v)
  /\ \A v \in Workers : left[v] > 0 => left'[v] < left[v]

Measured ==
  /\ Ahead \in Nat /\ Phase \in Nat
  /\ \A w \in Workers : StepsLeft(w) \in Nat

LeadsOn == [][Start \/ Kill \/ (Time /\ Passes) \/ Nearer]_vars

LEMMA StepsLeftTypes ==
  ASSUME IInv, SlotHeld, NEW w \in Workers
  PROVE  /\ pc[w] \in PCs /\ tries[w] \in 0..Attempts /\ Attempts \in Nat \ {0}
         /\ slot[w].at \in {"out", "queued", "asleep", "inside"}
         /\ pc[w] \in {"http", "browser"} => slot[w].at # "out"
         /\ browser.up \in {"no", "half", "yes"}
  BY ScrapingAssumption DEF IInv, WorkerType, LimiterInv, LimiterTypeOK, Places, BrowserType,
     SlotHeld, In, Workers

LEMMA StepsLeftNat ==
  ASSUME IInv, SlotHeld, NEW w \in Workers
  PROVE  StepsLeft(w) \in Nat
<1> USE StepsLeftTypes DEF StepsLeft, In, PCs
<1>1. CASE pc[w] = "browser"
  BY <1>1
<1>2. CASE pc[w] = "http"
  BY <1>2
<1>3. CASE pc[w] \notin {"browser", "http"}
  BY <1>3
<1> QED
  BY <1>1, <1>2, <1>3

LEMMA StepsLeftSame ==
  ASSUME IInv, SlotHeld, NEW w \in Workers,
         pc'[w] = pc[w], slot'[w] = slot[w], tries'[w] = tries[w], browser.up # "no" => browser'.up # "no"
  PROVE  StepsLeft(w)' <= StepsLeft(w)
<1> USE StepsLeftTypes DEF StepsLeft, In, PCs
<1>1. CASE pc[w] = "browser"
  BY <1>1
<1>2. CASE pc[w] = "http"
  BY <1>2
<1>3. CASE pc[w] \notin {"browser", "http"}
  BY <1>3
<1> QED
  BY <1>1, <1>2, <1>3

(* A step of one worker leaves the others where they are. *)
LEMMA OthersStay ==
  ASSUME IInv, NEW w \in Workers, WorkerStep(w), NEW v \in Workers, v # w
  PROVE  /\ pc'[v] = pc[v] /\ slot'[v] = slot[v] /\ tries'[v] = tries[v]
         /\ browser.up # "no" => browser'.up # "no"
<1> USE DEF Workers, IInv, WorkerType, LimiterInv, LimiterTypeOK, BrowserType, Goto, Ends
<1>1. pc'[v] = pc[v] /\ tries'[v] = tries[v]
  <2>1. CASE Take(w) \/ Check(w) \/ LockRobots(w) \/ RobotsCached(w) \/ AskRobots(w)
             \/ RobotsFetched(w) \/ Refuse(w) \/ Save(w) \/ EnterSlot(w)
    BY <2>1 DEF Take, Check, LockRobots, RobotsCached, AskRobots, RobotsFetched, Refuse, Save, EnterSlot
  <2>2. CASE LimiterStep(w) \/ HttpRetry(w) \/ HttpAnswer(w) \/ LockBrowser(w) \/ Launched(w)
             \/ LaunchRaises(w) \/ BrowserAnswer(w) \/ Raises(w)
    BY <2>2 DEF LimiterStep, HttpRetry, HttpAnswer, LockBrowser, Launched, LaunchRaises, BrowserAnswer,
       Raises, worker
  <2> QED
    BY <2>1, <2>2 DEF WorkerStep
<1>2. slot'[v] = slot[v]
  <2>1. CASE UNCHANGED slot \/ Leave(w) \/ \E d \in Domains : Enter(w, d)
    BY <2>1 DEF Leave, Enter
  <2>2. CASE LimiterStep(w)
    <3>1. slot'[v] = slot[v]
      <4>1. CASE Grant(w)
        <5>1. CASE since[slot[w].domain] >= Delay
          BY <4>1, <5>1 DEF Grant, Pass
        <5>2. CASE ~(since[slot[w].domain] >= Delay)
          BY <4>1, <5>2 DEF Grant
        <5> QED
          BY <5>1, <5>2
      <4>2. CASE WakeUp(w)
        BY <4>2 DEF WakeUp, Pass
      <4> QED
        BY <2>2, <4>1, <4>2 DEF LimiterStep
    <3> QED
      BY <3>1
  <2>3. CASE EnterSlot(w)
    BY <2>3 DEF EnterSlot, Enter
  <2>4. CASE ~LimiterStep(w) /\ ~EnterSlot(w)
    <3>1. CASE Take(w) \/ Check(w) \/ LockRobots(w) \/ RobotsCached(w) \/ AskRobots(w)
               \/ RobotsFetched(w) \/ Refuse(w) \/ Save(w) \/ HttpRetry(w)
               \/ LockBrowser(w) \/ Launched(w)
      BY <3>1 DEF Take, Check, LockRobots, RobotsCached, AskRobots, RobotsFetched, Refuse, Save,
         HttpRetry, LockBrowser, Launched, limiter
    <3>2. CASE HttpAnswer(w) \/ LaunchRaises(w) \/ BrowserAnswer(w) \/ Raises(w)
      <4>1. UNCHANGED slot \/ Leave(w)
        BY <3>2 DEF HttpAnswer, LaunchRaises, BrowserAnswer, Raises, limiter
      <4> QED
        BY <2>1, <4>1
    <3> QED
      BY <2>4, <3>1, <3>2 DEF WorkerStep
  <2> QED
    BY <2>2, <2>3, <2>4
<1>3. browser.up # "no" => browser'.up # "no"
  <2>1. CASE LockBrowser(w) \/ Launched(w) \/ LaunchRaises(w)
    BY <2>1 DEF LockBrowser, Launched, LaunchRaises
  <2>2. CASE Take(w) \/ Check(w) \/ LockRobots(w) \/ RobotsCached(w) \/ AskRobots(w)
             \/ RobotsFetched(w) \/ Refuse(w)
    BY <2>2 DEF Take, Check, LockRobots, RobotsCached, AskRobots, RobotsFetched, Refuse
  <2>3. CASE EnterSlot(w) \/ LimiterStep(w) \/ Save(w) \/ HttpRetry(w) \/ HttpAnswer(w)
             \/ BrowserAnswer(w) \/ Raises(w)
    BY <2>3 DEF EnterSlot, LimiterStep, Save, HttpRetry, HttpAnswer, BrowserAnswer, Raises
  <2> QED
    BY <2>1, <2>2, <2>3 DEF WorkerStep
<1> QED
  BY <1>1, <1>2, <1>3

(* And it brings its job forward, unless it takes the next one. *)
LEMMA StepsGetFewer ==
  ASSUME IInv, IInv', SlotHeld, SlotHeld', NEW w \in Workers, WorkerStep(w), ~Take(w)
  PROVE  StepsLeft(w)' < StepsLeft(w)
<1> USE StepsLeftTypes DEF Goto, Ends
<1>0. /\ pc \in [Workers -> PCs] /\ tries \in [Workers -> 0..Attempts]
      /\ slot \in [Workers -> Places]
      /\ browser \in [holder : Workers \cup {None}, up : {"no", "half", "yes"}, launches : Nat]
  BY DEF IInv, WorkerType, LimiterInv, LimiterTypeOK, BrowserType, Workers
<1>t. /\ pc'[w] \in PCs /\ tries'[w] \in 0..Attempts
      /\ slot'[w].at \in {"out", "queued", "asleep", "inside"}
      /\ pc'[w] \in {"http", "browser"} => slot'[w].at # "out"
      /\ browser'.up \in {"no", "half", "yes"}
  BY DEF IInv, WorkerType, LimiterInv, LimiterTypeOK, Places, BrowserType,
     SlotHeld, In, Workers
<1>1. CASE Check(w) \/ Refuse(w) \/ Save(w) \/ Raises(w) \/ LaunchRaises(w)
  <2>1. /\ pc[w] \in {"check", "robots", "asking", "refuse", "save", "http", "browser", "launch"}
        /\ pc'[w] = "get" \/ (pc[w] = "check" /\ pc'[w] \in {"robots", "slot"})
    BY <1>0, <1>1 DEF Check, Asked, Refuse, Save, Raises, LaunchRaises
  <2> QED
    BY <1>t, <2>1 DEF StepsLeft, In
<1>2. CASE LockRobots(w) \/ RobotsCached(w) \/ AskRobots(w) \/ RobotsFetched(w)
  <2>1. \/ pc[w] = "robots" /\ pc'[w] = "locked"
        \/ pc[w] = "locked" /\ pc'[w] \in {"asking", "refuse", "slot"}
        \/ pc[w] = "asking" /\ pc'[w] \in {"refuse", "slot"}
    BY <1>0, <1>2 DEF LockRobots, RobotsCached, AskRobots, RobotsFetched
  <2> QED
    BY <1>t, <2>1 DEF StepsLeft
<1>3. CASE EnterSlot(w)
  <2>1. /\ slot'[w].at = "queued"
        /\ \/ pc[w] = "slot" /\ pc'[w] = "http"
           \/ pc[w] = "browserSlot" /\ pc'[w] = "browser"
    BY <1>0, <1>3 DEF EnterSlot, Enter
  <2> QED
    BY <2>1 DEF StepsLeft, In
<1>4. CASE LimiterStep(w)
  <2>1. /\ pc' = pc /\ tries' = tries /\ browser' = browser
        /\ \/ slot[w].at = "queued" /\ slot'[w].at \in {"asleep", "inside"}
           \/ slot[w].at = "asleep" /\ slot'[w].at = "inside"
    <3>1. CASE Grant(w)
      <4>1. CASE since[slot[w].domain] >= Delay
        BY <1>0, <1>4, <3>1, <4>1 DEF LimiterStep, Grant, Pass, In, worker
      <4>2. CASE ~(since[slot[w].domain] >= Delay)
        BY <1>0, <1>4, <3>1, <4>2 DEF LimiterStep, Grant, In, worker
      <4> QED
        BY <4>1, <4>2
    <3>2. CASE WakeUp(w)
      BY <1>0, <1>4, <3>2 DEF LimiterStep, WakeUp, Pass, In, worker
    <3> QED
      BY <1>4, <3>1, <3>2 DEF LimiterStep
  <2>2. pc[w] \in {"http", "browser", "launch"} /\ pc[w] # "launch"
    BY <2>1 DEF SlotHeld, In
  <2>3. CASE pc[w] = "http"
    BY <2>1, <2>3 DEF StepsLeft, In
  <2>4. CASE pc[w] = "browser"
    BY <2>1, <2>4 DEF StepsLeft, In
  <2> QED
    BY <2>2, <2>3, <2>4
<1>5. CASE HttpRetry(w)
  <2>1. /\ pc[w] = "http" /\ pc'[w] = "http" /\ tries'[w] = tries[w] + 1
        /\ slot[w].at = "inside" /\ slot'[w].at = "inside"
    BY <1>0, <1>5 DEF HttpRetry, In, limiter
  <2> QED
    BY <1>t, <2>1 DEF StepsLeft, In
<1>6. CASE HttpAnswer(w)
  <2>1. pc[w] = "http" /\ pc'[w] \in {"browserSlot", "save"} /\ slot[w].at = "inside"
    BY <1>0, <1>6 DEF HttpAnswer, In
  <2> QED
    BY <2>1 DEF StepsLeft, In
<1>7. CASE LockBrowser(w) \/ Launched(w) \/ BrowserAnswer(w)
  <2>1. \/ pc[w] = "browser" /\ pc'[w] = "launch" /\ slot[w].at = "inside" /\ browser.up = "no"
        \/ pc[w] = "launch" /\ pc'[w] = "browser" /\ slot'[w].at = "inside" /\ browser'.up = "yes"
        \/ pc[w] = "browser" /\ pc'[w] = "save" /\ slot[w].at = "inside" /\ browser.up = "yes"
    BY <1>0, <1>7 DEF LockBrowser, Launched, BrowserAnswer, SlotHeld, In, limiter
  <2> QED
    BY <2>1 DEF StepsLeft, In
<1> QED
  BY <1>1, <1>2, <1>3, <1>4, <1>5, <1>6, <1>7 DEF WorkerStep

LEMMA AheadTypes ==
  ASSUME IInv, Phases
  PROVE  /\ Len(queue) \in Nat /\ produced \in Nat /\ stops \in Nat /\ Rows \in Nat
         /\ Cardinality(Workers) \in Nat /\ Ahead \in Nat
<1>1. Cardinality(Workers) \in Nat
  BY LimiterAssumption, FS_CardinalityType DEF Workers
<1>2. /\ Len(queue) \in Nat /\ produced \in Nat /\ stops \in Nat /\ Rows \in Nat
      /\ produced <= Rows /\ stops <= Cardinality(Workers)
  BY <1>1, RowTypes DEF IInv, ConveyorType, Phases
<1> QED
  BY <1>1, <1>2 DEF Ahead

LEMMA OneMorePut ==
  ASSUME NEW rows \in Nat, NEW n \in Nat, NEW p \in Nat, NEW s \in Nat, NEW q \in Nat
  PROVE  /\ 2 * (rows + n - (p + 1) - s) + (q + 1) < 2 * (rows + n - p - s) + q
         /\ 2 * (rows + n - p - (s + 1)) + (q + 1) < 2 * (rows + n - p - s) + q
  OBVIOUS

LEMMA NextLeadsOn ==
  ASSUME IInv, IInv', RowInv, WayInv, WayInv', [Next]_vars
  PROVE  [Start \/ Kill \/ (Time /\ Passes) \/ Nearer]_vars
<1> USE AheadTypes DEF RowInv, WayInv
<1>1. CASE Produce
  <2>1. Rows' = Rows /\ Len(queue') = Len(queue) + 1
    <3>1. CASE produced < Rows
      BY <1>1, <3>1 DEF Produce, Rows, IInv, ConveyorType
    <3>2. CASE ~(produced < Rows)
      BY <1>1, <3>2 DEF Produce, Rows, IInv, ConveyorType
    <3> QED
      BY <3>1, <3>2
  <2>2. \/ produced' = produced + 1 /\ stops' = stops
        \/ produced' = produced /\ stops' = stops + 1
    BY <1>1 DEF Produce
  <2>3. Ahead' < Ahead
    BY <2>1, <2>2, OneMorePut DEF Ahead
  <2> QED
    BY <2>3 DEF Nearer
<1>2. ASSUME NEW w \in Workers, Take(w) PROVE Ahead' < Ahead
  <2>1. Rows' = Rows /\ produced' = produced /\ stops' = stops /\ Len(queue') = Len(queue) - 1
    BY <1>2 DEF Take, Rows, IInv, ConveyorType
  <2> QED
    BY <2>1 DEF Ahead
<1>3. ASSUME NEW w \in Workers, WorkerStep(w), ~Take(w) PROVE Nearer
  <2>1. UNCHANGED conveyor
    BY <1>3 DEF WorkerStep, Check, LockRobots, RobotsCached, AskRobots, RobotsFetched, Refuse, EnterSlot,
       LimiterStep, HttpRetry, HttpAnswer, LockBrowser, Launched, LaunchRaises, BrowserAnswer, Save, Raises
  <2>2. Ahead' = Ahead
    BY <2>1 DEF Ahead, Rows, conveyor
  <2>3. StepsLeft(w)' < StepsLeft(w)
    BY <1>3, StepsGetFewer
  <2>4. \A v \in Workers \ {w} : StepsLeft(v)' <= StepsLeft(v)
    BY <1>3, OthersStay, StepsLeftSame
  <2> QED
    BY <2>2, <2>3, <2>4 DEF Nearer
<1>4. CASE Joins \/ Finish
  <2>1. /\ UNCHANGED <<file, produced, stops, queue, pc, tries, slot>>
        /\ Phase' < Phase
    BY <1>4 DEF Joins, Finish, worker, limiter, Phase
  <2>2. Ahead' = Ahead
    BY <2>1 DEF Ahead, Rows
  <2>3. \A v \in Workers : StepsLeft(v)' = StepsLeft(v)
    <3>1. CASE Joins
      BY <2>1, <3>1 DEF Joins, StepsLeft, In
    <3>2. CASE Finish
      <4>1. \A v \in Workers : pc[v] = "returned" /\ pc'[v] = "returned"
        BY <2>1, <3>2 DEF Finish
      <4> QED
        BY <4>1 DEF StepsLeft
    <3> QED
      BY <1>4, <3>1, <3>2
  <2> QED
    BY <2>1, <2>2, <2>3 DEF Nearer
<1>5. CASE Time
  <2>1. Ahead' = Ahead /\ Phase' = Phase
    BY <1>5 DEF Time, Ahead, Rows, Phase, conveyor
  <2>2. \A v \in Workers : StepsLeft(v)' = StepsLeft(v)
    BY <1>5 DEF Time, Tick, StepsLeft, In, worker
  <2>3. \A v \in Workers : left[v] > 0 => left'[v] < left[v]
    BY <1>5 DEF Time, Tick, IInv, LimiterInv, LimiterTypeOK, Workers
  <2> QED
    BY <1>5, <2>1, <2>2, <2>3 DEF Passes
<1> QED
  BY <1>1, <1>2, <1>3, <1>4, <1>5 DEF Next, Nearer

(* No livelock: every step of a run that is not killed brings it nearer to *)
(* its end, in a measure of natural numbers.  Steps left over from a job,  *)
(* retries, waits and locks are never handed round among the workers; time *)
(* alone leaves the measure as it is, and shortens every sleep.            *)
THEOREM EveryStepLeadsOn == Spec => []Measured /\ LeadsOn
<1>2. IInv /\ RowInv /\ WayInv => Measured
  BY AheadTypes, StepsLeftNat DEF RowInv, WayInv, Measured, Phase, IInv, ConveyorType
<1>1. IInv /\ IInv' /\ RowInv /\ WayInv /\ WayInv' /\ [Next]_vars
        => [Start \/ Kill \/ (Time /\ Passes) \/ Nearer]_vars
  BY NextLeadsOn
<1> QED
  BY <1>1, <1>2, ScrapingInvariant, RowInvariant, WayInvariant, PTL DEF Spec, LeadsOn

=============================================================================
