--------------------------- MODULE DomainLimiter ---------------------------
(***************************************************************************)
(* scraping/pipeline.py, DomainLimiter: a semaphore per domain around every *)
(* visit to it, and a minimum delay between the starts of two visits.  A   *)
(* visit is the body of one `async with limiter.slot(domain)`: all the     *)
(* requests of _http_with_retries, or one page of the browser.             *)
(*                                                                         *)
(* Time is kept as what the code can tell of it: how long ago the domain's *)
(* last visit started, up to Delay, and how long a task has yet to sleep.   *)
(***************************************************************************)
EXTENDS Naturals, Sequences, FiniteSets

CONSTANTS Tasks,      \* the coroutines that use the limiter
          Domains,
          PerDomain,  \* settings.per_domain, 2 by default
          Delay       \* settings.domain_delay_s in ticks of the clock

ASSUME LimiterAssumption ==
  /\ IsFiniteSet(Tasks)
  /\ PerDomain \in Nat \ {0} /\ Delay \in Nat

VARIABLES
  waiters,  \* tasks inside sem.acquire(), oldest first: [Domains -> Seq(Tasks)]
  slot,     \* where each task is in slot(): [Tasks -> Places]
  left,     \* how long a sleeping task still sleeps
  since     \* time since _last[domain], up to Delay

limiter == <<waiters, slot, left, since>>

(* "out", or a place in slot(domain): waiting for the semaphore, asleep    *)
(* with a permit, or at the yield.                                         *)
Places == [at : {"out"}] \cup [at : {"queued", "asleep", "inside"}, domain : Domains]
Outside == [at |-> "out"]

LimiterTypeOK ==
  /\ waiters \in [Domains -> Seq(Tasks)]
  /\ slot \in [Tasks -> Places]
  /\ left \in [Tasks -> 0..Delay]
  /\ since \in [Domains -> 0..Delay]

(* _last.get(domain, 0.0): no visit yet is one long ago. *)
LimiterInit ==
  /\ waiters = [d \in Domains |-> <<>>]
  /\ slot = [t \in Tasks |-> Outside]
  /\ left = [t \in Tasks |-> 0]
  /\ since = [d \in Domains |-> Delay]

In(t, place) == slot[t].at = place
Holders(d) == {t \in Tasks : slot[t].at \in {"asleep", "inside"} /\ slot[t].domain = d}

-----------------------------------------------------------------------------

(* await sem.acquire() begins. *)
Enter(t, d) ==
  /\ In(t, "out")
  /\ slot' = [slot EXCEPT ![t] = [at |-> "queued", domain |-> d]]
  /\ waiters' = [waiters EXCEPT ![d] = Append(@, t)]
  /\ UNCHANGED <<left, since>>

(* The body starts, now. *)
Pass(t, d) ==
  /\ slot' = [slot EXCEPT ![t] = [at |-> "inside", domain |-> d]]
  /\ since' = [since EXCEPT ![d] = 0]

(* The semaphore lets its oldest waiter in; the task reads _last, and       *)
(* sleeps if the delay has not passed yet, with no await between them.     *)
Grant(t) ==
  LET d == slot[t].domain IN
  /\ In(t, "queued")
  /\ waiters[d] # <<>> /\ Head(waiters[d]) = t
  /\ Cardinality(Holders(d)) < PerDomain
  /\ waiters' = [waiters EXCEPT ![d] = Tail(@)]
  /\ IF since[d] >= Delay
       THEN Pass(t, d) /\ UNCHANGED left
       ELSE /\ slot' = [slot EXCEPT ![t] = [at |-> "asleep", domain |-> d]]
            /\ left' = [left EXCEPT ![t] = Delay - since[d]]
            /\ UNCHANGED since

(* Mutant of WakeUp: the sleep is cut short. *)
WakeEarly(t) ==
  /\ In(t, "asleep")
  /\ left[t] <= 1
  /\ Pass(t, slot[t].domain)
  /\ UNCHANGED <<waiters, left>>

(* asyncio.sleep(wait) is over; _last is not read again, only written. *)
WakeUp(t) ==
  /\ In(t, "asleep")
  /\ left[t] = 0
  /\ Pass(t, slot[t].domain)
  /\ UNCHANGED <<waiters, left>>

(* The body ends, however it ends: `finally` releases the semaphore. *)
Leave(t) ==
  /\ In(t, "inside")
  /\ slot' = [slot EXCEPT ![t] = Outside]
  /\ UNCHANGED <<waiters, left, since>>

(* The monotonic clock. *)
Tick ==
  /\ since' = [d \in Domains |-> IF since[d] < Delay THEN since[d] + 1 ELSE Delay]
  /\ left' = [t \in Tasks |-> IF left[t] > 0 THEN left[t] - 1 ELSE 0]
  /\ UNCHANGED <<waiters, slot>>

LimiterNext ==
  \/ \E t \in Tasks, d \in Domains : Enter(t, d)
  \/ \E t \in Tasks : Grant(t) \/ WakeUp(t) \/ Leave(t)
  \/ Tick

LimiterSpec == LimiterInit /\ [][LimiterNext]_limiter

-----------------------------------------------------------------------------

(* With one permit, the visits to a domain come one after the other, and   *)
(* each starts at least Delay after the one before it started: whoever is  *)
(* asleep with the permit read a _last that nobody can have written since. *)
(* (The requests are not apart: the retries of a visit follow at the pace  *)
(* of _http_with_retries, and robots.txt is fetched outside the limiter.)  *)
VisitsApart ==
  [][\A t \in Tasks :
        ~In(t, "inside") /\ slot'[t].at = "inside" /\ PerDomain = 1 =>
          LET d == slot'[t].domain IN
          /\ since[d] >= Delay
          /\ \A u \in Tasks \ {t} : slot[u].at = "inside" => slot[u].domain # d]_limiter

(* "enforces a min delay between requests" (pipeline.py:16), for the first *)
(* request of each visit alone: when one starts, the last one of its       *)
(* domain started at least Delay ago, whatever PerDomain is.               *)
MinDelay ==
  [][\A t \in Tasks :
        ~In(t, "inside") /\ slot'[t].at = "inside" => since[slot'[t].domain] >= Delay]_limiter

=============================================================================
