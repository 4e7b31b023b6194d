------------------------ MODULE WorkConservingScheduler ------------------------
(***************************************************************************)
(* The provider scheduler of src/workConservingScheduler.ts: a permit       *)
(* counter and one queue of waiters, drained so that consecutive permits    *)
(* rotate among fairness keys (one key per workflow run).                   *)
(*                                                                         *)
(* Each method runs to completion on one JavaScript thread.  The while      *)
(* loop of #drain is modelled one iteration at a time: while `draining`     *)
(* holds, only the loop moves.  All callers of a run pass the signal of     *)
(* that run.  When it aborts, its listeners run one after the other in one  *)
(* dispatch: between the instant it reports `aborted` and the instant the   *)
(* scheduler's listener of a waiter runs, other listeners run and may       *)
(* release leases, but nobody calls acquire(), which only promise           *)
(* continuations do.                                                        *)
(***************************************************************************)
EXTENDS Naturals, Sequences, FiniteSets, SequencesExt

CONSTANTS
  Callers,    \* agent attempts that acquire and release permits, over and over
  Keys,       \* fairness keys: the workflow runs sharing the scheduler
  KeyOf,      \* the key each caller passes to acquire()
  Capacity,   \* the `capacity` given to the constructor
  NoKey       \* `undefined`, the value of #lastGrantedKey before any grant

ASSUME SchedulerAssumption ==
  /\ IsFiniteSet(Callers)
  /\ KeyOf \in [Callers -> Keys]
  /\ Capacity \in Nat \ {0}
  /\ NoKey \notin Keys

VARIABLES
  waiters,         \* #waiters, in arrival order
  active,          \* #active
  lastGrantedKey,  \* #lastGrantedKey
  lease,           \* what each caller's current acquire() call has come to
  aborted,         \* the runs whose signal is aborted
  draining         \* the loop of #drain is running

schedulerVars == <<waiters, active, lastGrantedKey, lease, aborted, draining>>

LeaseStates == {"none", "queued", "held", "released"}

SchedulerTypeOK ==
  /\ waiters \in Seq(Callers)
  /\ active \in Nat
  /\ lastGrantedKey \in Keys \cup {NoKey}
  /\ lease \in [Callers -> LeaseStates]
  /\ aborted \subseteq Keys
  /\ draining \in BOOLEAN

Holders == {c \in Callers : lease[c] = "held"}
Queued == {c \in Callers : lease[c] = "queued"}

\* An abort dispatch is running: some waiter's listener has yet to run.
Dispatching == \E c \in Queued : KeyOf[c] \in aborted

\* acquire() gets past its `signal.aborted` check.
MayAcquire(c) ==
  /\ ~draining /\ ~Dispatching
  /\ lease[c] = "none" /\ KeyOf[c] \notin aborted

-------------------------------------------------------------------------------
(* The ring of keys, rebuilt from the queue at each iteration of #drain.    *)

\* The oldest waiter of its key: one position per member of `keys`.
HeadOfKey(i) ==
  \A j \in 1..(i - 1) : KeyOf[waiters[j]] # KeyOf[waiters[i]]

\* Mutant of NextUp: a run keeps the permit while it has waiters.
NextUp_DrainsBurst(i) ==
  LET own == {h \in DOMAIN waiters : KeyOf[waiters[h]] = lastGrantedKey}
  IN  IF own = {} THEN i = 1 ELSE i \in own /\ \A h \in own : i <= h

\* The position the next permit goes to: the head of the key that follows
\* lastGrantedKey in the ring, or of the ring's first key when lastGrantedKey
\* is its last key or no longer has a waiter.
NextUp(i) ==
  LET heads == {h \in DOMAIN waiters : HeadOfKey(h)}
      later == {h \in heads : \E p \in heads :
                  p < h /\ KeyOf[waiters[p]] = lastGrantedKey}
  IN  IF later = {} THEN i = 1
      ELSE i \in later /\ \A h \in later : i <= h

-------------------------------------------------------------------------------
SchedulerInit ==
  /\ waiters = <<>>
  /\ active = 0
  /\ lastGrantedKey = NoKey
  /\ lease = [c \in Callers |-> "none"]
  /\ aborted = {}
  /\ draining = FALSE

\* acquire() with a permit free and nobody queued.
AcquireNow(c) ==
  /\ MayAcquire(c)
  /\ active < Capacity /\ waiters = <<>>
  /\ active' = active + 1
  /\ lastGrantedKey' = KeyOf[c]
  /\ lease' = [lease EXCEPT ![c] = "held"]
  /\ UNCHANGED <<waiters, aborted, draining>>

\* acquire() otherwise: queue behind the others, then drain.
AcquireLater(c) ==
  /\ MayAcquire(c)
  /\ ~(active < Capacity /\ waiters = <<>>)
  /\ waiters' = Append(waiters, c)
  /\ lease' = [lease EXCEPT ![c] = "queued"]
  /\ draining' = TRUE
  /\ UNCHANGED <<active, lastGrantedKey, aborted>>

\* A run's signal becomes aborted; its listeners have yet to run.
Abort(k) ==
  /\ ~draining /\ ~Dispatching /\ k \notin aborted
  /\ aborted' = aborted \cup {k}
  /\ UNCHANGED <<waiters, active, lastGrantedKey, lease, draining>>

\* The waiter's abort listener: leave the queue, reject; no drain.
OnAbort(c) ==
  /\ ~draining /\ lease[c] = "queued" /\ KeyOf[c] \in aborted
  /\ \E i \in DOMAIN waiters :
       waiters[i] = c /\ waiters' = RemoveAt(waiters, i)
  /\ lease' = [lease EXCEPT ![c] = "none"]
  /\ UNCHANGED <<active, lastGrantedKey, aborted, draining>>

\* Mutant of Release: the permit returns to the counter and nobody is woken.
Release_NoDrain(c) ==
  /\ ~draining /\ lease[c] = "held"
  /\ lease' = [lease EXCEPT ![c] = "released"]
  /\ active' = active - 1
  /\ UNCHANGED <<waiters, lastGrantedKey, aborted, draining>>

\* The first release() of a lease: return the permit, then drain.
Release(c) ==
  /\ ~draining /\ lease[c] = "held"
  /\ lease' = [lease EXCEPT ![c] = "released"]
  /\ active' = IF active > 0 THEN active - 1 ELSE 0
  /\ draining' = TRUE
  /\ UNCHANGED <<waiters, lastGrantedKey, aborted>>

\* A second release() of the same lease, as the `finally` after an explicit
\* release makes it: the `released` flag returns early.
ReleaseAgain(c) ==
  /\ ~draining /\ lease[c] = "released"
  /\ lease' = [lease EXCEPT ![c] = "none"]
  /\ UNCHANGED <<waiters, active, lastGrantedKey, aborted, draining>>

\* One iteration of #drain that finds the chosen waiter's signal aborted.
DrainReject ==
  /\ draining /\ active < Capacity
  /\ \E i \in DOMAIN waiters :
       /\ NextUp(i) /\ KeyOf[waiters[i]] \in aborted
       /\ waiters' = RemoveAt(waiters, i)
       /\ lease' = [lease EXCEPT ![waiters[i]] = "none"]
  /\ UNCHANGED <<active, lastGrantedKey, aborted, draining>>

\* Mutant of DrainGrant: the loop condition lets one permit too many go.
DrainGrant_OffByOne ==
  /\ draining /\ active <= Capacity
  /\ \E i \in DOMAIN waiters :
       /\ NextUp(i) /\ KeyOf[waiters[i]] \notin aborted
       /\ waiters' = RemoveAt(waiters, i)
       /\ lease' = [lease EXCEPT ![waiters[i]] = "held"]
       /\ lastGrantedKey' = KeyOf[waiters[i]]
  /\ active' = active + 1
  /\ UNCHANGED <<aborted, draining>>

\* One iteration of #drain that grants a permit.
DrainGrant ==
  /\ draining /\ active < Capacity
  /\ \E i \in DOMAIN waiters :
       /\ NextUp(i) /\ KeyOf[waiters[i]] \notin aborted
       /\ waiters' = RemoveAt(waiters, i)
       /\ lease' = [lease EXCEPT ![waiters[i]] = "held"]
       /\ lastGrantedKey' = KeyOf[waiters[i]]
  /\ active' = active + 1
  /\ UNCHANGED <<aborted, draining>>

\* The loop condition fails: #drain returns.
DrainDone ==
  /\ draining
  /\ ~(active < Capacity /\ waiters # <<>>)
  /\ draining' = FALSE
  /\ UNCHANGED <<waiters, active, lastGrantedKey, lease, aborted>>

Drain == DrainReject \/ DrainGrant \/ DrainDone

SchedulerNext ==
  \/ \E c \in Callers :
       \/ AcquireNow(c) \/ AcquireLater(c) \/ OnAbort(c)
       \/ Release(c) \/ ReleaseAgain(c)
  \/ \E k \in Keys : Abort(k)
  \/ DrainReject \/ DrainGrant \/ DrainDone

SchedulerSpec == SchedulerInit /\ [][SchedulerNext]_schedulerVars

\* The thread runs the loop and the abort listeners; every lease is released,
\* because an attempt ends in a result, an error or its absolute deadline.
\* Strong fairness, since each synchronous drain disables them for a while.
SchedulerFairness ==
  /\ WF_schedulerVars(Drain)
  /\ \A c \in Callers : SF_schedulerVars(OnAbort(c)) /\ SF_schedulerVars(Release(c))

FairSchedulerSpec == SchedulerSpec /\ SchedulerFairness

-------------------------------------------------------------------------------
\* The counter is exactly the number of leases not yet released, whatever is
\* aborted or released twice, and it never passes the capacity.
PermitsExact ==
  /\ active = Cardinality(Holders)
  /\ active <= Capacity

\* Outside a drain nobody waits while a permit is idle: the promise that gives
\* the scheduler its name, and that no acquire, abort or release may leave broken.
WorkConserving ==
  ~draining /\ waiters # <<>> => active = Capacity

\* The counter and the queue agree after every step, aborts and repeated releases
\* included: permits are neither lost nor lent twice nor left idle beside a
\* waiter.
PermitsInOrder == SchedulerTypeOK /\ PermitsExact /\ WorkConserving

\* Every queued caller stops being queued: it is granted or was aborted.  The
\* ring must reach its key however the other runs come back for more.
NoStarvation ==
  \A c \in Callers : lease[c] = "queued" ~> lease[c] # "queued"

Pool == INSTANCE PermitPool WITH waiting <- Queued, holding <- Holders

\* The queue, its rotation and its abort handling implement the permit pool.
ImplementsPool == Pool!PoolSpec
===============================================================================
