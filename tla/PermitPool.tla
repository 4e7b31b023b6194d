------------------------------ MODULE PermitPool ------------------------------
(***************************************************************************)
(* What a provider scheduler promises its callers, without its queue: a     *)
(* fixed number of permits, handed out one at a time, to callers that asked *)
(* and have not withdrawn.  WorkConservingScheduler implements it, and the  *)
(* modules that need permits but not their order are built on it.           *)
(***************************************************************************)
EXTENDS Naturals, FiniteSets

CONSTANTS
  Callers,    \* the agent attempts that ask for provider capacity
  Capacity    \* the number of permits

ASSUME PoolAssumption ==
  /\ IsFiniteSet(Callers)
  /\ Capacity \in Nat \ {0}

VARIABLES
  waiting,    \* callers whose acquire() promise is pending
  holding     \* callers that own a lease they have not released

poolVars == <<waiting, holding>>

PermitFree == Cardinality(holding) < Capacity

PoolInit ==
  /\ waiting = {}
  /\ holding = {}

\* acquire() resolved at once: a permit is free and nobody waits for one.
Take(c) ==
  /\ c \notin waiting \cup holding
  /\ waiting = {} /\ PermitFree
  /\ holding' = holding \cup {c}
  /\ UNCHANGED waiting

\* acquire() returned a pending promise.
Ask(c) ==
  /\ c \notin waiting \cup holding
  /\ ~(waiting = {} /\ PermitFree)
  /\ waiting' = waiting \cup {c}
  /\ UNCHANGED holding

\* A pending promise is resolved with a lease.
Grant(c) ==
  /\ c \in waiting /\ PermitFree
  /\ waiting' = waiting \ {c}
  /\ holding' = holding \cup {c}

\* A pending promise is rejected because its signal was aborted.
Withdraw(c) ==
  /\ c \in waiting
  /\ waiting' = waiting \ {c}
  /\ UNCHANGED holding

\* The first release() of a lease.
GiveBack(c) ==
  /\ c \in holding
  /\ holding' = holding \ {c}
  /\ UNCHANGED waiting

PoolNext ==
  \E c \in Callers :
    \/ Take(c) \/ Ask(c) \/ Grant(c) \/ Withdraw(c) \/ GiveBack(c)

PoolSpec == PoolInit /\ [][PoolNext]_poolVars
===============================================================================
