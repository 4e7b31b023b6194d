----------------------------- MODULE MCRoundRobin -----------------------------
(***************************************************************************)
(* The scheduler with a history of turns: for each run with a waiter, the   *)
(* other runs that were granted a permit since it last was, or since it     *)
(* began to wait.                                                           *)
(***************************************************************************)
EXTENDS WorkConservingScheduler

CONSTANTS a1, a2, b1, c1, c2, A, B, C

VARIABLE turns

MCCallers == {a1, a2, b1, c1, c2}
MCKeys == {A, B, C}
MCKeyOf == (a1 :> A) @@ (a2 :> A) @@ (b1 :> B) @@ (c1 :> C) @@ (c2 :> C)

Waits(k) == \E c \in Queued : KeyOf[c] = k
Granted == active' = active + 1

TurnsInit == SchedulerInit /\ turns = [k \in Keys |-> {}]

TurnsNext ==
  /\ SchedulerNext
  /\ turns' = [k \in Keys |->
       CASE ~Waits(k) \/ (Granted /\ lastGrantedKey' = k) -> {}
         [] Granted /\ lastGrantedKey' # k -> turns[k] \cup {lastGrantedKey'}
         [] OTHER -> turns[k]]

TurnsSpec == TurnsInit /\ [][TurnsNext]_<<schedulerVars, turns>>

\* "A service-wide round-robin provider queue"
\* (docs/RELIABILITY_IMPLEMENTATION_PLAN.md): no run is granted a second permit
\* while another run has been waiting since before its first.
RoundRobinTurn ==
  [][Granted => \A k \in Keys \ {lastGrantedKey'} :
       Waits(k) => lastGrantedKey' \notin turns[k]]_<<schedulerVars, turns>>
================================================================================
