--------------------------- MODULE ProviderAdmission ---------------------------
(***************************************************************************)
(* How an agent attempt gets to call its provider: the circuit breaker of   *)
(* src/executionReliability.ts, shared by the runs that use one provider,   *)
(* and the admission loop and attempt outcomes of #executeAgent in          *)
(* src/runWorkflow.ts.  An attempt reserves a place at the circuit, then    *)
(* waits for a permit, then validates its reservation again.                *)
(*                                                                         *)
(* Permits come from PermitPool, which WorkConservingScheduler implements;  *)
(* one pool stands for the run's scheduler and the service's.  Time is      *)
(* relative: the cooldown left and the ages of the failures, in ticks.      *)
(* Reservations carry no generation number but whether it is still current, *)
(* since the code only ever compares it with the present one.  Each caller  *)
(* belongs to a run that may be cancelled at any time.                      *)
(***************************************************************************)
EXTENDS Integers, PermitPool

CONSTANTS
  Threshold,   \* circuitBreakerThreshold
  Window,      \* circuitBreakerWindowMs, in ticks
  Cooldown     \* circuitBreakerCooldownMs, in ticks

ASSUME CircuitAssumption ==
  /\ Threshold \in Nat \ {0}
  /\ Window \in Nat \ {0}
  /\ Cooldown \in Nat \ {0}

VARIABLES
  open,           \* #openUntil # 0
  cooling,        \* what is left until #openUntil; 0 when it has passed
  halfOpenProbe,  \* #halfOpenProbe
  failureAge,     \* age of the n-th newest member of #failures, n <= Threshold
  stage,          \* where each caller is in the loop of #executeAgent
  probe,          \* the callers whose circuit lease is a probe
  current,        \* the callers whose lease has the present #generation
  recovered       \* the probes that called providerResponsive()

circuitVars == <<open, cooling, halfOpenProbe, failureAge>>
leaseVars == <<probe, current, recovered>>
vars == <<poolVars, circuitVars, stage, leaseVars>>

\* A failure older than the window is pruned before anything reads #failures.
Forgotten == Window + 1

Stages == {"idle", "entering", "admitted", "queued", "granted", "running",
           "settled", "fenced"}

TypeOK ==
  /\ waiting \subseteq Callers /\ holding \subseteq Callers
  /\ open \in BOOLEAN /\ halfOpenProbe \in BOOLEAN
  /\ cooling \in 0..Cooldown
  /\ failureAge \in [1..Threshold -> 0..Forgotten]
  /\ stage \in [Callers -> Stages]
  /\ probe \subseteq Callers
  /\ current \subseteq Callers
  /\ recovered \subseteq probe

Moves(c, s) == stage' = [stage EXCEPT ![c] = s]

-------------------------------------------------------------------------------
(* The circuit: enter(), startAllowed(), and what settling a lease does.    *)

Unproven(c) == c \in probe /\ c \notin recovered

Close ==
  /\ open' = FALSE /\ cooling' = 0 /\ halfOpenProbe' = FALSE
  /\ failureAge' = [n \in 1..Threshold |-> Forgotten]

\* The caller's lease is settled; the other leases keep their generation.
DropLease(c) ==
  /\ probe' = probe \ {c}
  /\ current' = current \ {c}
  /\ recovered' = recovered \ {c}

\* The caller's lease is settled and #generation is incremented.
DropLeaseAndStaleAll(c) ==
  /\ probe' = probe \ {c}
  /\ current' = {}
  /\ recovered' = recovered \ {c}

SettleSuccess(c) ==
  /\ Close
  /\ IF Unproven(c) \/ open THEN DropLeaseAndStaleAll(c) ELSE DropLease(c)

AgesWithFailure ==
  [n \in 1..Threshold |-> IF n = 1 THEN 0 ELSE failureAge[n - 1]]

\* Mutant of SettleFailure: opening leaves the generation alone.
SettleFailure_SameGeneration(c) ==
  /\ failureAge' = AgesWithFailure
  /\ IF Unproven(c) \/ AgesWithFailure[Threshold] <= Window
     THEN open' = TRUE /\ cooling' = Cooldown /\ halfOpenProbe' = FALSE
     ELSE UNCHANGED <<open, cooling, halfOpenProbe>>
  /\ DropLease(c)

SettleFailure(c) ==
  /\ failureAge' = AgesWithFailure
  /\ IF Unproven(c) \/ AgesWithFailure[Threshold] <= Window
     THEN /\ open' = TRUE /\ cooling' = Cooldown /\ halfOpenProbe' = FALSE
          /\ DropLeaseAndStaleAll(c)
     ELSE UNCHANGED <<open, cooling, halfOpenProbe>> /\ DropLease(c)

\* Mutant of SettleNeutral: the probe flag stays set.
SettleNeutral_KeepsProbe(c) ==
  IF Unproven(c)
  THEN /\ open' = TRUE /\ cooling' = 0
       /\ UNCHANGED <<halfOpenProbe, failureAge>> /\ DropLeaseAndStaleAll(c)
  ELSE UNCHANGED circuitVars /\ DropLease(c)

\* neutral(): a probe of any generation reopens the gate, elapsed at once.
SettleNeutral(c) ==
  IF Unproven(c)
  THEN /\ open' = TRUE /\ cooling' = 0 /\ halfOpenProbe' = FALSE
       /\ UNCHANGED failureAge /\ DropLeaseAndStaleAll(c)
  ELSE UNCHANGED circuitVars /\ DropLease(c)

\* Mutant of StartAllowed: the reservation is not validated again.
StartAllowed_Always(c) == c \in Callers

StartAllowed(c) ==
  /\ c \in current
  /\ IF c \in probe THEN halfOpenProbe /\ open ELSE ~open

-------------------------------------------------------------------------------
(* Time passes: the cooldown runs down and failures leave the window.  The  *)
(* continuations between enter(), an immediate grant and startAllowed() are *)
(* microtasks, which run before any timer; so are the grants of a drain.    *)

Tick ==
  /\ waiting # {} => ~PermitFree
  /\ \A c \in Callers : stage[c] \notin {"admitted", "granted"}
  /\ cooling > 0 \/ \E n \in 1..Threshold : failureAge[n] < Forgotten
  /\ cooling' = IF cooling > 0 THEN cooling - 1 ELSE 0
  /\ failureAge' = [n \in 1..Threshold |->
       IF failureAge[n] < Forgotten THEN failureAge[n] + 1 ELSE Forgotten]
  /\ UNCHANGED <<open, halfOpenProbe, stage, leaseVars, poolVars>>

-------------------------------------------------------------------------------
(* The admission loop.                                                      *)

\* An attempt begins, the first one or a retry after its backoff.
Begin(c) ==
  /\ stage[c] = "idle"
  /\ Moves(c, "entering")
  /\ UNCHANGED <<circuitVars, leaseVars, poolVars>>

\* enter() returns an ordinary lease: the circuit is closed.
EnterClosed(c) ==
  /\ stage[c] = "entering" /\ ~open
  /\ current' = current \cup {c}
  /\ Moves(c, "admitted")
  /\ UNCHANGED <<circuitVars, probe, recovered, poolVars>>

\* enter() returns the probe lease: the cooldown is over and no probe is out.
EnterAsProbe(c) ==
  /\ stage[c] = "entering"
  /\ open /\ cooling = 0 /\ ~halfOpenProbe
  /\ halfOpenProbe' = TRUE
  /\ probe' = probe \cup {c}
  /\ current' = current \cup {c}
  /\ Moves(c, "admitted")
  /\ UNCHANGED <<open, cooling, failureAge, recovered, poolVars>>

\* #acquireProviderLease: a permit at once, or a place in the queue.
AcquirePermit(c) ==
  /\ stage[c] = "admitted"
  /\ \/ Take(c) /\ Moves(c, "granted")
     \/ Ask(c) /\ Moves(c, "queued")
  /\ UNCHANGED <<circuitVars, leaseVars>>

PermitGranted(c) ==
  /\ stage[c] = "queued" /\ Grant(c)
  /\ Moves(c, "granted")
  /\ UNCHANGED <<circuitVars, leaseVars>>

\* startAllowed() holds: the attempt is committed, announces its start and
\* calls the provider.
Start(c) ==
  /\ stage[c] = "granted" /\ StartAllowed(c)
  /\ Moves(c, "running")
  /\ UNCHANGED <<circuitVars, leaseVars, poolVars>>

\* startAllowed() fails: settle the stale lease, give the permit back and
\* return to the gate.
StandDown(c) ==
  /\ stage[c] = "granted" /\ ~StartAllowed(c)
  /\ SettleNeutral(c) /\ GiveBack(c)
  /\ Moves(c, "entering")

\* The run's signal aborts an attempt that has not called the provider.
CancelBeforeStart(c) ==
  \/ /\ stage[c] = "entering"
     /\ Moves(c, "idle")
     /\ UNCHANGED <<circuitVars, leaseVars, poolVars>>
  \/ /\ stage[c] = "admitted"
     /\ SettleNeutral(c) /\ Moves(c, "idle")
     /\ UNCHANGED poolVars
  \/ /\ stage[c] = "queued"
     /\ Withdraw(c) /\ SettleNeutral(c) /\ Moves(c, "idle")
  \/ /\ stage[c] = "granted"
     /\ GiveBack(c) /\ SettleNeutral(c) /\ Moves(c, "idle")

-------------------------------------------------------------------------------
(* The attempt and its outcomes.                                            *)

\* A durable provider event: an unproven probe closes the circuit early.
Responsive(c) ==
  /\ stage[c] = "running" /\ Unproven(c)
  /\ Close
  /\ recovered' = recovered \cup {c} /\ current' = {}
  /\ UNCHANGED <<stage, probe, poolVars>>

Succeed(c) ==
  /\ stage[c] = "running"
  /\ SettleSuccess(c) /\ Moves(c, "settled")
  /\ UNCHANGED poolVars

\* A retryable infrastructure failure, or a timeout whose provider process
\* could not be confirmed dead.
FailInfrastructure(c) ==
  /\ stage[c] = "running"
  /\ SettleFailure(c) /\ Moves(c, "settled")
  /\ UNCHANGED poolVars

\* Any other failure.
FailNeutral(c) ==
  /\ stage[c] = "running"
  /\ SettleNeutral(c) /\ Moves(c, "settled")
  /\ UNCHANGED poolVars

\* The run is cancelled and the provider confirmed stopped.
CancelConfirmed(c) ==
  /\ stage[c] = "running"
  /\ SettleNeutral(c) /\ GiveBack(c) /\ Moves(c, "idle")

\* The run is cancelled but the provider is not confirmed stopped: an
\* infrastructure failure, and the permit stays with the fenced execution.
CancelUnconfirmed(c) ==
  /\ stage[c] = "running"
  /\ SettleFailure(c) /\ Moves(c, "fenced")
  /\ UNCHANGED poolVars

\* The outcome is published: the permit goes.
ReturnPermit(c) ==
  /\ stage[c] = "settled"
  /\ GiveBack(c) /\ Moves(c, "idle")
  /\ UNCHANGED <<circuitVars, leaseVars>>

\* A fenced execution leaves quarantine.  Where settling proves termination it
\* does so when it settles; otherwise ("unconfirmed-descendants") only when an
\* operator who resumes the run abandons it.  It may never come.
FenceLifted(c) ==
  /\ stage[c] = "fenced"
  /\ GiveBack(c) /\ Moves(c, "idle")
  /\ UNCHANGED <<circuitVars, leaseVars>>

-------------------------------------------------------------------------------
Init ==
  /\ PoolInit
  /\ open = FALSE /\ cooling = 0 /\ halfOpenProbe = FALSE
  /\ failureAge = [n \in 1..Threshold |-> Forgotten]
  /\ stage = [c \in Callers |-> "idle"]
  /\ probe = {} /\ current = {} /\ recovered = {}

Outcome(c) ==
  \/ Succeed(c) \/ FailInfrastructure(c) \/ FailNeutral(c)
  \/ CancelConfirmed(c) \/ CancelUnconfirmed(c)

Next ==
  \/ Tick
  \/ \E c \in Callers :
       \/ Begin(c) \/ EnterClosed(c) \/ EnterAsProbe(c)
       \/ AcquirePermit(c) \/ PermitGranted(c)
       \/ Start(c) \/ StandDown(c) \/ CancelBeforeStart(c)
       \/ Responsive(c) \/ Outcome(c) \/ ReturnPermit(c) \/ FenceLifted(c)

Spec == Init /\ [][Next]_vars

\* Clocks run; promise continuations and circuit polls run; the scheduler
\* starves no waiter (WorkConservingScheduler!NoStarvation); an attempt ends by
\* its absolute deadline and its outcome is published.  Nothing is assumed of
\* a fenced execution.
Fairness ==
  /\ WF_vars(Tick)
  /\ \A c \in Callers :
       /\ WF_vars(EnterClosed(c)) /\ WF_vars(EnterAsProbe(c))
       /\ WF_vars(AcquirePermit(c)) /\ SF_vars(PermitGranted(c))
       /\ WF_vars(Start(c) \/ StandDown(c))
       /\ WF_vars(Outcome(c)) /\ WF_vars(ReturnPermit(c))

FairSpec == Spec /\ Fairness

-------------------------------------------------------------------------------
\* "Open-circuit wait happens before scheduler admission, so a provider outage
\* occupies no scarce provider permits": exactly the callers past admission
\* hold permits, also after a reservation went stale in the queue.
OutageHoldsNoPermit ==
  /\ holding = {c \in Callers :
                  stage[c] \in {"granted", "running", "settled", "fenced"}}
  /\ waiting = {c \in Callers : stage[c] = "queued"}

\* The half-open flag is the claim of exactly one reservation of the present
\* generation; a stale flag would hold the gate shut forever, and two current
\* probes would both pass startAllowed().
ProbeFlagExact ==
  /\ halfOpenProbe => \E c \in probe \cap current : probe \cap current = {c}
  /\ probe \cap current # {} => halfOpenProbe

\* A full window of failures never leaves the circuit closed.
ThresholdOpens == ~open => failureAge[Threshold] = Forgotten

\* Circuit, reservations and permits agree however long a reservation waits for
\* its permit: an outage occupies no permit, one present reservation owns the
\* half-open flag, and a full window of failures opens the circuit.
CircuitExact == TypeOK /\ OutageHoldsNoPermit /\ ProbeFlagExact /\ ThresholdOpens

\* No attempt is let through to the provider during the cooldown, however long
\* ago its reservation was made and whatever it waited for meanwhile.
NoStartDuringCooldown ==
  [][\A c \in Callers :
       stage[c] # "running" /\ stage'[c] = "running" => cooling = 0]_vars

\* Every permit belongs to the fenced execution of a cancelled run.
AllFenced == ~PermitFree /\ \A c \in holding : stage[c] = "fenced"

\* "instead of holding the circuit half-open forever": every reservation of a
\* probe is resolved, whatever becomes stale while it waits for its permit, and
\* however many permits fenced executions keep for good, as long as they do not
\* come to keep all of them.
HalfOpenEnds == []<>~AllFenced => (halfOpenProbe ~> ~halfOpenProbe)

(* What the code does not do *)

\* "Let a different queued call probe immediately instead of holding the circuit
\* half-open forever", the comment of neutral().  Fenced executions may keep all
\* permits for good: the quarantine of a provider with unconfirmed descendants
\* does not settle, and a probe that is queued for a permit keeps the flag.
HalfOpenAlwaysEnds == halfOpenProbe ~> ~halfOpenProbe
================================================================================
