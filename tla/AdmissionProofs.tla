---------------------------- MODULE AdmissionProofs ----------------------------
(***************************************************************************)
(* Safety of the provider gate for any number of attempts, permits, any     *)
(* threshold, window and cooldown; and of the recovery of runs across       *)
(* restarts for any number of runs, calls, clients and requests.            *)
(***************************************************************************)
EXTENDS ProviderAdmission, Recovery, FiniteSetTheorems, WellFoundedInduction, TLAPS

LeaseHolders ==
  {c \in Callers : stage[c] \in {"admitted", "queued", "granted", "running"}}

\* Leases belong to the callers between enter() and the settlement; a probe
\* that recovered belongs to an older generation; a gate that is closed or
\* half-open is not cooling.
GateExact ==
  /\ probe \cup current \subseteq LeaseHolders
  /\ recovered \cap current = {}
  /\ ~open \/ halfOpenProbe => cooling = 0
  /\ halfOpenProbe => open

IInv == TypeOK /\ ProbeFlagExact /\ ThresholdOpens /\ GateExact

USE DEF LeaseHolders

Fresh == [n \in 1..Threshold |-> Forgotten]

\* The values the circuit's variables are assigned lie in their types.
LEMMA Ranges ==
  /\ 0 \in 0..Cooldown /\ Cooldown \in 0..Cooldown
  /\ Threshold \in 1..Threshold
  /\ Fresh \in [1..Threshold -> 0..Forgotten] /\ Fresh[Threshold] = Forgotten
  /\ \A a \in 0..Forgotten : a <= Window \/ a = Forgotten
<1> USE CircuitAssumption DEF Forgotten
<1>1. 0 \in 0..Cooldown /\ Cooldown \in 0..Cooldown /\ Threshold \in 1..Threshold
  OBVIOUS
<1>2. Forgotten \in 0..Forgotten
  OBVIOUS
<1>3. Fresh \in [1..Threshold -> 0..Forgotten] /\ Fresh[Threshold] = Forgotten
  BY <1>1, <1>2 DEF Fresh
<1>4. \A a \in 0..Forgotten : a <= Window \/ a = Forgotten
  OBVIOUS
<1> QED
  BY <1>1, <1>3, <1>4

LEMMA InitIInv == Init => IInv
<1> SUFFICES ASSUME Init
             PROVE  IInv
  OBVIOUS
<1> USE DEF Init, PoolInit
<1>1. failureAge = Fresh
  BY DEF Fresh
<1>2. stage \in [Callers -> Stages]
  BY DEF Stages
<1>3. TypeOK
  BY <1>1, <1>2, Ranges, Zenon DEF TypeOK
<1>4. ProbeFlagExact /\ ThresholdOpens /\ GateExact
  BY <1>1, Ranges, Zenon DEF ProbeFlagExact, ThresholdOpens, GateExact
<1> QED
  BY <1>3, <1>4 DEF IInv

\* A step inside the pool keeps the types of its variables.
LEMMA PoolTypes ==
  ASSUME NEW c \in Callers, TypeOK,
         Take(c) \/ Ask(c) \/ Grant(c) \/ Withdraw(c) \/ GiveBack(c)
  PROVE  waiting' \subseteq Callers /\ holding' \subseteq Callers
BY DEF TypeOK, Take, Ask, Grant, Withdraw, GiveBack

\* The failure ages after one more failure.
LEMMA AgesType ==
  ASSUME TypeOK
  PROVE  AgesWithFailure \in [1..Threshold -> 0..Forgotten]
<1>1. ASSUME NEW n \in 1..Threshold
      PROVE  (IF n = 1 THEN 0 ELSE failureAge[n - 1]) \in 0..Forgotten
  <2>1. CASE n = 1
    BY <2>1, CircuitAssumption DEF Forgotten
  <2>2. CASE n # 1
    <3>1. n - 1 \in 1..Threshold
      BY <2>2, CircuitAssumption
    <3> QED
      BY <2>2, <3>1 DEF TypeOK
  <2> QED
    BY <2>1, <2>2
<1> QED
  BY <1>1 DEF AgesWithFailure

\* What settling a lease does to the circuit, whichever way it is settled: the
\* caller loses the lease and the gate stays exact.
Settled(c) == SettleSuccess(c) \/ SettleFailure(c) \/ SettleNeutral(c)

LEMMA SettledCircuit ==
  ASSUME IInv, NEW c \in Callers, Settled(c)
  PROVE  /\ open' \in BOOLEAN /\ halfOpenProbe' \in BOOLEAN
         /\ cooling' \in 0..Cooldown
         /\ failureAge' \in [1..Threshold -> 0..Forgotten]
         /\ ThresholdOpens'
         /\ ~open' \/ halfOpenProbe' => cooling' = 0
         /\ halfOpenProbe' => open'
<1> USE DEF IInv
<1>1. CASE SettleSuccess(c)
  <2>1. failureAge' = Fresh
    BY <1>1 DEF SettleSuccess, Close, Fresh
  <2> QED
    BY <1>1, <2>1, Ranges, Zenon DEF SettleSuccess, Close, ThresholdOpens
<1>2. CASE SettleFailure(c)
  <2>1. AgesWithFailure \in [1..Threshold -> 0..Forgotten]
    BY AgesType
  <2>2. AgesWithFailure[Threshold] <= Window \/ AgesWithFailure[Threshold] = Forgotten
    BY <2>1, Ranges
  <2>3. failureAge' = AgesWithFailure
    BY <1>2 DEF SettleFailure
  <2>4. CASE Unproven(c) \/ AgesWithFailure[Threshold] <= Window
    <3>1. open' = TRUE /\ cooling' = Cooldown /\ halfOpenProbe' = FALSE
      BY <1>2, <2>4 DEF SettleFailure
    <3> QED
      BY <2>1, <2>3, <3>1, Ranges, Zenon DEF ThresholdOpens
  <2>5. CASE ~(Unproven(c) \/ AgesWithFailure[Threshold] <= Window)
    <3>1. UNCHANGED <<open, cooling, halfOpenProbe>>
      BY <1>2, <2>5 DEF SettleFailure
    <3>2. AgesWithFailure[Threshold] = Forgotten
      BY <2>2, <2>5
    <3> QED
      BY <2>1, <2>3, <3>1, <3>2 DEF ThresholdOpens, TypeOK, GateExact
  <2> QED
    BY <2>4, <2>5
<1>3. CASE SettleNeutral(c)
  <2>1. CASE Unproven(c)
    <3>1. /\ open' = TRUE /\ cooling' = 0 /\ halfOpenProbe' = FALSE
          /\ failureAge' = failureAge
      BY <1>3, <2>1 DEF SettleNeutral
    <3> QED
      BY <3>1, Ranges, Zenon DEF TypeOK, ThresholdOpens
  <2>2. CASE ~Unproven(c)
    BY <1>3, <2>2 DEF SettleNeutral, TypeOK, ThresholdOpens, GateExact, circuitVars
  <2> QED
    BY <2>1, <2>2
<1> QED
  BY <1>1, <1>2, <1>3 DEF Settled

LEMMA SettledLeases ==
  ASSUME IInv, NEW c \in Callers, Settled(c)
  PROVE  /\ probe' = probe \ {c} /\ current' \subseteq current \ {c}
         /\ recovered' = recovered \ {c}
         /\ ProbeFlagExact'
<1> USE DEF IInv
<1>1. DropLease(c) \/ DropLeaseAndStaleAll(c)
  BY DEF Settled, SettleSuccess, SettleFailure, SettleNeutral
<1>2. /\ probe' = probe \ {c} /\ current' \subseteq current \ {c}
      /\ recovered' = recovered \ {c}
  BY <1>1 DEF DropLease, DropLeaseAndStaleAll
<1>3. CASE halfOpenProbe' = FALSE /\ (DropLeaseAndStaleAll(c) \/ ~halfOpenProbe)
  BY <1>1, <1>2, <1>3 DEF ProbeFlagExact, DropLeaseAndStaleAll
<1>4. CASE halfOpenProbe' = halfOpenProbe /\ DropLease(c) /\ ~Unproven(c)
  <2>1. c \notin probe \cap current
    BY <1>4 DEF Unproven, GateExact
  <2>2. probe' \cap current' = probe \cap current
    BY <1>4, <2>1 DEF DropLease
  <2>3. ProbeFlagExact'
    BY <1>4, <2>2 DEF ProbeFlagExact
  <2> QED
    BY <1>2, <2>3
<1>5. \/ halfOpenProbe' = FALSE /\ (DropLeaseAndStaleAll(c) \/ ~halfOpenProbe)
      \/ halfOpenProbe' = halfOpenProbe /\ DropLease(c) /\ ~Unproven(c)
  <2>1. CASE SettleSuccess(c)
    BY <2>1 DEF SettleSuccess, Close, GateExact
  <2>2. CASE SettleFailure(c)
    BY <2>2 DEF SettleFailure
  <2>3. CASE SettleNeutral(c)
    BY <2>3 DEF SettleNeutral, circuitVars
  <2> QED
    BY <2>1, <2>2, <2>3 DEF Settled
<1> QED
  BY <1>2, <1>3, <1>4, <1>5

\* A step in which one caller settles its lease and moves on.
LEMMA SettlePreserves ==
  ASSUME IInv, NEW c \in Callers, NEW s \in Stages,
         Settled(c), Moves(c, s),
         waiting' \subseteq Callers, holding' \subseteq Callers
  PROVE  IInv'
<1> USE DEF IInv
<1>1. stage' \in [Callers -> Stages]
  BY DEF Moves, TypeOK
<1>2. LeaseHolders \ {c} \subseteq LeaseHolders'
  BY DEF Moves, TypeOK
<1>3. TypeOK'
  BY <1>1, SettledCircuit, SettledLeases DEF TypeOK
<1>4. GateExact'
  BY <1>2, SettledCircuit, SettledLeases DEF GateExact
<1> QED
  BY <1>3, <1>4, SettledCircuit, SettledLeases

\* A step that moves one caller and leaves the circuit and the leases alone.
LEMMA MovePreserves ==
  ASSUME IInv, NEW c \in Callers, NEW s \in Stages,
         Moves(c, s), UNCHANGED <<circuitVars, leaseVars>>,
         c \in LeaseHolders => s \in {"admitted", "queued", "granted", "running"}
                                \/ c \notin probe \cup current,
         waiting' \subseteq Callers, holding' \subseteq Callers
  PROVE  IInv'
<1> USE DEF IInv, circuitVars, leaseVars
<1>1. stage' \in [Callers -> Stages]
  BY DEF Moves, TypeOK
<1>2. TypeOK'
  BY <1>1 DEF TypeOK
<1>3. probe \cup current \subseteq LeaseHolders'
  BY DEF Moves, TypeOK, GateExact
<1>4. GateExact'
  BY <1>3 DEF GateExact
<1> QED
  BY <1>2, <1>4 DEF ProbeFlagExact, ThresholdOpens

LEMMA TickPreserves == IInv /\ Tick => IInv'
<1> SUFFICES ASSUME IInv, Tick
             PROVE  IInv'
  OBVIOUS
<1> USE DEF IInv, Tick
<1>1. cooling' \in 0..Cooldown /\ (cooling = 0 => cooling' = 0)
  BY CircuitAssumption DEF TypeOK
<1>2. ASSUME NEW n \in 1..Threshold
      PROVE  /\ failureAge'[n] \in 0..Forgotten
             /\ failureAge[n] = Forgotten => failureAge'[n] = Forgotten
  BY CircuitAssumption DEF TypeOK, Forgotten
<1>3. failureAge' \in [1..Threshold -> 0..Forgotten]
  BY <1>2
<1>4. TypeOK'
  BY <1>1, <1>3 DEF TypeOK, poolVars, leaseVars
<1>5. ThresholdOpens'
  BY <1>2, Ranges DEF ThresholdOpens
<1>6. ProbeFlagExact' /\ GateExact'
  BY <1>1 DEF ProbeFlagExact, GateExact, leaseVars
<1> QED
  BY <1>4, <1>5, <1>6

LEMMA EnterPreserves ==
  ASSUME IInv, NEW c \in Callers, EnterClosed(c) \/ EnterAsProbe(c)
  PROVE  IInv'
<1> USE DEF IInv
<1>1. stage' \in [Callers -> Stages] /\ stage[c] = "entering"
      /\ stage'[c] = "admitted" /\ \A d \in Callers \ {c} : stage'[d] = stage[d]
  BY DEF EnterClosed, EnterAsProbe, Moves, TypeOK, Stages
<1>2. c \notin probe \cup current \cup recovered
  BY <1>1 DEF GateExact, TypeOK
<1>3. CASE EnterClosed(c)
  <2>1. /\ current' = current \cup {c}
        /\ UNCHANGED <<circuitVars, probe, recovered, poolVars>>
    BY <1>3 DEF EnterClosed
  <2>2. TypeOK'
    BY <1>1, <2>1 DEF TypeOK, circuitVars, poolVars
  <2>3. probe' \cap current' = probe \cap current
    BY <1>2, <2>1
  <2>4. ProbeFlagExact' /\ ThresholdOpens'
    BY <2>1, <2>3 DEF ProbeFlagExact, ThresholdOpens, circuitVars
  <2>5. GateExact'
    BY <1>1, <1>2, <2>1 DEF GateExact, circuitVars
  <2> QED
    BY <2>2, <2>4, <2>5
<1>4. CASE EnterAsProbe(c)
  <2>1. /\ open /\ cooling = 0 /\ ~halfOpenProbe /\ halfOpenProbe' = TRUE
        /\ probe' = probe \cup {c} /\ current' = current \cup {c}
        /\ UNCHANGED <<open, cooling, failureAge, recovered, poolVars>>
    BY <1>4 DEF EnterAsProbe
  <2>2. TypeOK'
    BY <1>1, <2>1 DEF TypeOK, poolVars
  <2>3. probe' \cap current' = {c}
    BY <1>2, <2>1 DEF ProbeFlagExact
  <2>4. ProbeFlagExact' /\ ThresholdOpens'
    BY <2>1, <2>3 DEF ProbeFlagExact, ThresholdOpens
  <2>5. GateExact'
    BY <1>1, <1>2, <2>1 DEF GateExact
  <2> QED
    BY <2>2, <2>4, <2>5
<1> QED
  BY <1>3, <1>4

LEMMA ResponsivePreserves ==
  ASSUME IInv, NEW c \in Callers, Responsive(c)
  PROVE  IInv'
<1> USE DEF IInv
<1>1. /\ open' = FALSE /\ cooling' = 0 /\ halfOpenProbe' = FALSE
      /\ failureAge' = Fresh
  BY DEF Responsive, Close, Fresh
<1>2. /\ recovered' = recovered \cup {c} /\ current' = {} /\ probe' = probe
      /\ stage' = stage /\ UNCHANGED poolVars /\ c \in probe
  BY DEF Responsive, Unproven
<1>3. TypeOK'
  BY <1>1, <1>2, Ranges, Zenon DEF TypeOK, poolVars
<1>4. ProbeFlagExact' /\ ThresholdOpens' /\ GateExact'
  BY <1>1, <1>2, Ranges DEF ProbeFlagExact, ThresholdOpens, GateExact
<1> QED
  BY <1>3, <1>4

\* The steps in which a caller gives up its lease.
SettlingStep(c) ==
  \/ StandDown(c) \/ Outcome(c)
  \/ CancelBeforeStart(c) /\ stage[c] # "entering"

LEMMA SettlingPreserves ==
  ASSUME IInv, NEW c \in Callers, SettlingStep(c)
  PROVE  IInv'
<1> USE DEF SettlingStep
<1>1. \E s \in Stages : Settled(c) /\ Moves(c, s)
  BY DEF StandDown, Outcome, CancelBeforeStart, Succeed, FailInfrastructure,
         FailNeutral, CancelConfirmed, CancelUnconfirmed, Settled, Stages
<1>2. GiveBack(c) \/ Withdraw(c) \/ UNCHANGED poolVars
  BY DEF StandDown, Outcome, CancelBeforeStart, Succeed, FailInfrastructure,
         FailNeutral, CancelConfirmed, CancelUnconfirmed
<1>3. waiting' \subseteq Callers /\ holding' \subseteq Callers
  BY <1>2, PoolTypes DEF IInv, TypeOK, poolVars
<1> QED
  BY <1>1, <1>3, SettlePreserves

\* The steps in which a caller only moves, or moves in the permit pool too.
MovingStep(c) ==
  \/ Begin(c) \/ AcquirePermit(c) \/ PermitGranted(c) \/ Start(c)
  \/ ReturnPermit(c) \/ FenceLifted(c)
  \/ CancelBeforeStart(c) /\ stage[c] = "entering"

LEMMA MovingPreserves ==
  ASSUME IInv, NEW c \in Callers, MovingStep(c)
  PROVE  IInv'
<1> USE DEF MovingStep
<1>1. PICK s \in Stages : Moves(c, s) /\ UNCHANGED <<circuitVars, leaseVars>>
        /\ (c \in LeaseHolders => s \in {"queued", "granted", "running"})
  BY DEF Begin, AcquirePermit, PermitGranted, Start, ReturnPermit, FenceLifted,
         CancelBeforeStart, Stages
<1>2. Take(c) \/ Ask(c) \/ Grant(c) \/ GiveBack(c) \/ UNCHANGED poolVars
  BY DEF Begin, AcquirePermit, PermitGranted, Start, ReturnPermit, FenceLifted,
         CancelBeforeStart
<1>3. waiting' \subseteq Callers /\ holding' \subseteq Callers
  BY <1>2, PoolTypes DEF IInv, TypeOK, poolVars
<1> QED
  BY <1>1, <1>3, MovePreserves

LEMMA NextIInv == IInv /\ [Next]_vars => IInv'
<1> SUFFICES ASSUME IInv, [Next]_vars
             PROVE  IInv'
  OBVIOUS
<1>1. CASE UNCHANGED vars
  BY <1>1 DEF IInv, TypeOK, ProbeFlagExact, ThresholdOpens, GateExact,
              vars, poolVars, circuitVars, leaseVars
<1>2. CASE Tick
  BY <1>2, TickPreserves
<1>3. ASSUME NEW c \in Callers,
             \/ Begin(c) \/ EnterClosed(c) \/ EnterAsProbe(c)
             \/ AcquirePermit(c) \/ PermitGranted(c)
             \/ Start(c) \/ StandDown(c) \/ CancelBeforeStart(c)
             \/ Responsive(c) \/ Outcome(c) \/ ReturnPermit(c) \/ FenceLifted(c)
      PROVE  IInv'
  <2>1. CASE EnterClosed(c) \/ EnterAsProbe(c)
    BY <2>1, EnterPreserves
  <2>2. CASE Responsive(c)
    BY <2>2, ResponsivePreserves
  <2>3. CASE SettlingStep(c)
    BY <2>3, SettlingPreserves
  <2>4. CASE MovingStep(c)
    BY <2>4, MovingPreserves
  <2> QED
    BY <1>3, <2>1, <2>2, <2>3, <2>4 DEF SettlingStep, MovingStep
<1> QED
  BY <1>1, <1>2, <1>3 DEF Next

-------------------------------------------------------------------------------
\* The strengthened invariant holds in every reachable state.
THEOREM Invariance == Spec => []IInv
BY InitIInv, NextIInv, PTL DEF Spec

\* The variables of the circuit and the admission loop keep their types.
THEOREM TypeCorrect == Spec => []TypeOK
BY Invariance, PTL DEF IInv

\* The half-open flag of ProviderCircuitBreaker is the claim of exactly one
\* reservation of the present generation, so at most one current probe exists.
THEOREM ProbeFlag == Spec => []ProbeFlagExact
BY Invariance, PTL DEF IInv

\* #failures never holds a full threshold within the window while closed.
THEOREM ClosedIsHealthy == Spec => []ThresholdOpens
BY Invariance, PTL DEF IInv

\* An attempt holds a permit, or waits for one, exactly in the stages of
\* #executeAgent between its admission and the release in its `finally`: a
\* caller that waits out an outage at the circuit has none.
THEOREM NoPermitInOutage == Spec => []OutageHoldsNoPermit
<1> DEFINE Inv == TypeOK /\ OutageHoldsNoPermit
<1>1. Init => OutageHoldsNoPermit
  BY DEF Init, PoolInit, OutageHoldsNoPermit
<1>2. ASSUME Inv, [Next]_vars
      PROVE  OutageHoldsNoPermit'
  <2> USE DEF OutageHoldsNoPermit, TypeOK, Moves
  <2>1. CASE UNCHANGED vars
    BY <1>2, <2>1 DEF vars, poolVars
  <2>2. CASE Tick
    BY <1>2, <2>2 DEF Tick, poolVars
  <2>3. ASSUME NEW c \in Callers, Begin(c) \/ EnterClosed(c) \/ EnterAsProbe(c)
        PROVE  OutageHoldsNoPermit'
    BY <1>2, <2>3 DEF Begin, EnterClosed, EnterAsProbe, poolVars
  <2>4. ASSUME NEW c \in Callers, AcquirePermit(c) \/ PermitGranted(c)
        PROVE  OutageHoldsNoPermit'
    BY <1>2, <2>4 DEF AcquirePermit, PermitGranted, Take, Ask, Grant
  <2>5. ASSUME NEW c \in Callers, Start(c) \/ Responsive(c)
        PROVE  OutageHoldsNoPermit'
    BY <1>2, <2>5 DEF Start, Responsive, poolVars
  <2>6. ASSUME NEW c \in Callers, StandDown(c) \/ CancelBeforeStart(c)
        PROVE  OutageHoldsNoPermit'
    BY <1>2, <2>6 DEF StandDown, CancelBeforeStart, GiveBack, Withdraw, poolVars
  <2>7. ASSUME NEW c \in Callers, Outcome(c) \/ ReturnPermit(c) \/ FenceLifted(c)
        PROVE  OutageHoldsNoPermit'
    BY <1>2, <2>7 DEF Outcome, Succeed, FailInfrastructure, FailNeutral,
       CancelConfirmed, CancelUnconfirmed, ReturnPermit, FenceLifted, GiveBack, poolVars
  <2> QED
    BY <1>2, <2>1, <2>2, <2>3, <2>4, <2>5, <2>6, <2>7 DEF Next
<1> QED
  BY <1>1, <1>2, TypeCorrect, PTL DEF Spec

\* Circuit, reservations and permits agree, for any number of attempts and permits
\* and for every threshold, window and cooldown.
THEOREM CircuitAgreement == Spec => []CircuitExact
BY TypeCorrect, NoPermitInOutage, ProbeFlag, ClosedIsHealthy, PTL DEF CircuitExact

\* startAllowed() lets nobody call the provider before the cooldown is over.
THEOREM CooldownRespected == Spec => NoStartDuringCooldown
<1>1. ASSUME IInv, [Next]_vars, NEW c \in Callers,
             stage[c] # "running", stage'[c] = "running"
      PROVE  cooling = 0
  <2> USE DEF IInv
  <2>1. Start(c)
    <3>1. CASE UNCHANGED vars
      BY <1>1, <3>1 DEF vars
    <3>2. CASE Tick
      BY <1>1, <3>2 DEF Tick
    <3>3. ASSUME NEW d \in Callers, NEW s \in Stages \ {"running"}, Moves(d, s)
          PROVE  FALSE
      BY <1>1, <3>3 DEF Moves, TypeOK
    <3>4. ASSUME NEW d \in Callers, Responsive(d)
          PROVE  FALSE
      BY <1>1, <3>4 DEF Responsive
    <3>5. ASSUME NEW d \in Callers, Start(d)
          PROVE  Start(c)
      BY <1>1, <3>5 DEF Start, Moves, TypeOK
    <3>6. ASSUME NEW d \in Callers,
                 \/ Begin(d) \/ EnterClosed(d) \/ EnterAsProbe(d)
                 \/ AcquirePermit(d) \/ PermitGranted(d) \/ StandDown(d)
                 \/ CancelBeforeStart(d) \/ Outcome(d) \/ ReturnPermit(d) \/ FenceLifted(d)
          PROVE  \E s \in Stages \ {"running"} : Moves(d, s)
      BY <3>6 DEF Begin, EnterClosed, EnterAsProbe, AcquirePermit, PermitGranted,
                  StandDown, CancelBeforeStart, Outcome, Succeed,
                  FailInfrastructure, FailNeutral, CancelConfirmed,
                  CancelUnconfirmed, ReturnPermit, FenceLifted, Stages
    <3> QED
      BY <1>1, <3>1, <3>2, <3>3, <3>4, <3>5, <3>6 DEF Next
  <2> QED
    BY <1>1, <2>1 DEF Start, StartAllowed, GateExact
<1>2. IInv /\ [Next]_vars =>
        [\A c \in Callers :
           stage[c] # "running" /\ stage'[c] = "running" => cooling = 0]_vars
  BY <1>1
<1> QED
  BY <1>2, Invariance, PTL DEF Spec, NoStartDuringCooldown

-------------------------------------------------------------------------------
(* The recovery of runs.                                                    *)

\* The order of the numbers has no infinite descent.
Less == {p \in Nat \X Nat : p[1] < p[2]}

LEMMA LessWellFounded == IsWellFoundedOn(Less, Nat)
<1>1. IsWellFoundedOn(OpToRel(<, Nat), Nat)
  BY NatLessThanWellFounded
<1>2. OpToRel(<, Nat) = Less
  BY DEF OpToRel, Less
<1> QED BY <1>1, <1>2

\* A set of numbers has a least one.
LEMMA LeastNumber ==
  ASSUME NEW T \in SUBSET Nat, T # {}
  PROVE  \E x \in T : \A y \in T : x <= y
<1>1. PICK x \in T : \A y \in T : ~(<<y, x>> \in Less)
  BY LessWellFounded, WFMin
<1>2. ASSUME NEW y \in T PROVE x <= y
  <2>1. <<y, x>> \in Nat \X Nat /\ <<y, x>> \notin Less
    BY <1>1
  <2> QED BY <2>1 DEF Less
<1> QED BY <1>2

LEMMA MinIsMember ==
  ASSUME NEW T \in SUBSET Nat, T # {}
  PROVE  Min(T) \in T /\ \A y \in T : Min(T) <= y
BY LeastNumber DEF Min

\* Runs are numbered as they are created, and a run that is not has no history.
Numbered ==
  /\ \E n \in 0..MaxRuns : Created = 1..n
  /\ \A r \in Runs : status[r] = "absent" =>
       from[r] = None /\ key[r] = NoKey /\ next[r] = 0 /\ \A c \in Call : attempt[r][c] = "none"

\* A successor is of its predecessor's lineage, and of its program if it repeats it; the
\* predecessor has ended.  A lineage has at most one run that has not.
Lineages ==
  /\ \A r \in Created : origin[r] \in Created
  /\ \A r \in Runs : from[r] # None =>
       /\ from[r] \in Runs /\ status[from[r]] \in Terminal /\ r \in Created
       /\ sparse[r] => version[r] = version[from[r]]
  /\ \A q, r \in Unfinished : origin[q] = origin[r] => q = r

\* Startup looks at every run the dead host left; it resumes ended ones.
Startups ==
  /\ todo \subseteq Created /\ \A r \in recover : r \in Created /\ status[r] \in Terminal
  /\ service = "scanning" => Unfinished \subseteq todo

\* The key of a request in flight has no run and no other request; a resume is of an
\* ended run.
RequestsHeld ==
  /\ \A cl \in Clients :
       /\ op[cl].kind # "idle" => service = "ready"
       /\ op[cl].kind = "resume" => op[cl].run \in Created /\ status[op[cl].run] \in Terminal
       /\ op[cl].key # NoKey =>
            /\ \A r \in Created : key[r] # op[cl].key
            /\ \A other \in Clients : op[other].key = op[cl].key => other = cl
  /\ \A q, r \in Created : key[q] = key[r] /\ key[q] # NoKey => q = r

\* What an executing run has tried it has admitted, and since the first admission its
\* sidecar bears its own source.
Working ==
  /\ \A r \in Runs : status[r] = "queued" => \A c \in Call : attempt[r][c] = "none"
  /\ \A r \in Live :
       /\ \A c \in Call : attempt[r][c] # "none" => c <= next[r]
       /\ next[r] # 0 => sidecar[r] = Hash(version[r])
       /\ next[r] = 0 /\ from[r] # None => sidecar[r] = sidecar[from[r]]

\* The call's result in the predecessor's journal is one the run has to take over.
Carries(r, c) ==
  /\ from[r] # None /\ sparse[r] /\ journal[from[r]][c].by = version[r]
  /\ journal[from[r]][c].state = "value" \/ (journal[from[r]][c].state = "gap" /\ automatic[r])

\* Entries have the sidecar's source; a run that has not started has its predecessor's
\* sidecar, and whatever becomes of a run it keeps what it has to take over.
Journals ==
  /\ \A r \in Runs, c \in Call :
       journal[r][c].state # "absent" => Hash(journal[r][c].by) = sidecar[r]
  /\ \A r \in Runs : status[r] = "queued" =>
       journal[r] = IF from[r] = None THEN Blank ELSE journal[from[r]]
  /\ \A r \in Runs, c \in Call : Carries(r, c) =>
       journal[r][c] = journal[from[r]][c] /\ attempt[r][c] = "none"

\* An unsafe call whose outcome is unknown is under way in the lineage's unfinished run,
\* if there is one, by its events and by its journal.
Ambiguities ==
  \A a \in ambiguous :
    /\ a[1] \in Created
    /\ \A r \in Unfinished : origin[r] = a[1] =>
         a[2] \in Unsafe /\ attempt[r][a[2]] = "running" /\ journal[r][a[2]].state = "started"

RecoveryInv ==
  /\ RecoveryTypeOK /\ Numbered /\ Lineages /\ Startups /\ RequestsHeld
  /\ Working /\ Journals /\ Ambiguities

-------------------------------------------------------------------------------
(* Numbers of runs.                                                         *)

LEMMA RunNumbers ==
  /\ MaxRuns \in Nat /\ Calls \in Nat /\ 1 \in Call /\ Runs \in SUBSET Nat /\ Call \in SUBSET Nat
  /\ None \notin Runs /\ None = 0 /\ \A r \in Runs : r \in 0..MaxRuns
BY RecoveryAssumption DEF Runs, Call, None

\* The next run has the number behind the runs that are.
LEMMA NextNumber ==
  ASSUME RecoveryTypeOK, Numbered
  PROVE  /\ FreshRun \in Nat \ {0} /\ FreshRun \notin Created
         /\ Created = 1..(FreshRun - 1) /\ Created \subseteq Runs
<1>1. PICK n \in 0..MaxRuns : Created = 1..n
  BY DEF Numbered
<1>2. n \in Nat /\ n \in Int /\ 1 \in Int
  BY RunNumbers
<1>3. Cardinality(1..n) = n
  <2>1. Cardinality(1..n) = IF 1 > n THEN 0 ELSE n - 1 + 1
    BY <1>2, FS_Interval
  <2> QED BY <1>2, <2>1
<1>4. FreshRun = n + 1
  BY <1>1, <1>3 DEF FreshRun
<1> QED BY <1>1, <1>2, <1>4 DEF Created

\* A step that creates no run and decides no call: it may end runs and close attempts.
Calm ==
  /\ UNCHANGED <<from, origin, key, automatic, version, sparse, journal, sidecar, ambiguous>>
  /\ \A r \in Runs :
       /\ status'[r] = "absent" <=> status[r] = "absent"
       /\ status[r] \in Terminal => status'[r] = status[r]
       /\ status'[r] = "queued" => status[r] = "queued"
       /\ next'[r] \in {0, next[r]}
  /\ \A r \in Runs, c \in Call :
       /\ attempt'[r][c] # "none" => attempt[r][c] # "none"
       /\ status'[r] \notin Terminal =>
            attempt'[r][c] = attempt[r][c] \/ journal[r][c].state # "started"
  /\ \A r \in Live' : r \in Live /\ next'[r] = next[r]

LEMMA CalmRuns ==
  ASSUME Calm
  PROVE  /\ Created' = Created /\ Unfinished' \subseteq Unfinished
         /\ \A r \in Unfinished' : status'[r] \notin Terminal /\ r \in Runs
BY DEF Calm, Created, Unfinished

LEMMA CalmKeeps ==
  ASSUME RecoveryInv, Calm
  PROVE  Numbered' /\ Lineages' /\ Working' /\ Journals' /\ Ambiguities'
<1>1. /\ Created' = Created /\ Unfinished' \subseteq Unfinished
      /\ \A r \in Unfinished' : status'[r] \notin Terminal /\ r \in Runs
  BY CalmRuns
<1>2. /\ from' = from /\ origin' = origin /\ key' = key /\ automatic' = automatic /\ version' = version
      /\ sparse' = sparse /\ journal' = journal /\ sidecar' = sidecar /\ ambiguous' = ambiguous
  BY DEF Calm
<1>3. Numbered'
  <2>1. \E n \in 0..MaxRuns : Created' = 1..n
    BY <1>1 DEF RecoveryInv, Numbered
  <2>2. ASSUME NEW r \in Runs, status'[r] = "absent"
        PROVE  from'[r] = None /\ key'[r] = NoKey /\ next'[r] = 0 /\ \A c \in Call : attempt'[r][c] = "none"
    BY <1>2, <2>2 DEF RecoveryInv, Numbered, Calm
  <2> QED BY <2>1, <2>2 DEF Numbered
<1>4. Lineages'
  <2>1. \A r \in Runs : from[r] # None => status'[from[r]] \in Terminal
    BY DEF RecoveryInv, Lineages, Calm
  <2> QED BY <1>1, <1>2, <2>1 DEF RecoveryInv, Lineages
<1>5. Working'
  <2>1. \A r \in Runs : status'[r] = "queued" => \A c \in Call : attempt'[r][c] = "none"
    BY DEF RecoveryInv, Working, Calm
  <2>2. ASSUME NEW r \in Live'
        PROVE  /\ \A c \in Call : attempt'[r][c] # "none" => c <= next'[r]
               /\ next'[r] # 0 => sidecar'[r] = Hash(version'[r])
               /\ next'[r] = 0 /\ from'[r] # None => sidecar'[r] = sidecar'[from'[r]]
    <3>1. r \in Live /\ next'[r] = next[r]
      BY DEF Calm
    <3>2. r \in Runs
      BY <3>1 DEF Live, Unfinished, Created
    <3> QED BY <1>2, <3>1, <3>2 DEF RecoveryInv, Working, Calm
  <2> QED BY <2>1, <2>2 DEF Working
<1>6. Journals'
  <2>1. \A r \in Runs, c \in Call : Carries(r, c)' <=> Carries(r, c)
    BY <1>2 DEF Carries
  <2>2. \A r \in Runs, c \in Call :
            Carries(r, c) => journal[r][c] = journal[from[r]][c] /\ attempt'[r][c] = "none"
    BY DEF RecoveryInv, Journals, Calm
  <2>3. \A r \in Runs : status'[r] = "queued" => status[r] = "queued"
    BY DEF Calm
  <2> QED BY <1>2, <2>1, <2>2, <2>3 DEF RecoveryInv, Journals
<1>7. Ambiguities'
  <2> SUFFICES ASSUME NEW a \in ambiguous, NEW r \in Unfinished', origin[r] = a[1]
               PROVE  a[2] \in Unsafe /\ attempt'[r][a[2]] = "running" /\ journal[r][a[2]].state = "started"
    BY <1>1, <1>2 DEF RecoveryInv, Ambiguities
  <2>1. a[2] \in Unsafe /\ attempt[r][a[2]] = "running" /\ journal[r][a[2]].state = "started"
    BY <1>1 DEF RecoveryInv, Ambiguities
  <2>2. a[2] \in Call
    BY <2>1, RecoveryAssumption DEF Call
  <2> QED BY <1>1, <2>1, <2>2 DEF Calm
<1> QED BY <1>3, <1>4, <1>5, <1>6, <1>7

\* The requests in flight are as they were, or answered.
LEMMA RequestsKept ==
  ASSUME RecoveryInv, Calm, op' \in [Clients -> [kind : {"idle", "start", "resume"},
           key : Keys \cup {NoKey}, run : 0..MaxRuns, edit : Versions]],
         \A cl \in Clients : op'[cl] \in {op[cl], Idle},
         service = "ready" => service' = "ready" \/ \A cl \in Clients : op'[cl] = Idle
  PROVE  RequestsHeld'
<1>1. Created' = Created /\ key' = key
  BY CalmRuns DEF Calm
<1>2. \A r \in Created : status[r] \in Terminal => status'[r] \in Terminal
  BY DEF Calm, Created
<1>3. \A cl \in Clients : op'[cl].key # NoKey => op'[cl] = op[cl]
  BY DEF Idle
<1>4. \A cl \in Clients : op'[cl].kind # "idle" => op'[cl] = op[cl] /\ op'[cl] # Idle
  BY DEF Idle
<1>5. \A cl \in Clients : op'[cl].kind # "idle" => service' = "ready"
  BY <1>4 DEF RecoveryInv, RequestsHeld
<1> QED BY <1>1, <1>2, <1>3, <1>4, <1>5 DEF RecoveryInv, RequestsHeld

LEMMA StartupsKept ==
  ASSUME RecoveryInv, Calm, todo' \subseteq todo, recover' \subseteq recover,
         service' = "scanning" => service = "scanning" /\ todo' = todo
  PROVE  Startups'
<1>1. Created' = Created /\ Unfinished' \subseteq Unfinished
  BY CalmRuns
<1>2. \A r \in Created : status[r] \in Terminal => status'[r] \in Terminal
  BY DEF Calm, Created
<1> QED BY <1>1, <1>2 DEF RecoveryInv, Startups

-------------------------------------------------------------------------------
(* Steps that create no run and decide no call.                             *)

LEMMA CalmStep ==
  ASSUME RecoveryInv, Calm, RecoveryTypeOK', Startups', RequestsHeld'
  PROVE  RecoveryInv'
BY CalmKeeps DEF RecoveryInv

\* Of a process that is not executing, no run is live.
LEMMA NoneLive ==
  ASSUME service' \notin {"resuming", "ready"}
  PROVE  Live' = {}
BY DEF Live

\* Nothing of the runs changes.
Still ==
  UNCHANGED <<manifestVars, journalVars, attempt, ambiguous>>

LEMMA StillCalm ==
  ASSUME RecoveryInv, Still, \A r \in Runs : next'[r] \in {0, next[r]},
         Live' # {} => Live' \subseteq Live /\ next' = next
  PROVE  Calm
BY DEF Still, Calm, manifestVars, journalVars

LEMMA BootKeeps == RecoveryInv /\ Boot => RecoveryInv'
<1> SUFFICES ASSUME RecoveryInv, Boot PROVE RecoveryInv'
  OBVIOUS
<1>1. Still /\ next' = next /\ op' = op
  BY DEF Boot, Still, runVars, histVars
<1>2. Live' = {}
  BY NoneLive DEF Boot
<1>3. Calm
  BY <1>1, <1>2, StillCalm
<1>4. RecoveryTypeOK'
  <2>1. boots' \in 0..MaxBoots
    BY RecoveryAssumption DEF Boot, RecoveryInv, RecoveryTypeOK
  <2>2. policy' \in BOOLEAN /\ Created \subseteq Runs /\ continued' \subseteq Runs
    BY RecoveryAssumption, RunNumbers DEF Boot, RecoveryInv, RecoveryTypeOK, Created, Lineages
  <2> QED BY <2>1, <2>2
    DEF Boot, RecoveryInv, RecoveryTypeOK, manifestVars, journalVars, runVars, histVars
<1>5. Startups'
  <2>1. Created' = Created /\ Unfinished' \subseteq Created /\ todo' = Created /\ recover' = {}
    BY <1>3, CalmRuns DEF Boot, Unfinished
  <2> QED BY <2>1, CalmRuns, <1>3 DEF Startups
<1>6. RequestsHeld'
  BY <1>1, <1>3, RequestsKept DEF RecoveryInv, RecoveryTypeOK, Boot
<1> QED BY <1>3, <1>4, <1>5, <1>6, CalmStep

\* The next manifest startup looks at.
LEMMA NextManifest ==
  ASSUME RecoveryInv, todo # {}
  PROVE  Min(todo) \in todo /\ Min(todo) \in Created /\ Min(todo) \in Runs
<1>1. todo \in SUBSET Nat
  BY RunNumbers DEF RecoveryInv, RecoveryTypeOK
<1> QED BY <1>1, MinIsMember DEF RecoveryInv, RecoveryTypeOK, Startups

LEMMA Capped ==
  ASSUME NEW n \in 0..2
  PROVE  Min({2, n + 1}) \in 0..2
<1>1. {2, n + 1} \in SUBSET Nat /\ {2, n + 1} # {}
  OBVIOUS
<1>2. Min({2, n + 1}) \in {2, n + 1} /\ Min({2, n + 1}) <= 2
  BY <1>1, MinIsMember
<1> QED BY <1>2

LEMMA ScanKeeps == RecoveryInv /\ Scan => RecoveryInv'
<1> SUFFICES ASSUME RecoveryInv, Scan PROVE RecoveryInv'
  OBVIOUS
<1>1. PICK r : r = Min(todo)
  OBVIOUS
<1>2. r \in todo /\ r \in Created /\ r \in Runs
  BY <1>1, NextManifest DEF Scan
<1>3. /\ service = "scanning" /\ service' = service /\ todo' = todo \ {r} /\ op' = op
      /\ UNCHANGED <<from, origin, key, automatic, version, sparse, journal, sidecar, service, boots, policy,
                     continued, next, zombie, ambiguous>>
      /\ ScanFinished(r) \/ ScanUnfinished(r)
  BY <1>1 DEF Scan, journalVars, runVars
<1>4. status[r] # "absent"
  BY <1>2 DEF Created
<1>5. Live' = {}
  BY <1>3, NoneLive
<1>6. /\ status' = status \/ (status[r] \notin Terminal /\ status' = [status EXCEPT ![r] = "interrupted"])
      /\ status[r] \in Terminal \/ status' = [status EXCEPT ![r] = "interrupted"]
      /\ status' = status => attempt' = attempt
      /\ attempt' = attempt \/ attempt' = [attempt EXCEPT ![r] = [c \in Call |->
                                 IF attempt[r][c] = "running" THEN "closed" ELSE attempt[r][c]]]
      /\ recover' = recover \/ recover' = recover \cup {r}
      /\ excused' = excused \/ excused' = excused \cup {origin[r]}
  <2>1. CASE ScanFinished(r)
    <3>1. status[r] \in Terminal /\ status' = status /\ attempt' = attempt
      BY <2>1 DEF ScanFinished
    <3>2. recover' = recover \/ recover' = recover \cup {r}
      BY <2>1 DEF ScanFinished
    <3>3. excused' = excused \/ excused' = excused \cup {origin[r]}
      BY <2>1 DEF ScanFinished, Excuses
    <3> QED BY <3>1, <3>2, <3>3
  <2>2. CASE ScanUnfinished(r)
    <3>1. status[r] \notin Terminal /\ status' = [status EXCEPT ![r] = "interrupted"]
      BY <2>2 DEF ScanUnfinished
    <3>2. recover' = recover \/ recover' = recover \cup {r}
      BY <2>2 DEF ScanUnfinished
    <3>3. excused' = excused \/ excused' = excused \cup {origin[r]}
      BY <2>2 DEF ScanUnfinished, Excuses
    <3>4. attempt' = [attempt EXCEPT ![r] = [c \in Call |->
                        IF attempt[r][c] = "running" THEN "closed" ELSE attempt[r][c]]]
      BY <2>2 DEF ScanUnfinished, ClosesAttempts
    <3>5. status' # status
      BY <1>2, <3>1 DEF RecoveryInv, RecoveryTypeOK, Terminal
    <3> QED BY <3>1, <3>2, <3>3, <3>4, <3>5
  <2> QED BY <1>3, <2>1, <2>2
<1>7. Calm
  <2>1. UNCHANGED <<from, origin, key, automatic, version, sparse, journal, sidecar, ambiguous>>
    BY <1>3
  <2>2. ASSUME NEW q \in Runs
        PROVE  /\ status'[q] = "absent" <=> status[q] = "absent"
               /\ status[q] \in Terminal => status'[q] = status[q]
               /\ status'[q] = "queued" => status[q] = "queued"
               /\ next'[q] \in {0, next[q]}
    BY <1>3, <1>4, <1>6 DEF RecoveryInv, RecoveryTypeOK
  <2>3. ASSUME NEW q \in Runs, NEW c \in Call
        PROVE  /\ attempt'[q][c] # "none" => attempt[q][c] # "none"
               /\ status'[q] \notin Terminal =>
                    attempt'[q][c] = attempt[q][c] \/ journal[q][c].state # "started"
    <3>1. CASE attempt' = attempt
      BY <3>1
    <3>2. CASE attempt' # attempt
      <4>1. status' = [status EXCEPT ![r] = "interrupted"]
        BY <1>6, <3>2
      <4>2. q = r => status'[q] \in Terminal
        BY <1>2, <4>1 DEF RecoveryInv, RecoveryTypeOK, Terminal
      <4> QED BY <1>6, <3>2, <4>2 DEF RecoveryInv, RecoveryTypeOK
    <3> QED BY <3>1, <3>2
  <2> QED BY <1>5, <2>1, <2>2, <2>3 DEF Calm
<1>8. RecoveryTypeOK'
  <2>1. cursor' \in [Runs -> 0..2]
    <3>1. cursor' = cursor \/ cursor' = [cursor EXCEPT ![r] = Min({2, cursor[r] + 1})]
      BY <1>3 DEF ScanFinished, ScanUnfinished
    <3>2. cursor \in [Runs -> 0..2] /\ cursor[r] \in 0..2
      BY <1>2 DEF RecoveryInv, RecoveryTypeOK
    <3>3. Min({2, cursor[r] + 1}) \in 0..2
      BY <3>2, Capped
    <3> QED BY <3>1, <3>2, <3>3
  <2>2. status' \in [Runs -> Terminal \cup {"absent", "queued", "running", "cancelling"}]
    BY <1>6 DEF RecoveryInv, RecoveryTypeOK, Terminal
  <2>3. attempt' \in [Runs -> [Call -> {"none", "running", "closed"}]]
    <3>1. attempt \in [Runs -> [Call -> {"none", "running", "closed"}]]
      BY DEF RecoveryInv, RecoveryTypeOK
    <3>2. [c \in Call |-> IF attempt[r][c] = "running" THEN "closed" ELSE attempt[r][c]]
          \in [Call -> {"none", "running", "closed"}]
      BY <1>2, <3>1
    <3> QED BY <1>6, <3>1, <3>2
  <2>4. recover' \subseteq Runs /\ excused' \subseteq Runs /\ todo' \subseteq Runs
    <3>1. origin[r] \in Runs
      BY <1>2 DEF RecoveryInv, Lineages, Created
    <3> QED BY <1>2, <1>3, <1>6, <3>1 DEF RecoveryInv, RecoveryTypeOK
  <2> QED BY <1>3, <2>1, <2>2, <2>3, <2>4 DEF RecoveryInv, RecoveryTypeOK
<1>9. Startups'
  <2>1. Created' = Created /\ Unfinished' \subseteq Unfinished
    BY <1>7, CalmRuns
  <2>2. status'[r] \in Terminal
    BY <1>2, <1>6 DEF RecoveryInv, RecoveryTypeOK, Terminal
  <2>3. r \notin Unfinished'
    BY <2>2 DEF Unfinished
  <2>4. \A q \in Created : status[q] \in Terminal => status'[q] \in Terminal
    BY <1>7 DEF Calm, Created
  <2> QED BY <1>2, <1>3, <1>6, <2>1, <2>2, <2>3, <2>4 DEF RecoveryInv, Startups
<1>10. RequestsHeld'
  BY <1>3, <1>7, RequestsKept DEF RecoveryInv, RecoveryTypeOK
<1> QED BY <1>7, <1>8, <1>9, <1>10, CalmStep

LEMMA ScanEndsKeeps == RecoveryInv /\ ScanEnds => RecoveryInv'
<1> SUFFICES ASSUME RecoveryInv, ScanEnds PROVE RecoveryInv'
  OBVIOUS
<1>1. Still /\ next' = next /\ op' = op /\ todo' = todo /\ recover' = recover /\ service' = "resuming"
  BY DEF ScanEnds, Still, runVars, histVars
<1>2. Live' = {}
  <2>1. Unfinished = {} /\ Unfinished' = Unfinished
    BY <1>1 DEF ScanEnds, RecoveryInv, Startups, Still, manifestVars, Unfinished, Created
  <2> QED BY <2>1 DEF Live
<1>3. Calm
  BY <1>1, <1>2, StillCalm
<1>4. RecoveryTypeOK'
  BY <1>1 DEF ScanEnds, RecoveryInv, RecoveryTypeOK, manifestVars, journalVars, runVars, histVars
<1>5. Startups' /\ RequestsHeld'
  BY <1>1, <1>3, <1>4, RequestsKept, StartupsKept DEF RecoveryTypeOK, ScanEnds
<1> QED BY <1>3, <1>4, <1>5, CalmStep

\* Steps within a process: a loop that ends, a request, a late exit.
Within ==
  /\ Still /\ next' = next
  /\ service' = service \/ (service = "resuming" /\ service' = "ready")
  /\ todo' = todo /\ recover' \subseteq recover

LEMMA WithinKeeps ==
  ASSUME RecoveryInv, Within
  PROVE  Calm /\ Startups'
<1>1. Unfinished' = Unfinished
  BY DEF Within, Still, manifestVars, Unfinished, Created
<1>2. Live' \subseteq Live
  BY <1>1 DEF Within, Live
<1>3. Calm
  BY <1>2, StillCalm DEF Within
<1>4. Startups'
  BY <1>3, StartupsKept DEF Within
<1> QED BY <1>3, <1>4

LEMMA ReadyKeeps == RecoveryInv /\ Ready => RecoveryInv'
<1> SUFFICES ASSUME RecoveryInv, Ready PROVE RecoveryInv'
  OBVIOUS
<1>1. Within /\ op' = op
  BY DEF Ready, Within, Still, runVars, histVars
<1>2. RecoveryTypeOK'
  BY DEF Ready, RecoveryInv, RecoveryTypeOK, manifestVars, journalVars, runVars, histVars
<1>3. Calm /\ Startups'
  BY <1>1, WithinKeeps
<1>4. RequestsHeld'
  BY <1>1, <1>2, <1>3, RequestsKept DEF RecoveryTypeOK, Within
<1> QED BY <1>2, <1>3, <1>4, CalmStep

LEMMA ZombieKeeps == RecoveryInv /\ ZombieExits => RecoveryInv'
<1> SUFFICES ASSUME RecoveryInv, ZombieExits PROVE RecoveryInv'
  OBVIOUS
<1>1. Within /\ op' = op
  BY DEF ZombieExits, Within, Still, bootVars, histVars
<1>2. RecoveryTypeOK'
  BY DEF ZombieExits, RecoveryInv, RecoveryTypeOK, manifestVars, journalVars, bootVars, histVars
<1>3. Calm /\ Startups'
  BY <1>1, WithinKeeps
<1>4. RequestsHeld'
  BY <1>1, <1>2, <1>3, RequestsKept DEF RecoveryTypeOK, Within
<1> QED BY <1>2, <1>3, <1>4, CalmStep

\* The process is gone: its requests, counts and quarantines with it.
LEMMA GoneFacts ==
  ASSUME RecoveryInv, Gone
  PROVE  /\ Live' = {} /\ Startups' /\ \A r \in Runs : next'[r] \in {0, next[r]}
         /\ \A cl \in Clients : op'[cl] = Idle
         /\ op' \in [Clients -> [kind : {"idle", "start", "resume"},
                       key : Keys \cup {NoKey}, run : 0..MaxRuns, edit : Versions]]
         /\ next' \in [Runs -> 0..Calls] /\ zombie' = {} /\ todo' = {} /\ continued' = {} /\ recover' = {}
         /\ service' = "down" /\ boots' = boots /\ policy' = policy
<1>1. service' = "down" /\ todo' = {} /\ recover' = {} /\ continued' = {} /\ zombie' = {}
      /\ boots' = boots /\ policy' = policy
      /\ op' = [cl \in Clients |-> Idle] /\ next' = [r \in Runs |-> 0]
  BY DEF Gone
<1>2. Idle \in [kind : {"idle", "start", "resume"}, key : Keys \cup {NoKey},
                run : 0..MaxRuns, edit : Versions]
  BY RunNumbers DEF Idle, Versions, None
<1>3. 0 \in 0..Calls
  BY RunNumbers
<1>4. Startups'
  BY <1>1 DEF Startups
<1> QED BY <1>1, <1>2, <1>3, <1>4, NoneLive

LEMMA CrashKeeps == RecoveryInv /\ Crash => RecoveryInv'
<1> SUFFICES ASSUME RecoveryInv, Crash PROVE RecoveryInv'
  OBVIOUS
<1>1. Still /\ Gone /\ excused' = excused
  BY DEF Crash, Still, histVars
<1>2. Calm
  BY <1>1, GoneFacts, StillCalm
<1>3. RecoveryTypeOK'
  BY <1>1, GoneFacts DEF RecoveryInv, RecoveryTypeOK, Still, manifestVars, journalVars
<1>4. RequestsHeld'
  BY <1>1, <1>2, GoneFacts, RequestsKept
<1> QED BY <1>1, <1>2, <1>3, <1>4, GoneFacts, CalmStep

LEMMA StopKeeps == RecoveryInv /\ Stop => RecoveryInv'
<1> SUFFICES ASSUME RecoveryInv, Stop PROVE RecoveryInv'
  OBVIOUS
<1>1. /\ Gone
      /\ UNCHANGED <<from, origin, key, automatic, version, sparse, journal, sidecar, ambiguous, excused>>
      /\ status' = [r \in Runs |-> IF r \in Live THEN "interrupted" ELSE status[r]]
      /\ cursor' = [r \in Runs |-> IF r \in Live THEN Min({2, cursor[r] + 1}) ELSE cursor[r]]
      /\ attempt' = [r \in Runs |-> [c \in Call |->
           IF r \in Live /\ attempt[r][c] = "running" THEN "closed" ELSE attempt[r][c]]]
  BY DEF Stop, journalVars, histVars
<1>2. \A r \in Live : r \in Runs /\ status[r] \notin Terminal /\ status[r] # "absent"
  BY DEF Live, Unfinished, Created
<1>3. Calm
  <2>1. ASSUME NEW r \in Runs
        PROVE  /\ status'[r] = "absent" <=> status[r] = "absent"
               /\ status[r] \in Terminal => status'[r] = status[r]
               /\ status'[r] = "queued" => status[r] = "queued"
    BY <1>1, <1>2
  <2>2. ASSUME NEW r \in Runs, NEW c \in Call
        PROVE  /\ attempt'[r][c] # "none" => attempt[r][c] # "none"
               /\ status'[r] \notin Terminal =>
                    attempt'[r][c] = attempt[r][c] \/ journal[r][c].state # "started"
    <3>1. status'[r] \notin Terminal => r \notin Live
      BY <1>1 DEF Terminal
    <3> QED BY <1>1, <3>1
  <2> QED BY <1>1, <2>1, <2>2, GoneFacts DEF Calm
<1>4. RecoveryTypeOK'
  <2>1. status' \in [Runs -> Terminal \cup {"absent", "queued", "running", "cancelling"}]
    BY <1>1 DEF RecoveryInv, RecoveryTypeOK, Terminal
  <2>2. cursor' \in [Runs -> 0..2]
    BY <1>1, Capped DEF RecoveryInv, RecoveryTypeOK
  <2>3. attempt' \in [Runs -> [Call -> {"none", "running", "closed"}]]
    BY <1>1 DEF RecoveryInv, RecoveryTypeOK
  <2> QED BY <1>1, <2>1, <2>2, <2>3, GoneFacts DEF RecoveryInv, RecoveryTypeOK
<1>5. RequestsHeld'
  BY <1>1, <1>3, GoneFacts, RequestsKept
<1> QED BY <1>1, <1>3, <1>4, <1>5, GoneFacts, CalmStep

\* A request is taken in: its key has no run, and no other request.
LEMMA AsksKeep ==
  ASSUME RecoveryInv, NEW cl \in Clients, NEW o \in [kind : {"start", "resume"}, key : Keys \cup {NoKey},
           run : 0..MaxRuns, edit : Versions],
         op' = [op EXCEPT ![cl] = o], MayAsk(cl, o.key), ~Known(o.key), Within, bootVars' = bootVars,
         zombie' \subseteq zombie, excused' = excused,
         o.kind = "resume" => o.run \in Created /\ status[o.run] \in Terminal
  PROVE  RecoveryInv'
<1>1. Calm /\ Startups'
  BY WithinKeeps
<1>2. op' \in [Clients -> [kind : {"idle", "start", "resume"}, key : Keys \cup {NoKey}, run : 0..MaxRuns,
                          edit : Versions]]
  BY DEF RecoveryInv, RecoveryTypeOK
<1>3. RecoveryTypeOK'
  BY <1>2 DEF RecoveryInv, RecoveryTypeOK, Within, Still, manifestVars, journalVars, bootVars
<1>4. RequestsHeld'
  <2>1. Created' = Created /\ key' = key
    BY <1>1, CalmRuns DEF Calm
  <2>2. \A r \in Created : status[r] \in Terminal => status'[r] \in Terminal
    BY <1>1 DEF Calm, Created
  <2>3. \A d \in Clients : op'[d] = IF d = cl THEN o ELSE op[d]
    BY DEF RecoveryInv, RecoveryTypeOK
  <2>4. o.key # NoKey => (\A r \in Created : key[r] # o.key) /\ \A d \in Clients : op[d].key # o.key
    BY DEF Known, ByKey, MayAsk
  <2>5. service' = "ready" /\ service = "ready"
    BY DEF MayAsk, bootVars
  <2>6. ASSUME NEW d \in Clients
        PROVE  /\ op'[d].kind # "idle" => service' = "ready"
               /\ op'[d].kind = "resume" => op'[d].run \in Created /\ status'[op'[d].run] \in Terminal
               /\ op'[d].key # NoKey =>
                    /\ \A r \in Created : key[r] # op'[d].key
                    /\ \A other \in Clients : op'[other].key = op'[d].key => other = d
    BY <2>2, <2>3, <2>4, <2>5 DEF RecoveryInv, RequestsHeld
  <2>7. \A q, r \in Created : key[q] = key[r] /\ key[q] # NoKey => q = r
    BY DEF RecoveryInv, RequestsHeld
  <2> QED BY <2>1, <2>6, <2>7 DEF RequestsHeld
<1> QED BY <1>1, <1>3, <1>4, CalmStep

LEMMA AskStartKeeps ==
  ASSUME RecoveryInv, NEW q \in Requests, AskStart(q[1], q[2])
  PROVE  RecoveryInv'
<1>1. PICK o : o = [kind |-> "start", key |-> q[2], run |-> None, edit |-> "original"]
  OBVIOUS
<1>2. q[1] \in Clients /\ q[2] \in Keys \cup {NoKey}
  BY DEF Clients, Keys
<1>3. /\ o \in [kind : {"start", "resume"}, key : Keys \cup {NoKey}, run : 0..MaxRuns, edit : Versions]
      /\ o.kind = "start" /\ o.key = q[2]
  BY <1>1, <1>2, RunNumbers DEF Versions
<1>4. /\ op' = [op EXCEPT ![q[1]] = o] /\ MayAsk(q[1], o.key) /\ ~Known(o.key)
      /\ UNCHANGED <<manifestVars, journalVars, attempt, bootVars, runVars, histVars>>
  BY <1>1, <1>3 DEF AskStart
<1>5. Within /\ bootVars' = bootVars /\ zombie' = zombie /\ excused' = excused
  BY <1>4 DEF Within, Still, runVars, histVars, bootVars
<1> QED BY <1>2, <1>3, <1>4, <1>5, AsksKeep

LEMMA AskResumeKeeps ==
  ASSUME RecoveryInv, NEW q \in Requests, NEW r \in Runs, AskResume(q[1], q[2], r, q[3])
  PROVE  RecoveryInv'
<1>1. PICK o : o = [kind |-> "resume", key |-> q[2], run |-> r, edit |-> q[3]]
  OBVIOUS
<1>2. q[1] \in Clients /\ q[2] \in Keys \cup {NoKey} /\ q[3] \in Versions
  BY RecoveryAssumption DEF Clients, Keys, Versions
<1>3. /\ o \in [kind : {"start", "resume"}, key : Keys \cup {NoKey}, run : 0..MaxRuns, edit : Versions]
      /\ o.kind = "resume" /\ o.key = q[2] /\ o.run = r
  BY <1>1, <1>2, RunNumbers
<1>4. /\ op' = [op EXCEPT ![q[1]] = o] /\ MayAsk(q[1], o.key) /\ ~Known(o.key) /\ status[r] \in Resumable
      /\ UNCHANGED <<manifestVars, journalVars, attempt, bootVars, next, histVars>>
      /\ zombie' \subseteq zombie
  BY <1>1, <1>3 DEF AskResume
<1>5. Within /\ bootVars' = bootVars /\ zombie' \subseteq zombie /\ excused' = excused
  BY <1>4 DEF Within, Still, histVars, bootVars
<1>6. r \in Created /\ status[r] \in Terminal
  BY <1>4 DEF Resumable, Terminal, Created
<1> QED BY <1>2, <1>3, <1>4, <1>5, <1>6, AsksKeep

-------------------------------------------------------------------------------
(* Steps of a run that decide no call.                                      *)

LEMMA LiveRuns ==
  \A r \in Live :
    r \in Runs /\ r \in Created /\ r \in Unfinished /\ status[r] \notin Terminal /\ status[r] # "absent"
BY DEF Live, Unfinished, Created

\* The run changes its status, or one of its attempts ends.
Moving(r) ==
  /\ r \in Live
  /\ UNCHANGED <<from, origin, key, automatic, version, sparse, journal, sidecar, bootVars, op,
                 next, histVars>>
  /\ cursor' \in [Runs -> 0..2] /\ zombie' \subseteq Runs \X Call

LEMMA MovingKeeps ==
  ASSUME RecoveryInv, NEW r \in Live, Moving(r),
         NEW s \in (Terminal \cup {"running", "cancelling"}), status' = [status EXCEPT ![r] = s],
         attempt' \in [Runs -> [Call -> {"none", "running", "closed"}]],
         \A q \in Runs, c \in Call :
           /\ attempt'[q][c] # "none" => attempt[q][c] # "none"
           /\ q # r \/ s \notin Terminal => attempt'[q][c] = attempt[q][c] \/ journal[q][c].state # "started"
  PROVE  RecoveryInv'
<1>1. r \in Runs /\ status[r] \notin Terminal /\ status[r] # "absent" /\ s # "absent" /\ s # "queued"
  BY LiveRuns DEF Terminal
<1>2. \A q \in Runs : status'[q] = IF q = r THEN s ELSE status[q]
  BY DEF RecoveryInv, RecoveryTypeOK
<1>3. Live' \subseteq Live
  BY <1>1, <1>2 DEF Live, Unfinished, Created, Moving, bootVars
<1>4. Calm
  BY <1>1, <1>2, <1>3 DEF Calm, Moving, histVars
<1>5. RecoveryTypeOK'
  <2>1. status' \in [Runs -> Terminal \cup {"absent", "queued", "running", "cancelling"}]
    BY <1>1 DEF RecoveryInv, RecoveryTypeOK
  <2> QED BY <2>1 DEF RecoveryInv, RecoveryTypeOK, Moving, bootVars, histVars
<1>6. Startups' /\ RequestsHeld'
  BY <1>4, <1>5, StartupsKept, RequestsKept DEF Moving, bootVars, RecoveryTypeOK
<1> QED BY <1>4, <1>5, <1>6, CalmStep

\* A run opens its journal over its predecessor's, of which it is a copy.
LEMMA RunStartsKeeps ==
  ASSUME RecoveryInv, NEW r \in Runs, RunStarts(r)
  PROVE  RecoveryInv'
<1>1. /\ r \in Live /\ status[r] = "queued" /\ status' = [status EXCEPT ![r] = "running"]
      /\ cursor' = [cursor EXCEPT ![r] = 1] /\ attempt' = attempt /\ zombie' = zombie
      /\ UNCHANGED <<from, origin, key, automatic, version, sparse, sidecar, bootVars, op, next, histVars>>
  BY DEF RunStarts, runVars
<1>2. PICK base : base = IF from[r] = None THEN Blank ELSE journal[from[r]]
  OBVIOUS
<1>3. journal[r] = base
  BY <1>1, <1>2 DEF RecoveryInv, Journals
<1>4. journal[r] \in [Call -> [state : {"absent", "started", "value", "gap"}, by : Versions]]
  BY DEF RecoveryInv, RecoveryTypeOK
<1>5. Merge(journal[r], base) = journal[r]
  BY <1>3, <1>4 DEF Merge
<1>6. journal' = journal
  <2>1. journal' = [journal EXCEPT ![r] = Merge(journal[r], base)]
    BY <1>2 DEF RunStarts
  <2> QED BY <1>5, <2>1 DEF RecoveryInv, RecoveryTypeOK
<1>7. cursor' \in [Runs -> 0..2] /\ zombie' \subseteq Runs \X Call
  BY <1>1 DEF RecoveryInv, RecoveryTypeOK
<1>8. Moving(r)
  BY <1>1, <1>6, <1>7 DEF Moving
<1>9. attempt' \in [Runs -> [Call -> {"none", "running", "closed"}]]
  BY <1>1 DEF RecoveryInv, RecoveryTypeOK
<1> QED BY <1>1, <1>8, <1>9, MovingKeeps

LEMMA CompletesKeeps ==
  ASSUME RecoveryInv, NEW r \in Runs, Completes(r)
  PROVE  RecoveryInv'
<1>1. PICK s : s = IF \E c \in Call : journal[r][c].state = "gap" THEN "completed_with_errors"
                ELSE "completed"
  OBVIOUS
<1>2. /\ r \in Live /\ status' = [status EXCEPT ![r] = s] /\ attempt' = attempt
      /\ UNCHANGED <<from, origin, key, automatic, version, sparse, journal, sidecar, bootVars,
                     op, next, histVars>>
      /\ cursor' = cursor /\ zombie' = zombie
  BY <1>1 DEF Completes, journalVars, runVars
<1>3. s \in Terminal \cup {"running", "cancelling"}
  BY <1>1 DEF Terminal
<1>4. Moving(r) /\ attempt' \in [Runs -> [Call -> {"none", "running", "closed"}]]
  BY <1>2 DEF Moving, RecoveryInv, RecoveryTypeOK
<1> QED BY <1>2, <1>3, <1>4, MovingKeeps

LEMMA CancelRequestedKeeps ==
  ASSUME RecoveryInv, NEW r \in Runs, CancelRequested(r)
  PROVE  RecoveryInv'
<1>1. /\ r \in Live /\ status' = [status EXCEPT ![r] = "cancelling"] /\ attempt' = attempt
      /\ UNCHANGED <<from, origin, key, automatic, version, sparse, journal, sidecar, bootVars,
                     op, next, histVars>>
      /\ cursor' = [cursor EXCEPT ![r] = 2] /\ zombie' = zombie
  BY DEF CancelRequested, journalVars, runVars
<1>2. cursor' \in [Runs -> 0..2]
  BY <1>1 DEF RecoveryInv, RecoveryTypeOK
<1>3. Moving(r) /\ attempt' \in [Runs -> [Call -> {"none", "running", "closed"}]]
  BY <1>1, <1>2 DEF Moving, RecoveryInv, RecoveryTypeOK
<1> QED BY <1>1, <1>3, MovingKeeps

LEMMA CancelledKeeps ==
  ASSUME RecoveryInv, NEW r \in Runs, Cancelled(r)
  PROVE  RecoveryInv'
<1>1. /\ r \in Live /\ status' = [status EXCEPT ![r] = "cancelled"]
      /\ attempt' = [attempt EXCEPT ![r] = [c \in Call |->
                       IF attempt[r][c] = "running" THEN "closed" ELSE attempt[r][c]]]
      /\ UNCHANGED <<from, origin, key, automatic, version, sparse, journal, sidecar, bootVars,
                     op, next, histVars>>
      /\ cursor' = cursor
  BY DEF Cancelled, ClosesAttempts, journalVars
<1>2. zombie' \subseteq Runs \X Call
  <2>1. PICK alive \in SUBSET {e \in Executing : e[1] = r} : zombie' = zombie \cup alive
    BY DEF Cancelled
  <2>2. Executing \subseteq Runs \X Call
    BY LiveRuns DEF Executing
  <2> QED BY <2>1, <2>2 DEF RecoveryInv, RecoveryTypeOK
<1>3. attempt \in [Runs -> [Call -> {"none", "running", "closed"}]]
  BY DEF RecoveryInv, RecoveryTypeOK
<1>4. [c \in Call |-> IF attempt[r][c] = "running" THEN "closed" ELSE attempt[r][c]]
        \in [Call -> {"none", "running", "closed"}]
  BY <1>3
<1>5. attempt' \in [Runs -> [Call -> {"none", "running", "closed"}]]
  BY <1>1, <1>3, <1>4
<1>6. ASSUME NEW q \in Runs, NEW c \in Call
      PROVE  /\ attempt'[q][c] # "none" => attempt[q][c] # "none"
             /\ q # r => attempt'[q][c] = attempt[q][c]
  BY <1>1, <1>3
<1>7. Moving(r)
  BY <1>1, <1>2 DEF Moving, RecoveryInv, RecoveryTypeOK
<1>8. "cancelled" \in Terminal
  BY DEF Terminal
<1>9. /\ "cancelled" \in Terminal \cup {"running", "cancelling"}
      /\ status' = [status EXCEPT ![r] = "cancelled"] /\ r \in Live
  BY <1>1, <1>8
<1> DEFINE s == "cancelled"
<1>10. /\ s \in Terminal \cup {"running", "cancelling"} /\ status' = [status EXCEPT ![r] = s] /\ r \in Live
       /\ \A q \in Runs, c \in Call :
            /\ attempt'[q][c] # "none" => attempt[q][c] # "none"
            /\ q # r \/ s \notin Terminal =>
                 attempt'[q][c] = attempt[q][c] \/ journal[q][c].state # "started"
  BY <1>6, <1>8, <1>9
<1> HIDE DEF s
<1> QED BY <1>5, <1>7, <1>10, MovingKeeps

LEMMA ReportKeeps ==
  ASSUME RecoveryInv, NEW r \in Runs, NEW c \in Call, Report(r, c)
  PROVE  RecoveryInv'
<1>1. /\ r \in Live /\ attempt[r][c] = "running" /\ journal[r][c].state \in {"value", "gap"}
      /\ attempt' = [attempt EXCEPT ![r][c] = "closed"]
      /\ UNCHANGED <<manifestVars, journalVars, bootVars, op, runVars, histVars>>
  BY DEF Report
<1>2. attempt' \in [Runs -> [Call -> {"none", "running", "closed"}]]
  BY <1>1 DEF RecoveryInv, RecoveryTypeOK
<1>3. ASSUME NEW q \in Runs, NEW d \in Call
      PROVE  /\ attempt'[q][d] # "none" => attempt[q][d] # "none"
             /\ attempt'[q][d] = attempt[q][d] \/ journal[q][d].state # "started"
  BY <1>1 DEF RecoveryInv, RecoveryTypeOK
<1>4. Live' = Live /\ next' = next
  BY <1>1 DEF Live, Unfinished, Created, manifestVars, bootVars, runVars
<1>5. Calm
  BY <1>1, <1>3, <1>4 DEF Calm, manifestVars, journalVars, histVars
<1>6. RecoveryTypeOK'
  BY <1>1, <1>2 DEF RecoveryInv, RecoveryTypeOK, manifestVars, journalVars, bootVars, runVars, histVars
<1>7. Startups' /\ RequestsHeld'
  BY <1>1, <1>5, <1>6, StartupsKept, RequestsKept DEF bootVars, RecoveryTypeOK
<1> QED BY <1>5, <1>6, <1>7, CalmStep

-------------------------------------------------------------------------------
(* Steps that decide a call: of one unfinished run, whose journal no other   *)
(* run was copied from.                                                      *)

Deciding ==
  /\ UNCHANGED <<status, from, origin, key, automatic, version, sparse, bootVars, op>>

LEMMA DecidingKeeps ==
  ASSUME RecoveryInv, Deciding
  PROVE  /\ Created' = Created /\ Unfinished' = Unfinished /\ Live' = Live
         /\ Lineages' /\ Startups' /\ RequestsHeld'
<1>1. Created' = Created /\ Unfinished' = Unfinished
  BY DEF Deciding, Created, Unfinished
<1>2. Live' = Live
  BY <1>1 DEF Deciding, Live, bootVars
<1>3. Lineages'
  BY <1>1 DEF Deciding, RecoveryInv, Lineages
<1>4. Startups'
  BY <1>1 DEF Deciding, RecoveryInv, Startups, bootVars
<1>5. RequestsHeld'
  BY <1>1 DEF Deciding, RecoveryInv, RequestsHeld, bootVars
<1> QED BY <1>1, <1>2, <1>3, <1>4, <1>5

\* A live run has no successor and is its own lineage's only unfinished one.
LEMMA LiveIsLast ==
  ASSUME RecoveryInv, NEW r \in Live
  PROVE  /\ r \in Runs /\ r \in Unfinished /\ status[r] # "absent"
         /\ \A q \in Runs : from[q] # None => from[q] # r
         /\ \A q \in Unfinished : origin[q] = origin[r] => q = r
BY LiveRuns DEF RecoveryInv, Lineages

LEMMA DispatchKeeps ==
  ASSUME RecoveryInv, NEW r \in Runs, NEW c \in Call, Dispatch(r, c)
  PROVE  RecoveryInv'
<1>1. /\ r \in Live /\ status[r] = "running" /\ c <= next[r] /\ journal[r][c].state = "started"
      /\ attempt[r][c] = "none" /\ attempt' = [attempt EXCEPT ![r][c] = "running"]
      /\ ambiguous' = IF c \in Unsafe THEN ambiguous \cup {<<origin[r], c>>} ELSE ambiguous
      /\ UNCHANGED <<manifestVars, journalVars, bootVars, op, runVars, excused>>
  BY DEF Dispatch
<1>2. Deciding
  BY <1>1 DEF Deciding, manifestVars
<1>3. /\ Created' = Created /\ Unfinished' = Unfinished /\ Live' = Live
      /\ Lineages' /\ Startups' /\ RequestsHeld'
  BY <1>2, DecidingKeeps
<1>4. /\ UNCHANGED <<status, from, origin, key, version, sparse, automatic, journal, sidecar, next>>
  BY <1>1 DEF manifestVars, journalVars, runVars
<1>5. \A q \in Runs, d \in Call : attempt'[q][d] = IF q = r /\ d = c THEN "running" ELSE attempt[q][d]
  BY <1>1 DEF RecoveryInv, RecoveryTypeOK
<1>6. origin[r] \in Runs /\ origin[r] \in Created /\ r \in Unfinished
  BY <1>1, LiveRuns DEF RecoveryInv, Lineages, Created
<1>7. RecoveryTypeOK'
  <2>1. attempt' \in [Runs -> [Call -> {"none", "running", "closed"}]]
    BY <1>1 DEF RecoveryInv, RecoveryTypeOK
  <2>2. ambiguous' \subseteq Runs \X Call
    BY <1>1, <1>6 DEF RecoveryInv, RecoveryTypeOK
  <2> QED BY <1>1, <2>1, <2>2
    DEF RecoveryInv, RecoveryTypeOK, manifestVars, journalVars, bootVars, runVars
<1>8. Numbered'
  BY <1>1, <1>3, <1>4, <1>5 DEF RecoveryInv, Numbered
<1>9. Working'
  BY <1>1, <1>3, <1>4, <1>5, LiveRuns DEF RecoveryInv, Working
<1>10. Journals'
  <2>1. \A q \in Runs, d \in Call : Carries(q, d)' <=> Carries(q, d)
    BY <1>4 DEF Carries
  <2>2. ~Carries(r, c)
    BY <1>1 DEF RecoveryInv, Journals, Carries
  <2>3. \A q \in Runs, d \in Call :
            Carries(q, d) => journal[q][d] = journal[from[q]][d] /\ attempt'[q][d] = "none"
    BY <1>5, <2>2 DEF RecoveryInv, Journals
  <2> QED BY <1>4, <2>1, <2>3 DEF RecoveryInv, Journals
<1>11. Ambiguities'
  <2> SUFFICES ASSUME NEW a \in ambiguous'
               PROVE  /\ a[1] \in Created
                      /\ \A q \in Unfinished : origin[q] = a[1] =>
                           a[2] \in Unsafe /\ attempt'[q][a[2]] = "running"
                           /\ journal[q][a[2]].state = "started"
    BY <1>3, <1>4 DEF Ambiguities
  <2>1. CASE a \in ambiguous
    <3>1. a[2] \in Call
      BY <2>1 DEF RecoveryInv, RecoveryTypeOK
    <3>2. Unfinished \subseteq Runs
      BY DEF Unfinished, Created
    <3> QED BY <1>5, <2>1, <3>1, <3>2 DEF RecoveryInv, Ambiguities
  <2>2. CASE a \notin ambiguous
    <3>1. a = <<origin[r], c>> /\ c \in Unsafe
      BY <1>1, <2>2
    <3>2. \A q \in Unfinished : origin[q] = origin[r] => q = r
      BY <1>1, LiveIsLast
    <3> QED BY <1>1, <1>5, <1>6, <3>1, <3>2
  <2> QED BY <2>1, <2>2
<1> QED BY <1>3, <1>7, <1>8, <1>9, <1>10, <1>11 DEF RecoveryInv

LEMMA RecordKeeps ==
  ASSUME RecoveryInv, NEW r \in Runs, NEW c \in Call, Record(r, c)
  PROVE  RecoveryInv'
<1>1. PICK outcome \in {"value", "gap"} : journal' = [journal EXCEPT ![r][c] = Entry(outcome, version[r])]
  BY DEF Record
<1>2. /\ r \in Live /\ attempt[r][c] = "running" /\ journal[r][c].state = "started" /\ status[r] = "running"
      /\ ambiguous' = ambiguous \ {<<origin[r], c>>}
      /\ UNCHANGED <<manifestVars, sidecar, attempt, bootVars, op, runVars, excused>>
  BY DEF Record, Executing
<1>3. Deciding
  BY <1>2 DEF Deciding, manifestVars
<1>4. /\ Created' = Created /\ Unfinished' = Unfinished /\ Live' = Live
      /\ Lineages' /\ Startups' /\ RequestsHeld'
  BY <1>3, DecidingKeeps
<1>5. /\ UNCHANGED <<status, from, origin, key, version, sparse, automatic, sidecar, next, attempt>>
  BY <1>2 DEF manifestVars, runVars
<1>6. PICK e : e = Entry(outcome, version[r])
  OBVIOUS
<1>7. e \in [state : {"absent", "started", "value", "gap"}, by : Versions]
           /\ e.by = version[r] /\ e.state = outcome
  BY <1>6 DEF Entry, RecoveryInv, RecoveryTypeOK
<1>8. \A q \in Runs, d \in Call : journal'[q][d] = IF q = r /\ d = c THEN e ELSE journal[q][d]
  BY <1>1, <1>6 DEF RecoveryInv, RecoveryTypeOK
<1>9. \A q \in Runs : q # r => journal'[q] = journal[q]
  BY <1>1 DEF RecoveryInv, RecoveryTypeOK
<1>10. RecoveryTypeOK'
  <2>1. journal' \in [Runs -> [Call -> [state : {"absent", "started", "value", "gap"}, by : Versions]]]
    BY <1>1, <1>6, <1>7 DEF RecoveryInv, RecoveryTypeOK
  <2> QED BY <1>2, <2>1 DEF RecoveryInv, RecoveryTypeOK, manifestVars, bootVars, runVars
<1>11. Numbered' /\ Working'
  BY <1>4, <1>5 DEF RecoveryInv, Numbered, Working
<1>12. /\ \A q \in Runs : from[q] # None => from[q] # r /\ from[q] \in Runs
       /\ \A q \in Unfinished : origin[q] = origin[r] => q = r
  BY <1>2, LiveIsLast DEF RecoveryInv, Lineages
<1>13. Journals'
  <2>1. sidecar[r] = Hash(version[r])
    <3>1. c <= next[r] /\ next[r] \in 0..Calls
      BY <1>2 DEF RecoveryInv, Working, RecoveryTypeOK
    <3>2. next[r] # 0
      BY <3>1, RunNumbers DEF Call
    <3> QED BY <1>2, <3>2 DEF RecoveryInv, Working
  <2>2. \A q \in Runs, d \in Call : journal'[q][d].state # "absent" => Hash(journal'[q][d].by) = sidecar[q]
    BY <1>7, <1>8, <2>1 DEF RecoveryInv, Journals
  <2>3. \A q \in Runs : status[q] = "queued"
            => journal'[q] = IF from[q] = None THEN Blank ELSE journal'[from[q]]
    BY <1>2, <1>9, <1>12 DEF RecoveryInv, Journals
  <2>4. \A q \in Runs, d \in Call : Carries(q, d)' <=> Carries(q, d)
    BY <1>5, <1>9, <1>12 DEF Carries
  <2>5. ~Carries(r, c)
    BY <1>2 DEF RecoveryInv, Journals, Carries
  <2>6. \A q \in Runs, d \in Call :
            Carries(q, d) => journal'[q][d] = journal'[from[q]][d] /\ attempt[q][d] = "none"
    <3> TAKE q \in Runs, d \in Call
    <3> HAVE Carries(q, d)
    <3>1. from[q] # None /\ from[q] \in Runs /\ from[q] # r
      BY <1>12 DEF Carries
    <3> QED BY <1>8, <1>9, <2>5, <3>1 DEF RecoveryInv, Journals
  <2> QED BY <1>5, <2>2, <2>3, <2>4, <2>6 DEF Journals
<1>14. Ambiguities'
  <2> SUFFICES ASSUME NEW a \in ambiguous'
               PROVE  /\ a[1] \in Created
                      /\ \A q \in Unfinished : origin[q] = a[1] =>
                           a[2] \in Unsafe /\ attempt[q][a[2]] = "running"
                           /\ journal'[q][a[2]].state = "started"
    BY <1>4, <1>5 DEF Ambiguities
  <2>1. a \in ambiguous /\ a # <<origin[r], c>> /\ a[2] \in Call /\ a = <<a[1], a[2]>>
    BY <1>2 DEF RecoveryInv, RecoveryTypeOK
  <2>2. Unfinished \subseteq Runs
    BY DEF Unfinished, Created
  <2> QED BY <1>8, <2>1, <2>2 DEF RecoveryInv, Ambiguities
<1> QED BY <1>4, <1>10, <1>11, <1>13, <1>14 DEF RecoveryInv

\* A call is admitted: its entry is what the run takes over, or is being made.
LEMMA AdmitKeeps ==
  ASSUME RecoveryInv, NEW r \in Runs, Admit(r)
  PROVE  RecoveryInv'
<1> DEFINE c == next[r] + 1
           e == Entry(IF Reuses(r, c) THEN Inherited(r, c).state ELSE "started", version[r])
           kept == Retained(r, c)
<1>1. /\ r \in Live /\ status[r] = "running" /\ next[r] < Calls /\ next' = [next EXCEPT ![r] = c]
      /\ journal' = [journal EXCEPT ![r] = [kept EXCEPT ![c] = e]]
      /\ sidecar' = [sidecar EXCEPT ![r] = Hash(version[r])]
      /\ cursor' = [cursor EXCEPT ![r] = 2]
      /\ UNCHANGED <<status, from, origin, key, automatic, version, sparse, attempt, bootVars, op,
                     zombie, histVars>>
  BY DEF Admit
<1>2. Deciding
  BY <1>1 DEF Deciding
<1>3. /\ Created' = Created /\ Unfinished' = Unfinished /\ Live' = Live
      /\ Lineages' /\ Startups' /\ RequestsHeld'
  BY <1>2, DecidingKeeps
<1>4. /\ UNCHANGED <<status, from, origin, key, version, sparse, automatic, attempt, ambiguous>>
  BY <1>1 DEF histVars
<1>5. /\ \A q \in Runs : from[q] # None => from[q] # r /\ from[q] \in Runs
      /\ Unfinished \subseteq Runs
  BY <1>1, LiveIsLast DEF RecoveryInv, Lineages, Unfinished, Created
<1>6. c \in Call /\ next[r] \in Nat /\ c \in 0..Calls
  BY <1>1, RunNumbers DEF RecoveryInv, RecoveryTypeOK, Call
<1>7. Inherited(r, c) \in [state : {"absent", "started", "value", "gap"}, by : Versions]
      /\ Blank \in [Call -> [state : {"absent", "started", "value", "gap"}, by : Versions]]
  <2>1. Blank \in [Call -> [state : {"absent", "started", "value", "gap"}, by : Versions]]
    BY DEF Blank, Entry, Versions
  <2> QED BY <1>5, <1>6, <2>1 DEF Inherited, RecoveryInv, RecoveryTypeOK
<1>8. /\ kept \in [Call -> [state : {"absent", "started", "value", "gap"}, by : Versions]]
      /\ kept = journal[r] \/ (kept = Blank /\ c = 1 /\ ~ReusesSparsely(r))
  BY <1>7 DEF Retained, RecoveryInv, RecoveryTypeOK
<1>9. /\ e \in [state : {"absent", "started", "value", "gap"}, by : Versions] /\ e.by = version[r]
      /\ e.state = IF Reuses(r, c) THEN Inherited(r, c).state ELSE "started"
  BY <1>7 DEF Entry, RecoveryInv, RecoveryTypeOK
<1> HIDE DEF e, kept
<1>10. /\ \A q \in Runs : q # r => journal'[q] = journal[q] /\ sidecar'[q] = sidecar[q] /\ next'[q] = next[q]
       /\ sidecar'[r] = Hash(version[r]) /\ next'[r] = c
       /\ \A d \in Call : journal'[r][d] = IF d = c THEN e ELSE kept[d]
  BY <1>1, <1>6, <1>8 DEF RecoveryInv, RecoveryTypeOK
<1>11. RecoveryTypeOK'
  <2>1. journal' \in [Runs -> [Call -> [state : {"absent", "started", "value", "gap"}, by : Versions]]]
    BY <1>1, <1>8, <1>9 DEF RecoveryInv, RecoveryTypeOK
  <2>2. sidecar' \in [Runs -> Versions]
    BY <1>1 DEF RecoveryInv, RecoveryTypeOK, Hash, Versions
  <2>3. next' \in [Runs -> 0..Calls] /\ cursor' \in [Runs -> 0..2]
    BY <1>1, <1>6 DEF RecoveryInv, RecoveryTypeOK
  <2> QED BY <1>1, <2>1, <2>2, <2>3 DEF RecoveryInv, RecoveryTypeOK, bootVars, histVars
<1>12. Numbered'
  BY <1>1, <1>3, <1>4, <1>10 DEF RecoveryInv, Numbered
<1>13. Working'
  <2>1. ASSUME NEW q \in Live
        PROVE  /\ \A d \in Call : attempt[q][d] # "none" => d <= next'[q]
               /\ next'[q] # 0 => sidecar'[q] = Hash(version[q])
               /\ next'[q] = 0 /\ from[q] # None => sidecar'[q] = sidecar'[from[q]]
    <3>1. q \in Runs
      BY LiveRuns
    <3>2. CASE q # r
      BY <1>5, <1>10, <3>1, <3>2 DEF RecoveryInv, Working
    <3>3. CASE q = r
      <4>1. \A d \in Call : attempt[r][d] # "none" => d <= next[r]
        BY <1>1 DEF RecoveryInv, Working
      <4>2. \A d \in Call : d <= next[r] => d <= c
        BY <1>6, RunNumbers
      <4> QED BY <1>6, <1>10, <3>3, <4>1, <4>2
    <3> QED BY <3>2, <3>3
  <2> QED BY <1>3, <1>4, <2>1 DEF RecoveryInv, Working
<1>14. c # 1 \/ ReusesSparsely(r) => sidecar[r] = Hash(version[r])
  <2>1. CASE next[r] # 0
    BY <1>1, <2>1 DEF RecoveryInv, Working
  <2>2. CASE next[r] = 0 /\ ReusesSparsely(r)
    BY <1>1, <2>2 DEF RecoveryInv, Working, ReusesSparsely
  <2> QED BY <1>6, <2>1, <2>2
<1>15. Journals'
  <2>1. \A d \in Call : kept[d].state # "absent" => Hash(kept[d].by) = Hash(version[r])
    <3>1. \A d \in Call : Blank[d].state = "absent"
      BY DEF Blank, Entry
    <3>2. kept = Blank \/ (kept = journal[r] /\ sidecar[r] = Hash(version[r]))
      BY <1>6, <1>8, <1>14 DEF kept, Retained
    <3> QED BY <3>1, <3>2 DEF RecoveryInv, Journals
  <2>2. \A q \in Runs, d \in Call : journal'[q][d].state # "absent" => Hash(journal'[q][d].by) = sidecar'[q]
    BY <1>9, <1>10, <2>1 DEF RecoveryInv, Journals
  <2>3. \A q \in Runs : status[q] = "queued"
            => journal'[q] = IF from[q] = None THEN Blank ELSE journal'[from[q]]
    BY <1>1, <1>5, <1>10 DEF RecoveryInv, Journals
  <2>4. \A q \in Runs, d \in Call : Carries(q, d)' <=> Carries(q, d)
    BY <1>4, <1>5, <1>10 DEF Carries
  <2>5. ASSUME NEW d \in Call, Carries(r, d) PROVE journal'[r][d] = journal[from[r]][d]
    <3>1. from[r] # None /\ from[r] \in Runs /\ sparse[r] /\ journal[from[r]][d].by = version[r]
          /\ journal[from[r]][d].state # "absent"
      BY <1>5, <2>5 DEF Carries
    <3>2. ReusesSparsely(r)
      BY <3>1 DEF ReusesSparsely, RecoveryInv, Journals
    <3>3. kept = journal[r] /\ journal[r][d] = journal[from[r]][d]
      BY <1>8, <2>5, <3>2 DEF RecoveryInv, Journals
    <3>4. d = c => e = journal[from[r]][d]
      <4> SUFFICES ASSUME d = c PROVE e = journal[from[r]][d]
        OBVIOUS
      <4>1. Inherited(r, c) = journal[from[r]][d]
        BY <3>1 DEF Inherited
      <4>2. Reuses(r, c)
        BY <2>5, <3>2, <4>1 DEF Reuses, Carries
      <4>3. journal[from[r]][d] \in [state : {"absent", "started", "value", "gap"}, by : Versions]
        BY <3>1 DEF RecoveryInv, RecoveryTypeOK
      <4> QED BY <1>9, <3>1, <4>1, <4>2, <4>3
    <3> QED BY <1>10, <3>3, <3>4
  <2>6. \A q \in Runs, d \in Call :
            Carries(q, d) => journal'[q][d] = journal'[from[q]][d] /\ attempt[q][d] = "none"
    <3> TAKE q \in Runs, d \in Call
    <3> HAVE Carries(q, d)
    <3>1. from[q] # None /\ from[q] \in Runs /\ from[q] # r
      BY <1>5 DEF Carries
    <3>2. journal[q][d] = journal[from[q]][d] /\ attempt[q][d] = "none"
      BY DEF RecoveryInv, Journals
    <3> QED BY <1>10, <2>5, <3>1, <3>2
  <2> QED BY <1>4, <2>2, <2>3, <2>4, <2>6 DEF Journals
<1>16. Ambiguities'
  <2> SUFFICES ASSUME NEW a \in ambiguous, NEW q \in Unfinished, origin[q] = a[1]
               PROVE  a[2] \in Unsafe /\ attempt[q][a[2]] = "running" /\ journal'[q][a[2]].state = "started"
    BY <1>3, <1>4 DEF RecoveryInv, Ambiguities
  <2>1. /\ a[2] \in Unsafe /\ attempt[q][a[2]] = "running" /\ journal[q][a[2]].state = "started"
        /\ a[2] \in Call /\ q \in Runs
    BY <1>5 DEF RecoveryInv, Ambiguities, RecoveryTypeOK
  <2>2. CASE q # r
    BY <1>10, <2>1, <2>2
  <2>3. CASE q = r
    <3>1. a[2] <= next[r]
      BY <1>1, <2>1, <2>3 DEF RecoveryInv, Working
    <3>2. a[2] # c /\ c # 1
      <4>1. a[2] \in Nat /\ a[2] >= 1
        BY <2>1, RunNumbers DEF Call
      <4> QED BY <1>6, <3>1, <4>1
    <3>3. kept = journal[r]
      BY <1>8, <3>2
    <3> QED BY <1>10, <2>1, <2>3, <3>2, <3>3
  <2> QED BY <2>2, <2>3
<1> QED BY <1>3, <1>11, <1>12, <1>13, <1>15, <1>16 DEF RecoveryInv

-------------------------------------------------------------------------------
(* Steps that create a run.                                                 *)

\* A new run, and what it takes from its predecessor; no other run changes.
Adds(f, k, pred, auto, edit) ==
  /\ f \notin Created /\ status[f] = "absent"
  /\ status'[f] = "queued" /\ from'[f] = pred /\ key'[f] = k
  /\ automatic'[f] = auto
  /\ origin'[f] = IF pred = None THEN f ELSE origin[pred]
  /\ version'[f] =
       IF pred = None THEN "original" ELSE IF edit = "original" THEN version[pred] ELSE edit
  /\ sparse'[f] = (pred # None /\ edit = "original")
  /\ journal'[f] = IF pred = None THEN Blank ELSE journal[pred]
  /\ sidecar'[f] = IF pred = None THEN "original" ELSE sidecar[pred]
  /\ \A q \in Runs : q # f =>
       /\ status'[q] = status[q] /\ from'[q] = from[q] /\ origin'[q] = origin[q] /\ key'[q] = key[q]
       /\ automatic'[q] = automatic[q] /\ version'[q] = version[q] /\ sparse'[q] = sparse[q]
       /\ journal'[q] = journal[q] /\ sidecar'[q] = sidecar[q]
  /\ Created' = Created \cup {f} /\ Unfinished' = Unfinished \cup {f}

LEMMA Creation ==
  ASSUME RecoveryInv, NEW f \in Runs, f = FreshRun, NEW k, NEW pred \in Runs \cup {None},
         NEW auto, NEW edit, Create(k, pred, auto, edit)
  PROVE  Adds(f, k, pred, auto, edit)
<1>1. RecoveryTypeOK /\ f \notin Created /\ status[f] = "absent"
  BY NextNumber DEF RecoveryInv, Created
<1>2. /\ status' = [status EXCEPT ![f] = "queued"] /\ from' = [from EXCEPT ![f] = pred]
      /\ origin' = [origin EXCEPT ![f] = IF pred = None THEN f ELSE origin[pred]]
      /\ key' = [key EXCEPT ![f] = k] /\ automatic' = [automatic EXCEPT ![f] = auto]
      /\ version' = [version EXCEPT ![f] =
           IF pred = None THEN "original" ELSE IF edit = "original" THEN version[pred] ELSE edit]
      /\ sparse' = [sparse EXCEPT ![f] = pred # None /\ edit = "original"]
      /\ journal' = [journal EXCEPT ![f] = IF pred = None THEN Blank ELSE journal[pred]]
      /\ sidecar' = [sidecar EXCEPT ![f] = IF pred = None THEN "original" ELSE sidecar[pred]]
  BY DEF Create
<1>3. \A q \in Runs : q # f =>
        /\ status'[q] = status[q] /\ from'[q] = from[q] /\ origin'[q] = origin[q] /\ key'[q] = key[q]
        /\ automatic'[q] = automatic[q] /\ version'[q] = version[q] /\ sparse'[q] = sparse[q]
        /\ journal'[q] = journal[q] /\ sidecar'[q] = sidecar[q]
  BY <1>1, <1>2 DEF RecoveryTypeOK
<1>4. status'[f] = "queued"
  BY <1>1, <1>2 DEF RecoveryTypeOK
<1>5. Created' = Created \cup {f} /\ Unfinished' = Unfinished \cup {f}
  <2>1. \A q \in Runs : q \in Created' <=> q \in Created \/ q = f
    BY <1>3, <1>4 DEF Created
  <2>2. "queued" \notin Terminal
    BY DEF Terminal
  <2>3. \A q \in Runs : q \in Unfinished' <=> q \in Unfinished \/ q = f
    BY <1>1, <1>3, <1>4, <2>1, <2>2 DEF Unfinished
  <2> QED BY <2>1, <2>3 DEF Created, Unfinished
<1>6. /\ from'[f] = pred /\ key'[f] = k /\ automatic'[f] = auto
      /\ origin'[f] = (IF pred = None THEN f ELSE origin[pred])
      /\ version'[f] = (IF pred = None THEN "original" ELSE IF edit = "original" THEN version[pred] ELSE edit)
      /\ sparse'[f] = (pred # None /\ edit = "original")
  BY <1>1, <1>2 DEF RecoveryTypeOK
<1>7. /\ journal'[f] = (IF pred = None THEN Blank ELSE journal[pred])
      /\ sidecar'[f] = (IF pred = None THEN "original" ELSE sidecar[pred])
  BY <1>1, <1>2 DEF RecoveryTypeOK
<1> QED BY <1>1, <1>3, <1>4, <1>5, <1>6, <1>7 DEF Adds

\* What a run may be created from.
MayFollow(pred) ==
  pred # None => pred \in Created /\ status[pred] \in Terminal /\ ActiveIn(origin[pred], pred) = {}

LEMMA CreateKeeps ==
  ASSUME RecoveryInv, FreshRun \in Runs, NEW k, NEW pred \in Runs \cup {None}, NEW auto \in BOOLEAN,
         NEW edit \in Versions, Create(k, pred, auto, edit), MayFollow(pred),
         attempt' = attempt, next' = next, service' = service
  PROVE  Numbered' /\ Lineages' /\ Working' /\ Journals' /\ Ambiguities'
<1>1. PICK f \in Runs : f = FreshRun
  OBVIOUS
<1>a. Adds(f, k, pred, auto, edit)
  BY <1>1, Creation
<1>2. /\ f \notin Created /\ status[f] = "absent" /\ status'[f] = "queued" /\ from'[f] = pred
      /\ automatic'[f] = auto
      /\ origin'[f] = IF pred = None THEN f ELSE origin[pred]
      /\ version'[f] = IF pred = None THEN "original" ELSE IF edit = "original" THEN version[pred] ELSE edit
      /\ sparse'[f] = (pred # None /\ edit = "original")
      /\ journal'[f] = IF pred = None THEN Blank ELSE journal[pred]
      /\ sidecar'[f] = IF pred = None THEN "original" ELSE sidecar[pred]
  BY <1>a DEF Adds
<1>3. /\ \A q \in Runs : q # f =>
           /\ status'[q] = status[q] /\ from'[q] = from[q] /\ origin'[q] = origin[q] /\ key'[q] = key[q]
           /\ automatic'[q] = automatic[q] /\ version'[q] = version[q] /\ sparse'[q] = sparse[q]
           /\ journal'[q] = journal[q] /\ sidecar'[q] = sidecar[q]
      /\ Created' = Created \cup {f} /\ Unfinished' = Unfinished \cup {f}
  BY <1>a DEF Adds
<1>4. /\ from[f] = None /\ next[f] = 0 /\ \A c \in Call : attempt[f][c] = "none"
  BY <1>2 DEF RecoveryInv, Numbered
<1>5. /\ \A q \in Runs : from[q] # None => from[q] \in Runs /\ from[q] # f /\ q # f
      /\ pred # None => pred \in Runs /\ pred # f
      /\ Created \subseteq Runs /\ Unfinished \subseteq Created
  BY <1>2, <1>4, RunNumbers DEF RecoveryInv, Lineages, Created, MayFollow, Unfinished, Terminal
<1>6. Numbered'
  <2>1. FreshRun \in Nat \ {0} /\ Created = 1..(FreshRun - 1)
    BY NextNumber DEF RecoveryInv
  <2>2. Created' = 1..f /\ f \in 0..MaxRuns
    BY <1>1, <1>3, <2>1, RunNumbers
  <2>3. ASSUME NEW r \in Runs, status'[r] = "absent"
        PROVE  from'[r] = None /\ key'[r] = NoKey /\ next'[r] = 0 /\ \A c \in Call : attempt'[r][c] = "none"
    BY <1>2, <1>3, <2>3 DEF RecoveryInv, Numbered
  <2> QED BY <2>2, <2>3 DEF Numbered
<1>7. Lineages'
  <2>1. \A r \in Created' : origin'[r] \in Created'
    <3> TAKE r \in Created'
    <3>1. CASE r = f
      BY <1>2, <1>3, <3>1 DEF RecoveryInv, Lineages, MayFollow
    <3>2. CASE r # f
      BY <1>3, <1>5, <3>2 DEF RecoveryInv, Lineages
    <3> QED BY <3>1, <3>2
  <2>2. ASSUME NEW r \in Runs, from'[r] # None
        PROVE  /\ from'[r] \in Runs /\ status'[from'[r]] \in Terminal /\ r \in Created'
               /\ sparse'[r] => version'[r] = version'[from'[r]]
    <3>1. CASE r = f
      BY <1>2, <1>3, <1>5, <2>2, <3>1 DEF MayFollow
    <3>2. CASE r # f
      BY <1>3, <1>5, <2>2, <3>2 DEF RecoveryInv, Lineages
    <3> QED BY <3>1, <3>2
  <2>3. ASSUME NEW q \in Unfinished, origin[q] = origin'[f] PROVE FALSE
    <3>1. origin[q] \in Created /\ q \in Runs
      BY <1>5 DEF RecoveryInv, Lineages
    <3>2. pred # None /\ origin[q] = origin[pred]
      BY <1>2, <2>3, <3>1
    <3>3. q # pred
      BY <3>2 DEF MayFollow, Unfinished
    <3> QED BY <3>2, <3>3 DEF MayFollow, ActiveIn
  <2>4. ASSUME NEW q \in Unfinished', NEW r \in Unfinished', origin'[q] = origin'[r] PROVE q = r
    <3>1. q \in Unfinished /\ r \in Unfinished => q = r
      BY <1>2, <1>3, <1>5, <2>4 DEF RecoveryInv, Lineages
    <3>2. \A s \in Unfinished : origin'[s] = origin[s]
      BY <1>2, <1>3, <1>5
    <3> QED BY <1>3, <2>3, <2>4, <3>1, <3>2
  <2> QED BY <2>1, <2>2, <2>4 DEF Lineages
<1>8. Working'
  <2>1. \A r \in Runs : status'[r] = "queued" => \A c \in Call : attempt'[r][c] = "none"
    BY <1>3, <1>4 DEF RecoveryInv, Working
  <2>2. Live' \subseteq Live \cup {f}
    BY <1>3 DEF Live
  <2>3. ASSUME NEW r \in Live'
        PROVE  /\ \A c \in Call : attempt'[r][c] # "none" => c <= next'[r]
               /\ next'[r] # 0 => sidecar'[r] = Hash(version'[r])
               /\ next'[r] = 0 /\ from'[r] # None => sidecar'[r] = sidecar'[from'[r]]
    <3>1. CASE r = f
      BY <1>2, <1>3, <1>4, <1>5, <3>1
    <3>2. CASE r # f
      <4>1. r \in Live /\ r \in Runs
        BY <2>2, <3>2, LiveRuns
      <4> QED BY <1>3, <1>5, <3>2, <4>1 DEF RecoveryInv, Working
    <3> QED BY <3>1, <3>2
  <2> QED BY <2>1, <2>3 DEF Working
<1>9. Journals'
  <2>1. ASSUME NEW r \in Runs, NEW c \in Call, journal'[r][c].state # "absent"
        PROVE  Hash(journal'[r][c].by) = sidecar'[r]
    <3>1. CASE r = f
      <4>1. pred # None
        BY <1>2, <2>1, <3>1 DEF Blank, Entry
      <4> QED BY <1>2, <1>5, <2>1, <3>1, <4>1 DEF RecoveryInv, Journals
    <3>2. CASE r # f
      BY <1>3, <2>1, <3>2 DEF RecoveryInv, Journals
    <3> QED BY <3>1, <3>2
  <2>2. ASSUME NEW r \in Runs, status'[r] = "queued"
        PROVE  journal'[r] = IF from'[r] = None THEN Blank ELSE journal'[from'[r]]
    <3>1. CASE r = f
      BY <1>2, <1>3, <1>5, <3>1
    <3>2. CASE r # f
      BY <1>3, <1>5, <2>2, <3>2 DEF RecoveryInv, Journals
    <3> QED BY <3>1, <3>2
  <2>3. ASSUME NEW r \in Runs, NEW c \in Call, Carries(r, c)'
        PROVE  journal'[r][c] = journal'[from'[r]][c] /\ attempt'[r][c] = "none"
    <3>1. CASE r = f
      BY <1>2, <1>3, <1>4, <1>5, <2>3, <3>1 DEF Carries
    <3>2. CASE r # f
      <4>1. Carries(r, c)
        BY <1>3, <1>5, <2>3, <3>2 DEF Carries
      <4> QED BY <1>3, <1>5, <3>2, <4>1 DEF RecoveryInv, Journals, Carries
    <3> QED BY <3>1, <3>2
  <2> QED BY <2>1, <2>2, <2>3 DEF Journals
<1>10. Ambiguities'
  <2> SUFFICES ASSUME NEW a \in ambiguous'
               PROVE  /\ a[1] \in Created'
                      /\ \A r \in Unfinished' : origin'[r] = a[1] =>
                           a[2] \in Unsafe /\ attempt[r][a[2]] = "running"
                           /\ journal'[r][a[2]].state = "started"
    BY DEF Ambiguities
  <2>1. a \in ambiguous /\ (pred # None => a[1] # origin[pred]) /\ a[1] \in Created
    BY DEF Create, RecoveryInv, Ambiguities
  <2>2. ASSUME NEW r \in Unfinished', origin'[r] = a[1]
        PROVE  a[2] \in Unsafe /\ attempt[r][a[2]] = "running" /\ journal'[r][a[2]].state = "started"
    <3>1. r # f
      BY <1>2, <2>1, <2>2
    <3>2. r \in Unfinished /\ r \in Runs /\ origin[r] = a[1] /\ journal'[r] = journal[r]
      BY <1>3, <1>5, <2>2, <3>1
    <3> QED BY <2>1, <3>2 DEF RecoveryInv, Ambiguities
  <2> QED BY <1>3, <2>1, <2>2
<1> QED BY <1>6, <1>7, <1>8, <1>9, <1>10

LEMMA CreateTypes ==
  ASSUME RecoveryInv, FreshRun \in Runs, NEW k \in Keys \cup {NoKey}, NEW pred \in Runs \cup {None},
         NEW auto \in BOOLEAN, NEW edit \in Versions, Create(k, pred, auto, edit),
         op' \in [Clients -> [kind : {"idle", "start", "resume"}, key : Keys \cup {NoKey}, run : 0..MaxRuns,
                              edit : Versions]],
         recover' \subseteq recover,
         UNCHANGED <<attempt, service, boots, policy, todo, continued, next, zombie, excused>>
  PROVE  RecoveryTypeOK'
<1> USE RunNumbers
<1>1. RecoveryTypeOK
  BY DEF RecoveryInv
<1>2. status' \in [Runs -> Terminal \cup {"absent", "queued", "running", "cancelling"}]
  BY <1>1 DEF Create, RecoveryTypeOK
<1>3. cursor' \in [Runs -> 0..2] /\ from' \in [Runs -> 0..MaxRuns] /\ origin' \in [Runs -> 0..MaxRuns]
  <2>1. pred \in 0..MaxRuns /\ FreshRun \in 0..MaxRuns /\ 0 \in 0..2
    OBVIOUS
  <2>2. (IF pred = None THEN FreshRun ELSE origin[pred]) \in 0..MaxRuns
    BY <1>1, <2>1 DEF RecoveryTypeOK
  <2> QED BY <1>1, <2>1, <2>2 DEF Create, RecoveryTypeOK
<1>4. key' \in [Runs -> Keys \cup {NoKey}] /\ automatic' \in [Runs -> BOOLEAN]
  BY <1>1 DEF Create, RecoveryTypeOK
<1>5. version' \in [Runs -> Versions] /\ sidecar' \in [Runs -> Versions]
  BY <1>1 DEF Create, RecoveryTypeOK, Versions
<1>6. sparse' \in [Runs -> BOOLEAN]
  BY <1>1 DEF Create, RecoveryTypeOK
<1>7. journal' \in [Runs -> [Call -> [state : {"absent", "started", "value", "gap"}, by : Versions]]]
  <2>1. Blank \in [Call -> [state : {"absent", "started", "value", "gap"}, by : Versions]]
    BY DEF Blank, Entry, Versions
  <2> QED BY <1>1, <2>1 DEF Create, RecoveryTypeOK
<1>8. ambiguous' \subseteq Runs \X Call /\ recover' \subseteq Runs
  BY <1>1 DEF Create, RecoveryTypeOK
<1> QED BY <1>1, <1>2, <1>3, <1>4, <1>5, <1>6, <1>7, <1>8 DEF RecoveryTypeOK

\* A request in flight, or startup, creates a run.
LEMMA CreatesKeep ==
  ASSUME RecoveryInv, FreshRun \in Runs, NEW k \in Keys \cup {NoKey}, NEW pred \in Runs \cup {None},
         NEW auto \in BOOLEAN, NEW edit \in Versions, Create(k, pred, auto, edit), MayFollow(pred),
         op' \in [Clients -> [kind : {"idle", "start", "resume"}, key : Keys \cup {NoKey}, run : 0..MaxRuns,
                              edit : Versions]],
         \A cl \in Clients : op'[cl] \in {op[cl], Idle},
         k # NoKey => (\A r \in Created : key[r] # k) /\ \A cl \in Clients : op'[cl].key # k,
         service # "scanning", recover' \subseteq recover,
         UNCHANGED <<attempt, service, boots, policy, todo, continued, next, zombie, excused>>
  PROVE  RecoveryInv'
<1>1. RecoveryTypeOK'
  BY CreateTypes
<1>2. Numbered' /\ Lineages' /\ Working' /\ Journals' /\ Ambiguities'
  BY CreateKeeps
<1>3. PICK f \in Runs : f = FreshRun
  OBVIOUS
<1>4. /\ f \notin Created /\ key'[f] = k /\ Created' = Created \cup {f}
      /\ \A q \in Runs : q # f => status'[q] = status[q] /\ key'[q] = key[q]
  <2>1. Adds(f, k, pred, auto, edit)
    BY <1>3, Creation
  <2> QED
    BY <2>1 DEF Adds
<1>5. Created \subseteq Runs
  BY DEF Created
<1>6. Startups'
  BY <1>4, <1>5 DEF RecoveryInv, Startups
<1>7. RequestsHeld'
  <2>1. ASSUME NEW cl \in Clients
        PROVE  /\ op'[cl].kind # "idle" => service' = "ready"
               /\ op'[cl].kind = "resume" => op'[cl].run \in Created' /\ status'[op'[cl].run] \in Terminal
               /\ op'[cl].key # NoKey =>
                    /\ \A r \in Created' : key'[r] # op'[cl].key
                    /\ \A other \in Clients : op'[other].key = op'[cl].key => other = cl
    <3>1. CASE op'[cl] = Idle
      BY <3>1 DEF Idle
    <3>2. CASE op'[cl] = op[cl]
      <4>1. /\ op'[cl].kind # "idle" => service' = "ready"
            /\ op'[cl].kind = "resume" => op'[cl].run \in Created' /\ status'[op'[cl].run] \in Terminal
        BY <1>4, <1>5, <3>2 DEF RecoveryInv, RequestsHeld
      <4>2. op'[cl].key # NoKey => op'[cl].key # k
        OBVIOUS
      <4>3. op'[cl].key # NoKey => \A r \in Created' : key'[r] # op'[cl].key
        BY <1>4, <1>5, <3>2, <4>2 DEF RecoveryInv, RequestsHeld
      <4>4. ASSUME op'[cl].key # NoKey, NEW other \in Clients, op'[other].key = op'[cl].key PROVE other = cl
        <5>1. op'[other] # Idle
          BY <4>4 DEF Idle
        <5> QED BY <3>2, <4>4, <5>1 DEF RecoveryInv, RequestsHeld
      <4> QED BY <4>1, <4>3, <4>4
    <3> QED BY <3>1, <3>2
  <2>2. ASSUME NEW q \in Created', NEW r \in Created', key'[q] = key'[r], key'[q] # NoKey PROVE q = r
    <3>1. q \in Created /\ r \in Created => q = r
      BY <1>4, <1>5, <2>2 DEF RecoveryInv, RequestsHeld
    <3>2. \A s \in Created : key'[s] = key[s]
      BY <1>4, <1>5
    <3> QED BY <1>4, <2>2, <3>1, <3>2
  <2> QED BY <2>1, <2>2 DEF RequestsHeld
<1> QED BY <1>1, <1>2, <1>6, <1>7 DEF RecoveryInv

LEMMA ResumeOneKeeps == RecoveryInv /\ ResumeOne => RecoveryInv'
<1> SUFFICES ASSUME RecoveryInv, ResumeOne PROVE RecoveryInv'
  OBVIOUS
<1>1. PICK r : r = Min(recover)
  OBVIOUS
<1>2. r \in recover
  <2>1. recover \in SUBSET Nat /\ recover # {}
    BY RunNumbers DEF ResumeOne, RecoveryInv, RecoveryTypeOK
  <2> QED BY <1>1, <2>1, MinIsMember
<1>3. r \in Created /\ status[r] \in Terminal /\ r \in Runs /\ r # None
  BY <1>2, RunNumbers DEF RecoveryInv, Startups, RecoveryTypeOK
<1>4. /\ service = "resuming" /\ recover' = recover \ {r} /\ op' = op
      /\ UNCHANGED <<attempt, service, boots, policy, todo, continued, next, zombie, excused>>
      /\ CreateSuccessor(NoKey, r, TRUE, "original") \/ Attach(r)
  BY <1>1 DEF ResumeOne, runVars
<1>5. op \in [Clients -> [kind : {"idle", "start", "resume"}, key : Keys \cup {NoKey}, run : 0..MaxRuns,
                         edit : Versions]]
  BY DEF RecoveryInv, RecoveryTypeOK
<1>6. CASE CreateSuccessor(NoKey, r, TRUE, "original")
  <2>1. FreshRun \in Runs /\ Create(NoKey, r, TRUE, "original") /\ MayFollow(r)
    BY <1>3, <1>6 DEF CreateSuccessor, MayFollow
  <2>2. "original" \in Versions /\ TRUE \in BOOLEAN
    BY DEF Versions
  <2> QED BY <1>3, <1>4, <1>5, <2>1, <2>2, CreatesKeep
<1>7. CASE Attach(r)
  <2>1. Within
    BY <1>4, <1>7 DEF Attach, Within, Still
  <2>2. RecoveryTypeOK'
    BY <1>4, <1>7 DEF Attach, RecoveryInv, RecoveryTypeOK, manifestVars, journalVars
  <2>3. Calm /\ Startups'
    BY <2>1, WithinKeeps
  <2>4. RequestsHeld'
    BY <1>4, <2>2, <2>3, RequestsKept DEF RecoveryTypeOK
  <2> QED BY <2>2, <2>3, <2>4, CalmStep
<1> QED BY <1>4, <1>6, <1>7

\* The request that is answered is no longer in flight.
LEMMA Answered ==
  ASSUME RecoveryInv, NEW cl \in Clients, op' = [op EXCEPT ![cl] = Idle]
  PROVE  /\ op' \in [Clients -> [kind : {"idle", "start", "resume"}, key : Keys \cup {NoKey},
            run : 0..MaxRuns,
                                 edit : Versions]]
         /\ \A d \in Clients : op'[d] \in {op[d], Idle}
         /\ op[cl].key # NoKey => /\ \A r \in Created : key[r] # op[cl].key
                                  /\ \A d \in Clients : op'[d].key # op[cl].key
<1>1. Idle \in [kind : {"idle", "start", "resume"}, key : Keys \cup {NoKey},
                run : 0..MaxRuns, edit : Versions]
      /\ Idle.key = NoKey
  BY RunNumbers DEF Idle, Versions, None
<1>2. \A d \in Clients : op'[d] = IF d = cl THEN Idle ELSE op[d]
  BY DEF RecoveryInv, RecoveryTypeOK
<1>3. op' \in [Clients -> [kind : {"idle", "start", "resume"}, key : Keys \cup {NoKey}, run : 0..MaxRuns,
                          edit : Versions]]
  BY <1>1 DEF RecoveryInv, RecoveryTypeOK
<1> QED BY <1>1, <1>2, <1>3 DEF RecoveryInv, RequestsHeld

LEMMA StartCreatesKeeps ==
  ASSUME RecoveryInv, NEW cl \in Clients, StartCreates(cl)
  PROVE  RecoveryInv'
<1>1. /\ op[cl].kind # "idle" /\ FreshRun \in Runs /\ Create(op[cl].key, None, FALSE, "original")
      /\ op' = [op EXCEPT ![cl] = Idle]
      /\ UNCHANGED <<attempt, service, boots, policy, todo, continued, recover, next, zombie, excused>>
  BY DEF StartCreates, bootVars, runVars
<1>2. PICK k \in Keys \cup {NoKey} : k = op[cl].key
  BY DEF RecoveryInv, RecoveryTypeOK
<1>3. service = "ready" /\ MayFollow(None)
  BY <1>1 DEF RecoveryInv, RequestsHeld, MayFollow
<1>4. "original" \in Versions /\ FALSE \in BOOLEAN /\ None \in Runs \cup {None}
  BY DEF Versions
<1> QED BY <1>1, <1>2, <1>3, <1>4, Answered, CreatesKeep

LEMMA ResumeCreatesKeeps ==
  ASSUME RecoveryInv, NEW cl \in Clients, ResumeCreates(cl)
  PROVE  RecoveryInv'
<1>1. /\ op[cl].kind = "resume" /\ op' = [op EXCEPT ![cl] = Idle]
      /\ UNCHANGED <<attempt, service, boots, policy, todo, continued, recover, next, zombie, excused>>
      /\ CreateSuccessor(op[cl].key, op[cl].run, FALSE, op[cl].edit) \/ Attach(op[cl].run)
  BY DEF ResumeCreates, bootVars, runVars
<1>2. PICK o : o = op[cl]
  OBVIOUS
<1>3. o.key \in Keys \cup {NoKey} /\ o.edit \in Versions /\ FALSE \in BOOLEAN
  BY <1>2 DEF RecoveryInv, RecoveryTypeOK
<1>4. service = "ready" /\ o.run \in Created /\ status[o.run] \in Terminal /\ o.run \in Runs
  BY <1>1, <1>2 DEF RecoveryInv, RequestsHeld, Created
<1>5. CASE CreateSuccessor(op[cl].key, op[cl].run, FALSE, op[cl].edit)
  <2>1. FreshRun \in Runs /\ Create(o.key, o.run, FALSE, o.edit) /\ MayFollow(o.run)
    BY <1>2, <1>4, <1>5 DEF CreateSuccessor, MayFollow
  <2> QED BY <1>1, <1>2, <1>3, <1>4, <2>1, Answered, CreatesKeep
<1>6. CASE Attach(op[cl].run)
  <2>1. Within
    BY <1>1, <1>6 DEF Attach, Within, Still
  <2>2. RecoveryTypeOK'
    BY <1>1, <1>6, Answered DEF Attach, RecoveryInv, RecoveryTypeOK, manifestVars, journalVars
  <2>3. Calm /\ Startups'
    BY <2>1, WithinKeeps
  <2>4. RequestsHeld'
    BY <1>1, <2>3, Answered, RequestsKept
  <2> QED BY <2>2, <2>3, <2>4, CalmStep
<1> QED BY <1>1, <1>5, <1>6

-------------------------------------------------------------------------------
(* What recovery promises.                                                  *)

LEMMA RecoveryBegins == RecoveryInit => RecoveryInv
<1> SUFFICES ASSUME RecoveryInit PROVE RecoveryInv
  OBVIOUS
<1> USE DEF RecoveryInit
<1>1. Created = {} /\ Unfinished = {} /\ Live = {}
  BY DEF Created, Unfinished, Live
<1>2. Blank \in [Call -> [state : {"absent", "started", "value", "gap"}, by : Versions]]
      /\ \A c \in Call : Blank[c].state = "absent"
  BY DEF Blank, Entry, Versions
<1>3. Idle \in [kind : {"idle", "start", "resume"}, key : Keys \cup {NoKey},
                run : 0..MaxRuns, edit : Versions]
      /\ Idle.kind = "idle" /\ Idle.key = NoKey
  BY RunNumbers DEF Idle, Versions, None
<1>4. 0 \in 0..MaxRuns /\ 0 \in 0..MaxBoots /\ 0 \in 0..Calls /\ 0 \in 0..2
  BY RunNumbers, RecoveryAssumption
<1>5. RecoveryTypeOK
  BY <1>2, <1>3, <1>4, RunNumbers DEF RecoveryTypeOK, Versions
<1>6. Numbered
  <2>1. {} = 1..0
    OBVIOUS
  <2> QED BY <1>1, <1>4, <2>1 DEF Numbered
<1>7. Lineages /\ Startups
  BY <1>1 DEF Lineages, Startups
<1>8. RequestsHeld
  BY <1>1, <1>3 DEF RequestsHeld
<1>9. Working
  BY <1>1 DEF Working
<1>10. Journals
  BY <1>2 DEF Journals, Carries
<1>11. Ambiguities
  BY DEF Ambiguities
<1> QED BY <1>5, <1>6, <1>7, <1>8, <1>9, <1>10, <1>11 DEF RecoveryInv

LEMMA StutterKeeps == RecoveryInv /\ UNCHANGED recoveryVars => RecoveryInv'
<1> SUFFICES ASSUME RecoveryInv, UNCHANGED recoveryVars PROVE RecoveryInv'
  OBVIOUS
<1>1. Within /\ op' = op
  BY DEF recoveryVars, Within, Still, runVars, histVars, bootVars
<1>2. RecoveryTypeOK'
  BY DEF recoveryVars, RecoveryInv, RecoveryTypeOK, manifestVars, journalVars, bootVars, runVars, histVars
<1>3. Calm /\ Startups'
  BY <1>1, WithinKeeps
<1>4. RequestsHeld'
  BY <1>1, <1>2, <1>3, RequestsKept DEF RecoveryTypeOK, Within
<1> QED BY <1>2, <1>3, <1>4, CalmStep

LEMMA RecoveryKeeps == RecoveryInv /\ [RecoveryNext]_recoveryVars => RecoveryInv'
<1> SUFFICES ASSUME RecoveryInv, [RecoveryNext]_recoveryVars PROVE RecoveryInv'
  OBVIOUS
<1>1. CASE Startup
  BY <1>1, BootKeeps, ScanKeeps, ScanEndsKeeps, ResumeOneKeeps, ReadyKeeps DEF Startup
<1>2. CASE Asks
  BY <1>2, AskStartKeeps, AskResumeKeeps DEF Asks
<1>3. CASE Crash \/ Stop \/ ZombieExits
  BY <1>3, CrashKeeps, StopKeeps, ZombieKeeps
<1>4. ASSUME NEW cl \in Clients, Answers(cl) PROVE RecoveryInv'
  BY <1>4, StartCreatesKeeps, ResumeCreatesKeeps DEF Answers
<1>5. ASSUME NEW r \in Runs, Runtime(r) PROVE RecoveryInv'
  BY <1>5, RunStartsKeeps, AdmitKeeps, CompletesKeeps, CancelledKeeps, DispatchKeeps, RecordKeeps,
    ReportKeeps DEF Runtime
<1>6. ASSUME NEW r \in Runs, CancelRequested(r) PROVE RecoveryInv'
  BY <1>6, CancelRequestedKeeps
<1> QED BY <1>1, <1>2, <1>3, <1>4, <1>5, <1>6, StutterKeeps DEF RecoveryNext

\* The invariant holds in every reachable state, for any number of runs, calls, clients,
\* requests, restarts and cancellations.
THEOREM RecoveryInvariance == RecoverySpec => []RecoveryInv
BY RecoveryBegins, RecoveryKeeps, PTL DEF RecoverySpec

LEMMA AtMostOne ==
  ASSUME NEW S, \A x, y \in S : x = y
  PROVE  Cardinality(S) <= 1
<1>1. CASE S = {}
  BY <1>1, FS_EmptySet
<1>2. CASE S # {}
  <2>1. PICK x \in S : S = {x}
    BY <1>2
  <2>2. Cardinality({x}) = 1
    BY FS_Singleton
  <2> QED BY <2>1, <2>2
<1> QED BY <1>1, <1>2

\* What a generation of the same program recorded is carried from each to the next, and
\* the last takes it over: it does not make the call.
LEMMA CarriedFar ==
  ASSUME RecoveryInv, NEW r \in Runs, NEW p \in Runs, NEW c \in Call, NEW e, NEW link \in SUBSET Repeats,
         \A q \in link : journal[from[q]][c] = e /\ version[q] = version[r] => Carries(q, c),
         Behind(p, r, link), journal[p][c] = e
  PROVE  attempt[r][c] = "none"
<1> DEFINE Taken == r \in link /\ journal[from[r]][c] = e
           S == {q \in Runs : q = r \/ (version[q] = version[r] /\ (journal[q][c] = e => Taken))}
<1>1. ASSUME NEW q \in S \cap link PROVE from[q] \in S
  <2>1. /\ q \in Runs /\ q \in link /\ from[q] # None /\ sparse[q]
        /\ from[q] \in Runs /\ version[q] = version[from[q]] /\ version[q] = version[r]
    BY <1>1 DEF Repeats, RecoveryInv, Lineages
  <2>2. CASE q = r
    BY <2>1, <2>2
  <2>3. CASE q # r
    <3>1. journal[from[q]][c] = e => journal[q][c] = e
      BY <2>1 DEF RecoveryInv, Journals
    <3> QED BY <1>1, <2>1, <2>3, <3>1
  <2> QED BY <2>2, <2>3
<1>2. p \in S /\ p # r
  <2>1. S \in SUBSET Runs /\ r \in S
    OBVIOUS
  <2> HIDE DEF S
  <2> QED BY <1>1, <2>1 DEF Behind
<1>3. Carries(r, c)
  BY <1>2
<1> QED BY <1>3 DEF RecoveryInv, Journals

\* No request makes a second run of its key, nothing makes a second unfinished run of a
\* lineage, and no result that an earlier generation recorded is computed again.
THEOREM RecoveryNothingTwice == RecoverySpec => []NothingTwice
<1>1. RecoveryInv => NothingTwice
  <2> SUFFICES ASSUME RecoveryInv PROVE NothingTwice
    OBVIOUS
  <2>1. OneRunPerKey
    <3> SUFFICES ASSUME NEW k \in Keys PROVE Cardinality(ByKey(k)) <= 1
      BY DEF OneRunPerKey
    <3>1. \A q, r \in ByKey(k) : q = r
      BY DEF ByKey, RecoveryInv, RequestsHeld
    <3> QED BY <3>1, AtMostOne
  <2>2. OneLivePerLineage
    <3> SUFFICES ASSUME NEW r \in Created PROVE Cardinality(ActiveIn(origin[r], None)) <= 1
      BY DEF OneLivePerLineage
    <3>1. \A p, q \in ActiveIn(origin[r], None) : p = q
      BY DEF ActiveIn, RecoveryInv, Lineages
    <3> QED BY <3>1, AtMostOne
  <2>3. ResultsKept
    <3> SUFFICES ASSUME NEW r \in Runs, NEW p \in Runs, NEW c \in Call, attempt[r][c] # "none"
                 PROVE  /\ journal[p][c] = Entry("value", version[r]) => ~Behind(p, r, Repeats)
                        /\ journal[p][c] = Entry("gap", version[r]) => ~Behind(p, r, Recovers)
      BY DEF ResultsKept
    <3>1. \A q \in Repeats : journal[from[q]][c] = Entry("value", version[r]) /\ version[q] = version[r]
                               => Carries(q, c)
      BY DEF Repeats, Carries, Entry
    <3>2. \A q \in Recovers : journal[from[q]][c] = Entry("gap", version[r]) /\ version[q] = version[r]
                               => Carries(q, c)
      BY DEF Recovers, Repeats, Carries, Entry
    <3>3. Recovers \in SUBSET Repeats
      BY DEF Recovers
    <3> QED BY <3>1, <3>2, <3>3, CarriedFar
  <2> QED BY <2>1, <2>2, <2>3 DEF NothingTwice, RecoveryInv
<1> QED BY <1>1, RecoveryInvariance, PTL

\* A run that startup finds unfinished is not taken up for recovery while the outcome of
\* an unsafe call of its lineage is unknown.
THEOREM RecoveryHeldBack == RecoverySpec => UnsafeHeldBack
<1>1. RecoveryInv /\ [RecoveryNext]_recoveryVars =>
        [\A r \in recover' \ recover, c \in Call :
           status[r] \notin Terminal => <<origin[r], c>> \notin ambiguous]_recoveryVars
  <2> SUFFICES ASSUME RecoveryInv, RecoveryNext, NEW r \in recover' \ recover, NEW c \in Call,
                      status[r] \notin Terminal, <<origin[r], c>> \in ambiguous
               PROVE  FALSE
    OBVIOUS
  <2>1. Scan
    <3>1. CASE Startup
      BY <3>1 DEF Startup, Boot, ScanEnds, ResumeOne, Ready
    <3>2. CASE Asks
      BY <3>2 DEF Asks, AskStart, AskResume, bootVars
    <3>3. CASE Crash \/ Stop \/ ZombieExits
      BY <3>3 DEF Crash, Stop, ZombieExits, Gone, bootVars
    <3>4. ASSUME NEW cl \in Clients, Answers(cl) PROVE FALSE
      BY <3>4 DEF Answers, StartCreates, ResumeCreates, bootVars
    <3>5. ASSUME NEW q \in Runs, Runtime(q) \/ CancelRequested(q) PROVE FALSE
      BY <3>5 DEF Runtime, CancelRequested, RunStarts, Admit, Completes, Cancelled, Dispatch, Record,
        Report, bootVars
    <3> QED BY <3>1, <3>2, <3>3, <3>4, <3>5 DEF RecoveryNext
  <2>2. ScanUnfinished(r) /\ r = Min(todo) /\ todo # {}
    BY <2>1 DEF Scan, ScanFinished, ScanUnfinished
  <2>3. r \in Created /\ r \in Runs /\ r \in Unfinished
    BY <2>2, NextManifest DEF Unfinished
  <2>4. c \in Unsafe /\ attempt[r][c] = "running" /\ journal[r][c].state = "started"
    BY <2>3 DEF RecoveryInv, Ambiguities
  <2>5. status[r] # "queued"
    BY <2>3, <2>4 DEF RecoveryInv, Working
  <2>6. RecoverySafe(r)
    BY <2>2, <2>5 DEF ScanUnfinished
  <2> QED BY <2>4, <2>6 DEF RecoverySafe
<1> QED BY <1>1, RecoveryInvariance, PTL DEF RecoverySpec, UnsafeHeldBack
================================================================================
