----------------------------- MODULE ServiceProofs -----------------------------
(***************************************************************************)
(* Safety of the life of a service for any number of runs and mutations, and of *)
(* what its clients read (RunReaders) for any contents, pages and runs.       *)
(***************************************************************************)
EXTENDS ServiceLifecycle, RunReaders, FiniteSetTheorems, WellFoundedInduction, TLAPS

Before == {"acquiring", "opening", "listing", "deciding"}

\* Up to the recovery loop, and in the catch block, the service has admitted
\* nothing and owns no run; before the lease there is no gate and no release.
Starting ==
  /\ lifecycle = "NEW" => init = "none" /\ stop = "none" /\ lease = "none" /\ ~releasing
  /\ lifecycle = "NEW" \/ init \notin {"none", "recovering"} =>
       Admitted = {} /\ \A r \in Runs : run[r] = "none"
  /\ init # "none" => lifecycle \notin {"NEW", "READY"}
  /\ init = "acquiring" => lease = "none" /\ ~releasing /\ ~gate
  /\ gate => lease = "held" /\ ~releasing

\* A stop closes admission for good and passes its stages in order.
Stopping ==
  /\ stop # "none" => Closing
  /\ stop = "draining" => init = "none"
  /\ stop \in {"drained", "ending", "releasing"} \/ lifecycle = "STOPPED" =>
       init = "none" /\ Admitted = {}
  /\ stop \in {"ending", "releasing"} \/ lifecycle = "STOPPED" =>
       \A r \in Runs : run[r] # "live"
  /\ stop = "ending" => \A r \in awaited : endedBy[r] = stopMode

\* A created run belongs to the one call that created it, and only a run that
\* began has appends and tasks.
Owning ==
  /\ \A m \in Mutations : call[m] = "created" =>
       /\ subject[m] \in Runs /\ run[subject[m]] = "queued"
       /\ \A n \in Mutations : call[n] = "created" /\ subject[n] = subject[m] => n = m
  /\ asking \subseteq Active
  /\ \A r \in busy : run[r] \in {"live", "ending", "ended"}

\* A run that was told to end is waited for, unless it ends of itself.
EndsOwned ==
  \A r \in Runs : run[r] = "ending" =>
    \/ endedBy[r] = "itself"
    \/ endedBy[r] = "cancellation" /\ \E m \in Mutations : call[m] = "cancelling" /\ subject[m] = r
    \/ stop = "ending" /\ r \in awaited

\* Once the lease goes nothing is left that could begin a task.
GivenUp ==
  lease = "none" \/ releasing =>
    /\ ~gate
    /\ early \/ (busy = {} /\ \A r \in asking : run[r] # "live")

\* A closed gate under a held lease: a release began and may have failed.
Sealed ==
  lease = "held" /\ ~gate /\ ~early =>
    /\ Admitted = {} /\ init \in {"none", "releasing"} /\ lifecycle # "READY"
    /\ \A r \in Runs : run[r] # "live" /\ (run[r] = "ending" => endedBy[r] = "itself")

\* What the stop waited for is on record when it has ended.
Recording ==
  stop \in {"ending", "releasing"} /\ lease = "held" /\ ~early =>
    \A r \in awaited : (stop = "ending" /\ run[r] = "ending") \/ r \in recorded

IInv ==
  /\ TypeOK /\ Starting /\ Stopping /\ Owning /\ EndsOwned /\ GivenUp /\ Sealed
  /\ Recording /\ ExclusiveAlone

\* The counter of runs to recover stays in its type.
LEMMA TodoRange ==
  /\ \A S \in SUBSET Runs : 0..Cardinality(S) \subseteq 0..Cardinality(Runs)
  /\ todo \in 0..Cardinality(Runs) /\ todo > 0 => todo - 1 \in 0..Cardinality(Runs)
  /\ 0 \in 0..Cardinality(Runs)
<1>1. Cardinality(Runs) \in Nat
  BY ServiceAssumption, FS_CardinalityType
<1>2. ASSUME NEW S \in SUBSET Runs PROVE 0..Cardinality(S) \subseteq 0..Cardinality(Runs)
  <2>1. IsFiniteSet(S) /\ Cardinality(S) <= Cardinality(Runs)
    BY ServiceAssumption, FS_Subset
  <2>2. Cardinality(S) \in Nat
    BY <2>1, FS_CardinalityType
  <2> QED
    BY <1>1, <2>1, <2>2
<1>3. todo \in 0..Cardinality(Runs) /\ todo > 0 => todo - 1 \in 0..Cardinality(Runs)
  BY <1>1
<1> QED
  BY <1>1, <1>2, <1>3

USE DEF vars, initVars, stopVars, callVars, leaseVars, runVars, Modes, Admitted, Active, Closing

\* Only a service that has not stopped begins to initialize.
LEMMA InitializeKept == ASSUME IInv, Initialize PROVE IInv'
<1> USE DEF IInv, Initialize
<1>1. TypeOK'
  BY DEF TypeOK
<1>2. Starting'
  BY <1>1 DEF TypeOK, Starting
<1>3. Stopping'
  BY <1>1 DEF TypeOK, Stopping
<1>4. Owning'
  BY <1>1 DEF TypeOK, Owning
<1>5. EndsOwned'
  BY <1>1 DEF TypeOK, EndsOwned
<1>6. GivenUp'
  BY <1>1 DEF TypeOK, GivenUp
<1>7. Sealed'
  BY <1>1 DEF TypeOK, Sealed, Starting
<1>8. Recording'
  BY <1>1 DEF TypeOK, Recording
<1>9. ExclusiveAlone'
  BY <1>1 DEF TypeOK, ExclusiveAlone
<1> QED BY <1>1, <1>2, <1>3, <1>4, <1>5, <1>6, <1>7, <1>8, <1>9 DEF IInv

\* The lease is taken by a service that owns nothing yet, or given back at once.
LEMMA AcquireKept == ASSUME IInv, Acquire PROVE IInv'
<1> USE DEF IInv, Acquire, InitializationFails
<1>1. TypeOK'
  <2>1. UNCHANGED <<todo, stopVars, callVars, runVars, early>>
    OBVIOUS
  <2>2. lifecycle' \in {"NEW", "INITIALIZING", "READY", "QUIESCING", "STOPPED", "FAILED"}
    BY DEF TypeOK
  <2>3. init' \in {"none", "acquiring", "opening", "listing", "deciding", "recovering", "releasing"}
    BY DEF TypeOK
  <2>4. lease' \in {"none", "held", "lost"} /\ gate' \in BOOLEAN /\ releasing' \in BOOLEAN
    BY DEF TypeOK
  <2> HIDE DEF Acquire
  <2> QED
    BY <2>1, <2>2, <2>3, <2>4 DEF TypeOK
<1>2. Starting'
  BY <1>1 DEF TypeOK, Starting
<1>3. Stopping'
  BY <1>1 DEF TypeOK, Stopping
<1>4. Owning'
  BY <1>1 DEF TypeOK, Owning
<1>5. EndsOwned'
  BY <1>1 DEF TypeOK, EndsOwned
<1>6. GivenUp'
  BY <1>1 DEF TypeOK, GivenUp, Starting
<1>7. Sealed'
  BY <1>1 DEF TypeOK, Sealed, Starting
<1>8. Recording'
  BY <1>1 DEF TypeOK, Recording, Stopping
<1>9. ExclusiveAlone'
  BY <1>1 DEF TypeOK, ExclusiveAlone
<1> QED BY <1>1, <1>2, <1>3, <1>4, <1>5, <1>6, <1>7, <1>8, <1>9 DEF IInv

\* Opening and listing admit nothing; their failure releases an idle store.
LEMMA OpensKept == ASSUME IInv, Opens PROVE IInv'
<1> USE DEF IInv, Opens, Proceeds, InitializationThrows, BeginRelease
<1>1. TypeOK'
  <2>1. UNCHANGED <<lifecycle, todo, stopVars, callVars, runVars, early>>
    OBVIOUS
  <2>2. init' \in {"none", "acquiring", "opening", "listing", "deciding", "recovering", "releasing"}
    OBVIOUS
  <2>3. lease' \in {"none", "held", "lost"} /\ gate' \in BOOLEAN /\ releasing' \in BOOLEAN
    BY DEF TypeOK
  <2> HIDE DEF Opens
  <2> QED
    BY <2>1, <2>2, <2>3 DEF TypeOK
<1>2. Starting'
  BY <1>1 DEF TypeOK, Starting
<1>3. Stopping'
  BY <1>1 DEF TypeOK, Stopping
<1>4. Owning'
  BY <1>1 DEF TypeOK, Owning
<1>5. EndsOwned'
  BY <1>1 DEF TypeOK, EndsOwned
<1>6. GivenUp'
  BY <1>1 DEF TypeOK, GivenUp, Starting, Owning
<1>7. Sealed'
  BY <1>1 DEF TypeOK, Sealed, Starting
<1>8. Recording'
  BY <1>1 DEF TypeOK, Recording
<1>9. ExclusiveAlone'
  BY <1>1 DEF TypeOK, ExclusiveAlone
<1> QED BY <1>1, <1>2, <1>3, <1>4, <1>5, <1>6, <1>7, <1>8, <1>9 DEF IInv

\* The decision what to recover is made before any run begins.
LEMMA DecidesKept == ASSUME IInv, Decides PROVE IInv'
<1> USE DEF IInv, Decides, InitializationThrows, BeginRelease
<1>1. TypeOK'
  <2>1. UNCHANGED <<lifecycle, stopVars, callVars, runVars, early>>
    OBVIOUS
  <2>2. init' \in {"none", "acquiring", "opening", "listing", "deciding", "recovering", "releasing"}
    OBVIOUS
  <2>3. todo' \in 0..Cardinality(Runs)
    <3>1. todo' = todo \/ todo' \in 0..Cardinality({r \in Runs : run[r] = "none"})
      OBVIOUS
    <3>2. {r \in Runs : run[r] = "none"} \in SUBSET Runs
      OBVIOUS
    <3> HIDE DEF Decides
    <3> QED
      BY <3>1, <3>2, TodoRange DEF TypeOK
  <2>4. lease' \in {"none", "held", "lost"} /\ gate' \in BOOLEAN /\ releasing' \in BOOLEAN
    BY DEF TypeOK
  <2> HIDE DEF Decides
  <2> QED
    BY <2>1, <2>2, <2>3, <2>4 DEF TypeOK
<1>2. Starting'
  BY <1>1 DEF TypeOK, Starting
<1>3. Stopping'
  BY <1>1 DEF TypeOK, Stopping
<1>4. Owning'
  BY <1>1 DEF TypeOK, Owning
<1>5. EndsOwned'
  BY <1>1 DEF TypeOK, EndsOwned
<1>6. GivenUp'
  BY <1>1 DEF TypeOK, GivenUp, Starting, Owning
<1>7. Sealed'
  BY <1>1 DEF TypeOK, Sealed, Starting
<1>8. Recording'
  BY <1>1 DEF TypeOK, Recording
<1>9. ExclusiveAlone'
  BY <1>1 DEF TypeOK, ExclusiveAlone
<1> QED BY <1>1, <1>2, <1>3, <1>4, <1>5, <1>6, <1>7, <1>8, <1>9 DEF IInv

\* Each round of the recovery loop begins at most one run, under an open gate.
LEMMA RecoversKept == ASSUME IInv, Recovers PROVE IInv'
<1> USE DEF IInv, Recovers, Launches
<1>1. TypeOK'
  BY TodoRange DEF TypeOK
<1>2. Starting'
  BY <1>1 DEF TypeOK, Starting
<1>3. Stopping'
  BY <1>1 DEF TypeOK, Stopping
<1>4. Owning'
  BY <1>1 DEF TypeOK, Owning
<1>5. EndsOwned'
  BY <1>1 DEF TypeOK, EndsOwned
<1>6. GivenUp'
  BY <1>1 DEF TypeOK, GivenUp
<1>7. Sealed'
  BY <1>1 DEF TypeOK, Sealed
<1>8. Recording'
  BY <1>1 DEF TypeOK, Recording
<1>9. ExclusiveAlone'
  BY <1>1 DEF TypeOK, ExclusiveAlone
<1> QED BY <1>1, <1>2, <1>3, <1>4, <1>5, <1>6, <1>7, <1>8, <1>9 DEF IInv

\* READY is set only if nobody stopped the service meanwhile.
LEMMA InitializedKept == ASSUME IInv, Initialized PROVE IInv'
<1> USE DEF IInv, Initialized
<1>1. TypeOK'
  BY DEF TypeOK
<1>2. Starting'
  BY <1>1 DEF TypeOK, Starting
<1>3. Stopping'
  BY <1>1 DEF TypeOK, Stopping
<1>4. Owning'
  BY <1>1 DEF TypeOK, Owning
<1>5. EndsOwned'
  BY <1>1 DEF TypeOK, EndsOwned
<1>6. GivenUp'
  BY <1>1 DEF TypeOK, GivenUp
<1>7. Sealed'
  BY <1>1 DEF TypeOK, Sealed
<1>8. Recording'
  BY <1>1 DEF TypeOK, Recording
<1>9. ExclusiveAlone'
  BY <1>1 DEF TypeOK, ExclusiveAlone
<1> QED BY <1>1, <1>2, <1>3, <1>4, <1>5, <1>6, <1>7, <1>8, <1>9 DEF IInv

\* A stop closes admission in the step of its call.
LEMMA StopKept == ASSUME IInv, Stop PROVE IInv'
<1> USE DEF IInv, Stop, BeginStop
<1>1. TypeOK'
  BY DEF TypeOK
<1>2. Starting'
  BY <1>1 DEF TypeOK, Starting
<1>3. Stopping'
  BY <1>1 DEF TypeOK, Stopping
<1>4. Owning'
  BY <1>1 DEF TypeOK, Owning
<1>5. EndsOwned'
  BY <1>1 DEF TypeOK, EndsOwned
<1>6. GivenUp'
  BY <1>1 DEF TypeOK, GivenUp
<1>7. Sealed'
  BY <1>1 DEF TypeOK, Sealed
<1>8. Recording'
  BY <1>1 DEF TypeOK, Recording
<1>9. ExclusiveAlone'
  BY <1>1 DEF TypeOK, ExclusiveAlone
<1> QED BY <1>1, <1>2, <1>3, <1>4, <1>5, <1>6, <1>7, <1>8, <1>9 DEF IInv

\* The initialization has settled, so nothing is admitted any more.
LEMMA StopDrainsKept == ASSUME IInv, StopDrains PROVE IInv'
<1> USE DEF IInv, StopDrains
<1>1. TypeOK'
  BY DEF TypeOK
<1>2. Starting'
  BY <1>1 DEF TypeOK, Starting
<1>3. Stopping'
  BY <1>1 DEF TypeOK, Stopping
<1>4. Owning'
  BY <1>1 DEF TypeOK, Owning
<1>5. EndsOwned'
  BY <1>1 DEF TypeOK, EndsOwned
<1>6. GivenUp'
  BY <1>1 DEF TypeOK, GivenUp
<1>7. Sealed'
  BY <1>1 DEF TypeOK, Sealed
<1>8. Recording'
  BY <1>1 DEF TypeOK, Recording
<1>9. ExclusiveAlone'
  BY <1>1 DEF TypeOK, ExclusiveAlone
<1> QED BY <1>1, <1>2, <1>3, <1>4, <1>5, <1>6, <1>7, <1>8, <1>9 DEF IInv

\* Every active run is claimed or waited for.
LEMMA StopEndsKept == ASSUME IInv, StopEnds PROVE IInv'
<1> USE DEF IInv, StopEnds, Claims, WaitsFor
<1>1. TypeOK'
  BY DEF TypeOK
<1>2. Starting'
  BY <1>1 DEF TypeOK, Starting
<1>3. Stopping'
  BY <1>1 DEF TypeOK, Stopping
<1>4. Owning'
  BY <1>1 DEF TypeOK, Owning
<1>5. EndsOwned'
  BY <1>1 DEF TypeOK, EndsOwned
<1>6. GivenUp'
  BY <1>1 DEF TypeOK, GivenUp
<1>7. Sealed'
  BY <1>1 DEF TypeOK, Sealed
<1>8. Recording'
  BY <1>1 DEF TypeOK, Recording
<1>9. ExclusiveAlone'
  BY <1>1 DEF TypeOK, ExclusiveAlone
<1> QED BY <1>1, <1>2, <1>3, <1>4, <1>5, <1>6, <1>7, <1>8, <1>9 DEF IInv

\* The lease is given up only when no task is left.
LEMMA StopJudgesKept == ASSUME IInv, StopJudges PROVE IInv'
<1> USE DEF IInv, StopJudges, Settled, Verdict, Transferable, EndsAwaited, BeginRelease
<1>1. TypeOK'
  <2>1. UNCHANGED <<initVars, stopMode, verdict, awaited, callVars, runVars, early>>
    OBVIOUS
  <2>2. lifecycle' \in {"NEW", "INITIALIZING", "READY", "QUIESCING", "STOPPED", "FAILED"}
    BY DEF TypeOK
  <2>3. stop' \in {"none", "initializing", "draining", "drained", "ending", "releasing"}
    OBVIOUS
  <2>4. lease' \in {"none", "held", "lost"} /\ gate' \in BOOLEAN /\ releasing' \in BOOLEAN
    BY DEF TypeOK
  <2> HIDE DEF StopJudges
  <2> QED
    BY <2>1, <2>2, <2>3, <2>4 DEF TypeOK
<1>2. Starting'
  BY <1>1 DEF TypeOK, Starting
<1>3. Stopping'
  BY <1>1 DEF TypeOK, Stopping
<1>4. Owning'
  BY <1>1 DEF TypeOK, Owning
<1>5. EndsOwned'
  BY <1>1 DEF TypeOK, EndsOwned
<1>6. GivenUp'
  BY <1>1 DEF TypeOK, GivenUp, Stopping
<1>7. Sealed'
  BY <1>1 DEF TypeOK, Sealed, Stopping, EndsOwned
<1>8. Recording'
  BY <1>1 DEF TypeOK, Recording
<1>9. ExclusiveAlone'
  BY <1>1 DEF TypeOK, ExclusiveAlone
<1> QED BY <1>1, <1>2, <1>3, <1>4, <1>5, <1>6, <1>7, <1>8, <1>9 DEF IInv

\* The loss of the lease closes the gate and begins a stop.
LEMMA LoseLeaseKept == ASSUME IInv, LoseLease PROVE IInv'
<1> USE DEF IInv, LoseLease, BeginStop
<1>1. TypeOK'
  BY DEF TypeOK
<1>2. Starting'
  BY <1>1 DEF TypeOK, Starting
<1>3. Stopping'
  BY <1>1 DEF TypeOK, Stopping
<1>4. Owning'
  BY <1>1 DEF TypeOK, Owning
<1>5. EndsOwned'
  BY <1>1 DEF TypeOK, EndsOwned
<1>6. GivenUp'
  BY <1>1 DEF TypeOK, GivenUp
<1>7. Sealed'
  BY <1>1 DEF TypeOK, Sealed
<1>8. Recording'
  BY <1>1 DEF TypeOK, Recording
<1>9. ExclusiveAlone'
  BY <1>1 DEF TypeOK, ExclusiveAlone
<1> QED BY <1>1, <1>2, <1>3, <1>4, <1>5, <1>6, <1>7, <1>8, <1>9 DEF IInv

\* A release settles whoever waits for it.
LEMMA ReleaseEndsKept == ASSUME IInv, ReleaseEnds PROVE IInv'
<1> USE DEF IInv, ReleaseEnds, Settled, Verdict
<1>1. TypeOK'
  <2>1. UNCHANGED <<todo, stopMode, verdict, awaited, callVars, gate, runVars, early>>
    OBVIOUS
  <2>2. lifecycle' \in {"NEW", "INITIALIZING", "READY", "QUIESCING", "STOPPED", "FAILED"}
    BY DEF TypeOK
  <2>3. /\ init' \in {"none", "acquiring", "opening", "listing", "deciding", "recovering", "releasing"}
        /\ stop' \in {"none", "initializing", "draining", "drained", "ending", "releasing"}
    BY DEF TypeOK
  <2>4. lease' \in {"none", "held", "lost"} /\ releasing' \in BOOLEAN
    BY DEF TypeOK
  <2> HIDE DEF ReleaseEnds
  <2> QED
    BY <2>1, <2>2, <2>3, <2>4 DEF TypeOK
<1>2. Starting'
  BY <1>1 DEF TypeOK, Starting
<1>3. Stopping'
  BY <1>1 DEF TypeOK, Stopping
<1>4. Owning'
  BY <1>1 DEF TypeOK, Owning
<1>5. EndsOwned'
  BY <1>1 DEF TypeOK, EndsOwned
<1>6. GivenUp'
  BY <1>1 DEF TypeOK, GivenUp
<1>7. Sealed'
  BY <1>1 DEF TypeOK, Sealed
<1>8. Recording'
  BY <1>1 DEF TypeOK, Recording
<1>9. ExclusiveAlone'
  BY <1>1 DEF TypeOK, ExclusiveAlone
<1> QED BY <1>1, <1>2, <1>3, <1>4, <1>5, <1>6, <1>7, <1>8, <1>9 DEF IInv

\* Only a READY service admits, and none beside an exclusive mutation.
LEMMA RequestKept == ASSUME IInv, NEW m \in Mutations, Request(m) PROVE IInv'
<1> USE DEF IInv, Request, Start, Administer, Cancel, Exclude, Calls, Admits, Exclusive
<1>1. TypeOK'
  BY DEF TypeOK
<1>2. Starting'
  BY <1>1 DEF TypeOK, Starting
<1>3. Stopping'
  BY <1>1 DEF TypeOK, Stopping
<1>4. Owning'
  BY <1>1 DEF TypeOK, Owning
<1>5. EndsOwned'
  BY <1>1 DEF TypeOK, EndsOwned
<1>6. GivenUp'
  BY <1>1 DEF TypeOK, GivenUp
<1>7. Sealed'
  BY <1>1 DEF TypeOK, Sealed
<1>8. Recording'
  BY <1>1 DEF TypeOK, Recording
<1>9. ExclusiveAlone'
  BY <1>1 DEF TypeOK, ExclusiveAlone
<1> QED BY <1>1, <1>2, <1>3, <1>4, <1>5, <1>6, <1>7, <1>8, <1>9 DEF IInv

\* A durable manifest belongs to the call that made it.
LEMMA CreatesKept == ASSUME IInv, NEW m \in Mutations, Creates(m) PROVE IInv'
<1> USE DEF IInv, Creates, Leaves
<1>1. TypeOK'
  BY DEF TypeOK
<1>2. Starting'
  BY <1>1 DEF TypeOK, Starting
<1>3. Stopping'
  BY <1>1 DEF TypeOK, Stopping
<1>4. Owning'
  BY <1>1 DEF TypeOK, Owning
<1>5. EndsOwned'
  BY <1>1 DEF TypeOK, EndsOwned
<1>6. GivenUp'
  BY <1>1 DEF TypeOK, GivenUp
<1>7. Sealed'
  BY <1>1 DEF TypeOK, Sealed
<1>8. Recording'
  BY <1>1 DEF TypeOK, Recording
<1>9. ExclusiveAlone'
  BY <1>1 DEF TypeOK, ExclusiveAlone
<1> QED BY <1>1, <1>2, <1>3, <1>4, <1>5, <1>6, <1>7, <1>8, <1>9 DEF IInv

\* The run begins in the step in which its call leaves.
LEMMA StartsKept == ASSUME IInv, NEW m \in Mutations, Starts(m) PROVE IInv'
<1> USE DEF IInv, Starts, Leaves, Launches
<1>1. TypeOK'
  BY DEF TypeOK
<1>2. Starting'
  BY <1>1 DEF TypeOK, Starting
<1>3. Stopping'
  BY <1>1 DEF TypeOK, Stopping
<1>4. Owning'
  BY <1>1 DEF TypeOK, Owning
<1>5. EndsOwned'
  BY <1>1 DEF TypeOK, EndsOwned
<1>6. GivenUp'
  BY <1>1 DEF TypeOK, GivenUp, Owning
<1>7. Sealed'
  BY <1>1 DEF TypeOK, Sealed
<1>8. Recording'
  BY <1>1 DEF TypeOK, Recording, Stopping
<1>9. ExclusiveAlone'
  BY <1>1 DEF TypeOK, ExclusiveAlone
<1> QED BY <1>1, <1>2, <1>3, <1>4, <1>5, <1>6, <1>7, <1>8, <1>9 DEF IInv

\* A cancellation claims the end of a live run only.
LEMMA CancelsKept == ASSUME IInv, NEW m \in Mutations, Cancels(m) PROVE IInv'
<1> USE DEF IInv, Cancels, Claims
<1>1. TypeOK'
  BY DEF TypeOK
<1>2. Starting'
  BY <1>1 DEF TypeOK, Starting
<1>3. Stopping'
  BY <1>1 DEF TypeOK, Stopping
<1>4. Owning'
  BY <1>1 DEF TypeOK, Owning
<1>5. EndsOwned'
  BY <1>1 DEF TypeOK, EndsOwned
<1>6. GivenUp'
  BY <1>1 DEF TypeOK, GivenUp
<1>7. Sealed'
  BY <1>1 DEF TypeOK, Sealed
<1>8. Recording'
  BY <1>1 DEF TypeOK, Recording
<1>9. ExclusiveAlone'
  BY <1>1 DEF TypeOK, ExclusiveAlone
<1> QED BY <1>1, <1>2, <1>3, <1>4, <1>5, <1>6, <1>7, <1>8, <1>9 DEF IInv

\* A cancellation leaves when the end it claimed is over.
LEMMA CancelReturnsKept == ASSUME IInv, NEW m \in Mutations, CancelReturns(m) PROVE IInv'
<1> USE DEF IInv, CancelReturns, Leaves, WaitsFor
<1>1. TypeOK'
  BY DEF TypeOK
<1>2. Starting'
  BY <1>1 DEF TypeOK, Starting
<1>3. Stopping'
  BY <1>1 DEF TypeOK, Stopping
<1>4. Owning'
  BY <1>1 DEF TypeOK, Owning
<1>5. EndsOwned'
  BY <1>1 DEF TypeOK, EndsOwned
<1>6. GivenUp'
  BY <1>1 DEF TypeOK, GivenUp
<1>7. Sealed'
  BY <1>1 DEF TypeOK, Sealed
<1>8. Recording'
  BY <1>1 DEF TypeOK, Recording
<1>9. ExclusiveAlone'
  BY <1>1 DEF TypeOK, ExclusiveAlone
<1> QED BY <1>1, <1>2, <1>3, <1>4, <1>5, <1>6, <1>7, <1>8, <1>9 DEF IInv

\* A mutation leaves, which may wake the exclusive one and the stop.
LEMMA AdministeredKept == ASSUME IInv, NEW m \in Mutations, Administered(m) PROVE IInv'
<1> USE DEF IInv, Administered, Leaves
<1>1. TypeOK'
  BY DEF TypeOK
<1>2. Starting'
  BY <1>1 DEF TypeOK, Starting
<1>3. Stopping'
  BY <1>1 DEF TypeOK, Stopping
<1>4. Owning'
  BY <1>1 DEF TypeOK, Owning
<1>5. EndsOwned'
  BY <1>1 DEF TypeOK, EndsOwned
<1>6. GivenUp'
  BY <1>1 DEF TypeOK, GivenUp
<1>7. Sealed'
  BY <1>1 DEF TypeOK, Sealed
<1>8. Recording'
  BY <1>1 DEF TypeOK, Recording
<1>9. ExclusiveAlone'
  BY <1>1 DEF TypeOK, ExclusiveAlone
<1> QED BY <1>1, <1>2, <1>3, <1>4, <1>5, <1>6, <1>7, <1>8, <1>9 DEF IInv

\* An agent is asked for by a live run and under an open gate.
LEMMA AsksKept == ASSUME IInv, NEW r \in Runs, Asks(r) PROVE IInv'
<1> USE DEF IInv, Asks
<1>1. TypeOK'
  BY DEF TypeOK
<1>2. Starting'
  BY <1>1 DEF TypeOK, Starting
<1>3. Stopping'
  BY <1>1 DEF TypeOK, Stopping
<1>4. Owning'
  BY <1>1 DEF TypeOK, Owning
<1>5. EndsOwned'
  BY <1>1 DEF TypeOK, EndsOwned
<1>6. GivenUp'
  BY <1>1 DEF TypeOK, GivenUp
<1>7. Sealed'
  BY <1>1 DEF TypeOK, Sealed
<1>8. Recording'
  BY <1>1 DEF TypeOK, Recording
<1>9. ExclusiveAlone'
  BY <1>1 DEF TypeOK, ExclusiveAlone
<1> QED BY <1>1, <1>2, <1>3, <1>4, <1>5, <1>6, <1>7, <1>8, <1>9 DEF IInv

\* A task begins only in a run nobody has told to end.
LEMMA AnsweredKept == ASSUME IInv, NEW r \in Runs, Answered(r) PROVE IInv'
<1> USE DEF IInv, Answered
<1>1. TypeOK'
  BY DEF TypeOK
<1>2. Starting'
  BY <1>1 DEF TypeOK, Starting
<1>3. Stopping'
  BY <1>1 DEF TypeOK, Stopping
<1>4. Owning'
  BY <1>1 DEF TypeOK, Owning
<1>5. EndsOwned'
  BY <1>1 DEF TypeOK, EndsOwned
<1>6. GivenUp'
  BY <1>1 DEF TypeOK, GivenUp
<1>7. Sealed'
  BY <1>1 DEF TypeOK, Sealed
<1>8. Recording'
  BY <1>1 DEF TypeOK, Recording
<1>9. ExclusiveAlone'
  BY <1>1 DEF TypeOK, ExclusiveAlone
<1> QED BY <1>1, <1>2, <1>3, <1>4, <1>5, <1>6, <1>7, <1>8, <1>9 DEF IInv

\* A run that ends of itself is claimed by nobody else.
LEMMA EndsItselfKept == ASSUME IInv, NEW r \in Runs, EndsItself(r) PROVE IInv'
<1> USE DEF IInv, EndsItself, Claims
<1>1. TypeOK'
  BY DEF TypeOK
<1>2. Starting'
  BY <1>1 DEF TypeOK, Starting
<1>3. Stopping'
  BY <1>1 DEF TypeOK, Stopping
<1>4. Owning'
  BY <1>1 DEF TypeOK, Owning
<1>5. EndsOwned'
  BY <1>1 DEF TypeOK, EndsOwned
<1>6. GivenUp'
  BY <1>1 DEF TypeOK, GivenUp
<1>7. Sealed'
  BY <1>1 DEF TypeOK, Sealed
<1>8. Recording'
  BY <1>1 DEF TypeOK, Recording
<1>9. ExclusiveAlone'
  BY <1>1 DEF TypeOK, ExclusiveAlone
<1> QED BY <1>1, <1>2, <1>3, <1>4, <1>5, <1>6, <1>7, <1>8, <1>9 DEF IInv

\* A run ends when its last append is answered.
LEMMA EndsKept == ASSUME IInv, NEW r \in Runs, Ends(r) PROVE IInv'
<1> USE DEF IInv, Ends
<1>1. TypeOK'
  BY DEF TypeOK
<1>2. Starting'
  BY <1>1 DEF TypeOK, Starting
<1>3. Stopping'
  BY <1>1 DEF TypeOK, Stopping
<1>4. Owning'
  BY <1>1 DEF TypeOK, Owning
<1>5. EndsOwned'
  BY <1>1 DEF TypeOK, EndsOwned
<1>6. GivenUp'
  BY <1>1 DEF TypeOK, GivenUp
<1>7. Sealed'
  BY <1>1 DEF TypeOK, Sealed
<1>8. Recording'
  BY <1>1 DEF TypeOK, Recording, Stopping, Sealed
<1>9. ExclusiveAlone'
  BY <1>1 DEF TypeOK, ExclusiveAlone
<1> QED BY <1>1, <1>2, <1>3, <1>4, <1>5, <1>6, <1>7, <1>8, <1>9 DEF IInv

\* What outlived the run gives up the lease only when nothing else is left.
LEMMA QuietsKept == ASSUME IInv, NEW r \in Runs, Quiets(r) PROVE IInv'
<1> USE DEF IInv, Quiets, AtBoundary, BeginRelease
<1>1. TypeOK'
  <2>1. UNCHANGED <<lifecycle, initVars, stopVars, callVars, run, endedBy, asking, recorded>>
    OBVIOUS
  <2>2. lease' \in {"none", "held", "lost"} /\ gate' \in BOOLEAN /\ releasing' \in BOOLEAN
    BY DEF TypeOK
  <2>3. busy' \subseteq Runs /\ early' \in BOOLEAN
    BY DEF TypeOK
  <2> HIDE DEF Quiets
  <2> QED
    BY <2>1, <2>2, <2>3 DEF TypeOK
<1>2. Starting'
  BY <1>1 DEF TypeOK, Starting
<1>3. Stopping'
  BY <1>1 DEF TypeOK, Stopping
<1>4. Owning'
  BY <1>1 DEF TypeOK, Owning
<1>5. EndsOwned'
  BY <1>1 DEF TypeOK, EndsOwned
<1>6. GivenUp'
  BY <1>1 DEF TypeOK, GivenUp
<1>7. Sealed'
  BY <1>1 DEF TypeOK, Sealed
<1>8. Recording'
  BY <1>1 DEF TypeOK, Recording
<1>9. ExclusiveAlone'
  BY <1>1 DEF TypeOK, ExclusiveAlone
<1> QED BY <1>1, <1>2, <1>3, <1>4, <1>5, <1>6, <1>7, <1>8, <1>9 DEF IInv

-------------------------------------------------------------------------------
\* A service that has not begun owns nothing.
LEMMA InitIInv == Init => IInv
<1> SUFFICES ASSUME Init PROVE IInv
  OBVIOUS
<1> USE DEF Init
<1>1. TypeOK
  BY TodoRange DEF TypeOK
<1>2. Starting /\ Stopping /\ GivenUp /\ Sealed
  BY DEF Starting, Stopping, GivenUp, Sealed
<1>3. Owning /\ EndsOwned /\ Recording /\ ExclusiveAlone
  BY DEF Owning, EndsOwned, Recording, ExclusiveAlone
<1> QED
  BY <1>1, <1>2, <1>3 DEF IInv

\* A step that changes no variable keeps the invariant.
LEMMA StutterKept == ASSUME IInv, UNCHANGED vars PROVE IInv'
  BY DEF IInv, TypeOK, Starting, Stopping, Owning, EndsOwned, GivenUp, Sealed,
         Recording, ExclusiveAlone

\* Every step keeps the invariant.
LEMMA StepIInv == IInv /\ [Next]_vars => IInv'
<1> SUFFICES ASSUME IInv, [Next]_vars PROVE IInv'
  OBVIOUS
<1> HIDE DEF vars
<1>1. CASE UNCHANGED vars
  BY <1>1, StutterKept
<1>2. CASE Initialize \/ InitStep
  BY <1>2, InitializeKept, AcquireKept, OpensKept, DecidesKept, RecoversKept, InitializedKept
  DEF InitStep
<1>3. CASE Stop \/ StopStep \/ LoseLease \/ ReleaseEnds
  BY <1>3, StopKept, StopDrainsKept, StopEndsKept, StopJudgesKept, LoseLeaseKept,
     ReleaseEndsKept DEF StopStep
<1>4. ASSUME NEW m \in Mutations, Request(m) \/ CallStep(m) PROVE IInv'
  BY <1>4, RequestKept, CreatesKept, StartsKept, CancelsKept, CancelReturnsKept,
     AdministeredKept DEF CallStep
<1>5. ASSUME NEW r \in Runs,
             Asks(r) \/ Answered(r) \/ EndsItself(r) \/ Ends(r) \/ Quiets(r)
      PROVE IInv'
  BY <1>5, AsksKept, AnsweredKept, EndsItselfKept, EndsKept, QuietsKept
<1> QED
  BY <1>1, <1>2, <1>3, <1>4, <1>5 DEF Next

\* The inductive invariant holds in every reachable state, for every set of
\* runs and mutations.
THEOREM Invariance == Spec => []IInv
<1>1. Init => IInv
  BY InitIInv
<1>2. IInv /\ [Next]_vars => IInv'
  BY StepIInv
<1> QED
  BY <1>1, <1>2, PTL DEF Spec

\* While anything can write the lease is held, exclusive work is alone, and the
\* lease is given up behind the last events.
THEOREM StoreKept == Spec => []StoreGuarded
<1>1. IInv => StoreGuarded
  <2> SUFFICES ASSUME IInv PROVE StoreGuarded
    OBVIOUS
  <2>1. TypeOK /\ ExclusiveAlone
    BY DEF IInv
  <2>2. RunsUnderLease
    BY DEF IInv, GivenUp, RunsUnderLease
  <2>3. EndsRecorded
    BY DEF IInv, Recording, EndsRecorded
  <2> QED
    BY <2>1, <2>2, <2>3 DEF StoreGuarded
<1> QED
  BY <1>1, Invariance, PTL

\* When stop() gives up the store, and after it has returned, nothing it should
\* have waited for is left, whatever calls, recovery and the stop interleave.
THEOREM StopLeavesNothing == Spec => []StopIsComplete
<1>1. IInv => StopIsComplete
  BY DEF IInv, Stopping, StopIsComplete
<1> QED
  BY <1>1, Invariance, PTL

-------------------------------------------------------------------------------
(* Least and greatest numbers, and sets listed in order.                    *)

\* The order of the numbers has no infinite descent.
Less == {p \in Nat \X Nat : p[1] < p[2]}

LEMMA LessWellFounded == IsWellFoundedOn(Less, Nat)
<1>1. IsWellFoundedOn(OpToRel(<, Nat), Nat)
  BY NatLessThanWellFounded
<1>2. OpToRel(<, Nat) = Less
  BY DEF OpToRel, Less
<1> QED BY <1>1, <1>2

\* A set of numbers has a least one.
LEMMA LeastNumber ==
  ASSUME NEW T \in SUBSET Nat, T # {}
  PROVE  \E x \in T : \A y \in T : x <= y
<1>1. PICK x \in T : \A y \in T : ~(<<y, x>> \in Less)
  BY LessWellFounded, WFMin
<1>2. ASSUME NEW y \in T PROVE x <= y
  <2>1. <<y, x>> \in Nat \X Nat /\ <<y, x>> \notin Less
    BY <1>1
  <2> QED BY <2>1 DEF Less
<1> QED BY <1>2

LEMMA MinIsMember ==
  ASSUME NEW T \in SUBSET Nat, T # {}
  PROVE  Min(T) \in T /\ \A y \in T : Min(T) <= y
BY LeastNumber DEF Min

\* A bounded set of numbers has a greatest one: its least bound.
LEMMA MaxIsMember ==
  ASSUME NEW T \in SUBSET Nat, T # {}, NEW n \in Nat, \A y \in T : y <= n
  PROVE  Max(T) \in T /\ \A y \in T : y <= Max(T)
<1> DEFINE U == {m \in Nat : \A y \in T : y <= m}
<1>1. PICK m \in U : \A k \in U : m <= k
  <2>1. U \in SUBSET Nat /\ n \in U
    OBVIOUS
  <2> QED BY <2>1, LeastNumber
<1>2. m \in T
  <2> SUFFICES ASSUME m \notin T PROVE FALSE
    OBVIOUS
  <2>1. m # 0
    <3>1. PICK y \in T : TRUE
      OBVIOUS
    <3> QED BY <3>1
  <2>2. m - 1 \in Nat /\ \A y \in T : y <= m - 1
    BY <2>1
  <2> QED BY <1>1, <2>2
<1>3. \E x \in T : \A y \in T : x >= y
  BY <1>1, <1>2
<1>4. Max(T) \in T /\ \A y \in T : Max(T) >= y
  BY <1>3 DEF Max
<1> QED BY <1>4

\* A finite set in a strict total order: Ordered lists each member once, in order.
LEMMA OrderedLists ==
  ASSUME NEW S, IsFiniteSet(S), NEW B,
         \A x \in S : <<x, x>> \notin B,
         \A x, y, z \in S : <<x, y>> \in B /\ <<y, z>> \in B => <<x, z>> \in B,
         \A x, y \in S : x = y \/ <<x, y>> \in B \/ <<y, x>> \in B
  PROVE  /\ Cardinality(S) \in Nat
         /\ Ordered(S, B) \in [1..Cardinality(S) -> S]
         /\ \A x \in S : \E i \in 1..Cardinality(S) : Ordered(S, B)[i] = x
         /\ \A i, j \in 1..Cardinality(S) :
              i < j => <<Ordered(S, B)[i], Ordered(S, B)[j]>> \in B
<1> DEFINE n == Cardinality(S)
           Below(x) == {y \in S : <<y, x>> \in B}
           rank == [x \in S |-> Cardinality(Below(x)) + 1]
           q == Ordered(S, B)
<1>1. n \in Nat
  BY FS_CardinalityType
<1>2. ASSUME NEW x \in S
      PROVE  IsFiniteSet(Below(x)) /\ Cardinality(Below(x)) \in Nat /\ Cardinality(Below(x)) < n
  <2>1. Below(x) \in SUBSET S /\ Below(x) # S
    OBVIOUS
  <2>2. IsFiniteSet(Below(x)) /\ Cardinality(Below(x)) <= n /\ Cardinality(Below(x)) # n
    BY <2>1, FS_Subset
  <2>3. Cardinality(Below(x)) \in Nat
    BY <2>2, FS_CardinalityType
  <2> HIDE DEF Below
  <2> QED BY <1>1, <2>2, <2>3
<1>3. ASSUME NEW x \in S, NEW y \in S, <<x, y>> \in B
      PROVE  Cardinality(Below(x)) < Cardinality(Below(y))
  <2>1. Below(x) \in SUBSET Below(y) /\ x \in Below(y) /\ x \notin Below(x)
    BY <1>3
  <2>2. Cardinality(Below(x)) <= Cardinality(Below(y)) /\ Cardinality(Below(x)) # Cardinality(Below(y))
    BY <1>2, <2>1, FS_Subset
  <2> HIDE DEF Below
  <2> QED BY <1>2, <2>2
<1>4. \A x \in S : rank[x] = Cardinality(Below(x)) + 1
  OBVIOUS
<1> HIDE DEF Below
<1>5. rank \in [S -> 1..n]
  BY <1>1, <1>2, <1>4
<1>6. ASSUME NEW x \in S, NEW y \in S, rank[x] = rank[y] PROVE x = y
  <2> HIDE DEF rank
  <2>1. /\ Cardinality(Below(x)) \in Nat /\ Cardinality(Below(y)) \in Nat
        /\ Cardinality(Below(x)) + 1 = Cardinality(Below(y)) + 1
    BY <1>2, <1>4, <1>6
  <2>2. ~(Cardinality(Below(x)) < Cardinality(Below(y))) /\ ~(Cardinality(Below(y)) < Cardinality(Below(x)))
    BY <2>1
  <2>3. <<x, y>> \notin B /\ <<y, x>> \notin B
    BY <1>3, <2>2
  <2> QED BY <2>3
<1>7. \A i \in 1..n : \E x \in S : rank[x] = i
  <2>1. rank \in Injection(S, 1..n)
    BY <1>5, <1>6 DEF Injection, IsInjective
  <2>2. IsFiniteSet(1..n) /\ Cardinality(1..n) = n
    BY <1>1, FS_Interval
  <2>3. rank \in Surjection(S, 1..n)
    BY <2>1, <2>2, FS_Injection
  <2> QED BY <2>3 DEF Surjection
<1>8. ASSUME NEW i \in 1..n PROVE q[i] \in S /\ rank[q[i]] = i
  <2>1. q[i] = CHOOSE x \in S : Cardinality(Below(x)) = i - 1
    BY DEF Ordered, Below
  <2>2. \E x \in S : Cardinality(Below(x)) = i - 1
    BY <1>1, <1>2, <1>4, <1>7
  <2>3. q[i] \in S /\ Cardinality(Below(q[i])) = i - 1
    BY <2>1, <2>2
  <2> QED BY <1>1, <1>2, <1>4, <2>3
<1>9. q \in [1..n -> S]
  BY <1>8 DEF Ordered
<1>10. ASSUME NEW x \in S PROVE \E i \in 1..n : q[i] = x
  <2>1. rank[x] \in 1..n
    BY <1>5
  <2> QED BY <1>6, <1>8, <2>1
<1>11. ASSUME NEW i \in 1..n, NEW j \in 1..n, i < j PROVE <<q[i], q[j]>> \in B
  <2>1. q[i] \in S /\ q[j] \in S /\ q[i] # q[j] /\ ~(rank[q[j]] < rank[q[i]])
    BY <1>1, <1>8, <1>11
  <2>2. <<q[j], q[i]>> \notin B
    BY <1>2, <1>3, <1>4, <2>1
  <2> QED BY <2>1, <2>2
<1> HIDE DEF q, n
<1>12. /\ n \in Nat /\ q \in [1..n -> S]
       /\ \A x \in S : \E i \in 1..n : q[i] = x
       /\ \A i, j \in 1..n : i < j => <<q[i], q[j]>> \in B
  BY <1>1, <1>9, <1>10, <1>11
<1> QED BY <1>12 DEF q, n

\* Numbers in ascending order.
LEMMA AscendingLists ==
  ASSUME NEW S \in SUBSET Nat, IsFiniteSet(S)
  PROVE  /\ Ascending(S) \in Seq(S) /\ Increasing(Ascending(S)) /\ ToSet(Ascending(S)) = S
         /\ Cardinality(S) \in Nat /\ DOMAIN Ascending(S) = 1..Cardinality(S)
         /\ Len(Ascending(S)) = Cardinality(S)
<1> DEFINE B == {p \in S \X S : p[1] < p[2]}
           n == Cardinality(S)
           q == Ordered(S, B)
<1>1. \A x, y \in S : x \in Nat /\ y \in Nat /\ (<<x, y>> \in B <=> x < y)
  OBVIOUS
<1> HIDE DEF B
<1>2. /\ n \in Nat /\ q \in [1..n -> S]
      /\ \A x \in S : \E i \in 1..n : q[i] = x
      /\ \A i, j \in 1..n : i < j => <<q[i], q[j]>> \in B
  <2>1. \A x, y, z \in S : <<x, y>> \in B /\ <<y, z>> \in B => <<x, z>> \in B
    <3> TAKE x, y, z \in S
    <3>1. x \in Nat /\ y \in Nat /\ z \in Nat /\ (x < y /\ y < z => x < z)
      BY <1>1
    <3> QED BY <1>1, <3>1
  <2>2. \A x, y \in S : x = y \/ <<x, y>> \in B \/ <<y, x>> \in B
    <3> TAKE x, y \in S
    <3>1. x \in Nat /\ y \in Nat /\ (x = y \/ x < y \/ y < x)
      BY <1>1
    <3> QED BY <1>1, <3>1
  <2>3. \A x \in S : <<x, x>> \notin B
    BY <1>1
  <2> HIDE DEF n, q
  <2>4. IsFiniteSet(S)
    OBVIOUS
  <2>5. /\ Cardinality(S) \in Nat
        /\ Ordered(S, B) \in [1..Cardinality(S) -> S]
        /\ \A x \in S : \E i \in 1..Cardinality(S) : Ordered(S, B)[i] = x
        /\ \A i, j \in 1..Cardinality(S) :
             i < j => <<Ordered(S, B)[i], Ordered(S, B)[j]>> \in B
    BY <2>1, <2>2, <2>3, <2>4, OrderedLists
  <2> QED BY <2>5 DEF n, q
<1>3. Ascending(S) = q
  BY DEF Ascending, B
<1> HIDE DEF q, n
<1>4. q \in Seq(S) /\ DOMAIN q = 1..n /\ Len(q) = n
  BY <1>2
<1>5. Increasing(q)
  BY <1>1, <1>2, <1>4 DEF Increasing
<1>6. ToSet(q) = S
  BY <1>2, <1>4 DEF ToSet
<1> QED BY <1>2, <1>3, <1>4, <1>5, <1>6 DEF n

\* One list behind another.
LEMMA IncreasingConcat ==
  ASSUME NEW s \in Seq(Nat), NEW t \in Seq(Nat), Increasing(s), Increasing(t),
         \A x \in ToSet(s), y \in ToSet(t) : x < y
  PROVE  /\ s \o t \in Seq(Nat) /\ Increasing(s \o t) /\ ToSet(s \o t) = ToSet(s) \cup ToSet(t)
         /\ Len(s \o t) = Len(s) + Len(t)
<1> DEFINE m == Len(s)  n == Len(t)  u == s \o t
<1>1. /\ m \in Nat /\ n \in Nat /\ u \in Seq(Nat) /\ Len(u) = m + n
      /\ DOMAIN s = 1..m /\ DOMAIN t = 1..n /\ DOMAIN u = 1..(m + n)
      /\ \A i \in 1..m : u[i] = s[i]
      /\ \A i \in 1..n : u[m + i] = t[i]
  OBVIOUS
<1>2. \A i \in 1..(m + n) : i \in 1..m \/ \E j \in 1..n : i = m + j
  <2> TAKE i \in 1..(m + n)
  <2>1. i \in 1..m \/ (i - m \in 1..n /\ i = m + (i - m))
    BY <1>1
  <2> QED BY <2>1
<1> HIDE DEF m, n, u
<1>3. ToSet(u) = ToSet(s) \cup ToSet(t)
  <2>1. \A i \in 1..n : m + i \in 1..(m + n)
    BY <1>1
  <2>2. \A i \in 1..m : i \in 1..(m + n)
    BY <1>1
  <2>3. ASSUME NEW x \in ToSet(u) PROVE x \in ToSet(s) \cup ToSet(t)
    <3>1. PICK i \in 1..(m + n) : x = u[i]
      BY <1>1 DEF ToSet
    <3>2. CASE i \in 1..m
      BY <1>1, <3>1, <3>2 DEF ToSet
    <3>3. ASSUME NEW j \in 1..n, i = m + j PROVE x \in ToSet(t)
      BY <1>1, <3>1, <3>3 DEF ToSet
    <3> QED BY <1>2, <3>2, <3>3
  <2>4. ASSUME NEW x \in ToSet(s) PROVE x \in ToSet(u)
    <3>1. PICK i \in 1..m : x = s[i]
      BY <1>1 DEF ToSet
    <3> QED BY <1>1, <2>2, <3>1 DEF ToSet
  <2>5. ASSUME NEW x \in ToSet(t) PROVE x \in ToSet(u)
    <3>1. PICK i \in 1..n : x = t[i]
      BY <1>1 DEF ToSet
    <3> QED BY <1>1, <2>1, <3>1 DEF ToSet
  <2> QED BY <2>3, <2>4, <2>5
<1>4. ASSUME NEW i \in 1..(m + n), NEW j \in 1..(m + n), i < j PROVE u[i] < u[j]
  <2>1. CASE i \in 1..m /\ j \in 1..m
    BY <1>1, <1>4, <2>1 DEF Increasing
  <2>2. CASE i \in 1..m /\ j \notin 1..m
    <3>1. PICK k \in 1..n : j = m + k
      BY <1>2, <2>2
    <3>2. s[i] \in ToSet(s) /\ t[k] \in ToSet(t)
      BY <1>1, <2>2 DEF ToSet
    <3> QED BY <1>1, <2>2, <3>1, <3>2
  <2>3. CASE i \notin 1..m
    <3>1. PICK k \in 1..n : i = m + k
      BY <1>2, <2>3
    <3>2. PICK l \in 1..n : j = m + l
      BY <1>1, <1>2, <1>4, <3>1
    <3>3. k < l
      BY <1>1, <1>4, <3>1, <3>2
    <3> QED BY <1>1, <3>1, <3>2, <3>3 DEF Increasing
  <2> QED BY <2>1, <2>2, <2>3
<1>5. Increasing(u)
  BY <1>1, <1>4 DEF Increasing
<1> QED BY <1>1, <1>3, <1>5 DEF m, n, u

\* The first of a list.
LEMMA IncreasingPrefix ==
  ASSUME NEW q \in Seq(Nat), Increasing(q), NEW m \in 0..Len(q)
  PROVE  LET p == [i \in 1..m |-> q[i]]
         IN /\ p \in Seq(Nat) /\ Len(p) = m /\ Increasing(p)
            /\ ToSet(p) = {x \in ToSet(q) : m > 0 /\ x <= q[m]}
            /\ m > 0 => Last(p) = q[m] /\ q[m] \in ToSet(p)
<1> DEFINE p == [i \in 1..m |-> q[i]]
<1>1. /\ DOMAIN q = 1..Len(q) /\ m \in Nat /\ \A i \in 1..m : i \in DOMAIN q /\ p[i] = q[i]
      /\ \A i \in DOMAIN q : q[i] \in Nat
  OBVIOUS
<1>2. p \in Seq(Nat) /\ Len(p) = m /\ DOMAIN p = 1..m
  BY <1>1
<1> HIDE DEF p
<1>3. Increasing(p)
  BY <1>1, <1>2 DEF Increasing
<1>4. ToSet(p) = {x \in ToSet(q) : m > 0 /\ x <= q[m]}
  <2>1. ASSUME NEW x \in ToSet(p) PROVE x \in ToSet(q) /\ m > 0 /\ x <= q[m]
    <3>1. PICK i \in 1..m : x = q[i]
      BY <1>1, <1>2 DEF ToSet
    <3>2. i = m \/ q[i] < q[m]
      BY <1>1, <3>1 DEF Increasing
    <3> QED BY <1>1, <3>1, <3>2 DEF ToSet
  <2>2. ASSUME NEW x \in ToSet(q), m > 0, x <= q[m] PROVE x \in ToSet(p)
    <3>1. PICK i \in DOMAIN q : x = q[i]
      BY DEF ToSet
    <3>2. m \in DOMAIN q /\ q[m] \in Nat /\ q[i] \in Nat
      BY <1>1, <2>2
    <3>3. ~(m < i)
      BY <2>2, <3>1, <3>2 DEF Increasing
    <3>4. i \in 1..m /\ p[i] = x
      BY <1>1, <3>1, <3>2, <3>3
    <3> QED BY <1>2, <3>4 DEF ToSet
  <2> QED BY <2>1, <2>2
<1>5. m > 0 => Last(p) = q[m] /\ q[m] \in ToSet(p)
  BY <1>1, <1>2 DEF Last, ToSet
<1> QED BY <1>2, <1>3, <1>4, <1>5 DEF p

\* A finite set of numbers has a greatest one.
LEMMA FiniteMax ==
  ASSUME NEW S \in SUBSET Nat, IsFiniteSet(S), S # {}
  PROVE  Max(S) \in S /\ \A y \in S : y <= Max(S)
<1> DEFINE q == Ascending(S)  n == Cardinality(S)
<1>1. q \in Seq(S) /\ Increasing(q) /\ ToSet(q) = S /\ n \in Nat /\ DOMAIN q = 1..n
  BY AscendingLists
<1> HIDE DEF q, n
<1>2. /\ \A i \in 1..n : q[i] \in S
      /\ \A i, j \in 1..n : i < j => q[i] < q[j]
      /\ \A y \in S : \E i \in 1..n : q[i] = y
  BY <1>1 DEF Increasing, ToSet
<1>3. n \in 1..n
  <2>1. PICK i \in 1..n : TRUE
    BY <1>2
  <2> QED BY <1>1, <2>1
<1>4. q[n] \in Nat
  BY <1>2, <1>3
<1>5. ASSUME NEW y \in S PROVE y <= q[n]
  <2>1. PICK i \in 1..n : q[i] = y
    BY <1>2
  <2>2. i = n \/ i < n
    BY <1>1
  <2> QED BY <1>2, <1>3, <1>4, <2>1, <2>2
<1> QED BY <1>4, <1>5, MaxIsMember

\* A page that begins at a boundary ends at one, no earlier and not behind the end.
LEMMA PageEnds ==
  ASSUME NEW content, IsContent(content)
  PROVE  /\ content \subseteq Nat /\ 0 \in content
         /\ Size(content) \in content /\ \A b \in content : b <= Size(content)
         /\ \A from \in content :
              /\ PageEnd(content, from) \in content
              /\ from <= PageEnd(content, from) /\ PageEnd(content, from) <= Size(content)
<1>1. PICK end \in content : \A b \in content : b <= end
  BY DEF IsContent
<1>2. content \in SUBSET Nat /\ 0 \in content
  BY DEF IsContent
<1>3. Size(content) \in content /\ \A b \in content : b <= Size(content)
  BY <1>1, <1>2, MaxIsMember DEF Size
<1>4. ASSUME NEW from \in content
      PROVE  /\ PageEnd(content, from) \in content
             /\ from <= PageEnd(content, from) /\ PageEnd(content, from) <= Size(content)
  <2> DEFINE T == {b \in content : b <= from + PageBytes}
  <2>4. PageBytes \in Nat /\ from \in Nat /\ from <= from + PageBytes
    <3>1. PageBytes \in Nat
      BY RunReadersAssumption
    <3> QED BY <1>2, <3>1
  <2>1. T \in SUBSET Nat /\ from \in T /\ T # {} /\ \A b \in T : b <= end
    BY <1>1, <1>2, <2>4
  <2>2. Max(T) \in T /\ \A y \in T : y <= Max(T)
    BY <1>1, <1>2, <2>1, MaxIsMember
  <2>3. PageEnd(content, from) = Max(T)
    BY DEF PageEnd
  <2> QED BY <1>3, <2>1, <2>2, <2>3
<1> QED BY <1>2, <1>3, <1>4

-------------------------------------------------------------------------------
(* The result of the run.                                                   *)

\* Bytes before metadata before completion, and the client stands on a boundary of what
\* it has.
ResultInv ==
  /\ result \in [data : Parts, meta : Parts, status : {"running", "completed", "ended"}]
  /\ reader \in [offset : Nat, got : Nat, state : {"reading", "read", "refused", "unavailable"}]
  /\ result.meta = "whole" => result.data = "whole"
  /\ result.status = "completed" => result.meta = "whole"
  /\ reader.got = reader.offset /\ reader.offset \in ResultContent
  /\ reader.state # "refused"
  /\ reader.state = "read" => reader.got = Size(ResultContent)

LEMMA ResultBegins == ReadersInit => ResultInv
BY RunReadersAssumption DEF ReadersInit, ResultInv, Parts, IsContent

LEMMA ResultStays == ResultInv /\ UNCHANGED resultVars => ResultInv'
BY DEF ResultInv, resultVars

\* The result is stored in order and served page by page.
LEMMA ResultKept == ResultInv /\ ReadingResult => ResultInv'
<1> SUFFICES ASSUME ResultInv, ReadingResult PROVE ResultInv'
  OBVIOUS
<1> USE DEF ResultInv, Parts
<1>1. CASE PersistData
  BY <1>1 DEF PersistData
<1>2. CASE PersistMetadata
  BY <1>2 DEF PersistMetadata, MayNameResult
<1>3. CASE CompleteRun
  BY <1>3 DEF CompleteRun, MayComplete
<1>4. CASE EndRun
  BY <1>4 DEF EndRun
<1>5. CASE ReadResult
  <2> DEFINE end == PageEnd(ResultContent, reader.offset)
  <2>1. /\ ResultContent \subseteq Nat /\ end \in ResultContent /\ reader.offset <= end
        /\ end <= Size(ResultContent) /\ Size(ResultContent) \in ResultContent
    BY PageEnds, RunReadersAssumption
  <2> HIDE DEF end
  <2>2. reader.got + (end - reader.offset) = end
    <3>1. reader.got = reader.offset /\ reader.offset \in Nat /\ end \in Nat
      BY <2>1
    <3> QED BY <3>1
  <2>3. CASE result.status # "completed"
    BY <1>5, <2>3 DEF ReadResult
  <2>4. CASE result.status = "completed"
    <3>1. MetadataReads /\ Serves(reader.offset)
      BY <2>4 DEF MetadataReads, Serves, OnBoundary
    <3>2. reader' = [offset |-> end, got |-> reader.got + (end - reader.offset),
                     state |-> IF end < Size(ResultContent) THEN "reading" ELSE "read"]
      BY <1>5, <2>4, <3>1 DEF ReadResult, end
    <3>3. /\ reader'.offset = end /\ reader'.got = end
          /\ reader'.state = IF end < Size(ResultContent) THEN "reading" ELSE "read"
      BY <2>2, <3>2
    <3>4. reader' \in [offset : Nat, got : Nat, state : {"reading", "read", "refused", "unavailable"}]
      BY <2>1, <2>2, <3>2
    <3>5. reader'.state = "read" => end = Size(ResultContent)
      <4>1. end \in Nat /\ Size(ResultContent) \in Nat
        BY <2>1
      <4> QED BY <2>1, <3>3, <4>1
    <3>6. UNCHANGED result
      BY <1>5 DEF ReadResult
    <3> QED BY <2>1, <3>3, <3>4, <3>5, <3>6
  <2> QED BY <2>3, <2>4
<1> QED BY <1>1, <1>2, <1>3, <1>4, <1>5 DEF ReadingResult

-------------------------------------------------------------------------------
(* One agent's slice of the event stream.                                   *)

\* What the client has are the agent's events up to where it stands, and what a request
\* under way has taken are those up to where it has read.
TranscriptInv ==
  /\ stream \in Seq(BOOLEAN) /\ Len(stream) <= MaxEvents /\ scan \in Scans
  /\ scan.after <= Len(stream) /\ scan.floor <= Len(stream)
  /\ Increasing(scan.got) /\ ToSet(scan.got) = {c \in 1..scan.after : stream[c]}
  /\ scan.pc = "idle" => (scan.more => scan.moved) /\ (~scan.more => scan.after >= scan.floor)
  /\ scan.pc = "scanning" =>
       /\ scan.after <= scan.last /\ scan.last <= scan.cursor /\ scan.cursor <= Len(stream)
       /\ Increasing(scan.events) /\ Len(scan.events) < Limit
       /\ ToSet(scan.events) = {c \in (scan.after + 1)..scan.cursor : stream[c]}
       /\ scan.last = IF scan.events = <<>> THEN scan.after ELSE Last(scan.events)

LEMMA EmptyList == <<>> \in Seq(Nat) /\ Increasing(<<>>) /\ ToSet(<<>>) = {} /\ Len(<<>>) = 0
BY DEF Increasing, ToSet

LEMMA TranscriptBegins == ReadersInit => TranscriptInv
<1> SUFFICES ASSUME ReadersInit PROVE TranscriptInv
  OBVIOUS
<1>1. /\ stream = <<>>
      /\ scan = [pc |-> "idle", after |-> 0, cursor |-> 0, last |-> 0, batches |-> 0,
                 events |-> <<>>, got |-> <<>>, more |-> TRUE, moved |-> TRUE, floor |-> 0]
  BY DEF ReadersInit
<1>2. scan \in Scans
  BY <1>1, EmptyList DEF Scans
<1>3. stream \in Seq(BOOLEAN) /\ Len(stream) = 0 /\ Len(stream) <= MaxEvents
  BY <1>1, RunReadersAssumption
<1>4. {c \in 1..0 : stream[c]} = {}
  OBVIOUS
<1> QED BY <1>1, <1>2, <1>3, <1>4, EmptyList DEF TranscriptInv

LEMMA TranscriptStays == TranscriptInv /\ UNCHANGED transcriptVars => TranscriptInv'
BY DEF TranscriptInv, transcriptVars

\* What is recorded later is behind what was read.
LEMMA PublishKept == ASSUME TranscriptInv, NEW own \in BOOLEAN, Publish(own) PROVE TranscriptInv'
<1>1. /\ stream \in Seq(BOOLEAN) /\ Len(stream) \in Nat /\ Len(stream) + 1 <= MaxEvents
      /\ stream' = Append(stream, own) /\ scan' = scan /\ scan \in Scans
  BY RunReadersAssumption DEF TranscriptInv, Publish
<1>2. /\ stream' \in Seq(BOOLEAN) /\ Len(stream') = Len(stream) + 1
      /\ \A c \in 1..Len(stream) : stream'[c] = stream[c]
  BY <1>1
<1>3. /\ scan.after \in Nat /\ scan.cursor \in Nat /\ scan.floor \in Nat /\ scan.last \in Nat
      /\ scan.after <= Len(stream)
      /\ scan.pc = "scanning" => scan.cursor <= Len(stream) /\ scan.after <= scan.cursor
  BY <1>1 DEF TranscriptInv, Scans
<1>4. {c \in 1..scan.after : stream'[c]} = {c \in 1..scan.after : stream[c]}
  BY <1>1, <1>2, <1>3
<1>5. scan.pc = "scanning" =>
        {c \in (scan.after + 1)..scan.cursor : stream'[c]}
          = {c \in (scan.after + 1)..scan.cursor : stream[c]}
  BY <1>1, <1>2, <1>3
<1>6. scan.after <= Len(stream') /\ scan.floor <= Len(stream') /\ Len(stream') <= MaxEvents
  BY <1>1, <1>2, <1>3 DEF TranscriptInv
<1>7. scan.pc = "scanning" => scan.cursor <= Len(stream')
  BY <1>1, <1>2, <1>3
<1> QED BY <1>1, <1>2, <1>4, <1>5, <1>6, <1>7 DEF TranscriptInv

LEMMA AskTranscriptKept == ASSUME TranscriptInv, AskTranscript PROVE TranscriptInv'
<1>1. /\ scan \in Scans /\ Len(stream) \in Nat
      /\ scan' = [scan EXCEPT !.pc = "scanning", !.cursor = scan.after, !.last = scan.after,
                              !.batches = 0, !.events = <<>>, !.floor = Len(stream)]
      /\ stream' = stream
  BY DEF TranscriptInv, AskTranscript
<1>2. /\ scan' \in Scans /\ scan'.pc = "scanning" /\ scan'.cursor = scan.after
      /\ scan'.last = scan.after /\ scan'.after = scan.after /\ scan'.events = <<>>
      /\ scan'.floor = Len(stream) /\ scan'.got = scan.got
  BY <1>1, EmptyList DEF Scans
<1>3. scan.after \in Nat
  BY <1>1 DEF Scans
<1>4. {c \in (scan.after + 1)..scan.after : stream[c]} = {}
  BY <1>3
<1>5. 0 < Limit
  BY RunReadersAssumption
<1> QED BY <1>1, <1>2, <1>3, <1>4, <1>5, EmptyList DEF TranscriptInv

\* A batch is read to its end, or up to the event that fills the page; the page goes on
\* behind the last event that was given or read.
LEMMA ScanBatchKept == ASSUME TranscriptInv, ScanBatch PROVE TranscriptInv'
<1> DEFINE to == IF scan.cursor + Batch < Len(stream) THEN scan.cursor + Batch ELSE Len(stream)
           S == {c \in (scan.cursor + 1)..to : stream[c]}
           own == Ascending(S)
           room == Limit - Len(scan.events)
           filled == Len(own) > room
           m == IF filled THEN room ELSE Len(own)
           taken == [i \in 1..m |-> own[i]]
           events == scan.events \o taken
           last == IF taken = <<>> THEN scan.last ELSE Last(taken)
           cursor == IF filled THEN scan.cursor ELSE to
           s == [scan EXCEPT !.batches = @ + 1, !.events = @ \o taken,
                             !.last = IF taken = <<>> THEN @ ELSE Last(taken),
                             !.cursor = IF filled THEN @ ELSE to]
<1>1. /\ scan.pc = "scanning" /\ stream' = stream
      /\ scan' = IF filled \/ to = Len(stream) THEN Answer(s, filled, ~filled)
                 ELSE IF Len(s.events) >= Limit \/ s.batches >= MaxBatches THEN Answer(s, FALSE, FALSE)
                 ELSE s
  BY DEF ScanBatch
<1>2. /\ scan \in Scans /\ Len(stream) \in Nat /\ Limit \in Nat /\ Batch \in Nat /\ Batch > 0
      /\ scan.after \in Nat /\ scan.cursor \in Nat /\ scan.last \in Nat /\ scan.batches \in Nat
      /\ scan.events \in Seq(Nat) /\ scan.got \in Seq(Nat) /\ Len(scan.events) \in Nat
      /\ scan.floor \in Nat
  BY RunReadersAssumption DEF TranscriptInv, Scans
<1>3. /\ scan.after <= scan.last /\ scan.last <= scan.cursor /\ scan.cursor <= Len(stream)
      /\ scan.floor <= Len(stream)
      /\ Increasing(scan.events) /\ Len(scan.events) < Limit
      /\ ToSet(scan.events) = {c \in (scan.after + 1)..scan.cursor : stream[c]}
      /\ scan.last = IF scan.events = <<>> THEN scan.after ELSE Last(scan.events)
      /\ Increasing(scan.got) /\ ToSet(scan.got) = {c \in 1..scan.after : stream[c]}
  BY <1>1 DEF TranscriptInv
<1>4. /\ to \in Nat /\ scan.cursor <= to /\ to <= Len(stream)
      /\ to # Len(stream) => scan.cursor < to
  BY <1>2, <1>3
<1>5. room \in Nat /\ room > 0
  BY <1>2, <1>3
<1> HIDE DEF to, room
<1>6. /\ S \in SUBSET Nat /\ IsFiniteSet(S)
      /\ \A c : c \in S <=> c \in Nat /\ scan.cursor < c /\ c <= to /\ stream[c]
  <2>1. IsFiniteSet((scan.cursor + 1)..to)
    <3>1. scan.cursor + 1 \in Int /\ to \in Int
      BY <1>2, <1>4
    <3> QED BY <3>1, FS_Interval
  <2>2. S \in SUBSET ((scan.cursor + 1)..to)
    OBVIOUS
  <2>3. IsFiniteSet(S)
    BY <2>1, <2>2, FS_Subset
  <2> QED BY <1>2, <1>4, <2>3
<1> HIDE DEF S
<1>7. own \in Seq(S) /\ Increasing(own) /\ ToSet(own) = S /\ Len(own) \in Nat /\ DOMAIN own = 1..Len(own)
  BY <1>6, AscendingLists
<1>8. own \in Seq(Nat)
  BY <1>6, <1>7
<1> HIDE DEF own
<1>9. m \in 0..Len(own) /\ (filled => m = room /\ m > 0) /\ (~filled => m = Len(own))
  <2>1. Len(own) \in Nat
    BY <1>7
  <2>2. CASE filled
    <3>1. m = room /\ Len(own) > room
      BY <2>2
    <3> QED BY <1>5, <2>1, <2>2, <3>1
  <2>3. CASE ~filled
    <3>1. m = Len(own)
      BY <2>3
    <3> QED BY <2>1, <2>3, <3>1
  <2> QED BY <2>2, <2>3
<1>25. filled \in BOOLEAN
  OBVIOUS
<1> HIDE DEF m, filled
<1>10. /\ taken \in Seq(Nat) /\ Len(taken) = m /\ Increasing(taken)
       /\ ToSet(taken) = {x \in S : m > 0 /\ x <= own[m]}
       /\ m > 0 => Last(taken) = own[m] /\ own[m] \in ToSet(taken)
  BY <1>7, <1>8, <1>9, IncreasingPrefix
<1>11. ~filled => ToSet(taken) = S
  <2> SUFFICES ASSUME ~filled PROVE taken = own
    BY <1>7
  <2> QED BY <1>7, <1>8, <1>9
<1>12. taken = <<>> <=> m = 0
  BY <1>9, <1>10
<1> HIDE DEF taken
<1>13. /\ events \in Seq(Nat) /\ Increasing(events) /\ Len(events) = Len(scan.events) + m
       /\ ToSet(events) = ToSet(scan.events) \cup ToSet(taken)
  <2>1. \A x \in ToSet(scan.events), y \in ToSet(taken) : x < y
    BY <1>2, <1>3, <1>6, <1>10
  <2> QED BY <1>2, <1>3, <1>10, <2>1, IncreasingConcat
<1>14. /\ last \in Nat /\ scan.after <= last /\ last <= to
       /\ last = IF events = <<>> THEN scan.after ELSE Last(events)
       /\ filled => scan.cursor < last
       /\ filled => ToSet(events) = {c \in (scan.after + 1)..last : stream[c]}
  <2>1. CASE m = 0
    <3>1. events = scan.events /\ last = scan.last /\ ~filled
      BY <1>2, <1>9, <1>12, <2>1
    <3> QED BY <1>2, <1>3, <1>4, <3>1
  <2>2. CASE m # 0
    <3>1. last = own[m] /\ own[m] \in S /\ own[m] \in Nat /\ scan.cursor < own[m] /\ own[m] <= to
      BY <1>6, <1>9, <1>10, <1>12, <2>2
    <3>2. events # <<>> /\ Last(events) = own[m]
      <4>1. Len(events) = Len(scan.events) + Len(taken) /\ Len(taken) \in Nat /\ Len(taken) # 0
        BY <1>9, <1>10, <1>13, <2>2
      <4>5. \A i \in 1..Len(taken) : events[Len(scan.events) + i] = taken[i]
        BY <1>2, <1>10
      <4>2. events[Len(events)] = taken[Len(taken)]
        BY <4>1, <4>5
      <4>3. events # <<>>
        BY <1>2, <4>1
      <4> QED BY <1>10, <2>2, <1>9, <4>2, <4>3 DEF Last
    <3>3. ToSet(events) = {c \in (scan.after + 1)..own[m] : stream[c]}
      <4>1. ASSUME NEW c \in ToSet(events) PROVE c \in Nat /\ scan.after < c /\ c <= own[m] /\ stream[c]
        BY <1>2, <1>3, <1>6, <1>10, <1>13, <3>1, <4>1
      <4>2. ASSUME NEW c \in Nat, scan.after < c, c <= own[m], stream[c] PROVE c \in ToSet(events)
        <5>1. CASE c <= scan.cursor
          BY <1>2, <1>3, <1>13, <4>2, <5>1
        <5>2. CASE c > scan.cursor
          <6>3. c <= to /\ scan.cursor < c
            BY <1>2, <1>4, <3>1, <4>2, <5>2
          <6>1. c \in S
            BY <1>6, <4>2, <6>3
          <6>2. m > 0
            BY <1>9, <2>2
          <6> QED BY <1>10, <1>13, <4>2, <6>1, <6>2
        <5> QED BY <1>2, <5>1, <5>2
      <4> QED BY <1>2, <3>1, <4>1, <4>2
    <3> QED BY <1>2, <1>3, <1>4, <3>1, <3>2, <3>3
  <2> QED BY <2>1, <2>2
<1>15. ~filled => ToSet(events) = {c \in (scan.after + 1)..to : stream[c]}
  <2> SUFFICES ASSUME ~filled PROVE ToSet(events) = {c \in (scan.after + 1)..to : stream[c]}
    OBVIOUS
  <2>1. ASSUME NEW c \in ToSet(events) PROVE c \in Nat /\ scan.after < c /\ c <= to /\ stream[c]
    BY <1>2, <1>3, <1>4, <1>6, <1>11, <1>13, <2>1
  <2>2. ASSUME NEW c \in Nat, scan.after < c, c <= to, stream[c] PROVE c \in ToSet(events)
    <3>1. CASE c <= scan.cursor
      BY <1>2, <1>3, <1>13, <2>2, <3>1
    <3>2. CASE c > scan.cursor
      <4>1. c \in S
        BY <1>6, <2>2, <3>2
      <4> QED BY <1>11, <1>13, <4>1
    <3> QED BY <1>2, <3>1, <3>2
  <2> QED BY <1>2, <1>4, <2>1, <2>2
<1>16. cursor \in Nat /\ scan.cursor <= cursor /\ cursor <= to /\ (~filled => cursor = to)
  BY <1>2, <1>4
<1>17. s = [scan EXCEPT !.batches = scan.batches + 1, !.events = events, !.last = last, !.cursor = cursor]
  BY <1>2 DEF Scans
<1> HIDE DEF events, last, cursor, s
<1>18. /\ s \in Scans /\ s.pc = "scanning" /\ s.after = scan.after /\ s.events = events /\ s.last = last
       /\ s.cursor = cursor /\ s.got = scan.got /\ s.floor = scan.floor
  <2>1. scan.batches + 1 \in Nat
    BY <1>2
  <2> QED BY <1>1, <1>2, <1>13, <1>14, <1>16, <1>17, <2>1 DEF Scans
<1>19. CASE scan' = s /\ ~filled /\ Len(s.events) < Limit
  BY <1>1, <1>2, <1>3, <1>4, <1>13, <1>14, <1>15, <1>16, <1>18, <1>19 DEF TranscriptInv
<1>20. ASSUME NEW to2 \in Nat, to2 <= Len(stream), scan.after <= to2,
              ToSet(events) = {c \in (scan.after + 1)..to2 : stream[c]},
              NEW more \in BOOLEAN, more => to2 > scan.after, ~more => to2 = Len(stream),
              scan' = [s EXCEPT !.pc = "idle", !.after = to2, !.got = s.got \o s.events,
                                !.more = more, !.moved = to2 > s.after]
       PROVE TranscriptInv'
  <2> DEFINE got == scan.got \o events
  <2>1. /\ got \in Seq(Nat) /\ Increasing(got) /\ ToSet(got) = ToSet(scan.got) \cup ToSet(events)
    <3>1. \A x \in ToSet(scan.got), y \in ToSet(events) : x < y
      BY <1>2, <1>3, <1>20
    <3> QED BY <1>2, <1>3, <1>13, <3>1, IncreasingConcat
  <2>2. ToSet(got) = {c \in 1..to2 : stream[c]}
    BY <1>2, <1>3, <1>20, <2>1
  <2>3. scan' = [s EXCEPT !.pc = "idle", !.after = to2, !.got = got,
                          !.more = more, !.moved = to2 > scan.after]
    BY <1>18, <1>20
  <2> HIDE DEF got
  <2>4. /\ scan' \in Scans /\ scan'.pc = "idle" /\ scan'.after = to2 /\ scan'.got = got
        /\ scan'.more = more /\ scan'.moved = (to2 > scan.after) /\ scan'.floor = scan.floor
    <3>1. (to2 > scan.after) \in BOOLEAN
      OBVIOUS
    <3> QED BY <1>18, <1>20, <2>1, <2>3, <3>1 DEF Scans
  <2> QED BY <1>1, <1>2, <1>3, <1>20, <2>1, <2>2, <2>4 DEF TranscriptInv
<1>21. CASE filled
  <2>1. scan' = Answer(s, TRUE, FALSE)
    BY <1>1, <1>21
  <2>2. scan' = [s EXCEPT !.pc = "idle", !.after = last, !.got = s.got \o s.events,
                          !.more = TRUE, !.moved = last > s.after]
    BY <1>18, <2>1 DEF Answer, ResumeAt
  <2>3. last <= Len(stream) /\ last > scan.after
    BY <1>2, <1>3, <1>4, <1>14, <1>21
  <2> QED BY <1>14, <1>20, <1>21, <2>2, <2>3
<1>22. CASE ~filled /\ to = Len(stream)
  <2>4. filled = FALSE /\ ~filled = TRUE
    BY <1>22, <1>25
  <2>1. scan' = Answer(s, FALSE, TRUE)
    BY <1>1, <1>22, <2>4
  <2>2. scan' = [s EXCEPT !.pc = "idle", !.after = to, !.got = s.got \o s.events,
                          !.more = FALSE, !.moved = to > s.after]
    BY <1>16, <1>18, <1>22, <2>1 DEF Answer, ResumeAt
  <2>3. to <= Len(stream) /\ scan.after <= to
    BY <1>2, <1>3, <1>4
  <2> QED BY <1>4, <1>15, <1>20, <1>22, <2>2, <2>3
<1>23. CASE ~filled /\ to # Len(stream) /\ scan' = Answer(s, FALSE, FALSE)
  <2>2. scan' = [s EXCEPT !.pc = "idle", !.after = to, !.got = s.got \o s.events,
                          !.more = TRUE, !.moved = to > s.after]
    BY <1>16, <1>18, <1>23 DEF Answer, ResumeAt
  <2>3. to <= Len(stream) /\ scan.after <= to /\ to > scan.after
    BY <1>2, <1>3, <1>4, <1>23
  <2> QED BY <1>4, <1>15, <1>20, <1>23, <2>2, <2>3
<1>24. Len(s.events) \in Nat
  BY <1>18, <1>2, <1>9, <1>13
<1>26. Len(s.events) < Limit \/ Len(s.events) >= Limit
  BY <1>2, <1>24
<1>27. CASE ~filled /\ to # Len(stream)
  <2>1. \/ Len(s.events) < Limit /\ scan' = s
        \/ scan' = Answer(s, FALSE, FALSE)
    BY <1>1, <1>26, <1>27
  <2> QED BY <1>19, <1>23, <1>27, <2>1
<1> QED BY <1>21, <1>22, <1>27

\* One request reads batch after batch.
LEMMA TranscriptKept == TranscriptInv /\ Transcribing => TranscriptInv'
BY PublishKept, AskTranscriptKept, ScanBatchKept DEF Transcribing

-------------------------------------------------------------------------------
(* The inventory of runs.                                                   *)

\* The lists are those of the statuses, and a run owed to the client was given to it or
\* is still ahead of its cursor with a status of the filter.
InventoryInv ==
  /\ runs \in [Keys -> Statuses \cup {0}] /\ byStatus \in [Statuses -> SUBSET Keys]
  /\ list \in [state : {"new", "listing", "listed"}, filter : SUBSET Statuses, after : Nat, high : Nat,
                got : Seq(Keys), owed : SUBSET Keys]
  /\ \A s \in Statuses, k \in Keys : k \in byStatus[s] <=> runs[k] = s
  /\ Increasing(list.got)
  /\ list.state = "new" => list.got = <<>> /\ list.after = 0
  /\ list.state = "listing" =>
       /\ \A k \in ToSet(list.got) : k <= list.after
       /\ \A k \in list.owed : \/ k \in ToSet(list.got)
                               \/ list.after < k /\ k <= list.high /\ runs[k] \in list.filter
  /\ list.state = "listed" => list.owed \subseteq ToSet(list.got)

LEMMA InventoryBegins == ReadersInit => InventoryInv
<1> SUFFICES ASSUME ReadersInit PROVE InventoryInv
  OBVIOUS
<1>1. runs = [k \in Keys |-> 0] /\ byStatus = [s \in Statuses |-> {}]
  BY DEF ReadersInit
<1>2. PICK filter \in SUBSET Statuses :
        list = [state |-> "new", filter |-> filter, after |-> 0, high |-> 0, got |-> <<>>, owed |-> {}]
  BY DEF ReadersInit
<1>3. 0 \notin Statuses
  BY DEF Statuses
<1>4. <<>> \in Seq(Keys) /\ Increasing(<<>>)
  BY DEF Increasing
<1> QED BY <1>1, <1>2, <1>3, <1>4 DEF InventoryInv

LEMMA InventoryStays == InventoryInv /\ UNCHANGED inventoryVars => InventoryInv'
BY DEF InventoryInv, inventoryVars

\* A run moves from the list of one status to that of another; only a run that had or
\* gets a status outside of the filter is no longer owed.
LEMMA WriteManifestKept == ASSUME InventoryInv, NEW k \in Keys, WriteManifest(k) PROVE InventoryInv'
<1>1. /\ runs \in [Keys -> Statuses \cup {0}] /\ byStatus \in [Statuses -> SUBSET Keys]
      /\ list \in [state : {"new", "listing", "listed"}, filter : SUBSET Statuses, after : Nat, high : Nat,
                    got : Seq(Keys), owed : SUBSET Keys]
      /\ \A s \in Statuses, j \in Keys : j \in byStatus[s] <=> runs[j] = s
  BY DEF InventoryInv
<1>2. PICK new \in (runs[k] + 1)..3 :
        /\ runs' = [runs EXCEPT ![k] = new]
        /\ byStatus' = Indexed(byStatus, k, runs[k], new)
        /\ list' = IF list.state = "listing" /\ {runs[k], new} \ list.filter # {}
                     THEN [list EXCEPT !.owed = @ \ {k}] ELSE list
  BY DEF WriteManifest
<1>3. new \in Statuses /\ runs[k] # new
  BY <1>1, <1>2 DEF Statuses
<1>4. runs' \in [Keys -> Statuses \cup {0}] /\ \A j \in Keys : runs'[j] = IF j = k THEN new ELSE runs[j]
  BY <1>1, <1>2, <1>3
<1>5. /\ byStatus' \in [Statuses -> SUBSET Keys]
      /\ \A s \in Statuses : byStatus'[s] = IF s = new THEN byStatus[s] \cup {k}
                                            ELSE IF s = runs[k] THEN byStatus[s] \ {k} ELSE byStatus[s]
  BY <1>1, <1>2, <1>3 DEF Indexed
<1>6. \A s \in Statuses, j \in Keys : j \in byStatus'[s] <=> runs'[j] = s
  BY <1>1, <1>3, <1>4, <1>5
<1>7. CASE list.state = "listing" /\ {runs[k], new} \ list.filter # {}
  <2>1. list' = [list EXCEPT !.owed = list.owed \ {k}]
    BY <1>1, <1>2, <1>7
  <2>2. /\ list' \in [state : {"new", "listing", "listed"}, filter : SUBSET Statuses, after : Nat, high : Nat,
                       got : Seq(Keys), owed : SUBSET Keys]
        /\ list'.state = "listing" /\ list'.filter = list.filter /\ list'.after = list.after
        /\ list'.high = list.high /\ list'.got = list.got /\ list'.owed = list.owed \ {k}
    BY <1>1, <1>7, <2>1
  <2> QED BY <1>4, <1>5, <1>6, <1>7, <2>2 DEF InventoryInv
<1>8. CASE ~(list.state = "listing" /\ {runs[k], new} \ list.filter # {})
  <2>1. list' = list
    BY <1>2, <1>8
  <2>2. list.state = "listing" => runs[k] \in list.filter /\ new \in list.filter
    BY <1>8
  <2> QED BY <1>1, <1>4, <1>5, <1>6, <2>1, <2>2 DEF InventoryInv
<1> QED BY <1>7, <1>8

\* The runs that exist are behind the high water.
LEMMA HighWaters ==
  ASSUME InventoryInv PROVE HighWater \in Nat /\ \A k \in Keys : runs[k] # 0 => k <= HighWater
<1>1. Existing \in SUBSET Nat /\ IsFiniteSet(Existing)
  <2>1. Existing \in SUBSET Keys /\ IsFiniteSet(Keys) /\ Keys \in SUBSET Nat
    BY RunReadersAssumption DEF Existing
  <2>2. IsFiniteSet(Existing)
    BY <2>1, FS_Subset
  <2> QED BY <2>1, <2>2
<1>2. CASE Existing = {}
  BY <1>2 DEF HighWater, Existing
<1>3. CASE Existing # {}
  <2>1. Max(Existing) \in Existing /\ \A k \in Existing : k <= Max(Existing)
    BY <1>1, <1>3, FiniteMax
  <2>2. HighWater = Max(Existing)
    BY <1>3 DEF HighWater
  <2>3. \A k \in Keys : runs[k] # 0 => k \in Existing
    BY DEF Existing
  <2> QED BY <1>1, <2>1, <2>2, <2>3
<1> QED BY <1>2, <1>3

\* The merged lists hold the runs ahead of the cursor, each once and in order.
LEMMA MergedLists ==
  ASSUME InventoryInv, NEW filter \in SUBSET Statuses, NEW after \in Nat, NEW high \in Nat
  PROVE  \E n \in Nat :
           /\ Len(Merged(filter, after, high)) = n
           /\ \A i \in 1..n : LET k == Merged(filter, after, high)[i][1]
                              IN k \in Keys /\ after < k /\ k <= high
           /\ \A i, j \in 1..n :
                i < j => Merged(filter, after, high)[i][1] < Merged(filter, after, high)[j][1]
           /\ \A k \in Keys : after < k /\ k <= high /\ runs[k] \in filter =>
                \E i \in 1..n : Merged(filter, after, high)[i][1] = k
<1> DEFINE S == {e \in Keys \X filter : e[1] \in byStatus[e[2]] /\ after < e[1] /\ e[1] <= high}
           B == {p \in S \X S : Earlier(p[1], p[2])}
           q == Ordered(S, B)
           n == Cardinality(S)
<1>1. /\ Keys \in SUBSET Nat /\ IsFiniteSet(Keys)
      /\ \A s \in Statuses, k \in Keys : k \in byStatus[s] <=> runs[k] = s
      /\ Statuses \in SUBSET Nat
  BY RunReadersAssumption DEF InventoryInv, Statuses
<1>2. IsFiniteSet(S)
  <2>1. IsFiniteSet(filter)
    <3>2. 1 \in Int /\ 3 \in Int
      OBVIOUS
    <3>1. IsFiniteSet(1..3)
      BY <3>2, FS_Interval
    <3> QED BY <3>1, FS_Subset DEF Statuses
  <2>2. IsFiniteSet(Keys \X filter)
    BY <1>1, <2>1, FS_Product
  <2> QED BY <2>2, FS_Subset
<1>3. /\ \A e \in S : /\ e = <<e[1], e[2]>> /\ e[1] \in Keys /\ e[1] \in Nat /\ e[2] \in Nat
                      /\ runs[e[1]] = e[2] /\ after < e[1] /\ e[1] <= high
      /\ \A k \in Keys : after < k /\ k <= high /\ runs[k] \in filter => <<k, runs[k]>> \in S
  <2>1. ASSUME NEW e \in S
        PROVE  /\ e = <<e[1], e[2]>> /\ e[1] \in Keys /\ e[2] \in filter
               /\ e[1] \in byStatus[e[2]] /\ after < e[1] /\ e[1] <= high
    OBVIOUS
  <2>2. ASSUME NEW k \in Keys, after < k, k <= high, runs[k] \in filter PROVE <<k, runs[k]>> \in S
    <3>1. runs[k] \in Statuses /\ k \in byStatus[runs[k]]
      BY <1>1, <2>2
    <3> QED BY <2>2, <3>1
  <2> HIDE DEF S
  <2> QED BY <1>1, <2>1, <2>2
<1> HIDE DEF S
<1>4. \A d, e \in S : <<d, e>> \in B <=> d[1] < e[1]
  <2> TAKE d, e \in S
  <2>1. <<d, e>> \in B <=> d[1] < e[1] \/ (d[1] = e[1] /\ d[2] < e[2])
    BY DEF Earlier
  <2>2. d[1] = e[1] => d[2] = e[2] /\ ~(d[2] < e[2])
    BY <1>3
  <2> QED BY <2>1, <2>2
<1> HIDE DEF B
<1>5. /\ n \in Nat /\ q \in [1..n -> S]
      /\ \A x \in S : \E i \in 1..n : q[i] = x
      /\ \A i, j \in 1..n : i < j => <<q[i], q[j]>> \in B
  <2>1. \A x \in S : <<x, x>> \notin B
    BY <1>3, <1>4
  <2>2. \A x, y, z \in S : <<x, y>> \in B /\ <<y, z>> \in B => <<x, z>> \in B
    <3> TAKE x, y, z \in S
    <3>1. x[1] \in Nat /\ y[1] \in Nat /\ z[1] \in Nat
      BY <1>3
    <3>2. x[1] < y[1] /\ y[1] < z[1] => x[1] < z[1]
      BY <3>1
    <3> QED BY <1>4, <3>2
  <2>3. \A x, y \in S : x = y \/ <<x, y>> \in B \/ <<y, x>> \in B
    <3> TAKE x, y \in S
    <3>1. x[1] \in Nat /\ y[1] \in Nat /\ (x[1] = y[1] => x = y)
      BY <1>3
    <3>2. x[1] = y[1] \/ x[1] < y[1] \/ y[1] < x[1]
      BY <3>1
    <3> QED BY <1>4, <3>1, <3>2
  <2> HIDE DEF n, q
  <2>4. /\ Cardinality(S) \in Nat
        /\ Ordered(S, B) \in [1..Cardinality(S) -> S]
        /\ \A x \in S : \E i \in 1..Cardinality(S) : Ordered(S, B)[i] = x
        /\ \A i, j \in 1..Cardinality(S) :
             i < j => <<Ordered(S, B)[i], Ordered(S, B)[j]>> \in B
    BY <1>2, <2>1, <2>2, <2>3, OrderedLists
  <2> QED BY <2>4 DEF n, q
<1>6. Merged(filter, after, high) = q
  BY DEF Merged, B, S
<1> HIDE DEF q, n
<1>7. Len(q) = n
  BY <1>5
<1>8. \A i \in 1..n : q[i] \in S
  BY <1>5
<1>9. \A i \in 1..n : q[i][1] \in Keys /\ after < q[i][1] /\ q[i][1] <= high
  BY <1>3, <1>8
<1>10. \A i, j \in 1..n : i < j => q[i][1] < q[j][1]
  BY <1>4, <1>5, <1>8
<1>11. ASSUME NEW k \in Keys, after < k, k <= high, runs[k] \in filter
       PROVE \E i \in 1..n : q[i][1] = k
  <2>1. PICK i \in 1..n : q[i] = <<k, runs[k]>>
    BY <1>3, <1>5, <1>11
  <2> QED BY <2>1
<1> QED BY <1>5, <1>6, <1>7, <1>9, <1>10, <1>11

\* A page of the merged lists, and what is behind its last run is for the next.
LEMMA ListRunsKept == ASSUME InventoryInv, ListRuns PROVE InventoryInv'
<1> DEFINE first == list.state = "new"
           high == IF first THEN HighWater ELSE list.high
           found == Merged(list.filter, list.after, high)
           m == IF Len(found) < PageRuns THEN Len(found) ELSE PageRuns
           page == [i \in 1..m |-> found[i][1]]
           more == Len(found) > PageRuns
           owed == IF first THEN {k \in Keys : runs[k] \in list.filter} ELSE list.owed
<1>1. /\ runs \in [Keys -> Statuses \cup {0}] /\ byStatus \in [Statuses -> SUBSET Keys]
      /\ list \in [state : {"new", "listing", "listed"}, filter : SUBSET Statuses, after : Nat, high : Nat,
                    got : Seq(Keys), owed : SUBSET Keys]
      /\ Increasing(list.got) /\ Keys \in SUBSET Nat /\ 0 \notin Keys /\ PageRuns \in Nat /\ PageRuns > 0
  BY RunReadersAssumption DEF InventoryInv
<1>2. /\ list.state # "listed" /\ runs' = runs /\ byStatus' = byStatus
      /\ list' = [list EXCEPT !.state = IF more THEN "listing" ELSE "listed",
                              !.after = IF more THEN Last(page) ELSE @,
                              !.high = high, !.got = @ \o page,
                              !.owed = IF first THEN {k \in Keys : runs[k] \in list.filter} ELSE @]
  BY DEF ListRuns
<1>3. high \in Nat /\ owed \in SUBSET Keys
  BY <1>1, HighWaters
<1>4. \A k \in owed : k \in ToSet(list.got) \/ (list.after < k /\ k <= high /\ runs[k] \in list.filter)
  <2>1. CASE first
    <3> SUFFICES ASSUME NEW k \in Keys, runs[k] \in list.filter
                 PROVE  list.after < k /\ k <= HighWater
      BY <2>1
    <3>1. list.after = 0 /\ runs[k] # 0
      BY <1>1, <2>1 DEF InventoryInv, Statuses
    <3>2. k \in Nat /\ k # 0
      BY <1>1
    <3> QED BY <3>1, <3>2, HighWaters
  <2>2. CASE ~first
    <3>1. list.state = "listing"
      BY <1>1, <1>2, <2>2
    <3> QED BY <2>2, <3>1 DEF InventoryInv
  <2> QED BY <2>1, <2>2
<1>5. \A k \in ToSet(list.got) : k <= list.after /\ k \in Keys
  <2>1. CASE first
    BY <2>1, EmptyList DEF InventoryInv
  <2>2. CASE ~first
    <3>1. list.state = "listing"
      BY <1>1, <1>2, <2>2
    <3> QED BY <1>1, <3>1 DEF InventoryInv, ToSet
  <2> QED BY <2>1, <2>2
<1>6. list.filter \in SUBSET Statuses /\ list.after \in Nat /\ list.got \in Seq(Keys)
  BY <1>1
<1> HIDE DEF first, high, owed
<1>7. PICK n \in Nat :
        /\ Len(found) = n
        /\ \A i \in 1..n : found[i][1] \in Keys /\ list.after < found[i][1] /\ found[i][1] <= high
        /\ \A i, j \in 1..n : i < j => found[i][1] < found[j][1]
        /\ \A k \in Keys : list.after < k /\ k <= high /\ runs[k] \in list.filter =>
             \E i \in 1..n : found[i][1] = k
  BY <1>3, <1>6, MergedLists
<1> HIDE DEF found
<1>8. m \in Nat /\ m <= n /\ (more => m > 0 /\ m < n) /\ (~more => m = n) /\ more \in BOOLEAN
  BY <1>1, <1>7
<1> HIDE DEF m, more
<1>9. /\ page \in Seq(Keys) /\ Len(page) = m /\ DOMAIN page = 1..m
      /\ \A i \in 1..m : i \in 1..n /\ page[i] = found[i][1]
  BY <1>7, <1>8
<1> HIDE DEF page
<1>10. Increasing(page)
  BY <1>7, <1>8, <1>9 DEF Increasing
<1>11. \A k \in ToSet(page) : k \in Keys /\ list.after < k
  BY <1>7, <1>9 DEF ToSet
<1>12. more => Last(page) = page[m] /\ page[m] \in Keys /\ \A k \in ToSet(page) : k <= page[m]
  <2> SUFFICES ASSUME more PROVE Last(page) = page[m] /\ page[m] \in Keys /\ \A k \in ToSet(page) : k <= page[m]
    OBVIOUS
  <2>1. m \in 1..m /\ Last(page) = page[m] /\ page[m] \in Keys
    BY <1>7, <1>8, <1>9 DEF Last
  <2>2. ASSUME NEW k \in ToSet(page) PROVE k <= page[m]
    <3>1. PICK i \in 1..m : k = page[i]
      BY <1>9 DEF ToSet
    <3>2. i = m \/ i < m
      BY <1>8
    <3>3. k \in Nat /\ page[m] \in Nat
      BY <1>1, <1>11, <2>1
    <3> QED BY <1>9, <1>10, <2>1, <3>1, <3>2, <3>3 DEF Increasing
  <2> QED BY <2>1, <2>2
<1>13. ASSUME NEW k \in Keys, list.after < k, k <= high, runs[k] \in list.filter
       PROVE  k \in ToSet(page) \/ (more /\ page[m] < k)
  <2>1. PICK i \in 1..n : found[i][1] = k
    BY <1>7, <1>13
  <2>2. CASE i <= m
    <3>1. i \in 1..m /\ page[i] = k
      BY <1>8, <1>9, <2>1, <2>2
    <3> QED BY <1>9, <3>1 DEF ToSet
  <2>3. CASE ~(i <= m)
    <3>1. more /\ m \in 1..m /\ m < i
      BY <1>8, <2>3
    <3> QED BY <1>7, <1>9, <2>1, <3>1
  <2> QED BY <2>2, <2>3
<1> DEFINE got == list.got \o page
<1>14. /\ got \in Seq(Keys) /\ Increasing(got) /\ ToSet(got) = ToSet(list.got) \cup ToSet(page)
  <2>1. \A x \in ToSet(list.got), y \in ToSet(page) : x < y
    <3> TAKE x \in ToSet(list.got), y \in ToSet(page)
    <3>1. x \in Nat /\ y \in Nat /\ x <= list.after /\ list.after < y
      BY <1>1, <1>5, <1>11
    <3> QED BY <1>6, <3>1
  <2>2. list.got \in Seq(Nat) /\ page \in Seq(Nat)
    <3>1. \A s \in Seq(Keys) : s \in Seq(Nat)
      BY <1>1
    <3> QED BY <1>6, <1>9, <3>1
  <2>3. Increasing(got) /\ ToSet(got) = ToSet(list.got) \cup ToSet(page)
    BY <1>1, <1>10, <2>1, <2>2, IncreasingConcat
  <2> QED BY <1>6, <1>9, <2>3
<1>15. list' = [list EXCEPT !.state = IF more THEN "listing" ELSE "listed",
                            !.after = IF more THEN page[m] ELSE list.after,
                            !.high = high, !.got = got, !.owed = owed]
  BY <1>1, <1>2, <1>12 DEF owed
<1> HIDE DEF got
<1>16. /\ list' \in [state : {"new", "listing", "listed"}, filter : SUBSET Statuses, after : Nat, high : Nat,
                      got : Seq(Keys), owed : SUBSET Keys]
       /\ list'.state = (IF more THEN "listing" ELSE "listed") /\ list'.filter = list.filter
       /\ list'.after = (IF more THEN page[m] ELSE list.after) /\ list'.high = high
       /\ list'.got = got /\ list'.owed = owed
  <2>1. (IF more THEN page[m] ELSE list.after) \in Nat
    BY <1>1, <1>6, <1>12
  <2> QED BY <1>1, <1>3, <1>14, <1>15, <2>1
<1>17. CASE more
  <2>1. \A k \in ToSet(got) : k <= page[m]
    <3> TAKE k \in ToSet(got)
    <3>1. CASE k \in ToSet(page)
      BY <1>12, <1>17, <3>1
    <3>2. CASE k \in ToSet(list.got)
      <4>1. list.after < page[m]
        <5>1. m \in 1..n /\ page[m] = found[m][1]
          BY <1>8, <1>9, <1>17
        <5> QED BY <1>7, <5>1
      <4> QED BY <1>1, <1>5, <1>6, <1>12, <1>17, <3>2, <4>1
    <3> QED BY <1>14, <3>1, <3>2
  <2>2. \A k \in owed : k \in ToSet(got) \/ (page[m] < k /\ k <= high /\ runs[k] \in list.filter)
    BY <1>3, <1>4, <1>13, <1>14
  <2> QED BY <1>2, <1>14, <1>16, <1>17, <2>1, <2>2 DEF InventoryInv
<1>18. CASE ~more
  <2>1. owed \subseteq ToSet(got)
    BY <1>3, <1>4, <1>13, <1>14, <1>18
  <2>2. list'.state = "listed" /\ list'.got = got /\ list'.owed = owed
    BY <1>16, <1>18
  <2>3. Increasing(list'.got) /\ list'.owed \subseteq ToSet(list'.got)
    BY <1>14, <2>1, <2>2
  <2>4. list' \in [state : {"new", "listing", "listed"}, filter : SUBSET Statuses, after : Nat, high : Nat,
                   got : Seq(Keys), owed : SUBSET Keys]
    BY <1>16
  <2>5. /\ runs' \in [Keys -> Statuses \cup {0}] /\ byStatus' \in [Statuses -> SUBSET Keys]
        /\ \A s \in Statuses, k \in Keys : k \in byStatus'[s] <=> runs'[k] = s
    BY <1>2 DEF InventoryInv
  <2> QED BY <2>2, <2>3, <2>4, <2>5 DEF InventoryInv
<1> QED BY <1>17, <1>18

\* Runs change and pages are given one at a time.
LEMMA InventoryKept == InventoryInv /\ Inventory => InventoryInv'
BY WriteManifestKept, ListRunsKept DEF Inventory

-------------------------------------------------------------------------------
(* The bulk walk over the agents' results.                                  *)

Stages == {"new", "running", "recorded", "stored", "settled"}
Records == [Agents -> Agents \cup {NoAgent}]

\* What the run, its damage and the readers of its files keep: a data file and a record
\* are of an agent that has returned, and the cache holds the journal of its identity.
StoreInv ==
  /\ stage \in [Agents -> Stages] /\ files \in [Agents -> [data : Parts, meta : Parts]]
  /\ journal \in [records : Records, reads : BOOLEAN, identity : Nat]
  /\ otherReads \in BOOLEAN /\ failure \in BOOLEAN /\ faults \in 0..MaxFaults
  /\ cache \in [run : {"none", "this", "other"}, identity : Nat, records : Records]
  /\ other \in [pc : {"idle", "parse"}, said : {"nothing", "page", "absent", "damaged"}]
  /\ faults = 0 => journal.reads
  /\ \A a \in Agents : /\ files[a].data = "whole" => stage[a] \in {"stored", "settled"}
                       /\ journal.records[a] # NoAgent => stage[a] # "running"
  /\ cache.run = "this" => /\ cache.identity <= journal.identity
                           /\ cache.identity = journal.identity => cache.records = journal.records

\* What holds of the walk wherever it is: what the client has of an agent's result is of
\* one call of the agent's key.
WalkSafe(w) ==
  /\ w \in Walks /\ ~w.torn /\ w.identity <= journal.identity
  /\ \A a \in Agents : IF w.from[a] = NoAgent THEN w.got[a] = 0
                       ELSE Key[w.from[a]] = Key[a] /\ w.got[a] \in Content[w.from[a]]
  /\ \A a \in w.seen : w.from[a] # NoAgent
  /\ \A a \in w.early : ~Alone(a)
  /\ \A a \in w.todo : stage[a] # "new"
  /\ faults = 0 => /\ \A a \in w.skipped : ~Alone(a)
                   /\ w.pc = "refused" => ~Alone(w.cursor.agent)
                   /\ w.owed \subseteq Recorded

\* The agents of a set of which the client has been given a part have been given whole,
\* but for the ones skipped and one.
WholeBut(w, a) == \A b \in w.seen \ w.skipped : b # a => w.got[b] = Size(Content[w.from[b]])

\* An offset into an agent's result, and whose content it is into, are where the client
\* stands.
Stands(w, a, of, offset) ==
  /\ w.got[a] = offset
  /\ of = w.from[a] \/ (of = NoAgent /\ offset = 0)

\* Between two requests, and until one has listed the agents: the client stands at its
\* cursor and has nothing of what is behind it.
AtCursor(w) ==
  /\ w.cursor.agent = NoAgent => w.cursor = FirstCursor
  /\ w.cursor.agent # NoAgent => Stands(w, w.cursor.agent, w.cursor.of, w.cursor.offset)
  /\ \A b \in Agents : b > w.cursor.agent => w.got[b] = 0
  /\ WholeBut(w, w.cursor.agent)
  /\ faults = 0 => /\ w.cursor.agent # NoAgent /\ Alone(w.cursor.agent) => w.cursor.agent \in Recorded
                   /\ \A a \in w.owed : a \in w.seen \cup w.skipped \/ a >= w.cursor.agent

\* Within a request: the client stands in the first of the agents that are left.
AtAgent(w) ==
  /\ w.todo # {} /\ Stands(w, Min(w.todo), w.of, w.offset)
  /\ \A b \in Agents : b > Min(w.todo) => w.got[b] = 0
  /\ WholeBut(w, Min(w.todo))
  /\ faults = 0 => /\ \A b \in w.todo : Alone(b) => b \in Recorded
                   /\ w.owed \subseteq w.seen \cup w.skipped \cup w.todo
  /\ faults = 0 /\ w.pc # "artifact" /\ Alone(Min(w.todo)) => journal.records[Min(w.todo)] # NoAgent

AtEnd(w) == WholeBut(w, NoAgent) /\ (faults = 0 => w.owed \subseteq w.seen \cup w.skipped)

Listing(w) == w.pc = "idle" \/ (w.pc \in {"stat", "parse"} /\ ~w.reading)
Reading(w) == w.pc = "artifact" \/ (w.pc \in {"stat", "parse"} /\ w.reading)

WalkHolds(w) ==
  /\ WalkSafe(w)
  /\ Listing(w) => AtCursor(w)
  /\ Reading(w) => AtAgent(w)
  /\ w.pc = "ended" => AtEnd(w)

WalkInv == StoreInv /\ WalkHolds(walk)

LEMMA WalkBegins == ReadersInit => WalkInv
<1> SUFFICES ASSUME ReadersInit PROVE WalkInv
  OBVIOUS
<1> USE DEF ReadersInit
<1>1. StoreInv
  <2>1. NoRecords \in Records /\ Copied \in Records
    BY RunReadersAssumption DEF NoRecords, Records
  <2>2. faults \in 0..MaxFaults
    BY RunReadersAssumption
  <2> QED BY <2>1, <2>2 DEF StoreInv, Stages, Parts
<1>2. walk \in Walks /\ walk.cursor = FirstCursor /\ walk.got = [a \in Agents |-> 0] /\ walk.pc = "idle"
  BY RunReadersAssumption DEF Walks, FirstCursor, NoAgent, NoRecords
<1>3. \A a \in Agents : 0 \in Content[a] /\ a > 0
  BY RunReadersAssumption DEF IsContent, NoAgent
<1>4. WalkSafe(walk)
  BY <1>2, <1>3 DEF WalkSafe, NoRecords
<1>5. AtCursor(walk)
  BY <1>2, <1>3 DEF AtCursor, WholeBut, FirstCursor
<1>6. ~Reading(walk)
  BY DEF Reading
<1> QED BY <1>1, <1>2, <1>4, <1>5, <1>6 DEF WalkInv, WalkHolds

\* What a walk that goes on may rely on: agents and records come and stay.
Grown ==
  /\ \A a \in Agents : stage[a] # "new" => stage'[a] # "new"
  /\ \A a \in Agents : stage[a] # "new" /\ journal.records[a] # NoAgent =>
                       journal'.records[a] # NoAgent
  /\ journal.identity \in Nat /\ journal'.identity \in Nat /\ journal.identity <= journal'.identity

LEMMA HoldsKept ==
  ASSUME NEW w, WalkHolds(w), Grown, faults' = 0 => faults = 0 /\ Recorded \subseteq Recorded'
  PROVE  WalkHolds(w)'
<1>1. /\ WalkSafe(w) /\ w.todo \subseteq Agents /\ w.identity \in Nat
      /\ w.todo # {} => Min(w.todo) \in Agents /\ stage[Min(w.todo)] # "new"
  <2>1. WalkSafe(w) /\ w.todo \in SUBSET Agents /\ w.identity \in Nat
    BY DEF WalkHolds, WalkSafe, Walks
  <2>2. Agents \in SUBSET Nat
    BY RunReadersAssumption
  <2>3. w.todo # {} => Min(w.todo) \in w.todo
    BY <2>1, <2>2, MinIsMember
  <2> QED BY <2>1, <2>3 DEF WalkSafe
<1>2. WalkSafe(w)'
  BY <1>1 DEF WalkSafe, Grown
<1>3. AtCursor(w) => AtCursor(w)'
  <2>1. WholeBut(w, w.cursor.agent)' = WholeBut(w, w.cursor.agent)
    BY DEF WholeBut
  <2> QED BY <2>1 DEF AtCursor, Stands
<1>4. AtAgent(w) => AtAgent(w)'
  <2>1. WholeBut(w, Min(w.todo))' = WholeBut(w, Min(w.todo))
    BY DEF WholeBut
  <2> QED BY <1>1, <2>1 DEF AtAgent, Grown, Stands
<1>5. AtEnd(w) => AtEnd(w)'
  <2>1. WholeBut(w, NoAgent)' = WholeBut(w, NoAgent)
    BY DEF WholeBut
  <2> QED BY <2>1 DEF AtEnd
<1> QED BY <1>2, <1>3, <1>4, <1>5 DEF WalkHolds, Listing, Reading

LEMMA AgentNumbers ==
  /\ Agents \in SUBSET Nat /\ \A a \in Agents : a # NoAgent /\ a > NoAgent
  /\ \A a \in Agents : Content[a] \subseteq Nat /\ Size(Content[a]) \in Nat
<1>1. Agents \in SUBSET Nat /\ \A a \in Agents : a # NoAgent /\ a > NoAgent
  BY RunReadersAssumption DEF NoAgent
<1>2. ASSUME NEW a \in Agents PROVE Content[a] \subseteq Nat /\ Size(Content[a]) \in Nat
  <2>1. IsContent(Content[a])
    BY RunReadersAssumption
  <2> QED BY <2>1, PageEnds
<1> QED BY <1>1, <1>2

\* The run's writes, each of one agent.
LEMMA WritesKept ==
  ASSUME StoreInv, Writes
  PROVE  StoreInv' /\ Grown /\ faults' = faults /\ (faults = 0 => Recorded \subseteq Recorded')
<1>1. \/ \E s \in Range(Space) : BeginRun(s)
      \/ \E a \in Agents : Admit(a) \/ Record(a) \/ EndWithout(a) \/ StoreData(a) \/ StoreMetadata(a)
  BY DEF Writes
<1>2. UNCHANGED <<otherReads, cache, failure, faults, other>>
  BY <1>1 DEF Writes, BeginRun, Admit, Record, EndWithout, StoreData, StoreMetadata
<1>3. /\ stage \in [Agents -> Stages] /\ files \in [Agents -> [data : Parts, meta : Parts]]
      /\ journal \in [records : Records, reads : BOOLEAN, identity : Nat]
      /\ journal.identity \in Nat /\ journal.identity <= journal.identity
  BY DEF StoreInv
<1>4. ASSUME NEW a \in Agents, stage[a] \in {"new", "running"}, NEW to \in {"running", "settled", "recorded"},
             NEW by \in {a, NoAgent}, by = NoAgent => stage[a] = "new", by = a => to # "running",
             files' = files, stage' = [stage EXCEPT ![a] = to], Rewrites(a, by)
      PROVE  StoreInv' /\ Grown /\ (faults = 0 => Recorded \subseteq Recorded')
  <2>1. /\ a # NoAgent /\ journal.identity + 1 \in Nat
        /\ [journal.records EXCEPT ![a] = by] \in Records
    BY <1>3, RunReadersAssumption DEF Records
  <2>2. journal' = [records |-> [journal.records EXCEPT ![a] = by], reads |-> TRUE,
                    identity |-> journal.identity + 1]
    BY <1>3, <1>4 DEF Rewrites
  <2>3. /\ journal' \in [records : Records, reads : BOOLEAN, identity : Nat] /\ journal'.reads
        /\ journal'.identity = journal.identity + 1 /\ journal'.identity \in Nat
        /\ journal.identity < journal'.identity
        /\ \A b \in Agents : journal'.records[b] = IF b = a THEN by ELSE journal.records[b]
    BY <1>3, <2>1, <2>2 DEF Records
  <2>4. stage' \in [Agents -> Stages] /\ \A b \in Agents : stage'[b] = IF b = a THEN to ELSE stage[b]
    BY <1>3, <1>4 DEF Stages
  <2>5. cache' = cache /\ (cache.run = "this" => cache.identity \in Nat /\ cache.identity <= journal.identity)
    BY <1>2 DEF StoreInv
  <2>9. \A b \in Agents : files'[b].data = "whole" => stage'[b] \in {"stored", "settled"}
    BY <1>4, <2>4 DEF StoreInv
  <2>10. \A b \in Agents : journal'.records[b] # NoAgent => stage'[b] # "running"
    BY <1>4, <2>3, <2>4 DEF StoreInv
  <2>11. cache'.run = "this" => cache'.identity <= journal'.identity /\ cache'.identity # journal'.identity
    BY <1>3, <2>3, <2>5
  <2>6. StoreInv'
    BY <1>2, <1>3, <1>4, <2>3, <2>4, <2>9, <2>10, <2>11 DEF StoreInv
  <2>7. Grown
    <3>1. \A b \in Agents : stage[b] # "new" => stage'[b] # "new"
      BY <1>4, <2>4
    <3>2. \A b \in Agents : stage[b] # "new" /\ journal.records[b] # NoAgent => journal'.records[b] # NoAgent
      BY <1>4, <2>1, <2>3
    <3>3. journal.identity \in Nat /\ journal'.identity \in Nat /\ journal.identity <= journal'.identity
      BY <1>3, <2>3
    <3> QED BY <3>1, <3>2, <3>3 DEF Grown
  <2>8. Recorded \subseteq Recorded'
    BY <1>4, <2>1, <2>3, <2>4 DEF Recorded, Usable
  <2> QED BY <2>6, <2>7, <2>8
<1>5. ASSUME NEW a \in Agents, journal' = journal, NEW to \in Stages, stage' = [stage EXCEPT ![a] = to], to # "new",
             files' = files \/ (to = "stored" /\ files' = [files EXCEPT ![a].data = "whole"])
                            \/ (to = "settled" /\ files' = [files EXCEPT ![a].meta = "whole"]),
             files[a].data = "whole" => to \in {"stored", "settled"},
             journal.records[a] # NoAgent => to # "running"
      PROVE  StoreInv' /\ Grown /\ (faults = 0 => Recorded \subseteq Recorded')
  <2>1. stage' \in [Agents -> Stages] /\ \A b \in Agents : stage'[b] = IF b = a THEN to ELSE stage[b]
    BY <1>3, <1>5
  <2>2. /\ files' \in [Agents -> [data : Parts, meta : Parts]]
        /\ \A b \in Agents : b # a => files'[b] = files[b]
        /\ files'[a].data = "whole" => to \in {"stored", "settled"}
        /\ files[a].data = "whole" => files'[a].data = "whole"
        /\ files[a].meta = "whole" => files'[a].meta = "whole"
    <3>1. CASE files' = files
      BY <1>3, <1>5, <3>1
    <3>2. CASE to = "stored" /\ files' = [files EXCEPT ![a].data = "whole"]
      BY <1>3, <3>2 DEF Parts
    <3>3. CASE to = "settled" /\ files' = [files EXCEPT ![a].meta = "whole"]
      BY <1>3, <3>3 DEF Parts
    <3> QED BY <1>5, <3>1, <3>2, <3>3
  <2>3. StoreInv'
    BY <1>2, <1>3, <1>5, <2>1, <2>2 DEF StoreInv
  <2>4. Grown
    BY <1>3, <1>5, <2>1 DEF Grown
  <2>5. Recorded \subseteq Recorded'
    BY <1>5, <2>1, <2>2 DEF Recorded, Usable
  <2> QED BY <2>3, <2>4, <2>5
<1>6. ASSUME NEW a \in Agents, Admit(a)
      PROVE  StoreInv' /\ Grown /\ (faults = 0 => Recorded \subseteq Recorded')
  <2>1. stage[a] = "new" /\ files' = files
    BY <1>6 DEF Admit
  <2>2. CASE stage' = [stage EXCEPT ![a] = "settled"] /\ Rewrites(a, a)
    BY <1>4, <2>1, <2>2, AgentNumbers
  <2>3. CASE stage' = [stage EXCEPT ![a] = "running"] /\ Rewrites(a, NoAgent)
    BY <1>4, <2>1, <2>3, AgentNumbers
  <2>4. CASE stage' = [stage EXCEPT ![a] = "running"] /\ journal.records[a] = NoAgent /\ journal' = journal
    <3>1. files[a].data # "whole"
      BY <2>1 DEF StoreInv
    <3>2. "running" \in Stages
      BY DEF Stages
    <3> QED BY <1>5, <2>1, <2>4, <3>1, <3>2
  <2> QED BY <1>6, <2>2, <2>3, <2>4 DEF Admit
<1>7. ASSUME NEW a \in Agents, Record(a)
      PROVE  StoreInv' /\ Grown /\ (faults = 0 => Recorded \subseteq Recorded')
  BY <1>4, <1>7, AgentNumbers DEF Record
<1>8. ASSUME NEW a \in Agents, EndWithout(a)
      PROVE  StoreInv' /\ Grown /\ (faults = 0 => Recorded \subseteq Recorded')
  <2>1. journal' = journal /\ stage' = [stage EXCEPT ![a] = "settled"] /\ files' = files /\ "settled" \in Stages
    BY <1>8 DEF EndWithout, Stages
  <2> QED BY <1>2, <1>5, <2>1
<1>9. ASSUME NEW a \in Agents, StoreData(a)
      PROVE  StoreInv' /\ Grown /\ (faults = 0 => Recorded \subseteq Recorded')
  <2>1. /\ journal' = journal /\ stage' = [stage EXCEPT ![a] = "stored"] /\ "stored" \in Stages
        /\ files' = [files EXCEPT ![a].data = "whole"]
    BY <1>9 DEF StoreData, Stages
  <2> QED BY <1>2, <1>5, <2>1
<1>10. ASSUME NEW a \in Agents, StoreMetadata(a)
      PROVE  StoreInv' /\ Grown /\ (faults = 0 => Recorded \subseteq Recorded')
  <2>1. /\ journal' = journal /\ stage' = [stage EXCEPT ![a] = "settled"] /\ "settled" \in Stages
        /\ files' = [files EXCEPT ![a].meta = "whole"]
    BY <1>10 DEF StoreMetadata, Stages
  <2> QED BY <1>2, <1>5, <2>1
<1>11. ASSUME NEW s, BeginRun(s)
       PROVE  StoreInv' /\ Grown /\ (faults = 0 => Recorded \subseteq Recorded')
  <2> DEFINE dropped == {a \in Agents : Space[a] = s /\ stage[a] = "new" /\ journal.records[a] # NoAgent}
             records == [a \in Agents |-> IF a \in dropped THEN NoAgent ELSE journal.records[a]]
  <2>1. /\ stage' = stage /\ files' = files
        /\ journal' = [records |-> records, reads |-> TRUE, identity |-> journal.identity + 1]
    BY <1>11 DEF BeginRun
  <2>2. /\ records \in Records /\ \A a \in Agents : records[a] # NoAgent => journal.records[a] # NoAgent
        /\ \A a \in Agents : stage[a] # "new" => records[a] = journal.records[a]
    BY <1>3 DEF Records
  <2> HIDE DEF records
  <2>3. /\ journal' \in [records : Records, reads : BOOLEAN, identity : Nat] /\ journal'.reads
        /\ journal'.records = records /\ journal'.identity \in Nat /\ journal.identity < journal'.identity
        /\ journal.identity <= journal'.identity
    BY <1>3, <2>1, <2>2
  <2>4. cache' = cache /\ (cache.run = "this" => cache.identity \in Nat /\ cache.identity <= journal.identity)
    BY <1>2 DEF StoreInv
  <2>5. cache.run = "this" => cache.identity <= journal'.identity /\ cache.identity # journal'.identity
    BY <1>3, <2>3, <2>4
  <2>6. StoreInv'
    BY <1>2, <1>3, <2>1, <2>2, <2>3, <2>4, <2>5 DEF StoreInv
  <2>7. Grown
    BY <1>3, <2>1, <2>2, <2>3 DEF Grown
  <2>8. Recorded \subseteq Recorded'
    BY <2>1, <2>2, <2>3 DEF Recorded, Usable
  <2> QED BY <2>6, <2>7, <2>8
<1> QED BY <1>1, <1>2, <1>6, <1>7, <1>8, <1>9, <1>10, <1>11

\* What a walk relies on in a run without damage ends with damage.
LEMMA DamageKept == ASSUME WalkInv, Damage PROVE WalkInv'
<1>1. PICK w : w = walk
  OBVIOUS
<1>2. StoreInv /\ WalkHolds(w) /\ walk' = w /\ UNCHANGED <<stage, otherReads, cache, failure, other>>
  BY <1>1 DEF WalkInv, Damage
<1>3. /\ stage \in [Agents -> Stages] /\ files \in [Agents -> [data : Parts, meta : Parts]]
      /\ journal \in [records : Records, reads : BOOLEAN, identity : Nat]
      /\ journal.identity \in Nat /\ faults \in 0..MaxFaults
  BY <1>2 DEF StoreInv
<1>4. faults' \in 0..MaxFaults /\ faults' # 0
  <2>1. MaxFaults \in Nat /\ faults < MaxFaults /\ faults' = faults + 1
    BY RunReadersAssumption DEF Damage
  <2> QED BY <1>3, <2>1
<1>5. /\ files' \in [Agents -> [data : Parts, meta : Parts]]
      /\ \A a \in Agents : files'[a].data = "whole" => files[a].data = "whole"
  <2>1. CASE files' = files
    BY <1>3, <2>1
  <2>2. ASSUME NEW a \in Agents, NEW part \in {"data", "meta"},
               files' = [files EXCEPT ![a][part] = "torn"]
        PROVE  /\ files' \in [Agents -> [data : Parts, meta : Parts]]
               /\ \A b \in Agents : files'[b].data = "whole" => files[b].data = "whole"
    <3>1. CASE part = "data"
      BY <1>3, <2>2, <3>1 DEF Parts
    <3>2. CASE part = "meta"
      BY <1>3, <2>2, <3>2 DEF Parts
    <3> QED BY <3>1, <3>2
  <2>3. files' = files \/ \E a \in Agents, part \in {"data", "meta"} : files' = [files EXCEPT ![a][part] = "torn"]
    BY DEF Damage
  <2> QED BY <2>1, <2>2, <2>3
<1>6. /\ journal' \in [records : Records, reads : BOOLEAN, identity : Nat]
       /\ journal'.records = journal.records /\ journal'.identity \in Nat
       /\ journal.identity <= journal'.identity
  <2>1. CASE journal' = journal
    BY <1>3, <2>1
  <2>2. ASSUME NEW i \in {0, 1}, journal' = [journal EXCEPT !.reads = FALSE, !.identity = @ + i]
        PROVE  /\ journal' \in [records : Records, reads : BOOLEAN, identity : Nat]
               /\ journal'.records = journal.records /\ journal'.identity \in Nat
               /\ journal.identity <= journal'.identity
    <3>1. journal.identity + i \in Nat /\ journal.identity <= journal.identity + i
      BY <1>3
    <3> QED BY <1>3, <2>2, <3>1
  <2>3. journal' = journal \/ \E i \in {0, 1} : journal' = [journal EXCEPT !.reads = FALSE, !.identity = @ + i]
    BY DEF Damage
  <2> QED BY <2>1, <2>2, <2>3
<1>7. StoreInv'
  <2>1. cache.run = "this" => cache.identity \in Nat /\ cache.identity <= journal.identity
                              /\ (cache.identity = journal.identity => cache.records = journal.records)
    BY <1>2 DEF StoreInv
  <2>2. cache.run = "this" => /\ cache.identity <= journal'.identity
                              /\ cache.identity = journal'.identity => cache.records = journal'.records
    BY <1>3, <1>6, <2>1
  <2> QED BY <1>2, <1>4, <1>5, <1>6, <2>2 DEF StoreInv
<1>8. Grown
  BY <1>2, <1>3, <1>6 DEF Grown
<1>9. WalkHolds(w)'
  BY <1>2, <1>4, <1>8, HoldsKept
<1> QED BY <1>2, <1>7, <1>9 DEF WalkInv

\* The writes leave the walk alone.
LEMMA WritesWalkKept == ASSUME WalkInv, Writes PROVE WalkInv'
<1>1. PICK w : w = walk
  OBVIOUS
<1>2. StoreInv /\ WalkHolds(w) /\ walk' = w
  BY <1>1 DEF WalkInv, WalkHolds, WalkSafe, Writes
<1>3. StoreInv' /\ Grown /\ faults' = faults /\ (faults = 0 => Recorded \subseteq Recorded')
  BY <1>2, WritesKept
<1>4. WalkHolds(w)'
  BY <1>2, <1>3, HoldsKept
<1> QED BY <1>2, <1>3, <1>4 DEF WalkInv

\* The other client looks up journals through the one cache and changes nothing else.
LEMMA OtherKept ==
  ASSUME WalkInv, StatOther \/ ParseOther \/ \E a \in Agents : ReadOne(a)
  PROVE  WalkInv'
<1>1. PICK w : w = walk
  OBVIOUS
<1>2. /\ StoreInv /\ WalkHolds(w) /\ walk' = w
      /\ UNCHANGED <<stage, files, journal, otherReads, faults>>
  BY <1>1 DEF WalkInv, StatOther, ParseOther, ReadOne, storeVars
<1>3. /\ cache \in [run : {"none", "this", "other"}, identity : Nat, records : Records]
      /\ journal.identity \in Nat /\ journal.records \in Records /\ journal.identity <= journal.identity
      /\ other \in [pc : {"idle", "parse"}, said : {"nothing", "page", "absent", "damaged"}]
      /\ failure \in BOOLEAN /\ otherReads \in BOOLEAN /\ journal.reads \in BOOLEAN
      /\ NoRecords \in Records
  BY <1>2 DEF StoreInv, NoRecords, Records
<1>4. /\ failure' \in BOOLEAN
      /\ other' \in [pc : {"idle", "parse"}, said : {"nothing", "page", "absent", "damaged"}]
      /\ \/ cache' = cache \/ cache' = Caches("other", 0, NoRecords)
         \/ cache' = Caches("this", journal.identity, journal.records)
  <2>1. CASE StatOther
    BY <1>3, <2>1 DEF StatOther, storeVars
  <2>2. CASE ParseOther
    BY <1>3, <2>2 DEF ParseOther
  <2>3. ASSUME NEW a \in Agents, ReadOne(a)
        PROVE  /\ failure' \in BOOLEAN
               /\ other' \in [pc : {"idle", "parse"}, said : {"nothing", "page", "absent", "damaged"}]
               /\ \/ cache' = cache \/ cache' = Caches("other", 0, NoRecords)
                  \/ cache' = Caches("this", journal.identity, journal.records)
    <3> DEFINE hit == Cached("this", journal.identity)
               failed == IF hit THEN failure ELSE ~journal.reads
               records == IF hit THEN cache.records ELSE IF journal.reads THEN journal.records ELSE NoRecords
    <3>1. /\ failure' = failed
          /\ cache' = IF hit \/ failed THEN cache ELSE Caches("this", journal.identity, records)
      BY <2>3 DEF ReadOne
    <3>2. PICK said \in {"nothing", "page", "absent", "damaged"} : other' = [other EXCEPT !.said = said]
      BY <2>3 DEF ReadOne
    <3>3. failed \in BOOLEAN
      BY <1>3
    <3>4. ~hit /\ ~failed => records = journal.records
      BY <1>3
    <3>5. cache' = cache \/ cache' = Caches("this", journal.identity, journal.records)
      BY <3>1, <3>4
    <3> QED BY <1>3, <3>1, <3>2, <3>3, <3>5
  <2> QED BY <2>1, <2>2, <2>3
<1>5. StoreInv'
  BY <1>2, <1>3, <1>4 DEF StoreInv, Caches
<1>6. WalkHolds(w)'
  <2>1. Grown /\ Recorded' = Recorded
    BY <1>2, <1>3 DEF Grown, Recorded, Usable
  <2> QED BY <1>2, <2>1, HoldsKept
<1> QED BY <1>2, <1>5, <1>6 DEF WalkInv

\* On to the next agent of the request: what is left begins behind the agents dealt with.
LEMMA MovesHolds ==
  ASSUME NEW w, WalkSafe(w), NEW rest \in SUBSET Agents, NEW a \in Agents,
         \A b \in Agents : b > a => w.got[b] = 0,
         \A b \in rest : b > a /\ stage[b] # "new",
         WholeBut(w, NoAgent),
         faults = 0 => /\ \A b \in rest : Alone(b) => b \in Recorded
                       /\ w.owed \subseteq w.seen \cup w.skipped \cup rest
  PROVE  WalkHolds(Moves(w, rest))
<1> DEFINE v == Moves(w, rest)
<1>1. w \in Walks
  BY DEF WalkSafe
<1>2. CASE rest = {}
  <2>1. v = [w EXCEPT !.pc = "ended", !.todo = {}]
    BY <1>2 DEF Moves
  <2> HIDE DEF v
  <2>2. /\ v \in Walks /\ v.pc = "ended" /\ v.todo = {} /\ v.got = w.got /\ v.seen = w.seen
        /\ v.skipped = w.skipped /\ v.owed = w.owed /\ v.torn = w.torn
        /\ v.from = w.from /\ v.early = w.early /\ v.identity = w.identity
    BY <1>1, <2>1 DEF Walks
  <2>3. WalkSafe(v) /\ AtEnd(v)
    BY <1>2, <2>2 DEF WalkSafe, AtEnd, WholeBut
  <2>4. WalkHolds(v)
    BY <2>2, <2>3 DEF WalkHolds, Listing, Reading
  <2> QED BY <2>4 DEF v
<1>3. CASE rest # {}
  <2> DEFINE m == Min(rest)
  <2>1. m \in rest /\ m \in Agents /\ m > a /\ \A b \in Agents : b > m => b > a
    <3>1. rest \in SUBSET Nat
      BY AgentNumbers
    <3>2. m \in rest
      BY <1>3, <3>1, MinIsMember
    <3>3. m \in Nat /\ a \in Nat /\ m > a
      BY <3>1, <3>2, AgentNumbers
    <3>4. \A b \in Agents : b \in Nat
      BY AgentNumbers
    <3> HIDE DEF m
    <3>5. \A b \in Agents : b > m => b > a
      BY <3>3, <3>4
    <3> QED BY <3>2, <3>3, <3>5
  <2>2. v = [w EXCEPT !.pc = "artifact", !.todo = rest, !.of = NoAgent, !.offset = 0]
    BY <1>3 DEF Moves
  <2> HIDE DEF v, m
  <2>3. /\ v \in Walks /\ v.pc = "artifact" /\ v.todo = rest /\ v.of = NoAgent /\ v.offset = 0 /\ v.got = w.got
        /\ v.seen = w.seen /\ v.skipped = w.skipped /\ v.owed = w.owed
        /\ v.torn = w.torn /\ v.from = w.from /\ v.early = w.early /\ v.identity = w.identity
    BY <1>1, <2>2 DEF Walks
  <2>4. WalkSafe(v)
    BY <2>3 DEF WalkSafe
  <2>5. Min(v.todo) = m
    BY <2>3 DEF m
  <2>6. WholeBut(v, m)
    BY <1>1, <2>3, AgentNumbers DEF WholeBut, Walks
  <2>7. AtAgent(v)
    BY <1>3, <2>1, <2>3, <2>5, <2>6 DEF AtAgent, Stands
  <2>8. WalkHolds(v)
    BY <2>3, <2>4, <2>7 DEF WalkHolds, Listing, Reading
  <2> QED BY <2>8 DEF v
<1> QED BY <1>2, <1>3

\* The facts of the agent a request stands at.
LEMMA FirstOfTodo ==
  ASSUME NEW w, WalkSafe(w), AtAgent(w)
  PROVE  /\ Min(w.todo) \in w.todo /\ Min(w.todo) \in Agents /\ stage[Min(w.todo)] # "new"
         /\ \A b \in w.todo : b # Min(w.todo) => b > Min(w.todo) /\ b \in Agents /\ stage[b] # "new"
         /\ w.todo \subseteq Agents
<1>1. w.todo \in SUBSET Agents /\ w.todo # {}
  BY DEF WalkSafe, AtAgent, Walks
<1>2. Min(w.todo) \in w.todo /\ \A y \in w.todo : Min(w.todo) <= y
  BY <1>1, AgentNumbers, MinIsMember
<1>3. \A b \in w.todo : b \in Nat /\ stage[b] # "new"
  BY <1>1, AgentNumbers DEF WalkSafe
<1> QED BY <1>1, <1>2, <1>3

\* Only a walk that has met damage skips an agent no other shares its key with.
LEMMA SkipsHolds ==
  ASSUME NEW w, WalkSafe(w), AtAgent(w), faults # 0 \/ ~Alone(Min(w.todo))
  PROVE  WalkHolds(Skips(w, Min(w.todo)))
<1> DEFINE a == Min(w.todo)
           u == [w EXCEPT !.skipped = @ \cup {a}]
           rest == w.todo \ {a}
<1>1. /\ a \in Agents /\ rest \in SUBSET Agents /\ w \in Walks
      /\ \A b \in rest : b > a /\ stage[b] # "new"
  BY FirstOfTodo DEF WalkSafe
<1>2. /\ \A b \in Agents : b > a => w.got[b] = 0
      /\ WholeBut(w, a) /\ (faults = 0 => ~Alone(a))
      /\ faults = 0 => /\ \A b \in w.todo : Alone(b) => b \in Recorded
                       /\ w.owed \subseteq w.seen \cup w.skipped \cup w.todo
  BY DEF AtAgent
<1>3. Skips(w, a) = Moves(u, rest)
  BY DEF Skips
<1> HIDE DEF a, rest
<1>4. u = [w EXCEPT !.skipped = w.skipped \cup {a}]
  OBVIOUS
<1> HIDE DEF u
<1>5. /\ u \in Walks /\ u.pc = w.pc /\ u.cursor = w.cursor /\ u.todo = w.todo /\ u.got = w.got /\ u.seen = w.seen
      /\ u.skipped = w.skipped \cup {a} /\ u.owed = w.owed /\ u.torn = w.torn
      /\ u.from = w.from /\ u.early = w.early /\ u.identity = w.identity
  BY <1>1, <1>4 DEF Walks
<1>6. WalkSafe(u) /\ WholeBut(u, NoAgent)
  BY <1>1, <1>2, <1>5 DEF WalkSafe, WholeBut
<1>7. faults = 0 => /\ \A b \in rest : Alone(b) => b \in Recorded
                    /\ u.owed \subseteq u.seen \cup u.skipped \cup rest
  BY <1>2, <1>5 DEF rest
<1>8. WalkHolds(Moves(u, rest))
  BY <1>1, <1>2, <1>5, <1>6, <1>7, MovesHolds
<1> QED BY <1>3, <1>8 DEF a

\* A page of the agent the request stands at begins where the client has come to, of the
\* content it has come there in, and the cursor it is given is where the page ends or the
\* next agent begins.
LEMMA GivenHolds ==
  ASSUME NEW w, WalkSafe(w), AtAgent(w), NEW k \in Agents, Key[k] = Key[Min(w.todo)],
         Alone(Min(w.todo)) => stage[Min(w.todo)] # "running", Accepted(w, k)
  PROVE  WalkHolds(Page(w, Min(w.todo), k))
<1> DEFINE a == Min(w.todo)
           content == Content[k]
           end == PageEnd(content, w.offset)
           returned == stage[a] \notin {"new", "running"}
           g == [w EXCEPT !.got[a] = end, !.from[a] = k, !.seen = @ \cup {a}, !.items = @ + 1,
                          !.torn = @ \/ w.offset # w.got[a] \/ (w.got[a] # 0 /\ w.from[a] # k),
                          !.early = IF returned THEN @ ELSE @ \cup {a}]
           rest == w.todo \ {a}
           v == Page(w, a, k)
           soon == IF returned THEN w.early ELSE w.early \cup {a}
           Cut(c, of, at) == [g EXCEPT !.pc = "idle", !.cursor = [agent |-> c, of |-> of, offset |-> at],
                                       !.todo = {}]
<1>1. /\ a \in w.todo /\ a \in Agents /\ rest \in SUBSET Agents /\ w \in Walks /\ w.todo \in SUBSET Agents
      /\ \A b \in rest : b > a /\ stage[b] # "new"
      /\ Key[k] = Key[a] /\ k # NoAgent
      /\ soon \in SUBSET Agents /\ \A b \in soon : ~Alone(b)
  BY FirstOfTodo, AgentNumbers DEF WalkSafe, Walks
<1>2. /\ w.got[a] = w.offset /\ \A b \in Agents : b > a => w.got[b] = 0
      /\ w.of = w.from[a] \/ (w.of = NoAgent /\ w.offset = 0)
      /\ WholeBut(w, a)
      /\ faults = 0 => /\ \A b \in w.todo : Alone(b) => b \in Recorded
                       /\ w.owed \subseteq w.seen \cup w.skipped \cup w.todo
  BY DEF AtAgent, Stands
<1>3. /\ w.of \in {NoAgent, k} /\ content \subseteq Nat
      /\ end \in content /\ end \in Nat /\ Size(content) \in Nat /\ end <= Size(content)
  <2>1. IsContent(content)
    BY RunReadersAssumption
  <2>2. w.offset \in content /\ w.of \in {NoAgent, k}
    BY DEF Accepted, OnBoundary
  <2> QED BY <2>1, <2>2, PageEnds
<1>4. v = IF end < Size(content) \/ (w.items + 1 >= PageItems /\ w.todo # {a})
            THEN [g EXCEPT !.pc = "idle", !.cursor = NextCursor(w, a, k, end), !.todo = {}]
            ELSE Moves(g, rest)
  BY DEF Page
<1>15. g = [w EXCEPT !.got[a] = end, !.from[a] = k, !.seen = @ \cup {a}, !.items = @ + 1,
                     !.torn = @ \/ w.offset # w.got[a] \/ (w.got[a] # 0 /\ w.from[a] # k),
                     !.early = soon]
  OBVIOUS
<1> HIDE DEF a, end, content, rest, v, soon, g, Cut
<1>16. w.from[a] = NoAgent => w.got[a] = 0
  BY <1>1 DEF WalkSafe
<1>5. g = [w EXCEPT !.got = [w.got EXCEPT ![a] = end], !.from = [w.from EXCEPT ![a] = k],
                    !.seen = w.seen \cup {a}, !.items = w.items + 1, !.torn = FALSE, !.early = soon]
  <2>1. w.torn = FALSE /\ (w.offset # w.got[a]) = FALSE /\ (w.got[a] # 0 /\ w.from[a] # k) = FALSE
    BY <1>1, <1>2, <1>3, <1>16 DEF WalkSafe, Walks
  <2> QED BY <1>1, <1>15, <2>1 DEF Walks
<1>6. /\ g \in Walks /\ g.pc = w.pc /\ g.cursor = w.cursor /\ g.todo = w.todo
      /\ g.seen = w.seen \cup {a} /\ g.offset = w.offset
      /\ g.skipped = w.skipped /\ g.owed = w.owed /\ g.torn = FALSE
      /\ g.early = soon /\ g.identity = w.identity
      /\ \A b \in Agents : /\ g.got[b] = IF b = a THEN end ELSE w.got[b]
                           /\ g.from[b] = IF b = a THEN k ELSE w.from[b]
  <2>1. /\ w.items + 1 \in Nat /\ [w.got EXCEPT ![a] = end] \in [Agents -> Nat]
        /\ [w.from EXCEPT ![a] = k] \in [Agents -> Agents \cup {NoAgent}]
    BY <1>1, <1>3 DEF Walks
  <2> QED BY <1>1, <1>5, <2>1 DEF Walks
<1>7. WalkSafe(g)
  <2>1. w.seen \subseteq Agents
    BY <1>1 DEF Walks
  <2> QED BY <1>1, <1>3, <1>6, <2>1 DEF WalkSafe, content
<1>8. \A b \in Agents : b > a => g.got[b] = 0
  <2>1. \A b \in Agents : b > a => b # a
    BY <1>1, AgentNumbers
  <2> QED BY <1>2, <1>6, <2>1
<1>9. WholeBut(g, a) /\ (end = Size(content) => WholeBut(g, NoAgent))
  <2>1. g.seen \subseteq Agents
    BY <1>6 DEF Walks
  <2> QED BY <1>1, <1>2, <1>6, <2>1 DEF WholeBut, content
<1>10. faults = 0 => /\ \A b \in rest : Alone(b) => b \in Recorded
                     /\ g.owed \subseteq g.seen \cup g.skipped \cup rest
  BY <1>2, <1>6 DEF rest
<1>11. ASSUME NEW c \in Agents, NEW of \in Agents \cup {NoAgent}, NEW at \in Nat, v = Cut(c, of, at),
              Stands(g, c, of, at), c \in w.todo, c >= a, WholeBut(g, c),
              faults = 0 => \A b \in g.owed : b \in g.seen \cup g.skipped \/ b >= c
       PROVE  WalkHolds(v)
  <2> DEFINE cursor == [agent |-> c, of |-> of, offset |-> at]
  <2>1. /\ cursor \in [agent : Agents \cup {NoAgent}, of : Agents \cup {NoAgent}, offset : Nat]
        /\ cursor.agent = c /\ cursor.of = of /\ cursor.offset = at
    OBVIOUS
  <2>2. v = [g EXCEPT !.pc = "idle", !.cursor = cursor, !.todo = {}]
    BY <1>11 DEF Cut
  <2> HIDE DEF cursor
  <2>3. /\ v \in Walks /\ v.pc = "idle" /\ v.cursor = cursor /\ v.todo = {} /\ v.got = g.got
        /\ v.seen = g.seen /\ v.skipped = g.skipped /\ v.owed = g.owed
        /\ v.torn = g.torn /\ v.from = g.from /\ v.early = g.early /\ v.identity = g.identity
    BY <1>6, <2>1, <2>2 DEF Walks
  <2>4. WalkSafe(v)
    BY <1>7, <2>3 DEF WalkSafe
  <2>5. \A b \in Agents : b > c => g.got[b] = 0
    <3>1. \A b \in Agents : b > c => b > a
      BY <1>1, <1>11, AgentNumbers
    <3> QED BY <1>8, <3>1
  <2>6. WholeBut(v, c)
    BY <1>11, <2>3 DEF WholeBut
  <2>7. c # NoAgent
    BY AgentNumbers
  <2>8. faults = 0 /\ Alone(c) => c \in Recorded
    BY <1>2, <1>6, <1>11
  <2>9. AtCursor(v)
    BY <1>11, <2>1, <2>3, <2>5, <2>6, <2>7, <2>8 DEF AtCursor, Stands
  <2> QED BY <2>3, <2>4, <2>9 DEF WalkHolds, Reading
<1>12. ASSUME end < Size(content) PROVE WalkHolds(v)
  <2>1. NextCursor(w, a, k, end) = [agent |-> a, of |-> k, offset |-> end]
    BY <1>12 DEF NextCursor, content
  <2>2. v = Cut(a, k, end)
    BY <1>4, <1>12, <2>1 DEF Cut
  <2>3. faults = 0 => \A b \in g.owed : b \in g.seen \cup g.skipped \/ b >= a
    <3>1. \A b \in rest : b >= a
      BY <1>1, AgentNumbers
    <3> QED BY <1>10, <3>1
  <2>4. Stands(g, a, k, end) /\ a >= a /\ k \in Agents \cup {NoAgent} /\ end \in Nat
    BY <1>1, <1>3, <1>6, AgentNumbers DEF Stands
  <2>5. WholeBut(g, a) /\ a \in w.todo /\ a \in Agents
    BY <1>1, <1>9
  <2> QED BY <1>11, <2>2, <2>3, <2>4, <2>5
<1>13. ASSUME ~(end < Size(content)), w.items + 1 >= PageItems, w.todo # {a} PROVE WalkHolds(v)
  <2> DEFINE n == Min(rest)
  <2>1. rest # {}
    BY <1>1, <1>13 DEF rest
  <2>2. n \in rest /\ \A b \in rest : n <= b
    BY <1>1, <2>1, AgentNumbers, MinIsMember
  <2>3. NextCursor(w, a, k, end) = [agent |-> n, of |-> NoAgent, offset |-> 0]
    BY <1>13 DEF NextCursor, content, rest
  <2>4. v = Cut(n, NoAgent, 0)
    BY <1>4, <1>13, <2>3 DEF Cut
  <2> HIDE DEF n
  <2>5. n \in w.todo /\ n \in Agents /\ n > a /\ n >= a /\ g.got[n] = 0
    <3>1. n \in w.todo /\ n \in Agents /\ n > a /\ g.got[n] = 0
      BY <1>1, <1>8, <2>2 DEF rest
    <3>2. n \in Nat /\ a \in Nat
      BY <1>1, <3>1, AgentNumbers
    <3> QED BY <3>1, <3>2
  <2>6. end = Size(content)
    BY <1>3, <1>13
  <2>7. WholeBut(g, n)
    BY <1>6, <1>9, <2>6, AgentNumbers DEF WholeBut, Walks
  <2>8. faults = 0 => \A b \in g.owed : b \in g.seen \cup g.skipped \/ b >= n
    <3>1. \A b \in rest : b >= n
      BY <2>2
    <3> QED BY <1>10, <3>1
  <2>9. Stands(g, n, NoAgent, 0) /\ NoAgent \in Agents \cup {NoAgent} /\ 0 \in Nat
    BY <2>5 DEF Stands
  <2> QED BY <1>11, <2>4, <2>5, <2>7, <2>8, <2>9
<1>14. ASSUME ~(end < Size(content)), ~(w.items + 1 >= PageItems /\ w.todo # {a}) PROVE WalkHolds(v)
  <2>1. v = Moves(g, rest)
    BY <1>4, <1>14
  <2>2. end = Size(content)
    BY <1>3, <1>14
  <2>3. WalkHolds(Moves(g, rest))
    BY <1>1, <1>7, <1>8, <1>9, <1>10, <2>2, MovesHolds
  <2> QED BY <2>1, <2>3
<1> QED BY <1>12, <1>13, <1>14 DEF v, a

\* Bytes of another content than the cursor's are refused; that is for an agent whose key
\* is another's too.
LEMMA PageHolds ==
  ASSUME NEW w, WalkSafe(w), AtAgent(w), NEW k \in Agents, Key[k] = Key[Min(w.todo)],
         Alone(Min(w.todo)) => stage[Min(w.todo)] # "running"
  PROVE  WalkHolds(Page(w, Min(w.todo), k))
<1> DEFINE a == Min(w.todo)
<1>1. a \in Agents
  BY FirstOfTodo
<1>2. CASE Accepted(w, k)
  BY <1>2, GivenHolds
<1>3. CASE ~Accepted(w, k)
  <2>1. ASSUME Alone(a) PROVE FALSE
    <3>1. /\ w.got[a] = w.offset /\ (w.of = w.from[a] \/ (w.of = NoAgent /\ w.offset = 0))
          /\ w.from[a] = NoAgent => w.got[a] = 0
          /\ w.from[a] # NoAgent => Key[w.from[a]] = Key[a] /\ w.got[a] \in Content[w.from[a]]
          /\ w.from[a] \in Agents \cup {NoAgent}
      BY <1>1 DEF AtAgent, Stands, WalkSafe, Walks
    <3>2. k = a /\ w.from[a] \in {NoAgent, a}
      BY <2>1, <3>1 DEF Alone
    <3>3. 0 \in Content[a]
      BY <1>1, RunReadersAssumption DEF IsContent
    <3> HIDE DEF a
    <3>4. w.of \in {NoAgent, k} /\ w.offset \in Content[k]
      BY <3>1, <3>2, <3>3
    <3> QED BY <1>3, <3>4 DEF Accepted, OnBoundary
  <2>2. Page(w, a, k) = Skips(w, a)
    BY <1>3 DEF Page
  <2> QED BY <2>1, <2>2, SkipsHolds
<1> QED BY <1>2, <1>3

\* The record a key is looked up by is of that key, and there is one if there is any.
LEMMA LastRecords ==
  ASSUME NEW a \in Agents, NEW records
  PROVE  /\ \A k \in JournalKeys(a, records) : k \in Agents /\ Key[k] = Key[a] /\ records[k] # NoAgent
         /\ (\E k \in Agents : Key[k] = Key[a] /\ records[k] # NoAgent) => JournalKeys(a, records) # {}
<1> DEFINE found == OfKey(a, records)
           places == {Space[k] : k \in found}
<1>1. JournalKeys(a, records) = {k \in found : \A j \in found : Space[j] <= Space[k]}
  BY DEF JournalKeys, LastOf
<1>2. found = {k \in Agents : Key[k] = Key[a] /\ records[k] # NoAgent}
  BY DEF OfKey
<1>3. ASSUME found # {} PROVE JournalKeys(a, records) # {}
  <2> DEFINE f == [k \in found |-> Space[k]]
  <2>1. IsFiniteSet(found)
    BY <1>2, RunReadersAssumption, FS_Subset
  <2>2. places \in SUBSET Nat /\ places # {}
    <3>1. \A k \in found : Space[k] \in Nat
      BY <1>2, RunReadersAssumption
    <3>2. PICK k \in found : TRUE
      BY <1>3
    <3> HIDE DEF found
    <3>3. Space[k] \in places
      BY <3>2
    <3> QED BY <3>1, <3>3
  <2>3. f \in Surjection(found, places)
    <3>1. f \in [found -> places]
      OBVIOUS
    <3>2. \A y \in places : \E k \in found : f[k] = y
      OBVIOUS
    <3> HIDE DEF f, places, found
    <3> QED BY <3>1, <3>2 DEF Surjection
  <2>4. IsFiniteSet(places)
    BY <2>1, <2>3, FS_Surjection
  <2>5. Max(places) \in places /\ \A y \in places : y <= Max(places)
    BY <2>2, <2>4, FiniteMax
  <2>6. PICK k \in found : Space[k] = Max(places)
    BY <2>5
  <2>7. k \in JournalKeys(a, records)
    BY <1>1, <2>5, <2>6
  <2> QED BY <2>7
<1> QED BY <1>1, <1>2, <1>3

\* The listing goes on at the cursor's agent; one that was recorded in an undamaged run
\* is still there.
LEMMA ListsHolds ==
  ASSUME NEW w, WalkSafe(w), AtCursor(w), NEW records,
         faults = 0 => records = journal.records /\ journal.reads
  PROVE  WalkHolds(Lists(w, records))
<1> DEFINE c == w.cursor.agent
           readable == {a \in Agents : stage[a] # "new" /\ Located(a, records)}
           from == {a \in readable : a >= c}
           v == Lists(w, records)
<1>1. w \in Walks /\ w.owed \in SUBSET Agents /\ w.seen \in SUBSET Agents
      /\ c \in Agents \cup {NoAgent} /\ w.cursor.offset \in Nat
      /\ w.cursor.of \in Agents \cup {NoAgent}
  BY DEF WalkSafe, Walks
<1>2. faults = 0 => /\ \A a \in readable : Alone(a) => a \in Recorded
                    /\ Recorded \subseteq readable /\ w.owed \subseteq Recorded
  <2> SUFFICES ASSUME faults = 0
               PROVE  /\ \A a \in readable : Alone(a) => a \in Recorded
                      /\ Recorded \subseteq readable /\ w.owed \subseteq Recorded
    OBVIOUS
  <2>1. ASSUME NEW a \in readable, Alone(a) PROVE a \in Recorded
    <3>1. Usable(a) \/ \E k \in JournalKeys(a, records) : TRUE
      BY DEF Located
    <3>2. Usable(a) \/ records[a] # NoAgent
      BY <2>1, <3>1, LastRecords DEF Alone
    <3> QED BY <3>2 DEF Recorded
  <2>2. ASSUME NEW a \in Recorded PROVE a \in readable
    <3>1. a \in Agents /\ stage[a] # "new" /\ (Usable(a) \/ records[a] # NoAgent)
      BY <2>2 DEF Recorded
    <3>2. Usable(a) \/ JournalKeys(a, records) # {}
      BY <3>1, LastRecords
    <3> QED BY <3>1, <3>2 DEF Located
  <2> QED BY <2>1, <2>2 DEF WalkSafe
<1>3. c # NoAgent => w.cursor # FirstCursor
  BY DEF FirstCursor
<1>4. c = NoAgent => w.cursor = FirstCursor /\ w.cursor.offset = 0 /\ w.cursor.of = NoAgent
  BY DEF AtCursor, FirstCursor
<1>5. readable \in SUBSET Agents /\ from \in SUBSET Agents /\ \A a \in readable : stage[a] # "new"
  OBVIOUS
<1>6. /\ v = IF w.cursor # FirstCursor /\ c \notin readable THEN [w EXCEPT !.pc = "refused"]
             ELSE [Moves(w, from) EXCEPT !.of = w.cursor.of, !.offset = w.cursor.offset]
  BY DEF Lists
<1>7. \A a : a \in from <=> a \in readable /\ a >= c
  OBVIOUS
<1> HIDE DEF readable, from, v
<1>8. ASSUME c # NoAgent, c \notin readable PROVE WalkHolds(v)
  <2>1. v = [w EXCEPT !.pc = "refused"]
    BY <1>3, <1>6, <1>8
  <2>2. faults = 0 => ~Alone(c)
    BY <1>2, <1>8 DEF AtCursor
  <2>3. /\ v \in Walks /\ v.pc = "refused" /\ v.todo = w.todo /\ v.got = w.got /\ v.cursor = w.cursor
        /\ v.seen = w.seen /\ v.skipped = w.skipped /\ v.owed = w.owed
        /\ v.torn = w.torn /\ v.from = w.from /\ v.early = w.early /\ v.identity = w.identity
    BY <1>1, <2>1 DEF Walks
  <2>4. WalkSafe(v)
    BY <2>2, <2>3 DEF WalkSafe
  <2> QED BY <2>3, <2>4 DEF WalkHolds, Listing, Reading
<1>9. ASSUME c = NoAgent \/ c \in readable, from = {} PROVE WalkHolds(v)
  <2>1. c = NoAgent
    <3>1. ASSUME c \in Agents PROVE c >= c
      <4> HIDE DEF c
      <4>1. c \in Nat
        BY <3>1, AgentNumbers
      <4> QED BY <4>1
    <3> QED BY <1>1, <1>5, <1>7, <1>9, <3>1
  <2>2. v = [[w EXCEPT !.pc = "ended", !.todo = {}] EXCEPT !.of = w.cursor.of, !.offset = w.cursor.offset]
    BY <1>4, <1>6, <1>9, <2>1 DEF Moves
  <2>3. /\ v \in Walks /\ v.pc = "ended" /\ v.todo = {} /\ v.got = w.got /\ v.seen = w.seen
        /\ v.skipped = w.skipped /\ v.owed = w.owed /\ v.torn = w.torn
        /\ v.from = w.from /\ v.early = w.early /\ v.identity = w.identity
    BY <1>1, <2>2 DEF Walks
  <2>4. WalkSafe(v)
    BY <2>3 DEF WalkSafe
  <2>5. WholeBut(v, NoAgent)
    BY <2>1, <2>3 DEF AtCursor, WholeBut
  <2>6. faults = 0 => v.owed \subseteq v.seen \cup v.skipped
    <3> SUFFICES ASSUME faults = 0, NEW a \in w.owed, a \notin w.seen \cup w.skipped PROVE FALSE
      BY <2>3
    <3>1. a \in readable /\ a >= c
      BY <1>2 DEF AtCursor
    <3> QED BY <1>7, <1>9, <3>1
  <2> QED BY <2>3, <2>4, <2>5, <2>6 DEF WalkHolds, AtEnd, Listing, Reading
<1>10. ASSUME c = NoAgent \/ c \in readable, from # {} PROVE WalkHolds(v)
  <2> DEFINE m == Min(from)
  <2>1. m \in from /\ m \in Agents /\ m \in Nat /\ m >= c /\ c \in Nat /\ \A b \in from : m <= b
    <3>1. from \in SUBSET Nat /\ from # {}
      BY <1>5, <1>7, <1>10, AgentNumbers
    <3>2. m \in from /\ \A b \in from : m <= b
      BY <3>1, MinIsMember
    <3>3. c \in Nat
      <4>1. c \in Agents \cup {NoAgent}
        BY <1>1
      <4>2. Agents \cup {NoAgent} \subseteq Nat
        BY AgentNumbers DEF NoAgent
      <4> HIDE DEF c
      <4> QED BY <4>1, <4>2
    <3> HIDE DEF m
    <3> QED
      BY <1>5, <1>7, <3>1, <3>2, <3>3, AgentNumbers
  <2>2. v = [[w EXCEPT !.pc = "artifact", !.todo = from, !.of = NoAgent, !.offset = 0]
             EXCEPT !.of = w.cursor.of, !.offset = w.cursor.offset]
    BY <1>4, <1>6, <1>10 DEF Moves
  <2>3. /\ v \in Walks /\ v.pc = "artifact" /\ v.todo = from /\ v.of = w.cursor.of /\ v.offset = w.cursor.offset /\ v.got = w.got
        /\ v.seen = w.seen /\ v.skipped = w.skipped /\ v.owed = w.owed
        /\ v.torn = w.torn /\ v.from = w.from /\ v.early = w.early /\ v.identity = w.identity
    BY <1>1, <1>5, <2>2 DEF Walks
  <2>4. Min(v.todo) = m
    BY <2>3
  <2> HIDE DEF m
  <2>5. WalkSafe(v)
    BY <1>5, <1>7, <2>3 DEF WalkSafe
  <2>6. c # NoAgent => m = c
    <3> SUFFICES ASSUME c # NoAgent PROVE m = c
      OBVIOUS
    <3>1. c \in from
      BY <1>7, <1>10, <2>1
    <3> QED BY <2>1, <3>1
  <2>7. Stands(v, m, v.of, v.offset)
    <3>1. c = NoAgent => w.got[m] = 0
      BY <2>1, AgentNumbers DEF AtCursor
    <3> QED BY <1>4, <2>3, <2>6, <3>1 DEF AtCursor, Stands
  <2>8. \A b \in Agents : b > m => v.got[b] = 0
    <3>1. \A b \in Agents : b > m => b > c
      BY <2>1, AgentNumbers
    <3> QED BY <2>3, <3>1 DEF AtCursor
  <2>9. WholeBut(v, m)
    BY <1>1, <2>3, <2>6, AgentNumbers DEF AtCursor, WholeBut
  <2>10. faults = 0 => /\ \A b \in v.todo : Alone(b) => b \in Recorded
                       /\ v.owed \subseteq v.seen \cup v.skipped \cup v.todo
    <3> SUFFICES ASSUME faults = 0
                 PROVE  /\ \A b \in from : Alone(b) => b \in Recorded
                        /\ w.owed \subseteq w.seen \cup w.skipped \cup from
      BY <2>3
    <3> QED BY <1>2, <1>7 DEF AtCursor
  <2>11. AtAgent(v)
    BY <1>10, <2>3, <2>4, <2>7, <2>8, <2>9, <2>10 DEF AtAgent
  <2> QED BY <2>3, <2>5, <2>11 DEF WalkHolds, Listing
<1>11. WalkHolds(v)
  BY <1>8, <1>9, <1>10
<1> QED BY <1>11 DEF v

\* A lookup of the journal is answered by the journal, or, when the file cannot be read,
\* by nothing.
Answers(records) ==
  /\ \A a \in Agents : records[a] # NoAgent => journal.records[a] # NoAgent
  /\ faults = 0 => records = journal.records /\ journal.reads

LEMMA ContinuesHolds ==
  ASSUME StoreInv, NEW w, WalkHolds(w), w.pc \in {"stat", "parse"}, NEW records, Answers(records)
  PROVE  WalkHolds(Continues(w, records))
<1>1. WalkSafe(w) /\ w \in Walks /\ w.reading \in BOOLEAN
  BY DEF WalkHolds, WalkSafe, Walks
<1>2. CASE ~w.reading
  <2>1. AtCursor(w)
    BY <1>2 DEF WalkHolds, Listing
  <2>2. Continues(w, records) = Lists(w, records)
    BY <1>2 DEF Continues
  <2> QED BY <1>1, <2>1, <2>2, ListsHolds DEF Answers
<1>3. CASE w.reading
  <2> DEFINE a == Min(w.todo)
  <2>1. AtAgent(w)
    BY <1>3 DEF WalkHolds, Reading
  <2>2. a \in Agents
    BY <1>1, <2>1, FirstOfTodo
  <2>3. CASE JournalKeys(a, records) = {}
    <3>1. Continues(w, records) = Skips(w, a)
      BY <1>3, <2>3 DEF Continues
    <3>2. records[a] = NoAgent
      BY <2>2, <2>3, LastRecords
    <3>3. faults # 0 \/ ~Alone(a)
      BY <2>1, <3>2 DEF Answers, AtAgent
    <3> QED BY <1>1, <2>1, <3>1, <3>3, SkipsHolds
  <2>4. CASE JournalKeys(a, records) # {}
    <3>1. PICK k \in JournalKeys(a, records) : Continues(w, records) = Page(w, a, k)
      BY <1>3, <2>4 DEF Continues
    <3>2. k \in Agents /\ Key[k] = Key[a] /\ records[k] # NoAgent
      BY <2>2, <3>1, LastRecords
    <3>3. Alone(a) => stage[a] # "running"
      BY <2>2, <3>2 DEF Alone, Answers, StoreInv
    <3> QED BY <1>1, <2>1, <3>1, <3>2, <3>3, PageHolds
  <2> QED BY <2>3, <2>4
<1> QED BY <1>1, <1>2, <1>3

\* A step of the walk that leaves the store's files alone.
LEMMA WalkSteps ==
  ASSUME NEW v, WalkHolds(v), walk' = v, StoreInv', UNCHANGED <<stage, files, journal, faults>>,
         journal.identity \in Nat
  PROVE  WalkInv'
<1>1. Grown /\ Recorded' = Recorded
  BY DEF Grown, Recorded, Usable
<1>2. WalkHolds(v)'
  BY <1>1, HoldsKept
<1> QED BY <1>2 DEF WalkInv

\* A request begins where the client stands, and owes the first time what is recorded.
LEMMA AskHolds ==
  ASSUME StoreInv, NEW w, WalkHolds(w), w.pc = "idle", NEW owed \in SUBSET Agents,
         owed = w.owed \/ (w.cursor = FirstCursor /\ owed = Recorded)
  PROVE  WalkHolds([w EXCEPT !.pc = "stat", !.reading = FALSE, !.items = 0, !.owed = owed])
<1> DEFINE v == [w EXCEPT !.pc = "stat", !.reading = FALSE, !.items = 0, !.owed = owed]
<1>1. w \in Walks /\ WalkSafe(w) /\ AtCursor(w)
  BY DEF WalkHolds, WalkSafe, Listing
<1>2. /\ v \in Walks /\ v.pc = "stat" /\ v.reading = FALSE /\ v.cursor = w.cursor /\ v.todo = w.todo
      /\ v.got = w.got /\ v.seen = w.seen /\ v.skipped = w.skipped /\ v.owed = owed
      /\ v.torn = w.torn /\ v.from = w.from /\ v.early = w.early /\ v.identity = w.identity
  BY <1>1 DEF Walks
<1> HIDE DEF v
<1>3. WalkSafe(v)
  BY <1>1, <1>2 DEF WalkSafe
<1>4. w.cursor = FirstCursor => \A a \in Agents : a >= w.cursor.agent
  BY AgentNumbers DEF FirstCursor, NoAgent
<1>5. AtCursor(v)
  BY <1>1, <1>2, <1>4 DEF AtCursor, WholeBut, Stands
<1>6. WalkHolds(v)
  BY <1>2, <1>3, <1>5 DEF WalkHolds, Reading
<1> QED BY <1>6 DEF v

\* The journal is looked up for an agent whose artifact does not serve it.
LEMMA LookupHolds ==
  ASSUME StoreInv, NEW w, WalkHolds(w), w.pc = "artifact", ~Usable(Min(w.todo))
  PROVE  WalkHolds([w EXCEPT !.pc = "stat", !.reading = TRUE])
<1> DEFINE v == [w EXCEPT !.pc = "stat", !.reading = TRUE]
<1>1. w \in Walks /\ WalkSafe(w) /\ AtAgent(w)
  BY DEF WalkHolds, WalkSafe, Reading
<1>2. /\ v \in Walks /\ v.pc = "stat" /\ v.reading = TRUE /\ v.todo = w.todo /\ v.offset = w.offset
      /\ v.of = w.of /\ v.cursor = w.cursor
      /\ v.got = w.got /\ v.seen = w.seen /\ v.skipped = w.skipped /\ v.owed = w.owed
      /\ v.torn = w.torn /\ v.from = w.from /\ v.early = w.early /\ v.identity = w.identity
  BY <1>1 DEF Walks
<1> HIDE DEF v
<1>3. WalkSafe(v)
  BY <1>1, <1>2 DEF WalkSafe
<1>4. faults = 0 /\ Alone(Min(w.todo)) => journal.records[Min(w.todo)] # NoAgent
  <2>1. Min(w.todo) \in w.todo
    BY <1>1, FirstOfTodo
  <2>2. faults = 0 /\ Alone(Min(w.todo)) => Min(w.todo) \in Recorded
    BY <1>1, <2>1 DEF AtAgent
  <2> QED BY <2>2 DEF Recorded
<1>5. AtAgent(v)
  BY <1>1, <1>2, <1>4 DEF AtAgent, WholeBut, Stands
<1>6. WalkHolds(v)
  BY <1>2, <1>3, <1>5 DEF WalkHolds, Listing
<1> QED BY <1>6 DEF v

\* The identity of the file is noted, or forgotten.
LEMMA NotesHold ==
  ASSUME NEW w, WalkHolds(w), NEW pc, NEW id \in Nat, id <= journal.identity,
         pc = w.pc \/ (w.pc = "stat" /\ pc = "parse")
  PROVE  WalkHolds([w EXCEPT !.pc = pc, !.identity = id])
<1> DEFINE v == [w EXCEPT !.pc = pc, !.identity = id]
<1>1. w \in Walks /\ WalkSafe(w)
  BY DEF WalkHolds, WalkSafe
<1>2. /\ v \in Walks /\ v.pc = pc /\ v.reading = w.reading /\ v.cursor = w.cursor /\ v.todo = w.todo
      /\ v.of = w.of /\ v.offset = w.offset /\ v.got = w.got /\ v.seen = w.seen /\ v.skipped = w.skipped
      /\ v.owed = w.owed /\ v.torn = w.torn /\ v.from = w.from /\ v.early = w.early /\ v.identity = id
  BY <1>1 DEF Walks
<1> HIDE DEF v
<1>3. WalkSafe(v)
  BY <1>1, <1>2 DEF WalkSafe
<1>4. AtCursor(w) => AtCursor(v)
  BY <1>2 DEF AtCursor, WholeBut, Stands
<1>5. AtAgent(w) => AtAgent(v)
  BY <1>2 DEF AtAgent, WholeBut, Stands
<1>6. AtEnd(w) => AtEnd(v)
  BY <1>2 DEF AtEnd, WholeBut
<1>7. /\ Listing(v) => Listing(w)
      /\ Reading(v) => Reading(w)
      /\ v.pc = "ended" => w.pc = "ended"
  BY <1>2 DEF Listing, Reading
<1>8. WalkHolds(v)
  BY <1>3, <1>4, <1>5, <1>6, <1>7 DEF WalkHolds
<1> QED BY <1>8 DEF v

\* The steps of the walk.
LEMMA WalkStepsKept ==
  ASSUME WalkInv, Ask \/ ReadArtifact \/ StatJournal \/ ParseJournal
  PROVE  WalkInv'
<1>1. PICK w : w = walk
  OBVIOUS
<1>2. /\ StoreInv /\ WalkHolds(w) /\ WalkSafe(w) /\ w \in Walks
      /\ (faults = 0 => journal.reads) /\ journal.reads \in BOOLEAN
      /\ journal.records \in Records /\ journal.identity \in Nat
      /\ cache \in [run : {"none", "this", "other"}, identity : Nat, records : Records]
  BY <1>1 DEF WalkInv, WalkHolds, WalkSafe, StoreInv
<1>3. ASSUME UNCHANGED storeVars, other' = other PROVE StoreInv' /\ UNCHANGED <<stage, files, journal, faults>>
  BY <1>2, <1>3 DEF StoreInv, storeVars
<1>4. CASE Ask
  <2> DEFINE owed == IF w.cursor = FirstCursor THEN Recorded ELSE w.owed
  <2>1. w.pc = "idle" /\ UNCHANGED storeVars /\ other' = other
    BY <1>1, <1>4 DEF Ask
  <2>2. walk' = [w EXCEPT !.pc = "stat", !.reading = FALSE, !.items = 0, !.owed = owed]
    BY <1>1, <1>2, <1>4 DEF Ask, Walks
  <2>3. PICK o : o = owed
    OBVIOUS
  <2>4. o \in SUBSET Agents /\ (o = w.owed \/ (w.cursor = FirstCursor /\ o = Recorded))
    BY <1>2, <2>3 DEF Recorded, Walks
  <2>5. PICK v : v = [w EXCEPT !.pc = "stat", !.reading = FALSE, !.items = 0, !.owed = o]
    OBVIOUS
  <2>6. WalkHolds(v)
    BY <1>2, <2>1, <2>4, <2>5, AskHolds
  <2>7. walk' = v
    BY <2>2, <2>3, <2>5
  <2> QED BY <1>2, <1>3, <2>1, <2>6, <2>7, WalkSteps
<1>5. CASE ReadArtifact
  <2>1. w.pc = "artifact" /\ UNCHANGED storeVars /\ other' = other
    BY <1>1, <1>5 DEF ReadArtifact
  <2>2. AtAgent(w) /\ Min(w.todo) \in Agents
    BY <1>2, <2>1, FirstOfTodo DEF WalkHolds, Reading
  <2>3. PICK v : v = IF Usable(Min(w.todo)) THEN Page(w, Min(w.todo), Min(w.todo))
                     ELSE [w EXCEPT !.pc = "stat", !.reading = TRUE]
    OBVIOUS
  <2>4. walk' = v
    BY <1>1, <1>5, <2>3 DEF ReadArtifact
  <2>5. WalkHolds(v)
    <3>1. CASE Usable(Min(w.todo))
      <4>1. stage[Min(w.todo)] # "running"
        BY <1>2, <2>2, <3>1 DEF StoreInv, Usable
      <4>2. Key[Min(w.todo)] = Key[Min(w.todo)]
        OBVIOUS
      <4> QED BY <1>2, <2>2, <2>3, <3>1, <4>1, <4>2, PageHolds
    <3>2. CASE ~Usable(Min(w.todo))
      BY <1>2, <2>1, <2>3, <3>2, LookupHolds
    <3> QED BY <3>1, <3>2
  <2> QED BY <1>2, <1>3, <2>1, <2>4, <2>5, WalkSteps
<1>6. CASE StatJournal
  <2>1. w.pc = "stat" /\ UNCHANGED storeVars /\ other' = other
    BY <1>1, <1>6 DEF StatJournal
  <2>2. PICK id : id = journal.identity
    OBVIOUS
  <2>3. PICK records : records = cache.records
    OBVIOUS
  <2>4. PICK v : v = IF Cached("this", journal.identity) THEN Continues(w, records)
                     ELSE [w EXCEPT !.pc = "parse", !.identity = id]
    OBVIOUS
  <2>5. walk' = v
    BY <1>1, <1>6, <2>2, <2>3, <2>4 DEF StatJournal
  <2>6. WalkHolds(v)
    <3>1. CASE Cached("this", journal.identity)
      <4>1. Answers(records)
        BY <1>2, <2>3, <3>1 DEF Answers, Cached, StoreInv
      <4> QED BY <1>2, <2>1, <2>4, <3>1, <4>1, ContinuesHolds
    <3>2. CASE ~Cached("this", journal.identity)
      <4>1. id \in Nat /\ id <= journal.identity
        BY <1>2, <2>2
      <4> QED BY <1>2, <2>1, <2>4, <3>2, <4>1, NotesHold
    <3> QED BY <3>1, <3>2
  <2> QED BY <1>2, <1>3, <2>1, <2>5, <2>6, WalkSteps
<1>7. CASE ParseJournal
  <2>1. /\ w.pc = "parse" /\ UNCHANGED <<stage, files, journal, otherReads, faults, other>>
        /\ failure' = ~journal.reads
        /\ cache' = IF journal.reads THEN Caches("this", w.identity, journal.records) ELSE cache
    BY <1>1, <1>7 DEF ParseJournal
  <2>2. PICK records : records = IF journal.reads THEN journal.records ELSE NoRecords
    OBVIOUS
  <2>3. PICK u : u = Continues(w, records)
    OBVIOUS
  <2>4. PICK v : v = [u EXCEPT !.pc = u.pc, !.identity = 0]
    OBVIOUS
  <2>5. Answers(records)
    BY <1>2, <2>2 DEF Answers, NoRecords
  <2>6. WalkHolds(u)
    BY <1>2, <2>1, <2>3, <2>5, ContinuesHolds
  <2>7. u \in Walks
    BY <2>6 DEF WalkHolds, WalkSafe
  <2>8. WalkHolds(v)
    <3>1. 0 \in Nat /\ 0 <= journal.identity
      BY <1>2
    <3> QED BY <2>4, <2>6, <3>1, NotesHold
  <2>9. walk' = v
    <3>1. walk' = [u EXCEPT !.identity = 0]
      BY <1>1, <1>7, <2>2, <2>3 DEF ParseJournal
    <3>2. [u EXCEPT !.identity = 0] = [u EXCEPT !.pc = u.pc, !.identity = 0]
      BY <2>7 DEF Walks
    <3> QED BY <2>4, <3>1, <3>2
  <2>10. StoreInv'
    <3>1. w.identity \in Nat /\ w.identity <= journal.identity
      BY <1>2 DEF WalkSafe, Walks
    <3>2. /\ cache' \in [run : {"none", "this", "other"}, identity : Nat, records : Records]
          /\ cache'.run = "this" => /\ cache'.identity <= journal.identity
                                    /\ cache'.identity = journal.identity => cache'.records = journal.records
      BY <1>2, <2>1, <3>1 DEF Caches, StoreInv
    <3> QED BY <1>2, <2>1, <3>2 DEF StoreInv
  <2> QED BY <1>2, <2>1, <2>8, <2>9, <2>10, WalkSteps
<1> QED BY <1>4, <1>5, <1>6, <1>7

\* The walk goes on while the run writes, files are damaged and others read.
LEMMA WalkKept == WalkInv /\ Walking => WalkInv'
BY WritesWalkKept, DamageKept, OtherKept, WalkStepsKept DEF Walking

LEMMA WalkStays == WalkInv /\ UNCHANGED walkVars => WalkInv'
<1> SUFFICES ASSUME WalkInv, UNCHANGED walkVars PROVE WalkInv'
  OBVIOUS
<1>1. PICK w : w = walk
  OBVIOUS
<1>2. /\ StoreInv /\ WalkHolds(w) /\ journal.identity \in Nat /\ walk' = w
      /\ UNCHANGED <<stage, files, journal, faults>>
  BY <1>1 DEF WalkInv, walkVars, storeVars, StoreInv
<1>3. StoreInv'
  BY <1>2 DEF StoreInv, walkVars, storeVars
<1> QED BY <1>2, <1>3, WalkSteps

-------------------------------------------------------------------------------
(* What the clients are given.                                              *)

ReadersInv ==
  /\ op \in {"walk", "read", "result", "transcript", "inventory"}
  /\ WalkInv /\ ResultInv /\ TranscriptInv /\ InventoryInv

\* The invariant holds in every reachable state, for all contents, page limits, runs,
\* events and damage.
THEOREM ReadersInvariance == ReadersSpec => []ReadersInv
<1>1. ReadersInit => ReadersInv
  <2>1. ReadersInit => op \in {"walk", "read", "result", "transcript", "inventory"}
    BY DEF ReadersInit
  <2> QED BY <2>1, WalkBegins, ResultBegins, TranscriptBegins, InventoryBegins DEF ReadersInv
<1>2. ReadersInv /\ [ReadersNext]_readersVars => ReadersInv'
  <2> SUFFICES ASSUME ReadersInv, [ReadersNext]_readersVars PROVE ReadersInv'
    OBVIOUS
  <2>1. op' = op
    BY DEF ReadersNext, Walking, ReadingResult, Transcribing, Inventory, readersVars
  <2>2. WalkInv'
    BY WalkKept, WalkStays
      DEF ReadersInv, ReadersNext, ReadingResult, Transcribing, Inventory, readersVars
  <2>3. ResultInv'
    BY ResultKept, ResultStays
      DEF ReadersInv, ReadersNext, Walking, Transcribing, Inventory, readersVars
  <2>4. TranscriptInv'
    BY TranscriptKept, TranscriptStays
      DEF ReadersInv, ReadersNext, Walking, ReadingResult, Inventory, readersVars
  <2>5. InventoryInv'
    BY InventoryKept, InventoryStays
      DEF ReadersInv, ReadersNext, Walking, ReadingResult, Transcribing, readersVars
  <2> QED BY <2>1, <2>2, <2>3, <2>4, <2>5 DEF ReadersInv
<1> QED BY <1>1, <1>2, PTL DEF ReadersSpec

\* Whoever follows the cursors of a result or of a walk misses and repeats no byte and is
\* given bytes of one call of the agent's key only; an agent whose key no other call has is
\* given its own result, after its call returned, and in an undamaged run none of these is
\* left out that was recorded when the walk began.
THEOREM ResultsAreExact == ReadersSpec => []ResultsExact
<1>1. ReadersInv => ResultsExact
  <2> SUFFICES ASSUME ReadersInv PROVE ResultsExact
    OBVIOUS
  <2>1. StoreInv /\ WalkHolds(walk) /\ WalkSafe(walk) /\ walk \in Walks
    BY DEF ReadersInv, WalkInv, WalkHolds, WalkSafe
  <2>2. ReadersTypeOK
    BY <2>1 DEF ReadersInv, StoreInv, ResultInv, TranscriptInv, InventoryInv, ReadersTypeOK,
      Stages, Records
  <2>3. walk.pc = "ended" => AtEnd(walk)
    BY <2>1 DEF WalkHolds
  <2>4. walk.pc = "ended" => \A a \in walk.seen \ walk.skipped : walk.got[a] = Size(Content[walk.from[a]])
    BY <2>1, <2>3, AgentNumbers DEF AtEnd, WholeBut, Walks
  <2>5. PagesExact
    BY <2>1, <2>3, <2>4 DEF PagesExact, WalkSafe, AtEnd, ReadersInv, ResultInv
  <2>6. OwnResult
    <3> SUFFICES ASSUME NEW a \in walk.seen
                 PROVE  Key[walk.from[a]] = Key[a] /\ (Alone(a) => walk.from[a] = a /\ a \notin walk.early)
      BY DEF OwnResult
    <3>1. a \in Agents /\ walk.from[a] \in Agents \cup {NoAgent} /\ walk.from[a] # NoAgent
      BY <2>1 DEF WalkSafe, Walks
    <3>2. Key[walk.from[a]] = Key[a] /\ (a \in walk.early => ~Alone(a))
      BY <2>1, <3>1 DEF WalkSafe
    <3>3. Alone(a) => walk.from[a] = a
      BY <3>1, <3>2 DEF Alone
    <3> QED BY <3>2, <3>3
  <2> QED BY <2>2, <2>5, <2>6 DEF ResultsExact
<1> QED BY <1>1, ReadersInvariance, PTL

\* The pages of a transcript are the agent's events, each once and in order, and the last
\* of them leaves out nothing that was recorded before it was asked for.
THEOREM TranscriptsAreExact == ReadersSpec => []TranscriptExact
<1>1. ReadersInv => TranscriptExact
  BY DEF ReadersInv, TranscriptInv, TranscriptExact
<1> QED BY <1>1, ReadersInvariance, PTL

\* A client that pages the inventory is given every run that keeps a status of its filter,
\* once and in order of creation, while runs come and change status.
THEOREM InventoriesAreExact == ReadersSpec => []InventoryExact
<1>1. ReadersInv => InventoryExact
  BY DEF ReadersInv, InventoryInv, InventoryExact
<1> QED BY <1>1, ReadersInvariance, PTL
================================================================================
