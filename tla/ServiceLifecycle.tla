--------------------------- MODULE ServiceLifecycle ---------------------------
(***************************************************************************)
(* The life of one WorkflowService of src/workflowService.ts: initialize,   *)
(* the mutations it admits, the runs it owns, stop and quiesce, the lease   *)
(* on the store, its loss and its release.                                  *)
(*                                                                         *)
(* A run is abstract: it is live, then somebody claims its end, then it has *)
(* ended; RunLifecycle says how.  Its first event and each agent it starts  *)
(* is an append through the store's write gate.  Reads, long polls and      *)
(* what a start does with idempotency keys and lineages are left to         *)
(* RunHistory and Recovery.                                                 *)
(***************************************************************************)
EXTENDS Naturals, FiniteSets

CONSTANTS
  Runs,         \* the runs this service may come to own
  Mutations,    \* calls that ask for mutation admission
  NoRun         \* a mutation that is about no run

ASSUME ServiceAssumption ==
  IsFiniteSet(Runs) /\ IsFiniteSet(Mutations) /\ NoRun \notin Runs

VARIABLES
  lifecycle,    \* #lifecycle
  init,         \* where #initializeOnce is
  todo,         \* how many interrupted runs it has yet to resume
  stop,         \* where #stopOnce is
  stopMode,     \* its mode
  verdict,      \* terminalFailure of the call that began it
  awaited,      \* the runs whose end it waits for
  call,         \* where each mutation is
  subject,      \* the run it is about
  lease,        \* #storeLease, and whether the back end still honours it
  gate,         \* the store's write gate is open
  releasing,    \* #storeLeaseRelease
  run,          \* what each run has come to
  endedBy,      \* who claimed its end
  asking,       \* runs with an agent.queued append in flight
  busy,         \* runs with tasks, executions or quarantined operations
  recorded,     \* runs whose last event is durable
  early         \* a late provider's end began a release in the middle of a stop

initVars == <<init, todo>>
stopVars == <<stop, stopMode, verdict, awaited>>
callVars == <<call, subject>>
leaseVars == <<lease, gate, releasing>>
runVars == <<run, endedBy, asking, busy, recorded>>
vars == <<lifecycle, initVars, stopVars, callVars, leaseVars, runVars, early>>

Modes == {"cancellation", "interruption"}

TypeOK ==
  /\ lifecycle \in {"NEW", "INITIALIZING", "READY", "QUIESCING", "STOPPED", "FAILED"}
  /\ init \in {"none", "acquiring", "opening", "listing", "deciding", "recovering", "releasing"}
  /\ todo \in 0..Cardinality(Runs)
  /\ stop \in {"none", "initializing", "draining", "drained", "ending", "releasing"}
  /\ stopMode \in Modes /\ verdict \in BOOLEAN /\ awaited \subseteq Runs
  /\ call \in [Mutations -> {"none", "starting", "created", "cancelling",
                             "administering", "excluding", "exclusive"}]
  /\ subject \in [Mutations -> Runs \cup {NoRun}]
  /\ lease \in {"none", "held", "lost"} /\ gate \in BOOLEAN /\ releasing \in BOOLEAN
  /\ run \in [Runs -> {"none", "queued", "orphan", "live", "ending", "ended"}]
  /\ endedBy \in [Runs -> {"none", "itself"} \cup Modes]
  /\ asking \subseteq Runs /\ busy \subseteq Runs /\ recorded \subseteq Runs
  /\ early \in BOOLEAN

Closing == lifecycle \in {"QUIESCING", "STOPPED", "FAILED"}
Admitted == {m \in Mutations : call[m] # "none"}
Exclusive == \E m \in Mutations : call[m] \in {"excluding", "exclusive"}
Active == {r \in Runs : run[r] \in {"live", "ending"}}

-------------------------------------------------------------------------------
(* The lease.  release() closes the gate in the step that calls it, then    *)
(* waits for the permits and asks the back end, which may fail.             *)

BeginRelease == gate' = FALSE /\ releasing' = TRUE /\ UNCHANGED lease

Settled(state) ==
  lifecycle' = state /\ stop' = "none" /\ UNCHANGED <<stopMode, verdict, awaited>>

Verdict == IF verdict THEN "FAILED" ELSE "STOPPED"

\* #releaseStoreLease settles, and with it the initialization or the stop that
\* waits for it.
ReleaseEnds ==
  /\ releasing /\ asking = {}
  /\ releasing' = FALSE
  /\ \E released \in BOOLEAN :
       /\ lease' = IF released THEN "none" ELSE lease
       /\ \/ /\ init = "releasing" /\ init' = "none"
             /\ lifecycle' = IF lifecycle = "INITIALIZING" THEN "FAILED" ELSE lifecycle
             /\ UNCHANGED stopVars
          \/ /\ init # "releasing" /\ stop = "releasing"
             /\ Settled(IF released THEN Verdict ELSE "FAILED")
             /\ UNCHANGED init
          \/ /\ init # "releasing" /\ stop # "releasing"
             /\ UNCHANGED <<init, lifecycle, stopVars>>
  /\ UNCHANGED <<todo, callVars, gate, runVars, early>>

-------------------------------------------------------------------------------
(* initialize and #initializeOnce.                                          *)

Initialize ==
  /\ lifecycle = "NEW"
  /\ lifecycle' = "INITIALIZING" /\ init' = "acquiring"
  /\ UNCHANGED <<todo, stopVars, callVars, leaseVars, runVars, early>>

InitializationFails ==
  /\ init' = "none"
  /\ lifecycle' = IF lifecycle = "INITIALIZING" THEN "FAILED" ELSE lifecycle

\* The catch block gives up a lease this initialization acquired.
InitializationThrows ==
  /\ init' = "releasing" /\ BeginRelease
  /\ UNCHANGED <<lifecycle, todo>>

Acquire ==
  /\ init = "acquiring"
  /\ \/ InitializationFails /\ UNCHANGED <<todo, leaseVars>>
     \/ /\ ~Closing
        /\ lease' = "held" /\ gate' = TRUE /\ init' = "opening"
        /\ UNCHANGED <<lifecycle, todo, releasing>>
     \/ /\ Closing
        /\ lease' = "held" /\ gate' = FALSE /\ releasing' = TRUE /\ init' = "releasing"
        /\ UNCHANGED <<lifecycle, todo>>
  /\ UNCHANGED <<stopVars, callVars, runVars, early>>

\* The store was opened, the manifests listed: each is followed by a look at
\* the lifecycle.
Proceeds(from, to) == init = from /\ gate /\ ~Closing /\ init' = to

Opens ==
  /\ init \in {"opening", "listing"}
  /\ \/ /\ Proceeds("opening", "listing") \/ Proceeds("listing", "deciding")
        /\ UNCHANGED <<lifecycle, todo, leaseVars>>
     \/ InitializationThrows
  /\ UNCHANGED <<stopVars, callVars, runVars, early>>

\* The loop over the manifests appends run.interrupted where one is missing.
Decides ==
  /\ init = "deciding"
  /\ \/ /\ gate /\ init' = "recovering"
        /\ todo' \in 0..Cardinality({r \in Runs : run[r] = "none"})
        /\ UNCHANGED <<lifecycle, leaseVars>>
     \/ InitializationThrows
  /\ UNCHANGED <<stopVars, callVars, runVars, early>>

\* A run begins: runWorkflow is called and the run registered.
Launches(r) ==
  /\ run' = [run EXCEPT ![r] = "live"]
  /\ UNCHANGED <<endedBy, asking, busy, recorded>>

\* One round of the recovery loop; a resume that fails is logged.  Nothing
\* here looks at the lifecycle.
Recovers ==
  /\ init = "recovering" /\ todo > 0
  /\ todo' = todo - 1
  /\ \/ \E r \in Runs : gate /\ run[r] = "none" /\ Launches(r)
     \/ UNCHANGED runVars
  /\ UNCHANGED <<lifecycle, init, stopVars, callVars, leaseVars, early>>

Initialized ==
  /\ init = "recovering" /\ todo = 0
  /\ init' = "none"
  /\ lifecycle' = IF lifecycle = "INITIALIZING" THEN "READY" ELSE lifecycle
  /\ UNCHANGED <<todo, stopVars, callVars, leaseVars, runVars, early>>

-------------------------------------------------------------------------------
(* Mutation admission.                                                      *)

Admits == lifecycle = "READY" /\ ~Exclusive

Calls(m, stage, r) ==
  /\ call[m] = "none"
  /\ call' = [call EXCEPT ![m] = stage]
  /\ subject' = [subject EXCEPT ![m] = r]

Start(m) ==
  /\ Admits
  /\ \E r \in Runs : run[r] = "none" /\ Calls(m, "starting", NoRun)
  /\ UNCHANGED <<lifecycle, initVars, stopVars, leaseVars, runVars, early>>

Administer(m) ==
  /\ Admits
  /\ Calls(m, "administering", NoRun)
  /\ UNCHANGED <<lifecycle, initVars, stopVars, leaseVars, runVars, early>>

Cancel(m) ==
  /\ Admits
  /\ \E r \in Active : Calls(m, "cancelling", r)
  /\ UNCHANGED <<lifecycle, initVars, stopVars, leaseVars, runVars, early>>

\* runExclusiveAdministrativeMutation: waits for the others unless alone.
Exclude(m) ==
  /\ Admits
  /\ Calls(m, IF Admitted = {} THEN "exclusive" ELSE "excluding", NoRun)
  /\ UNCHANGED <<lifecycle, initVars, stopVars, leaseVars, runVars, early>>

\* Mutant of Leaves: the stop that waits for the drain is not woken.
Leaves_NoWake(m) ==
  /\ call' = [x \in Mutations |->
                IF x = m THEN "none"
                ELSE IF call[x] = "excluding" /\ Admitted = {x, m} THEN "exclusive" ELSE call[x]]
  /\ UNCHANGED <<subject, stopVars>>

\* The finally block: the count goes down, which wakes the exclusive mutation
\* when it is alone and the stop when nobody is left.
Leaves(m) ==
  /\ call' = [x \in Mutations |->
                IF x = m THEN "none"
                ELSE IF call[x] = "excluding" /\ Admitted = {x, m} THEN "exclusive" ELSE call[x]]
  /\ stop' = IF stop = "draining" /\ Admitted = {m} THEN "drained" ELSE stop
  /\ UNCHANGED <<subject, stopMode, verdict, awaited>>

\* createRun makes the manifest durable, or the start fails before it.
Creates(m) ==
  /\ call[m] = "starting"
  /\ \/ /\ gate
        /\ \E r \in Runs :
             /\ run[r] = "none" /\ run' = [run EXCEPT ![r] = "queued"]
             /\ subject' = [subject EXCEPT ![m] = r]
        /\ call' = [call EXCEPT ![m] = "created"]
        /\ UNCHANGED <<stopVars, endedBy, asking, busy, recorded>>
     \/ Leaves(m) /\ UNCHANGED runVars
  /\ UNCHANGED <<lifecycle, initVars, leaseVars, early>>

\* The journal is opened and the run begins.  If that throws, the manifest
\* stays behind without an owner.
Starts(m) ==
  /\ call[m] = "created"
  /\ Leaves(m)
  /\ \/ Launches(subject[m])
     \/ /\ run' = [run EXCEPT ![subject[m]] = "orphan"]
        /\ UNCHANGED <<endedBy, asking, busy, recorded>>
  /\ UNCHANGED <<lifecycle, initVars, leaseVars, early>>

\* run.cancel() and run.interrupt(): the first claim is the one that counts.
Claims(rs, mode) ==
  LET unclaimed == {r \in rs : run[r] = "live"}
  IN /\ run' = [r \in Runs |-> IF r \in unclaimed THEN "ending" ELSE run[r]]
     /\ endedBy' = [r \in Runs |-> IF r \in unclaimed THEN mode ELSE endedBy[r]]

\* It waits for the end that a call of its own kind claimed, and for no other.
WaitsFor(r, mode) == run[r] = "live" \/ (run[r] = "ending" /\ endedBy[r] = mode)

\* cancel() after its manifest was read.
Cancels(m) ==
  /\ call[m] = "cancelling" /\ run[subject[m]] = "live"
  /\ Claims({subject[m]}, "cancellation")
  /\ UNCHANGED <<lifecycle, initVars, stopVars, callVars, leaseVars, asking, busy,
                 recorded, early>>

CancelReturns(m) ==
  /\ call[m] = "cancelling" /\ ~WaitsFor(subject[m], "cancellation")
  /\ Leaves(m)
  /\ UNCHANGED <<lifecycle, initVars, leaseVars, runVars, early>>

\* runOwnedMutation answers, or the gate refuses it.
Administered(m) ==
  /\ call[m] \in {"administering", "exclusive"}
  /\ Leaves(m)
  /\ UNCHANGED <<lifecycle, initVars, leaseVars, runVars, early>>

-------------------------------------------------------------------------------
(* The runs.                                                                *)

\* The worker asks for an agent: an append that needs the gate, behind which
\* the task begins.
Asks(r) ==
  /\ run[r] = "live" /\ gate /\ r \notin asking \cup busy
  /\ asking' = asking \cup {r}
  /\ UNCHANGED <<lifecycle, initVars, stopVars, callVars, leaseVars, run, endedBy, busy,
                 recorded, early>>

\* In a run that was told to end the task gives up at once.
Answered(r) ==
  /\ r \in asking
  /\ asking' = asking \ {r}
  /\ busy' = IF run[r] = "live" THEN busy \cup {r} ELSE busy
  /\ UNCHANGED <<lifecycle, initVars, stopVars, callVars, leaseVars, run, endedBy,
                 recorded, early>>

\* The run completes, which it does not under a task, or fails.
EndsItself(r) ==
  /\ run[r] = "live"
  /\ Claims({r}, "itself")
  /\ UNCHANGED <<lifecycle, initVars, stopVars, callVars, leaseVars, asking, busy,
                 recorded, early>>

\* Its last event is durable, or refused; its promise settles.
Ends(r) ==
  /\ run[r] = "ending" /\ r \notin asking
  /\ run' = [run EXCEPT ![r] = "ended"]
  /\ recorded' = IF gate THEN recorded \cup {r} ELSE recorded
  /\ UNCHANGED <<lifecycle, initVars, stopVars, callVars, leaseVars, endedBy, asking,
                 busy, early>>

\* The stop is where its comment says ownership may go: no initialization, no
\* admitted call, no run that has yet to write.
AtBoundary == init = "none" /\ Admitted = {} /\ Active = {}

\* The tasks and executions of a run are over.  What outlived the run gives
\* the lease up when the service has stopped and nothing else is left.
Quiets(r) ==
  /\ r \in busy
  /\ busy' = busy \ {r}
  /\ \/ /\ run[r] = "ended" /\ lifecycle \in {"QUIESCING", "FAILED"} /\ busy = {r}
        /\ lease # "none" /\ ~releasing
        /\ BeginRelease
        /\ early' = (early \/ ~AtBoundary)
     \/ /\ ~(run[r] = "ended" /\ lifecycle \in {"QUIESCING", "FAILED"} /\ busy = {r}
             /\ lease # "none" /\ ~releasing)
        /\ UNCHANGED <<leaseVars, early>>
  /\ UNCHANGED <<lifecycle, initVars, stopVars, callVars, run, endedBy, asking, recorded>>

-------------------------------------------------------------------------------
(* stop, quiesce, and the loss of the lease.                                *)

\* #beginStop: admission closes in the step of the call.
BeginStop(mode, failure) ==
  /\ stop' = "initializing" /\ stopMode' = mode /\ verdict' = failure /\ awaited' = {}

Stop ==
  /\ stop = "none" /\ lifecycle # "STOPPED"
  /\ \E mode \in Modes : BeginStop(mode, FALSE)
  /\ lifecycle' = "QUIESCING"
  /\ UNCHANGED <<initVars, callVars, leaseVars, runVars, early>>

\* The back end loses the lock: the gate is closed, FAILED is set, and a stop
\* begins unless one is under way.
LoseLease ==
  /\ lease = "held"
  /\ lease' = "lost" /\ gate' = FALSE
  /\ lifecycle' = "FAILED"
  /\ \/ stop = "none" /\ BeginStop("interruption", TRUE)
     \/ stop # "none" /\ UNCHANGED stopVars
  /\ UNCHANGED <<initVars, callVars, releasing, runVars, early>>

\* Mutant of StopDrains: the calls already admitted are forgotten.
StopDrains_Forgets ==
  /\ stop = "initializing" /\ init = "none"
  /\ stop' = "drained"
  /\ UNCHANGED <<lifecycle, initVars, stopMode, verdict, awaited, callVars, leaseVars,
                 runVars, early>>

\* The initialization has settled.
StopDrains ==
  /\ stop = "initializing" /\ init = "none"
  /\ stop' = IF Admitted = {} THEN "drained" ELSE "draining"
  /\ UNCHANGED <<lifecycle, initVars, stopMode, verdict, awaited, callVars, leaseVars,
                 runVars, early>>

\* Every active run is told to end, and waited for.
StopEnds ==
  /\ stop = "drained" /\ stop' = "ending"
  /\ awaited' = {r \in Active : WaitsFor(r, stopMode)}
  /\ Claims(Active, stopMode)
  /\ UNCHANGED <<lifecycle, initVars, stopMode, verdict, callVars, leaseVars, asking,
                 busy, recorded, early>>

EndsAwaited == awaited \cap Active = {}

\* Mutant of Transferable: whatever has not stopped is given away.
Transferable_Always == TRUE

Transferable == busy = {}

\* #stopOnce decides whether ownership may go.
StopJudges ==
  /\ stop = "ending" /\ EndsAwaited
  /\ \/ /\ ~Transferable /\ Settled("FAILED") /\ UNCHANGED leaseVars
     \/ /\ Transferable /\ lease = "none" /\ Settled(Verdict) /\ UNCHANGED leaseVars
     \/ /\ Transferable /\ lease # "none"
        /\ stop' = "releasing" /\ BeginRelease
        /\ UNCHANGED <<lifecycle, stopMode, verdict, awaited>>
  /\ UNCHANGED <<initVars, callVars, runVars, early>>

-------------------------------------------------------------------------------
Init ==
  /\ lifecycle = "NEW" /\ init = "none" /\ todo = 0
  /\ stop = "none" /\ stopMode = "cancellation" /\ verdict = FALSE /\ awaited = {}
  /\ call = [m \in Mutations |-> "none"] /\ subject = [m \in Mutations |-> NoRun]
  /\ lease = "none" /\ gate = FALSE /\ releasing = FALSE
  /\ run = [r \in Runs |-> "none"] /\ endedBy = [r \in Runs |-> "none"]
  /\ asking = {} /\ busy = {} /\ recorded = {} /\ early = FALSE

InitStep == Acquire \/ Opens \/ Decides \/ Recovers \/ Initialized
StopStep == StopDrains \/ StopEnds \/ StopJudges
Request(m) == Start(m) \/ Administer(m) \/ Cancel(m) \/ Exclude(m)
CallStep(m) == Creates(m) \/ Starts(m) \/ Cancels(m) \/ CancelReturns(m) \/ Administered(m)

Next ==
  \/ Initialize \/ InitStep \/ Stop \/ StopStep \/ LoseLease \/ ReleaseEnds
  \/ \E m \in Mutations : Request(m) \/ CallStep(m)
  \/ \E r \in Runs : Asks(r) \/ Answered(r) \/ EndsItself(r) \/ Ends(r) \/ Quiets(r)

Spec == Init /\ [][Next]_vars

\* A continuation that is ready runs; the store answers; an abort ends a run in
\* bounded time (ShutdownBounded of RunLifecycle); an administrative callback
\* returns.  Nothing is assumed of agents, of executions or of clients.
FairSpec ==
  /\ Spec
  /\ WF_vars(InitStep) /\ WF_vars(StopStep) /\ WF_vars(ReleaseEnds)
  /\ \A m \in Mutations : WF_vars(CallStep(m))
  /\ \A r \in Runs : WF_vars(Answered(r)) /\ WF_vars(Ends(r))

-------------------------------------------------------------------------------
(* Properties.                                                              *)

\* The store is given up only when no task or execution of this service can
\* still write: admission is drained, every run was told to end and either all
\* is over or the lease stays (#stopOnce, #startLoaded).  A release that a late
\* provider began in the middle of a stop is the exception EarlyRelease is about.
RunsUnderLease == lease = "none" => busy = {} \/ early

\* When stop() gives up the store, and after it has returned, there is no
\* initialization, no admitted mutation and no run that nobody told to end,
\* however calls, recovery and the stop interleave.
StopIsComplete ==
  stop = "releasing" \/ lifecycle = "STOPPED" =>
    init = "none" /\ Admitted = {} /\ \A r \in Runs : run[r] # "live"

\* An exclusive administrative mutation (a rotation of credentials) runs
\* beside no other mutation, whichever was admitted first.
ExclusiveAlone ==
  \A m \in Mutations : call[m] = "exclusive" => Admitted = {m}

\* A run whose end the stop waited for has its last event in the store before
\* the lease goes, unless the lease was lost or went early.
EndsRecorded ==
  stop = "releasing" /\ lease = "held" /\ ~early => awaited \subseteq recorded

\* While anything can write the lease is held, exclusive work is alone, and the
\* lease is given up behind the last events, whatever stops, calls, providers
\* and the loss of the lease do to each other.
StoreGuarded == TypeOK /\ RunsUnderLease /\ ExclusiveAlone /\ EndsRecorded

\* Every stop settles: none of the promises it waits for is forgotten.
StopSettles == stop # "none" ~> stop = "none"

\* #beginStop sets FAILED first so that "a concurrent operator close cannot keep
\* readiness at QUIESCING or later overwrite this safety verdict with STOPPED".
VerdictStands == [][lifecycle = "FAILED" /\ lease = "lost" /\ lifecycle' # "FAILED" => Stop]_vars

\* "This stop owns a clean, deterministic teardown boundary": the lease is not
\* given up before initialization and admitted mutations are over.
EarlyRelease == ~early
================================================================================
