------------------------------ MODULE RunLifecycle ------------------------------
(***************************************************************************)
(* One run: WorkflowRuntime of src/runWorkflow.ts.  Its supervisor #run,    *)
(* the one #terminate or #fail that ends it, the tasks of its agents, the   *)
(* provider executions and workspace operations these start, and the queue  *)
(* through which all of them publish events.                                *)
(*                                                                         *)
(* An awaited #emit is a stage: the step that takes its event from the      *)
(* queue also runs the continuation of the one who waits, up to its next    *)
(* await.  Events a task awaits one after the other are one event.  Timers  *)
(* are abstract: a bounded wait may end at any time.  Left out: phases,     *)
(* journal reuse, nested workflows, the budget, a provider's own events,    *)
(* and the way to a permit, which ProviderAdmission models.                 *)
(***************************************************************************)
EXTENDS Integers, Sequences, FiniteSets

CONSTANTS
  Agents,
  Run,          \* stands for the run itself as the subject of an event
  Isolated,     \* the agents that ask for a worktree
  Safe,         \* the agents whose request the provider says may be replayed
  ReadOnly,     \* the sandbox is read-only
  MaxAttempts,  \* maxAttempts
  MaxRetries    \* maxRetryAttemptsPerRun

ASSUME RunAssumption ==
  /\ IsFiniteSet(Agents) /\ Run \notin Agents
  /\ Isolated \subseteq Agents /\ Safe \subseteq Agents
  /\ ReadOnly \in BOOLEAN
  /\ MaxAttempts \in Nat \ {0} /\ MaxRetries \in Nat

VARIABLES
  owner,        \* #terminalOwner
  aborted,      \* #controller.signal.aborted
  result,       \* #result; #terminal is set where it settles
  main,         \* where #run is
  ending,       \* where #terminate or #fail is
  queue,        \* #emitTail: the events not yet handled, in order
  storageFailure,
  published,    \* the final events of the run and of agents on the stream
  overdue,      \* the final event whose append missed the sink's deadline
  kept,         \* the one of those that the store has appended after all
  stage,        \* where each agent's task is
  attempt,      \* the attempt number of its task
  live,         \* executions <<agent, attempt>> and workspace operations
                \* <<agent, 0>> that have started and not stopped
  quarantined,  \* #quarantinedExecutions
  armed,        \* the executions fenceUnconfirmedAttemptOnAbort listens for
  retries,      \* #retryAttemptsScheduled
  proves        \* terminationBoundary # "unconfirmed-descendants"

runVars == <<owner, aborted, result, main, ending>>
logVars == <<queue, storageFailure, published, overdue, kept, proves>>
taskVars == <<stage, attempt, retries>>
fenceVars == <<live, quarantined, armed>>
vars == <<runVars, logVars, taskVars, fenceVars>>

RunEnds == {"run.completed", "run.cancelled", "run.interrupted", "run.failed"}
AgentEnds ==
  {"agent.completed", "agent.failed", "agent.recovery_required", "agent.cancelled"}
Ends == RunEnds \cup AgentEnds
Kinds == Ends \cup
  {"run.started", "artifact.created", "notice", "agent.queued", "agent.started",
   "agent.termination_confirmed", "agent.unconfirmed", "agent.retrying"}

\* The stages of a task, from #trackTask to its removal from #tasks.
Unanswered ==
  {"preparing", "waiting", "starting", "running", "confirming", "confirmed",
   "unconfirmed", "retrying", "backoff", "finishing", "preserving", "unwinding"}
Tracked == Unanswered \cup {"cleaning"}
Tasks == {a \in Agents : stage[a] \in Tracked}

Operations == Agents \X (0..MaxAttempts)
Workspace(a) == <<a, 0>>
Attempt(a) == <<a, attempt[a]>>
Of(a) == {o \in Operations : o[1] = a}

TypeOK ==
  /\ owner \in {"none", "completion", "failure", "cancellation", "interruption"}
  /\ aborted \in BOOLEAN
  /\ result \in {"pending", "value", "error"}
  /\ main \in {"starting", "evaluating", "draining", "materializing",
               "announcing", "completing", "over"}
  /\ ending \in {"none", "stopping", "publishing", "done"}
  /\ queue \in Seq(Kinds \X (Agents \cup {Run}))
  /\ storageFailure \in BOOLEAN
  /\ published \subseteq (RunEnds \X {Run}) \cup (AgentEnds \X Agents)
  /\ overdue \subseteq Ends \X (Agents \cup {Run})
  /\ kept \subseteq Ends \X (Agents \cup {Run})
  /\ stage \in [Agents -> {"idle", "admitting", "over"} \cup Tracked]
  /\ attempt \in [Agents -> 1..MaxAttempts]
  /\ retries \in 0..MaxRetries
  /\ live \subseteq Operations
  /\ quarantined \subseteq Operations
  /\ armed \subseteq Operations
  /\ proves \in BOOLEAN

Terminal == result # "pending"

\* What a reader of the store finds of the ends.
History == published \cup kept
Moves(a, s) == stage' = [stage EXCEPT ![a] = s]

-------------------------------------------------------------------------------
(* Events.  #emit queues an event behind those before it; #publishDraft     *)
(* drops it after the end, refuses it once storage has failed, and else     *)
(* hands it to the sink, which keeps it, fails or misses its deadline; in   *)
(* that case "the original fsync may still finish", and the service tells   *)
(* of the event although the run does not.                                  *)

Emits(events) ==
  /\ queue' = queue \o events
  /\ UNCHANGED <<storageFailure, published, overdue, kept, proves>>

AtHead(kind, who) == queue # <<>> /\ Head(queue) = <<kind, who>>

\* The head of the queue is published, or dropped after the end; events are
\* what the continuation emits.
Handled(kind, who, events) ==
  /\ AtHead(kind, who)
  /\ queue' = Tail(queue) \o events
  /\ Terminal \/ ~storageFailure
  /\ published' = IF ~Terminal /\ kind \in Ends
                  THEN published \cup {<<kind, who>>} ELSE published
  /\ UNCHANGED <<storageFailure, overdue, kept, proves>>

\* The sink fails or is late, or has done so before: #emit rejects.
Refused(kind, who, events) ==
  /\ AtHead(kind, who)
  /\ queue' = Tail(queue) \o events
  /\ ~Terminal
  /\ storageFailure' = TRUE
  /\ \/ UNCHANGED overdue
     \/ ~storageFailure /\ kind \in Ends /\ overdue' = overdue \cup {<<kind, who>>}
  /\ UNCHANGED <<published, kept, proves>>

\* The append that missed its deadline finishes.
LateAppend ==
  /\ overdue # kept
  /\ kept' = overdue
  /\ UNCHANGED <<runVars, queue, storageFailure, published, overdue, proves, taskVars, fenceVars>>

\* The events nobody waits for.
Notice(who) ==
  /\ Handled("notice", who, <<>>) \/ Refused("notice", who, <<>>)
  /\ UNCHANGED <<runVars, taskVars, fenceVars>>

-------------------------------------------------------------------------------
(* Who ends the run, and the fences.                                        *)

\* #claimTerminal: the first claim wins.
Unowned == owner = "none"

\* An entry leaves the set when its promise settles; without proof of
\* termination it stays until it is abandoned.
Fence(operations) ==
  IF proves THEN operations \cap live
  ELSE {o \in operations : o[2] > 0 \/ o \in live}

\* The claim, and the abort of the run's signal with the listeners it calls.
EndBy(who, listening, fenced) ==
  /\ owner' = who /\ aborted' = TRUE /\ ending' = "stopping"
  /\ quarantined' = fenced \cup Fence(listening)
  /\ armed' = {}

Fail == Unowned /\ EndBy("failure", armed, quarantined)
FailUnlessOwned ==
  \/ Fail
  \/ ~Unowned /\ UNCHANGED <<owner, aborted, ending, quarantined, armed>>

\* cancel() and interrupt(); both return at once when the run has an owner.
Terminate(mode) ==
  /\ Unowned
  /\ EndBy(mode, armed, quarantined)
  /\ Emits(IF mode = "cancellation" THEN <<<<"notice", Run>>>> ELSE <<>>)
  /\ UNCHANGED <<result, main, taskVars, live>>

EndEvent == [failure |-> "run.failed", cancellation |-> "run.cancelled",
             interruption |-> "run.interrupted"]

\* The tasks are over or the grace is, the workers have exited or the grace is
\* over, the tasks are over or the escalation budget is: the last event.
StopWaiting ==
  /\ ending = "stopping"
  /\ ending' = "publishing"
  /\ Emits(<<<<EndEvent[owner], Run>>>>)
  /\ UNCHANGED <<owner, aborted, result, main, taskVars, fenceVars>>

\* Published or not, the result settles and the stream closes.
Ended ==
  /\ ending = "publishing"
  /\ \/ Handled(EndEvent[owner], Run, <<>>)
     \/ Refused(EndEvent[owner], Run, <<>>)
  /\ ending' = "done" /\ result' = "error"
  /\ UNCHANGED <<owner, aborted, main, taskVars, fenceVars>>

-------------------------------------------------------------------------------
(* #run.  Its catch block: after a claim of its own it settles the result,  *)
(* under a terminator it steps aside, and else it fails the run.            *)

MainFails == main' = "over" /\ FailUnlessOwned /\ UNCHANGED <<result, live>>

\* A signal that was aborted before the run began cancels it here.
StartCancelled ==
  /\ main = "starting" /\ aborted
  /\ \/ /\ Unowned /\ EndBy("cancellation", armed, quarantined)
        /\ \/ Handled("run.started", Run, <<<<"notice", Run>>>>)
           \/ Refused("run.started", Run, <<<<"notice", Run>>>>)
     \/ /\ ~Unowned /\ UNCHANGED <<owner, aborted, ending, quarantined, armed>>
        /\ \/ Handled("run.started", Run, <<>>)
           \/ Refused("run.started", Run, <<>>)
  /\ main' = "over"
  /\ UNCHANGED <<result, taskVars, live>>

Started ==
  /\ main = "starting" /\ ~aborted
  /\ \/ /\ Handled("run.started", Run, <<>>)
        /\ main' = "evaluating"
        /\ UNCHANGED <<owner, aborted, result, ending, fenceVars>>
     \/ Refused("run.started", Run, <<>>) /\ MainFails
  /\ UNCHANGED taskVars

\* Mutant of WorkerCompletes: an agent that is just being admitted is overlooked.
WorkerCompletes_Early ==
  /\ main = "evaluating"
  /\ \A a \in Agents : stage[a] \notin Unanswered
  /\ main' = "draining"
  /\ UNCHANGED <<owner, aborted, result, ending, logVars, taskVars, fenceVars>>

\* The worker's "complete" message is valid when no request of its is open;
\* it follows the messages before it, so no agent is just being admitted.
WorkerCompletes ==
  /\ main = "evaluating"
  /\ \A a \in Agents : stage[a] \notin Unanswered \cup {"admitting"}
  /\ main' = "draining"
  /\ UNCHANGED <<owner, aborted, result, ending, logVars, taskVars, fenceVars>>

\* The worker throws, exits, breaks the protocol or misses a deadline; under a
\* terminator it is killed.
WorkerFails ==
  /\ main = "evaluating"
  /\ MainFails
  /\ UNCHANGED <<logVars, taskVars>>

Drained ==
  /\ main = "draining" /\ Tasks = {}
  /\ main' = IF aborted THEN "over" ELSE "materializing"
  /\ UNCHANGED <<owner, aborted, result, ending, logVars, taskVars, fenceVars>>

ClaimCompletion ==
  \/ /\ ~aborted /\ Unowned
     /\ owner' = "completion" /\ main' = "completing"
     /\ UNCHANGED <<aborted, ending>>
  \/ /\ aborted \/ ~Unowned
     /\ main' = "over" /\ UNCHANGED <<owner, aborted, ending>>

Completing == IF main' = "completing" THEN <<<<"run.completed", Run>>>> ELSE <<>>

\* materializeResult returns a reference with or without an artifact, or fails.
Materialized ==
  /\ main = "materializing"
  /\ \/ /\ ~aborted
        /\ main' = "announcing" /\ Emits(<<<<"artifact.created", Run>>>>)
        /\ UNCHANGED <<owner, aborted, result, ending, fenceVars>>
     \/ /\ ClaimCompletion /\ Emits(Completing)
        /\ UNCHANGED <<result, fenceVars>>
     \/ MainFails /\ UNCHANGED logVars
  /\ UNCHANGED taskVars

Announced ==
  /\ main = "announcing"
  /\ \/ /\ ClaimCompletion
        /\ Handled("artifact.created", Run, Completing)
        /\ UNCHANGED <<result, fenceVars>>
     \/ Refused("artifact.created", Run, <<>>) /\ MainFails
  /\ UNCHANGED taskVars

Completed ==
  /\ main = "completing"
  /\ \/ Handled("run.completed", Run, <<>>) /\ result' = "value"
     \/ Refused("run.completed", Run, <<>>) /\ result' = "error"
  /\ main' = "over"
  /\ UNCHANGED <<owner, aborted, ending, taskVars, fenceVars>>

-------------------------------------------------------------------------------
(* How a task ends.  #executeAgent removes its abort listeners, cleans its  *)
(* workspace up unless it must be kept, and leaves #tasks; a task that      *)
(* rejects fails the run after it has left.                                 *)

Disarm(a) == armed' = armed \ Of(a)

TaskRejects(a, fenced) ==
  /\ Moves(a, "over")
  /\ \/ Unowned /\ EndBy("failure", armed \ Of(a), fenced)
     \/ /\ ~Unowned /\ quarantined' = fenced /\ Disarm(a)
        /\ UNCHANGED <<owner, aborted, ending>>
  /\ UNCHANGED <<result, main>>

HasWorkspaceToClean(a) == a \in Isolated /\ stage[a] # "preserving"

StartsCleanup(a, s, alive) ==
  /\ Moves(a, s)
  /\ live' = alive \cup {Workspace(a)}
  /\ Disarm(a)
  /\ UNCHANGED <<runVars, quarantined>>

\* The error is the supervisor's: the run will fail.
Unwinds(a, alive) ==
  \/ HasWorkspaceToClean(a) /\ StartsCleanup(a, "unwinding", alive)
  \/ ~HasWorkspaceToClean(a) /\ TaskRejects(a, quarantined) /\ live' = alive

\* Mutant of Leaves: the task goes on after its final event.
Leaves_TriesAgain(a) == Moves(a, "backoff") /\ UNCHANGED <<runVars, fenceVars>>

\* The agent's final event was handled: the worker has its answer.
Leaves(a) ==
  \/ HasWorkspaceToClean(a) /\ StartsCleanup(a, "cleaning", live)
  \/ /\ ~HasWorkspaceToClean(a)
     /\ Moves(a, "over") /\ Disarm(a)
     /\ UNCHANGED <<runVars, live, quarantined>>

\* What the task awaited was refused.  Under an abort it is cancelled.
Rejected(kind, a) ==
  /\ \/ /\ aborted
        /\ Refused(kind, a, <<<<"agent.cancelled", a>>>>)
        /\ Moves(a, IF stage[a] = "preserving" THEN "preserving" ELSE "finishing")
        /\ UNCHANGED <<runVars, fenceVars>>
     \/ /\ ~aborted
        /\ Refused(kind, a, <<>>)
        /\ Unwinds(a, live)
  /\ UNCHANGED <<attempt, retries>>

\* The task concludes with a final event; keep says the workspace stays.
Concludes(a, keep) ==
  /\ Moves(a, IF keep THEN "preserving" ELSE "finishing")
  /\ UNCHANGED <<attempt, retries, runVars>>

Final(kind, a) == Emits(<<<<kind, a>>>>)

-------------------------------------------------------------------------------
(* The worker asks for an agent.  It becomes a task when its admission has  *)
(* been handled; the requests of a worker are handled one by one.           *)

Request(a) ==
  /\ main = "evaluating" /\ ~aborted
  /\ stage[a] = "idle" /\ \A b \in Agents : stage[b] # "admitting"
  /\ Moves(a, "admitting")
  /\ Emits(<<<<"agent.queued", a>>>>)
  /\ UNCHANGED <<attempt, retries, runVars, fenceVars>>

Admitted(a) ==
  /\ stage[a] = "admitting"
  /\ \/ /\ a \notin Isolated
        /\ Handled("agent.queued", a, <<>>) /\ Moves(a, "waiting")
        /\ UNCHANGED <<runVars, fenceVars>>
     \/ /\ a \in Isolated /\ ~aborted
        /\ Handled("agent.queued", a, <<>>) /\ Moves(a, "preparing")
        /\ live' = live \cup {Workspace(a)}
        /\ UNCHANGED <<runVars, quarantined, armed>>
     \/ /\ a \in Isolated /\ aborted
        /\ Handled("agent.queued", a, <<<<"agent.cancelled", a>>>>)
        /\ Moves(a, "preserving")
        /\ UNCHANGED <<runVars, fenceVars>>
     \/ /\ Refused("agent.queued", a, <<>>) /\ Moves(a, "over")
        /\ MainFails
  /\ UNCHANGED <<attempt, retries>>

\* The worktree is ready.
Prepared(a) ==
  /\ stage[a] = "preparing"
  /\ live' = live \ {Workspace(a)}
  /\ \/ /\ ~aborted /\ Moves(a, "waiting")
        /\ UNCHANGED <<attempt, retries, runVars, logVars>>
     \/ aborted /\ Concludes(a, FALSE) /\ Final("agent.cancelled", a)
  /\ UNCHANGED <<quarantined, armed>>

\* Mutant of PreparationOverrun: the operation that goes on is forgotten.
PreparationOverrun_Forgotten(a) ==
  /\ stage[a] = "preparing"
  /\ Concludes(a, TRUE)
  /\ Final(IF aborted THEN "agent.cancelled" ELSE "agent.failed", a)
  /\ UNCHANGED fenceVars

\* The run is aborted, or the preparation is out of time, while it goes on.
PreparationOverrun(a) ==
  /\ stage[a] = "preparing"
  /\ Concludes(a, TRUE)
  /\ Final(IF aborted THEN "agent.cancelled" ELSE "agent.failed", a)
  /\ quarantined' = quarantined \cup {Workspace(a)}
  /\ UNCHANGED <<live, armed>>

\* The preparer throws: the supervisor's error, unless the run is aborted.
PreparationFails(a) ==
  /\ stage[a] = "preparing"
  /\ live' = live \ {Workspace(a)}
  /\ \/ ~aborted /\ TaskRejects(a, quarantined) /\ UNCHANGED <<attempt, retries, logVars>>
     \/ /\ aborted /\ Concludes(a, TRUE) /\ Final("agent.cancelled", a)
        /\ UNCHANGED <<quarantined, armed>>

-------------------------------------------------------------------------------
(* The attempt loop.                                                        *)

\* The run is aborted where the task waits for a permit or sleeps.
Cancelled(a) ==
  /\ stage[a] \in {"waiting", "backoff"} /\ aborted
  /\ Concludes(a, FALSE) /\ Final("agent.cancelled", a)
  /\ UNCHANGED fenceVars

\* A permit is granted and the circuit allows the start.
Granted(a) ==
  /\ stage[a] = "waiting" /\ ~aborted
  /\ Moves(a, "starting")
  /\ Emits(<<<<"agent.started", a>>>>)
  /\ UNCHANGED <<attempt, retries, runVars, fenceVars>>

\* The start is recorded; the provider is called.
Launched(a) ==
  /\ stage[a] = "starting"
  /\ \/ /\ Handled("agent.started", a, <<>>)
        /\ Moves(a, "running")
        /\ live' = live \cup {Attempt(a)}
        /\ UNCHANGED <<attempt, retries, runVars, quarantined, armed>>
     \/ Rejected("agent.started", a)

\* Mutant of Automatic: the sandbox alone decides.
Automatic_AnyRequest(a) == ReadOnly \/ a \in Isolated

\* #replaySafety, and what is left of it when an old writer may still run.
Automatic(a) == a \in Safe /\ (ReadOnly \/ a \in Isolated)
AutomaticBesideOld(a) == Automatic(a) /\ ReadOnly

RetryLeft(a) == attempt[a] < MaxAttempts /\ retries < MaxRetries

\* #reserveRetry grants another attempt.
Retries(a) ==
  /\ Moves(a, "retrying")
  /\ retries' = retries + 1
  /\ UNCHANGED <<attempt, runVars>>

\* A provider failure that is not retryable, is unsafe to replay, is retried,
\* or finds no retry left; kind is the event it leads to.
AttemptFails(a, kind) ==
  \/ kind = "agent.failed" /\ Concludes(a, FALSE)
  \/ kind = "agent.recovery_required" /\ ~Automatic(a) /\ Concludes(a, TRUE)
  \/ kind = "agent.retrying" /\ Automatic(a) /\ RetryLeft(a) /\ Retries(a)

\* The attempt is over; kind is the event it leads to.
AttemptEnds(a, kind) ==
  \/ kind = "agent.completed" /\ ~aborted /\ Concludes(a, FALSE)
  \/ kind = "agent.cancelled" /\ aborted /\ Concludes(a, FALSE)
  \/ ~aborted /\ AttemptFails(a, kind)

Answers(a) ==
  /\ stage[a] = "running"
  /\ live' = live \ {Attempt(a)}
  /\ \E kind \in Kinds :
       /\ kind \in {"agent.completed", "agent.cancelled"} \/ ~storageFailure
       /\ AttemptEnds(a, kind) /\ Final(kind, a)
  /\ UNCHANGED <<quarantined, armed>>

\* After a storage failure the provider's errors are the supervisor's.
FailsWithStorage(a) ==
  /\ stage[a] = "running" /\ ~aborted /\ storageFailure
  /\ Unwinds(a, live \ {Attempt(a)})
  /\ UNCHANGED <<attempt, retries, logVars>>

\* A deadline of the attempt passes, or the run is aborted: the attempt is told
\* to stop, in a way the provider may ignore.
Confirms(a) ==
  /\ stage[a] = "running"
  /\ Moves(a, "confirming")
  /\ Emits(IF aborted THEN <<>> ELSE <<<<"notice", a>>>>)
  /\ UNCHANGED <<attempt, retries, runVars, fenceVars>>

\* #confirmProviderTermination: settled in time, which counts only when
\* settlement proves termination, or not.
SettledInTime(a) ==
  /\ stage[a] = "confirming" /\ proves
  /\ Moves(a, "confirmed")
  /\ live' = live \ {Attempt(a)}
  /\ Emits(<<<<"agent.termination_confirmed", a>>>>)
  /\ UNCHANGED <<attempt, retries, runVars, quarantined, armed>>

\* Mutant of NotSettled: the wait for the provider has no bound.
NotSettled_Patient(a) ==
  /\ stage[a] = "confirming" /\ Attempt(a) \notin live
  /\ Moves(a, "unconfirmed")
  /\ Emits(<<<<"agent.unconfirmed", a>>>>)
  /\ UNCHANGED <<attempt, retries, runVars, fenceVars>>

NotSettled(a) ==
  /\ stage[a] = "confirming"
  /\ Moves(a, "unconfirmed")
  /\ Emits(<<<<"agent.unconfirmed", a>>>>)
  /\ UNCHANGED <<attempt, retries, runVars, fenceVars>>

Confirmed(a) ==
  /\ stage[a] = "confirmed"
  /\ \/ /\ \E kind \in Kinds :
             /\ AttemptEnds(a, kind)
             /\ Handled("agent.termination_confirmed", a, <<<<kind, a>>>>)
        /\ UNCHANGED fenceVars
     \/ Rejected("agent.termination_confirmed", a)

Quarantines(a) ==
  quarantined' = quarantined \cup Fence({Attempt(a)}) /\ UNCHANGED <<live, armed>>

\* An execution nobody saw end: quarantined when the run is aborted or there
\* is no retry; a retry listens for the abort as long as the task lives.
Unconfirmed(a) ==
  /\ stage[a] = "unconfirmed"
  /\ \/ /\ aborted /\ Quarantines(a) /\ Concludes(a, TRUE)
        /\ Handled("agent.unconfirmed", a, <<<<"agent.cancelled", a>>>>)
     \/ /\ ~aborted /\ ~(AutomaticBesideOld(a) /\ RetryLeft(a))
        /\ Quarantines(a) /\ Concludes(a, TRUE)
        /\ Handled("agent.unconfirmed", a, <<<<"agent.recovery_required", a>>>>)
     \/ /\ ~aborted /\ AutomaticBesideOld(a) /\ RetryLeft(a) /\ Retries(a)
        /\ armed' = armed \cup {Attempt(a)} /\ UNCHANGED <<live, quarantined>>
        /\ Handled("agent.unconfirmed", a, <<<<"agent.retrying", a>>>>)
     \/ Rejected("agent.unconfirmed", a)

\* The retry is announced; the task sleeps.
Announces(a) ==
  /\ stage[a] = "retrying"
  /\ \/ /\ Handled("agent.retrying", a, <<>>) /\ Moves(a, "backoff")
        /\ UNCHANGED <<attempt, retries, runVars, fenceVars>>
     \/ Rejected("agent.retrying", a)

TriesAgain(a) ==
  /\ stage[a] = "backoff" /\ ~aborted
  /\ Moves(a, "waiting")
  /\ attempt' = [attempt EXCEPT ![a] = @ + 1]
  /\ UNCHANGED <<retries, runVars, logVars, fenceVars>>

-------------------------------------------------------------------------------
(* The end of a task, and what outlives it.                                 *)

Concluded(a) ==
  /\ stage[a] \in {"finishing", "preserving"}
  /\ \E kind \in AgentEnds :
       LET caught == \/ kind = "agent.cancelled"
                     \/ kind = "agent.failed" /\ stage[a] = "preserving"
       IN \/ Handled(kind, a, <<>>) /\ Leaves(a) /\ UNCHANGED <<attempt, retries>>
          \/ /\ caught /\ Refused(kind, a, <<>>) /\ Unwinds(a, live)
             /\ UNCHANGED <<attempt, retries>>
          \/ ~caught /\ Rejected(kind, a)

\* #cleanupWorkingDirectory ends, or is left behind at its deadline.
CleanedUp(a) ==
  /\ stage[a] \in {"cleaning", "unwinding"}
  /\ \E fenced \in {quarantined, quarantined \cup {Workspace(a)}} :
       /\ live' = IF Workspace(a) \in fenced THEN live ELSE live \ {Workspace(a)}
       /\ \/ stage[a] = "unwinding" /\ TaskRejects(a, fenced)
          \/ /\ stage[a] = "cleaning" /\ Moves(a, "over")
             /\ quarantined' = fenced /\ UNCHANGED <<runVars, armed>>
  /\ UNCHANGED <<attempt, retries, logVars>>

\* A step of the task observes the end of this operation.
Supervised(o) ==
  \/ o[2] = 0 /\ stage[o[1]] \in {"preparing", "cleaning", "unwinding"}
  \/ o = Attempt(o[1]) /\ stage[o[1]] = "running"
  \/ o = Attempt(o[1]) /\ stage[o[1]] = "confirming" /\ proves

\* What was left behind stops after all, and its promise leaves the quarantine.
Exits(o) ==
  /\ o \in live /\ ~Supervised(o)
  /\ live' = live \ {o}
  /\ quarantined' = IF proves \/ o[2] = 0 THEN quarantined \ {o} ELSE quarantined
  /\ UNCHANGED <<armed, runVars, logVars, taskVars>>

\* The operator vouches that unconfirmed executions are over.
Abandon ==
  LET abandoned == {o \in quarantined : o[2] > 0}
  IN /\ ~proves /\ ReadOnly /\ abandoned # {}
     /\ quarantined' = quarantined \ abandoned
     /\ live' = live \ abandoned
     /\ UNCHANGED <<armed, runVars, logVars, taskVars>>

-------------------------------------------------------------------------------
Init ==
  /\ owner = "none" /\ aborted \in BOOLEAN /\ result = "pending"
  /\ main = "starting" /\ ending = "none"
  /\ queue = <<<<"run.started", Run>>>> /\ storageFailure = FALSE
  /\ published = {} /\ overdue = {} /\ kept = {}
  /\ stage = [a \in Agents |-> "idle"] /\ attempt = [a \in Agents |-> 1]
  /\ live = {} /\ quarantined = {} /\ armed = {} /\ retries = 0
  /\ proves \in BOOLEAN

RunStep ==
  \/ Started \/ StartCancelled \/ WorkerFails \/ WorkerCompletes \/ Drained
  \/ Materialized \/ Announced \/ Completed
  \/ StopWaiting \/ Ended \/ \E who \in Agents \cup {Run} : Notice(who)

TaskStep(a) ==
  \/ Admitted(a)
  \/ Prepared(a) \/ PreparationOverrun(a) \/ PreparationFails(a)
  \/ Cancelled(a) \/ Granted(a) \/ Launched(a)
  \/ Answers(a) \/ FailsWithStorage(a) \/ Confirms(a)
  \/ SettledInTime(a) \/ NotSettled(a) \/ Confirmed(a) \/ Unconfirmed(a)
  \/ Announces(a) \/ TriesAgain(a) \/ Concluded(a) \/ CleanedUp(a)

Next ==
  \/ RunStep \/ LateAppend \/ Abandon
  \/ \E mode \in {"cancellation", "interruption"} : Terminate(mode)
  \/ \E a \in Agents : Request(a) \/ TaskStep(a)
  \/ \E o \in Operations : Exits(o)

Spec == Init /\ [][Next]_vars

\* Nothing is assumed of an append that missed its deadline.
\* Continuations run, sinks answer or miss their deadline, bounded waits end,
\* the worker finishes or a watchdog does, attempts end by their absolute
\* deadline.  Nothing is assumed of an execution that was told to stop.
Fairness ==
  /\ WF_vars(RunStep)
  /\ \A a \in Agents : WF_vars(TaskStep(a))

FairSpec == Spec /\ Fairness

-------------------------------------------------------------------------------
(* Properties.                                                              *)

\* "Exactly one terminal run event wins completion/failure/cancellation races",
\* and each agent is told of once, also if an overdue append finishes.
OneEndEach ==
  \A e, f \in published \cup overdue : e[2] = f[2] => e = f

\* The last event of the one who won the race.
LastEvent == IF owner = "completion" THEN "run.completed" ELSE EndEvent[owner]

\* The history can only get the last event of the winner, and the promise is not
\* open then; a value is backed by the history; and as long as the store works a
\* settled promise says what the history does.  (It may not after an overdue
\* append: see PromiseTellsHistory.)
ResultMatchesHistory ==
  /\ \A e \in published \cup overdue : e[2] = Run => Terminal /\ e[1] = LastEvent
  /\ result = "value" => <<"run.completed", Run>> \in published
  /\ Terminal /\ ~storageFailure =>
       /\ <<LastEvent, Run>> \in published
       /\ result = "value" <=> owner = "completion"

\* A run that its history says is complete is not one that failed for whoever
\* awaits its promise.
PromiseTellsHistory == <<"run.completed", Run>> \in History => result # "error"

\* The run does not complete under a live task.
CompletesAlone == main \in {"announcing", "completing"} => Tasks = {}

\* run.completed, also one that is appended late, comes after the end of every
\* agent the worker asked for: a task enters #tasks only when its admission has
\* been handled, and its end waits in the same queue, so neither the check of
\* the worker's open requests nor the drain of #tasks shows it alone.
CompletedInFull ==
  <<"run.completed", Run>> \in published \cup overdue =>
    \A a \in Agents : stage[a] = "idle" \/ \E kind \in AgentEnds : <<kind, a>> \in published

\* However completion, failure, cancellation, interruption and a failing store
\* race, history, promise and tasks agree on one end.
EndsAgree == TypeOK /\ OneEndEach /\ ResultMatchesHistory /\ CompletesAlone

\* The retries of all agents together stay within the limit of the run, and
\* every further attempt is one of them.
RetriesWithinLimit ==
  /\ Cardinality({o \in Agents \X (2..MaxAttempts) : o[2] <= attempt[o[1]]})
       <= retries
  /\ retries <= MaxRetries

\* An agent whose request may not be repeated gets no second attempt, which
\* would run beside, or after, one that may have had effects.
SecondAttemptIsSafe ==
  \A a \in Agents : attempt[a] > 1 => a \in Safe

\* No agent is tried once too often, by count or by what its request may do twice.
RetriesSafe == RetriesWithinLimit /\ SecondAttemptIsSafe

\* ownershipReleaseSafe().
Releasable == Tasks = {} /\ quarantined = {}

\* The executions a retry replaced, which its request makes harmless.
Replaced(o) == o[2] \in 1..(attempt[o[1]] - 1) /\ AutomaticBesideOld(o[1])

Stopped == \A o \in live : Replaced(o)

\* The store is not handed over while an execution or workspace operation of
\* this run goes on, except those that a safe retry replaced.
ReleasableOnlyStopped == ~storageFailure /\ Releasable => Stopped

\* "WHY an unconfirmed adapter keeps the store lease even after its logical run
\* failed: the old execution may still be mutating its workspace".
UnconfirmedKeepsLease == Releasable => Stopped

\* "cancel queued logical calls without starting providers": once the run is
\* aborted no provider is called.
NoStartAfterAbort ==
  [][aborted => \A o \in live' \ live : o[2] = 0]_vars

\* "Run shutdown is bounded even when a provider, event sink, listener, worktree
\* command, or worker ignores cancellation."
ShutdownBounded == aborted ~> (Terminal /\ Tasks = {})
================================================================================
