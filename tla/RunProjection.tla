----------------------------- MODULE RunProjection -----------------------------
(***************************************************************************)
(* What the snapshot of a run says while the runtime, its two evaluators     *)
(* (the workflow and one nested workflow) and its agents' tasks publish       *)
(* events through one queue: #emit, #acceptAgentRequest, #executeAgent, the   *)
(* phases and the ends of src/runWorkflow.ts over the reducer of              *)
(* src/workflowState.ts, up to the run.interrupted a restart appends.         *)
(*                                                                         *)
(* RunLifecycle models the waits, fences and retries of a task; here a task   *)
(* is the events it may publish, in the order it awaits them.  A look-up of a  *)
(* phase that exists takes no time.  Left out: the budget and call limits,    *)
(* which refuse a call before it has an identity, what a provider reports of an *)
(* attempt, logs and warnings.                                              *)
(***************************************************************************)
EXTENDS WorkflowState, Sequences

CONSTANTS
  Nest,         \* the phase of the nested workflow
  Declared,     \* meta.phases
  Entries,      \* the phases the workflow enters
  Named,        \* the phases an agent call may name
  Steady,       \* bound: the agents that complete unless they are stopped
  Modes,        \* bound: how the run may be stopped from outside its tasks
  MaxQueue      \* bound: events waiting in #emitTail

ASSUME ProjectionAssumption ==
  /\ Agents = 1..Cardinality(Agents) /\ Nest \in Phases
  /\ MaxQueue \in Nat /\ Steady \subseteq Agents
  /\ Modes \subseteq {"cancellation", "interruption", "failure"}
  /\ Declared \cup Entries \cup Named \subseteq Phases \ {Nest}

VARIABLES
  view,         \* the snapshot of the durable events
  rejected,     \* the first event the reducer throws on, if any
  queue,        \* #emitTail
  up,           \* the host is alive and its sink in order
  owner,        \* #terminalOwner
  terminal,     \* #terminal
  main,         \* where #run is
  ending,       \* where #terminate or #fail is
  visited,      \* how many phases its loop has visited
  turn,         \* what the message tail of the workflow awaits for a phase
  child,        \* where #executeNestedWorkflow is
  current,      \* currentPhaseId of the workflow
  known,        \* #phaseByTitle
  runtime,      \* #phaseRuntime
  sequence,     \* #agentSequence
  inner,        \* the calls of the nested workflow
  agentPhase,   \* the phase of each agent call
  stage,        \* where each agent's call is
  attempt,      \* its attempt number
  ended         \* #terminalAgents

logVars == <<view, rejected, queue, up>>
runVars == <<owner, terminal, main, ending, visited>>
phaseVars == <<turn, child, current, known, runtime>>
agentVars == <<sequence, inner, agentPhase, stage, attempt, ended>>
projectionVars == <<logVars, runVars, phaseVars, agentVars>>

NoEvent == [type |-> "none"]
\* From the request to the event that makes it a task or answers it.
Accepting == {"discovering", "admitting", "answering", "queueing"}
Working == {"waiting", "starting", "running", "confirming", "retrying", "finishing"}
\* Where a task under way can end with lastAttemptOpen.
Open == {"running", "confirming"}
Nested == {"discovering", "entering", "evaluating", "sealing"}

ProjectionTypeOK ==
  /\ view \in Snapshots /\ up \in BOOLEAN /\ terminal \in BOOLEAN
  /\ owner \in {"none", "completion", "failure", "cancellation", "interruption"}
  /\ main \in {"starting", "declaring", "evaluating", "sealing", "draining",
               "materializing", "completing", "stopped", "over"}
  /\ ending \in {"none", "stopping", "failing", "publishing", "over"}
  /\ turn \in [at : {"free", "discovering", "sealing", "entering"}, phase : Phases \cup {NoPhase}]
  /\ child \in {"none", "over", "dead"} \cup Nested
  /\ current \in Phases \cup {NoPhase} /\ known \in Seq(Phases) /\ visited \in 0..Len(known)
  /\ runtime \in [Phases -> [entered : BOOLEAN, sealed : BOOLEAN, over : BOOLEAN,
                             active : 0..Cardinality(Agents)]]
  /\ sequence \in 0..Cardinality(Agents) /\ inner \subseteq Agents
  /\ agentPhase \in [Agents -> Phases \cup {NoPhase}]
  /\ stage \in [Agents -> {"idle", "over"} \cup Accepting \cup Working]
  /\ attempt \in [Agents -> Attempts]
  /\ ended \subseteq Agents

aborted == owner \notin {"none", "completion"}
Tasks == {a \in Agents : stage[a] \in Working}
Known == {known[i] : i \in DOMAIN known}
Free == [at |-> "free", phase |-> NoPhase]
At(s, p) == [at |-> s, phase |-> p]
Discovered(p) == PhaseEvent("phase.discovered", p)
Entered(p) == PhaseEvent("phase.entered", p)
Completed(p) == PhaseEvent("phase.completed", p)
Failed(p) == PhaseEvent("phase.failed", p)

-------------------------------------------------------------------------------
(* #emit and #publishDraft.  The head of the queue is published; the final    *)
(* event of an agent may complete its phase in the same operation.  An event  *)
(* the reducer throws on is durable all the same, and no replay gets past it.  *)
(* After the end #emit drops what is left: the model stops there.            *)

publishing == up /\ ~terminal

\* #recordAgentTerminal: the phase an agent's final event takes it from.
Leaves(e) ==
  IF IsFinal(e) /\ e.agent \notin ended /\ agentPhase[e.agent] # NoPhase
  THEN IF runtime[agentPhase[e.agent]].over THEN NoPhase ELSE agentPhase[e.agent]
  ELSE NoPhase

\* Mutant of ClosesWith: the phase does not wait for its other agents.
ClosesWith_Any(p) == runtime[p].sealed

\* The last agent of a phase that takes no more.
ClosesWith(p) == runtime[p].sealed /\ runtime[p].active = 1

Replays(events) ==
  LET e == Head(events)
      one == IF Accepts(view, e) THEN Apply(view, e) ELSE view
  IN IF rejected # NoEvent THEN UNCHANGED <<view, rejected>>
     ELSE /\ rejected' = IF Accepts(view, e) THEN NoEvent ELSE e
          /\ view' = IF Len(events) = 2 /\ Accepts(one, events[2])
                     THEN Apply(one, events[2]) ELSE one

\* The caller goes on with events, and with the phases as it leaves them.
Handled(e, events, phases) ==
  /\ publishing /\ queue # <<>> /\ Head(queue) = e
  /\ queue' = Tail(queue) \o events
  /\ UNCHANGED up
  /\ LET p == Leaves(e)
     IN /\ Replays(IF p # NoPhase /\ ClosesWith(p) THEN <<e, Completed(p)>> ELSE <<e>>)
        /\ ended' = IF IsFinal(e) THEN ended \cup {e.agent} ELSE ended
        /\ runtime' = IF p = NoPhase THEN phases
                      ELSE [phases EXCEPT ![p].active = @ - 1, ![p].over = ClosesWith(p)]

\* An event is queued; MaxQueue bounds how many wait at once.
Emits(events) ==
  /\ publishing /\ (queue = <<>> \/ Len(queue) + Len(events) <= MaxQueue)
  /\ queue' = queue \o events
  /\ UNCHANGED <<view, rejected, up>>

\* Events nobody waits for, or whose sender only waits to emit the next.
Passing(e) ==
  \/ e.type \in {"agent.stalled", "run.cancellation_requested", "agent.recovery_completed",
                 "agent.termination_confirmed"}
  \/ e.type = "agent.started" /\ e.attempt > 1
  \/ e.type = "agent.failed" /\ e.retrying
Passes ==
  /\ queue # <<>> /\ Passing(Head(queue))
  /\ Handled(Head(queue), <<>>, runtime)
  /\ UNCHANGED <<runVars, turn, child, current, known, sequence, inner, agentPhase,
                 stage, attempt>>

NothingKnown ==
  [p \in Phases |-> [entered |-> FALSE, sealed |-> FALSE, over |-> FALSE, active |-> 0]]

\* The host dies, or the sink rejects or is late (#storageFailure) and nothing is
\* published any more, whatever the tasks still do; the event under way may be
\* durable.  Startup appends run.interrupted to what has no end.
Lose ==
  /\ publishing /\ up' = FALSE
  /\ (queue # <<>> /\ Replays(<<Head(queue)>>)) \/ UNCHANGED <<view, rejected>>
  /\ queue' = <<>> /\ main' = "over" /\ ending' = "none" /\ owner' = "none"
  /\ turn' = Free /\ child' = "none" /\ current' = NoPhase /\ known' = <<>> /\ visited' = 0
  /\ runtime' = NothingKnown /\ sequence' = 0 /\ inner' = {} /\ ended' = {}
  /\ agentPhase' = [a \in Agents |-> NoPhase] /\ stage' = [a \in Agents |-> "idle"]
  /\ attempt' = [a \in Agents |-> 1]
  /\ UNCHANGED terminal

Restart ==
  /\ ~up /\ rejected = NoEvent /\ view.status \notin TerminalRun
  /\ view' = Apply(view, RunEvent("run.interrupted"))
  /\ UNCHANGED <<rejected, queue, up, runVars, phaseVars, agentVars>>

-------------------------------------------------------------------------------
(* The start and the ends of the run.                                       *)

turnKept == UNCHANGED <<turn, child, current, known>>
callsKept == UNCHANGED <<sequence, inner, agentPhase, stage, attempt>>

\* meta.phases are discovered one by one.
Declares(e) ==
  /\ IF Declared \subseteq Known
     THEN /\ Handled(e, <<>>, runtime) /\ known' = known
          /\ main' = IF aborted THEN "over" ELSE "evaluating"
     ELSE \E p \in Declared \ Known :
            /\ Handled(e, <<Discovered(p)>>, runtime) /\ known' = Append(known, p)
            /\ main' = "declaring"
  /\ UNCHANGED <<owner, terminal, ending, visited, turn, child, current>> /\ callsKept

Start == main = "starting" /\ Declares(RunEvent("run.started"))
Declare == main = "declaring" /\ \E p \in Declared : Declares(Discovered(p))

\* cancel(), interrupt(), or #fail after the evaluator failed; what #run awaits
\* of the queue it still gets, and the messages of a stopped evaluator are
\* handled until it is killed.
StopAs(mode) ==
  /\ owner = "none"
  /\ owner' = mode /\ ending' = "stopping"
  /\ main' = CASE main \in {"starting", "declaring", "sealing"} -> main
              [] main = "evaluating" -> "stopped" [] OTHER -> "over"
  /\ Emits(IF mode = "cancellation" THEN <<RunEvent("run.cancellation_requested")>> ELSE <<>>)
  /\ UNCHANGED <<terminal, visited>>

Stop ==
  /\ \E mode \in Modes :
       (mode = "failure" => main \notin {"starting", "declaring"}) /\ StopAs(mode)
  /\ UNCHANGED <<phaseVars, agentVars>>

EndEvent == [failure |-> "run.failed", cancellation |-> "run.cancelled",
             interruption |-> "run.interrupted"]
\* The loop of #failOpenPhases, in the order of discovery and only once.
NextFallible ==
  {i \in visited + 1..Len(known) : runtime[known[i]].entered /\ ~runtime[known[i]].over}

\* The tasks are over, or the graces are; a phase is failed and awaited.
FailsPhase ==
  /\ ending = "stopping"
  /\ \E i \in NextFallible :
       /\ \A j \in NextFallible : i <= j
       /\ visited' = i /\ runtime' = [runtime EXCEPT ![known[i]].over = TRUE]
       /\ Emits(<<Failed(known[i])>>)
  /\ ending' = "failing"
  /\ UNCHANGED <<owner, terminal, main, ended>> /\ turnKept /\ callsKept

PhaseFailed ==
  /\ ending = "failing"
  /\ Handled(Failed(known[visited]), <<>>, runtime)
  /\ ending' = "stopping"
  /\ UNCHANGED <<owner, terminal, main, visited>> /\ turnKept /\ callsKept

Ends ==
  /\ ending = "stopping" /\ NextFallible = {}
  /\ ending' = "publishing"
  /\ Emits(<<RunEvent(EndEvent[owner])>>)
  /\ UNCHANGED <<owner, terminal, main, visited, phaseVars, agentVars>>

Ended ==
  /\ ending = "publishing"
  /\ Handled(RunEvent(EndEvent[owner]), <<>>, runtime)
  /\ ending' = "over" /\ terminal' = TRUE
  /\ UNCHANGED <<owner, main, visited>> /\ turnKept /\ callsKept

-------------------------------------------------------------------------------
(* The phases of the workflow: the messages of an evaluator are handled one   *)
(* by one, and phase() of the nested one is ignored.                         *)

Busy(calls) == \E a \in calls : stage[a] \in Accepting
Outer == (1..sequence) \ inner
OuterFree == turn = Free /\ ~Busy(Outer)

\* #sealPhase, which publishes if the phase has nothing to wait for.
MayClose(p) ==
  p # NoPhase /\ runtime[p].entered /\ runtime[p].active = 0 /\ ~runtime[p].over
Seals(p) ==
  IF p = NoPhase \/ runtime[p].over THEN runtime
  ELSE [runtime EXCEPT ![p].sealed = TRUE, ![p].over = MayClose(p)]

\* The rest of the handler of a phase message, from each of its awaits.
EntersFrom(p, phases) ==
  IF phases[p].entered THEN [turn |-> Free, current |-> p, phases |-> phases, events |-> <<>>]
  ELSE [turn |-> At("entering", p), current |-> p,
        phases |-> [phases EXCEPT ![p].entered = TRUE], events |-> <<Entered(p)>>]
SwitchesTo(p) ==
  IF p = current THEN [turn |-> Free, current |-> p, phases |-> runtime, events |-> <<>>]
  ELSE IF MayClose(current)
  THEN [turn |-> At("sealing", p), current |-> current, phases |-> Seals(current),
        events |-> <<Completed(current)>>]
  ELSE EntersFrom(p, Seals(current))

phaseKept == UNCHANGED <<runVars, child, sequence, inner, agentPhase, stage, attempt>>

\* Mutant of Knows: the title is recorded once its event is durable.
Knows_Late(p) == known' = known

\* #ensurePhase records a title before it awaits its event.
Knows(p) == known' = IF p \in Known THEN known ELSE Append(known, p)

PhaseMessage ==
  /\ OuterFree
  /\ main = "evaluating" \/ (main = "stopped" /\ ending = "stopping" /\ visited = 0)
  /\ \E p \in Entries :
       /\ Knows(p)
       /\ LET s == IF p \in Known THEN SwitchesTo(p)
                   ELSE [turn |-> At("discovering", p), current |-> current,
                         phases |-> runtime, events |-> <<Discovered(p)>>]
          IN /\ turn' = s.turn /\ current' = s.current /\ runtime' = s.phases
             /\ Emits(s.events)
  /\ UNCHANGED ended /\ phaseKept

PhaseGoesOn ==
  /\ turn # Free
  /\ LET p == turn.phase
         s == CASE turn.at = "discovering" -> SwitchesTo(p)
                [] turn.at = "sealing" -> EntersFrom(p, runtime)
                [] turn.at = "entering" ->
                     [turn |-> Free, current |-> p, phases |-> runtime, events |-> <<>>]
         awaited == CASE turn.at = "discovering" -> Discovered(p)
                      [] turn.at = "sealing" -> Completed(current)
                      [] turn.at = "entering" -> Entered(p)
     IN /\ Handled(awaited, s.events, s.phases)
        /\ turn' = s.turn /\ current' = s.current
  /\ UNCHANGED known /\ phaseKept

-------------------------------------------------------------------------------
(* #executeNestedWorkflow, a task of the workflow.                          *)

childKept ==
  UNCHANGED <<runVars, turn, current, sequence, inner, agentPhase, stage, attempt>>

ChildCalled ==
  /\ main = "evaluating" /\ OuterFree /\ child = "none"
  /\ child' = "discovering" /\ Knows(Nest)
  /\ Emits(<<Discovered(Nest)>>)
  /\ UNCHANGED <<runtime, ended>> /\ childKept

ChildGoesOn ==
  /\ \/ /\ child = "discovering" /\ child' = "entering"
        /\ Handled(Discovered(Nest), <<Entered(Nest)>>,
                   [runtime EXCEPT ![Nest].entered = TRUE])
     \/ /\ child = "entering"
        /\ child' = IF aborted THEN "over" ELSE "evaluating"
        /\ Handled(Entered(Nest), <<>>, runtime)
     \/ /\ child = "sealing" /\ child' = "over"
        /\ Handled(Completed(Nest), <<>>, runtime)
  /\ UNCHANGED known /\ childKept

ChildReturns ==
  /\ child = "evaluating" /\ \A a \in inner : stage[a] = "over"
  /\ runtime' = Seals(Nest)
  /\ IF MayClose(Nest) THEN child' = "sealing" /\ Emits(<<Completed(Nest)>>)
     ELSE child' = "over" /\ Emits(<<>>)
  /\ UNCHANGED <<known, ended>> /\ childKept

\* Its evaluator throws, exits or is given up by the watchdog: the parent gets
\* an error, and the messages already received are handled all the same.
ChildDies ==
  /\ publishing /\ child = "evaluating" /\ child' = "dead"
  /\ UNCHANGED <<logVars, known, runtime, ended>> /\ childKept

-------------------------------------------------------------------------------
(* #acceptAgentRequest, in the message tail of the evaluator that calls.     *)

Moves(a, s) == stage' = [stage EXCEPT ![a] = s]

\* Read from the counter once the phase is known.
CallIndex(a) == sequence' - 1

Admits(a, p) ==
  /\ agentPhase' = [agentPhase EXCEPT ![a] = p] /\ Moves(a, "admitting")
acceptKept == UNCHANGED <<runVars, turn, child, current, attempt>>
Joins(p) == IF p = NoPhase THEN runtime ELSE [runtime EXCEPT ![p].active = @ + 1]

Request ==
  /\ Cardinality(Agents) > sequence
  /\ sequence' = sequence + 1
  /\ LET a == sequence + 1 IN
     \/ /\ main = "evaluating" /\ OuterFree /\ UNCHANGED inner
        /\ \E p \in Named \cup {current} :
             IF p \in Known \cup {NoPhase}
             THEN /\ Admits(a, p) /\ runtime' = Joins(p) /\ UNCHANGED known
                  /\ Emits(<<Admission(a, CallIndex(a), p)>>)
             ELSE /\ Moves(a, "discovering") /\ Knows(p)
                  /\ Emits(<<Discovered(p)>>)
                  /\ UNCHANGED <<runtime, agentPhase>>
     \/ /\ child \in {"evaluating", "dead"} /\ ~Busy(inner) /\ ~aborted
        /\ inner' = inner \cup {a}
        /\ Admits(a, Nest) /\ runtime' = Joins(Nest) /\ UNCHANGED known
        /\ Emits(<<Admission(a, CallIndex(a), Nest)>>)
  /\ UNCHANGED ended /\ acceptKept

PhaseKnown(a) ==
  /\ stage[a] = "discovering" /\ UNCHANGED <<known, sequence, inner>>
  /\ \E p \in Named :
       IF aborted
       THEN Handled(Discovered(p), <<>>, runtime) /\ Moves(a, "over") /\ UNCHANGED agentPhase
       ELSE /\ Handled(Discovered(p), <<Admission(a, CallIndex(a), p)>>, Joins(p))
            /\ Admits(a, p)
  /\ acceptKept

\* A bad schema; a result or a casualty of the journal; a new task; or a value
\* that cannot cross the boundary, which fails the evaluator that called.
AdmissionHandled(a) ==
  /\ stage[a] = "admitting"
  /\ LET goes(s, events) ==
           /\ Handled(Admission(a, queue[1].callIndex, agentPhase[a]), events, runtime)
           /\ Moves(a, s)
     IN queue # <<>> /\ queue[1].type = "agent.admitted" /\
        \/ goes("queueing", <<AgentEvent("agent.queued", a)>>) /\ UNCHANGED child
        \/ goes("answering", <<Reuse(a, "completed")>>) /\ UNCHANGED child
        \/ /\ a \notin Steady /\ UNCHANGED child
           /\ \/ goes("answering", <<Failure(a, 0, FALSE)>>)
              \/ \E d \in {"failed", "recovery_required"} : goes("answering", <<Reuse(a, d)>>)
        \/ a \in inner \ Steady /\ goes("over", <<>>) /\ child' = "dead"
  /\ UNCHANGED <<runVars, turn, current, known, sequence, inner, agentPhase, attempt>>

\* An awaited event of agent a was handled.
Answered(a) ==
  /\ queue # <<>> /\ "agent" \in DOMAIN Head(queue) /\ Head(queue).agent = a
  /\ \/ /\ stage[a] = "answering" /\ Moves(a, "over")
        /\ Head(queue).type \in {"agent.failed", "agent.reused"}
     \/ /\ stage[a] = "queueing" /\ Moves(a, "waiting")
        /\ Head(queue).type = "agent.queued"
  /\ Handled(Head(queue), <<>>, runtime)
  /\ UNCHANGED <<known, sequence, inner, agentPhase>> /\ acceptKept

-------------------------------------------------------------------------------
(* #executeAgent.  Events it emits one after the other are queued together, and *)
(* a check of the signal between them is made before the first; a second       *)
(* agent.queued, when the circuit is not closed, is left out.                 *)

taskKept == UNCHANGED <<phaseVars, sequence, inner, agentPhase, ended>>
onlyMoves == taskKept /\ UNCHANGED <<runVars, attempt>>
This(a, t) == AttemptEvent(t, a, attempt[a])
If(condition, events) == IF condition THEN events ELSE <<>>

Starts(a) ==
  /\ stage[a] = "waiting" /\ ~aborted
  /\ Moves(a, "starting")
  /\ Emits(<<This(a, "agent.started")>>
             \o If(attempt[a] > 1, <<This(a, "agent.recovery_started")>>))
  /\ onlyMoves

TimesOut(a) ==
  /\ stage[a] = "running" /\ ~aborted /\ a \notin Steady
  /\ Moves(a, "confirming") /\ Emits(<<This(a, "agent.stalled")>>)
  /\ onlyMoves

\* The end of a timed-out attempt is confirmed by now, or is not.
Ending(a) == {<<>>} \cup
  (IF stage[a] = "confirming" THEN {<<This(a, "agent.termination_confirmed")>>} ELSE {})
Finishes(a, events) == Moves(a, "finishing") /\ Emits(events) /\ onlyMoves

\* A timed-out attempt completes only if its end is confirmed.
Completes(a) ==
  /\ stage[a] \in Open /\ ~aborted
  /\ Finishes(a, If(stage[a] = "confirming", <<This(a, "agent.termination_confirmed")>>)
                   \o If(attempt[a] > 1, <<This(a, "agent.recovery_completed")>>)
                   \o <<This(a, "agent.completed")>>)

\* No agent type or worktree; an attempt that failed for good, or may have acted.
GivesUp(a) ==
  /\ ~aborted /\ a \notin Steady
  /\ \/ stage[a] = "waiting" /\ attempt[a] = 1 /\ Finishes(a, <<Failure(a, 0, FALSE)>>)
     \/ stage[a] = "running" /\ Finishes(a, <<Failure(a, attempt[a], FALSE)>>)
     \/ /\ stage[a] \in Open
        /\ \E first \in Ending(a) : Finishes(a, first \o <<This(a, "agent.recovery_required")>>)

Retries(a) ==
  /\ stage[a] \in Open /\ ~aborted /\ a \notin Steady /\ attempt[a] < MaxAttempts
  /\ Moves(a, "retrying")
  /\ \E first \in Ending(a) :
       Emits(first \o <<Failure(a, attempt[a], TRUE), AgentEvent("agent.retry_scheduled", a)>>)
  /\ onlyMoves

Cancelled(a, n) == [type |-> "agent.cancelled", agent |-> a, attempt |-> n]

\* Mutant of Cancels: the event does not name the open attempt.
Cancels_Unnamed(a) ==
  /\ aborted /\ stage[a] \in {"waiting"} \cup Open
  /\ Finishes(a, <<Cancelled(a, 0)>>)

\* The end of a running attempt is confirmed, or it stays quarantined.
Cancels(a) ==
  /\ aborted
  /\ \/ stage[a] = "waiting" /\ Finishes(a, <<Cancelled(a, 0)>>)
     \/ stage[a] \in Open /\ Finishes(a, <<Cancelled(a, attempt[a])>>)
     \/ /\ stage[a] \in Open
        /\ Finishes(a, <<This(a, "agent.termination_confirmed"), Cancelled(a, attempt[a])>>)

\* An error of the supervisor: the task is over without a last event.
Breaks(a) ==
  /\ stage[a] \in {"waiting"} \cup Open /\ a \notin Steady
  /\ Moves(a, "over") /\ StopAs("failure")
  /\ taskKept /\ UNCHANGED attempt

\* The event a task awaits before it goes on; a retry begins with the delay.
TaskGoesOn(a) ==
  /\ queue # <<>>
  /\ \/ /\ stage[a] = "starting" /\ Moves(a, "running") /\ UNCHANGED attempt
        /\ Head(queue) = This(a, IF attempt[a] = 1 THEN "agent.started"
                                ELSE "agent.recovery_started")
     \/ /\ stage[a] = "retrying" /\ Moves(a, "waiting")
        /\ attempt' = [attempt EXCEPT ![a] = @ + 1]
        /\ Head(queue) = AgentEvent("agent.retry_scheduled", a)
     \/ /\ stage[a] = "finishing" /\ Moves(a, "over") /\ UNCHANGED attempt
        /\ IsFinal(Head(queue)) /\ Head(queue).agent = a
  /\ Handled(Head(queue), <<>>, runtime)
  /\ UNCHANGED <<runVars, turn, child, current, known, sequence, inner, agentPhase>>

-------------------------------------------------------------------------------
(* The end of the workflow's evaluator, and run.completed.                   *)

Returns ==
  /\ main = "evaluating" /\ OuterFree /\ child \notin Nested /\ \A a \in Outer : stage[a] = "over"
  /\ runtime' = Seals(current)
  /\ IF MayClose(current) THEN main' = "sealing" /\ Emits(<<Completed(current)>>)
     ELSE main' = "draining" /\ Emits(<<>>)
  /\ UNCHANGED <<owner, terminal, ending, visited, ended>> /\ turnKept /\ callsKept

\* #drainTasks, and the result is written before the run is claimed.
Drained ==
  /\ publishing /\ main = "draining" /\ Tasks = {} /\ child \notin Nested /\ ~aborted
  /\ main' = "materializing"
  /\ UNCHANGED <<logVars, owner, terminal, ending, visited, phaseVars, agentVars>>

Claims ==
  /\ main = "materializing" /\ owner = "none"
  /\ owner' = "completion" /\ main' = "completing"
  /\ Emits(<<RunEvent("run.completed")>>)
  /\ UNCHANGED <<terminal, ending, visited, phaseVars, agentVars>>

MainGoesOn ==
  /\ \/ /\ main = "sealing"
        /\ main' = IF aborted THEN "over" ELSE "draining"
        /\ Handled(Completed(current), <<>>, runtime) /\ UNCHANGED terminal
     \/ /\ main = "completing"
        /\ main' = "over" /\ terminal' = TRUE
        /\ Handled(RunEvent("run.completed"), <<>>, runtime)
  /\ UNCHANGED <<owner, ending, visited>> /\ turnKept /\ callsKept

ProjectionInit ==
  /\ view = createWorkflowState /\ rejected = NoEvent
  /\ queue = <<RunEvent("run.started")>> /\ up = TRUE
  /\ owner = "none" /\ terminal = FALSE /\ main = "starting" /\ ending = "none"
  /\ turn = Free /\ child = "none" /\ current = NoPhase /\ known = <<>> /\ visited = 0
  /\ runtime = NothingKnown /\ sequence = 0 /\ inner = {} /\ ended = {}
  /\ agentPhase = [a \in Agents |-> NoPhase] /\ stage = [a \in Agents |-> "idle"]
  /\ attempt = [a \in Agents |-> 1]

ProjectionNext ==
  \/ Start \/ Declare \/ PhaseMessage \/ PhaseGoesOn
  \/ ChildCalled \/ ChildGoesOn \/ ChildReturns \/ ChildDies
  \/ Request
  \/ \E a \in Agents :
       \/ PhaseKnown(a) \/ AdmissionHandled(a) \/ Answered(a)
       \/ Starts(a) \/ TimesOut(a) \/ Completes(a) \/ GivesUp(a)
       \/ Retries(a) \/ Cancels(a) \/ Breaks(a) \/ TaskGoesOn(a)
  \/ Passes \/ Lose \/ Restart
  \/ Stop \/ FailsPhase \/ PhaseFailed \/ Ends \/ Ended
  \/ Returns \/ Drained \/ Claims \/ MainGoesOn

ProjectionSpec == ProjectionInit /\ [][ProjectionNext]_projectionVars

-------------------------------------------------------------------------------
(* Properties.                                                             *)

\* Of all the ways the reducer can refuse an event of the stream (an unknown
\* phase, agent or attempt, one that exists already, an event after
\* the end), the runtime only ever meets one: an admission that carries the
\* call index of another call.
OnlyStolenIndexRejected ==
  /\ ProjectionTypeOK
  /\ rejected # NoEvent =>
       /\ rejected.type = "agent.admitted"
       /\ rejected.callIndex # rejected.agent - 1

\* Every snapshot can be rebuilt from the durable events: "persistence and live
\* delivery will eventually replay exactly this stream" (workflowState.ts).
NoEventRejected == rejected = NoEvent

\* What recovery reads when it decides whether a run may be replayed: an agent
\* with an end has no attempt still running or stalled, and a run with an end has
\* no agent without one.  The calls of a nested workflow whose evaluator died
\* are the exception (DrainedAtEnd).
Lost(a) ==
  view.status = "completed" /\ view.phaseOf[a] = Nest /\ view.phases[Nest] = "running"
NothingLeftOpen ==
  \A a \in Agents : Admitted(view, a) /\ ~Lost(a) =>
    /\ view.agents[a] \in TerminalAgent =>
         \A n \in Attempts : view.attempts[a][n] \notin Unresolved
    /\ view.status \in TerminalRun => view.agents[a] \in TerminalAgent

\* "agent() and nested workflow() calls are run-owned": a completed run has no
\* agent under way, not even one of a nested workflow that failed.
DrainedAtEnd ==
  view.status = "completed" =>
    \A a \in Agents : Admitted(view, a) => view.agents[a] \in TerminalAgent

\* Once a client can read an agent's end it stays: a retry, a late event or the
\* closing of the run never replaces it.
FinalsStay ==
  [][\A a \in Agents : view.agents[a] \in TerminalAgent => view'.agents[a] = view.agents[a]]_view

\* A phase is completed only when every agent admitted to it has ended, and a
\* run that completes leaves none running, but for that of a nested workflow
\* whose evaluator died.
PhaseTruth ==
  [][/\ \A p \in Phases : view.phases[p] # "completed" /\ view'.phases[p] = "completed" =>
          \A a \in Members(view', p) : view'.agents[a] \in TerminalAgent
     /\ view'.status = "completed" =>
          \A p \in Phases : view'.phases[p] = "running" => p = Nest]_view
================================================================================
