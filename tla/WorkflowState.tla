----------------------------- MODULE WorkflowState -----------------------------
(***************************************************************************)
(* The projection of src/workflowState.ts: reduceWorkflowState, which turns  *)
(* the events of one run into the snapshot that health, the agent list,      *)
(* recovery and every inspector read.                                       *)
(*                                                                         *)
(* An event is a record; of its payload it keeps what the reducer branches   *)
(* on, and of a snapshot the statuses and what they must agree with.  Where   *)
(* the code throws, Accepts is false.  Times, texts, usage, activities, logs, *)
(* warnings and artifacts are left out, the counts are what the statuses say. *)
(***************************************************************************)
EXTENDS Naturals, FiniteSets

CONSTANTS
  Agents,
  Phases,
  NoPhase,
  MaxAttempts

ASSUME StateAssumption ==
  /\ IsFiniteSet(Agents) /\ IsFiniteSet(Phases)
  /\ NoPhase \notin Phases
  /\ MaxAttempts \in Nat \ {0}

Attempts == 1..MaxAttempts

RunStatuses ==
  {"pending", "running", "cancellation_requested", "completed", "failed",
   "cancelled", "interrupted"}
TerminalRun == {"completed", "failed", "cancelled", "interrupted"}
AgentStatuses ==
  {"absent", "admitted", "queued", "running", "completed", "failed",
   "recovery_required", "skipped", "cancelled"}
TerminalAgent == {"completed", "failed", "recovery_required", "skipped", "cancelled"}
AttemptStatuses ==
  {"absent", "running", "stalled", "completed", "failed", "recovery_required",
   "cancelled"}
Unresolved == {"running", "stalled"}
PhaseStatuses == {"absent", "pending", "running", "completed", "failed"}

Snapshots ==
  [status : RunStatuses,
   phases : [Phases -> PhaseStatuses],
   agents : [Agents -> AgentStatuses],
   callIndex : [Agents -> 0..Cardinality(Agents)],
   phaseOf : [Agents -> Phases \cup {NoPhase}],
   attempts : [Agents -> [Attempts -> AttemptStatuses]],
   outcome : SUBSET Agents,
   error : SUBSET Agents]

createWorkflowState ==
  [status |-> "pending",
   phases |-> [p \in Phases |-> "absent"],
   agents |-> [a \in Agents |-> "absent"],
   callIndex |-> [a \in Agents |-> 0],
   phaseOf |-> [a \in Agents |-> NoPhase],
   attempts |-> [a \in Agents |-> [n \in Attempts |-> "absent"]],
   outcome |-> {}, error |-> {}]

Admitted(s, a) == s.agents[a] # "absent"
HasAttempt(s, a, n) == Admitted(s, a) /\ n \in Attempts /\ s.attempts[a][n] # "absent"
Members(s, p) == {a \in Agents : Admitted(s, a) /\ s.phaseOf[a] = p}

-------------------------------------------------------------------------------
(* The events, by what the reducer asks of them.                            *)

RunEvents ==
  {"run.started", "run.completed", "run.failed", "run.cancellation_requested",
   "run.cancelled", "run.interrupted"}
PhaseEvents ==
  {"phase.discovered", "phase.entered", "phase.completed", "phase.failed"}
\* An agent's events that name no attempt.
AgentEvents ==
  {"agent.queued", "agent.workspace.prepared", "agent.reused", "agent.skipped",
   "agent.retry_scheduled"}
\* Those that name one, known to the snapshot.
AttemptEvents ==
  {"agent.session.started", "agent.completed", "agent.stalled",
   "agent.termination_confirmed", "agent.recovery_started",
   "agent.recovery_completed", "agent.recovery_required"}
\* Those that may name one.
EitherEvents == {"agent.failed", "agent.cancelled"}

RunEvent(t) == [type |-> t]
PhaseEvent(t, p) == [type |-> t, phase |-> p]
AgentEvent(t, a) == [type |-> t, agent |-> a]
AttemptEvent(t, a, n) == [type |-> t, agent |-> a, attempt |-> n]
Admission(a, i, p) == [type |-> "agent.admitted", agent |-> a, callIndex |-> i, phase |-> p]
Failure(a, n, again) ==
  [type |-> "agent.failed", agent |-> a, attempt |-> n, retrying |-> again]
\* A result from the journal, or a coverage gap with its disposition.
Reuse(a, disposition) ==
  [type |-> "agent.reused", agent |-> a, disposition |-> disposition]

IsFinal(e) ==
  \/ e.type \in {"agent.reused", "agent.completed", "agent.recovery_required",
                 "agent.skipped", "agent.cancelled"}
  \/ e.type = "agent.failed" /\ ~e.retrying

\* Every throw of the reducer, negated.
Accepts(s, e) ==
  /\ s.status \notin TerminalRun
  /\ e.type \in PhaseEvents =>
       (e.type = "phase.discovered" <=> s.phases[e.phase] = "absent")
  /\ e.type = "agent.admitted" =>
       /\ ~Admitted(s, e.agent)
       /\ \A b \in Agents : Admitted(s, b) => s.callIndex[b] # e.callIndex
       /\ e.phase # NoPhase => s.phases[e.phase] # "absent"
  /\ e.type \in AgentEvents => Admitted(s, e.agent)
  /\ e.type = "agent.started" =>
       Admitted(s, e.agent) /\ ~HasAttempt(s, e.agent, e.attempt)
  /\ e.type \in AttemptEvents => HasAttempt(s, e.agent, e.attempt)
  /\ e.type \in EitherEvents =>
       Admitted(s, e.agent) /\ (e.attempt # 0 => HasAttempt(s, e.agent, e.attempt))

-------------------------------------------------------------------------------
(* What an accepted event does.                                             *)

\* Mutant of closeNonterminalAgents: agents that ended are closed again.
closeNonterminalAgents_All(s, status) ==
  [s EXCEPT
     !.agents = [a \in Agents |-> IF Admitted(s, a) THEN status ELSE @[a]],
     !.attempts = [a \in Agents |-> [n \in Attempts |->
         IF @[a][n] \in Unresolved THEN status ELSE @[a][n]]]]

closeNonterminalAgents(s, status) ==
  LET open == {a \in Agents : Admitted(s, a) /\ s.agents[a] \notin TerminalAgent}
  IN [s EXCEPT
        !.agents = [a \in Agents |-> IF a \in open THEN status ELSE @[a]],
        !.attempts = [a \in Agents |-> [n \in Attempts |->
            IF a \in open /\ @[a][n] \in Unresolved THEN status ELSE @[a][n]]],
        !.error = IF status = "failed" THEN @ \cup open ELSE @]

\* run.completed closes nothing: its emitter drains the tasks first.
ApplyRun(s, t) ==
  CASE t = "run.started" -> [s EXCEPT !.status = "running"]
    [] t = "run.completed" -> [s EXCEPT !.status = "completed"]
    [] t = "run.cancellation_requested" -> [s EXCEPT !.status = "cancellation_requested"]
    [] t = "run.failed" -> closeNonterminalAgents([s EXCEPT !.status = "failed"], "failed")
    [] t = "run.cancelled" ->
         closeNonterminalAgents([s EXCEPT !.status = "cancelled"], "cancelled")
    [] t = "run.interrupted" ->
         closeNonterminalAgents([s EXCEPT !.status = "interrupted"], "failed")

PhaseStatusAfter ==
  [t \in PhaseEvents |->
     CASE t = "phase.discovered" -> "pending" [] t = "phase.entered" -> "running"
       [] t = "phase.completed" -> "completed" [] t = "phase.failed" -> "failed"]

\* The agent's own status, and that of the attempt the event names, if any.
WithAgent(s, a, status) == [s EXCEPT !.agents[a] = status]
WithAttempt(s, a, n, status) ==
  IF n = 0 THEN s ELSE [s EXCEPT !.attempts[a][n] = status]

\* applyAgentOutcome and applyReusedCoverageGap.
WithOutcome(s, a, disposition) ==
  [s EXCEPT !.agents[a] = disposition, !.outcome = @ \cup {a},
            !.error = IF disposition \in {"completed", "skipped"} THEN @ \ {a}
                      ELSE @ \cup {a}]

FailsAgent(s, e) ==
  LET t == WithAttempt(s, e.agent, e.attempt, "failed")
  IN IF e.retrying
     THEN [WithAgent(t, e.agent, "queued") EXCEPT !.error = @ \ {e.agent}]
     ELSE [WithAgent(t, e.agent, "failed") EXCEPT !.error = @ \cup {e.agent}]

CancelsAgent(s, e) ==
  LET n == e.attempt
      t == IF n # 0 /\ s.attempts[e.agent][n] \in Unresolved
           THEN WithAttempt(s, e.agent, n, "cancelled") ELSE s
  IN WithAgent(t, e.agent, "cancelled")

RequiresRecovery(s, e) ==
  WithAttempt([WithAgent(s, e.agent, "recovery_required") EXCEPT !.error = @ \cup {e.agent}],
              e.agent, e.attempt, "recovery_required")

Begins(s, e) ==
  CASE e.type = "agent.queued" -> WithAgent(s, e.agent, "queued")
    [] e.type = "agent.reused" -> WithOutcome(s, e.agent, e.disposition)
    [] e.type = "agent.started" ->
         WithAttempt(WithAgent(s, e.agent, "running"), e.agent, e.attempt, "running")

ApplyAgent(s, e) ==
  CASE e.type \in {"agent.queued", "agent.reused", "agent.started"} -> Begins(s, e)
    [] e.type = "agent.retry_scheduled" -> WithAgent(s, e.agent, "queued")
    [] e.type = "agent.completed" ->
         WithAttempt(WithOutcome(s, e.agent, "completed"), e.agent, e.attempt, "completed")
    [] e.type = "agent.stalled" -> WithAttempt(s, e.agent, e.attempt, "stalled")
    [] e.type = "agent.failed" -> FailsAgent(s, e)
    [] e.type = "agent.recovery_required" -> RequiresRecovery(s, e)
    [] e.type = "agent.skipped" -> WithAgent(s, e.agent, "skipped")
    [] e.type = "agent.cancelled" -> CancelsAgent(s, e)
    [] OTHER -> s     \* sessions, workspaces, updates, terminations, recoveries

Apply(s, e) ==
  CASE e.type \in RunEvents -> ApplyRun(s, e.type)
    [] e.type \in PhaseEvents -> [s EXCEPT !.phases[e.phase] = PhaseStatusAfter[e.type]]
    [] e.type = "agent.admitted" ->
         [s EXCEPT !.agents[e.agent] = "admitted", !.callIndex[e.agent] = e.callIndex,
                   !.phaseOf[e.agent] = e.phase]
    [] OTHER -> ApplyAgent(s, e)
================================================================================
