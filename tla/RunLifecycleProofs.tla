-------------------------- MODULE RunLifecycleProofs --------------------------
(***************************************************************************)
(* Safety of a run for any number of agents, attempts and retries.          *)
(***************************************************************************)
EXTENDS RunLifecycle, FiniteSetTheorems, TLAPS

Events == Kinds \X (Agents \cup {Run})
Completion == <<"run.completed", Run>>

USE DEF Ends

\* run.completed waits in the queue.
Waits(q) == \E i \in DOMAIN q : q[i] = Completion

Once(q) == \A i, j \in DOMAIN q : q[i] = Completion /\ q[j] = Completion => i = j

\* Events that may be emitted at any time.
Harmless(events) == events \in Seq(Events) /\ ~Waits(events)

\* The log under a step that does not complete the run.
LogOK ==
  /\ queue \in Seq(Events) /\ Once(queue)
  /\ storageFailure \in BOOLEAN /\ proves \in BOOLEAN
  /\ overdue \subseteq Ends \X (Agents \cup {Run})
  /\ kept \subseteq Ends \X (Agents \cup {Run})

Quiet ==
  /\ LogOK' /\ (Waits(queue') => Waits(queue))
  /\ storageFailure => storageFailure'

LEMMA NothingHarmless == Harmless(<<>>)
BY DEF Harmless, Waits

LEMMA OneHarmless ==
  ASSUME NEW kind \in Kinds \ {"run.completed"}, NEW who \in Agents \cup {Run}
  PROVE  Harmless(<<<<kind, who>>>>)
BY DEF Harmless, Waits, Events, Completion

LEMMA QueueStep ==
  ASSUME NEW q \in Seq(Events), Once(q), NEW events, Harmless(events)
  PROVE  /\ q \o events \in Seq(Events)
         /\ Once(q \o events)
         /\ Waits(q \o events) => Waits(q)
         /\ q # <<>> => /\ Tail(q) \in Seq(Events)
                        /\ Once(Tail(q))
                        /\ Waits(Tail(q)) => Waits(q)
                        /\ Head(q) = Completion => ~Waits(Tail(q))
<1>1. /\ events \in Seq(Events)
      /\ \A i \in 1..Len(events) : events[i] # Completion
  BY DEF Harmless, Waits
<1>2. q \o events \in Seq(Events)
  BY <1>1
<1>3. /\ Len(q \o events) = Len(q) + Len(events)
      /\ \A i \in 1..Len(q) : (q \o events)[i] = q[i]
      /\ \A i \in Len(q)+1..Len(q)+Len(events) : (q \o events)[i] = events[i - Len(q)]
  BY <1>1
<1>4. \A i \in DOMAIN (q \o events) :
        (q \o events)[i] = Completion => i \in DOMAIN q /\ q[i] = Completion
  <2> SUFFICES ASSUME NEW i \in 1..Len(q \o events), (q \o events)[i] = Completion
               PROVE  i \in 1..Len(q) /\ q[i] = Completion
    BY <1>2
  <2>1. CASE i \in 1..Len(q)
    BY <2>1, <1>3
  <2>2. CASE i \notin 1..Len(q)
    <3>1. i \in Len(q)+1..Len(q)+Len(events) /\ i - Len(q) \in 1..Len(events)
      BY <2>2, <1>1, <1>3
    <3> QED
      BY <3>1, <1>1, <1>3
  <2> QED
    BY <2>1, <2>2
<1>5. ASSUME q # <<>>
      PROVE  /\ Tail(q) \in Seq(Events)
             /\ Len(Tail(q)) = Len(q) - 1
             /\ \A i \in 1..Len(Tail(q)) : i + 1 \in 1..Len(q) /\ Tail(q)[i] = q[i + 1]
  BY <1>5
<1>6. ASSUME q # <<>>
      PROVE  /\ Once(Tail(q))
             /\ Waits(Tail(q)) => Waits(q)
             /\ Head(q) = Completion => ~Waits(Tail(q))
  <2>1. Once(Tail(q))
    BY <1>5, <1>6 DEF Once
  <2>2. Waits(Tail(q)) => Waits(q)
    BY <1>5, <1>6 DEF Waits
  <2>3. Head(q) = Completion => ~Waits(Tail(q))
    BY <1>5, <1>6 DEF Waits, Once
  <2> QED
    BY <2>1, <2>2, <2>3
<1> QED
  BY <1>2, <1>4, <1>5, <1>6 DEF Once, Waits

LEMMA EmitsQuiet ==
  ASSUME LogOK, NEW events, Harmless(events), Emits(events)
  PROVE  Quiet /\ UNCHANGED published
BY QueueStep DEF LogOK, Quiet, Emits

LEMMA TakenQuiet ==
  ASSUME LogOK, NEW kind, NEW who, NEW events, Harmless(events),
         Handled(kind, who, events) \/ Refused(kind, who, events)
  PROVE  /\ Quiet
         /\ kind \notin RunEnds \cup AgentEnds => UNCHANGED published
         /\ Refused(kind, who, events) => UNCHANGED published
<1>1. Tail(queue) \in Seq(Events) /\ Once(Tail(queue))
      /\ (Waits(Tail(queue)) => Waits(queue))
  BY QueueStep, NothingHarmless DEF LogOK, Handled, Refused, AtHead
<1>2. queue' = Tail(queue) \o events
  BY DEF Handled, Refused
<1>3. queue' \in Seq(Events) /\ Once(queue') /\ (Waits(queue') => Waits(Tail(queue)))
  BY <1>1, <1>2, QueueStep
<1>4. <<kind, who>> \in Kinds \X (Agents \cup {Run})
  BY DEF LogOK, Handled, Refused, AtHead, Events
<1>5. kind \in Ends => <<kind, who>> \in Ends \X (Agents \cup {Run})
  BY <1>4
<1> QED
  BY <1>1, <1>3, <1>5 DEF LogOK, Quiet, Handled, Refused

-------------------------------------------------------------------------------
\* What a step does to the run, unless it completes it or settles its result.
RunQuiet ==
  /\ result' = result
  /\ \/ UNCHANGED <<owner, aborted, ending>>
     \/ UNCHANGED <<owner, aborted>> /\ ending = "stopping" /\ ending' = "publishing"
     \/ /\ owner = "none" /\ owner' \in {"failure", "cancellation", "interruption"}
        /\ aborted' = TRUE /\ ending' = "stopping"

Fences == live' \subseteq Operations /\ quarantined' \subseteq Operations /\ armed' \subseteq Operations

Resting == (Tracked \ {"retrying", "backoff"}) \cup {"over"}

\* A step of a's task that publishes no final event, after which it is at s.
Goes(a, s) ==
  /\ Quiet /\ UNCHANGED published
  /\ RunQuiet /\ UNCHANGED main /\ Fences
  /\ Moves(a, s)

Keeps == UNCHANGED <<attempt, retries>>

LEMMA OperationsOf ==
  ASSUME TypeOK, NEW a \in Agents
  PROVE  Workspace(a) \in Operations /\ Attempt(a) \in Operations
BY RunAssumption DEF TypeOK, Workspace, Attempt, Operations

LEMMA FenceOperations ==
  ASSUME NEW operations \in SUBSET Operations
  PROVE  Fence(operations) \subseteq Operations
BY DEF Fence

LEMMA EndByQuiet ==
  ASSUME TypeOK, NEW who \in {"failure", "cancellation", "interruption"},
         NEW listening \in SUBSET Operations, NEW fenced \in SUBSET Operations,
         Unowned, EndBy(who, listening, fenced), UNCHANGED result
  PROVE  RunQuiet /\ quarantined' \subseteq Operations /\ armed' \subseteq Operations
BY FenceOperations DEF Unowned, EndBy, RunQuiet

LEMMA FailsQuiet ==
  ASSUME TypeOK, MainFails
  PROVE  RunQuiet /\ Fences /\ main' = "over"
<1>1. CASE Unowned /\ EndBy("failure", armed, quarantined)
  BY <1>1, EndByQuiet DEF TypeOK, MainFails, Fences
<1>2. CASE UNCHANGED <<owner, aborted, ending, quarantined, armed>>
  BY <1>2 DEF TypeOK, MainFails, Fences, RunQuiet
<1> QED
  BY <1>1, <1>2 DEF MainFails, FailUnlessOwned, Fail

LEMMA TaskRejectsQuiet ==
  ASSUME TypeOK, NEW a \in Agents, NEW fenced \in SUBSET Operations, TaskRejects(a, fenced)
  PROVE  /\ RunQuiet /\ UNCHANGED main /\ Moves(a, "over")
         /\ quarantined' \subseteq Operations /\ armed' \subseteq Operations
<1>1. armed \ Of(a) \in SUBSET Operations
  BY DEF TypeOK
<1>2. CASE Unowned /\ EndBy("failure", armed \ Of(a), fenced)
  BY <1>1, <1>2, EndByQuiet DEF TaskRejects
<1>3. CASE /\ quarantined' = fenced /\ Disarm(a)
           /\ UNCHANGED <<owner, aborted, ending>>
  BY <1>1, <1>3 DEF TaskRejects, Disarm, RunQuiet
<1> QED
  BY <1>2, <1>3 DEF TaskRejects

LEMMA CleanupQuiet ==
  ASSUME TypeOK, NEW a \in Agents, NEW s, NEW alive \in SUBSET Operations,
         StartsCleanup(a, s, alive)
  PROVE  RunQuiet /\ UNCHANGED main /\ Fences /\ Moves(a, s)
BY OperationsOf DEF TypeOK, StartsCleanup, Disarm, runVars, RunQuiet, Fences

LEMMA UnwindsQuiet ==
  ASSUME TypeOK, NEW a \in Agents, NEW alive \in SUBSET Operations, Unwinds(a, alive)
  PROVE  /\ RunQuiet /\ UNCHANGED main /\ Fences
         /\ \E s \in {"unwinding", "over"} : Moves(a, s)
<1>1. CASE StartsCleanup(a, "unwinding", alive)
  BY <1>1, CleanupQuiet
<1>2. CASE TaskRejects(a, quarantined) /\ live' = alive
  BY <1>2, TaskRejectsQuiet DEF TypeOK, Fences
<1> QED
  BY <1>1, <1>2 DEF Unwinds

LEMMA LeavesQuiet ==
  ASSUME TypeOK, NEW a \in Agents, Leaves(a)
  PROVE  /\ RunQuiet /\ UNCHANGED main /\ Fences
         /\ \E s \in {"cleaning", "over"} : Moves(a, s)
<1>1. CASE StartsCleanup(a, "cleaning", live)
  BY <1>1, CleanupQuiet DEF TypeOK
<1>2. CASE Moves(a, "over") /\ Disarm(a) /\ UNCHANGED <<runVars, live, quarantined>>
  BY <1>2 DEF TypeOK, Disarm, runVars, RunQuiet, Fences
<1> QED
  BY <1>1, <1>2 DEF Leaves

LEMMA RejectedQuiet ==
  ASSUME TypeOK, LogOK, NEW a \in Agents, NEW kind, Rejected(kind, a)
  PROVE  Keeps /\ \E s \in {"finishing", "preserving", "unwinding", "over"} : Goes(a, s)
<1>1. Keeps
  BY DEF Rejected, Keeps
<1>2. CASE /\ Refused(kind, a, <<<<"agent.cancelled", a>>>>)
           /\ Moves(a, IF stage[a] = "preserving" THEN "preserving" ELSE "finishing")
           /\ UNCHANGED <<runVars, fenceVars>>
  <2>1. Harmless(<<<<"agent.cancelled", a>>>>)
    BY OneHarmless DEF Kinds, AgentEnds
  <2> QED
    BY <1>1, <1>2, <2>1, TakenQuiet DEF TypeOK, runVars, fenceVars, RunQuiet, Fences, Goes
<1>3. CASE Refused(kind, a, <<>>) /\ Unwinds(a, live)
  BY <1>1, <1>3, NothingHarmless, TakenQuiet, UnwindsQuiet DEF TypeOK, Goes
<1> QED
  BY <1>1, <1>2, <1>3 DEF Rejected
-------------------------------------------------------------------------------
\* The steps of a task, by what they do to its attempts.
Rests(a) ==
  /\ Keeps /\ \E s \in Resting : Goes(a, s)
  /\ stage[a] = "cleaning" => Moves(a, "over")

Reserves(a) ==
  /\ stage[a] # "cleaning"
  /\ Automatic(a) /\ RetryLeft(a)
  /\ retries' = retries + 1 /\ UNCHANGED attempt
  /\ Goes(a, "retrying")

Sleeps(a) == Keeps /\ stage[a] = "retrying" /\ Goes(a, "backoff")

Repeats(a) ==
  /\ stage[a] = "backoff" /\ Goes(a, "waiting")
  /\ attempt' = [attempt EXCEPT ![a] = @ + 1] /\ UNCHANGED retries

Publishes(a) ==
  /\ ~Terminal /\ stage[a] \in {"finishing", "preserving"}
  /\ \E kind \in AgentEnds : published' = published \cup {<<kind, a>>}
  /\ \E s \in {"cleaning", "over"} : Moves(a, s)
  /\ Keeps /\ Quiet /\ RunQuiet /\ UNCHANGED main /\ Fences

TaskEffect(a) ==
  /\ stage[a] \in Tracked
  /\ Rests(a) \/ Reserves(a) \/ Sleeps(a) \/ Repeats(a) \/ Publishes(a)

LEMMA FinalQuiet ==
  ASSUME LogOK, NEW a \in Agents, NEW kind \in AgentEnds \cup {"agent.retrying"},
         Final(kind, a)
  PROVE  Quiet /\ UNCHANGED published
<1>1. Harmless(<<<<kind, a>>>>)
  BY OneHarmless DEF Kinds, AgentEnds
<1> QED
  BY <1>1, EmitsQuiet DEF Final

LEMMA ConcludesRests ==
  ASSUME TypeOK, LogOK, NEW a \in Agents, NEW keep \in BOOLEAN, Concludes(a, keep),
         Quiet, UNCHANGED published, Fences,
         stage[a] \in Tracked \ {"cleaning"}
  PROVE  Rests(a)
<1>1. RunQuiet /\ UNCHANGED main /\ Keeps
  BY DEF Concludes, runVars, RunQuiet, Keeps
<1>2. PICK s \in {"preserving", "finishing"} : Moves(a, s)
  BY DEF Concludes
<1> QED
  BY <1>1, <1>2 DEF Rests, Goes, Resting, Tracked, Unanswered

LEMMA PreparationEffect ==
  ASSUME TypeOK, LogOK, NEW a \in Agents,
         Prepared(a) \/ PreparationOverrun(a) \/ PreparationFails(a)
  PROVE  TaskEffect(a)
<1>0. stage[a] = "preparing" /\ stage[a] \in Tracked \ {"cleaning"}
  BY DEF Prepared, PreparationOverrun, PreparationFails, Tracked, Unanswered
<1>1. live \ {Workspace(a)} \subseteq Operations /\ quarantined \cup {Workspace(a)} \subseteq Operations
  BY OperationsOf DEF TypeOK
<1>2. CASE Prepared(a)
  <2>1. Fences
    BY <1>1, <1>2 DEF Prepared, TypeOK, Fences
  <2>2. CASE Moves(a, "waiting") /\ UNCHANGED <<attempt, retries, runVars, logVars>>
    <3>1. Quiet /\ UNCHANGED published /\ RunQuiet /\ UNCHANGED main /\ Keeps
      BY <2>2 DEF logVars, runVars, Quiet, LogOK, Once, Waits, RunQuiet, Keeps
    <3> QED
      BY <1>0, <2>1, <2>2, <3>1 DEF TaskEffect, Rests, Goes, Resting, Tracked, Unanswered
  <2>3. CASE Concludes(a, FALSE) /\ Final("agent.cancelled", a)
    <3>1. Quiet /\ UNCHANGED published
      BY <2>3, FinalQuiet DEF AgentEnds
    <3> QED
      BY <1>0, <2>1, <2>3, <3>1, ConcludesRests DEF TaskEffect
  <2> QED
    BY <1>2, <2>2, <2>3 DEF Prepared
<1>3. CASE PreparationOverrun(a)
  <2>1. Fences
    BY <1>1, <1>3 DEF PreparationOverrun, TypeOK, Fences
  <2>2. Quiet /\ UNCHANGED published
    BY <1>3, FinalQuiet DEF PreparationOverrun, AgentEnds
  <2> QED
    BY <1>0, <1>3, <2>1, <2>2, ConcludesRests DEF TaskEffect, PreparationOverrun
<1>4. CASE PreparationFails(a)
  <2>1. CASE TaskRejects(a, quarantined) /\ UNCHANGED <<attempt, retries, logVars>>
    <3>1. Fences /\ RunQuiet /\ UNCHANGED main /\ Moves(a, "over")
      BY <1>1, <1>4, <2>1, TaskRejectsQuiet DEF PreparationFails, TypeOK, Fences
    <3>2. Quiet /\ UNCHANGED published /\ Keeps
      BY <2>1 DEF logVars, Quiet, LogOK, Once, Waits, Keeps
    <3> QED
      BY <1>0, <3>1, <3>2 DEF TaskEffect, Rests, Goes, Resting
  <2>2. CASE /\ Concludes(a, TRUE) /\ Final("agent.cancelled", a)
             /\ UNCHANGED <<quarantined, armed>>
    <3>1. Fences
      BY <1>1, <1>4, <2>2 DEF PreparationFails, TypeOK, Fences
    <3>2. Quiet /\ UNCHANGED published
      BY <2>2, FinalQuiet DEF AgentEnds
    <3> QED
      BY <1>0, <2>2, <3>1, <3>2, ConcludesRests DEF TaskEffect
  <2> QED
    BY <1>4, <2>1, <2>2 DEF PreparationFails
<1> QED
  BY <1>2, <1>3, <1>4
LEMMA RejectedRests ==
  ASSUME TypeOK, LogOK, NEW a \in Agents, NEW kind, Rejected(kind, a),
         stage[a] \in Tracked \ {"cleaning"}
  PROVE  Rests(a)
BY RejectedQuiet DEF Rests, Resting, Tracked, Unanswered

LEMMA AdvanceRests ==
  ASSUME NEW a \in Agents, NEW s \in Resting, Moves(a, s), stage[a] # "cleaning",
         Keeps, UNCHANGED runVars, Quiet, UNCHANGED published, Fences
  PROVE  Rests(a)
BY DEF Rests, Goes, RunQuiet, runVars

LEMMA AttemptEndsEffect ==
  ASSUME TypeOK, LogOK, NEW a \in Agents, NEW kind, AttemptEnds(a, kind)
  PROVE  /\ kind \in AgentEnds \cup {"agent.retrying"}
         /\ stage[a] \in Tracked \ {"cleaning"} /\ Quiet /\ UNCHANGED published /\ Fences
              => Rests(a) \/ Reserves(a)
<1>1. CASE /\ kind \in AgentEnds
           /\ Concludes(a, TRUE) \/ Concludes(a, FALSE)
  BY <1>1, ConcludesRests
<1>2. CASE kind = "agent.retrying" /\ Automatic(a) /\ RetryLeft(a) /\ Retries(a)
  BY <1>2 DEF Retries, Reserves, Goes, RunQuiet, runVars
<1> QED
  BY <1>1, <1>2 DEF AttemptEnds, AttemptFails, AgentEnds

\* The steps that change neither what is live nor what is fenced.
LEMMA WaitingEffect ==
  ASSUME TypeOK, LogOK, NEW a \in Agents,
         \/ Cancelled(a) \/ Granted(a) \/ Confirms(a) \/ NotSettled(a)
         \/ Announces(a) \/ TriesAgain(a)
  PROVE  TaskEffect(a)
<1> USE DEF Tracked, Unanswered, Resting
<1>1. UNCHANGED fenceVars => Fences
  BY DEF TypeOK, fenceVars, Fences
<1>2. CASE Cancelled(a)
  <2>1. Quiet /\ UNCHANGED published
    BY <1>2, FinalQuiet DEF Cancelled, AgentEnds
  <2> QED
    BY <1>1, <1>2, <2>1, ConcludesRests DEF Cancelled, TaskEffect
<1>3. CASE Granted(a)
  <2>1. Harmless(<<<<"agent.started", a>>>>)
    BY OneHarmless DEF Kinds
  <2> QED
    BY <1>1, <1>3, <2>1, EmitsQuiet, AdvanceRests DEF Granted, Keeps, TaskEffect
<1>4. CASE Confirms(a)
  <2>1. Harmless(IF aborted THEN <<>> ELSE <<<<"notice", a>>>>)
    BY OneHarmless, NothingHarmless DEF Kinds
  <2> QED
    BY <1>1, <1>4, <2>1, EmitsQuiet, AdvanceRests DEF Confirms, Keeps, TaskEffect
<1>5. CASE NotSettled(a)
  <2>1. Harmless(<<<<"agent.unconfirmed", a>>>>)
    BY OneHarmless DEF Kinds
  <2> QED
    BY <1>1, <1>5, <2>1, EmitsQuiet, AdvanceRests DEF NotSettled, Keeps, TaskEffect
<1>6. CASE Announces(a)
  <2>1. CASE Rejected("agent.retrying", a)
    BY <1>6, <2>1, RejectedRests DEF Announces, TaskEffect
  <2>2. CASE /\ Handled("agent.retrying", a, <<>>) /\ Moves(a, "backoff")
             /\ UNCHANGED <<attempt, retries, runVars, fenceVars>>
    <3>1. Quiet /\ UNCHANGED published
      BY <2>2, NothingHarmless, TakenQuiet DEF RunEnds, AgentEnds
    <3> QED
      BY <1>1, <1>6, <2>2, <3>1 DEF Announces, Sleeps, Goes, Keeps, RunQuiet, runVars, TaskEffect
  <2> QED
    BY <1>6, <2>1, <2>2 DEF Announces
<1>7. CASE TriesAgain(a)
  <2>1. Quiet /\ UNCHANGED published
    BY <1>7 DEF TriesAgain, logVars, Quiet, LogOK, Once, Waits
  <2> QED
    BY <1>1, <1>7, <2>1 DEF TriesAgain, Repeats, Goes, RunQuiet, runVars, TaskEffect
<1> QED
  BY <1>2, <1>3, <1>4, <1>5, <1>6, <1>7

\* The provider is called, answers, or is given up.
LEMMA ExecutionEffect ==
  ASSUME TypeOK, LogOK, NEW a \in Agents,
         \/ Launched(a) \/ Answers(a) \/ FailsWithStorage(a)
         \/ SettledInTime(a) \/ Confirmed(a)
  PROVE  TaskEffect(a)
<1> USE DEF Tracked, Unanswered, Resting
<1>1. /\ live \cup {Attempt(a)} \subseteq Operations
      /\ live \ {Attempt(a)} \subseteq Operations
      /\ quarantined \subseteq Operations /\ armed \subseteq Operations
  BY OperationsOf DEF TypeOK
<1>2. CASE Launched(a)
  <2>1. CASE Rejected("agent.started", a)
    BY <1>2, <2>1, RejectedRests DEF Launched, TaskEffect
  <2>2. CASE /\ Handled("agent.started", a, <<>>) /\ Moves(a, "running")
             /\ live' = live \cup {Attempt(a)}
             /\ UNCHANGED <<attempt, retries, runVars, quarantined, armed>>
    <3>1. Quiet /\ UNCHANGED published
      BY <2>2, NothingHarmless, TakenQuiet DEF RunEnds, AgentEnds
    <3>2. Fences /\ Keeps
      BY <1>1, <2>2 DEF Fences, Keeps
    <3> QED
      BY <1>2, <2>2, <3>1, <3>2, AdvanceRests DEF Launched, TaskEffect
  <2> QED
    BY <1>2, <2>1, <2>2 DEF Launched
<1>3. CASE Answers(a)
  <2>1. PICK kind \in Kinds : AttemptEnds(a, kind) /\ Final(kind, a)
    BY <1>3 DEF Answers
  <2>2. Quiet /\ UNCHANGED published
    BY <2>1, AttemptEndsEffect, FinalQuiet
  <2>3. Fences
    BY <1>1, <1>3 DEF Answers, Fences
  <2> QED
    BY <1>3, <2>1, <2>2, <2>3, AttemptEndsEffect DEF Answers, TaskEffect
<1>4. CASE FailsWithStorage(a)
  <2>1. PICK s \in {"unwinding", "over"} : RunQuiet /\ UNCHANGED main /\ Fences /\ Moves(a, s)
    BY <1>1, <1>4, UnwindsQuiet DEF FailsWithStorage
  <2>2. Quiet /\ UNCHANGED published /\ Keeps
    BY <1>4 DEF FailsWithStorage, logVars, Quiet, LogOK, Once, Waits, Keeps
  <2> QED
    BY <1>4, <2>1, <2>2 DEF FailsWithStorage, Rests, Goes, TaskEffect
<1>5. CASE SettledInTime(a)
  <2>1. Harmless(<<<<"agent.termination_confirmed", a>>>>)
    BY OneHarmless DEF Kinds
  <2>2. Fences /\ Keeps
    BY <1>1, <1>5 DEF SettledInTime, Fences, Keeps
  <2> QED
    BY <1>5, <2>1, <2>2, EmitsQuiet, AdvanceRests DEF SettledInTime, TaskEffect
<1>6. CASE Confirmed(a)
  <2>1. CASE Rejected("agent.termination_confirmed", a)
    BY <1>6, <2>1, RejectedRests DEF Confirmed, TaskEffect
  <2>2. ASSUME NEW kind \in Kinds, AttemptEnds(a, kind), UNCHANGED fenceVars,
               Handled("agent.termination_confirmed", a, <<<<kind, a>>>>)
        PROVE  TaskEffect(a)
    <3>1. Harmless(<<<<kind, a>>>>)
      BY <2>2, AttemptEndsEffect, OneHarmless DEF AgentEnds
    <3>2. Quiet /\ UNCHANGED published
      BY <2>2, <3>1, TakenQuiet DEF RunEnds, AgentEnds
    <3>3. Fences
      BY <1>1, <2>2 DEF TypeOK, fenceVars, Fences
    <3> QED
      BY <1>6, <2>2, <3>2, <3>3, AttemptEndsEffect DEF Confirmed, TaskEffect
  <2> QED
    BY <1>6, <2>1, <2>2 DEF Confirmed
<1> QED
  BY <1>2, <1>3, <1>4, <1>5, <1>6
LEMMA QuarantinesFences ==
  ASSUME TypeOK, NEW a \in Agents, Quarantines(a)
  PROVE  Fences
BY OperationsOf, FenceOperations DEF TypeOK, Quarantines, Fences

LEMMA UnconfirmedEffect ==
  ASSUME TypeOK, LogOK, NEW a \in Agents, Unconfirmed(a)
  PROVE  TaskEffect(a)
<1>1. stage[a] \in Tracked \ {"cleaning"}
  BY DEF Unconfirmed, Tracked, Unanswered
<1>2. ASSUME NEW kind \in (AgentEnds \cup {"agent.retrying"}),
             Handled("agent.unconfirmed", a, <<<<kind, a>>>>)
      PROVE  Quiet /\ UNCHANGED published
  <2>1. Harmless(<<<<kind, a>>>>)
    BY OneHarmless DEF Kinds, AgentEnds
  <2> QED
    BY <1>2, <2>1, TakenQuiet DEF RunEnds, AgentEnds
<1>3. CASE Rejected("agent.unconfirmed", a)
  BY <1>1, <1>3, RejectedRests DEF TaskEffect
<1>4. CASE /\ Quarantines(a) /\ Concludes(a, TRUE)
           /\ \E kind \in AgentEnds : Handled("agent.unconfirmed", a, <<<<kind, a>>>>)
  BY <1>1, <1>2, <1>4, QuarantinesFences, ConcludesRests DEF TaskEffect
<1>5. CASE /\ AutomaticBesideOld(a) /\ RetryLeft(a) /\ Retries(a)
           /\ armed' = armed \cup {Attempt(a)} /\ UNCHANGED <<live, quarantined>>
           /\ Handled("agent.unconfirmed", a, <<<<"agent.retrying", a>>>>)
  <2>1. Fences
    BY <1>5, OperationsOf DEF TypeOK, Fences
  <2>2. Reserves(a)
    BY <1>1, <1>2, <1>5, <2>1
       DEF Reserves, Retries, AutomaticBesideOld, Goes, RunQuiet, runVars
  <2> QED
    BY <1>1, <2>2 DEF TaskEffect
<1> QED
  BY <1>3, <1>4, <1>5 DEF Unconfirmed, AgentEnds

LEMMA ConcludedEffect ==
  ASSUME TypeOK, LogOK, NEW a \in Agents, Concluded(a)
  PROVE  TaskEffect(a)
<1>1. stage[a] \in {"finishing", "preserving"} /\ stage[a] \in Tracked \ {"cleaning"}
  BY DEF Concluded, Tracked, Unanswered
<1>2. ASSUME NEW kind \in AgentEnds, Rejected(kind, a)
      PROVE  TaskEffect(a)
  BY <1>1, <1>2, RejectedRests DEF TaskEffect
<1>3. ASSUME NEW kind \in AgentEnds, Refused(kind, a, <<>>), Unwinds(a, live),
             UNCHANGED <<attempt, retries>>
      PROVE  TaskEffect(a)
  <2>1. Quiet /\ UNCHANGED published /\ Keeps
    BY <1>3, NothingHarmless, TakenQuiet DEF Keeps
  <2>2. PICK s \in {"unwinding", "over"} : RunQuiet /\ UNCHANGED main /\ Fences /\ Moves(a, s)
    BY <1>3, UnwindsQuiet DEF TypeOK
  <2> QED
    BY <1>1, <2>1, <2>2 DEF Rests, Goes, Resting, Tracked, Unanswered, TaskEffect
<1>4. ASSUME NEW kind \in AgentEnds, Handled(kind, a, <<>>), Leaves(a),
             UNCHANGED <<attempt, retries>>
      PROVE  TaskEffect(a)
  <2>1. Quiet /\ Keeps
    BY <1>4, NothingHarmless, TakenQuiet DEF Keeps
  <2>2. PICK s \in {"cleaning", "over"} : RunQuiet /\ UNCHANGED main /\ Fences /\ Moves(a, s)
    BY <1>4, LeavesQuiet
  <2>3. CASE Terminal
    BY <1>1, <1>4, <2>1, <2>2, <2>3
       DEF Handled, Rests, Goes, Resting, Tracked, TaskEffect
  <2>4. CASE ~Terminal
    <3>1. published' = published \cup {<<kind, a>>}
      BY <1>4, <2>4 DEF Handled
    <3> QED
      BY <1>1, <2>1, <2>2, <2>4, <3>1 DEF Publishes, TaskEffect
  <2> QED
    BY <2>3, <2>4
<1> QED
  BY <1>2, <1>3, <1>4 DEF Concluded

LEMMA CleanedUpEffect ==
  ASSUME TypeOK, LogOK, NEW a \in Agents, CleanedUp(a)
  PROVE  TaskEffect(a)
<1>1. Quiet /\ UNCHANGED published /\ Keeps
  BY DEF CleanedUp, logVars, Quiet, LogOK, Once, Waits, Keeps
<1>2. PICK fenced \in SUBSET Operations :
        /\ live' = IF Workspace(a) \in fenced THEN live ELSE live \ {Workspace(a)}
        /\ \/ stage[a] = "unwinding" /\ TaskRejects(a, fenced)
           \/ /\ stage[a] = "cleaning" /\ Moves(a, "over")
              /\ quarantined' = fenced /\ UNCHANGED <<runVars, armed>>
  BY OperationsOf DEF TypeOK, CleanedUp
<1>3. RunQuiet /\ UNCHANGED main /\ Fences /\ Moves(a, "over")
  BY <1>2, TaskRejectsQuiet DEF TypeOK, Fences, RunQuiet, runVars
<1> QED
  BY <1>1, <1>2, <1>3 DEF Rests, Goes, Resting, Tracked, Unanswered, TaskEffect

LEMMA TaskStepEffect ==
  ASSUME TypeOK, LogOK, NEW a \in Agents, TaskStep(a), ~Admitted(a)
  PROVE  TaskEffect(a)
BY PreparationEffect, WaitingEffect, ExecutionEffect, UnconfirmedEffect,
   ConcludedEffect, CleanedUpEffect
   DEF TaskStep
-------------------------------------------------------------------------------
\* The promise and the history: run.completed waits only while the completion
\* owns an open run, and no terminator shares that run with it.
EndExact ==
  /\ result = "value" <=> Completion \in published
  /\ result = "value" => owner = "completion"
  /\ result = "error" => owner = "completion" \/ ending = "done"
  /\ Waits(queue) => owner = "completion" /\ result = "pending"
  /\ owner = "none" => result = "pending"
  /\ ending # "none" => owner \notin {"none", "completion"}
  /\ \A e \in published : e[1] \in RunEnds => Terminal /\ e[1] = LastEvent
  /\ Terminal /\ ~storageFailure =>
       <<LastEvent, Run>> \in published /\ (result = "value" <=> owner = "completion")

\* An agent whose final event is out only cleans up.
AgentEndsExact ==
  \A e \in published : e[1] \in AgentEnds => stage[e[2]] \in {"cleaning", "over"}

OnePublished == \A e, f \in published : e[2] = f[2] => e = f

\* Past its drain the run has no tasks and gets none.
Alone ==
  /\ main \in {"draining", "materializing", "announcing", "completing"}
       => \A a \in Agents : stage[a] # "admitting"
  /\ main \in {"materializing", "announcing", "completing"} => Tasks = {}

\* A retry is reserved before its attempt begins.
Reserving(a) == stage[a] \in {"retrying", "backoff"}
Within(o) == o[2] <= attempt[o[1]] \/ (Reserving(o[1]) /\ o[2] = attempt[o[1]] + 1)
Reserved == {o \in Agents \X (2..MaxAttempts) : Within(o)}

RetryExact ==
  /\ \A a \in Agents : Reserving(a) => attempt[a] < MaxAttempts /\ a \in Safe
  /\ SecondAttemptIsSafe
  /\ Cardinality(Reserved) <= retries

IInv ==
  TypeOK /\ Once(queue) /\ EndExact /\ AgentEndsExact /\ OnePublished /\ Alone /\ RetryExact

LEMMA ReservedFinite ==
  IsFiniteSet(Agents \X (2..MaxAttempts))
<1>1. IsFiniteSet(2..MaxAttempts)
  BY RunAssumption, FS_Interval
<1> QED
  BY <1>1, RunAssumption, FS_Product

LEMMA InvLogOK == IInv => LogOK
BY DEF IInv, LogOK, TypeOK, Events

LEMMA TaskTypeOK ==
  ASSUME IInv, NEW a \in Agents, TaskEffect(a)
  PROVE  TypeOK'
<1> USE DEF IInv, TypeOK
<1>1. RunQuiet /\ UNCHANGED main /\ Fences /\ Quiet
  BY DEF TaskEffect, Rests, Reserves, Sleeps, Repeats, Publishes, Goes
<1>2. PICK s \in Tracked \cup {"over"} : Moves(a, s)
  BY DEF TaskEffect, Rests, Reserves, Sleeps, Repeats, Publishes, Goes, Resting, Tracked, Unanswered
<1>3. stage' \in [Agents -> {"idle", "admitting", "over"} \cup Tracked]
  BY <1>2 DEF Moves
<1>4. attempt' \in [Agents -> 1..MaxAttempts] /\ retries' \in 0..MaxRetries
  <2>1. CASE Keeps
    BY <2>1 DEF Keeps
  <2>2. CASE Reserves(a)
    BY <2>2, RunAssumption DEF Reserves, RetryLeft
  <2>3. CASE Repeats(a)
    <3>1. attempt[a] + 1 \in 1..MaxAttempts
      BY <2>3, RunAssumption DEF Repeats, RetryExact, Reserving
    <3> QED
      BY <2>3, <3>1 DEF Repeats
  <2> QED
    BY <2>1, <2>2, <2>3 DEF TaskEffect, Rests, Sleeps, Publishes
<1>5. published' \subseteq (RunEnds \X {Run}) \cup (AgentEnds \X Agents)
  BY DEF TaskEffect, Rests, Reserves, Sleeps, Repeats, Publishes, Goes
<1>6. /\ owner' \in {"none", "completion", "failure", "cancellation", "interruption"}
      /\ aborted' \in BOOLEAN /\ result' = result /\ main' = main
      /\ ending' \in {"none", "stopping", "publishing", "done"}
  BY <1>1 DEF RunQuiet
<1>7. /\ queue' \in Seq(Kinds \X (Agents \cup {Run}))
      /\ storageFailure' \in BOOLEAN /\ proves' \in BOOLEAN
      /\ overdue' \subseteq Ends \X (Agents \cup {Run})
      /\ kept' \subseteq Ends \X (Agents \cup {Run})
  BY <1>1 DEF Quiet, LogOK, Events
<1> QED
  BY <1>1, <1>3, <1>4, <1>5, <1>6, <1>7 DEF Fences

LEMMA QuietEndExact ==
  ASSUME TypeOK, EndExact, RunQuiet, Quiet,
         \A e \in published' \ published : e[1] \notin RunEnds, published \subseteq published'
  PROVE  EndExact'
BY DEF TypeOK, EndExact, RunQuiet, Quiet, Completion, RunEnds, Terminal, LastEvent

LEMMA TaskPreservesEnds ==
  ASSUME IInv, NEW a \in Agents, TaskEffect(a)
  PROVE  EndExact' /\ AgentEndsExact' /\ OnePublished'
<1> USE DEF IInv
<1>0. \A e \in published : e \in (RunEnds \X {Run}) \cup (AgentEnds \X Agents)
  BY DEF TypeOK
<1>1. CASE Publishes(a)
  <2>1. PICK kind \in AgentEnds : published' = published \cup {<<kind, a>>}
    BY <1>1 DEF Publishes
  <2>2. PICK s \in {"cleaning", "over"} : Moves(a, s)
    BY <1>1 DEF Publishes
  <2>3. EndExact'
    BY <1>1, <2>1, QuietEndExact DEF Publishes, RunEnds, AgentEnds
  <2>4. AgentEndsExact'
    BY <1>0, <2>1, <2>2 DEF AgentEndsExact, Moves, TypeOK, RunEnds, AgentEnds
  <2>5. \A e \in published : e[2] # a
    <3> SUFFICES ASSUME NEW e \in published, e[2] = a
                 PROVE  FALSE
      OBVIOUS
    <3>1. e \in AgentEnds \X Agents
      BY <1>0, RunAssumption
    <3> QED
      BY <1>1, <3>1 DEF Publishes, AgentEndsExact
  <2>6. OnePublished'
    BY <2>1, <2>5 DEF OnePublished
  <2> QED
    BY <2>3, <2>4, <2>6
<1>2. CASE ~Publishes(a)
  <2>1. RunQuiet /\ Quiet /\ UNCHANGED published
    BY <1>2 DEF TaskEffect, Rests, Reserves, Sleeps, Repeats, Goes
  <2>2. EndExact' /\ OnePublished'
    BY <2>1, QuietEndExact DEF OnePublished
  <2>3. stage[a] \in Tracked
    BY DEF TaskEffect
  <2>4. stage[a] = "cleaning" => Moves(a, "over")
    BY <1>2 DEF TaskEffect, Rests, Reserves, Sleeps, Repeats
  <2>5. PICK s : Moves(a, s)
    BY <1>2 DEF TaskEffect, Rests, Reserves, Sleeps, Repeats, Goes
  <2>6. \A b \in Agents : stage[b] \in {"cleaning", "over"} => stage'[b] \in {"cleaning", "over"}
    BY <2>3, <2>4, <2>5 DEF Moves, TypeOK, Tracked, Unanswered
  <2>7. AgentEndsExact'
    BY <1>0, <2>1, <2>6 DEF AgentEndsExact, RunEnds, AgentEnds
  <2> QED
    BY <2>2, <2>7
<1> QED
  BY <1>1, <1>2

LEMMA TaskPreservesAlone ==
  ASSUME IInv, NEW a \in Agents, TaskEffect(a)
  PROVE  Alone'
<1>1. UNCHANGED main /\ a \in Tasks /\ main \notin {"materializing", "announcing", "completing"}
  BY DEF IInv, Alone, Tasks, TaskEffect, Rests, Reserves, Sleeps, Repeats, Publishes, Goes
<1>2. PICK s \in Tracked \cup {"over"} : Moves(a, s)
  BY DEF TaskEffect, Rests, Reserves, Sleeps, Repeats, Publishes, Goes, Resting, Tracked, Unanswered
<1>3. \A b \in Agents : stage'[b] = "admitting" => stage[b] = "admitting"
  BY <1>2 DEF IInv, TypeOK, Moves, Tracked, Unanswered
<1> QED
  BY <1>1, <1>3 DEF IInv, Alone
LEMMA TaskPreservesRetries ==
  ASSUME IInv, NEW a \in Agents, TaskEffect(a)
  PROVE  RetryExact'
<1> USE DEF IInv
<1>0. /\ attempt \in [Agents -> 1..MaxAttempts] /\ retries \in 0..MaxRetries
      /\ stage \in [Agents -> {"idle", "admitting", "over"} \cup Tracked]
      /\ MaxAttempts \in Nat /\ MaxRetries \in Nat
  BY RunAssumption DEF TypeOK
<1>1. /\ IsFiniteSet(Reserved) /\ IsFiniteSet(Reserved')
      /\ Cardinality(Reserved) \in Nat /\ Cardinality(Reserved') \in Nat
  BY ReservedFinite, FS_Subset, FS_CardinalityType DEF Reserved
<1>2. CASE Reserves(a)
  <2>1. /\ attempt' = attempt /\ retries' = retries + 1
        /\ stage' = [stage EXCEPT ![a] = "retrying"]
        /\ attempt[a] < MaxAttempts /\ a \in Safe
    BY <1>2 DEF Reserves, Goes, Moves, Automatic, RetryLeft
  <2> PICK o : o = <<a, attempt[a] + 1>>
    OBVIOUS
  <2>2. Reserved' \subseteq Reserved \cup {o}
    BY <1>0, <2>1 DEF Reserved, Within, Reserving
  <2>3. IsFiniteSet(Reserved \cup {o}) /\ Cardinality(Reserved \cup {o}) \in Nat
    BY <1>1, FS_AddElement, FS_CardinalityType
  <2>4. Cardinality(Reserved \cup {o}) <= Cardinality(Reserved) + 1
    <3>1. \/ Cardinality(Reserved \cup {o}) = Cardinality(Reserved)
          \/ Cardinality(Reserved \cup {o}) = Cardinality(Reserved) + 1
      BY <1>1, FS_AddElement, Zenon
    <3> QED
      BY <1>1, <3>1
  <2>5. Cardinality(Reserved') <= Cardinality(Reserved \cup {o})
    BY <2>2, <2>3, FS_Subset
  <2>6. Cardinality(Reserved') <= retries'
    BY <1>0, <1>1, <2>1, <2>3, <2>4, <2>5 DEF RetryExact
  <2> QED
    BY <1>0, <2>1, <2>6 DEF RetryExact, Reserving, SecondAttemptIsSafe
<1>3. CASE Rests(a) \/ Sleeps(a) \/ Publishes(a)
  <2>1. Keeps /\ \A b \in Agents : Reserving(b)' => Reserving(b)
    <3>1. PICK s \in Resting \cup {"backoff"} :
            Moves(a, s) /\ (s = "backoff" => stage[a] = "retrying")
      BY <1>3 DEF Rests, Sleeps, Publishes, Goes, Resting, Tracked
    <3> QED
      BY <1>0, <1>3, <3>1
         DEF Rests, Sleeps, Publishes, Moves, Reserving, Resting, Tracked, Unanswered
  <2>2. Reserved' \subseteq Reserved
    BY <2>1 DEF Reserved, Within, Keeps
  <2>3. Cardinality(Reserved') <= Cardinality(Reserved)
    BY <1>1, <2>2, FS_Subset
  <2>4. Cardinality(Reserved') <= retries'
    BY <1>0, <1>1, <2>1, <2>3 DEF RetryExact, Keeps
  <2> QED
    BY <2>1, <2>4 DEF RetryExact, SecondAttemptIsSafe, Keeps
<1>4. CASE Repeats(a)
  <2>1. /\ attempt' = [attempt EXCEPT ![a] = attempt[a] + 1] /\ retries' = retries
        /\ stage' = [stage EXCEPT ![a] = "waiting"] /\ stage[a] = "backoff"
    BY <1>4 DEF Repeats, Goes, Moves
  <2>2. a \in Safe
    BY <2>1 DEF RetryExact, Reserving
  <2>3. Reserved' \subseteq Reserved
    BY <1>0, <2>1 DEF Reserved, Within, Reserving
  <2>4. Cardinality(Reserved') <= Cardinality(Reserved)
    BY <1>1, <2>3, FS_Subset
  <2>5. Cardinality(Reserved') <= retries'
    BY <1>0, <1>1, <2>1, <2>4 DEF RetryExact
  <2> QED
    BY <1>0, <2>1, <2>2, <2>5 DEF RetryExact, Reserving, SecondAttemptIsSafe
<1> QED
  BY <1>2, <1>3, <1>4 DEF TaskEffect

LEMMA TaskPreserves ==
  ASSUME IInv, NEW a \in Agents, TaskEffect(a)
  PROVE  IInv'
<1>1. Once(queue')
  BY DEF TaskEffect, Rests, Reserves, Sleeps, Repeats, Publishes, Goes, Quiet, LogOK
<1> QED
  BY <1>1, TaskTypeOK, TaskPreservesEnds, TaskPreservesAlone, TaskPreservesRetries DEF IInv
-------------------------------------------------------------------------------
\* A step of the supervisor, or of its surroundings, that does not complete it.
LEMMA QuietPreserves ==
  ASSUME IInv, Quiet, RunQuiet, Fences, Keeps, UNCHANGED published,
         main' \in {"starting", "evaluating", "draining", "materializing",
                    "announcing", "completing", "over"},
         stage' \in [Agents -> {"idle", "admitting", "over"} \cup Tracked],
         \A a \in Agents : \/ stage'[a] = stage[a]
                           \/ stage[a] \in {"idle", "admitting"} /\ ~Reserving(a)',
         Alone'
  PROVE  IInv'
<1> USE DEF IInv
<1>1. EndExact'
  BY QuietEndExact
<1>2. \A e \in published : e \in (RunEnds \X {Run}) \cup (AgentEnds \X Agents)
  BY DEF TypeOK
<1>3. AgentEndsExact' /\ OnePublished'
  BY <1>2 DEF AgentEndsExact, OnePublished, RunEnds, AgentEnds
<1>4. RetryExact'
  <2>1. Reserved' \subseteq Reserved
    BY DEF Reserved, Within, Reserving, Keeps
  <2>2. Cardinality(Reserved') <= Cardinality(Reserved)
    BY <2>1, ReservedFinite, FS_Subset DEF Reserved
  <2>3. Cardinality(Reserved') <= retries'
    <3>1. /\ Cardinality(Reserved) \in Nat /\ Cardinality(Reserved') \in Nat
          /\ retries \in Nat
      BY ReservedFinite, FS_Subset, FS_CardinalityType, RunAssumption DEF Reserved, TypeOK
    <3> QED
      BY <2>2, <3>1 DEF RetryExact, Keeps
  <2> QED
    BY <2>3 DEF RetryExact, Reserving, SecondAttemptIsSafe, Keeps
<1>5. TypeOK' /\ Once(queue')
  BY DEF TypeOK, Quiet, LogOK, Events, RunQuiet, Fences, Keeps
<1> QED
  BY <1>1, <1>3, <1>4, <1>5

LEMMA RequestPreserves ==
  ASSUME IInv, NEW a \in Agents, Request(a)
  PROVE  IInv'
<1>1. Harmless(<<<<"agent.queued", a>>>>)
  BY OneHarmless DEF Kinds
<1>2. Quiet /\ UNCHANGED published
  BY <1>1, InvLogOK, EmitsQuiet DEF Request
<1>3. RunQuiet /\ Fences /\ Keeps /\ main' = "evaluating"
  BY DEF Request, IInv, TypeOK, runVars, fenceVars, RunQuiet, Fences, Keeps
<1>4. stage' = [stage EXCEPT ![a] = "admitting"] /\ stage[a] = "idle"
  BY DEF Request, Moves
<1> QED
  BY <1>2, <1>3, <1>4, QuietPreserves DEF IInv, TypeOK, Alone, Reserving

LEMMA AdmittedPreserves ==
  ASSUME IInv, NEW a \in Agents, Admitted(a)
  PROVE  IInv'
<1> USE DEF IInv
<1>1. Quiet /\ UNCHANGED published
  <2>1. Harmless(<<>>) /\ Harmless(<<<<"agent.cancelled", a>>>>)
    BY NothingHarmless, OneHarmless DEF Kinds, AgentEnds
  <2> QED
    BY <2>1, InvLogOK, TakenQuiet DEF Admitted, RunEnds, AgentEnds
<1>2. stage[a] = "admitting" /\ Keeps
  BY DEF Admitted, Keeps
<1>3. PICK s \in {"waiting", "preparing", "preserving", "over"} : Moves(a, s)
  BY DEF Admitted
<1>4. RunQuiet /\ Fences /\ main' \in {main, "over"}
  <2>1. CASE MainFails
    BY <2>1, FailsQuiet
  <2>2. CASE UNCHANGED runVars /\ live' \in {live, live \cup {Workspace(a)}}
             /\ UNCHANGED <<quarantined, armed>>
    BY <2>2, OperationsOf DEF TypeOK, runVars, RunQuiet, Fences
  <2> QED
    BY <2>1, <2>2 DEF Admitted, fenceVars
<1>5. stage' = [stage EXCEPT ![a] = s]
  BY <1>3 DEF Moves
<1>6. Alone'
  BY <1>2, <1>4 DEF Alone
<1> QED
  BY <1>1, <1>2, <1>4, <1>5, <1>6, QuietPreserves DEF TypeOK, Reserving, Tracked, Unanswered
LEMMA SupervisorPreserves ==
  ASSUME IInv, Quiet, RunQuiet, Fences, UNCHANGED <<published, taskVars>>,
         \/ main' \in {main, "evaluating", "over"}
         \/ main = "evaluating" /\ main' = "draining" /\ \A a \in Agents : stage[a] # "admitting"
         \/ main = "draining" /\ main' = "materializing" /\ Tasks = {}
         \/ main = "materializing" /\ main' = "announcing"
  PROVE  IInv'
<1>1. Alone'
  BY DEF IInv, Alone, Tasks, taskVars
<1> QED
  BY <1>1, QuietPreserves DEF IInv, TypeOK, taskVars, Keeps

\* The completion claims an open run and emits its last event.
LEMMA ClaimPreserves ==
  ASSUME IInv, Unowned, owner' = "completion", main' = "completing",
         main \in {"materializing", "announcing"},
         queue' = queue \o <<Completion>> \/ (queue # <<>> /\ queue' = Tail(queue) \o <<Completion>>),
         storageFailure' \in BOOLEAN,
         UNCHANGED <<aborted, ending, result, published, overdue, kept, proves, taskVars, fenceVars>>
  PROVE  IInv'
<1> USE DEF IInv
<1>0. LogOK /\ ~Waits(queue)
  BY InvLogOK DEF Unowned, EndExact
<1>1. PICK q \in Seq(Events) : ~Waits(q) /\ queue' = q \o <<Completion>>
  BY <1>0, QueueStep, NothingHarmless DEF LogOK
<1>2. Completion \in Events
  BY DEF Completion, Events, Kinds, RunEnds
<1>3. queue' \in Seq(Events) /\ Once(queue')
  <2>1. /\ q \o <<Completion>> \in Seq(Events)
        /\ Len(q \o <<Completion>>) = Len(q) + 1
        /\ \A i \in 1..Len(q) : (q \o <<Completion>>)[i] = q[i]
    BY <1>2
  <2>2. \A i \in 1..Len(q) : q[i] # Completion
    BY <1>1 DEF Waits
  <2>3. \A i \in DOMAIN queue' : queue'[i] = Completion => i = Len(q) + 1
    BY <1>1, <2>1, <2>2
  <2> QED
    BY <1>1, <2>1, <2>3 DEF Once
<1>4. TypeOK'
  BY <1>3 DEF TypeOK, Events, taskVars, fenceVars
<1>5. EndExact'
  BY DEF EndExact, TypeOK, Unowned, Terminal
<1>6. AgentEndsExact' /\ OnePublished' /\ Alone'
  BY DEF AgentEndsExact, OnePublished, Alone, Tasks, taskVars
<1>7. RetryExact'
  BY DEF RetryExact, Reserved, Within, Reserving, SecondAttemptIsSafe, taskVars
<1> QED
  BY <1>3, <1>4, <1>5, <1>6, <1>7

\* An end of the run is recorded, if at all, before any other.
LEMMA SettledPreserves ==
  ASSUME IInv, NEW kind \in RunEnds, result' \in {"value", "error"},
         \/ Handled(kind, Run, <<>>) \/ Refused(kind, Run, <<>>),
         \/ /\ kind = "run.completed"
            /\ result' = IF Refused(kind, Run, <<>>) THEN "error" ELSE "value"
            /\ result = "pending" /\ owner = "completion" /\ main' = "over"
            /\ UNCHANGED ending
         \/ /\ kind = EndEvent[owner] /\ kind # "run.completed" /\ result' = "error"
            /\ owner \notin {"none", "completion"} /\ ending = "publishing"
            /\ UNCHANGED main /\ ending' = "done",
         UNCHANGED <<owner, aborted, taskVars, fenceVars>>
  PROVE  IInv'
<1> USE DEF IInv
<1>1. Quiet
  BY InvLogOK, NothingHarmless, TakenQuiet
<1>2. /\ published' \in {published, published \cup {<<kind, Run>>}}
      /\ published' # published => ~Terminal
      /\ ~Terminal /\ ~storageFailure' => published' = published \cup {<<kind, Run>>}
  BY DEF Handled, Refused
<1>0. ~Terminal /\ Terminal' /\ kind = LastEvent'
  BY DEF EndExact, Terminal, LastEvent, TypeOK
<1>3. TypeOK'
  BY <1>1, <1>2 DEF TypeOK, Quiet, LogOK, Events, taskVars, fenceVars
<1>4. EndExact'
  <2>1. CASE kind = "run.completed"
    <3>1. AtHead("run.completed", Run)
      BY <2>1 DEF Handled, Refused
    <3>2. queue' = Tail(queue) \o <<>>
      BY DEF Handled, Refused
    <3>3. ~Waits(Tail(queue)) /\ Tail(queue) \in Seq(Events) /\ Once(Tail(queue))
      BY <3>1, InvLogOK, QueueStep, NothingHarmless DEF AtHead, Completion, LogOK
    <3>4. ~Waits(queue')
      BY <3>2, <3>3, QueueStep, NothingHarmless
    <3>5. result' = "value" <=> Completion \in published'
      <4>1. Completion \notin published
        BY <2>1 DEF EndExact
      <4>2. CASE Refused(kind, Run, <<>>)
        BY <2>1, <4>1, <4>2 DEF Refused
      <4>3. CASE ~Refused(kind, Run, <<>>)
        BY <2>1, <4>3 DEF Handled, Terminal, Completion
      <4> QED
        BY <4>2, <4>3
    <3>6. \A e \in published : e[1] \notin RunEnds
      BY <1>0 DEF EndExact
    <3>7. \A e \in published' : e[1] \in RunEnds => e[1] = LastEvent'
      BY <1>0, <1>2, <3>6
    <3>8. ~storageFailure' => <<LastEvent', Run>> \in published' /\ result' = "value"
      BY <1>0, <1>2, <2>1 DEF Refused
    <3> QED
      BY <1>0, <2>1, <3>4, <3>5, <3>7, <3>8 DEF EndExact
  <2>2. CASE kind # "run.completed"
    <3>1. Completion \notin published' /\ ~Waits(queue')
      BY <1>1, <1>2, <2>2 DEF EndExact, Quiet, Completion
    <3>6. \A e \in published : e[1] \notin RunEnds
      BY <1>0 DEF EndExact
    <3>7. \A e \in published' : e[1] \in RunEnds => e[1] = LastEvent'
      BY <1>0, <1>2, <3>6
    <3> QED
      BY <1>0, <1>2, <2>2, <3>1, <3>7 DEF EndExact
  <2> QED
    BY <2>1, <2>2
<1>5. AgentEndsExact' /\ OnePublished'
  <2>1. ~Terminal => \A e \in published : e[2] # Run
    BY RunAssumption DEF TypeOK, EndExact, Terminal, RunEnds
  <2> QED
    BY <1>2, <2>1 DEF AgentEndsExact, OnePublished, taskVars, RunEnds, AgentEnds
<1>6. Alone' /\ RetryExact'
  BY DEF Alone, Tasks, RetryExact, Reserved, Within, Reserving, SecondAttemptIsSafe, taskVars
<1>7. Once(queue')
  BY <1>1 DEF Quiet, LogOK
<1> QED
  BY <1>3, <1>4, <1>5, <1>6, <1>7
LEMMA ChangesNothing ==
  ASSUME IInv
  PROVE  /\ UNCHANGED logVars => Quiet /\ UNCHANGED published
         /\ UNCHANGED runVars => RunQuiet /\ UNCHANGED main
         /\ UNCHANGED fenceVars => Fences
BY InvLogOK DEF IInv, TypeOK, logVars, runVars, fenceVars, Quiet, LogOK, Once, Waits, RunQuiet, Fences

LEMMA StartPreserves ==
  ASSUME IInv, Started \/ StartCancelled
  PROVE  IInv'
<1> USE DEF IInv
<1>1. Harmless(<<>>) /\ Harmless(<<<<"notice", Run>>>>)
  BY NothingHarmless, OneHarmless DEF Kinds
<1>2. Quiet /\ UNCHANGED <<published, taskVars>>
  BY <1>1, InvLogOK, TakenQuiet DEF Started, StartCancelled, RunEnds, AgentEnds
<1>3. RunQuiet /\ Fences /\ main' \in {"evaluating", "over"}
  <2>1. CASE Started
    BY <2>1, FailsQuiet DEF Started, TypeOK, fenceVars, RunQuiet, Fences
  <2>2. CASE StartCancelled /\ Unowned /\ EndBy("cancellation", armed, quarantined)
    BY <2>2, EndByQuiet DEF StartCancelled, TypeOK, Fences
  <2>3. CASE StartCancelled /\ UNCHANGED <<owner, aborted, ending, quarantined, armed>>
    BY <2>3 DEF StartCancelled, TypeOK, RunQuiet, Fences
  <2> QED
    BY <2>1, <2>2, <2>3 DEF StartCancelled
<1> QED
  BY <1>2, <1>3, SupervisorPreserves

LEMMA WorkerPreserves ==
  ASSUME IInv, WorkerFails \/ WorkerCompletes \/ Drained
  PROVE  IInv'
<1>1. Quiet /\ UNCHANGED <<published, taskVars>>
  BY ChangesNothing DEF WorkerFails, WorkerCompletes, Drained
<1>2. CASE WorkerFails
  BY <1>1, <1>2, FailsQuiet, SupervisorPreserves DEF WorkerFails, IInv
<1>3. CASE WorkerCompletes \/ Drained
  <2>1. RunQuiet /\ Fences
    BY <1>3, ChangesNothing DEF WorkerCompletes, Drained, RunQuiet
  <2> QED
    BY <1>1, <1>3, <2>1, SupervisorPreserves DEF WorkerCompletes, Drained
<1> QED
  BY <1>2, <1>3

LEMMA ResultPreserves ==
  ASSUME IInv, Materialized \/ Announced
  PROVE  IInv'
<1> USE DEF IInv
<1>1. UNCHANGED taskVars /\ main \in {"materializing", "announcing"}
  BY DEF Materialized, Announced
<1>2. CASE MainFails /\ UNCHANGED logVars
  BY <1>1, <1>2, ChangesNothing, FailsQuiet, SupervisorPreserves
<1>3. CASE MainFails /\ Refused("artifact.created", Run, <<>>)
  <2>1. Quiet /\ UNCHANGED published
    BY <1>3, InvLogOK, NothingHarmless, TakenQuiet
  <2> QED
    BY <1>1, <1>3, <2>1, FailsQuiet, SupervisorPreserves
<1>4. CASE /\ main = "materializing" /\ main' = "announcing"
           /\ Emits(<<<<"artifact.created", Run>>>>)
           /\ UNCHANGED <<owner, aborted, result, ending, fenceVars>>
  <2>1. Harmless(<<<<"artifact.created", Run>>>>)
    BY OneHarmless DEF Kinds
  <2>2. Quiet /\ UNCHANGED published
    BY <1>4, <2>1, InvLogOK, EmitsQuiet
  <2> QED
    BY <1>1, <1>4, <2>2, ChangesNothing, SupervisorPreserves DEF RunQuiet
<1>5. CASE /\ ClaimCompletion /\ UNCHANGED <<result, fenceVars>>
           /\ Emits(Completing) \/ Handled("artifact.created", Run, Completing)
  <2>1. CASE main' = "completing"
    <3>1. Unowned /\ owner' = "completion" /\ UNCHANGED <<aborted, ending>>
      BY <1>5, <2>1 DEF ClaimCompletion
    <3>2. /\ queue' = queue \o <<Completion>> \/ (queue # <<>> /\ queue' = Tail(queue) \o <<Completion>>)
          /\ storageFailure' \in BOOLEAN /\ UNCHANGED <<published, overdue, kept, proves>>
      BY <1>5, <2>1 DEF Completing, Completion, Emits, Handled, AtHead, TypeOK, RunEnds, AgentEnds
    <3> QED
      BY <1>1, <1>5, <2>1, <3>1, <3>2, ClaimPreserves
  <2>2. CASE main' # "completing"
    <3>1. main' = "over" /\ UNCHANGED <<owner, aborted, ending>>
      BY <1>5, <2>2 DEF ClaimCompletion
    <3>2. Completing = <<>>
      BY <2>2 DEF Completing
    <3>3. Quiet /\ UNCHANGED published
      BY <1>5, <3>2, InvLogOK, NothingHarmless, EmitsQuiet, TakenQuiet DEF RunEnds, AgentEnds
    <3> QED
      BY <1>1, <1>5, <3>1, <3>3, ChangesNothing, SupervisorPreserves DEF RunQuiet
  <2> QED
    BY <2>1, <2>2
<1> QED
  BY <1>2, <1>3, <1>4, <1>5 DEF Materialized, Announced

LEMMA CompletedPreserves ==
  ASSUME IInv, Completed
  PROVE  IInv'
<1>1. AtHead("run.completed", Run)
  BY DEF Completed, Handled, Refused
<1>2. Waits(queue)
  <2>1. Len(queue) >= 1 /\ Head(queue) = queue[1]
    BY <1>1 DEF AtHead, IInv, TypeOK
  <2> QED
    BY <1>1, <2>1 DEF AtHead, Waits, Completion, IInv, TypeOK
<1>3. owner = "completion" /\ result = "pending"
  BY <1>2 DEF IInv, EndExact
<1>4. result' = IF Refused("run.completed", Run, <<>>) THEN "error" ELSE "value"
  BY DEF Completed, Handled, Refused, Terminal
<1> QED
  BY <1>3, <1>4, SettledPreserves DEF Completed, RunEnds

LEMMA EndEventKinds ==
  ASSUME IInv, ending # "none"
  PROVE  EndEvent[owner] \in RunEnds \ {"run.completed"}
<1>1. owner \in {"failure", "cancellation", "interruption"}
  BY DEF IInv, EndExact, TypeOK
<1> QED
  BY <1>1 DEF EndEvent, RunEnds

LEMMA EndPreserves ==
  ASSUME IInv, StopWaiting \/ Ended
  PROVE  IInv'
<1>1. EndEvent[owner] \in RunEnds \ {"run.completed"}
  BY EndEventKinds DEF StopWaiting, Ended
<1>2. CASE StopWaiting
  <2>1. Harmless(<<<<EndEvent[owner], Run>>>>)
    BY <1>1, OneHarmless DEF Kinds
  <2>2. Quiet /\ UNCHANGED published
    BY <1>2, <2>1, InvLogOK, EmitsQuiet DEF StopWaiting
  <2>3. RunQuiet /\ Fences
    BY <1>2, ChangesNothing DEF StopWaiting, RunQuiet
  <2> QED
    BY <1>2, <2>2, <2>3, SupervisorPreserves DEF StopWaiting
<1>3. CASE Ended
  <2>1. owner \notin {"none", "completion"}
    BY <1>3 DEF Ended, IInv, EndExact
  <2> QED
    BY <1>1, <1>3, <2>1, SettledPreserves DEF Ended
<1> QED
  BY <1>2, <1>3

LEMMA NoticePreserves ==
  ASSUME IInv, NEW who \in Agents \cup {Run}, Notice(who)
  PROVE  IInv'
<1>1. Quiet /\ UNCHANGED published
  BY InvLogOK, NothingHarmless, TakenQuiet DEF Notice, RunEnds, AgentEnds
<1> QED
  BY <1>1, ChangesNothing, SupervisorPreserves DEF Notice

LEMMA TerminatePreserves ==
  ASSUME IInv, NEW mode \in {"cancellation", "interruption"}, Terminate(mode)
  PROVE  IInv'
<1>1. Harmless(IF mode = "cancellation" THEN <<<<"notice", Run>>>> ELSE <<>>)
  BY NothingHarmless, OneHarmless DEF Kinds
<1>2. Quiet /\ UNCHANGED published
  BY <1>1, InvLogOK, EmitsQuiet DEF Terminate
<1>3. RunQuiet /\ Fences
  <2>1. TypeOK /\ {live, armed, quarantined} \subseteq SUBSET Operations
    BY DEF IInv, TypeOK
  <2>2. RunQuiet /\ quarantined' \subseteq Operations /\ armed' \subseteq Operations
    BY <2>1, EndByQuiet DEF Terminate
  <2> QED
    BY <2>1, <2>2 DEF Terminate, Fences
<1> QED
  BY <1>2, <1>3, SupervisorPreserves DEF Terminate

LEMMA OutsidePreserves ==
  ASSUME IInv, Abandon \/ \E o \in Operations : Exits(o)
  PROVE  IInv'
<1>1. Quiet /\ UNCHANGED published /\ RunQuiet /\ UNCHANGED <<main, taskVars>>
  BY ChangesNothing DEF Abandon, Exits
<1>2. Fences
  BY DEF Abandon, Exits, Fences, IInv, TypeOK
<1> QED
  BY <1>1, <1>2, SupervisorPreserves

LEMMA LatePreserves ==
  ASSUME IInv, LateAppend
  PROVE  IInv'
<1>1. RunQuiet /\ Fences /\ UNCHANGED <<main, published, taskVars>>
  BY ChangesNothing DEF LateAppend, RunQuiet, runVars
<1>2. Quiet
  BY InvLogOK DEF LateAppend, LogOK, Quiet, Once, Waits
<1> QED
  BY <1>1, <1>2, SupervisorPreserves

LEMMA NextPreserves == IInv /\ [Next]_vars => IInv'
<1> SUFFICES ASSUME IInv, [Next]_vars
             PROVE  IInv'
  OBVIOUS
<1>1. CASE RunStep
  BY <1>1, StartPreserves, WorkerPreserves, ResultPreserves, CompletedPreserves,
     EndPreserves, NoticePreserves
     DEF RunStep
<1>2. ASSUME NEW a \in Agents, TaskStep(a)
      PROVE  IInv'
  BY <1>2, InvLogOK, AdmittedPreserves, TaskStepEffect, TaskPreserves DEF IInv
<1>3. CASE UNCHANGED vars
  BY <1>3, ChangesNothing, SupervisorPreserves DEF vars
<1> QED
  BY <1>1, <1>2, <1>3, RequestPreserves, TerminatePreserves, OutsidePreserves, LatePreserves DEF Next

LEMMA InitIInv == Init => IInv
<1> SUFFICES ASSUME Init
             PROVE  IInv
  OBVIOUS
<1> USE DEF Init
<1>1. Reserved = {}
  BY RunAssumption DEF Reserved, Within, Reserving
<1>2. Cardinality(Reserved) <= retries
  BY <1>1, FS_EmptySet
<1>3. RetryExact
  BY <1>2 DEF RetryExact, Reserving, SecondAttemptIsSafe
<1>4. Harmless(<<<<"run.started", Run>>>>)
  BY OneHarmless DEF Kinds
<1>5. queue \in Seq(Events) /\ ~Waits(queue) /\ Once(queue)
  BY <1>4 DEF Harmless, Once, Waits
<1>6. TypeOK
  <2>1. attempt \in [Agents -> 1..MaxAttempts] /\ retries \in 0..MaxRetries
    BY RunAssumption
  <2>2. stage \in [Agents -> {"idle", "admitting", "over"} \cup Tracked]
    OBVIOUS
  <2>3. queue \in Seq(Kinds \X (Agents \cup {Run}))
    BY <1>5 DEF Events
  <2> QED
    BY <2>1, <2>2, <2>3, Zenon DEF TypeOK
<1>7. EndExact
  BY <1>5 DEF EndExact, Terminal
<1>8. AgentEndsExact /\ OnePublished /\ Alone
  BY DEF AgentEndsExact, OnePublished, Alone
<1> QED
  BY <1>3, <1>5, <1>6, <1>7, <1>8 DEF IInv

\* IInv is invariant: the induction all theorems of this module rest on.
THEOREM Invariance == Spec => []IInv
BY InitIInv, NextPreserves, PTL DEF Spec

\* Every reachable state of the runtime is well typed.
THEOREM TypeCorrect == Spec => []TypeOK
BY Invariance, PTL DEF IInv

\* A run does not complete under a live task.
THEOREM DrainsFirst == Spec => []CompletesAlone
<1>1. IInv => CompletesAlone
  BY DEF IInv, Alone, CompletesAlone
<1> QED
  BY <1>1, Invariance, PTL

\* Concurrent failures of many agents never take more retries than the run has.
THEOREM RetriesBounded == Spec => []RetriesWithinLimit
<1>1. ASSUME IInv
      PROVE  RetriesWithinLimit
  <2> DEFINE Begun == {o \in Agents \X (2..MaxAttempts) : o[2] <= attempt[o[1]]}
  <2>1. Begun \subseteq Reserved
    BY DEF Reserved, Within
  <2>2. IsFiniteSet(Reserved) /\ Cardinality(Reserved) \in Nat /\ Cardinality(Begun) \in Nat
    BY <2>1, ReservedFinite, FS_Subset, FS_CardinalityType DEF Reserved
  <2>3. Cardinality(Begun) <= Cardinality(Reserved)
    BY <2>1, <2>2, FS_Subset
  <2>4. Cardinality(Reserved) <= retries /\ retries \in 0..MaxRetries
    BY <1>1 DEF IInv, RetryExact, TypeOK
  <2> QED
    BY <2>2, <2>3, <2>4, RunAssumption DEF RetriesWithinLimit
<1> QED
  BY <1>1, Invariance, PTL

\* No request that may not be repeated is repeated.
THEOREM UnsafeTriedOnce == Spec => []SecondAttemptIsSafe
BY Invariance, PTL DEF IInv, RetryExact

\* No agent is tried once too often, for any number of agents and retries.
THEOREM RetrySafety == Spec => []RetriesSafe
BY RetriesBounded, UnsafeTriedOnce, PTL DEF RetriesSafe

-------------------------------------------------------------------------------
(* What the history can get, also from an append that is late.              *)

\* Only a store that has failed owes an append: of an agent nothing was told
\* before, or of the run the event that ends it.
LateExact ==
  /\ kept \subseteq overdue
  /\ overdue # {} => storageFailure
  /\ OneEndEach
  /\ \A e \in overdue : e[2] = Run => Terminal /\ e[1] = LastEvent

\* What a step does to the log unless an append misses its deadline in it.
EndsKept ==
  /\ UNCHANGED <<overdue, kept>> /\ published \subseteq published'
  /\ storageFailure => storageFailure' /\ UNCHANGED published

LateMisses(kind, who) ==
  /\ ~storageFailure /\ storageFailure'
  /\ UNCHANGED <<published, kept>> /\ overdue' = overdue \cup {<<kind, who>>}

LEMMA LogKeepsEnds ==
  ASSUME NEW kind, NEW who, NEW events
  PROVE  /\ UNCHANGED logVars \/ Emits(events) \/ Handled(kind, who, events) => EndsKept
         /\ Refused(kind, who, events) => EndsKept \/ (kind \in Ends /\ LateMisses(kind, who))
<1>1. UNCHANGED logVars \/ Emits(events) => EndsKept
  BY DEF Emits, EndsKept, logVars
<1>2. Handled(kind, who, events) => EndsKept
  BY DEF Handled, EndsKept
<1>3. Refused(kind, who, events) => EndsKept \/ (kind \in Ends /\ LateMisses(kind, who))
  BY DEF Refused, EndsKept, LateMisses
<1> QED
  BY <1>1, <1>2, <1>3

\* What a step does to the end of the run, unless it is the last.
Onward ==
  /\ result' = result
  /\ \/ owner' = owner
     \/ owner = "none" /\ owner' \in {"failure", "cancellation", "interruption"}
     \/ owner = "none" /\ owner' = "completion" /\ main' = "completing"
  /\ main \in {"completing", "over"} => main' = main

LEMMA QuietOnward ==
  ASSUME RunQuiet, main \in {"completing", "over"} => main' = main
  PROVE  Onward
BY DEF RunQuiet, Onward

LEMMA SupervisorOnward ==
  ASSUME IInv, RunStep, ~Completed, ~Ended
  PROVE  Onward /\ EndsKept /\ UNCHANGED taskVars
<1> USE DEF IInv
<1>1. UNCHANGED taskVars
  BY DEF RunStep, Started, StartCancelled, WorkerFails, WorkerCompletes, Drained,
         Materialized, Announced, StopWaiting, Notice
<1>2. EndsKept
  <2>1. ASSUME NEW kind \in {"run.started", "artifact.created", "notice"},
               NEW who, NEW events, Handled(kind, who, events) \/ Refused(kind, who, events)
        PROVE  EndsKept
    BY <2>1, LogKeepsEnds DEF RunEnds, AgentEnds
  <2>2. CASE Started \/ StartCancelled \/ Announced \/ \E who \in Agents \cup {Run} : Notice(who)
    BY <2>1, <2>2 DEF Started, StartCancelled, Announced, Notice
  <2>3. CASE WorkerFails \/ WorkerCompletes \/ Drained \/ Materialized \/ StopWaiting
    BY <2>3, LogKeepsEnds DEF WorkerFails, WorkerCompletes, Drained, Materialized, StopWaiting
  <2> QED
    BY <2>2, <2>3 DEF RunStep
<1>3. CASE MainFails
  <2>1. main # "completing" /\ RunQuiet /\ main' = "over"
    BY <1>3, FailsQuiet
       DEF RunStep, Started, StartCancelled, WorkerFails, WorkerCompletes, Drained,
           Materialized, ClaimCompletion, Announced, StopWaiting, Notice, MainFails, runVars
  <2> QED
    BY <1>1, <1>2, <2>1, QuietOnward
<1>4. CASE ~MainFails
  <2>1. CASE StartCancelled
    BY <1>1, <1>2, <2>1 DEF StartCancelled, Unowned, EndBy, Onward
  <2>2. CASE Materialized \/ Announced
    BY <1>1, <1>2, <1>4, <2>2 DEF Materialized, Announced, ClaimCompletion, Unowned, Onward
  <2>3. CASE Started \/ WorkerFails \/ WorkerCompletes \/ Drained
    BY <1>1, <1>2, <1>4, <2>3 DEF Started, WorkerFails, WorkerCompletes, Drained, Onward
  <2>4. CASE StopWaiting \/ \E who \in Agents \cup {Run} : Notice(who)
    BY <1>1, <1>2, <2>4 DEF StopWaiting, Notice, runVars, Onward
  <2> QED
    BY <2>1, <2>2, <2>3, <2>4 DEF RunStep
<1> QED
  BY <1>3, <1>4

LEMMA TaskOnward ==
  ASSUME IInv, NEW a \in Agents, TaskStep(a)
  PROVE  /\ Onward /\ stage[a] \notin {"idle", "over"}
         /\ \A b \in Agents \ {a} : stage'[b] = stage[b]
         /\ stage[a] = "admitting" \/ a \in Tasks
         /\ owner' # "completion" \/ owner = "completion"
<1> USE DEF IInv
<1>1. CASE Admitted(a)
  <2>1. stage[a] = "admitting" /\ main \notin {"completing"}
    BY <1>1 DEF Admitted, Alone
  <2>2. RunQuiet /\ main' \in {main, "over"}
    BY <1>1, FailsQuiet DEF Admitted, runVars, RunQuiet
  <2>3. PICK s : Moves(a, s)
    BY <1>1 DEF Admitted
  <2>4. Onward
    BY <2>1, <2>2, QuietOnward
  <2> QED
    BY <2>1, <2>2, <2>3, <2>4 DEF RunQuiet, Moves, TypeOK
<1>2. CASE ~Admitted(a)
  <2>1. TaskEffect(a)
    BY <1>2, InvLogOK, TaskStepEffect
  <2>2. RunQuiet /\ UNCHANGED main /\ a \in Tasks
    BY <2>1 DEF TaskEffect, Rests, Reserves, Sleeps, Repeats, Publishes, Goes, Tasks
  <2>3. PICK s : Moves(a, s)
    BY <2>1 DEF TaskEffect, Rests, Reserves, Sleeps, Repeats, Publishes, Goes
  <2>4. Onward
    BY <2>2, QuietOnward
  <2> QED
    BY <2>2, <2>3, <2>4 DEF RunQuiet, Moves, TypeOK, Tasks, Tracked, Unanswered
<1> QED
  BY <1>1, <1>2

\* Of a task only its conclusion can miss the deadline.
LEMMA TaskKeepsEnds ==
  ASSUME NEW a \in Agents, TaskStep(a)
  PROVE  EndsKept \/ (Concluded(a) /\ \E kind \in AgentEnds : LateMisses(kind, a))
<1>1. CASE Admitted(a) \/ Launched(a) \/ Confirmed(a) \/ Unconfirmed(a) \/ Announces(a)
  <2>1. ASSUME NEW kind, kind \notin Ends, NEW events,
               Handled(kind, a, events) \/ Refused(kind, a, events)
        PROVE  EndsKept
    BY <2>1, LogKeepsEnds
  <2>2. {"agent.queued", "agent.started", "agent.termination_confirmed", "agent.unconfirmed",
         "agent.retrying"} \cap Ends = {}
    BY DEF RunEnds, AgentEnds
  <2>3. ASSUME NEW kind, kind \notin Ends, Rejected(kind, a)
        PROVE  EndsKept
    BY <2>1, <2>3 DEF Rejected
  <2>4. CASE Admitted(a) \/ Launched(a) \/ Announces(a)
    BY <2>1, <2>2, <2>3, <2>4 DEF Admitted, Launched, Announces
  <2>5. CASE Confirmed(a) \/ Unconfirmed(a)
    BY <2>1, <2>2, <2>3, <2>5 DEF Confirmed, Unconfirmed
  <2> QED
    BY <1>1, <2>4, <2>5
<1>2. CASE Concluded(a)
  BY <1>2, LogKeepsEnds DEF Concluded, Rejected
<1>3. CASE \/ Prepared(a) \/ PreparationOverrun(a) \/ PreparationFails(a)
           \/ Cancelled(a) \/ Granted(a) \/ Answers(a) \/ FailsWithStorage(a)
           \/ Confirms(a) \/ SettledInTime(a) \/ NotSettled(a) \/ TriesAgain(a)
           \/ CleanedUp(a)
  BY <1>3, LogKeepsEnds
     DEF Prepared, PreparationOverrun, PreparationFails, Cancelled, Granted, Answers,
         FailsWithStorage, Confirms, SettledInTime, NotSettled, TriesAgain, CleanedUp, Final
<1> QED
  BY <1>1, <1>2, <1>3 DEF TaskStep

\* The steps outside the run, of an agent's request and of nobody.
LEMMA OthersOnward ==
  ASSUME IInv,
         \/ Abandon \/ \E mode \in {"cancellation", "interruption"} : Terminate(mode)
         \/ (\E o \in Operations : Exits(o)) \/ (\E a \in Agents : Request(a))
         \/ UNCHANGED vars
  PROVE  Onward /\ EndsKept
<1>1. Onward
  BY DEF Abandon, Terminate, EndBy, Unowned, Exits, Request, vars, runVars, Onward
<1>2. EndsKept
  BY LogKeepsEnds DEF Abandon, Terminate, Exits, Request, vars
<1> QED
  BY <1>1, <1>2

LEMMA StepOnward ==
  ASSUME IInv, [Next]_vars, ~Completed, ~Ended, ~LateAppend
  PROVE  /\ Onward
         /\ EndsKept \/ \E a \in Agents, kind \in AgentEnds : Concluded(a) /\ LateMisses(kind, a)
         /\ \A a \in Agents : stage'[a] = stage[a] \/ TaskStep(a) \/ Request(a)
<1>1. CASE RunStep
  BY <1>1, SupervisorOnward DEF taskVars
<1>2. ASSUME NEW a \in Agents, TaskStep(a)
      PROVE  /\ Onward
             /\ \/ EndsKept
                \/ \E b \in Agents, kind \in AgentEnds : Concluded(b) /\ LateMisses(kind, b)
             /\ \A b \in Agents : stage'[b] = stage[b] \/ TaskStep(b) \/ Request(b)
  BY <1>2, TaskOnward, TaskKeepsEnds
<1>3. CASE \/ Abandon \/ \E mode \in {"cancellation", "interruption"} : Terminate(mode)
           \/ (\E o \in Operations : Exits(o)) \/ UNCHANGED vars
  <2>1. UNCHANGED stage
    BY <1>3 DEF Abandon, Terminate, Exits, vars, taskVars
  <2> QED
    BY <1>3, <2>1, OthersOnward
<1>4. ASSUME NEW a \in Agents, Request(a)
      PROVE  /\ Onward /\ EndsKept
             /\ \A b \in Agents : stage'[b] = stage[b] \/ TaskStep(b) \/ Request(b)
  <2>1. \A b \in Agents : b # a => stage'[b] = stage[b]
    BY <1>4 DEF Request, Moves, IInv, TypeOK
  <2> QED
    BY <1>4, <2>1, OthersOnward
<1> QED
  BY <1>1, <1>2, <1>3, <1>4 DEF Next

\* The step that settles the result: which event it publishes.
LEMMA LastSettles ==
  ASSUME IInv, Completed \/ Ended
  PROVE  /\ ~Terminal /\ Terminal' /\ UNCHANGED <<owner, taskVars>>
         /\ Completed <=> owner = "completion"
         /\ EndsKept \/ LateMisses(LastEvent, Run)
         /\ \A e \in published : e[2] # Run
<1>1. CASE Completed
  <2>1. AtHead("run.completed", Run)
    BY <1>1 DEF Completed, Handled, Refused
  <2>2. Waits(queue)
    <3>1. Len(queue) >= 1 /\ Head(queue) = queue[1]
      BY <2>1 DEF AtHead, IInv, TypeOK
    <3> QED
      BY <2>1, <3>1 DEF AtHead, Waits, Completion, IInv, TypeOK
  <2>3. owner = "completion" /\ ~Terminal
    BY <2>2 DEF IInv, EndExact, Terminal
  <2> QED
    BY <1>1, <2>3, LogKeepsEnds, RunAssumption
       DEF Completed, Terminal, LastEvent, IInv, TypeOK, EndExact
<1>2. CASE Ended
  <2>1. owner \notin {"none", "completion"} /\ ~Terminal
    BY <1>2 DEF Ended, IInv, TypeOK, EndExact, Terminal
  <2>2. ~Completed
    BY <1>1, <2>1
  <2> QED
    BY <1>2, <2>1, <2>2, LogKeepsEnds, RunAssumption
       DEF Ended, Terminal, LastEvent, IInv, TypeOK, EndExact
<1> QED
  BY <1>1, <1>2

LEMMA LatePreserved ==
  ASSUME IInv, IInv', LateExact, [Next]_vars
  PROVE  LateExact'
<1>1. OnePublished' /\ \A e \in published : e \in (RunEnds \X {Run}) \cup (AgentEnds \X Agents)
  BY DEF IInv, TypeOK
<1>2. ASSUME EndsKept, Terminal => Terminal' /\ UNCHANGED owner
      PROVE  LateExact'
  <2>1. CASE overdue = {}
    BY <1>1, <1>2, <2>1 DEF EndsKept, LateExact, OneEndEach, OnePublished
  <2>2. CASE overdue # {}
    <3>1. UNCHANGED <<published, overdue, kept>> /\ storageFailure'
      BY <1>2, <2>2 DEF EndsKept, LateExact
    <3>2. Terminal => LastEvent' = LastEvent
      BY <1>2 DEF LastEvent
    <3> QED
      BY <1>2, <3>1, <3>2 DEF LateExact, OneEndEach
  <2> QED
    BY <2>1, <2>2
<1>3. ASSUME NEW kind, NEW who, LateMisses(kind, who), \A e \in published : e[2] # who,
             who = Run => Terminal' /\ kind = LastEvent'
      PROVE  LateExact'
  <2>1. /\ published' = published /\ overdue' = {<<kind, who>>}
        /\ kept' = {} /\ storageFailure'
    BY <1>3 DEF LateMisses, LateExact
  <2>2. OneEndEach'
    BY <1>1, <1>3, <2>1 DEF OneEndEach, OnePublished
  <2> QED
    BY <1>3, <2>1, <2>2 DEF LateExact
<1>4. CASE Completed \/ Ended
  <2>1. EndsKept \/ LateMisses(LastEvent, Run)
    BY <1>4, LastSettles
  <2>2. /\ Terminal' /\ LastEvent' = LastEvent /\ UNCHANGED owner
        /\ \A e \in published : e[2] # Run
    BY <1>4, LastSettles DEF LastEvent
  <2> QED
    BY <1>2, <1>3, <2>1, <2>2
<1>5. CASE LateAppend
  BY <1>5 DEF LateAppend, LateExact, OneEndEach, Terminal, LastEvent, runVars
<1>6. CASE ~Completed /\ ~Ended /\ ~LateAppend
  <2>1. Onward
    BY <1>6, StepOnward
  <2>2. Terminal => Terminal' /\ UNCHANGED owner
    BY <2>1 DEF Onward, Terminal, IInv, EndExact
  <2>3. ASSUME NEW a \in Agents, NEW kind \in AgentEnds, Concluded(a), LateMisses(kind, a)
        PROVE  LateExact'
    <3>1. stage[a] \in {"finishing", "preserving"}
      BY <2>3 DEF Concluded
    <3>2. \A e \in published : e[2] # a
      BY <1>1, <3>1, RunAssumption DEF IInv, AgentEndsExact
    <3> QED
      BY <1>3, <2>3, <3>2, RunAssumption
  <2> QED
    BY <1>2, <1>6, <2>2, <2>3, StepOnward
<1> QED
  BY <1>4, <1>5, <1>6

\* The history tells how the task of a ended.
Told(a) == \E kind \in AgentEnds : <<kind, a>> \in published

\* As long as the store works and nothing fails the run, a task that is over
\* has been told of; what waits for the last event keeps it so.
FullInv ==
  /\ owner = "completion" /\ ~Terminal => main = "completing"
  /\ ~Terminal /\ ~storageFailure /\ owner \in {"none", "completion"} =>
       \A a \in Agents : stage[a] \in {"cleaning", "over"} => Told(a)
  /\ Completion \in published \cup overdue =>
       main = "over" /\ \A a \in Agents : stage[a] = "idle" \/ Told(a)

LEMMA RejectingEnds ==
  ASSUME NEW a \in Agents, NEW fenced, TaskRejects(a, fenced)
  PROVE  owner' # "none"
BY DEF TaskRejects, Unowned, EndBy

\* A task leaves unheard of only when the run has ended or will fail.
LEMMA LeavesTold ==
  ASSUME TypeOK, NEW a \in Agents, TaskStep(a), stage'[a] \in {"cleaning", "over"}
  PROVE  stage[a] = "cleaning" \/ Told(a)' \/ Terminal \/ storageFailure' \/ owner' # "none"
<1>1. ASSUME NEW s, Moves(a, s)
      PROVE  s \in {"cleaning", "over"}
  BY <1>1 DEF Moves, TypeOK
<1>2. ASSUME NEW kind, Rejected(kind, a)
      PROVE  storageFailure'
  BY <1>2 DEF Rejected, Refused
<1>3. ASSUME NEW kind, AttemptEnds(a, kind)
      PROVE  FALSE
  BY <1>1, <1>3 DEF AttemptEnds, AttemptFails, Concludes, Retries
<1>4. CASE Admitted(a)
  BY <1>1, <1>4 DEF Admitted, Refused
<1>5. CASE Launched(a) \/ Announces(a)
  BY <1>1, <1>2, <1>5 DEF Launched, Announces
<1>6. CASE Confirmed(a)
  BY <1>2, <1>3, <1>6 DEF Confirmed
<1>7. CASE Unconfirmed(a)
  BY <1>1, <1>2, <1>7 DEF Unconfirmed, Concludes, Retries
<1>8. CASE \/ Prepared(a) \/ PreparationOverrun(a) \/ Cancelled(a) \/ Granted(a)
           \/ Answers(a) \/ Confirms(a) \/ SettledInTime(a) \/ NotSettled(a) \/ TriesAgain(a)
  BY <1>1, <1>3, <1>8
     DEF Prepared, PreparationOverrun, Cancelled, Granted, Answers, Confirms, SettledInTime,
         NotSettled, TriesAgain, Concludes
<1>9. CASE PreparationFails(a)
  BY <1>1, <1>9, RejectingEnds DEF PreparationFails, Concludes
<1>10. CASE FailsWithStorage(a)
  BY <1>10 DEF FailsWithStorage, logVars
<1>11. CASE Concluded(a)
  <2>1. PICK kind \in AgentEnds :
          \/ Handled(kind, a, <<>>) \/ Refused(kind, a, <<>>) \/ Rejected(kind, a)
    BY <1>11 DEF Concluded
  <2> QED
    BY <1>2, <2>1 DEF Handled, Refused, Told
<1>12. CASE CleanedUp(a)
  BY <1>12, RejectingEnds DEF CleanedUp
<1> QED
  BY <1>4, <1>5, <1>6, <1>7, <1>8, <1>9, <1>10, <1>11, <1>12 DEF TaskStep

\* run.completed, published or owed, is the end of a run that told of all.
LEMMA CompletedFull ==
  ASSUME IInv, FullInv, Completed, Completion \in published' \cup overdue',
         Completion \notin published \cup overdue
  PROVE  main' = "over" /\ \A a \in Agents : stage'[a] = "idle" \/ Told(a)'
<1>1. ~Terminal /\ owner = "completion" /\ UNCHANGED taskVars
  BY LastSettles
<1>2. ~storageFailure /\ published \subseteq published' /\ main' = "over"
  BY <1>1 DEF Completed, Handled, Refused
<1>3. \A a \in Agents : stage[a] \in {"idle", "over"}
  BY DEF Completed, IInv, Alone, Tasks, Tracked, TypeOK
<1>4. \A a \in Agents : stage[a] = "idle" \/ Told(a)
  BY <1>1, <1>2, <1>3 DEF FullInv
<1> QED
  BY <1>1, <1>2, <1>4 DEF Told, taskVars

LEMMA FullPreserved ==
  ASSUME IInv, IInv', LateExact', FullInv, [Next]_vars
  PROVE  FullInv'
<1>1. CASE Completed
  <2>1. Terminal' /\ Completion \notin published /\ \A e \in published : e[2] # Run
    BY <1>1, LastSettles DEF Completion
  <2>2. Completion \notin overdue => Completion \notin published \cup overdue
    BY <2>1
  <2>3. CASE Completion \in overdue
    <3>1. main = "over"
      BY <2>3 DEF FullInv
    <3> QED
      BY <1>1, <3>1 DEF Completed
  <2> QED
    BY <1>1, <2>1, <2>2, <2>3, CompletedFull DEF FullInv
<1>2. CASE Ended
  <2>1. Terminal' /\ owner' # "completion" /\ owner' \in {"failure", "cancellation", "interruption"}
    BY <1>2, LastSettles DEF Ended, IInv, EndExact, TypeOK
  <2>2. LastEvent' # "run.completed"
    BY <2>1 DEF LastEvent, EndEvent
  <2>3. Completion \notin published' \cup overdue'
    BY <2>2 DEF LateExact, IInv, EndExact, Completion, RunEnds
  <2> QED
    BY <2>1, <2>3 DEF FullInv
<1>3. CASE LateAppend
  BY <1>3 DEF LateAppend, FullInv, Told, Terminal, runVars, taskVars
<1>4. CASE ~Completed /\ ~Ended /\ ~LateAppend
  <2>1. /\ Onward
        /\ EndsKept \/ \E a \in Agents, kind \in AgentEnds : Concluded(a) /\ LateMisses(kind, a)
        /\ \A a \in Agents : stage'[a] = stage[a] \/ TaskStep(a) \/ Request(a)
    BY <1>4, StepOnward
  <2>2. /\ published \subseteq published' /\ (storageFailure => storageFailure')
        /\ Completion \in overdue' => Completion \in overdue
    BY <2>1, RunAssumption DEF EndsKept, LateMisses, Completion
  <2>3. /\ Terminal' <=> Terminal
        /\ Completion \in published' <=> Completion \in published
    BY <2>1 DEF Onward, Terminal, IInv, EndExact
  <2>4. \A a \in Agents : Told(a) => Told(a)'
    BY <2>2 DEF Told
  <2>5. owner' = "completion" /\ ~Terminal' => main' = "completing"
    BY <2>1, <2>3 DEF Onward, FullInv
  <2>6. ASSUME ~Terminal', ~storageFailure', owner' \in {"none", "completion"},
               NEW a \in Agents, stage'[a] \in {"cleaning", "over"}
        PROVE  Told(a)'
    <3>1. stage[a] \in {"cleaning", "over"} => Told(a)
      BY <2>1, <2>2, <2>3, <2>6 DEF Onward, FullInv
    <3>2. ~Request(a)
      BY <2>6 DEF Request, Moves, IInv, TypeOK
    <3>3. CASE TaskStep(a)
      <4>1. owner' = "none"
        <5> SUFFICES ASSUME owner = "completion"
                     PROVE  FALSE
          BY <2>6, <3>3, TaskOnward
        <5>1. main = "completing"
          BY <2>3, <2>6 DEF FullInv
        <5> QED
          BY <3>3, <5>1, TaskOnward DEF IInv, Alone
      <4> QED
        BY <2>3, <2>4, <2>6, <3>1, <3>3, <4>1, LeavesTold DEF IInv
    <3> QED
      BY <2>1, <2>4, <2>6, <3>1, <3>2, <3>3
  <2>7. ASSUME Completion \in published' \cup overdue'
        PROVE  main' = "over" /\ \A a \in Agents : stage'[a] = "idle" \/ Told(a)'
    <3>1. main = "over" /\ \A a \in Agents : stage[a] = "idle" \/ Told(a)
      BY <2>2, <2>3, <2>7 DEF FullInv
    <3>2. \A a \in Agents : stage[a] = "idle" => stage'[a] = "idle"
      BY <2>1, <3>1, TaskOnward DEF Request
    <3> QED
      BY <2>1, <2>4, <3>1, <3>2 DEF Onward
  <2> QED
    BY <2>5, <2>6, <2>7 DEF FullInv
<1> QED
  BY <1>1, <1>2, <1>3, <1>4

\* StoryInv adds to IInv what an append past its deadline may still publish.
StoryInv == IInv /\ LateExact /\ FullInv

LEMMA StoryInvariance == Spec => []StoryInv
<1>1. Init => StoryInv
  <2>1. Init => LateExact /\ FullInv
    BY DEF Init, LateExact, FullInv, OneEndEach
  <2> QED
    BY <2>1, InitIInv DEF StoryInv
<1>2. StoryInv /\ [Next]_vars => StoryInv'
  BY NextPreserves, LatePreserved, FullPreserved DEF StoryInv
<1> QED
  BY <1>1, <1>2, PTL DEF Spec

\* Of the run and of each agent the history tells at most one end, whichever
\* appends miss their deadline and finish after all: it never has to choose
\* between a cancelled and a completed run.
THEOREM EndsOnce == Spec => []OneEndEach
BY StoryInvariance, PTL DEF StoryInv, LateExact

\* Whoever awaits a run whose store works is told what its history says; of
\* another run the history can get no end but that of the winner, and none while
\* the promise is open.
THEOREM PromiseMatchesHistory == Spec => []ResultMatchesHistory
<1>1. ASSUME StoryInv
      PROVE  ResultMatchesHistory
  <2>1. ASSUME NEW e \in published, e[2] = Run
        PROVE  e[1] \in RunEnds
    BY <1>1, <2>1, RunAssumption DEF StoryInv, IInv, TypeOK
  <2> QED
    BY <1>1, <2>1 DEF StoryInv, IInv, EndExact, LateExact, ResultMatchesHistory, Completion
<1> QED
  BY <1>1, StoryInvariance, PTL

\* History, promise and tasks agree on one end, for any number of agents.
THEOREM EndAgreement == Spec => []EndsAgree
BY TypeCorrect, EndsOnce, PromiseMatchesHistory, DrainsFirst, PTL DEF EndsAgree

\* A run that is, or may yet be, complete in its history has told there how
\* every agent that its workflow asked for ended.
THEOREM CompletionAccounts == Spec => []CompletedInFull
<1>1. StoryInv => CompletedInFull
  BY DEF StoryInv, FullInv, Told, Completion, CompletedInFull
<1> QED
  BY <1>1, StoryInvariance, PTL

-------------------------------------------------------------------------------
(* What is alive is fenced.                                                 *)

\* Where the operations of a that have not stopped are accounted for.
FencedAt(a) ==
  /\ \A o \in live : o[1] = a =>
       o[2] <= attempt[a] /\ (o[2] \in 1..(attempt[a] - 1) => AutomaticBesideOld(a))
  /\ Reserving(a) /\ Attempt(a) \in live => AutomaticBesideOld(a)
  /\ stage[a] = "confirmed" => Attempt(a) \notin live
  /\ Workspace(a) \in live =>
       stage[a] \in {"preparing", "cleaning", "unwinding"} \/ Workspace(a) \in quarantined
  /\ ~storageFailure /\ Attempt(a) \in live =>
       \/ stage[a] \in {"running", "confirming", "unconfirmed"}
       \/ Attempt(a) \in quarantined
       \/ Reserving(a) /\ Attempt(a) \in armed

\* After the abort nothing listens for it any more.
FenceExact == (aborted => armed = {}) /\ \A a \in Agents : FencedAt(a)

FenceInv == IInv /\ FenceExact

\* What stays alive stays fenced.
Covered(o) ==
  /\ o \in quarantined => o \in quarantined'
  /\ o \in armed /\ o[2] > 0 => o \in armed' \cup quarantined'

KeepsFailure == storageFailure => storageFailure'

Untouched(b) ==
  /\ stage'[b] = stage[b] /\ attempt'[b] = attempt[b]
  /\ KeepsFailure
  /\ \A o \in live' : o[1] = b => o \in live /\ Covered(o)

LEMMA UntouchedFenced ==
  ASSUME TypeOK, NEW b \in Agents, FencedAt(b), Untouched(b)
  PROVE  FencedAt(b)'
<1>1. attempt[b] \in 1..MaxAttempts /\ MaxAttempts \in Nat
  BY RunAssumption DEF TypeOK
<1>2. /\ Attempt(b)' = Attempt(b) /\ Attempt(b)[1] = b /\ Attempt(b)[2] = attempt[b]
      /\ Workspace(b)[1] = b
  BY DEF Untouched, Attempt, Workspace
<1>3. Reserving(b)' <=> Reserving(b)
  BY DEF Untouched, Reserving
<1> QED
  BY <1>1, <1>2, <1>3 DEF Untouched, Covered, FencedAt, KeepsFailure

\* A step of a's task may touch only a's operations.
OthersFenced(a) ==
  /\ KeepsFailure
  /\ \A o \in live' : o[1] # a => o \in live /\ Covered(o)
  /\ aborted' => armed' = {}

LEMMA StepFenced ==
  ASSUME FenceInv, NEW a \in Agents, NEW s, Moves(a, s), OthersFenced(a),
         \A b \in Agents : b # a => attempt'[b] = attempt[b],
         FencedAt(a)'
  PROVE  FenceExact'
<1>1. ASSUME NEW b \in Agents, b # a
      PROVE  FencedAt(b)'
  <2>1. Untouched(b)
    BY <1>1 DEF FenceInv, IInv, TypeOK, OthersFenced, Untouched, Moves
  <2> QED
    BY <2>1, UntouchedFenced DEF FenceInv, IInv, FenceExact
<1> QED
  BY <1>1 DEF FenceExact, OthersFenced

\* a moves on to s with its operations alive, but for a new workspace operation.
LEMMA MovesFenced ==
  ASSUME FenceInv, NEW a \in Agents, NEW s, Moves(a, s), UNCHANGED attempt,
         OthersFenced(a), live' \subseteq live \cup {Workspace(a)},
         Workspace(a) \in live' =>
           s \in {"preparing", "cleaning", "unwinding"} \/ Workspace(a) \in quarantined',
         s \in {"retrying", "backoff"} /\ Attempt(a) \in live' => AutomaticBesideOld(a),
         s = "confirmed" => Attempt(a) \notin live',
         ~storageFailure' /\ Attempt(a) \in live' =>
           \/ s \in {"running", "confirming", "unconfirmed"}
           \/ Attempt(a) \in quarantined'
           \/ s \in {"retrying", "backoff"} /\ Attempt(a) \in armed'
  PROVE  FenceExact'
<1>1. attempt[a] \in 1..MaxAttempts /\ MaxAttempts \in Nat
  BY RunAssumption DEF FenceInv, IInv, TypeOK
<1>2. Attempt(a)' = Attempt(a) /\ attempt'[a] = attempt[a] /\ stage'[a] = s
  BY DEF FenceInv, IInv, TypeOK, Attempt, Moves
<1>3. \A o \in live' : o[1] = a =>
        o[2] <= attempt[a] /\ (o[2] \in 1..(attempt[a] - 1) => AutomaticBesideOld(a))
  <2>1. \A o \in live : o[1] = a =>
          o[2] <= attempt[a] /\ (o[2] \in 1..(attempt[a] - 1) => AutomaticBesideOld(a))
    BY DEF FenceInv, FenceExact, FencedAt
  <2>2. Workspace(a)[2] = 0
    BY DEF Workspace
  <2> QED
    BY <1>1, <2>1, <2>2
<1>4. FencedAt(a)'
  BY <1>2, <1>3 DEF FencedAt, Reserving
<1> QED
  BY <1>4, StepFenced

\* An end of the run quarantines what it was listening for.
LEMMA EndCovers ==
  ASSUME NEW who, NEW listening, NEW fenced, EndBy(who, listening, fenced),
         quarantined \subseteq fenced
  PROVE  /\ fenced \subseteq quarantined'
         /\ \A o \in live : (o \in armed => o \in listening) => Covered(o)
         /\ armed' = {}
BY DEF EndBy, Fence, Covered

LEMMA RejectsCovers ==
  ASSUME FenceInv, NEW a \in Agents, NEW fenced, TaskRejects(a, fenced),
         quarantined \subseteq fenced, KeepsFailure,
         live' \subseteq live \cup {Workspace(a)}
  PROVE  OthersFenced(a) /\ Moves(a, "over") /\ fenced \subseteq quarantined'
<1> USE DEF OthersFenced
<1>1. Moves(a, "over") /\ Workspace(a)[1] = a
  BY DEF TaskRejects, Workspace
<1>2. CASE EndBy("failure", armed \ Of(a), fenced)
  <2>1. \A o \in live : o[1] # a => Covered(o)
    BY <1>2, EndCovers DEF Of
  <2> QED
    BY <1>1, <1>2, <2>1, EndCovers
<1>3. CASE quarantined' = fenced /\ Disarm(a) /\ UNCHANGED aborted
  <2>1. \A o \in live : o[1] # a => Covered(o)
    BY <1>3 DEF Covered, Disarm, Of
  <2> QED
    BY <1>1, <1>3, <2>1 DEF Disarm, FenceInv, FenceExact
<1> QED
  BY <1>2, <1>3 DEF TaskRejects

\* A task that leaves the fences alone, but for its own workspace operation.
LEMMA KeepsFences ==
  ASSUME FenceInv, NEW a \in Agents, KeepsFailure,
         live' \subseteq live \cup {Workspace(a)},
         quarantined \subseteq quarantined',
         armed' = armed \/ Disarm(a), UNCHANGED aborted
  PROVE  OthersFenced(a)
BY DEF OthersFenced, Covered, Disarm, Of, Workspace, FenceInv, FenceExact

LEMMA LogKeepsFailure ==
  /\ \A events : Emits(events) => UNCHANGED storageFailure
  /\ \A kind, who, events : Handled(kind, who, events) => UNCHANGED storageFailure
  /\ \A kind, who, events : Refused(kind, who, events) => storageFailure'
BY DEF Emits, Handled, Refused

\* What a refused event leaves of the task: it is cancelled or unwinds.
LEMMA UnwindsFenced ==
  ASSUME FenceInv, NEW a \in Agents, NEW alive, Unwinds(a, alive), UNCHANGED attempt,
         alive \subseteq live, KeepsFailure,
         Workspace(a) \in alive => Workspace(a) \in quarantined,
         ~storageFailure' /\ Attempt(a) \in alive => Attempt(a) \in quarantined
  PROVE  FenceExact'
<1>1. CASE StartsCleanup(a, "unwinding", alive)
  <2>1. OthersFenced(a)
    BY <1>1, KeepsFences DEF StartsCleanup, runVars
  <2>2. /\ Moves(a, "unwinding") /\ live' \subseteq live \cup {Workspace(a)}
        /\ ~storageFailure' /\ Attempt(a) \in live' => Attempt(a) \in quarantined'
    <3>1. Attempt(a) # Workspace(a)
      BY RunAssumption DEF Attempt, Workspace, FenceInv, IInv, TypeOK
    <3> QED
      BY <1>1, <3>1 DEF StartsCleanup
  <2> QED
    BY <2>1, <2>2, MovesFenced
<1>2. CASE TaskRejects(a, quarantined) /\ live' = alive
  <2>1. OthersFenced(a) /\ Moves(a, "over") /\ quarantined \subseteq quarantined'
    BY <1>2, RejectsCovers
  <2> QED
    BY <1>2, <2>1, MovesFenced
<1> QED
  BY <1>1, <1>2 DEF Unwinds

LEMMA LeavesFenced ==
  ASSUME FenceInv, NEW a \in Agents, stage[a] \in {"finishing", "preserving"},
         Leaves(a), UNCHANGED attempt, UNCHANGED storageFailure
  PROVE  FenceExact'
<1> DEFINE s == IF HasWorkspaceToClean(a) THEN "cleaning" ELSE "over"
<1>1. /\ Moves(a, s) /\ Disarm(a) /\ UNCHANGED <<aborted, quarantined>>
      /\ live' \subseteq live \cup {Workspace(a)}
      /\ s = "over" => live' = live
  BY DEF Leaves, StartsCleanup, runVars
<1>2. OthersFenced(a)
  BY <1>1, KeepsFences DEF KeepsFailure
<1>3. Attempt(a) # Workspace(a)
  BY RunAssumption DEF Attempt, Workspace, FenceInv, IInv, TypeOK
<1>4. /\ Workspace(a) \in live => Workspace(a) \in quarantined
      /\ ~storageFailure /\ Attempt(a) \in live => Attempt(a) \in quarantined
  BY DEF FenceInv, FenceExact, FencedAt, Reserving
<1>5. s \in {"cleaning", "over"} /\ (Attempt(a) \in live' => Attempt(a) \in live)
  BY <1>1, <1>3
<1> QED
  BY <1>1, <1>2, <1>4, <1>5, MovesFenced

\* Refused events end the task; Rejected is only met where no workspace
\* operation of it is under way.
LEMMA RejectedFenced ==
  ASSUME FenceInv, NEW a \in Agents, NEW kind, Rejected(kind, a),
         stage[a] \notin {"preparing", "cleaning", "unwinding"}
  PROVE  FenceExact'
<1>1. UNCHANGED attempt /\ storageFailure'
  BY LogKeepsFailure DEF Rejected
<1>2. Workspace(a) \in live => Workspace(a) \in quarantined
  BY DEF FenceInv, FenceExact, FencedAt
<1>3. CASE Unwinds(a, live)
  BY <1>1, <1>2, <1>3, UnwindsFenced DEF KeepsFailure
<1>4. CASE /\ Moves(a, IF stage[a] = "preserving" THEN "preserving" ELSE "finishing")
           /\ UNCHANGED <<runVars, fenceVars>>
  <2>1. OthersFenced(a)
    BY <1>1, <1>4, KeepsFences DEF KeepsFailure, runVars, fenceVars
  <2> DEFINE s == IF stage[a] = "preserving" THEN "preserving" ELSE "finishing"
  <2>2. s \in {"preserving", "finishing"} /\ Moves(a, s)
    BY <1>4
  <2> QED
    BY <1>1, <1>2, <1>4, <2>1, <2>2, MovesFenced DEF fenceVars
<1> QED
  BY <1>3, <1>4 DEF Rejected

LEMMA BeginsFenced ==
  ASSUME FenceInv, NEW a \in Agents,
         Request(a) \/ Cancelled(a) \/ Granted(a)
  PROVE  FenceExact'
<1>1. PICK s \in {"admitting", "finishing", "starting"} : Moves(a, s)
  BY DEF Request, Cancelled, Concludes, Granted
<1>2. UNCHANGED <<attempt, aborted, storageFailure, fenceVars>>
  BY LogKeepsFailure DEF Request, Cancelled, Concludes, Final, Granted, runVars
<1>3. OthersFenced(a)
  BY <1>2, KeepsFences DEF KeepsFailure, fenceVars
<1>4. stage[a] \in {"idle", "waiting", "backoff"}
  BY DEF Request, Cancelled, Granted
<1>5. Workspace(a) \in live => Workspace(a) \in quarantined
  BY <1>4 DEF FenceInv, FenceExact, FencedAt
<1>6. ~storageFailure /\ Attempt(a) \in live => Attempt(a) \in quarantined
  BY <1>4 DEF FenceInv, FenceExact, FencedAt, Reserving, Cancelled, Request, Granted
<1> QED
  BY <1>1, <1>2, <1>3, <1>5, <1>6, MovesFenced DEF fenceVars

LEMMA AdmittedFenced ==
  ASSUME FenceInv, NEW a \in Agents, Admitted(a)
  PROVE  FenceExact'
<1>1. /\ Workspace(a) \in live => Workspace(a) \in quarantined
      /\ ~storageFailure /\ Attempt(a) \in live => Attempt(a) \in quarantined
  BY DEF FenceInv, FenceExact, FencedAt, Reserving, Admitted
<1>2. UNCHANGED attempt /\ Attempt(a) # Workspace(a)
  BY RunAssumption DEF Admitted, Attempt, Workspace, FenceInv, IInv, TypeOK
<1>3. KeepsFailure /\ (storageFailure' \/ UNCHANGED storageFailure)
  BY LogKeepsFailure DEF Admitted, KeepsFailure
<1>4. ASSUME NEW s \in {"waiting", "preserving"}, Moves(a, s), UNCHANGED <<runVars, fenceVars>>
      PROVE  FenceExact'
  <2>1. OthersFenced(a)
    BY <1>3, <1>4, KeepsFences DEF runVars, fenceVars
  <2> QED
    BY <1>1, <1>2, <1>3, <1>4, <2>1, MovesFenced DEF KeepsFailure, fenceVars
<1>5. CASE /\ Moves(a, "preparing") /\ live' = live \cup {Workspace(a)}
           /\ UNCHANGED <<runVars, quarantined, armed>>
  <2>1. OthersFenced(a)
    BY <1>3, <1>5, KeepsFences DEF runVars
  <2> QED
    BY <1>1, <1>2, <1>3, <1>5, <2>1, MovesFenced DEF KeepsFailure
<1>6. CASE Moves(a, "over") /\ MainFails
  <2>1. live' = live /\ quarantined \subseteq quarantined' /\ OthersFenced(a)
    <3>1. CASE EndBy("failure", armed, quarantined)
      BY <1>3, <1>6, <3>1, EndCovers DEF MainFails, OthersFenced
    <3>2. CASE UNCHANGED <<aborted, quarantined, armed>>
      BY <1>3, <1>6, <3>2, KeepsFences DEF MainFails
    <3> QED
      BY <1>6, <3>1, <3>2 DEF MainFails, FailUnlessOwned, Fail
  <2> QED
    BY <1>1, <1>2, <1>3, <1>6, <2>1, MovesFenced DEF KeepsFailure
<1> QED
  BY <1>4, <1>5, <1>6 DEF Admitted

LEMMA PreparationFenced ==
  ASSUME FenceInv, NEW a \in Agents,
         Prepared(a) \/ PreparationOverrun(a) \/ PreparationFails(a)
  PROVE  FenceExact'
<1>1. stage[a] = "preparing" /\ UNCHANGED <<attempt, storageFailure>> /\ KeepsFailure
  BY LogKeepsFailure
     DEF Prepared, PreparationOverrun, PreparationFails, Concludes, Final, KeepsFailure, logVars
<1>2. ~storageFailure /\ Attempt(a) \in live => Attempt(a) \in quarantined
  BY <1>1 DEF FenceInv, FenceExact, FencedAt, Reserving
<1>3. ASSUME NEW s \in {"waiting", "finishing", "preserving"}, Moves(a, s),
             UNCHANGED <<runVars, armed>>, live' \subseteq live,
             quarantined \subseteq quarantined',
             Workspace(a) \in live' => Workspace(a) \in quarantined'
      PROVE  FenceExact'
  <2>1. OthersFenced(a)
    BY <1>1, <1>3, KeepsFences DEF runVars
  <2> QED
    BY <1>1, <1>2, <1>3, <2>1, MovesFenced
<1>4. CASE TaskRejects(a, quarantined) /\ live' = live \ {Workspace(a)}
  <2>1. OthersFenced(a) /\ Moves(a, "over") /\ quarantined \subseteq quarantined'
    BY <1>1, <1>4, RejectsCovers
  <2> QED
    BY <1>1, <1>2, <1>4, <2>1, MovesFenced
<1>5. CASE Prepared(a)
  BY <1>3, <1>5 DEF Prepared, Concludes
<1>6. CASE PreparationOverrun(a)
  BY <1>3, <1>6 DEF PreparationOverrun, Concludes
<1>7. CASE PreparationFails(a)
  BY <1>3, <1>4, <1>7 DEF PreparationFails, Concludes
<1> QED
  BY <1>5, <1>6, <1>7

LEMMA LaunchedFenced ==
  ASSUME FenceInv, NEW a \in Agents, Launched(a)
  PROVE  FenceExact'
<1>1. CASE Rejected("agent.started", a)
  BY <1>1, RejectedFenced DEF Launched
<1>2. CASE /\ Handled("agent.started", a, <<>>) /\ Moves(a, "running")
           /\ live' = live \cup {Attempt(a)}
           /\ UNCHANGED <<attempt, retries, runVars, quarantined, armed>>
  <2>1. /\ attempt[a] \in 1..MaxAttempts /\ MaxAttempts \in Nat
        /\ Attempt(a) # Workspace(a) /\ Attempt(a)[1] = a /\ Attempt(a)[2] = attempt[a]
    BY RunAssumption DEF FenceInv, IInv, TypeOK, Attempt, Workspace
  <2>2. Attempt(a)' = Attempt(a) /\ attempt'[a] = attempt[a] /\ stage'[a] = "running"
    BY <1>2 DEF FenceInv, IInv, TypeOK, Attempt, Moves
  <2>3. OthersFenced(a)
    BY <1>2, <2>1, LogKeepsFailure
       DEF OthersFenced, Covered, KeepsFailure, FenceInv, FenceExact, runVars
  <2>4. FencedAt(a)
    BY DEF FenceInv, FenceExact
  <2>5. FencedAt(a)'
    <3>1. \A o \in live' : o[1] = a =>
            o[2] <= attempt[a] /\ (o[2] \in 1..(attempt[a] - 1) => AutomaticBesideOld(a))
      BY <1>2, <2>1, <2>4 DEF FencedAt
    <3>2. Workspace(a) \in live' => Workspace(a) \in quarantined'
      BY <1>2, <2>1, <2>4 DEF FencedAt, Launched
    <3> QED
      BY <2>2, <3>1, <3>2 DEF FencedAt, Reserving
  <2> QED
    BY <1>2, <2>3, <2>5, StepFenced
<1> QED
  BY <1>1, <1>2 DEF Launched

\* The outcomes of an attempt that is known to be over.
LEMMA AttemptEndsFenced ==
  ASSUME FenceInv, NEW a \in Agents, NEW kind, AttemptEnds(a, kind),
         KeepsFailure, stage[a] \in {"running", "confirmed"},
         live' \subseteq live, Attempt(a) \notin live', UNCHANGED <<quarantined, armed>>
  PROVE  FenceExact'
<1>1. PICK s \in {"finishing", "preserving", "retrying"} : Moves(a, s)
  BY DEF AttemptEnds, AttemptFails, Concludes, Retries
<1>2. UNCHANGED <<attempt, aborted>>
  BY DEF AttemptEnds, AttemptFails, Concludes, Retries, runVars
<1>3. OthersFenced(a)
  BY <1>2, KeepsFences
<1>4. Workspace(a) \in live => Workspace(a) \in quarantined
  BY DEF FenceInv, FenceExact, FencedAt
<1> QED
  BY <1>1, <1>2, <1>3, <1>4, MovesFenced

LEMMA RunningFenced ==
  ASSUME FenceInv, NEW a \in Agents,
         Answers(a) \/ FailsWithStorage(a) \/ Confirms(a) \/ Confirmed(a)
  PROVE  FenceExact'
<1>1. Workspace(a) \in live => Workspace(a) \in quarantined
  BY DEF FenceInv, FenceExact, FencedAt, Answers, FailsWithStorage, Confirms, Confirmed
<1>2. CASE Answers(a)
  BY <1>2, AttemptEndsFenced, LogKeepsFailure DEF Answers, Final, KeepsFailure
<1>3. CASE FailsWithStorage(a)
  <2>1. UNCHANGED <<attempt, storageFailure>> /\ storageFailure
    BY <1>3 DEF FailsWithStorage, logVars
  <2> QED
    BY <1>1, <1>3, <2>1, UnwindsFenced DEF FailsWithStorage, KeepsFailure
<1>4. CASE Confirms(a)
  <2>1. UNCHANGED <<attempt, aborted, storageFailure, fenceVars>> /\ Moves(a, "confirming")
    BY <1>4, LogKeepsFailure DEF Confirms, runVars
  <2>2. OthersFenced(a)
    BY <2>1, KeepsFences DEF KeepsFailure, fenceVars
  <2> QED
    BY <1>1, <2>1, <2>2, MovesFenced DEF fenceVars
<1>5. CASE Confirmed(a)
  <2>1. Attempt(a) \notin live
    BY <1>5 DEF Confirmed, FenceInv, FenceExact, FencedAt
  <2>2. CASE Rejected("agent.termination_confirmed", a)
    BY <1>5, <2>2, RejectedFenced DEF Confirmed
  <2>3. CASE /\ UNCHANGED fenceVars
             /\ \E kind \in Kinds :
                  /\ AttemptEnds(a, kind)
                  /\ Handled("agent.termination_confirmed", a, <<<<kind, a>>>>)
    BY <1>5, <2>1, <2>3, AttemptEndsFenced, LogKeepsFailure
       DEF Confirmed, KeepsFailure, fenceVars
  <2> QED
    BY <1>5, <2>2, <2>3 DEF Confirmed
<1> QED
  BY <1>2, <1>3, <1>4, <1>5

LEMMA SettlementFenced ==
  ASSUME FenceInv, NEW a \in Agents, SettledInTime(a) \/ NotSettled(a)
  PROVE  FenceExact'
<1>1. PICK s \in {"confirmed", "unconfirmed"} :
        Moves(a, s) /\ (s = "confirmed" => live' = live \ {Attempt(a)})
  BY DEF SettledInTime, NotSettled
<1>2. /\ UNCHANGED <<attempt, aborted, storageFailure, quarantined, armed>>
      /\ live' \subseteq live
  BY LogKeepsFailure DEF SettledInTime, NotSettled, runVars, fenceVars
<1>3. OthersFenced(a)
  BY <1>2, KeepsFences DEF KeepsFailure
<1>4. Workspace(a) \in live => Workspace(a) \in quarantined
  BY DEF FenceInv, FenceExact, FencedAt, SettledInTime, NotSettled
<1> QED
  BY <1>1, <1>2, <1>3, <1>4, MovesFenced

LEMMA UnconfirmedFenced ==
  ASSUME FenceInv, NEW a \in Agents, Unconfirmed(a)
  PROVE  FenceExact'
<1>1. CASE Rejected("agent.unconfirmed", a)
  BY <1>1, RejectedFenced DEF Unconfirmed
<1>2. Workspace(a) \in live => Workspace(a) \in quarantined
  BY DEF FenceInv, FenceExact, FencedAt, Unconfirmed
<1>3. CASE /\ Quarantines(a) /\ Concludes(a, TRUE)
           /\ \E kind \in Kinds : Handled("agent.unconfirmed", a, <<<<kind, a>>>>)
  <2>1. /\ Moves(a, "preserving") /\ UNCHANGED <<attempt, aborted, live, armed>>
        /\ quarantined \subseteq quarantined' /\ UNCHANGED storageFailure
    BY <1>3, LogKeepsFailure DEF Quarantines, Concludes, runVars
  <2>2. Attempt(a) \in live => Attempt(a) \in quarantined'
    BY <1>3 DEF Quarantines, Fence
  <2>3. OthersFenced(a)
    BY <2>1, KeepsFences DEF KeepsFailure
  <2> QED
    BY <1>2, <2>1, <2>2, <2>3, MovesFenced
<1>4. CASE /\ ~aborted /\ AutomaticBesideOld(a) /\ Retries(a)
           /\ armed' = armed \cup {Attempt(a)} /\ UNCHANGED <<live, quarantined>>
           /\ Handled("agent.unconfirmed", a, <<<<"agent.retrying", a>>>>)
  <2>1. /\ Moves(a, "retrying") /\ UNCHANGED <<attempt, aborted, storageFailure>>
    BY <1>4, LogKeepsFailure DEF Retries, runVars
  <2>2. OthersFenced(a)
    BY <1>4, <2>1 DEF OthersFenced, Covered, KeepsFailure
  <2> QED
    BY <1>2, <1>4, <2>1, <2>2, MovesFenced
<1> QED
  BY <1>1, <1>3, <1>4 DEF Unconfirmed, Kinds, AgentEnds

LEMMA RetryFenced ==
  ASSUME FenceInv, NEW a \in Agents, Announces(a) \/ TriesAgain(a)
  PROVE  FenceExact'
<1>1. FencedAt(a) /\ Reserving(a)
  BY DEF FenceInv, FenceExact, Announces, TriesAgain, Reserving
<1>2. CASE Rejected("agent.retrying", a)
  BY <1>1, <1>2, RejectedFenced DEF Reserving
<1>3. CASE /\ Handled("agent.retrying", a, <<>>) /\ Moves(a, "backoff")
           /\ UNCHANGED <<attempt, retries, runVars, fenceVars>>
  <2>1. UNCHANGED <<aborted, storageFailure>>
    BY <1>3, LogKeepsFailure DEF runVars
  <2>2. OthersFenced(a)
    BY <1>3, <2>1, KeepsFences DEF KeepsFailure, fenceVars
  <2> QED
    BY <1>1, <1>3, <2>1, <2>2, MovesFenced DEF FencedAt, Reserving, fenceVars
<1>4. CASE TriesAgain(a)
  <2>1. /\ Moves(a, "waiting") /\ attempt' = [attempt EXCEPT ![a] = @ + 1]
        /\ UNCHANGED <<aborted, storageFailure, live, quarantined, armed>>
    BY <1>4 DEF TriesAgain, runVars, logVars, fenceVars
  <2>2. /\ attempt[a] \in 1..MaxAttempts /\ MaxAttempts \in Nat
        /\ attempt'[a] = attempt[a] + 1 /\ stage'[a] = "waiting"
        /\ \A b \in Agents : b # a => attempt'[b] = attempt[b]
    BY <2>1, RunAssumption DEF FenceInv, IInv, TypeOK, Moves
  <2>3. OthersFenced(a)
    BY <2>1, KeepsFences DEF KeepsFailure
  <2>4. \A o \in live : o[1] = a => o \in Operations /\ o[2] \in 0..MaxAttempts
    BY DEF FenceInv, IInv, TypeOK, Operations
  <2>5. ASSUME NEW o \in live, o[1] = a
        PROVE  o[2] <= attempt[a] /\ (o[2] \in 1..attempt[a] => AutomaticBesideOld(a))
    <3>1. CASE o[2] = attempt[a]
      <4>1. o = Attempt(a)
        BY <2>4, <2>5, <3>1 DEF Attempt, Operations
      <4> QED
        BY <1>1, <2>2, <2>5, <3>1, <4>1 DEF FencedAt
    <3>2. CASE o[2] # attempt[a]
      BY <1>1, <2>2, <2>4, <2>5, <3>2 DEF FencedAt
    <3> QED
      BY <3>1, <3>2
  <2>6. Attempt(a)' \notin live'
    <3>1. Attempt(a)' = <<a, attempt[a] + 1>>
      BY <2>2 DEF Attempt
    <3>2. <<a, attempt[a] + 1>> \notin live
      BY <2>2, <2>5
    <3> QED
      BY <2>1, <3>1, <3>2
  <2>7. FencedAt(a)'
    <3>1. \A o \in live' : o[1] = a =>
            o[2] <= attempt'[a] /\ (o[2] \in 1..(attempt'[a] - 1) => AutomaticBesideOld(a))
      BY <2>1, <2>2, <2>4, <2>5
    <3>2. Workspace(a) \in live => Workspace(a) \in quarantined
      BY <1>1 DEF FencedAt, Reserving
    <3> QED
      BY <2>1, <2>2, <2>6, <3>1, <3>2 DEF FencedAt, Reserving
  <2> QED
    BY <2>1, <2>2, <2>3, <2>7, StepFenced
<1> QED
  BY <1>2, <1>3, <1>4 DEF Announces

LEMMA ConcludedFenced ==
  ASSUME FenceInv, NEW a \in Agents, Concluded(a)
  PROVE  FenceExact'
<1>1. stage[a] \in {"finishing", "preserving"}
  BY DEF Concluded
<1>2. /\ Workspace(a) \in live => Workspace(a) \in quarantined
      /\ ~storageFailure /\ Attempt(a) \in live => Attempt(a) \in quarantined
  BY <1>1 DEF FenceInv, FenceExact, FencedAt, Reserving
<1>3. PICK kind \in AgentEnds :
        \/ Handled(kind, a, <<>>) /\ Leaves(a) /\ UNCHANGED <<attempt, retries>>
        \/ Refused(kind, a, <<>>) /\ Unwinds(a, live) /\ UNCHANGED <<attempt, retries>>
        \/ Rejected(kind, a)
  BY DEF Concluded
<1>4. CASE Handled(kind, a, <<>>) /\ Leaves(a) /\ UNCHANGED <<attempt, retries>>
  BY <1>1, <1>4, LeavesFenced, LogKeepsFailure
<1>5. CASE Refused(kind, a, <<>>) /\ Unwinds(a, live) /\ UNCHANGED <<attempt, retries>>
  <2>1. storageFailure'
    BY <1>5, LogKeepsFailure
  <2> QED
    BY <1>2, <1>5, <2>1, UnwindsFenced DEF KeepsFailure
<1>6. CASE Rejected(kind, a)
  BY <1>1, <1>6, RejectedFenced
<1> QED
  BY <1>3, <1>4, <1>5, <1>6

LEMMA CleanedUpFenced ==
  ASSUME FenceInv, NEW a \in Agents, CleanedUp(a)
  PROVE  FenceExact'
<1>1. PICK fenced \in {quarantined, quarantined \cup {Workspace(a)}} :
        /\ live' = IF Workspace(a) \in fenced THEN live ELSE live \ {Workspace(a)}
        /\ \/ TaskRejects(a, fenced)
           \/ Moves(a, "over") /\ quarantined' = fenced /\ UNCHANGED <<runVars, armed>>
  BY DEF CleanedUp
<1>2. UNCHANGED <<attempt, storageFailure>> /\ KeepsFailure
  BY DEF CleanedUp, logVars, KeepsFailure
<1>3. ~storageFailure /\ Attempt(a) \in live => Attempt(a) \in quarantined
  BY DEF CleanedUp, FenceInv, FenceExact, FencedAt, Reserving
<1>4. /\ quarantined \subseteq fenced /\ live' \subseteq live
      /\ Workspace(a) \in live' => Workspace(a) \in fenced
  BY <1>1
<1>5. OthersFenced(a) /\ Moves(a, "over") /\ fenced \subseteq quarantined'
  <2>1. CASE TaskRejects(a, fenced)
    BY <1>2, <1>4, <2>1, RejectsCovers
  <2>2. CASE Moves(a, "over") /\ quarantined' = fenced /\ UNCHANGED <<runVars, armed>>
    BY <1>2, <1>4, <2>2, KeepsFences DEF runVars
  <2> QED
    BY <1>1, <2>1, <2>2
<1> QED
  BY <1>2, <1>3, <1>4, <1>5, MovesFenced

\* A step of none of the tasks.
LEMMA NoTaskFenced ==
  ASSUME FenceInv, UNCHANGED taskVars, KeepsFailure, live' \subseteq live,
         \A o \in live' : Covered(o), aborted' => armed' = {}
  PROVE  FenceExact'
<1>1. \A b \in Agents : Untouched(b)
  BY DEF Untouched, taskVars
<1> QED
  BY <1>1, UntouchedFenced DEF FenceInv, IInv, FenceExact

LEMMA QuietFenced ==
  ASSUME FenceInv, UNCHANGED <<taskVars, aborted, fenceVars>>, KeepsFailure
  PROVE  FenceExact'
<1>1. \A o \in live' : Covered(o)
  BY DEF Covered, fenceVars
<1> QED
  BY <1>1, NoTaskFenced DEF fenceVars, FenceInv, FenceExact

LEMMA FailsFenced ==
  ASSUME FenceInv, MainFails, UNCHANGED taskVars, KeepsFailure
  PROVE  FenceExact'
<1>1. CASE EndBy("failure", armed, quarantined)
  BY <1>1, EndCovers, NoTaskFenced DEF MainFails
<1>2. CASE UNCHANGED <<aborted, quarantined, armed>>
  BY <1>2, QuietFenced DEF MainFails, fenceVars
<1> QED
  BY <1>1, <1>2 DEF MainFails, FailUnlessOwned, Fail

LEMMA RunFenced ==
  ASSUME FenceInv, RunStep
  PROVE  FenceExact'
<1>1. UNCHANGED taskVars
  BY DEF RunStep, Started, StartCancelled, WorkerFails, WorkerCompletes, Drained,
         Materialized, Announced, Completed, StopWaiting, Ended, Notice
<1>2. KeepsFailure
  <2>1. \/ UNCHANGED storageFailure \/ storageFailure'
    BY LogKeepsFailure
       DEF RunStep, Started, StartCancelled, WorkerFails, WorkerCompletes, Drained,
           Materialized, Announced, Completed, StopWaiting, Ended, Notice, logVars
  <2> QED
    BY <2>1 DEF KeepsFailure
<1>3. \/ MainFails
      \/ UNCHANGED <<aborted, fenceVars>>
      \/ EndBy("cancellation", armed, quarantined) /\ UNCHANGED live
  BY DEF RunStep, Started, StartCancelled, WorkerFails, WorkerCompletes, Drained,
         Materialized, ClaimCompletion, Announced, Completed, StopWaiting, Ended, Notice,
         runVars, fenceVars
<1>4. CASE EndBy("cancellation", armed, quarantined) /\ UNCHANGED live
  BY <1>1, <1>2, <1>4, EndCovers, NoTaskFenced
<1> QED
  BY <1>1, <1>2, <1>3, <1>4, FailsFenced, QuietFenced

LEMMA OutsideFenced ==
  ASSUME FenceInv,
         \/ \E mode \in {"cancellation", "interruption"} : Terminate(mode)
         \/ Abandon \/ LateAppend
         \/ \E o \in Operations : Exits(o)
  PROVE  FenceExact'
<1>1. CASE \E mode \in {"cancellation", "interruption"} : Terminate(mode)
  <2>1. PICK mode \in {"cancellation", "interruption"} : Terminate(mode)
    BY <1>1
  <2>2. EndBy(mode, armed, quarantined) /\ UNCHANGED <<taskVars, live, storageFailure>>
    BY <2>1, LogKeepsFailure DEF Terminate
  <2>3. (\A o \in live : Covered(o)) /\ armed' = {}
    BY <2>2, EndCovers
  <2> QED
    BY <2>2, <2>3, NoTaskFenced DEF KeepsFailure
<1>2. CASE Abandon \/ \E o \in Operations : Exits(o)
  <2>1. /\ UNCHANGED <<taskVars, aborted, storageFailure, armed>> /\ live' \subseteq live
        /\ \A o \in live' : Covered(o)
    BY <1>2 DEF Abandon, Exits, Covered, runVars, logVars
  <2> QED
    BY <2>1, NoTaskFenced DEF KeepsFailure, FenceInv, FenceExact
<1>3. CASE LateAppend
  BY <1>3, QuietFenced DEF LateAppend, runVars, KeepsFailure
<1> QED
  BY <1>1, <1>2, <1>3

LEMMA NextFenced == FenceInv /\ [Next]_vars => FenceInv'
<1> SUFFICES ASSUME FenceInv, [Next]_vars
             PROVE  FenceExact'
  BY NextPreserves DEF FenceInv
<1>1. ASSUME NEW a \in Agents, Request(a)
      PROVE  FenceExact'
  BY <1>1, BeginsFenced
<1>2. ASSUME NEW a \in Agents, TaskStep(a)
      PROVE  FenceExact'
  BY <1>2, BeginsFenced, AdmittedFenced, PreparationFenced, LaunchedFenced,
     RunningFenced, SettlementFenced, UnconfirmedFenced, RetryFenced, ConcludedFenced,
     CleanedUpFenced
     DEF TaskStep
<1>3. CASE UNCHANGED vars
  BY <1>3, QuietFenced DEF vars, runVars, logVars, KeepsFailure
<1> QED
  BY <1>1, <1>2, <1>3, RunFenced, OutsideFenced DEF Next

\* However a run ends and whatever its providers ignore, a run that reports its
\* store releasable leaves nothing running but what a safe retry replaced, unless
\* its event log had failed.
THEOREM ReleaseFenced == Spec => []ReleasableOnlyStopped
<1>1. Init => FenceInv
  <2>1. ASSUME Init
        PROVE  FenceExact
    BY <2>1 DEF Init, FenceExact, FencedAt, Reserving
  <2> QED
    BY <2>1, InitIInv DEF FenceInv
<1>2. ASSUME FenceInv, ~storageFailure, Releasable, NEW o \in live
      PROVE  Replaced(o)
  <2>1. /\ o = <<o[1], o[2]>> /\ o[1] \in Agents /\ o[2] \in 0..MaxAttempts
        /\ attempt[o[1]] \in 1..MaxAttempts /\ MaxAttempts \in Nat
    BY <1>2, RunAssumption DEF FenceInv, IInv, TypeOK, Operations
  <2>2. FencedAt(o[1]) /\ stage[o[1]] \notin Tracked /\ quarantined = {}
    BY <1>2, <2>1 DEF FenceInv, FenceExact, Releasable, Tasks
  <2>3. o # Workspace(o[1]) /\ o # Attempt(o[1])
    BY <1>2, <2>2 DEF FencedAt, Reserving, Tracked, Unanswered
  <2>4. o[2] \in 1..(attempt[o[1]] - 1)
    BY <1>2, <2>1, <2>2, <2>3 DEF FencedAt, Workspace, Attempt
  <2> QED
    BY <1>2, <2>2, <2>4 DEF FencedAt, Replaced
<1>3. FenceInv => ReleasableOnlyStopped
  BY <1>2 DEF ReleasableOnlyStopped, Stopped
<1> QED
  BY <1>1, <1>3, NextFenced, PTL DEF Spec
================================================================================
