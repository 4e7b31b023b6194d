---------------------------- MODULE RunQueueProofs ----------------------------
(***************************************************************************)
(* What a run's snapshot says of its events, for any number of agents,      *)
(* phases and attempts (RunProjection): the invariant, and the actions of   *)
(* the calls.                                                               *)
(*                                                                         *)
(* The properties are about the snapshot, but what makes them true is what   *)
(* may still wait in the queue.  RunInv relates the queue to the runtime: in  *)
(* which order two events can wait, and where a call, a phase or the run is   *)
(* while an event of it waits.  ViewInv relates the snapshot to both, until   *)
(* the reducer refused an event: what it shows is what the runtime did, less  *)
(* what waits.  From the two, the head of the queue is accepted               *)
(* (HeadAccepted).  Every action keeps them: the lemmas named ...Keeps, of    *)
(* which those of the calls are here.                                        *)
(***************************************************************************)
EXTENDS RunProjection, FiniteSetTheorems, SequenceTheorems, TLAPS

-------------------------------------------------------------------------------
(* The queue as a set of events and a set of pairs of which one precedes the   *)
(* other.                                                                   *)

EventsIn(q) == {q[i] : i \in DOMAIN q}
Precedes(q, e, f) == \E i, j \in DOMAIN q : i < j /\ q[i] = e /\ q[j] = f
Pending == EventsIn(queue)

CallTypes ==
  {"agent.admitted", "agent.queued", "agent.started", "agent.recovery_started",
   "agent.stalled", "agent.termination_confirmed", "agent.recovery_completed",
   "agent.reused", "agent.completed", "agent.failed", "agent.recovery_required",
   "agent.cancelled", "agent.retry_scheduled"}

\* The order in which the queue can hold two events of one agent, or of one phase.
Rank(t) ==
  CASE t \in {"agent.admitted", "agent.queued", "agent.started", "phase.discovered"} -> 1
    [] t \in {"agent.recovery_started", "phase.entered"} -> 2
    [] t \in {"agent.stalled", "phase.completed"} -> 3
    [] t \in {"agent.termination_confirmed", "phase.failed"} -> 4
    [] t = "agent.recovery_completed" -> 5
    [] t \in {"agent.reused", "agent.completed", "agent.failed", "agent.recovery_required",
              "agent.cancelled"} -> 6
    [] OTHER -> 7

MayPrecede(e, f) ==
  /\ e.type \in RunEvents /\ f.type \in RunEvents => e.type # f.type
  /\ e.type \in CallTypes /\ f.type \in CallTypes /\ e.agent = f.agent =>
       Rank(e.type) < Rank(f.type)
  /\ e.type \in PhaseEvents /\ f.type \in PhaseEvents /\ e.phase = f.phase =>
       Rank(e.type) < Rank(f.type)
  /\ e.type = "phase.discovered" /\ f.type = "phase.discovered" =>
       e.phase = Nest \/ f.phase = Nest
  /\ e.type = "agent.admitted" /\ f.type = "agent.admitted" => f.agent # e.callIndex + 1
  /\ e.type = "agent.admitted" /\ f.type = "phase.completed" => e.phase # f.phase

Ordered(q) ==
  /\ q \in Seq(EventsIn(q))
  /\ \A e \in EventsIn(q) : e.type \in RunEvents \cup PhaseEvents \cup CallTypes
  /\ \A e, f : Precedes(q, e, f) => MayPrecede(e, f)

\* Sequences of no, one, two and three events, as sets and as pairs.
LEMMA EmptyQueue == EventsIn(<<>>) = {} /\ <<>> \in Seq(EventsIn(<<>>))
BY DEF EventsIn

LEMMA OneEvent ==
  ASSUME NEW e
  PROVE  /\ EventsIn(<<e>>) = {e} /\ <<e>> \in Seq({e})
         /\ \A x, y : ~Precedes(<<e>>, x, y)
BY DEF EventsIn, Precedes

LEMMA TwoEvents ==
  ASSUME NEW e, NEW f
  PROVE  /\ EventsIn(<<e, f>>) = {e, f} /\ <<e, f>> \in Seq({e, f})
         /\ \A x, y : Precedes(<<e, f>>, x, y) => x = e /\ y = f
BY DEF EventsIn, Precedes

LEMMA ThreeEvents ==
  ASSUME NEW e, NEW f, NEW g
  PROVE  /\ EventsIn(<<e, f, g>>) = {e, f, g} /\ <<e, f, g>> \in Seq({e, f, g})
         /\ \A x, y : Precedes(<<e, f, g>>, x, y) =>
                        \/ x = e /\ y = f
                        \/ x = e /\ y = g
                        \/ x = f /\ y = g
BY DEF EventsIn, Precedes

\* A sequence is one of its own events.
LEMMA OwnEvents ==
  ASSUME NEW S, NEW q \in Seq(S)
  PROVE  q \in Seq(EventsIn(q))
<1>1. \A i \in 1..Len(q) : q[i] \in EventsIn(q)
  BY DEF EventsIn
<1> QED
  BY <1>1

\* What appending and dropping do to both.
LEMMA Appended ==
  ASSUME NEW q, NEW r, q \in Seq(EventsIn(q)), r \in Seq(EventsIn(r))
  PROVE  /\ EventsIn(q \o r) = EventsIn(q) \cup EventsIn(r)
         /\ q \o r \in Seq(EventsIn(q \o r))
         /\ \A e, f : Precedes(q \o r, e, f) =>
              \/ Precedes(q, e, f)
              \/ Precedes(r, e, f)
              \/ e \in EventsIn(q) /\ f \in EventsIn(r)
<1> DEFINE Both == EventsIn(q) \cup EventsIn(r)
<1>1. q \in Seq(Both) /\ r \in Seq(Both)
  <2>1. \A i \in 1..Len(q) : q[i] \in Both
    BY DEF EventsIn
  <2>2. \A i \in 1..Len(r) : r[i] \in Both
    BY DEF EventsIn
  <2> QED
    BY <2>1, <2>2
<1>2. /\ q \o r \in Seq(Both) /\ Len(q \o r) = Len(q) + Len(r)
      /\ DOMAIN q = 1..Len(q) /\ DOMAIN r = 1..Len(r)
      /\ DOMAIN (q \o r) = 1..(Len(q) + Len(r))
      /\ Len(q) \in Nat /\ Len(r) \in Nat
  BY <1>1
<1>3. /\ \A i \in 1..Len(q) : (q \o r)[i] = q[i]
      /\ \A i \in 1..Len(r) : (q \o r)[Len(q) + i] = r[i]
  BY <1>1
<1>4. \A i \in 1..(Len(q) + Len(r)) :
        i \in 1..Len(q) \/ (i - Len(q) \in 1..Len(r) /\ (q \o r)[i] = r[i - Len(q)])
  <2> SUFFICES ASSUME NEW i \in 1..(Len(q) + Len(r)), i \notin 1..Len(q)
               PROVE  i - Len(q) \in 1..Len(r) /\ (q \o r)[i] = r[i - Len(q)]
    OBVIOUS
  <2>1. i - Len(q) \in 1..Len(r) /\ Len(q) + (i - Len(q)) = i
    BY <1>2
  <2> QED
    BY <2>1, <1>3
<1>5. EventsIn(q \o r) = Both
  <2>1. EventsIn(q \o r) \subseteq Both
    BY <1>2, <1>3, <1>4 DEF EventsIn
  <2>2. EventsIn(q) \subseteq EventsIn(q \o r)
    BY <1>2, <1>3 DEF EventsIn
  <2>3. EventsIn(r) \subseteq EventsIn(q \o r)
    <3> SUFFICES ASSUME NEW i \in 1..Len(r)
                 PROVE  r[i] \in EventsIn(q \o r)
      BY <1>2 DEF EventsIn
    <3>1. Len(q) + i \in 1..(Len(q) + Len(r))
      BY <1>2
    <3> QED
      BY <3>1, <1>2, <1>3 DEF EventsIn
  <2> QED
    BY <2>1, <2>2, <2>3
<1>6. ASSUME NEW e, NEW f, Precedes(q \o r, e, f)
      PROVE  \/ Precedes(q, e, f)
             \/ Precedes(r, e, f)
             \/ e \in EventsIn(q) /\ f \in EventsIn(r)
  <2>1. PICK i \in 1..(Len(q) + Len(r)), j \in 1..(Len(q) + Len(r)) :
          i < j /\ (q \o r)[i] = e /\ (q \o r)[j] = f
    BY <1>6, <1>2 DEF Precedes
  <2>2. CASE i \in 1..Len(q) /\ j \in 1..Len(q)
    BY <2>1, <2>2, <1>2, <1>3 DEF Precedes
  <2>3. CASE i \in 1..Len(q) /\ j \notin 1..Len(q)
    BY <2>1, <2>3, <1>2, <1>3, <1>4 DEF EventsIn
  <2>4. CASE i \notin 1..Len(q)
    <3>1. j \notin 1..Len(q)
      BY <2>1, <2>4, <1>2
    <3>2. /\ i - Len(q) \in 1..Len(r) /\ j - Len(q) \in 1..Len(r)
          /\ i - Len(q) < j - Len(q)
          /\ r[i - Len(q)] = e /\ r[j - Len(q)] = f
      BY <2>1, <2>4, <3>1, <1>4, <1>2
    <3> QED
      BY <3>2, <1>2 DEF Precedes
  <2> QED
    BY <2>2, <2>3, <2>4
<1> QED
  BY <1>2, <1>5, <1>6

LEMMA Dropped ==
  ASSUME NEW q, q \in Seq(EventsIn(q)), q # <<>>
  PROVE  /\ EventsIn(q) = {Head(q)} \cup EventsIn(Tail(q))
         /\ Tail(q) \in Seq(EventsIn(Tail(q)))
         /\ \A e, f : Precedes(Tail(q), e, f) => Precedes(q, e, f)
         /\ \A f \in EventsIn(Tail(q)) : Precedes(q, Head(q), f)
<1>1. /\ Len(q) \in Nat \ {0} /\ DOMAIN q = 1..Len(q) /\ Head(q) = q[1]
      /\ Tail(q) \in Seq(EventsIn(q)) /\ Len(Tail(q)) = Len(q) - 1
      /\ DOMAIN Tail(q) = 1..(Len(q) - 1)
      /\ \A i \in 1..(Len(q) - 1) : Tail(q)[i] = q[i + 1]
  OBVIOUS
<1>2. \A i \in 1..(Len(q) - 1) : i + 1 \in 1..Len(q)
  BY <1>1
<1>3. \A i \in 1..Len(q) : i = 1 \/ (i - 1 \in 1..(Len(q) - 1) /\ Tail(q)[i - 1] = q[i])
  <2> SUFFICES ASSUME NEW i \in 1..Len(q), i # 1
               PROVE  i - 1 \in 1..(Len(q) - 1) /\ Tail(q)[i - 1] = q[i]
    OBVIOUS
  <2>1. i - 1 \in 1..(Len(q) - 1) /\ (i - 1) + 1 = i
    BY <1>1
  <2> QED
    BY <2>1, <1>1
<1>4. EventsIn(q) = {Head(q)} \cup EventsIn(Tail(q))
  <2>1. ASSUME NEW i \in 1..Len(q)
        PROVE  q[i] \in {Head(q)} \cup EventsIn(Tail(q))
    <3>1. CASE i = 1
      BY <1>1, <3>1
    <3>2. CASE i # 1
      BY <1>1, <1>3, <3>2 DEF EventsIn
    <3> QED
      BY <3>1, <3>2
  <2>2. EventsIn(Tail(q)) \subseteq EventsIn(q)
    BY <1>1, <1>2 DEF EventsIn
  <2>3. Head(q) \in EventsIn(q)
    BY <1>1 DEF EventsIn
  <2> QED
    BY <1>1, <2>1, <2>2, <2>3 DEF EventsIn
<1>5. Tail(q) \in Seq(EventsIn(Tail(q)))
  BY <1>1, OwnEvents
<1>6. \A e, f : Precedes(Tail(q), e, f) => Precedes(q, e, f)
  <2> SUFFICES ASSUME NEW e, NEW f, NEW i \in 1..(Len(q) - 1), NEW j \in 1..(Len(q) - 1),
                      i < j, Tail(q)[i] = e, Tail(q)[j] = f
               PROVE  Precedes(q, e, f)
    BY <1>1 DEF Precedes
  <2>1. i + 1 \in 1..Len(q) /\ j + 1 \in 1..Len(q) /\ i + 1 < j + 1
    BY <1>1
  <2> QED
    BY <2>1, <1>1 DEF Precedes
<1>7. ASSUME NEW f \in EventsIn(Tail(q)) PROVE Precedes(q, Head(q), f)
  <2>1. PICK i \in 1..(Len(q) - 1) : Tail(q)[i] = f
    BY <1>1 DEF EventsIn
  <2>2. i + 1 \in 1..Len(q) /\ 1 \in 1..Len(q) /\ 1 < i + 1
    BY <1>1
  <2> QED
    BY <2>1, <2>2, <1>1 DEF Precedes
<1> QED
  BY <1>4, <1>5, <1>6, <1>7

-------------------------------------------------------------------------------
(* What the runtime knows of each event that waits.                          *)

Waits(t, p) == \E e \in Pending : e.type = t /\ e.phase = p
Asks(t, a) == \E e \in Pending : e.type = t /\ e.agent = a
WaitsRun(t) == \E e \in Pending : e.type = t

\* An agent's event waits only while its call is where it emits that event.
CallFits(e) ==
  /\ e.agent \in Agents /\ e.agent \notin ended
  /\ e.type = "agent.admitted" =>
       /\ stage[e.agent] = "admitting" /\ e.phase = agentPhase[e.agent]
       /\ e.callIndex \in Nat /\ e.callIndex + 1 \in 1..sequence
       /\ stage[e.callIndex + 1] # "discovering"
  /\ e.type = "agent.queued" => stage[e.agent] = "queueing"
  /\ e.type = "agent.reused" =>
       /\ stage[e.agent] = "answering"
       /\ e.disposition \in {"completed", "failed", "recovery_required"}
  /\ e.type \in {"agent.started", "agent.recovery_started"} =>
       /\ stage[e.agent] = "starting" /\ e.attempt = attempt[e.agent]
       /\ e.type = "agent.recovery_started" => e.attempt > 1
  /\ e.type = "agent.stalled" =>
       /\ stage[e.agent] \in {"confirming", "retrying", "finishing", "over"}
       /\ e.attempt = attempt[e.agent]
  /\ e.type = "agent.termination_confirmed" =>
       stage[e.agent] \in {"retrying", "finishing"} /\ e.attempt = attempt[e.agent]
  /\ e.type \in {"agent.recovery_completed", "agent.completed", "agent.recovery_required"} =>
       stage[e.agent] = "finishing" /\ e.attempt = attempt[e.agent]
  /\ e.type = "agent.cancelled" =>
       stage[e.agent] = "finishing" /\ e.attempt \in {0, attempt[e.agent]}
  /\ e.type = "agent.failed" =>
       /\ e.retrying \in BOOLEAN
       /\ e.retrying => stage[e.agent] = "retrying" /\ e.attempt = attempt[e.agent]
       /\ ~e.retrying =>
            stage[e.agent] \in {"answering", "finishing"} /\ e.attempt \in {0, attempt[e.agent]}
  /\ e.type = "agent.retry_scheduled" => stage[e.agent] = "retrying"

CallsWait == \A e \in Pending : e.type \in CallTypes => CallFits(e)

RunWaits ==
  /\ WaitsRun("run.started") => main = "starting"
  /\ WaitsRun("run.cancellation_requested") => aborted
  /\ WaitsRun("run.completed") => main = "completing"
  /\ \A t \in {"run.failed", "run.cancelled", "run.interrupted"} :
       WaitsRun(t) => ending = "publishing"

PhaseNames == \A e \in Pending : e.type \in PhaseEvents => e.phase \in Phases

\* Only one phase of the workflow is being discovered.
Discovering(p) ==
  \/ main = "declaring"
  \/ turn.at = "discovering" /\ turn.phase = p
  \/ \E a \in Outer : stage[a] = "discovering"

DiscoveriesWait ==
  \A p \in Phases : Waits("phase.discovered", p) =>
    /\ p \in Known /\ ~runtime[p].entered
    /\ \A a \in Agents : agentPhase[a] # p
    /\ IF p = Nest THEN child = "discovering" ELSE Discovering(p)

EntriesWait ==
  \A p \in Phases : Waits("phase.entered", p) =>
    /\ runtime[p].entered /\ ~runtime[p].sealed
    /\ runtime[p].over => Waits("phase.failed", p)
    /\ IF p = Nest THEN child = "entering" ELSE turn = At("entering", p)

\* The calls of a completed phase have ended, but for those that came after.
CompletionsWait ==
  \A p \in Phases : Waits("phase.completed", p) =>
    /\ runtime[p].entered /\ runtime[p].over
    /\ \A a \in Agents : agentPhase[a] = p /\ a \notin ended => stage[a] = "admitting"
    /\ IF p = Nest THEN child = "sealing"
       ELSE p = current /\ (turn.at = "sealing" \/ main = "sealing")

FailuresWait ==
  \A p \in Phases : Waits("phase.failed", p) =>
    runtime[p].entered /\ runtime[p].over /\ ending = "failing" /\ p = known[visited]

ControlFits ==
  /\ owner = "completion" <=> main = "completing"
  /\ owner \in {"none", "completion"} <=> ending = "none"
  /\ ending # "over"
  /\ aborted => main \in {"starting", "declaring", "sealing", "stopped", "over"}
  /\ main \in {"stopped", "over"} => aborted
  /\ ending = "failing" => visited > 0

PhasesFit ==
  \A p \in Phases :
    /\ runtime[p].entered => p \in Known
    /\ runtime[p].sealed \/ runtime[p].over => runtime[p].entered
    /\ runtime[p].over => runtime[p].sealed \/ aborted
    /\ runtime[p].entered => runtime[p].sealed \/ runtime[p].over \/ p = current \/ p = Nest

\* Where the message tail of the workflow and its nested workflow are.
TurnFits ==
  /\ current # NoPhase => runtime[current].entered /\ current # Nest
  /\ turn.at = "free" => turn = Free
  /\ turn.at # "free" => turn.phase \in Known /\ turn.phase # Nest
  /\ turn.at = "sealing" => current # NoPhase
  /\ turn.at = "entering" => current = turn.phase
  /\ turn # Free => ~Busy(Outer)

ChildFits ==
  /\ Nest \in Known <=> child # "none"
  /\ child \in {"none", "discovering"} <=> ~runtime[Nest].entered
  /\ runtime[Nest].sealed => child \in {"sealing", "over"}
  /\ child \in {"none", "discovering", "entering"} => inner = {}
  /\ child \in {"sealing", "over"} => \A a \in inner : stage[a] = "over"

\* Before the workflow runs, and after it has returned.
Returned == {"sealing", "draining", "materializing", "completing"}
MainFits ==
  /\ main \in {"starting", "declaring"} =>
       /\ turn = Free /\ child = "none" /\ current = NoPhase /\ sequence = 0
       /\ \A p \in Phases : ~runtime[p].entered
  /\ main \in Returned =>
       turn = Free /\ child \notin Nested /\ \A a \in Outer : stage[a] = "over"
  /\ main \in Returned \ {"sealing"} =>
       \A p \in Phases \ {Nest} : runtime[p].entered => runtime[p].over

CallsFit ==
  /\ inner \subseteq 1..sequence
  /\ \A a \in Agents :
       /\ a > sequence <=> stage[a] = "idle"
       /\ stage[a] \in {"idle", "discovering"} => agentPhase[a] = NoPhase
       /\ a \in inner => agentPhase[a] = Nest /\ stage[a] # "discovering"
       /\ a \notin inner => agentPhase[a] # Nest
       /\ agentPhase[a] # NoPhase => agentPhase[a] \in Known

StagesFit ==
  \A a \in Agents :
    /\ stage[a] = "discovering" => \A b \in Agents : a < b /\ b <= sequence => b \in inner
    /\ a \in ended => stage[a] = "over"
    /\ stage[a] = "over" /\ ~aborted => a \in ended \/ (a \in inner /\ child = "dead")
    /\ stage[a] = "admitting" => Asks("agent.admitted", a)
    /\ stage[a] \in {"idle"} \cup Accepting => attempt[a] = 1
    /\ stage[a] = "retrying" => attempt[a] < MaxAttempts

OneAccepted ==
  \A a, b \in Outer : stage[a] \in Accepting /\ stage[b] \in Accepting => a = b

CountsFit ==
  \A p \in Phases :
    /\ runtime[p].active <= Cardinality({a \in Agents : agentPhase[a] = p})
    /\ ~runtime[p].over =>
         /\ runtime[p].active = Cardinality({a \in Agents : agentPhase[a] = p /\ a \notin ended})
         /\ runtime[p].sealed => runtime[p].active > 0

QueueInv ==
  /\ Ordered(queue) /\ CallsWait /\ RunWaits /\ PhaseNames
  /\ DiscoveriesWait /\ EntriesWait /\ CompletionsWait /\ FailuresWait
StateInv ==
  /\ ControlFits /\ PhasesFit /\ TurnFits /\ ChildFits /\ MainFits
  /\ CallsFit /\ StagesFit /\ OneAccepted /\ CountsFit
RunInv == QueueInv /\ StateInv

-------------------------------------------------------------------------------
(* What the snapshot shows of it.                                           *)

PhasesShown ==
  \A p \in Phases :
    /\ view.phases[p] = "absent" <=> p \notin Known \/ Waits("phase.discovered", p)
    /\ runtime[p].entered /\ ~Waits("phase.entered", p) =>
         IF runtime[p].over
         THEN Waits("phase.completed", p) \/ Waits("phase.failed", p) \/ view.phases[p] # "running"
         ELSE view.phases[p] = "running"
    /\ view.phases[p] = "running" => runtime[p].entered /\ ~Waits("phase.entered", p)

AgentsShown ==
  \A a \in Agents :
    /\ stage[a] \in {"idle", "discovering", "admitting"} => ~Admitted(view, a)
    /\ stage[a] \in {"queueing", "answering"} \cup Working => Admitted(view, a)
    /\ a \in inner /\ stage[a] # "admitting" => Admitted(view, a)
    /\ Admitted(view, a) => view.phaseOf[a] = agentPhase[a]
    /\ a \in ended <=> view.agents[a] \in TerminalAgent

\* An index that is not its agent's own is that of a call admitted before.
IndicesShown ==
  \A a \in Agents :
    Admitted(view, a) /\ view.callIndex[a] # a - 1 =>
      view.callIndex[a] + 1 \in Agents /\ Admitted(view, view.callIndex[a] + 1)

AttemptShown(a) ==
  /\ \A m \in Attempts : attempt[a] < m => view.attempts[a][m] = "absent"
  /\ \A m \in Attempts : m < attempt[a] => view.attempts[a][m] \notin Unresolved
  /\ stage[a] \in {"idle", "waiting"} \cup Accepting => view.attempts[a][attempt[a]] = "absent"
  /\ stage[a] = "starting" =>
       IF Asks("agent.started", a) THEN view.attempts[a][attempt[a]] = "absent"
       ELSE view.attempts[a][attempt[a]] \in Unresolved
  /\ stage[a] \in Open => view.attempts[a][attempt[a]] \in Unresolved
  /\ stage[a] = "retrying" =>
       view.attempts[a][attempt[a]] \notin Unresolved \/ Asks("agent.failed", a)
  /\ a \in ended => view.attempts[a][attempt[a]] \notin Unresolved
AttemptsShown == \A a \in Agents : AttemptShown(a)

EventShown(e) ==
  /\ e.type # "agent.admitted" => Admitted(view, e.agent)
  /\ e.type = "agent.admitted" /\ e.callIndex # e.agent - 1 =>
       /\ e.callIndex + 1 \in Agents
       /\ Admitted(view, e.callIndex + 1) \/ Asks("agent.admitted", e.callIndex + 1)
  /\ e.type \in AttemptEvents \ {"agent.recovery_started"} =>
       view.attempts[e.agent][e.attempt] # "absent"
  /\ e.type = "agent.stalled" => view.attempts[e.agent][e.attempt] \in Unresolved
  /\ e.type \in EitherEvents =>
       IF e.attempt = 0 THEN view.attempts[e.agent][attempt[e.agent]] \notin Unresolved
       ELSE view.attempts[e.agent][e.attempt] # "absent"
CallsShown == \A e \in Pending : e.type \in CallTypes => EventShown(e)

ViewInv ==
  /\ view.status \notin TerminalRun
  /\ PhasesShown /\ AgentsShown /\ IndicesShown /\ AttemptsShown /\ CallsShown

RejectedFits ==
  rejected # NoEvent =>
    rejected.type = "agent.admitted" /\ rejected.callIndex # rejected.agent - 1

ProjectionInv ==
  /\ ProjectionTypeOK /\ RejectedFits /\ NothingLeftOpen
  /\ publishing => RunInv
  /\ publishing /\ rejected = NoEvent => ViewInv

-------------------------------------------------------------------------------
(* Lemmas about the queue.                                                   *)

\* Ranks are numbers, and no event may precede itself.
LEMMA RankNat == \A t : Rank(t) \in 1..7
BY DEF Rank

LEMMA Different ==
  ASSUME NEW e, e.type \in RunEvents \cup PhaseEvents \cup CallTypes
  PROVE  ~MayPrecede(e, e)
<1>1. ~(Rank(e.type) < Rank(e.type))
  BY RankNat
<1> QED
  BY <1>1 DEF MayPrecede

\* What Emits does to an ordered queue.
LEMMA EmitsKeeps ==
  ASSUME Ordered(queue), NEW evs, evs \in Seq(EventsIn(evs)), Emits(evs),
         \A x \in EventsIn(evs) : x.type \in RunEvents \cup PhaseEvents \cup CallTypes,
         \A e \in Pending, x \in EventsIn(evs) : MayPrecede(e, x),
         \A e, f : Precedes(evs, e, f) => MayPrecede(e, f)
  PROVE  Ordered(queue)' /\ Pending' = Pending \cup EventsIn(evs)
<1>1. queue' = queue \o evs
  BY DEF Emits
<1>2. queue \in Seq(EventsIn(queue))
  BY DEF Ordered
<1>3. /\ Pending' = Pending \cup EventsIn(evs)
      /\ queue' \in Seq(EventsIn(queue'))
      /\ \A e, f : Precedes(queue', e, f) =>
           \/ Precedes(queue, e, f)
           \/ Precedes(evs, e, f)
           \/ e \in Pending /\ f \in EventsIn(evs)
  BY <1>1, <1>2, Appended DEF Pending
<1>4. Ordered(queue)'
  BY <1>3 DEF Ordered, Pending
<1> QED
  BY <1>3, <1>4

\* The same for no event and for one.
LEMMA EmitsNothing ==
  ASSUME Ordered(queue), Emits(<<>>)
  PROVE  Ordered(queue)' /\ Pending' = Pending
<1>1. \A e, f : ~Precedes(<<>>, e, f)
  BY DEF Precedes
<1> QED
  BY <1>1, EmptyQueue, EmitsKeeps

LEMMA EmitsOne ==
  ASSUME Ordered(queue), NEW x, Emits(<<x>>),
         x.type \in RunEvents \cup PhaseEvents \cup CallTypes,
         \A e \in Pending : MayPrecede(e, x)
  PROVE  Ordered(queue)' /\ Pending' = Pending \cup {x}
<1>1. /\ EventsIn(<<x>>) = {x} /\ <<x>> \in Seq(EventsIn(<<x>>))
      /\ \A e, f : ~Precedes(<<x>>, e, f)
  BY OneEvent
<1>2. /\ \A y \in EventsIn(<<x>>) : y.type \in RunEvents \cup PhaseEvents \cup CallTypes
      /\ \A e \in Pending, y \in EventsIn(<<x>>) : MayPrecede(e, y)
      /\ \A e, f : Precedes(<<x>>, e, f) => MayPrecede(e, f)
  BY <1>1
<1>3. Ordered(queue)' /\ Pending' = Pending \cup EventsIn(<<x>>)
  BY <1>1, <1>2, EmitsKeeps
<1> QED
  BY <1>1, <1>3

\* What Handled does to it: the head goes, and nothing it may not precede is left.
LEMMA HandledKeeps ==
  ASSUME Ordered(queue), NEW h, NEW evs, NEW phases, evs \in Seq(EventsIn(evs)),
         Handled(h, evs, phases),
         \A x \in EventsIn(evs) : x.type \in RunEvents \cup PhaseEvents \cup CallTypes,
         \A e \in Pending \ {h}, x \in EventsIn(evs) : MayPrecede(e, x),
         \A e, f : Precedes(evs, e, f) => MayPrecede(e, f)
  PROVE  /\ h \in Pending
         /\ Ordered(queue)' /\ Pending' = (Pending \ {h}) \cup EventsIn(evs)
         /\ \A f \in Pending \ {h} : MayPrecede(h, f)
<1>1. queue # <<>> /\ Head(queue) = h /\ queue' = Tail(queue) \o evs
  BY DEF Handled
<1>2. queue \in Seq(EventsIn(queue))
  BY DEF Ordered
<1>3. /\ Pending = {h} \cup EventsIn(Tail(queue))
      /\ Tail(queue) \in Seq(EventsIn(Tail(queue)))
      /\ \A e, f : Precedes(Tail(queue), e, f) => Precedes(queue, e, f)
      /\ \A f \in EventsIn(Tail(queue)) : Precedes(queue, h, f)
  BY <1>1, <1>2, Dropped DEF Pending
<1>4. \A f \in EventsIn(Tail(queue)) : MayPrecede(h, f)
  BY <1>3 DEF Ordered
<1>5. h.type \in RunEvents \cup PhaseEvents \cup CallTypes
  BY <1>3 DEF Ordered, Pending
<1>6. h \notin EventsIn(Tail(queue))
  BY <1>4, <1>5, Different
<1>7. EventsIn(Tail(queue)) = Pending \ {h}
  BY <1>3, <1>6
<1>8. /\ Pending' = (Pending \ {h}) \cup EventsIn(evs)
      /\ queue' \in Seq(EventsIn(queue'))
      /\ \A e, f : Precedes(queue', e, f) =>
           \/ Precedes(Tail(queue), e, f)
           \/ Precedes(evs, e, f)
           \/ e \in Pending \ {h} /\ f \in EventsIn(evs)
  BY <1>1, <1>3, <1>7, Appended DEF Pending
<1>9. Ordered(queue)'
  <2>1. \A e \in EventsIn(queue') : e.type \in RunEvents \cup PhaseEvents \cup CallTypes
    BY <1>8 DEF Ordered, Pending
  <2>2. \A e, f : Precedes(queue', e, f) => MayPrecede(e, f)
    BY <1>8, <1>3 DEF Ordered
  <2> QED
    BY <1>8, <2>1, <2>2 DEF Ordered
<1> QED
  BY <1>3, <1>4, <1>7, <1>8, <1>9

\* The same when nothing, or one event, is queued in its place.
LEMMA HandledAlone ==
  ASSUME Ordered(queue), NEW h, NEW phases, Handled(h, <<>>, phases)
  PROVE  /\ h \in Pending
         /\ Ordered(queue)' /\ Pending' = Pending \ {h}
         /\ \A f \in Pending \ {h} : MayPrecede(h, f)
<1>1. /\ EventsIn(<<>>) = {} /\ <<>> \in Seq(EventsIn(<<>>))
      /\ \A e, f : Precedes(<<>>, e, f) => MayPrecede(e, f)
  BY EmptyQueue DEF Precedes
<1>2. /\ \A y \in EventsIn(<<>>) : y.type \in RunEvents \cup PhaseEvents \cup CallTypes
      /\ \A e \in Pending \ {h}, y \in EventsIn(<<>>) : MayPrecede(e, y)
  BY <1>1
<1>3. /\ h \in Pending
      /\ Ordered(queue)' /\ Pending' = (Pending \ {h}) \cup EventsIn(<<>>)
      /\ \A f \in Pending \ {h} : MayPrecede(h, f)
  BY <1>1, <1>2, HandledKeeps
<1> QED
  BY <1>1, <1>3

LEMMA HandledOne ==
  ASSUME Ordered(queue), NEW h, NEW phases, NEW x, Handled(h, <<x>>, phases),
         x.type \in RunEvents \cup PhaseEvents \cup CallTypes,
         \A e \in Pending \ {h} : MayPrecede(e, x)
  PROVE  /\ h \in Pending
         /\ Ordered(queue)' /\ Pending' = (Pending \ {h}) \cup {x}
         /\ \A f \in Pending \ {h} : MayPrecede(h, f)
<1>1. /\ EventsIn(<<x>>) = {x} /\ <<x>> \in Seq(EventsIn(<<x>>))
      /\ \A e, f : ~Precedes(<<x>>, e, f)
  BY OneEvent
<1>2. /\ \A y \in EventsIn(<<x>>) : y.type \in RunEvents \cup PhaseEvents \cup CallTypes
      /\ \A e \in Pending \ {h}, y \in EventsIn(<<x>>) : MayPrecede(e, y)
      /\ \A e, f : Precedes(<<x>>, e, f) => MayPrecede(e, f)
  BY <1>1
<1>3. /\ h \in Pending
      /\ Ordered(queue)' /\ Pending' = (Pending \ {h}) \cup EventsIn(<<x>>)
      /\ \A f \in Pending \ {h} : MayPrecede(h, f)
  BY <1>1, <1>2, HandledKeeps
<1> QED
  BY <1>1, <1>3

\* An event that is not the last of its agent leaves the phases to its caller.
LEMMA HandledNotFinal ==
  ASSUME NEW h, NEW evs, NEW phases, Handled(h, evs, phases), ~IsFinal(h)
  PROVE  ended' = ended /\ runtime' = phases /\ Replays(<<h>>)
BY DEF Handled, Leaves

\* Events of agents come and go: what waits of phases and of the run is the same.
OnlyCalls == \A e : e.type \notin CallTypes => (e \in Pending' <=> e \in Pending)

\* Steps that add and remove events of calls only, or none of those.
LEMMA OnlyCallsKeep ==
  ASSUME OnlyCalls
  PROVE  /\ \A t \in PhaseEvents, p \in Phases : Waits(t, p)' <=> Waits(t, p)
         /\ \A t \in RunEvents : WaitsRun(t)' <=> WaitsRun(t)
         /\ PhaseNames => PhaseNames'
<1>1. \A t \in PhaseEvents \cup RunEvents : t \notin CallTypes
  BY DEF PhaseEvents, RunEvents, CallTypes
<1>2. \A t \in PhaseEvents, p \in Phases : Waits(t, p)' <=> Waits(t, p)
  BY <1>1 DEF OnlyCalls, Waits
<1>3. \A t \in RunEvents : WaitsRun(t)' <=> WaitsRun(t)
  BY <1>1 DEF OnlyCalls, WaitsRun
<1>4. PhaseNames => PhaseNames'
  BY <1>1 DEF OnlyCalls, PhaseNames
<1> QED
  BY <1>2, <1>3, <1>4

\* The other way round.
NoCalls == \A e : e.type \in CallTypes => (e \in Pending' <=> e \in Pending)

LEMMA NoCallsKeep ==
  ASSUME NoCalls
  PROVE  \A t \in CallTypes, a \in Agents : Asks(t, a)' <=> Asks(t, a)
BY DEF NoCalls, Asks

RuntimeTypes ==
  /\ up \in BOOLEAN /\ terminal \in BOOLEAN
  /\ owner \in {"none", "completion", "failure", "cancellation", "interruption"}
  /\ main \in {"starting", "declaring", "evaluating", "sealing", "draining",
               "materializing", "completing", "stopped", "over"}
  /\ ending \in {"none", "stopping", "failing", "publishing", "over"}
  /\ turn \in [at : {"free", "discovering", "sealing", "entering"}, phase : Phases \cup {NoPhase}]
  /\ child \in {"none", "over", "dead"} \cup Nested
  /\ current \in Phases \cup {NoPhase} /\ known \in Seq(Phases) /\ visited \in 0..Len(known)
  /\ runtime \in [Phases -> [entered : BOOLEAN, sealed : BOOLEAN, over : BOOLEAN,
                             active : 0..Cardinality(Agents)]]
  /\ sequence \in 0..Cardinality(Agents) /\ inner \subseteq Agents
  /\ agentPhase \in [Agents -> Phases \cup {NoPhase}]
  /\ stage \in [Agents -> {"idle", "over"} \cup Accepting \cup Working]
  /\ attempt \in [Agents -> Attempts]
  /\ ended \subseteq Agents

\* The type invariant, of the snapshot and of the rest.
LEMMA TypesSplit == ProjectionTypeOK <=> view \in Snapshots /\ RuntimeTypes
BY DEF ProjectionTypeOK, RuntimeTypes

\* Agents are numbered from one.
LEMMA AgentNumbers ==
  /\ Agents = 1..Cardinality(Agents) /\ Cardinality(Agents) \in Nat
  /\ \A a \in Agents : a \in Nat /\ a >= 1
<1>1. Cardinality(Agents) \in Nat
  BY StateAssumption, FS_CardinalityType
<1> QED
  BY <1>1, ProjectionAssumption

\* A call that is accepted, or a task, moves on.
LEMMA TaskMoves ==
  ASSUME RuntimeTypes, RunInv, NEW a \in Agents, NEW s \in Working,
         stage[a] \in Working \cup {"queueing"}, stage' = [stage EXCEPT ![a] = s],
         UNCHANGED <<up, runVars, phaseVars, sequence, inner, agentPhase, ended>>,
         attempt' \in [Agents -> Attempts],
         \A b \in Agents \ {a} : attempt'[b] = attempt[b],
         s = "retrying" => attempt'[a] < MaxAttempts,
         OnlyCalls, \A b \in Agents : Asks("agent.admitted", b)' <=> Asks("agent.admitted", b),
         Ordered(queue)', CallsWait'
  PROVE  RunInv' /\ RuntimeTypes'
<1> USE DEF runVars, phaseVars
<1>1. /\ \A t \in PhaseEvents, p \in Phases : Waits(t, p)' <=> Waits(t, p)
      /\ \A t \in RunEvents : WaitsRun(t)' <=> WaitsRun(t)
      /\ PhaseNames'
  BY OnlyCallsKeep DEF RunInv, QueueInv
<1>2. /\ stage'[a] = s /\ \A b \in Agents \ {a} : stage'[b] = stage[b]
      /\ \A b \in Agents : stage'[b] = "discovering" <=> stage[b] = "discovering"
      /\ \A b \in Agents : stage'[b] = "admitting" <=> stage[b] = "admitting"
      /\ \A b \in Agents : stage'[b] = "over" <=> stage[b] = "over"
      /\ \A b \in Agents : stage'[b] = "idle" <=> stage[b] = "idle"
      /\ \A b \in Agents : stage'[b] \in Accepting => stage[b] \in Accepting
  BY DEF RuntimeTypes, Working, Accepting
<1>3. Outer' = Outer /\ Outer \subseteq Agents /\ aborted' = aborted /\ Known' = Known
  BY AgentNumbers DEF Outer, aborted, Known, RuntimeTypes
<1>4. RuntimeTypes'
  <2>1. stage' \in [Agents -> {"idle", "over"} \cup Accepting \cup Working]
    BY DEF RuntimeTypes
  <2> QED
    BY <2>1 DEF RuntimeTypes
<1>5. RunWaits'
  BY <1>1, <1>3 DEF RunInv, QueueInv, RunWaits, RunEvents
<1>6. DiscoveriesWait'
  BY <1>1, <1>2, <1>3 DEF RunInv, QueueInv, DiscoveriesWait, Discovering, PhaseEvents
<1>7. EntriesWait'
  BY <1>1 DEF RunInv, QueueInv, EntriesWait, PhaseEvents
<1>8. CompletionsWait'
  BY <1>1, <1>2 DEF RunInv, QueueInv, CompletionsWait, PhaseEvents
<1>9. FailuresWait'
  BY <1>1 DEF RunInv, QueueInv, FailuresWait, PhaseEvents
<1>10. ControlFits' /\ PhasesFit'
  BY <1>3 DEF RunInv, StateInv, ControlFits, PhasesFit
<1>11. TurnFits'
  BY <1>2, <1>3 DEF RunInv, StateInv, TurnFits, Busy
<1>12. ChildFits' /\ MainFits'
  BY <1>2, <1>3 DEF RunInv, StateInv, ChildFits, MainFits, RuntimeTypes
<1>13. CallsFit'
  BY <1>2, <1>3 DEF RunInv, StateInv, CallsFit
<1>14. StagesFit'
  BY <1>2, <1>3 DEF RunInv, StateInv, StagesFit, Working, Accepting
<1>15. OneAccepted'
  BY <1>2, <1>3 DEF RunInv, StateInv, OneAccepted
<1>16. CountsFit'
  BY DEF RunInv, StateInv, CountsFit
<1> QED
  BY <1>1, <1>4, <1>5, <1>6, <1>7, <1>8, <1>9, <1>10, <1>11, <1>12, <1>13, <1>14, <1>15, <1>16
  DEF RunInv, QueueInv, StateInv

-------------------------------------------------------------------------------
(* A task emits events and moves on.                                         *)

\* Its own events, in their order, after what it still has in the queue.
FollowsUp(a, evs) ==
  /\ evs \in Seq(EventsIn(evs))
  /\ \A x \in EventsIn(evs) : x.type \in CallTypes \ {"agent.admitted"} /\ x.agent = a
  /\ \A e, f : Precedes(evs, e, f) => Rank(e.type) < Rank(f.type)
  /\ \A e \in Pending, x \in EventsIn(evs) :
       e.type \in CallTypes /\ e.agent = a => Rank(e.type) < Rank(x.type)

\* The three kinds of events are apart.
LEMMA CallTypeFacts ==
  ASSUME NEW t \in CallTypes
  PROVE  t \notin RunEvents /\ t \notin PhaseEvents
BY DEF CallTypes, RunEvents, PhaseEvents

\* What a task's own events leave of the order of the queue, and of the others'.
LEMMA CallsEmitted ==
  ASSUME Ordered(queue), NEW a \in Agents, NEW evs, FollowsUp(a, evs), Emits(evs)
  PROVE  /\ Ordered(queue)' /\ Pending' = Pending \cup EventsIn(evs)
         /\ OnlyCalls
         /\ \A b \in Agents : Asks("agent.admitted", b)' <=> Asks("agent.admitted", b)
         /\ \A t, b : b # a => (Asks(t, b)' <=> Asks(t, b))
<1>1. \A e, x : x.type \in CallTypes \ {"agent.admitted"} /\ x.agent = a
                /\ (e.type \in CallTypes /\ e.agent = a => Rank(e.type) < Rank(x.type))
                => MayPrecede(e, x)
  BY CallTypeFacts DEF MayPrecede, PhaseEvents
<1>2. \A e \in Pending, x \in EventsIn(evs) : MayPrecede(e, x)
  BY <1>1 DEF FollowsUp
<1>3. \A e, f : Precedes(evs, e, f) => f \in EventsIn(evs)
  BY DEF Precedes, EventsIn
<1>4. \A e, f : Precedes(evs, e, f) => MayPrecede(e, f)
  BY <1>1, <1>3 DEF FollowsUp
<1>5. Ordered(queue)' /\ Pending' = Pending \cup EventsIn(evs)
  <2>1. \A x \in EventsIn(evs) : x.type \in RunEvents \cup PhaseEvents \cup CallTypes
    BY DEF FollowsUp
  <2>2. evs \in Seq(EventsIn(evs))
    BY DEF FollowsUp
  <2> QED
    BY <1>2, <1>4, <2>1, <2>2, EmitsKeeps
<1>6. OnlyCalls
  BY <1>5 DEF OnlyCalls, FollowsUp
<1>7. \A b \in Agents : Asks("agent.admitted", b)' <=> Asks("agent.admitted", b)
  BY <1>5 DEF Asks, FollowsUp
<1>8. \A t, b : b # a => (Asks(t, b)' <=> Asks(t, b))
  BY <1>5 DEF Asks, FollowsUp
<1> QED
  BY <1>5, <1>6, <1>7, <1>8

\* The events of other agents fit as before.
LEMMA OthersFit ==
  ASSUME CallsWait, NEW a \in Agents, NEW e \in Pending, e.type \in CallTypes, e.agent # a,
         ended' \subseteq ended \cup {a}, stage \in [Agents -> {"idle", "over"} \cup Accepting \cup Working],
         sequence' = sequence, sequence \in 0..Cardinality(Agents), stage'[a] # "discovering",
         \A b \in Agents \ {a} : stage'[b] = stage[b] /\ attempt'[b] = attempt[b]
                                 /\ agentPhase'[b] = agentPhase[b]
  PROVE  CallFits(e)'
<1>1. CallFits(e)
  BY DEF CallsWait
<1>2. e.agent \in Agents \ {a}
  BY <1>1 DEF CallFits
<1>3. /\ stage'[e.agent] = stage[e.agent] /\ attempt'[e.agent] = attempt[e.agent]
      /\ agentPhase'[e.agent] = agentPhase[e.agent]
  BY <1>2
<1>4. ASSUME e.type = "agent.admitted"
      PROVE  e.callIndex + 1 \in 1..sequence' /\ stage'[e.callIndex + 1] # "discovering"
  <2>1. e.callIndex + 1 \in 1..sequence /\ stage[e.callIndex + 1] # "discovering"
    BY <1>1, <1>4 DEF CallFits
  <2>2. 1..sequence \subseteq Agents
    BY AgentNumbers
  <2> QED
    BY <2>1, <2>2
<1>5. \/ e.type = "agent.admitted" /\ e.phase = agentPhase[e.agent] /\ stage[e.agent] = "admitting"
      \/ e.type # "agent.admitted"
  BY <1>1 DEF CallFits
<1> QED
  BY <1>1, <1>3, <1>4, <1>5 DEF CallFits

\* A task that emits its own events and moves on keeps RunInv.
LEMMA TaskEmits ==
  ASSUME RuntimeTypes, RunInv, NEW a \in Agents, NEW s \in Working, stage[a] \in Working,
         NEW evs, FollowsUp(a, evs), Emits(evs), Moves(a, s), onlyMoves,
         s = "retrying" => attempt[a] < MaxAttempts,
         \A x \in EventsIn(evs) : CallFits(x)',
         \A e \in Pending : e.type \in CallTypes /\ e.agent = a => CallFits(e)'
  PROVE  RunInv' /\ RuntimeTypes'
<1>1. /\ Ordered(queue)' /\ Pending' = Pending \cup EventsIn(evs) /\ OnlyCalls
      /\ \A b \in Agents : Asks("agent.admitted", b)' <=> Asks("agent.admitted", b)
  BY CallsEmitted DEF RunInv, QueueInv
<1>2. CallsWait'
  <2>1. ASSUME NEW e \in Pending', e.type \in CallTypes
        PROVE  CallFits(e)'
    <3>1. CASE e \in EventsIn(evs)
      BY <3>1
    <3>2. CASE e \in Pending /\ e.agent = a
      BY <2>1, <3>2
    <3>3. CASE e \in Pending /\ e.agent # a
      <4>1. /\ stage' = [stage EXCEPT ![a] = s] /\ s # "discovering"
            /\ UNCHANGED <<ended, sequence, attempt, agentPhase>>
        BY DEF Moves, onlyMoves, taskKept, Working
      <4> QED
        BY <2>1, <3>3, <4>1, OthersFit DEF RunInv, QueueInv, RuntimeTypes
    <3> QED
      BY <1>1, <3>1, <3>2, <3>3
  <2> QED
    BY <2>1 DEF CallsWait
<1> QED
  BY <1>1, <1>2, TaskMoves
  DEF Moves, onlyMoves, taskKept, phaseVars, Emits, RuntimeTypes, publishing

\* What the snapshot must show of such a step.
LEMMA TaskEmitsShown ==
  ASSUME RuntimeTypes, RunInv, ViewInv, NEW a \in Agents, NEW s \in Working, stage[a] \in Working,
         NEW evs, FollowsUp(a, evs), Emits(evs), Moves(a, s), onlyMoves,
         AttemptShown(a)', \A x \in EventsIn(evs) : EventShown(x)'
  PROVE  ViewInv'
<1>1. /\ Pending' = Pending \cup EventsIn(evs) /\ OnlyCalls
      /\ \A b \in Agents : Asks("agent.admitted", b)' <=> Asks("agent.admitted", b)
      /\ \A t, b : b # a => (Asks(t, b)' <=> Asks(t, b))
  BY CallsEmitted DEF RunInv, QueueInv
<1>2. \A t \in PhaseEvents, p \in Phases : Waits(t, p)' <=> Waits(t, p)
  BY <1>1, OnlyCallsKeep
<1>3. /\ view' = view /\ runtime' = runtime /\ known' = known /\ inner' = inner
      /\ agentPhase' = agentPhase /\ ended' = ended /\ attempt' = attempt
      /\ stage' = [stage EXCEPT ![a] = s]
  BY DEF Emits, Moves, onlyMoves, taskKept, phaseVars
<1>4. PhasesShown'
  BY <1>2, <1>3 DEF ViewInv, PhasesShown, Known, PhaseEvents
<1>5. AgentsShown' /\ IndicesShown'
  BY <1>3 DEF ViewInv, AgentsShown, IndicesShown, RuntimeTypes, Working
<1>6. AttemptsShown'
  <2>1. ASSUME NEW b \in Agents \ {a} PROVE AttemptShown(b)'
    BY <1>1, <1>3 DEF ViewInv, AttemptsShown, AttemptShown, RuntimeTypes
  <2> QED
    BY <2>1 DEF AttemptsShown
<1>7. CallsShown'
  <2>1. ASSUME NEW e \in Pending, e.type \in CallTypes PROVE EventShown(e)'
    <3>1. EventShown(e)
      BY <2>1 DEF ViewInv, CallsShown
    <3> QED
      BY <3>1, <1>1, <1>3 DEF EventShown
  <2> QED
    BY <2>1, <1>1 DEF CallsShown
<1> QED
  BY <1>3, <1>4, <1>5, <1>6, <1>7 DEF ViewInv

\* Where a call is when the queue holds nothing of it, or at most the stall.
LEMMA NothingAsked ==
  ASSUME CallsWait, NEW a \in Agents, stage[a] \in {"idle", "discovering", "waiting", "running"}
  PROVE  \A e \in Pending : e.type \in CallTypes => e.agent # a
BY DEF CallsWait, CallFits, CallTypes

\* A task that runs has at most its stall waiting.
LEMMA OnlyStall ==
  ASSUME CallsWait, NEW a \in Agents, stage[a] \in {"waiting"} \cup Open
  PROVE  \A e \in Pending : e.type \in CallTypes /\ e.agent = a =>
           e.type = "agent.stalled" /\ e.attempt = attempt[a] /\ a \notin ended
BY DEF CallsWait, CallFits, CallTypes, Open

\* One, two or three of its events, of growing rank, follow up.
LEMMA OneFollows ==
  ASSUME NEW a \in Agents, NEW x, x.type \in CallTypes \ {"agent.admitted"}, x.agent = a,
         \A e \in Pending : e.type \in CallTypes /\ e.agent = a => Rank(e.type) < Rank(x.type)
  PROVE  FollowsUp(a, <<x>>) /\ EventsIn(<<x>>) = {x}
<1>1. /\ EventsIn(<<x>>) = {x} /\ <<x>> \in Seq(EventsIn(<<x>>))
      /\ \A e, f : ~Precedes(<<x>>, e, f)
  BY OneEvent
<1> QED
  BY <1>1 DEF FollowsUp

LEMMA TwoFollow ==
  ASSUME NEW a \in Agents, NEW x, x.type \in CallTypes \ {"agent.admitted"}, x.agent = a,
         NEW y, y.type \in CallTypes \ {"agent.admitted"}, y.agent = a,
         Rank(x.type) < Rank(y.type),
         \A e \in Pending : e.type \in CallTypes /\ e.agent = a => Rank(e.type) < Rank(x.type)
  PROVE  FollowsUp(a, <<x, y>>) /\ EventsIn(<<x, y>>) = {x, y}
<1>1. /\ EventsIn(<<x, y>>) = {x, y} /\ <<x, y>> \in Seq(EventsIn(<<x, y>>))
      /\ \A e, f : Precedes(<<x, y>>, e, f) => e = x /\ f = y
  BY TwoEvents
<1>2. \A e \in Pending : e.type \in CallTypes /\ e.agent = a => Rank(e.type) < Rank(y.type)
  BY RankNat
<1> QED
  BY <1>1, <1>2 DEF FollowsUp

LEMMA ThreeFollow ==
  ASSUME NEW a \in Agents, NEW x, x.type \in CallTypes \ {"agent.admitted"}, x.agent = a,
         NEW y, y.type \in CallTypes \ {"agent.admitted"}, y.agent = a,
         NEW z, z.type \in CallTypes \ {"agent.admitted"}, z.agent = a,
         Rank(x.type) < Rank(y.type), Rank(y.type) < Rank(z.type),
         \A e \in Pending : e.type \in CallTypes /\ e.agent = a => Rank(e.type) < Rank(x.type)
  PROVE  FollowsUp(a, <<x, y, z>>) /\ EventsIn(<<x, y, z>>) = {x, y, z}
<1>1. /\ EventsIn(<<x, y, z>>) = {x, y, z} /\ <<x, y, z>> \in Seq(EventsIn(<<x, y, z>>))
      /\ \A e, f : Precedes(<<x, y, z>>, e, f) =>
           (x = e /\ y = f) \/ (x = e /\ z = f) \/ (y = e /\ z = f)
  BY ThreeEvents
<1>2. /\ Rank(x.type) < Rank(z.type)
      /\ \A e \in Pending : e.type \in CallTypes /\ e.agent = a =>
           Rank(e.type) < Rank(y.type) /\ Rank(e.type) < Rank(z.type)
  BY RankNat
<1> QED
  BY <1>1, <1>2 DEF FollowsUp

LEMMA TwoConcatenated ==
  ASSUME NEW x, NEW y
  PROVE  <<x>> \o <<y>> = <<x, y>>
<1>1. <<x>> \in Seq({x, y}) /\ <<y>> \in Seq({x, y}) /\ <<x, y>> \in Seq({x, y})
  OBVIOUS
<1>2. /\ <<x>> \o <<y>> \in Seq({x, y}) /\ Len(<<x>> \o <<y>>) = 2
      /\ \A i \in 1..2 : (<<x>> \o <<y>>)[i] = <<x, y>>[i]
  BY <1>1
<1> QED
  BY <1>1, <1>2, SeqEqual

LEMMA ThreeConcatenated ==
  ASSUME NEW x, NEW y, NEW z
  PROVE  <<x, y>> \o <<z>> = <<x, y, z>> /\ <<x>> \o <<y, z>> = <<x, y, z>>
<1> DEFINE S == {x, y, z}
<1>1. /\ <<x>> \in Seq(S) /\ <<x, y>> \in Seq(S) /\ <<z>> \in Seq(S) /\ <<y, z>> \in Seq(S)
      /\ <<x, y, z>> \in Seq(S)
  OBVIOUS
<1>2. /\ <<x, y>> \o <<z>> \in Seq(S) /\ Len(<<x, y>> \o <<z>>) = 3
      /\ \A i \in 1..3 : (<<x, y>> \o <<z>>)[i] = <<x, y, z>>[i]
  BY <1>1
<1>3. /\ <<x>> \o <<y, z>> \in Seq(S) /\ Len(<<x>> \o <<y, z>>) = 3
      /\ \A i \in 1..3 : (<<x>> \o <<y, z>>)[i] = <<x, y, z>>[i]
  BY <1>1
<1> QED
  BY <1>1, <1>2, <1>3, SeqEqual

\* What If(..) and \o make of the events of a task.
LEMMA Concatenated ==
  /\ \A x : <<>> \o <<x>> = <<x>> /\ <<x>> \o <<>> = <<x>>
  /\ \A x, y : <<x>> \o <<y>> = <<x, y>>
  /\ \A x, y, z : <<x, y>> \o <<z>> = <<x, y, z>> /\ <<x>> \o <<y, z>> = <<x, y, z>>
  /\ <<>> \o <<>> = <<>>
<1>1. /\ \A x : <<>> \o <<x>> = <<x>> /\ <<x>> \o <<>> = <<x>>
      /\ <<>> \o <<>> = <<>>
  OBVIOUS
<1> QED
  BY <1>1, TwoConcatenated, ThreeConcatenated

LEMMA Ranks ==
  /\ Rank("agent.started") = 1 /\ Rank("agent.recovery_started") = 2
  /\ Rank("agent.stalled") = 3 /\ Rank("agent.termination_confirmed") = 4
  /\ Rank("agent.recovery_completed") = 5 /\ Rank("agent.completed") = 6
  /\ Rank("agent.failed") = 6 /\ Rank("agent.recovery_required") = 6
  /\ Rank("agent.cancelled") = 6 /\ Rank("agent.retry_scheduled") = 7
  /\ Rank("agent.reused") = 6 /\ Rank("agent.queued") = 1 /\ Rank("agent.admitted") = 1
  /\ Rank("phase.discovered") = 1 /\ Rank("phase.entered") = 2
  /\ Rank("phase.completed") = 3 /\ Rank("phase.failed") = 4
BY DEF Rank

\* The actions of a task, one by one.
LEMMA StartsKeeps ==
  ASSUME RuntimeTypes, RunInv, NEW a \in Agents, Starts(a)
  PROVE  RunInv' /\ RuntimeTypes' /\ (ViewInv => ViewInv')
<1>0. PICK x, y : x = This(a, "agent.started") /\ y = This(a, "agent.recovery_started")
  OBVIOUS
<1> DEFINE evs == <<x>> \o If(attempt[a] > 1, <<y>>)
<1>1. /\ stage[a] = "waiting" /\ stage[a] \in Working /\ "starting" \in Working
      /\ Moves(a, "starting") /\ onlyMoves /\ Emits(evs)
  BY <1>0 DEF Starts, Working
<1>2. /\ x.type = "agent.started" /\ x.agent = a /\ x.attempt = attempt[a]
      /\ y.type = "agent.recovery_started" /\ y.agent = a /\ y.attempt = attempt[a]
      /\ x.type \in CallTypes \ {"agent.admitted"} /\ y.type \in CallTypes \ {"agent.admitted"}
  BY <1>0 DEF This, AttemptEvent, CallTypes
<1>3. \A e \in Pending : e.type \in CallTypes => e.agent # a
  BY <1>1, NothingAsked DEF RunInv, QueueInv
<1>4. a \notin ended
  BY <1>1 DEF RunInv, StateInv, StagesFit
<1>5. stage'[a] = "starting" /\ attempt' = attempt /\ ended' = ended /\ view' = view
  BY <1>1 DEF Moves, onlyMoves, taskKept, RuntimeTypes, Emits
<1>6. FollowsUp(a, evs) /\ EventsIn(evs) \subseteq {x, y}
      /\ x \in EventsIn(evs) /\ (y \in EventsIn(evs) => attempt[a] > 1 \/ y = x)
  <2>1. CASE attempt[a] > 1
    <3>1. evs = <<x, y>>
      BY <2>1, Concatenated DEF If
    <3>2. FollowsUp(a, <<x, y>>) /\ EventsIn(<<x, y>>) = {x, y}
      BY <1>2, <1>3, Ranks, TwoFollow
    <3>3. x \in {x, y}
      OBVIOUS
    <3> QED
      BY <2>1, <3>1, <3>2, <3>3
  <2>2. CASE ~(attempt[a] > 1)
    <3>1. evs = <<x>>
      BY <2>2, Concatenated DEF If
    <3>2. FollowsUp(a, <<x>>) /\ EventsIn(<<x>>) = {x}
      BY <1>2, <1>3, OneFollows
    <3> QED
      BY <3>1, <3>2
  <2> QED
    BY <2>1, <2>2
<1>7. CallFits(x)' /\ (attempt[a] > 1 => CallFits(y)')
  BY <1>2, <1>4, <1>5 DEF CallFits
<1> HIDE DEF evs
<1>8. RunInv' /\ RuntimeTypes'
  BY <1>1, <1>3, <1>6, <1>7, TaskEmits
<1>9. ASSUME ViewInv PROVE ViewInv'
  <2>1. Asks("agent.started", a)'
    BY <1>1, <1>2, <1>6, CallsEmitted DEF Asks, RunInv, QueueInv
  <2>2. AttemptShown(a)'
    BY <1>9, <1>1, <1>5, <2>1 DEF ViewInv, AttemptsShown, AttemptShown, Accepting, Open
  <2>3. Admitted(view, a)
    BY <1>9, <1>1 DEF ViewInv, AgentsShown
  <2>4. EventShown(x)' /\ EventShown(y)'
    BY <1>2, <1>5, <2>3 DEF EventShown, AttemptEvents, EitherEvents
  <2> QED
    BY <1>9, <1>1, <1>6, <2>2, <2>4, TaskEmitsShown
<1> QED
  BY <1>8, <1>9

LEMMA TimesOutKeeps ==
  ASSUME RuntimeTypes, RunInv, NEW a \in Agents, TimesOut(a)
  PROVE  RunInv' /\ RuntimeTypes' /\ (ViewInv => ViewInv')
<1>0. PICK x : x = This(a, "agent.stalled")
  OBVIOUS
<1>1. /\ stage[a] = "running" /\ stage[a] \in Working /\ "confirming" \in Working
      /\ Moves(a, "confirming") /\ onlyMoves /\ Emits(<<x>>)
  BY <1>0 DEF TimesOut, Working
<1>2. /\ x.type = "agent.stalled" /\ x.agent = a /\ x.attempt = attempt[a]
      /\ x.type \in CallTypes \ {"agent.admitted"}
  BY <1>0 DEF This, AttemptEvent, CallTypes
<1>3. \A e \in Pending : e.type \in CallTypes => e.agent # a
  BY <1>1, NothingAsked DEF RunInv, QueueInv
<1>4. a \notin ended
  BY <1>1 DEF RunInv, StateInv, StagesFit
<1>5. stage'[a] = "confirming" /\ attempt' = attempt /\ ended' = ended /\ view' = view
  BY <1>1 DEF Moves, onlyMoves, taskKept, RuntimeTypes, Emits
<1>6. FollowsUp(a, <<x>>) /\ EventsIn(<<x>>) = {x}
  BY <1>2, <1>3, OneFollows
<1>7. CallFits(x)'
  BY <1>2, <1>4, <1>5 DEF CallFits
<1>8. RunInv' /\ RuntimeTypes'
  BY <1>1, <1>3, <1>6, <1>7, TaskEmits
<1>9. ASSUME ViewInv PROVE ViewInv'
  <2>1. AttemptShown(a)'
    BY <1>9, <1>1, <1>5 DEF ViewInv, AttemptsShown, AttemptShown, Accepting, Open
  <2>2. Admitted(view, a) /\ view.attempts[a][attempt[a]] \in Unresolved
    BY <1>9, <1>1 DEF ViewInv, AgentsShown, AttemptsShown, AttemptShown, Open, Unresolved
  <2>3. EventShown(x)'
    BY <1>2, <1>5, <2>2 DEF EventShown, AttemptEvents, EitherEvents, Unresolved
  <2> QED
    BY <1>9, <1>1, <1>6, <2>1, <2>3, TaskEmitsShown
<1> QED
  BY <1>8, <1>9

LEMMA RetriesKeeps ==
  ASSUME RuntimeTypes, RunInv, NEW a \in Agents, Retries(a)
  PROVE  RunInv' /\ RuntimeTypes' /\ (ViewInv => ViewInv')
<1>0. PICK t, f, r : /\ t = This(a, "agent.termination_confirmed")
                     /\ f = Failure(a, attempt[a], TRUE)
                     /\ r = AgentEvent("agent.retry_scheduled", a)
  OBVIOUS
<1>1. /\ stage[a] \in Open /\ stage[a] \in Working /\ "retrying" \in Working
      /\ Moves(a, "retrying") /\ onlyMoves /\ attempt[a] < MaxAttempts
  BY DEF Retries, Working, Open
<1>2. /\ t.type = "agent.termination_confirmed" /\ t.agent = a /\ t.attempt = attempt[a]
      /\ f.type = "agent.failed" /\ f.agent = a /\ f.attempt = attempt[a] /\ f.retrying = TRUE
      /\ r.type = "agent.retry_scheduled" /\ r.agent = a
      /\ {t.type, f.type, r.type} \subseteq CallTypes \ {"agent.admitted"}
  BY <1>0 DEF This, AttemptEvent, AgentEvent, Failure, CallTypes
<1>3. \A e \in Pending : e.type \in CallTypes /\ e.agent = a =>
        e.type = "agent.stalled" /\ e.attempt = attempt[a]
  BY <1>1, OnlyStall DEF RunInv, QueueInv
<1>4. a \notin ended
  BY <1>1 DEF RunInv, StateInv, StagesFit, Open
<1>5. stage'[a] = "retrying" /\ attempt' = attempt /\ ended' = ended /\ view' = view
  BY <1>1 DEF Moves, onlyMoves, taskKept, RuntimeTypes, Retries, Emits
<1>6. PICK evs : /\ Emits(evs) /\ FollowsUp(a, evs)
                 /\ EventsIn(evs) \subseteq {t, f, r} /\ f \in EventsIn(evs)
  <2>1. PICK first \in {<<>>, <<t>>} : Emits(first \o <<f, r>>)
    BY <1>0 DEF Retries, Ending
  <2>2. \A e \in Pending : e.type \in CallTypes /\ e.agent = a =>
          Rank(e.type) < Rank(t.type) /\ Rank(e.type) < Rank(f.type)
    BY <1>2, <1>3, Ranks
  <2>3. Rank(t.type) < Rank(f.type) /\ Rank(f.type) < Rank(r.type)
    BY <1>2, Ranks
  <2>4. CASE first = <<t>>
    <3>1. FollowsUp(a, <<t, f, r>>) /\ EventsIn(<<t, f, r>>) = {t, f, r}
      BY <1>2, <2>2, <2>3, ThreeFollow
    <3>2. first \o <<f, r>> = <<t, f, r>>
      BY <2>4, Concatenated
    <3> QED
      BY <2>1, <3>1, <3>2
  <2>5. CASE first = <<>>
    <3>1. FollowsUp(a, <<f, r>>) /\ EventsIn(<<f, r>>) = {f, r}
      BY <1>2, <2>2, <2>3, TwoFollow
    <3>2. first \o <<f, r>> = <<f, r>>
      BY <2>5
    <3> QED
      BY <2>1, <3>1, <3>2
  <2> QED
    BY <2>1, <2>4, <2>5
<1>7. CallFits(t)' /\ CallFits(f)' /\ CallFits(r)'
  BY <1>2, <1>4, <1>5 DEF CallFits
<1>8. \A e \in Pending : e.type \in CallTypes /\ e.agent = a => CallFits(e)'
  BY <1>3, <1>4, <1>5 DEF CallFits
<1>9. RunInv' /\ RuntimeTypes'
  BY <1>1, <1>6, <1>7, <1>8, TaskEmits
<1>10. ASSUME ViewInv PROVE ViewInv'
  <2>1. Asks("agent.failed", a)'
    BY <1>2, <1>6, CallsEmitted DEF Asks, RunInv, QueueInv
  <2>2. AttemptShown(a)'
    BY <1>10, <1>1, <1>5, <2>1 DEF ViewInv, AttemptsShown, AttemptShown, Accepting, Open
  <2>3. Admitted(view, a) /\ view.attempts[a][attempt[a]] # "absent"
    BY <1>10, <1>1 DEF ViewInv, AgentsShown, AttemptsShown, AttemptShown, Unresolved
  <2>4. attempt[a] # 0
    BY DEF RuntimeTypes, Attempts
  <2>5. EventShown(t)' /\ EventShown(f)' /\ EventShown(r)'
    BY <1>2, <1>5, <2>3, <2>4 DEF EventShown, AttemptEvents, EitherEvents
  <2> QED
    BY <1>10, <1>1, <1>6, <2>2, <2>5, TaskEmitsShown
<1> QED
  BY <1>9, <1>10

\* What a task may emit last: of its open attempt, if it has one.
Closing(a, x) ==
  /\ x.agent = a
  /\ x.type \in {"agent.termination_confirmed", "agent.recovery_completed", "agent.completed",
                 "agent.recovery_required", "agent.cancelled", "agent.failed"}
  /\ x.type = "agent.failed" => x.retrying = FALSE
  /\ IF stage[a] = "waiting"
     THEN x.type \in {"agent.cancelled", "agent.failed"} /\ x.attempt = 0
     ELSE x.attempt = attempt[a]

\* A task that emits its last events finishes.
LEMMA FinishesKeeps ==
  ASSUME RuntimeTypes, RunInv, NEW a \in Agents, stage[a] \in {"waiting"} \cup Open,
         NEW evs, FollowsUp(a, evs), Finishes(a, evs), \A x \in EventsIn(evs) : Closing(a, x)
  PROVE  RunInv' /\ RuntimeTypes' /\ (ViewInv => ViewInv')
<1>1. /\ stage[a] \in Working /\ "finishing" \in Working
      /\ Moves(a, "finishing") /\ onlyMoves /\ Emits(evs)
  BY DEF Finishes, Working, Open
<1>2. \A e \in Pending : e.type \in CallTypes /\ e.agent = a =>
        e.type = "agent.stalled" /\ e.attempt = attempt[a]
  BY <1>1, OnlyStall DEF RunInv, QueueInv
<1>3. a \notin ended
  BY DEF RunInv, StateInv, StagesFit, Open
<1>4. stage'[a] = "finishing" /\ attempt' = attempt /\ ended' = ended /\ view' = view
  BY <1>1 DEF Moves, onlyMoves, taskKept, RuntimeTypes, Emits
<1>5. \A x \in EventsIn(evs) : CallFits(x)'
  BY <1>3, <1>4 DEF CallFits, Closing, FollowsUp
<1>6. \A e \in Pending : e.type \in CallTypes /\ e.agent = a => CallFits(e)'
  BY <1>2, <1>3, <1>4 DEF CallFits
<1>7. RunInv' /\ RuntimeTypes'
  BY <1>1, <1>5, <1>6, TaskEmits
<1>8. ASSUME ViewInv PROVE ViewInv'
  <2>1. AttemptShown(a)'
    BY <1>8, <1>1, <1>4 DEF ViewInv, AttemptsShown, AttemptShown, Accepting, Open
  <2>2. Admitted(view, a)
    BY <1>8, <1>1 DEF ViewInv, AgentsShown
  <2>3. IF stage[a] = "waiting" THEN view.attempts[a][attempt[a]] \notin Unresolved
        ELSE view.attempts[a][attempt[a]] # "absent"
    BY <1>8 DEF ViewInv, AttemptsShown, AttemptShown, Unresolved
  <2>4. attempt[a] # 0
    BY DEF RuntimeTypes, Attempts
  <2>5. \A x \in EventsIn(evs) : EventShown(x)'
    BY <1>4, <2>2, <2>3, <2>4 DEF EventShown, Closing, AttemptEvents, EitherEvents
  <2> QED
    BY <1>8, <1>1, <2>1, <2>5, TaskEmitsShown
<1> QED
  BY <1>7, <1>8

\* The end of its attempt confirmed first, or not.
LEMMA ConfirmsFirst ==
  ASSUME RunInv, NEW a \in Agents, stage[a] \in Open, NEW x,
         x.type \in {"agent.recovery_completed", "agent.completed", "agent.recovery_required",
                     "agent.cancelled", "agent.failed"}, x.agent = a,
         NEW t, t = This(a, "agent.termination_confirmed")
  PROVE  /\ FollowsUp(a, <<x>>) /\ EventsIn(<<x>>) = {x}
         /\ FollowsUp(a, <<t, x>>) /\ EventsIn(<<t, x>>) = {t, x}
<1>1. /\ t.type = "agent.termination_confirmed" /\ t.agent = a
      /\ x.type \in CallTypes \ {"agent.admitted"} /\ t.type \in CallTypes \ {"agent.admitted"}
      /\ Rank(t.type) = 4 /\ Rank(x.type) \in {5, 6}
  BY Ranks DEF This, AttemptEvent, CallTypes
<1>2. \A e \in Pending : e.type \in CallTypes /\ e.agent = a => Rank(e.type) = 3
  BY OnlyStall, Ranks DEF RunInv, QueueInv
<1> QED
  BY <1>1, <1>2, OneFollows, TwoFollow

LEMMA ClosesAlone ==
  ASSUME RunInv, NEW a \in Agents, stage[a] \in Open, NEW x,
         x.type \in {"agent.recovery_completed", "agent.completed", "agent.recovery_required",
                     "agent.cancelled", "agent.failed"}, x.agent = a
  PROVE  FollowsUp(a, <<x>>) /\ EventsIn(<<x>>) = {x}
<1>1. x.type \in CallTypes \ {"agent.admitted"} /\ Rank(x.type) \in {5, 6}
  BY Ranks DEF CallTypes
<1>2. \A e \in Pending : e.type \in CallTypes /\ e.agent = a => Rank(e.type) = 3
  BY OnlyStall, Ranks DEF RunInv, QueueInv
<1> QED
  BY <1>1, <1>2, OneFollows

LEMMA CompletesKeeps ==
  ASSUME RuntimeTypes, RunInv, NEW a \in Agents, Completes(a)
  PROVE  RunInv' /\ RuntimeTypes' /\ (ViewInv => ViewInv')
<1>0. PICK t, r, c : /\ t = This(a, "agent.termination_confirmed")
                     /\ r = This(a, "agent.recovery_completed")
                     /\ c = This(a, "agent.completed")
  OBVIOUS
<1>1. /\ stage[a] \in Open /\ stage[a] # "waiting"
      /\ Finishes(a, If(stage[a] = "confirming", <<t>>) \o If(attempt[a] > 1, <<r>>) \o <<c>>)
  BY <1>0 DEF Completes, Open
<1>2. Closing(a, t) /\ Closing(a, r) /\ Closing(a, c)
  BY <1>0, <1>1 DEF Closing, This, AttemptEvent
<1>3. /\ r.type = "agent.recovery_completed" /\ r.agent = a
      /\ c.type = "agent.completed" /\ c.agent = a
      /\ t.type = "agent.termination_confirmed" /\ t.agent = a
      /\ {t.type, r.type, c.type} \subseteq CallTypes \ {"agent.admitted"}
  BY <1>0 DEF This, AttemptEvent, CallTypes
<1>4. PICK evs : /\ Finishes(a, evs) /\ FollowsUp(a, evs)
                 /\ EventsIn(evs) \subseteq {t, r, c}
  <2>1. CASE stage[a] = "confirming" /\ attempt[a] > 1
    <3>1. \A e \in Pending : e.type \in CallTypes /\ e.agent = a => Rank(e.type) < Rank(t.type)
      BY <1>1, <1>3, OnlyStall, Ranks DEF RunInv, QueueInv
    <3>2. FollowsUp(a, <<t, r, c>>) /\ EventsIn(<<t, r, c>>) = {t, r, c}
      BY <1>3, <3>1, Ranks, ThreeFollow
    <3>3. <<t>> \o <<r>> \o <<c>> = <<t, r, c>>
      <4>1. <<t>> \o <<r>> = <<t, r>>
        BY TwoConcatenated
      <4>2. <<t, r>> \o <<c>> = <<t, r, c>>
        BY ThreeConcatenated
      <4> QED
        BY <4>1, <4>2
    <3>4. Finishes(a, <<t, r, c>>)
      BY <1>1, <2>1, <3>3 DEF If
    <3> QED
      BY <3>2, <3>4
  <2>2. CASE stage[a] = "confirming" /\ ~(attempt[a] > 1)
    <3>1. FollowsUp(a, <<t, c>>) /\ EventsIn(<<t, c>>) = {t, c}
      BY <1>0, <1>1, <1>3, ConfirmsFirst
    <3>2. Finishes(a, <<t, c>>)
      BY <1>1, <2>2, Concatenated DEF If
    <3> QED
      BY <3>1, <3>2
  <2>3. CASE stage[a] # "confirming" /\ attempt[a] > 1
    <3>1. \A e \in Pending : e.type \in CallTypes /\ e.agent = a => Rank(e.type) < Rank(r.type)
      BY <1>1, <1>3, OnlyStall, Ranks DEF RunInv, QueueInv
    <3>2. FollowsUp(a, <<r, c>>) /\ EventsIn(<<r, c>>) = {r, c}
      BY <1>3, <3>1, Ranks, TwoFollow
    <3>3. Finishes(a, <<r, c>>)
      BY <1>1, <2>3, Concatenated DEF If
    <3> QED
      BY <3>2, <3>3
  <2>4. CASE stage[a] # "confirming" /\ ~(attempt[a] > 1)
    <3>1. FollowsUp(a, <<c>>) /\ EventsIn(<<c>>) = {c}
      BY <1>1, <1>3, ClosesAlone
    <3>2. Finishes(a, <<c>>)
      BY <1>1, <2>4, Concatenated DEF If
    <3> QED
      BY <3>1, <3>2
  <2> QED
    BY <2>1, <2>2, <2>3, <2>4
<1> QED
  BY <1>1, <1>2, <1>4, FinishesKeeps

LEMMA GivesUpKeeps ==
  ASSUME RuntimeTypes, RunInv, NEW a \in Agents, GivesUp(a)
  PROVE  RunInv' /\ RuntimeTypes' /\ (ViewInv => ViewInv')
<1>0. PICK t, r, f : /\ t = This(a, "agent.termination_confirmed")
                     /\ r = This(a, "agent.recovery_required")
                     /\ f = Failure(a, attempt[a], FALSE)
  OBVIOUS
<1>1. CASE stage[a] = "waiting" /\ Finishes(a, <<Failure(a, 0, FALSE)>>)
  <2>1. PICK x : x = Failure(a, 0, FALSE)
    OBVIOUS
  <2>2. x.type = "agent.failed" /\ x.agent = a /\ x.type \in CallTypes \ {"agent.admitted"}
        /\ Closing(a, x)
    BY <2>1, <1>1 DEF Closing, Failure, CallTypes
  <2>3. FollowsUp(a, <<x>>) /\ EventsIn(<<x>>) = {x}
    BY <1>1, <2>2, NothingAsked, OneFollows DEF RunInv, QueueInv
  <2> QED
    BY <1>1, <2>1, <2>2, <2>3, FinishesKeeps
<1>2. CASE stage[a] = "running" /\ Finishes(a, <<Failure(a, attempt[a], FALSE)>>)
  <2>1. f.type = "agent.failed" /\ f.agent = a /\ Closing(a, f) /\ stage[a] \in Open
    BY <1>0, <1>2 DEF Closing, Failure, Open
  <2>2. FollowsUp(a, <<f>>) /\ EventsIn(<<f>>) = {f}
    BY <2>1, ClosesAlone
  <2> QED
    BY <1>0, <1>2, <2>1, <2>2, FinishesKeeps
<1>3. CASE /\ stage[a] \in Open
           /\ \E first \in Ending(a) : Finishes(a, first \o <<This(a, "agent.recovery_required")>>)
  <2>1. /\ r.type = "agent.recovery_required" /\ r.agent = a
        /\ Closing(a, r) /\ Closing(a, t)
    BY <1>0, <1>3 DEF Closing, This, AttemptEvent, Open
  <2>2. PICK first \in {<<>>, <<t>>} : Finishes(a, first \o <<r>>)
    BY <1>0, <1>3 DEF Ending
  <2>3. first \o <<r>> \in {<<r>>, <<t, r>>}
    BY <2>2, Concatenated
  <2>4. /\ FollowsUp(a, <<r>>) /\ EventsIn(<<r>>) = {r}
        /\ FollowsUp(a, <<t, r>>) /\ EventsIn(<<t, r>>) = {t, r}
    BY <1>0, <1>3, <2>1, ConfirmsFirst
  <2>5. PICK evs : Finishes(a, evs) /\ FollowsUp(a, evs) /\ EventsIn(evs) \subseteq {t, r}
    BY <2>2, <2>3, <2>4
  <2> QED
    BY <1>3, <2>1, <2>5, FinishesKeeps
<1> QED
  BY <1>1, <1>2, <1>3 DEF GivesUp

LEMMA CancelsKeeps ==
  ASSUME RuntimeTypes, RunInv, NEW a \in Agents, Cancels(a)
  PROVE  RunInv' /\ RuntimeTypes' /\ (ViewInv => ViewInv')
<1>0. PICK t, c : /\ t = This(a, "agent.termination_confirmed")
                  /\ c = Cancelled(a, attempt[a])
  OBVIOUS
<1>1. CASE stage[a] = "waiting" /\ Finishes(a, <<Cancelled(a, 0)>>)
  <2>1. PICK x : x = Cancelled(a, 0)
    OBVIOUS
  <2>2. x.type = "agent.cancelled" /\ x.agent = a /\ x.type \in CallTypes \ {"agent.admitted"}
        /\ Closing(a, x)
    BY <2>1, <1>1 DEF Closing, Cancelled, CallTypes
  <2>3. FollowsUp(a, <<x>>) /\ EventsIn(<<x>>) = {x}
    BY <1>1, <2>2, NothingAsked, OneFollows DEF RunInv, QueueInv
  <2> QED
    BY <1>1, <2>1, <2>2, <2>3, FinishesKeeps
<1>2. CASE /\ stage[a] \in Open
           /\ \/ Finishes(a, <<Cancelled(a, attempt[a])>>)
              \/ Finishes(a, <<This(a, "agent.termination_confirmed"), Cancelled(a, attempt[a])>>)
  <2>1. /\ c.type = "agent.cancelled" /\ c.agent = a
        /\ Closing(a, c) /\ Closing(a, t)
    BY <1>0, <1>2 DEF Closing, Cancelled, This, AttemptEvent, Open
  <2>2. /\ FollowsUp(a, <<c>>) /\ EventsIn(<<c>>) = {c}
        /\ FollowsUp(a, <<t, c>>) /\ EventsIn(<<t, c>>) = {t, c}
    BY <1>0, <1>2, <2>1, ConfirmsFirst
  <2>3. PICK evs : Finishes(a, evs) /\ FollowsUp(a, evs) /\ EventsIn(evs) \subseteq {t, c}
    BY <1>0, <1>2, <2>2
  <2> QED
    BY <1>2, <2>1, <2>3, FinishesKeeps
<1> QED
  BY <1>1, <1>2 DEF Cancels

-------------------------------------------------------------------------------
(* What the reducer makes of an event.                                       *)

\* Two snapshots that differ in the agents' statuses and attempts only.
SameButAgents(s, t) ==
  t.status = s.status /\ t.phases = s.phases /\ t.callIndex = s.callIndex /\ t.phaseOf = s.phaseOf

Outcomes == {"completed", "failed", "recovery_required"}
AnyAttempt == {0} \cup Attempts
\* They differ in the status of one attempt at most.
Alters(s, t, a, n, status) ==
  \A b \in Agents, m \in Attempts :
    t.attempts[b][m] = IF b = a /\ m = n THEN status ELSE s.attempts[b][m]

\* What the helpers of the reducer change, and what they leave.
LEMMA WithErrorFacts ==
  ASSUME NEW s \in Snapshots, NEW x \in SUBSET Agents
  PROVE  /\ [s EXCEPT !.error = x] \in Snapshots
         /\ SameButAgents(s, [s EXCEPT !.error = x])
         /\ [s EXCEPT !.error = x].agents = s.agents
         /\ [s EXCEPT !.error = x].attempts = s.attempts
BY DEF Snapshots, SameButAgents

LEMMA WithAgentFacts ==
  ASSUME NEW s \in Snapshots, NEW a \in Agents, NEW status \in AgentStatuses
  PROVE  /\ WithAgent(s, a, status) \in Snapshots
         /\ SameButAgents(s, WithAgent(s, a, status))
         /\ WithAgent(s, a, status).attempts = s.attempts
         /\ WithAgent(s, a, status).agents = [s.agents EXCEPT ![a] = status]
         /\ WithAgent(s, a, status).error = s.error
BY DEF Snapshots, WithAgent, SameButAgents

LEMMA WithAttemptFacts ==
  ASSUME NEW s \in Snapshots, NEW a \in Agents, NEW n \in AnyAttempt,
         NEW status \in AttemptStatuses
  PROVE  /\ WithAttempt(s, a, n, status) \in Snapshots
         /\ SameButAgents(s, WithAttempt(s, a, n, status))
         /\ WithAttempt(s, a, n, status).agents = s.agents
         /\ WithAttempt(s, a, n, status).error = s.error
         /\ Alters(s, WithAttempt(s, a, n, status), a, n, status)
<1>1. CASE n = 0
  BY <1>1 DEF WithAttempt, SameButAgents, Attempts, Alters
<1>2. CASE n # 0
  <2> DEFINE x == [s.attempts EXCEPT ![a] = [s.attempts[a] EXCEPT ![n] = status]]
  <2>1. n \in Attempts /\ s.attempts \in [Agents -> [Attempts -> AttemptStatuses]]
    BY <1>2 DEF Snapshots, AnyAttempt
  <2>2. /\ x \in [Agents -> [Attempts -> AttemptStatuses]]
        /\ \A b \in Agents, m \in Attempts :
             x[b][m] = IF b = a /\ m = n THEN status ELSE s.attempts[b][m]
    BY <2>1
  <2>3. WithAttempt(s, a, n, status) = [s EXCEPT !.attempts = x]
    BY <1>2, <2>1 DEF WithAttempt, Snapshots
  <2> HIDE DEF x
  <2>4. /\ [s EXCEPT !.attempts = x] \in Snapshots
        /\ SameButAgents(s, [s EXCEPT !.attempts = x])
        /\ [s EXCEPT !.attempts = x].agents = s.agents
        /\ [s EXCEPT !.attempts = x].error = s.error
        /\ [s EXCEPT !.attempts = x].attempts = x
    BY <2>2 DEF Snapshots, SameButAgents
  <2> QED
    BY <2>2, <2>3, <2>4 DEF Alters
<1> QED
  BY <1>1, <1>2

LEMMA WithOutcomeFacts ==
  ASSUME NEW s \in Snapshots, NEW a \in Agents,
         NEW status \in Outcomes
  PROVE  /\ WithOutcome(s, a, status) \in Snapshots
         /\ SameButAgents(s, WithOutcome(s, a, status))
         /\ WithOutcome(s, a, status).attempts = s.attempts
         /\ WithOutcome(s, a, status).agents = [s.agents EXCEPT ![a] = status]
BY DEF Snapshots, WithOutcome, SameButAgents, AgentStatuses, Outcomes

\* The events that change the status of an attempt they name.
Attempting ==
  {"agent.started", "agent.stalled", "agent.completed", "agent.failed",
   "agent.recovery_required", "agent.cancelled"}
Closers == {"agent.completed", "agent.failed", "agent.recovery_required", "agent.cancelled"}

\* What an event of an agent, other than its admission, may change.
CallChange(e, s, t) ==
  /\ t \in Snapshots /\ SameButAgents(s, t)
  /\ \A b \in Agents : b # e.agent => t.agents[b] = s.agents[b]
  /\ \A b \in Agents, m \in Attempts : b # e.agent => t.attempts[b][m] = s.attempts[b][m]
  /\ IF IsFinal(e) THEN t.agents[e.agent] \in TerminalAgent
     ELSE t.agents[e.agent] \in {s.agents[e.agent], "queued", "running"}
  /\ \A m \in Attempts :
       \/ t.attempts[e.agent][m] = s.attempts[e.agent][m]
       \/ /\ e.type \in Attempting /\ m = e.attempt
          /\ t.attempts[e.agent][m] # "absent"
          /\ e.type \in Closers => t.attempts[e.agent][m] \notin Unresolved
  /\ e.type \in {"agent.started", "agent.stalled"} =>
       t.attempts[e.agent][e.attempt] \in Unresolved
  /\ e.type \in Closers /\ e.attempt # 0 => t.attempts[e.agent][e.attempt] \notin Unresolved

\* The statuses they set.
LEMMA StatusSets ==
  /\ "queued" \in AgentStatuses /\ "running" \in AgentStatuses /\ "failed" \in AgentStatuses
  /\ "recovery_required" \in AgentStatuses /\ "cancelled" \in AgentStatuses
  /\ "running" \in AttemptStatuses /\ "stalled" \in AttemptStatuses
  /\ "completed" \in AttemptStatuses /\ "failed" \in AttemptStatuses
  /\ "recovery_required" \in AttemptStatuses /\ "cancelled" \in AttemptStatuses
  /\ "completed" \in Outcomes
BY DEF Outcomes, AgentStatuses, AttemptStatuses

\* An event that changes the agent's status alone, or one attempt too.
LEMMA StatusChange ==
  ASSUME NEW s \in Snapshots, NEW t \in Snapshots, NEW e, NEW a \in Agents, e.agent = a,
         SameButAgents(s, t), NEW g, t.agents = [s.agents EXCEPT ![a] = g],
         IF IsFinal(e) THEN g \in TerminalAgent ELSE g \in {s.agents[a], "queued", "running"},
         t.attempts = s.attempts, e.type \notin Attempting, e.type \notin Closers
  PROVE  CallChange(e, s, t)
<1>1. t.agents[a] = g /\ \A b \in Agents : b # a => t.agents[b] = s.agents[b]
  BY DEF Snapshots
<1>2. e.type \notin {"agent.started", "agent.stalled"}
  BY DEF Attempting
<1> QED
  BY <1>1, <1>2 DEF CallChange

LEMMA AttemptChange ==
  ASSUME NEW s \in Snapshots, NEW t \in Snapshots, NEW e, NEW a \in Agents, e.agent = a,
         SameButAgents(s, t), NEW g, t.agents = [s.agents EXCEPT ![a] = g],
         IF IsFinal(e) THEN g \in TerminalAgent ELSE g \in {s.agents[a], "queued", "running"},
         NEW x, e.type \in Closers => x \notin Unresolved,
         x # "absent" \/ (e.type # "agent.started" /\ x = s.attempts[a][e.attempt]),
         Alters(s, t, a, e.attempt, x),
         e.type \in Attempting, e.attempt \in AnyAttempt,
         e.type \in {"agent.started", "agent.stalled"} => e.attempt # 0 /\ x \in Unresolved
  PROVE  CallChange(e, s, t)
<1>1. t.agents[a] = g /\ \A b \in Agents : b # a => t.agents[b] = s.agents[b]
  BY DEF Snapshots
<1>2. \A b \in Agents, m \in Attempts : b # a => t.attempts[b][m] = s.attempts[b][m]
  BY DEF Alters
<1>3. /\ \A m \in Attempts : m # e.attempt => t.attempts[a][m] = s.attempts[a][m]
      /\ e.attempt # 0 => t.attempts[a][e.attempt] = x
  BY DEF Alters, AnyAttempt
<1>4. \A m \in Attempts : m # 0
  BY DEF Attempts
<1> QED
  BY <1>1, <1>2, <1>3, <1>4 DEF CallChange, AnyAttempt

\* Every event of a call but its admission makes no other change.
LEMMA CallChanges ==
  ASSUME NEW s \in Snapshots, NEW e, e.type \in CallTypes \ {"agent.admitted"},
         e.agent \in Agents,
         e.type \in Attempting => e.attempt \in AnyAttempt,
         e.type \in Attempting \ EitherEvents => e.attempt # 0,
         e.type = "agent.failed" => e.retrying \in BOOLEAN,
         e.type = "agent.reused" => e.disposition \in Outcomes
  PROVE  CallChange(e, s, Apply(s, e))
<1> SUFFICES ASSUME NEW t, t = Apply(s, e), NEW a \in Agents, e.agent = a,
                    NEW n, n = e.attempt, NEW d, d = e.disposition
             PROVE  CallChange(e, s, t)
  OBVIOUS
<1>1. /\ e.type \notin RunEvents /\ e.type \notin PhaseEvents
      /\ t = ApplyAgent(s, e)
  BY CallTypeFacts DEF Apply
<1>2. /\ s.agents \in [Agents -> AgentStatuses]
      /\ s.attempts \in [Agents -> [Attempts -> AttemptStatuses]]
      /\ s.error \in SUBSET Agents
  BY DEF Snapshots
<1>3. CASE e.type = "agent.queued"
  <2>1. t = WithAgent(s, a, "queued")
    BY <1>1, <1>3 DEF ApplyAgent, Begins
  <2>2. /\ t \in Snapshots /\ SameButAgents(s, t) /\ t.attempts = s.attempts
        /\ t.agents = [s.agents EXCEPT ![a] = "queued"]
    BY <2>1, WithAgentFacts, StatusSets
  <2>3. ~IsFinal(e) /\ e.type \notin Attempting /\ e.type \notin Closers
    BY <1>3 DEF IsFinal, Attempting, Closers
  <2> QED
    BY <2>2, <2>3, StatusChange
<1>4. CASE e.type = "agent.reused"
  <2>1. t = WithOutcome(s, a, d)
    BY <1>1, <1>4 DEF ApplyAgent, Begins
  <2>2. d \in Outcomes
    BY <1>4
  <2>3. /\ t \in Snapshots /\ SameButAgents(s, t) /\ t.attempts = s.attempts
        /\ t.agents = [s.agents EXCEPT ![a] = d]
    BY <2>1, <2>2, WithOutcomeFacts
  <2>4. IsFinal(e) /\ e.type \notin Attempting /\ e.type \notin Closers
    BY <1>4 DEF IsFinal, Attempting, Closers
  <2>5. d \in TerminalAgent
    BY <2>2 DEF TerminalAgent, Outcomes
  <2> QED
    BY <2>3, <2>4, <2>5, StatusChange
<1>5. CASE e.type = "agent.started"
  <2>1. PICK u : u = WithAgent(s, a, "running")
    OBVIOUS
  <2>2. t = WithAttempt(u, a, n, "running")
    BY <1>1, <1>5, <2>1 DEF ApplyAgent, Begins
  <2>3. /\ u \in Snapshots /\ SameButAgents(s, u) /\ u.attempts = s.attempts
        /\ u.agents = [s.agents EXCEPT ![a] = "running"]
    BY <2>1, WithAgentFacts, StatusSets
  <2>4. /\ n \in Attempts /\ n \in AnyAttempt /\ ~IsFinal(e)
        /\ e.type \in Attempting /\ e.type \notin Closers
    BY <1>5 DEF Attempting, EitherEvents, IsFinal, Closers, AnyAttempt
  <2>5. /\ t \in Snapshots /\ SameButAgents(u, t) /\ t.agents = u.agents
        /\ Alters(u, t, a, n, "running")
    BY <2>2, <2>3, <2>4, WithAttemptFacts, StatusSets
  <2>6. SameButAgents(s, t)
    BY <2>3, <2>5 DEF SameButAgents
  <2> QED
    <3>1. t.agents = [s.agents EXCEPT ![a] = "running"]
      BY <2>3, <2>5
    <3>2. Alters(s, t, a, n, "running")
      BY <2>3, <2>5 DEF Alters
    <3>3. n # 0 /\ "running" \in Unresolved
      BY <2>4 DEF Attempts, Unresolved
    <3> QED
      BY <2>4, <2>5, <2>6, <3>1, <3>2, <3>3, AttemptChange
<1>6. CASE e.type = "agent.retry_scheduled"
  <2>1. t = WithAgent(s, a, "queued")
    BY <1>1, <1>6 DEF ApplyAgent
  <2>2. /\ t \in Snapshots /\ SameButAgents(s, t) /\ t.attempts = s.attempts
        /\ t.agents = [s.agents EXCEPT ![a] = "queued"]
    BY <2>1, WithAgentFacts, StatusSets
  <2>3. ~IsFinal(e) /\ e.type \notin Attempting /\ e.type \notin Closers
    BY <1>6 DEF IsFinal, Attempting, Closers
  <2> QED
    BY <2>2, <2>3, StatusChange
<1>7. CASE e.type = "agent.completed"
  <2>1. PICK u : u = WithOutcome(s, a, "completed")
    OBVIOUS
  <2>2. t = WithAttempt(u, a, n, "completed")
    BY <1>1, <1>7, <2>1 DEF ApplyAgent
  <2>3. /\ u \in Snapshots /\ SameButAgents(s, u) /\ u.attempts = s.attempts
        /\ u.agents = [s.agents EXCEPT ![a] = "completed"]
    BY <2>1, WithOutcomeFacts, StatusSets
  <2>4. /\ n \in Attempts /\ n \in AnyAttempt /\ IsFinal(e)
        /\ e.type \in Attempting /\ e.type \in Closers
    BY <1>7 DEF Attempting, EitherEvents, IsFinal, Closers, AnyAttempt
  <2>5. /\ t \in Snapshots /\ SameButAgents(u, t) /\ t.agents = u.agents
        /\ Alters(u, t, a, n, "completed")
    BY <2>2, <2>3, <2>4, WithAttemptFacts, StatusSets
  <2>6. /\ SameButAgents(s, t) /\ "completed" \in TerminalAgent /\ "completed" \notin Unresolved
        /\ e.type \notin {"agent.started", "agent.stalled"}
    BY <1>7, <2>3, <2>5 DEF SameButAgents, TerminalAgent, Unresolved
  <2>7. Alters(s, t, a, n, "completed")
    BY <2>3, <2>5 DEF Alters
  <2>8. t.agents = [s.agents EXCEPT ![a] = "completed"]
    BY <2>3, <2>5
  <2> QED
    BY <2>4, <2>5, <2>6, <2>7, <2>8, AttemptChange
<1>8. CASE e.type = "agent.stalled"
  <2>1. t = WithAttempt(s, a, n, "stalled")
    BY <1>1, <1>8 DEF ApplyAgent
  <2>2. /\ n \in Attempts /\ n \in AnyAttempt /\ ~IsFinal(e)
        /\ e.type \in Attempting /\ e.type \notin Closers
    BY <1>8 DEF Attempting, EitherEvents, IsFinal, Closers, AnyAttempt
  <2>3. /\ t \in Snapshots /\ SameButAgents(s, t) /\ t.agents = s.agents
        /\ Alters(s, t, a, n, "stalled")
    BY <2>1, <2>2, WithAttemptFacts, StatusSets
  <2>4. /\ t.agents = [s.agents EXCEPT ![a] = s.agents[a]]
        /\ s.agents[a] \in {s.agents[a], "queued", "running"} /\ "stalled" # "absent"
        /\ n # 0 /\ "stalled" \in Unresolved
    BY <1>2, <1>8, <2>2, <2>3 DEF Unresolved, Attempts
  <2> QED
    BY <2>2, <2>3, <2>4, AttemptChange
<1>9. CASE e.type = "agent.recovery_required"
  <2>1. PICK v : v = WithAgent(s, a, "recovery_required")
    OBVIOUS
  <2>2. /\ v \in Snapshots /\ SameButAgents(s, v) /\ v.attempts = s.attempts
        /\ v.agents = [s.agents EXCEPT ![a] = "recovery_required"] /\ v.error = s.error
    BY <2>1, WithAgentFacts, StatusSets
  <2>x. PICK x : x = v.error \cup {a}
    OBVIOUS
  <2>3. PICK u : u = [v EXCEPT !.error = x]
    OBVIOUS
  <2>y. x \in SUBSET Agents
    BY <1>2, <2>2, <2>x
  <2>4. /\ u \in Snapshots /\ SameButAgents(v, u) /\ u.agents = v.agents
        /\ u.attempts = v.attempts
    BY <2>2, <2>3, <2>y, WithErrorFacts
  <2>5. t = WithAttempt(u, a, n, "recovery_required")
    <3>1. t = RequiresRecovery(s, e)
      BY <1>1, <1>9 DEF ApplyAgent
    <3> QED
      BY <3>1, <2>1, <2>3, <2>x DEF RequiresRecovery
  <2>6. /\ n \in Attempts /\ n \in AnyAttempt /\ IsFinal(e)
        /\ e.type \in Attempting /\ e.type \in Closers
    BY <1>9 DEF Attempting, EitherEvents, IsFinal, Closers, AnyAttempt
  <2>7. /\ t \in Snapshots /\ SameButAgents(u, t) /\ t.agents = u.agents
        /\ Alters(u, t, a, n, "recovery_required")
    BY <2>4, <2>5, <2>6, WithAttemptFacts, StatusSets
  <2>8. /\ SameButAgents(s, t) /\ "recovery_required" \in TerminalAgent
        /\ "recovery_required" \notin Unresolved /\ e.type \notin {"agent.started", "agent.stalled"}
    BY <1>9, <2>2, <2>4, <2>7 DEF SameButAgents, TerminalAgent, Unresolved
  <2>9. Alters(s, t, a, n, "recovery_required")
    BY <2>2, <2>4, <2>7 DEF Alters
  <2>10. t.agents = [s.agents EXCEPT ![a] = "recovery_required"]
    BY <2>2, <2>4, <2>7
  <2> QED
    BY <2>6, <2>7, <2>8, <2>9, <2>10, AttemptChange
<1>10. CASE e.type = "agent.failed"
  <2>1. PICK u : u = WithAttempt(s, a, n, "failed")
    OBVIOUS
  <2>2. n \in AnyAttempt /\ e.retrying \in BOOLEAN /\ (IsFinal(e) <=> ~e.retrying)
        /\ e.type \in Attempting /\ e.type \in Closers
    BY <1>10 DEF Attempting, IsFinal, Closers
  <2>3. /\ u \in Snapshots /\ SameButAgents(s, u) /\ u.agents = s.agents /\ u.error = s.error
        /\ Alters(s, u, a, n, "failed")
    BY <2>1, <2>2, WithAttemptFacts, StatusSets
  <2>4. PICK status : status = IF e.retrying THEN "queued" ELSE "failed"
    OBVIOUS
  <2>5. PICK v : v = WithAgent(u, a, status)
    OBVIOUS
  <2>6. PICK x : x = IF e.retrying THEN v.error \ {a} ELSE v.error \cup {a}
    OBVIOUS
  <2>7. /\ v \in Snapshots /\ SameButAgents(u, v) /\ v.attempts = u.attempts
        /\ v.agents = [u.agents EXCEPT ![a] = status] /\ v.error = s.error
    BY <2>3, <2>4, <2>5, WithAgentFacts, StatusSets
  <2>8. x \in SUBSET Agents
    BY <1>2, <2>6, <2>7
  <2>9. t = [v EXCEPT !.error = x]
    <3>1. t = FailsAgent(s, e)
      BY <1>1, <1>10 DEF ApplyAgent
    <3>2. CASE e.retrying
      <4>1. t = [WithAgent(u, a, "queued") EXCEPT !.error = @ \ {a}]
        BY <2>1, <3>1, <3>2 DEF FailsAgent
      <4>2. v = WithAgent(u, a, "queued") /\ x = v.error \ {a}
        BY <3>2, <2>4, <2>5, <2>6
      <4> QED
        BY <4>1, <4>2
    <3>3. CASE ~e.retrying
      <4>1. t = [WithAgent(u, a, "failed") EXCEPT !.error = @ \cup {a}]
        BY <2>1, <3>1, <3>3 DEF FailsAgent
      <4>2. v = WithAgent(u, a, "failed") /\ x = v.error \cup {a}
        BY <3>3, <2>4, <2>5, <2>6
      <4> QED
        BY <4>1, <4>2
    <3> QED
      BY <3>2, <3>3
  <2>10. /\ t \in Snapshots /\ SameButAgents(v, t) /\ t.attempts = v.attempts
         /\ t.agents = v.agents
    BY <2>7, <2>8, <2>9, WithErrorFacts
  <2>11. /\ SameButAgents(s, t) /\ "failed" \in TerminalAgent /\ "failed" \notin Unresolved
         /\ e.type \notin {"agent.started", "agent.stalled"} /\ "failed" # "absent"
    BY <1>10, <2>3, <2>7, <2>10 DEF SameButAgents, TerminalAgent, Unresolved
  <2>12. t.agents = [s.agents EXCEPT ![a] = status]
    BY <2>3, <2>7, <2>10
  <2>13. Alters(s, t, a, n, "failed")
    BY <2>3, <2>7, <2>10 DEF Alters
  <2>14. IF IsFinal(e) THEN status \in TerminalAgent
         ELSE status \in {s.agents[a], "queued", "running"}
    BY <2>2, <2>4, <2>11
  <2> QED
    BY <2>2, <2>10, <2>11, <2>12, <2>13, <2>14, AttemptChange
<1>11. CASE e.type = "agent.cancelled"
  <2>1. PICK u : u = IF n # 0 /\ s.attempts[a][n] \in Unresolved
                     THEN WithAttempt(s, a, n, "cancelled") ELSE s
    OBVIOUS
  <2>2. /\ n \in AnyAttempt /\ IsFinal(e)
        /\ e.type \in Attempting /\ e.type \in Closers
    BY <1>11 DEF Attempting, IsFinal, Closers
  <2>3. PICK x : x = IF n # 0
                    THEN IF s.attempts[a][n] \in Unresolved THEN "cancelled"
                         ELSE s.attempts[a][n]
                    ELSE "cancelled"
    OBVIOUS
  <2>4. /\ u \in Snapshots /\ SameButAgents(s, u) /\ u.agents = s.agents
        /\ Alters(s, u, a, n, x)
    <3>1. CASE n # 0 /\ s.attempts[a][n] \in Unresolved
      <4>1. u = WithAttempt(s, a, n, "cancelled") /\ x = "cancelled"
        BY <2>1, <2>3, <3>1
      <4> QED
        BY <4>1, <2>2, WithAttemptFacts, StatusSets
    <3>2. CASE n # 0 /\ s.attempts[a][n] \notin Unresolved
      BY <2>1, <2>3, <3>2 DEF SameButAgents, Alters
    <3>3. CASE n = 0
      BY <2>1, <3>3 DEF SameButAgents, Attempts, Alters
    <3> QED
      BY <3>1, <3>2, <3>3
  <2>5. x \notin Unresolved /\ (x # "absent" \/ x = s.attempts[a][n])
    BY <2>3 DEF Unresolved
  <2>6. t = WithAgent(u, a, "cancelled")
    <3>1. t = CancelsAgent(s, e)
      BY <1>1, <1>11 DEF ApplyAgent
    <3> QED
      BY <2>1, <3>1 DEF CancelsAgent
  <2>7. /\ t \in Snapshots /\ SameButAgents(u, t) /\ t.attempts = u.attempts
        /\ t.agents = [u.agents EXCEPT ![a] = "cancelled"]
    BY <2>4, <2>6, WithAgentFacts, StatusSets
  <2>8. /\ SameButAgents(s, t) /\ "cancelled" \in TerminalAgent
        /\ e.type \notin {"agent.started", "agent.stalled"}
    BY <1>11, <2>4, <2>7 DEF SameButAgents, TerminalAgent
  <2>9. /\ t.agents = [s.agents EXCEPT ![a] = "cancelled"]
        /\ Alters(s, t, a, n, x)
    BY <2>4, <2>7 DEF Alters
  <2> QED
    BY <2>2, <2>5, <2>7, <2>8, <2>9, AttemptChange
<1>12. CASE e.type \in {"agent.recovery_started", "agent.termination_confirmed",
                        "agent.recovery_completed"}
  <2>1. t = s
    BY <1>1, <1>12 DEF ApplyAgent
  <2>2. ~IsFinal(e) /\ e.type \notin Attempting /\ e.type \notin Closers
    BY <1>12 DEF IsFinal, Attempting, Closers
  <2> QED
    <3>1. SameButAgents(s, t) /\ t.agents = [s.agents EXCEPT ![a] = s.agents[a]]
      BY <1>2, <2>1 DEF SameButAgents
    <3> QED
      BY <2>1, <2>2, <3>1, StatusChange
<1> QED
  BY <1>3, <1>4, <1>5, <1>6, <1>7, <1>8, <1>9, <1>10, <1>11, <1>12 DEF CallTypes

-------------------------------------------------------------------------------
(* The event at the head of the queue is accepted, unless it is an admission   *)
(* that carries the index of another call.                                   *)

First(h) == h \in Pending /\ \A f \in Pending \ {h} : MayPrecede(h, f)

\* The head of an ordered queue may precede the rest of it.
LEMMA HeadFirst ==
  ASSUME Ordered(queue), queue # <<>>
  PROVE  First(Head(queue))
<1>1. queue \in Seq(EventsIn(queue))
  BY DEF Ordered
<1>2. /\ Pending = {Head(queue)} \cup EventsIn(Tail(queue))
      /\ \A f \in EventsIn(Tail(queue)) : Precedes(queue, Head(queue), f)
  BY <1>1, Dropped DEF Pending
<1> QED
  BY <1>2 DEF First, Ordered

LEMMA Typed ==
  ASSUME Ordered(queue), NEW h \in Pending
  PROVE  h.type \in RunEvents \cup PhaseEvents \cup CallTypes
BY DEF Ordered, Pending

\* What else waits of the agent, or of the phase, of the head.
LEMMA AfterHead ==
  ASSUME NEW h, First(h), NEW f \in Pending \ {h}
  PROVE  /\ h.type \in CallTypes /\ f.type \in CallTypes /\ h.agent = f.agent =>
              Rank(h.type) < Rank(f.type)
         /\ h.type \in PhaseEvents /\ f.type \in PhaseEvents /\ h.phase = f.phase =>
              Rank(h.type) < Rank(f.type)
BY DEF First, MayPrecede

\* No type is of two kinds.
LEMMA TypesApart ==
  /\ \A t \in RunEvents : t \notin PhaseEvents /\ t \notin CallTypes
  /\ \A t \in PhaseEvents : t \notin RunEvents /\ t \notin CallTypes
  /\ \A t \in RunEvents \cup PhaseEvents :
       t \notin AgentEvents /\ t \notin AttemptEvents /\ t \notin EitherEvents /\ t # "agent.started"
       /\ t # "agent.admitted"
BY DEF RunEvents, PhaseEvents, CallTypes, AgentEvents, AttemptEvents, EitherEvents

\* Events of phases, admissions with their own index, and the other call events.
LEMMA PhaseAccepted ==
  ASSUME RuntimeTypes, RunInv, ViewInv, NEW h \in Pending, h.type \in PhaseEvents
  PROVE  Accepts(view, h)
<1>1. h.phase \in Phases
  BY DEF RunInv, QueueInv, PhaseNames
<1>2. h.type = "phase.discovered" => view.phases[h.phase] = "absent"
  BY <1>1 DEF ViewInv, PhasesShown, Waits
<1>3. ASSUME h.type # "phase.discovered" PROVE view.phases[h.phase] # "absent"
  <2>1. runtime[h.phase].entered
    BY <1>1, <1>3
    DEF RunInv, QueueInv, EntriesWait, CompletionsWait, FailuresWait, Waits, PhaseEvents
  <2>2. h.phase \in Known /\ ~Waits("phase.discovered", h.phase)
    BY <1>1, <2>1 DEF RunInv, QueueInv, StateInv, PhasesFit, DiscoveriesWait
  <2> QED
    BY <1>1, <2>2 DEF ViewInv, PhasesShown
<1> QED
  BY <1>2, <1>3, TypesApart DEF Accepts, ViewInv

LEMMA AdmissionAccepted ==
  ASSUME RuntimeTypes, RunInv, ViewInv, NEW h \in Pending,
         h.type = "agent.admitted", h.callIndex = h.agent - 1
  PROVE  Accepts(view, h)
<1>1. CallFits(h) /\ h.type \in CallTypes
  BY DEF RunInv, QueueInv, CallsWait, CallTypes
<1>2. h.agent \in Agents /\ stage[h.agent] = "admitting" /\ h.phase = agentPhase[h.agent]
  BY <1>1 DEF CallFits
<1>3. ~Admitted(view, h.agent)
  BY <1>2 DEF ViewInv, AgentsShown
<1>4. ASSUME NEW b \in Agents, Admitted(view, b) PROVE view.callIndex[b] # h.callIndex
  <2>1. b # h.agent /\ b \in Nat /\ h.agent \in Nat
    BY <1>2, <1>3, <1>4, AgentNumbers
  <2>2. SUFFICES ASSUME view.callIndex[b] = h.agent - 1 PROVE FALSE
    OBVIOUS
  <2>3. view.callIndex[b] # b - 1 /\ view.callIndex[b] + 1 = h.agent
    BY <2>1, <2>2
  <2>4. Admitted(view, view.callIndex[b] + 1)
    BY <1>4, <2>3 DEF ViewInv, IndicesShown
  <2> QED
    BY <1>3, <2>3, <2>4
<1>5. ASSUME h.phase # NoPhase PROVE view.phases[h.phase] # "absent"
  <2>1. h.phase \in Phases /\ h.phase \in Known
    BY <1>2, <1>5 DEF RunInv, StateInv, CallsFit, RuntimeTypes
  <2>2. ~Waits("phase.discovered", h.phase)
    BY <1>2, <2>1 DEF RunInv, QueueInv, DiscoveriesWait
  <2> QED
    BY <2>1, <2>2 DEF ViewInv, PhasesShown
<1> QED
  BY <1>3, <1>4, <1>5
  DEF Accepts, ViewInv, PhaseEvents, AgentEvents, AttemptEvents, EitherEvents

LEMMA CallAccepted ==
  ASSUME RuntimeTypes, RunInv, ViewInv, NEW h, First(h), h.type \in CallTypes \ {"agent.admitted"}
  PROVE  Accepts(view, h)
<1>1. h \in Pending /\ CallFits(h) /\ EventShown(h)
  BY DEF RunInv, QueueInv, CallsWait, ViewInv, CallsShown, First
<1>2. h.agent \in Agents /\ Admitted(view, h.agent)
  BY <1>1 DEF CallFits, EventShown
<1>3. attempt[h.agent] \in Attempts
  BY <1>2 DEF RuntimeTypes
<1>4. ASSUME h.type = "agent.started" PROVE ~HasAttempt(view, h.agent, h.attempt)
  <2>1. stage[h.agent] = "starting" /\ h.attempt = attempt[h.agent]
    BY <1>1, <1>4 DEF CallFits
  <2>2. Asks("agent.started", h.agent)
    BY <1>1, <1>4 DEF Asks
  <2> QED
    BY <1>2, <2>1, <2>2 DEF ViewInv, AttemptsShown, AttemptShown, HasAttempt
<1>5. ASSUME h.type \in AttemptEvents PROVE HasAttempt(view, h.agent, h.attempt)
  <2>1. CASE h.type = "agent.recovery_started"
    <3>1. stage[h.agent] = "starting" /\ h.attempt = attempt[h.agent]
      BY <1>1, <2>1 DEF CallFits
    <3>2. ~Asks("agent.started", h.agent)
      <4>1. SUFFICES ASSUME NEW f \in Pending, f.type = "agent.started", f.agent = h.agent
                     PROVE  FALSE
        BY DEF Asks
      <4>2. f # h /\ f.type \in CallTypes
        BY <4>1, <2>1 DEF CallTypes
      <4>3. Rank(h.type) < Rank(f.type)
        BY <4>1, <4>2, AfterHead
      <4> QED
        BY <4>1, <4>3, <2>1, Ranks
    <3>3. view.attempts[h.agent][h.attempt] \in Unresolved
      BY <1>2, <3>1, <3>2 DEF ViewInv, AttemptsShown, AttemptShown
    <3> QED
      BY <1>2, <1>3, <3>1, <3>3 DEF HasAttempt, Unresolved
  <2>2. CASE h.type # "agent.recovery_started"
    <3>1. h.attempt = attempt[h.agent]
      BY <1>1, <1>5, <2>2 DEF CallFits, AttemptEvents, CallTypes
    <3>2. view.attempts[h.agent][h.attempt] # "absent"
      BY <1>1, <1>5, <2>2 DEF EventShown
    <3> QED
      BY <1>2, <1>3, <3>1, <3>2 DEF HasAttempt
  <2> QED
    BY <2>1, <2>2
<1>6. ASSUME h.type \in EitherEvents, h.attempt # 0 PROVE HasAttempt(view, h.agent, h.attempt)
  <2>1. h.attempt = attempt[h.agent]
    BY <1>1, <1>6 DEF CallFits, EitherEvents
  <2>2. view.attempts[h.agent][h.attempt] # "absent"
    BY <1>1, <1>6 DEF EventShown
  <2> QED
    BY <1>2, <1>3, <2>1, <2>2 DEF HasAttempt
<1> QED
  BY <1>2, <1>4, <1>5, <1>6, CallTypeFacts DEF Accepts, ViewInv

\* So the head is accepted, or is an admission with the index of another call.
LEMMA HeadAccepted ==
  ASSUME RuntimeTypes, RunInv, ViewInv, NEW h, First(h)
  PROVE  Accepts(view, h) \/ (h.type = "agent.admitted" /\ h.callIndex # h.agent - 1)
<1>1. h \in Pending /\ h.type \in RunEvents \cup PhaseEvents \cup CallTypes
  BY Typed DEF First, RunInv, QueueInv
<1>2. CASE h.type \in RunEvents
  BY <1>2, TypesApart DEF Accepts, ViewInv
<1> QED
  BY <1>1, <1>2, PhaseAccepted, AdmissionAccepted, CallAccepted

\* Which branch of the reducer an event takes.
LEMMA RunApplied ==
  ASSUME NEW s, NEW h, h.type \in RunEvents
  PROVE  Apply(s, h) = ApplyRun(s, h.type)
BY TypesApart DEF Apply

LEMMA PhaseApplied ==
  ASSUME NEW s, NEW h, h.type \in PhaseEvents
  PROVE  Apply(s, h) = [s EXCEPT !.phases[h.phase] = PhaseStatusAfter[h.type]]
BY TypesApart DEF Apply

WithAdmission(s, h) ==
  [s EXCEPT !.agents[h.agent] = "admitted", !.callIndex[h.agent] = h.callIndex,
            !.phaseOf[h.agent] = h.phase]

LEMMA AdmissionApplied ==
  ASSUME NEW s, NEW h, h.type = "agent.admitted"
  PROVE  Apply(s, h) = WithAdmission(s, h)
BY DEF Apply, RunEvents, PhaseEvents, WithAdmission

-------------------------------------------------------------------------------
(* A call event that is not an agent's last is handled.                       *)

\* A call event that fits its call changes what CallChange says.
LEMMA CallApplied ==
  ASSUME RuntimeTypes, view \in Snapshots, NEW h, CallFits(h),
         h.type \in CallTypes \ {"agent.admitted"}
  PROVE  CallChange(h, view, Apply(view, h))
<1>1. h.agent \in Agents /\ attempt[h.agent] \in Attempts
  BY DEF CallFits, RuntimeTypes
<1>2. h.type \in Attempting => h.attempt \in {0, attempt[h.agent]}
  BY DEF CallFits, Attempting
<1>3. h.type \in Attempting => h.attempt \in AnyAttempt
  BY <1>1, <1>2 DEF AnyAttempt
<1>4. h.type \in Attempting \ EitherEvents => h.attempt # 0
  BY <1>1 DEF CallFits, Attempting, EitherEvents, Attempts
<1>5. /\ h.type = "agent.failed" => h.retrying \in BOOLEAN
      /\ h.type = "agent.reused" => h.disposition \in Outcomes
  BY DEF CallFits, Outcomes
<1> QED
  BY <1>1, <1>3, <1>4, <1>5, CallChanges

\* What Replays does with one event.
LEMMA OneReplayed ==
  ASSUME NEW h, Replays(<<h>>)
  PROVE  /\ rejected # NoEvent => rejected' = rejected /\ view' = view
         /\ rejected = NoEvent /\ Accepts(view, h) =>
              rejected' = NoEvent /\ view' = Apply(view, h)
         /\ rejected = NoEvent /\ ~Accepts(view, h) => rejected' = h /\ view' = view
<1>1. Head(<<h>>) = h /\ Len(<<h>>) = 1
  OBVIOUS
<1> QED
  BY <1>1 DEF Replays

\* What a handled call event leaves of the queue.
LEMMA CallStep ==
  ASSUME RuntimeTypes, view \in Snapshots, RunInv, NEW h, NEW phases, Handled(h, <<>>, phases),
         h.type \in CallTypes \ {"agent.admitted"}
  PROVE  /\ First(h) /\ CallFits(h) /\ h.agent \in Agents
         /\ Ordered(queue)' /\ Pending' = Pending \ {h}
         /\ OnlyCalls /\ publishing /\ up' = up
         /\ \A b \in Agents : Asks("agent.admitted", b)' <=> Asks("agent.admitted", b)
         /\ \A f \in Pending' : f.type \in CallTypes /\ f.agent = h.agent =>
              Rank(h.type) < Rank(f.type)
<1>1. /\ h \in Pending
      /\ Ordered(queue)' /\ Pending' = Pending \ {h}
      /\ \A f \in Pending \ {h} : MayPrecede(h, f)
  BY HandledAlone DEF RunInv, QueueInv
<1>2. First(h) /\ CallFits(h)
  BY <1>1 DEF First, RunInv, QueueInv, CallsWait
<1>3. OnlyCalls
  BY <1>1 DEF OnlyCalls
<1>4. \A b \in Agents : Asks("agent.admitted", b)' <=> Asks("agent.admitted", b)
  BY <1>1 DEF Asks
<1>5. h.agent \in Agents
  BY <1>2 DEF CallFits
<1>6. \A f \in Pending' : f.type \in CallTypes /\ f.agent = h.agent => Rank(h.type) < Rank(f.type)
  BY <1>1, <1>2, AfterHead
<1>7. publishing /\ up' = up
  BY DEF Handled
<1> QED
  BY <1>1, <1>2, <1>3, <1>4, <1>5, <1>6, <1>7

\* What it shows of the others is left as it is.
LEMMA OtherAttempts ==
  ASSUME RuntimeTypes, ViewInv, NEW b \in Agents,
         stage'[b] = stage[b], attempt'[b] = attempt[b], b \in ended' <=> b \in ended,
         \A m \in Attempts : view'.attempts[b][m] = view.attempts[b][m],
         \A t : Asks(t, b)' <=> Asks(t, b)
  PROVE  AttemptShown(b)'
<1>1. attempt[b] \in Attempts
  BY DEF RuntimeTypes
<1>2. AttemptShown(b)
  BY DEF ViewInv, AttemptsShown
<1> QED
  BY <1>1, <1>2 DEF AttemptShown

\* The events of other agents are shown as before.
LEMMA OtherEvents ==
  ASSUME RuntimeTypes, RunInv, ViewInv, NEW a \in Agents,
         NEW e \in Pending, e.type \in CallTypes, e.agent # a,
         \A b \in Agents \ {a} : attempt'[b] = attempt[b],
         \A b \in Agents \ {a}, m \in Attempts : view'.attempts[b][m] = view.attempts[b][m],
         \A b \in Agents : Admitted(view', b) <=> Admitted(view, b),
         \A b \in Agents : Asks("agent.admitted", b)' <=> Asks("agent.admitted", b)
  PROVE  EventShown(e)'
<1>1. EventShown(e) /\ CallFits(e)
  BY DEF ViewInv, CallsShown, RunInv, QueueInv, CallsWait
<1>2. PICK b \in Agents \ {a} : b = e.agent
  BY <1>1 DEF CallFits
<1>3. attempt'[b] = attempt[b] /\ attempt[b] \in Attempts
  BY DEF RuntimeTypes
<1>4. e.type \in AttemptEvents \cup EitherEvents => e.attempt \in {0, attempt[b]}
  BY <1>1, <1>2 DEF CallFits, AttemptEvents, EitherEvents, CallTypes
<1>5. \A m \in Attempts : view'.attempts[b][m] = view.attempts[b][m]
  OBVIOUS
<1>6. e.type # "agent.admitted" => Admitted(view', e.agent)
  BY <1>1, <1>2, <1>5 DEF EventShown
<1>7. e.type = "agent.admitted" => e.type \notin AttemptEvents \cup EitherEvents
  BY DEF AttemptEvents, EitherEvents
<1>8. e.type = "agent.admitted" => EventShown(e)'
  BY <1>1, <1>7, <1>5, <1>6 DEF EventShown
<1>9. e.type \in AttemptEvents \ {"agent.recovery_started"} =>
        e.attempt = attempt[b] /\ view'.attempts[b][e.attempt] = view.attempts[b][e.attempt]
  BY <1>1, <1>2, <1>3, <1>5 DEF CallFits, AttemptEvents, CallTypes
<1>10. e.type \in EitherEvents /\ e.attempt # 0 =>
         view'.attempts[b][e.attempt] = view.attempts[b][e.attempt]
  BY <1>3, <1>4, <1>5
<1>11. e.type = "agent.stalled" => e.type \in AttemptEvents \ {"agent.recovery_started"}
  BY DEF AttemptEvents
<1> QED
  BY <1>1, <1>2, <1>3, <1>5, <1>6, <1>8, <1>9, <1>10, <1>11 DEF EventShown

\* What the snapshot must show when the call of the event moves on.
LEMMA CallHandledShown ==
  ASSUME RuntimeTypes, view \in Snapshots, RunInv, ViewInv, NEW h, NEW a \in Agents, h.agent = a,
         h.type \in CallTypes \ {"agent.admitted"}, ~IsFinal(h), First(h), CallFits(h),
         Pending' = Pending \ {h}, view' = Apply(view, h),
         UNCHANGED <<runtime, known, inner, agentPhase, ended>>,
         \A b \in Agents \ {a} : stage'[b] = stage[b] /\ attempt'[b] = attempt[b],
         \/ stage'[a] = stage[a]
         \/ stage[a] \in Working \cup {"queueing"} /\ stage'[a] \in Working,
         CallChange(h, view, view') => AttemptShown(a)',
         \A e \in Pending' : e.type \in CallTypes /\ e.agent = a /\ CallChange(h, view, view') =>
           EventShown(e)'
  PROVE  ViewInv'
<1>1. CallChange(h, view, view')
  BY CallApplied
<1>2. h \in Pending /\ a \notin ended /\ Admitted(view, a)
  BY DEF First, CallFits, ViewInv, CallsShown, EventShown
<1>3. /\ view' \in Snapshots /\ view'.status = view.status /\ view'.phases = view.phases
      /\ view'.callIndex = view.callIndex /\ view'.phaseOf = view.phaseOf
      /\ \A b \in Agents \ {a} : view'.agents[b] = view.agents[b]
      /\ \A b \in Agents \ {a}, m \in Attempts : view'.attempts[b][m] = view.attempts[b][m]
      /\ view'.agents[a] \in {view.agents[a], "queued", "running"}
  BY <1>1 DEF CallChange, SameButAgents
<1>4. /\ view.agents[a] \notin TerminalAgent /\ view'.agents[a] \notin TerminalAgent
      /\ Admitted(view', a)
  BY <1>2, <1>3 DEF ViewInv, AgentsShown, TerminalAgent, Admitted
<1>5. \A b \in Agents : Admitted(view', b) <=> Admitted(view, b)
  BY <1>2, <1>3, <1>4 DEF Admitted
<1>6. OnlyCalls /\ \A b \in Agents : Asks("agent.admitted", b)' <=> Asks("agent.admitted", b)
  BY DEF OnlyCalls, Asks
<1>7. PhasesShown'
  <2>1. \A t \in PhaseEvents, p \in Phases : Waits(t, p)' <=> Waits(t, p)
    BY <1>6, OnlyCallsKeep
  <2> QED
    BY <2>1, <1>3 DEF ViewInv, PhasesShown, Known, PhaseEvents
<1>8. AgentsShown'
  <2>1. ASSUME NEW b \in Agents \ {a}
        PROVE  /\ stage'[b] \in {"idle", "discovering", "admitting"} => ~Admitted(view', b)
               /\ stage'[b] \in {"queueing", "answering"} \cup Working => Admitted(view', b)
               /\ b \in inner' /\ stage'[b] # "admitting" => Admitted(view', b)
               /\ Admitted(view', b) => view'.phaseOf[b] = agentPhase'[b]
               /\ b \in ended' <=> view'.agents[b] \in TerminalAgent
    BY <1>3, <1>5 DEF ViewInv, AgentsShown
  <2>2. /\ stage'[a] \notin {"idle", "discovering", "admitting"}
        /\ view'.phaseOf[a] = agentPhase'[a]
    BY <1>2, <1>3 DEF ViewInv, AgentsShown, Working
  <2> QED
    BY <2>1, <2>2, <1>2, <1>4 DEF AgentsShown
<1>9. IndicesShown'
  BY <1>3, <1>5 DEF ViewInv, IndicesShown
<1>10. AttemptsShown'
  <2>1. ASSUME NEW b \in Agents \ {a} PROVE AttemptShown(b)'
    <3>1. \A t : Asks(t, b)' <=> Asks(t, b)
      BY DEF Asks
    <3> QED
      BY <3>1, <1>3, OtherAttempts
  <2> QED
    BY <2>1, <1>1 DEF AttemptsShown
<1>11. CallsShown'
  <2>1. ASSUME NEW e \in Pending', e.type \in CallTypes, e.agent # a PROVE EventShown(e)'
    BY <2>1, <1>3, <1>5, <1>6, OtherEvents
  <2> QED
    BY <2>1, <1>1 DEF CallsShown
<1>12. view'.status \notin TerminalRun
  BY <1>3 DEF ViewInv
<1> QED
  BY <1>7, <1>8, <1>9, <1>10, <1>11, <1>12 DEF ViewInv

-------------------------------------------------------------------------------
(* Passes: an event nobody waits for.                                        *)

\* An event of no phase and no admission may leave the queue at any time.
LEMMA PassesRuns ==
  ASSUME RuntimeTypes, RunInv, NEW h, Pending' = Pending \ {h}, Ordered(queue)',
         h.type \notin PhaseEvents, h.type # "agent.admitted",
         UNCHANGED <<up, runVars, phaseVars, agentVars>>
  PROVE  RunInv' /\ RuntimeTypes'
<1> USE DEF runVars, phaseVars, agentVars
<1>1. \A e \in Pending' : e \in Pending
  OBVIOUS
<1>2. \A t \in PhaseEvents, p \in Phases : Waits(t, p)' <=> Waits(t, p)
  BY DEF Waits
<1>3. \A b \in Agents : Asks("agent.admitted", b)' <=> Asks("agent.admitted", b)
  BY DEF Asks
<1>4. CallsWait' /\ PhaseNames'
  BY <1>1 DEF RunInv, QueueInv, CallsWait, CallFits, PhaseNames
<1>5. RunWaits'
  <2>1. \A t : WaitsRun(t)' => WaitsRun(t)
    BY <1>1 DEF WaitsRun
  <2> QED
    BY <2>1 DEF RunInv, QueueInv, RunWaits, aborted
<1>6. DiscoveriesWait'
  BY <1>2 DEF RunInv, QueueInv, DiscoveriesWait, Discovering, Outer, Known, PhaseEvents
<1>7. EntriesWait' /\ CompletionsWait' /\ FailuresWait'
  BY <1>2 DEF RunInv, QueueInv, EntriesWait, CompletionsWait, FailuresWait, PhaseEvents
<1>8. ControlFits' /\ PhasesFit' /\ TurnFits' /\ ChildFits' /\ MainFits'
  BY DEF RunInv, StateInv, ControlFits, PhasesFit, TurnFits, ChildFits, MainFits, aborted, Known,
         Busy, Outer
<1>9. CallsFit' /\ StagesFit' /\ OneAccepted' /\ CountsFit'
  BY <1>3 DEF RunInv, StateInv, CallsFit, StagesFit, OneAccepted, CountsFit, aborted, Known, Outer
<1>10. RuntimeTypes'
  BY DEF RuntimeTypes
<1> QED
  BY <1>4, <1>5, <1>6, <1>7, <1>8, <1>9, <1>10 DEF RunInv, QueueInv, StateInv

\* A new status of the run that is not its end.
LEMMA StatusShown ==
  ASSUME RuntimeTypes, view \in Snapshots, ViewInv, NEW x, x \notin TerminalRun,
         view' = [view EXCEPT !.status = x],
         \A e : e.type \notin RunEvents => (e \in Pending' <=> e \in Pending),
         UNCHANGED <<runtime, known, inner, agentPhase, ended, stage, attempt>>
  PROVE  ViewInv'
<1>1. /\ view'.status = x /\ view'.phases = view.phases /\ view'.agents = view.agents
      /\ view'.attempts = view.attempts /\ view'.phaseOf = view.phaseOf
      /\ view'.callIndex = view.callIndex
  BY DEF Snapshots
<1>2. /\ \A t \in PhaseEvents, p \in Phases : Waits(t, p)' <=> Waits(t, p)
      /\ \A t \in CallTypes, b \in Agents \cup Nat : Asks(t, b)' <=> Asks(t, b)
  BY TypesApart DEF Waits, Asks
<1>3. PhasesShown'
  BY <1>1, <1>2 DEF ViewInv, PhasesShown, Known, PhaseEvents
<1>4. AgentsShown' /\ IndicesShown'
  BY <1>1 DEF ViewInv, AgentsShown, IndicesShown, Admitted
<1>5. AttemptsShown'
  BY <1>1, <1>2 DEF ViewInv, AttemptsShown, AttemptShown, CallTypes
<1>6. CallsShown'
  <2>1. ASSUME NEW e \in Pending', e.type \in CallTypes PROVE EventShown(e)'
    <3>1. EventShown(e)
      BY <2>1, TypesApart DEF ViewInv, CallsShown
    <3> QED
      BY <3>1, <1>1, <1>2 DEF EventShown, Admitted, CallTypes
  <2> QED
    BY <2>1 DEF CallsShown
<1> QED
  BY <1>1, <1>3, <1>4, <1>5, <1>6 DEF ViewInv

\* An event of an attempt passes: the others of its agent that wait, and the attempt.
LEMMA PassingShown ==
  ASSUME RuntimeTypes, view \in Snapshots, RunInv, ViewInv, NEW h, NEW a \in Agents, h.agent = a,
         Passing(h), h.type \in CallTypes, First(h), CallFits(h), Pending' = Pending \ {h},
         UNCHANGED <<stage, attempt, ended>>, CallChange(h, view, view')
  PROVE  /\ AttemptShown(a)'
         /\ \A e \in Pending' : e.type \in CallTypes /\ e.agent = a => EventShown(e)'
<1>0. PICK n : n = attempt[a]
  OBVIOUS
<1>1. /\ h \in Pending /\ EventShown(h) /\ AttemptShown(a) /\ Admitted(view, a) /\ a \notin ended
      /\ n \in Attempts
  BY <1>0
  DEF First, ViewInv, CallsShown, AttemptsShown, EventShown, Passing, CallFits, RuntimeTypes
<1>2. /\ h.attempt = n /\ h.type # "agent.admitted" /\ ~IsFinal(h)
  BY <1>0 DEF Passing, CallFits, IsFinal, CallTypes
<1>3. /\ \A m \in Attempts : m # n => view'.attempts[a][m] = view.attempts[a][m]
      /\ Admitted(view', a)
  BY <1>1, <1>2 DEF CallChange, Admitted
<1>4. \A e \in Pending' : e.type \in CallTypes /\ e.agent = a => Rank(h.type) < Rank(e.type)
  BY AfterHead
<1>5. \A e \in Pending' : e.type \in CallTypes /\ e.agent = a =>
        e \in Pending /\ CallFits(e) /\ EventShown(e)
  BY DEF RunInv, QueueInv, CallsWait, ViewInv, CallsShown
<1>6. \A t : t # h.type => (Asks(t, a)' <=> Asks(t, a))
  BY DEF Asks
<1>7. ~Asks(h.type, a)'
  BY <1>4, RankNat DEF Asks
<1>n. \A m \in Attempts : m < n \/ n < m => m # n
  BY <1>1 DEF Attempts
<1>8. CASE h.type = "agent.stalled"
  <2>1. view.attempts[a][n] \in Unresolved /\ view'.attempts[a][n] \in Unresolved
    BY <1>1, <1>2, <1>8 DEF EventShown, CallChange
  <2>2. stage[a] \in {"confirming", "retrying", "finishing", "over"}
    BY <1>8 DEF CallFits
  <2>3. AttemptShown(a)'
    <3>1. stage[a] = "retrying" => Asks("agent.failed", a)'
      BY <1>0, <1>1, <1>6, <1>8, <2>1 DEF AttemptShown
    <3>2. stage[a] \notin {"idle", "waiting", "starting"} \cup Accepting
      BY <2>2 DEF Accepting
    <3> QED
      BY <1>0, <1>1, <1>3, <1>n, <2>1, <3>1, <3>2 DEF AttemptShown, Unresolved
  <2>4. ASSUME NEW e \in Pending', e.type \in CallTypes, e.agent = a PROVE EventShown(e)'
    <3>1. e.type \notin {"agent.admitted", "agent.stalled"}
      BY <1>4, <1>8, <2>4, Ranks
    <3>2. e.type \in EitherEvents => e.attempt = n
      BY <1>0, <1>5, <2>1, <2>4 DEF CallFits, EventShown, EitherEvents
    <3>3. e.type \in AttemptEvents \ {"agent.recovery_started"} => e.attempt = n
      BY <1>0, <1>5, <2>4 DEF CallFits, AttemptEvents, CallTypes
    <3>4. n # 0 /\ view'.attempts[a][n] # "absent"
      BY <1>1, <2>1 DEF Unresolved, Attempts
    <3> QED
      BY <1>1, <1>3, <2>4, <3>1, <3>2, <3>3, <3>4 DEF EventShown
  <2> QED
    BY <2>3, <2>4
<1>9. CASE h.type \in {"agent.recovery_completed", "agent.termination_confirmed"}
  <2>1. h.type \notin Attempting
    BY <1>9 DEF Attempting
  <2>2. \A m \in Attempts : view'.attempts[a][m] = view.attempts[a][m]
    BY <1>2, <2>1 DEF CallChange
  <2>3. AttemptShown(a)'
    BY <1>0, <1>1, <1>6, <1>9, <2>2 DEF AttemptShown
  <2>4. ASSUME NEW e \in Pending', e.type \in CallTypes, e.agent = a PROVE EventShown(e)'
    <3>1. e.type \notin {"agent.admitted", "agent.stalled"}
      BY <1>4, <1>9, <2>4, Ranks
    <3>2. e.type \in EitherEvents => e.attempt \in {0, n}
      BY <1>0, <1>5, <2>4 DEF CallFits, EitherEvents
    <3>3. e.type \in AttemptEvents \ {"agent.recovery_started"} => e.attempt = n
      BY <1>0, <1>5, <2>4 DEF CallFits, AttemptEvents, CallTypes
    <3> QED
      BY <1>0, <1>1, <1>3, <1>5, <2>2, <2>4, <3>1, <3>2, <3>3 DEF EventShown
  <2> QED
    BY <2>3, <2>4
<1>10. CASE h.type = "agent.started"
  <2>1. view'.attempts[a][n] \in Unresolved /\ stage[a] = "starting" /\ ~Asks("agent.started", a)'
    BY <1>2, <1>7, <1>10 DEF CallChange, CallFits
  <2>2. AttemptShown(a)'
    BY <1>0, <1>1, <1>3, <1>n, <2>1 DEF AttemptShown, Open, Accepting
  <2>3. ASSUME NEW e \in Pending', e.type \in CallTypes, e.agent = a PROVE EventShown(e)'
    <3>0. e.type \in {"agent.started", "agent.recovery_started"}
      BY <1>5, <2>1, <2>3 DEF CallFits, CallTypes
    <3>1. e.type = "agent.recovery_started"
      BY <1>4, <1>10, <2>3, <3>0, Ranks
    <3> QED
      BY <1>3, <2>3, <3>1 DEF EventShown, EitherEvents
  <2> QED
    BY <2>2, <2>3
<1>11. CASE h.type = "agent.failed"
  <2>1. stage[a] = "retrying" /\ n # 0
    BY <1>1, <1>11 DEF Passing, CallFits, Attempts
  <2>2. view'.attempts[a][n] \notin Unresolved
    BY <1>1, <1>2, <1>11, <2>1 DEF CallChange, Closers
  <2>3. AttemptShown(a)'
    BY <1>0, <1>1, <1>3, <1>n, <2>1, <2>2 DEF AttemptShown, Open, Accepting
  <2>4. ASSUME NEW e \in Pending', e.type \in CallTypes, e.agent = a PROVE EventShown(e)'
    <3>1. e.type = "agent.retry_scheduled"
      BY <1>4, <1>11, <2>4, Ranks DEF CallTypes
    <3> QED
      BY <1>3, <2>4, <3>1 DEF EventShown, AttemptEvents, EitherEvents
  <2> QED
    BY <2>3, <2>4
<1> QED
  BY <1>8, <1>9, <1>10, <1>11 DEF Passing, CallTypes

LEMMA PassesKeeps ==
  ASSUME RuntimeTypes, view \in Snapshots, RunInv, Passes
  PROVE  /\ RunInv' /\ RuntimeTypes'
         /\ ViewInv /\ rejected = NoEvent /\ rejected' = NoEvent => ViewInv'
<1>1. PICK h : h = Head(queue)
  OBVIOUS
<1>2. /\ Passing(h) /\ Handled(h, <<>>, runtime) /\ ~IsFinal(h)
      /\ UNCHANGED <<runVars, turn, child, current, known, sequence, inner, agentPhase, stage,
                     attempt>>
  BY <1>1 DEF Passes, Passing, IsFinal
<1>3. ended' = ended /\ runtime' = runtime /\ Replays(<<h>>) /\ up' = up
  BY <1>2, HandledNotFinal DEF Handled
<1>4. Ordered(queue)' /\ Pending' = Pending \ {h}
  BY <1>2, HandledAlone DEF RunInv, QueueInv
<1>5. h.type \notin PhaseEvents /\ h.type # "agent.admitted"
  BY <1>2 DEF Passing, PhaseEvents
<1>6. RunInv' /\ RuntimeTypes'
  BY <1>2, <1>3, <1>4, <1>5, PassesRuns DEF phaseVars, agentVars
<1>7. ASSUME ViewInv, rejected = NoEvent, rejected' = NoEvent PROVE ViewInv'
  <2>1. CASE h.type = "run.cancellation_requested"
    <3>1. Accepts(view, h) /\ h.type \in RunEvents /\ h.type \notin CallTypes
      BY <1>7, <2>1, TypesApart DEF Accepts, ViewInv, RunEvents
    <3>2. view' = Apply(view, h)
      BY <1>3, <1>7, <3>1, OneReplayed
    <3>3. view' = [view EXCEPT !.status = "cancellation_requested"]
      <4>1. Apply(view, h) = ApplyRun(view, h.type)
        BY <3>1, RunApplied
      <4> QED
        BY <2>1, <3>2, <4>1 DEF ApplyRun
    <3>4. "cancellation_requested" \notin TerminalRun
      BY DEF TerminalRun
    <3> QED
      BY <1>2, <1>3, <1>4, <1>7, <3>1, <3>3, <3>4, StatusShown
  <2>2. CASE h.type # "run.cancellation_requested"
    <3>1. h.type \in CallTypes \ {"agent.admitted"}
      BY <1>2, <2>2 DEF Passing, CallTypes
    <3>2. First(h) /\ CallFits(h) /\ h.agent \in Agents
      BY <1>2, <3>1, CallStep
    <3>3. Accepts(view, h)
      BY <1>7, <3>1, <3>2, CallAccepted
    <3>4. view' = Apply(view, h)
      BY <1>3, <1>7, <3>3, OneReplayed
    <3>5. PICK a \in Agents : a = h.agent
      BY <3>2
    <3>6. CallChange(h, view, view')
      BY <3>1, <3>2, <3>4, CallApplied
    <3>7. /\ AttemptShown(a)'
          /\ \A e \in Pending' : e.type \in CallTypes /\ e.agent = a => EventShown(e)'
      BY <1>2, <1>3, <1>4, <1>7, <3>1, <3>2, <3>5, <3>6, PassingShown
    <3> QED
      BY <1>2, <1>3, <1>4, <1>7, <3>1, <3>2, <3>4, <3>5, <3>7, CallHandledShown
  <2> QED
    BY <2>1, <2>2
<1> QED
  BY <1>6, <1>7

-------------------------------------------------------------------------------
(* A call goes on with its task.                                             *)

\* A task's event is handled, and the task moves on.
LEMMA CallMoves ==
  ASSUME RuntimeTypes, view \in Snapshots, RunInv, NEW h, NEW a \in Agents, h.agent = a,
         Handled(h, <<>>, runtime), ~IsFinal(h), h.type \in CallTypes \ {"agent.admitted"},
         NEW s \in Working \ {"retrying"}, stage[a] \in Working \cup {"queueing"}, Moves(a, s),
         UNCHANGED <<runVars, turn, child, current, known, sequence, inner, agentPhase>>,
         attempt' \in [Agents -> Attempts], \A b \in Agents \ {a} : attempt'[b] = attempt[b],
         \A e \in Pending \ {h} : e.type \in CallTypes => e.agent # a,
         ViewInv /\ CallChange(h, view, view') => AttemptShown(a)'
  PROVE  /\ RunInv' /\ RuntimeTypes'
         /\ ViewInv /\ rejected = NoEvent /\ rejected' = NoEvent => ViewInv'
<1>1. /\ First(h) /\ CallFits(h)
      /\ Ordered(queue)' /\ Pending' = Pending \ {h}
      /\ OnlyCalls /\ up' = up
      /\ \A b \in Agents : Asks("agent.admitted", b)' <=> Asks("agent.admitted", b)
  BY CallStep
<1>2. ended' = ended /\ runtime' = runtime /\ Replays(<<h>>)
  BY HandledNotFinal
<1>3. /\ stage' = [stage EXCEPT ![a] = s] /\ stage'[a] = s
      /\ \A b \in Agents \ {a} : stage'[b] = stage[b]
      /\ s # "discovering" /\ s # "retrying"
  BY DEF Moves, RuntimeTypes, Working
<1>4. CallsWait'
  <2>1. ASSUME NEW e \in Pending', e.type \in CallTypes PROVE CallFits(e)'
    <3>1. e \in Pending /\ e.agent # a
      BY <1>1, <2>1
    <3>2. /\ CallsWait /\ sequence \in 0..Cardinality(Agents)
          /\ stage \in [Agents -> {"idle", "over"} \cup Accepting \cup Working]
      BY DEF RunInv, QueueInv, RuntimeTypes
    <3> QED
      BY <1>2, <1>3, <2>1, <3>1, <3>2, OthersFit
  <2> QED
    BY <2>1 DEF CallsWait
<1>5. RunInv' /\ RuntimeTypes'
  <2>1. UNCHANGED <<up, runVars, phaseVars, sequence, inner, agentPhase, ended>>
    BY <1>1, <1>2 DEF phaseVars
  <2> QED
    BY <1>1, <1>3, <1>4, <2>1, TaskMoves
<1>6. ASSUME ViewInv, rejected = NoEvent, rejected' = NoEvent PROVE ViewInv'
  <2>1. Accepts(view, h)
    BY <1>1, <1>6, CallAccepted
  <2>2. view' = Apply(view, h)
    BY <1>2, <1>6, <2>1, OneReplayed
  <2>3. CallChange(h, view, view')
    BY <1>1, <2>2, CallApplied
  <2>4. AttemptShown(a)'
    BY <1>6, <2>3
  <2>5. \A e \in Pending' : e.type \in CallTypes /\ e.agent = a => EventShown(e)'
    BY <1>1
  <2>6. stage[a] \in Working \cup {"queueing"} /\ stage'[a] \in Working
    BY <1>3
  <2> QED
    BY <1>1, <1>2, <1>3, <1>6, <2>2, <2>4, <2>5, <2>6, CallHandledShown
<1> QED
  BY <1>5, <1>6

\* agent.queued, agent.started and agent.retry_scheduled, which a task awaits.
LEMMA QueuedKeeps ==
  ASSUME RuntimeTypes, view \in Snapshots, RunInv, NEW a \in Agents, Answered(a),
         stage[a] = "queueing"
  PROVE  /\ RunInv' /\ RuntimeTypes'
         /\ ViewInv /\ rejected = NoEvent /\ rejected' = NoEvent => ViewInv'
<1>1. PICK h : h = Head(queue)
  OBVIOUS
<1>2. /\ h.agent = a /\ h.type = "agent.queued" /\ Moves(a, "waiting")
      /\ Handled(h, <<>>, runtime)
      /\ UNCHANGED <<runVars, turn, child, current, known, sequence, inner, agentPhase, attempt>>
  BY <1>1 DEF Answered, acceptKept
<1>3. /\ h.type \in CallTypes \ {"agent.admitted"} /\ ~IsFinal(h)
      /\ "waiting" \in Working \ {"retrying"}
  BY <1>2 DEF CallTypes, IsFinal, Working
<1>4. attempt' \in [Agents -> Attempts] /\ attempt' = attempt
  BY <1>2 DEF RuntimeTypes
<1>5. \A e \in Pending \ {h} : e.type \in CallTypes => e.agent # a
  <2>1. SUFFICES ASSUME NEW e \in Pending \ {h}, e.type \in CallTypes, e.agent = a PROVE FALSE
    OBVIOUS
  <2>2. First(h)
    BY <1>2, <1>3, CallStep
  <2>3. Rank(h.type) < Rank(e.type)
    BY <1>2, <1>3, <2>1, <2>2, AfterHead
  <2>4. e.type = "agent.queued"
    BY <2>1 DEF RunInv, QueueInv, CallsWait, CallFits, CallTypes
  <2> QED
    BY <1>2, <2>3, <2>4, Ranks
<1>6. ASSUME ViewInv, CallChange(h, view, view') PROVE AttemptShown(a)'
  <2>1. h.type \notin Attempting
    BY <1>2 DEF Attempting
  <2>2. \A m \in Attempts : view'.attempts[a][m] = view.attempts[a][m]
    BY <1>2, <1>6, <2>1 DEF CallChange
  <2>3. stage'[a] = "waiting" /\ stage[a] \in Accepting /\ AttemptShown(a) /\ a \notin ended
    BY <1>2, <1>6
    DEF Moves, RuntimeTypes, Accepting, ViewInv, AttemptsShown, RunInv, StateInv, StagesFit
  <2>4. ended' = ended /\ attempt[a] \in Attempts
    BY <1>2, <1>3, HandledNotFinal DEF RuntimeTypes
  <2> QED
    BY <1>4, <2>2, <2>3, <2>4 DEF AttemptShown, Open, Accepting
<1> QED
  BY <1>2, <1>3, <1>4, <1>5, <1>6, CallMoves

LEMMA StartedKeeps ==
  ASSUME RuntimeTypes, view \in Snapshots, RunInv, NEW a \in Agents, TaskGoesOn(a),
         stage[a] = "starting"
  PROVE  /\ RunInv' /\ RuntimeTypes'
         /\ ViewInv /\ rejected = NoEvent /\ rejected' = NoEvent => ViewInv'
<1>1. PICK h : h = Head(queue)
  OBVIOUS
<1>2. /\ h = This(a, IF attempt[a] = 1 THEN "agent.started" ELSE "agent.recovery_started")
      /\ Moves(a, "running") /\ Handled(h, <<>>, runtime)
      /\ UNCHANGED <<runVars, turn, child, current, known, sequence, inner, agentPhase, attempt>>
  BY <1>1 DEF TaskGoesOn
<1>3. /\ h.agent = a /\ h.attempt = attempt[a]
      /\ h.type = IF attempt[a] = 1 THEN "agent.started" ELSE "agent.recovery_started"
  BY <1>2 DEF This, AttemptEvent
<1>4. /\ h.type \in CallTypes \ {"agent.admitted"} /\ ~IsFinal(h)
      /\ "running" \in Working \ {"retrying"} /\ stage[a] \in Working \cup {"queueing"}
  BY <1>3 DEF CallTypes, IsFinal, Working
<1>5. attempt' \in [Agents -> Attempts] /\ attempt' = attempt /\ attempt[a] \in Attempts
  BY <1>2 DEF RuntimeTypes
<1>6. First(h)
  BY <1>2, <1>4, CallStep
<1>7. \A e \in Pending \ {h} : e.type \in CallTypes => e.agent # a
  <2>1. SUFFICES ASSUME NEW e \in Pending \ {h}, e.type \in CallTypes, e.agent = a PROVE FALSE
    OBVIOUS
  <2>2. Rank(h.type) < Rank(e.type)
    BY <1>3, <1>4, <1>6, <2>1, AfterHead
  <2>3. CallFits(e)
    BY <2>1 DEF RunInv, QueueInv, CallsWait
  <2>4. /\ e.type \in {"agent.started", "agent.recovery_started"}
        /\ e.type = "agent.recovery_started" => attempt[a] > 1
    BY <2>1, <2>3 DEF CallFits, CallTypes
  <2> QED
    BY <1>3, <2>2, <2>4, Ranks
<1>8. ASSUME ViewInv, CallChange(h, view, view') PROVE AttemptShown(a)'
  <2>1. \A m \in Attempts : m # attempt[a] => view'.attempts[a][m] = view.attempts[a][m]
    BY <1>3, <1>8 DEF CallChange
  <2>2. view'.attempts[a][attempt[a]] \in Unresolved
    <3>1. CASE attempt[a] = 1
      BY <1>3, <1>8, <3>1 DEF CallChange
    <3>2. CASE attempt[a] # 1
      <4>1. h.type \notin Attempting
        BY <1>3, <3>2 DEF Attempting
      <4>2. view'.attempts[a][attempt[a]] = view.attempts[a][attempt[a]]
        BY <1>3, <1>5, <1>8, <4>1 DEF CallChange
      <4>3. ~Asks("agent.started", a)
        BY <1>3, <1>7, <3>2 DEF Asks, CallTypes
      <4>4. AttemptShown(a)
        BY <1>8 DEF ViewInv, AttemptsShown
      <4> QED
        BY <4>2, <4>3, <4>4 DEF AttemptShown
    <3> QED
      BY <3>1, <3>2
  <2>3. stage'[a] = "running" /\ AttemptShown(a) /\ a \notin ended
    BY <1>2, <1>8 DEF Moves, RuntimeTypes, ViewInv, AttemptsShown, RunInv, StateInv, StagesFit
  <2>4. ended' = ended
    BY <1>2, <1>4, HandledNotFinal
  <2>5. \A m \in Attempts : m < attempt[a] \/ attempt[a] < m => m # attempt[a]
    BY <1>5 DEF Attempts
  <2> QED
    BY <1>5, <2>1, <2>2, <2>3, <2>4, <2>5 DEF AttemptShown, Open, Accepting
<1> QED
  BY <1>2, <1>3, <1>4, <1>5, <1>7, <1>8, CallMoves

LEMMA RetriedKeeps ==
  ASSUME RuntimeTypes, view \in Snapshots, RunInv, NEW a \in Agents, TaskGoesOn(a),
         stage[a] = "retrying"
  PROVE  /\ RunInv' /\ RuntimeTypes'
         /\ ViewInv /\ rejected = NoEvent /\ rejected' = NoEvent => ViewInv'
<1>1. PICK h : h = Head(queue)
  OBVIOUS
<1>2. /\ h = AgentEvent("agent.retry_scheduled", a)
      /\ Moves(a, "waiting") /\ Handled(h, <<>>, runtime)
      /\ attempt' = [attempt EXCEPT ![a] = @ + 1]
      /\ UNCHANGED <<runVars, turn, child, current, known, sequence, inner, agentPhase>>
  BY <1>1 DEF TaskGoesOn
<1>3. h.agent = a /\ h.type = "agent.retry_scheduled"
  BY <1>2 DEF AgentEvent
<1>4. /\ h.type \in CallTypes \ {"agent.admitted"} /\ ~IsFinal(h)
      /\ "waiting" \in Working \ {"retrying"} /\ stage[a] \in Working \cup {"queueing"}
  BY <1>3 DEF CallTypes, IsFinal, Working
<1>5. /\ attempt[a] \in Attempts /\ attempt[a] < MaxAttempts
      /\ MaxAttempts \in Nat
  BY StateAssumption DEF RuntimeTypes, RunInv, StateInv, StagesFit
<1>6. attempt[a] + 1 \in Attempts
  BY <1>5 DEF Attempts
<1>7. /\ attempt' \in [Agents -> Attempts] /\ attempt'[a] = attempt[a] + 1
      /\ \A b \in Agents \ {a} : attempt'[b] = attempt[b]
  BY <1>2, <1>6 DEF RuntimeTypes
<1>8. First(h)
  BY <1>2, <1>4, CallStep
<1>9. \A e \in Pending \ {h} : e.type \in CallTypes => e.agent # a
  <2>1. SUFFICES ASSUME NEW e \in Pending \ {h}, e.type \in CallTypes, e.agent = a PROVE FALSE
    OBVIOUS
  <2>2. Rank(h.type) < Rank(e.type)
    BY <1>3, <1>4, <1>8, <2>1, AfterHead
  <2> QED
    BY <1>3, <2>2, Ranks, RankNat
<1>10. ASSUME ViewInv, CallChange(h, view, view') PROVE AttemptShown(a)'
  <2>1. h.type \notin Attempting
    BY <1>3 DEF Attempting
  <2>2. \A m \in Attempts : view'.attempts[a][m] = view.attempts[a][m]
    BY <1>3, <1>10, <2>1 DEF CallChange
  <2>3. stage'[a] = "waiting" /\ AttemptShown(a) /\ a \notin ended
    BY <1>2, <1>10 DEF Moves, RuntimeTypes, ViewInv, AttemptsShown, RunInv, StateInv, StagesFit
  <2>4. ~Asks("agent.failed", a)
    BY <1>3, <1>9 DEF Asks, CallTypes
  <2>5. ended' = ended
    BY <1>2, <1>4, HandledNotFinal
  <2>6. \A m \in Attempts : /\ attempt[a] + 1 < m => attempt[a] < m
                            /\ m < attempt[a] + 1 => m < attempt[a] \/ m = attempt[a]
                            /\ attempt[a] < attempt[a] + 1
    BY <1>5 DEF Attempts
  <2>7. view.attempts[a][attempt[a]] \notin Unresolved
    BY <2>3, <2>4 DEF AttemptShown
  <2>8. view.attempts[a][attempt[a] + 1] = "absent"
    BY <1>6, <2>3, <2>6, <1>5 DEF AttemptShown
  <2> QED
    BY <1>5, <1>6, <1>7, <2>2, <2>3, <2>5, <2>6, <2>7, <2>8 DEF AttemptShown, Open, Unresolved
<1> QED
  BY <1>2, <1>3, <1>4, <1>7, <1>9, <1>10, CallMoves

-------------------------------------------------------------------------------
(* The last event of an agent, which may complete its phase.                  *)

TwoReplayed(h, g) ==
  LET one == Apply(view, h)
  IN IF Accepts(one, g) THEN view' = Apply(one, g) ELSE view' = one

\* Two events published in one operation.
LEMMA PairReplayed ==
  ASSUME NEW h, NEW g, Replays(<<h, g>>), rejected = NoEvent, Accepts(view, h)
  PROVE  rejected' = NoEvent /\ TwoReplayed(h, g)
<1>1. Head(<<h, g>>) = h /\ Len(<<h, g>>) = 2 /\ <<h, g>>[2] = g
  OBVIOUS
<1> QED
  BY <1>1 DEF Replays, TwoReplayed

\* What is left of an agent that ends.
LEMMA LastEvent ==
  ASSUME RuntimeTypes, RunInv, NEW h, IsFinal(h), h \in Pending, First(h),
         NEW a, a = h.agent, stage[a] \in {"answering", "finishing"}
  PROVE  /\ a \in Agents /\ a \notin ended /\ h.type \in CallTypes \ {"agent.admitted"}
         /\ CallFits(h)
         /\ \A e \in Pending \ {h} : e.type \in CallTypes => e.agent # a
<1>1. h.type \in CallTypes \ {"agent.admitted"}
  BY Typed DEF IsFinal, RunInv, QueueInv, RunEvents, PhaseEvents
<1>2. CallFits(h)
  BY <1>1 DEF RunInv, QueueInv, CallsWait
<1>3. a \in Agents /\ a \notin ended
  BY <1>2 DEF CallFits
<1>4. Rank(h.type) = 6
  BY <1>1, Ranks DEF IsFinal, CallTypes
<1>5. ASSUME NEW e \in Pending \ {h}, e.type \in CallTypes, e.agent = a PROVE FALSE
  <2>1. Rank(h.type) < Rank(e.type)
    BY <1>1, <1>5, AfterHead
  <2>2. CallFits(e)
    BY <1>5 DEF RunInv, QueueInv, CallsWait
  <2>3. e.type # "agent.retry_scheduled"
    BY <1>5, <2>2 DEF CallFits
  <2>4. Rank(e.type) \in 1..6
    BY <1>5, <2>3, Ranks DEF CallTypes
  <2> QED
    BY <1>4, <2>1, <2>4
<1> QED
  BY <1>1, <1>2, <1>3, <1>5

\* One member less.
LEMMA OneLess ==
  ASSUME NEW S, IsFiniteSet(S), NEW x \in S, NEW T, T = S \ {x}
  PROVE  IsFiniteSet(T) /\ Cardinality(T) = Cardinality(S) - 1
BY FS_RemoveElement

\* #recordAgentTerminal as a relation between the phases before and after.
LEMMA PhaseLeft ==
  ASSUME RuntimeTypes, CountsFit, NEW a \in Agents, a \notin ended,
         NEW p, p \in Phases \/ p = NoPhase, p # NoPhase => agentPhase[a] = p /\ ~runtime[p].over,
         p = NoPhase => agentPhase[a] = NoPhase \/ runtime[agentPhase[a]].over,
         ended' = ended \cup {a}, agentPhase' = agentPhase,
         runtime' = IF p = NoPhase THEN runtime
                    ELSE [runtime EXCEPT ![p].active = @ - 1, ![p].over = ClosesWith(p)]
  PROVE  /\ CountsFit'
         /\ runtime' \in [Phases -> [entered : BOOLEAN, sealed : BOOLEAN, over : BOOLEAN,
                                     active : 0..Cardinality(Agents)]]
         /\ \A q \in Phases :
              /\ runtime'[q].entered = runtime[q].entered /\ runtime'[q].sealed = runtime[q].sealed
              /\ runtime'[q].over <=> runtime[q].over \/ (q = p /\ ClosesWith(p))
         /\ p # NoPhase => runtime[p].active > 0
         /\ p # NoPhase /\ ClosesWith(p) =>
              \A b \in Agents : agentPhase[b] = p => b \in ended \/ b = a
<1> DEFINE Under(q) == {b \in Agents : agentPhase[b] = q /\ b \notin ended}
<1> DEFINE Left(q) == {b \in Agents : agentPhase[b] = q /\ b \notin ended \cup {a}}
<1>1. \A q : IsFiniteSet(Under(q)) /\ Cardinality(Under(q)) \in Nat
  <2>1. \A q : Under(q) \subseteq Agents
    OBVIOUS
  <2> QED
    BY <2>1, StateAssumption, FS_Subset, FS_CardinalityType
<1>2. CASE p = NoPhase
  <2>1. runtime' = runtime /\ p \notin Phases
    BY <1>2, StateAssumption
  <2>2. \A q \in Phases : ~runtime[q].over => agentPhase[a] # q
    BY <1>2, StateAssumption
  <2>3. \A q \in Phases : ~runtime[q].over => Left(q) = Under(q)
    BY <2>2
  <2>4. CountsFit'
    BY <2>1, <2>3 DEF CountsFit
  <2> QED
    BY <1>2, <2>1, <2>4 DEF RuntimeTypes
<1>3. CASE p # NoPhase
  <2>1. p \in Phases /\ agentPhase[a] = p /\ ~runtime[p].over
    BY <1>3
  <2>2. a \in Under(p) /\ Left(p) = Under(p) \ {a}
    BY <2>1
  <2>3. IsFiniteSet(Left(p)) /\ Cardinality(Left(p)) = Cardinality(Under(p)) - 1
    <3>1. PICK S, T : S = Under(p) /\ T = Left(p)
      OBVIOUS
    <3>2. IsFiniteSet(S) /\ a \in S /\ T = S \ {a}
      BY <1>1, <2>2, <3>1
    <3>3. IsFiniteSet(T) /\ Cardinality(T) = Cardinality(S) - 1
      BY <3>2, OneLess
    <3> QED
      BY <3>1, <3>3
  <2>4. runtime[p].active = Cardinality(Under(p)) /\ runtime[p].active \in Nat
    BY <1>1, <2>1 DEF CountsFit
  <2>5. Cardinality(Under(p)) # 0
    BY <1>1, <2>2, FS_EmptySet
  <2>8. runtime[p].active - 1 \in 0..Cardinality(Agents)
    <3>1. runtime[p].active \in 0..Cardinality(Agents) /\ Cardinality(Agents) \in Nat
      BY <2>1, AgentNumbers DEF RuntimeTypes
    <3> QED
      BY <2>4, <2>5, <3>1
  <2>x. PICK r : r = [runtime[p] EXCEPT !.active = @ - 1, !.over = ClosesWith(p)]
    OBVIOUS
  <2>y. /\ r \in [entered : BOOLEAN, sealed : BOOLEAN, over : BOOLEAN,
                 active : 0..Cardinality(Agents)]
        /\ r.active = runtime[p].active - 1 /\ r.over = ClosesWith(p)
        /\ r.entered = runtime[p].entered /\ r.sealed = runtime[p].sealed
    <3>1. runtime[p] \in [entered : BOOLEAN, sealed : BOOLEAN, over : BOOLEAN,
                           active : 0..Cardinality(Agents)]
      BY <2>1 DEF RuntimeTypes
    <3>2. ClosesWith(p) \in BOOLEAN
      BY DEF ClosesWith
    <3> QED
      BY <2>8, <2>x, <3>1, <3>2
  <2>6. runtime' = [runtime EXCEPT ![p] = r]
    BY <1>3, <2>1, <2>x DEF RuntimeTypes
  <2>7. /\ runtime'[p].active = runtime[p].active - 1 /\ (runtime'[p].over <=> ClosesWith(p))
        /\ runtime'[p].entered = runtime[p].entered /\ runtime'[p].sealed = runtime[p].sealed
        /\ \A q \in Phases : q # p => runtime'[q] = runtime[q]
    BY <2>1, <2>6, <2>y DEF RuntimeTypes
  <2>9. runtime' \in [Phases -> [entered : BOOLEAN, sealed : BOOLEAN, over : BOOLEAN,
                                 active : 0..Cardinality(Agents)]]
    BY <2>1, <2>6, <2>y DEF RuntimeTypes
  <2>10. CountsFit'
    <3>1. \A q \in Phases : q # p => Left(q) = Under(q)
      BY <2>1
    <3>2. runtime[p].active <= Cardinality({b \in Agents : agentPhase[b] = p})
      BY <2>1 DEF CountsFit
    <3>3. {b \in Agents : agentPhase[b] = p} \subseteq Agents
      OBVIOUS
    <3>4. Cardinality({b \in Agents : agentPhase[b] = p}) \in Nat
      BY <3>3, StateAssumption, FS_Subset, FS_CardinalityType
    <3>5. runtime[p].active - 1 <= Cardinality({b \in Agents : agentPhase[b] = p})
      BY <2>4, <3>2, <3>4
    <3>6. runtime[p].sealed /\ ~ClosesWith(p) => runtime[p].active - 1 > 0
      BY <2>4, <2>5 DEF ClosesWith
    <3>7. ASSUME NEW q \in Phases
          PROVE  /\ runtime'[q].active <= Cardinality({b \in Agents : agentPhase'[b] = q})
                 /\ ~runtime'[q].over =>
                      /\ runtime'[q].active =
                           Cardinality({b \in Agents : agentPhase'[b] = q /\ b \notin ended'})
                      /\ runtime'[q].sealed => runtime'[q].active > 0
      <4>1. CASE q = p
        BY <2>3, <2>4, <2>7, <3>5, <3>6, <4>1
      <4>2. CASE q # p
        BY <2>7, <3>1, <4>2 DEF CountsFit
      <4> QED
        BY <4>1, <4>2
    <3> QED
      BY <3>7 DEF CountsFit
  <2>11. ClosesWith(p) => \A b \in Agents : agentPhase[b] = p => b \in ended \/ b = a
    <3>1. SUFFICES ASSUME ClosesWith(p) PROVE Left(p) = {}
      OBVIOUS
    <3>2. Cardinality(Left(p)) = 0
      BY <2>3, <2>4, <3>1 DEF ClosesWith
    <3>3. IsFiniteSet(Left(p))
      BY <2>3
    <3> QED
      BY <3>2, <3>3, FS_EmptySet
  <2>12. runtime[p].active > 0
    BY <2>4, <2>5
  <2> QED
    BY <1>3, <2>1, <2>7, <2>9, <2>10, <2>11, <2>12
<1> QED
  BY <1>2, <1>3

\* The call is over: what the runtime keeps, and what the snapshot shows.
LEMMA FinalRuns ==
  ASSUME RuntimeTypes, RunInv, NEW h, IsFinal(h), Handled(h, <<>>, runtime),
         NEW a, a = h.agent, stage[a] \in {"answering", "finishing"}, Moves(a, "over"),
         UNCHANGED <<runVars, turn, child, current, known, sequence, inner, agentPhase, attempt>>
  PROVE  RunInv' /\ RuntimeTypes'
<1> USE DEF runVars
<1>1. /\ h \in Pending
      /\ Ordered(queue)' /\ Pending' = Pending \ {h}
      /\ First(h)
  BY HandledAlone DEF RunInv, QueueInv, First
<1>2. /\ a \in Agents /\ a \notin ended /\ h.type \in CallTypes \ {"agent.admitted"}
      /\ CallFits(h) /\ \A e \in Pending \ {h} : e.type \in CallTypes => e.agent # a
  BY <1>1, LastEvent
<1>3. /\ stage'[a] = "over" /\ \A b \in Agents \ {a} : stage'[b] = stage[b]
      /\ stage' \in [Agents -> {"idle", "over"} \cup Accepting \cup Working]
  BY <1>2 DEF Moves, RuntimeTypes
<1>4. /\ \A b \in Agents : stage'[b] = "discovering" <=> stage[b] = "discovering"
      /\ \A b \in Agents : stage'[b] = "admitting" <=> stage[b] = "admitting"
      /\ \A b \in Agents : stage[b] = "over" => stage'[b] = "over"
      /\ \A b \in Agents : stage'[b] = "idle" <=> stage[b] = "idle"
      /\ \A b \in Agents : stage'[b] \in Accepting => stage[b] \in Accepting /\ b # a
  BY <1>3 DEF Accepting
<1>5. /\ \A t \in PhaseEvents, p \in Phases : Waits(t, p)' <=> Waits(t, p)
      /\ \A t \in RunEvents : WaitsRun(t)' <=> WaitsRun(t)
      /\ PhaseNames'
      /\ \A b \in Agents : Asks("agent.admitted", b)' <=> Asks("agent.admitted", b)
  <2>1. OnlyCalls
    BY <1>1, <1>2 DEF OnlyCalls
  <2>2. \A b \in Agents : Asks("agent.admitted", b)' <=> Asks("agent.admitted", b)
    BY <1>1, <1>2 DEF Asks
  <2> QED
    BY <2>1, <2>2, OnlyCallsKeep DEF RunInv, QueueInv
<1>6. ended' = ended \cup {a} /\ up' = up
  BY DEF Handled
<1>7. PICK p : p = Leaves(h)
  OBVIOUS
<1>8. /\ p \in Phases \/ p = NoPhase
      /\ p # NoPhase => agentPhase[a] = p /\ ~runtime[p].over
      /\ p = NoPhase => agentPhase[a] = NoPhase \/ runtime[agentPhase[a]].over
  BY <1>2, <1>7 DEF Leaves, RuntimeTypes
<1>9. runtime' = IF p = NoPhase THEN runtime
                 ELSE [runtime EXCEPT ![p].active = @ - 1, ![p].over = ClosesWith(p)]
  BY <1>7 DEF Handled
<1>10. /\ CountsFit'
       /\ runtime' \in [Phases -> [entered : BOOLEAN, sealed : BOOLEAN, over : BOOLEAN,
                                   active : 0..Cardinality(Agents)]]
       /\ \A q \in Phases :
            /\ runtime'[q].entered = runtime[q].entered /\ runtime'[q].sealed = runtime[q].sealed
            /\ runtime'[q].over <=> runtime[q].over \/ (q = p /\ ClosesWith(p))
  BY <1>2, <1>6, <1>8, <1>9, PhaseLeft DEF RunInv, StateInv
<1>11. \A q \in Phases : runtime'[q].over => runtime[q].over \/ runtime[q].sealed
  BY <1>10 DEF ClosesWith
<1>12. Outer' = Outer /\ Outer \subseteq Agents /\ aborted' = aborted /\ Known' = Known
  BY AgentNumbers DEF Outer, aborted, Known, RuntimeTypes
<1>13. RuntimeTypes'
  BY <1>2, <1>3, <1>6, <1>10 DEF RuntimeTypes
<1>14. CallsWait'
  <2>1. ASSUME NEW e \in Pending', e.type \in CallTypes PROVE CallFits(e)'
    <3>1. e \in Pending /\ e.agent # a
      BY <1>1, <1>2, <2>1
    <3>2. /\ CallsWait /\ sequence \in 0..Cardinality(Agents)
          /\ stage \in [Agents -> {"idle", "over"} \cup Accepting \cup Working]
      BY DEF RunInv, QueueInv, RuntimeTypes
    <3> QED
      BY <1>2, <1>3, <1>6, <2>1, <3>1, <3>2, OthersFit
  <2> QED
    BY <2>1 DEF CallsWait
<1>15. RunWaits'
  BY <1>5, <1>12 DEF RunInv, QueueInv, RunWaits, RunEvents
<1>16. DiscoveriesWait'
  BY <1>4, <1>5, <1>10, <1>12 DEF RunInv, QueueInv, DiscoveriesWait, Discovering, PhaseEvents
<1>17. EntriesWait'
  <2>1. ASSUME NEW q \in Phases, Waits("phase.entered", q)
        PROVE  /\ runtime'[q].entered /\ ~runtime'[q].sealed
               /\ runtime'[q].over => runtime[q].over
    BY <1>10, <1>11, <2>1 DEF RunInv, QueueInv, EntriesWait
  <2> QED
    BY <2>1, <1>5 DEF RunInv, QueueInv, EntriesWait, PhaseEvents
<1>18. CompletionsWait'
  BY <1>3, <1>4, <1>5, <1>6, <1>10 DEF RunInv, QueueInv, CompletionsWait, PhaseEvents
<1>19. FailuresWait'
  BY <1>5, <1>10 DEF RunInv, QueueInv, FailuresWait, PhaseEvents
<1>20. ControlFits' /\ PhasesFit'
  BY <1>10, <1>11, <1>12 DEF RunInv, StateInv, ControlFits, PhasesFit
<1>21. TurnFits'
  BY <1>4, <1>10, <1>12 DEF RunInv, StateInv, TurnFits, Busy, RuntimeTypes
<1>22. ChildFits'
  <2>1. runtime'[Nest].entered = runtime[Nest].entered /\ runtime'[Nest].sealed = runtime[Nest].sealed
    BY <1>10, ProjectionAssumption
  <2> QED
    BY <1>4, <1>12, <2>1 DEF RunInv, StateInv, ChildFits, RuntimeTypes
<1>23. MainFits'
  BY <1>4, <1>10, <1>12 DEF RunInv, StateInv, MainFits
<1>24. CallsFit'
  BY <1>4, <1>12 DEF RunInv, StateInv, CallsFit
<1>25. StagesFit'
  BY <1>3, <1>4, <1>5, <1>6, <1>12 DEF RunInv, StateInv, StagesFit
<1>26. OneAccepted'
  BY <1>4, <1>12 DEF RunInv, StateInv, OneAccepted
<1> QED
  BY <1>1, <1>5, <1>10, <1>13, <1>14, <1>15, <1>16, <1>17, <1>18, <1>19, <1>20, <1>21, <1>22,
     <1>23, <1>24, <1>25, <1>26 DEF RunInv, QueueInv, StateInv

\* What a last event, and the completion of its phase if it comes with it, leave to read.
LEMMA FinalRead ==
  ASSUME RuntimeTypes, view \in Snapshots, RunInv, ViewInv, rejected = NoEvent,
         NEW h, IsFinal(h), h \in Pending, First(h), CallFits(h),
         h.type \in CallTypes \ {"agent.admitted"},
         NEW p, p \in Phases \/ p = NoPhase, p # NoPhase => agentPhase[h.agent] = p,
         NEW done \in BOOLEAN, done => p # NoPhase /\ runtime[p].sealed,
         Replays(IF done THEN <<h, Completed(p)>> ELSE <<h>>)
  PROVE  /\ rejected' = NoEvent
         /\ CallChange(h, view, [view' EXCEPT !.phases = view.phases])
         /\ view' \in Snapshots
         /\ view'.phases = IF done THEN [view.phases EXCEPT ![p] = "completed"] ELSE view.phases
<1>1. Accepts(view, h)
  BY CallAccepted
<1>2. PICK one : one = Apply(view, h)
  OBVIOUS
<1>3. CallChange(h, view, one) /\ one \in Snapshots /\ SameButAgents(view, one)
  BY <1>2, CallApplied DEF CallChange
<1>4. one = [one EXCEPT !.phases = view.phases]
  BY <1>3 DEF Snapshots, SameButAgents
<1>5. CASE ~done
  <2>1. Replays(<<h>>)
    BY <1>5
  <2>2. rejected' = NoEvent /\ view' = one
    BY <1>1, <1>2, <2>1, OneReplayed
  <2> QED
    BY <1>3, <1>4, <1>5, <2>2 DEF SameButAgents
<1>6. CASE done
  <2>1. PICK g : g = Completed(p)
    OBVIOUS
  <2>2. g.type = "phase.completed" /\ g.phase = p /\ g.type \in PhaseEvents
    BY <2>1 DEF Completed, PhaseEvent, PhaseEvents
  <2>3. p \in Phases /\ view.phases[p] # "absent"
    <3>1. p \in Phases /\ runtime[p].entered
      BY <1>6 DEF RunInv, StateInv, PhasesFit
    <3>2. p \in Known /\ ~Waits("phase.discovered", p)
      BY <3>1 DEF RunInv, QueueInv, StateInv, PhasesFit, DiscoveriesWait
    <3> QED
      BY <3>1, <3>2 DEF ViewInv, PhasesShown
  <2>4. one.phases[p] # "absent" /\ one.status \notin TerminalRun
    BY <1>3, <2>3 DEF SameButAgents, ViewInv
  <2>5. Accepts(one, g)
    BY <2>2, <2>4, TypesApart DEF Accepts
  <2>6. Replays(<<h, g>>)
    BY <1>6, <2>1
  <2>7. rejected' = NoEvent /\ view' = Apply(one, g)
    BY <1>1, <1>2, <2>5, <2>6, PairReplayed DEF TwoReplayed
  <2>8. PhaseStatusAfter["phase.completed"] = "completed"
    BY DEF PhaseStatusAfter, PhaseEvents
  <2>9. view' = [one EXCEPT !.phases = [one.phases EXCEPT ![p] = "completed"]]
    BY <2>2, <2>7, <2>8, PhaseApplied
  <2>10. /\ view' \in Snapshots /\ view'.phases = [view.phases EXCEPT ![p] = "completed"]
         /\ [view' EXCEPT !.phases = view.phases] = [one EXCEPT !.phases = view.phases]
    BY <1>3, <2>3, <2>9 DEF Snapshots, SameButAgents, PhaseStatuses
  <2> QED
    BY <1>3, <1>4, <1>6, <2>7, <2>10
<1> QED
  BY <1>5, <1>6

\* Its attempt is closed.
LEMMA FinalAttempt ==
  ASSUME RuntimeTypes, ViewInv, NEW h, IsFinal(h), h \in Pending, CallFits(h),
         h.type \in CallTypes \ {"agent.admitted"},
         NEW a \in Agents, a = h.agent, stage[a] \in {"answering", "finishing"},
         stage'[a] = "over", attempt' = attempt, NEW t, CallChange(h, view, t),
         \A m \in Attempts : view'.attempts[a][m] = t.attempts[a][m]
  PROVE  AttemptShown(a)'
<1>0. PICK n : n = attempt[a]
  OBVIOUS
<1>1. n \in Attempts /\ n # 0 /\ AttemptShown(a) /\ EventShown(h)
  BY <1>0 DEF RuntimeTypes, Attempts, ViewInv, AttemptsShown, CallsShown
<1>2. h.type \in Attempting => h.attempt \in {0, n}
  BY <1>0 DEF CallFits, Attempting
<1>3. \A m \in Attempts : m # n => view'.attempts[a][m] = view.attempts[a][m]
  <2>1. 0 \notin Attempts
    BY DEF Attempts
  <2> QED
    BY <1>2, <2>1 DEF CallChange
<1>4. view'.attempts[a][n] \notin Unresolved
  <2>1. CASE h.type = "agent.reused"
    <3>1. stage[a] = "answering" /\ h.type \notin Attempting
      BY <2>1 DEF CallFits, Attempting
    <3>2. view.attempts[a][n] = "absent"
      BY <1>0, <1>1, <3>1 DEF AttemptShown, Accepting
    <3>3. view'.attempts[a][n] = view.attempts[a][n]
      BY <1>1, <3>1 DEF CallChange
    <3> QED
      BY <3>2, <3>3 DEF Unresolved
  <2>2. CASE h.type # "agent.reused" /\ h.attempt = 0
    <3>1. h.type \in EitherEvents
      BY <1>0, <1>1, <2>2 DEF CallFits, EitherEvents, IsFinal, CallTypes
    <3>2. view.attempts[a][n] \notin Unresolved
      BY <1>0, <1>1, <2>2, <3>1 DEF EventShown
    <3>3. view'.attempts[a][n] = view.attempts[a][n]
      BY <1>1, <2>2 DEF CallChange
    <3> QED
      BY <3>2, <3>3
  <2>3. CASE h.type # "agent.reused" /\ h.attempt # 0
    <3>1. h.type \in Closers /\ h.type \in Attempting
      BY <2>3 DEF IsFinal, CallTypes, Closers, Attempting
    <3>2. h.attempt = n
      BY <1>2, <2>3, <3>1
    <3> QED
      BY <1>1, <2>3, <3>1, <3>2 DEF CallChange
  <2> QED
    BY <2>1, <2>2, <2>3
<1>5. \A m \in Attempts : m < n \/ n < m => m # n
  BY <1>1 DEF Attempts
<1> QED
  BY <1>0, <1>1, <1>3, <1>4, <1>5 DEF AttemptShown, Open, Accepting

\* Its phase may be complete.
LEMMA FinalPhases ==
  ASSUME RuntimeTypes, RunInv, ViewInv, NEW h, Pending' = Pending \ {h}, h.type \in CallTypes,
         NEW p, p \in Phases \/ p = NoPhase,
         NEW done \in BOOLEAN, done => p \in Phases /\ runtime[p].sealed, known' = known,
         \A q \in Phases :
           /\ runtime'[q].entered = runtime[q].entered
           /\ runtime'[q].over <=> runtime[q].over \/ (q = p /\ done),
         \A q \in Phases :
           view'.phases[q] = IF done /\ q = p THEN "completed" ELSE view.phases[q]
  PROVE  PhasesShown'
<1>1. \A t \in PhaseEvents, q \in Phases : Waits(t, q)' <=> Waits(t, q)
  <2>1. OnlyCalls
    BY DEF OnlyCalls
  <2> QED
    BY <2>1, OnlyCallsKeep
<1>2. Known' = Known
  BY DEF Known
<1>3. ASSUME done
      PROVE  p \in Known /\ ~Waits("phase.discovered", p)
  BY <1>3 DEF RunInv, QueueInv, StateInv, PhasesFit, DiscoveriesWait
<1>4. ASSUME NEW q \in Phases
      PROVE  /\ view'.phases[q] = "absent" <=> q \notin Known \/ Waits("phase.discovered", q)
             /\ runtime[q].entered /\ ~Waits("phase.entered", q) =>
                  IF runtime'[q].over
                  THEN \/ Waits("phase.completed", q) \/ Waits("phase.failed", q)
                       \/ view'.phases[q] # "running"
                  ELSE view'.phases[q] = "running"
             /\ view'.phases[q] = "running" => runtime[q].entered /\ ~Waits("phase.entered", q)
  <2>1. CASE done /\ q = p
    BY <1>3, <2>1
  <2>2. CASE ~(done /\ q = p)
    <3>1. view'.phases[q] = view.phases[q] /\ (runtime'[q].over <=> runtime[q].over)
      BY <2>2
    <3> QED
      BY <3>1 DEF ViewInv, PhasesShown
  <2> QED
    BY <2>1, <2>2
<1> QED
  BY <1>1, <1>2, <1>4 DEF PhasesShown, PhaseEvents

LEMMA FinalShown ==
  ASSUME RuntimeTypes, view \in Snapshots, RunInv, ViewInv, rejected = NoEvent,
         NEW h, IsFinal(h), Handled(h, <<>>, runtime),
         NEW a, a = h.agent, stage[a] \in {"answering", "finishing"}, Moves(a, "over"),
         UNCHANGED <<known, inner, agentPhase, attempt>>
  PROVE  ViewInv'
<1>1. h \in Pending /\ Pending' = Pending \ {h} /\ First(h)
  BY HandledAlone DEF RunInv, QueueInv, First
<1>2. /\ a \in Agents /\ a \notin ended /\ h.type \in CallTypes \ {"agent.admitted"}
      /\ CallFits(h) /\ \A e \in Pending' : e.type \in CallTypes => e.agent # a
  BY <1>1, LastEvent
<1>3. PICK p : p = Leaves(h)
  OBVIOUS
<1>4. PICK done \in BOOLEAN : done <=> p # NoPhase /\ ClosesWith(p)
  <2>1. (p # NoPhase /\ ClosesWith(p)) \in BOOLEAN
    OBVIOUS
  <2> QED
    BY <2>1
<1>5. /\ p \in Phases \/ p = NoPhase
      /\ p # NoPhase => agentPhase[a] = p /\ ~runtime[p].over
      /\ p = NoPhase => agentPhase[a] = NoPhase \/ runtime[agentPhase[a]].over
  BY <1>2, <1>3 DEF Leaves, RuntimeTypes
<1>6. /\ done => p # NoPhase /\ runtime[p].sealed
      /\ Replays(IF done THEN <<h, Completed(p)>> ELSE <<h>>)
      /\ ended' = ended \cup {a} /\ up' = up
      /\ runtime' = IF p = NoPhase THEN runtime
                    ELSE [runtime EXCEPT ![p].active = @ - 1, ![p].over = ClosesWith(p)]
  BY <1>3, <1>4 DEF Handled, ClosesWith
<1>7. PICK t : t = [view' EXCEPT !.phases = view.phases]
  OBVIOUS
<1>8. /\ CallChange(h, view, t) /\ view' \in Snapshots
      /\ view'.phases = IF done THEN [view.phases EXCEPT ![p] = "completed"] ELSE view.phases
  BY <1>1, <1>2, <1>5, <1>6, <1>7, FinalRead
<1>9. /\ t.agents = view'.agents /\ t.attempts = view'.attempts /\ t.status = view'.status
      /\ t.callIndex = view'.callIndex /\ t.phaseOf = view'.phaseOf
  BY <1>7, <1>8 DEF Snapshots
<1>10. /\ view'.status = view.status
       /\ view'.callIndex = view.callIndex /\ view'.phaseOf = view.phaseOf
       /\ \A b \in Agents \ {a} : view'.agents[b] = view.agents[b]
       /\ \A b \in Agents \ {a}, m \in Attempts : view'.attempts[b][m] = view.attempts[b][m]
       /\ view'.agents[a] \in TerminalAgent
  BY <1>8, <1>9 DEF CallChange, SameButAgents
<1>11. /\ stage'[a] = "over" /\ \A b \in Agents \ {a} : stage'[b] = stage[b]
  BY <1>2 DEF Moves, RuntimeTypes
<1>12. /\ Admitted(view, a) /\ Admitted(view', a)
       /\ \A b \in Agents : Admitted(view', b) <=> Admitted(view, b)
  BY <1>1, <1>2, <1>10 DEF ViewInv, CallsShown, EventShown, Admitted, TerminalAgent
<1>13. PhasesShown'
  <2>1. \A q \in Phases :
          /\ runtime'[q].entered = runtime[q].entered
          /\ runtime'[q].over <=> runtime[q].over \/ (q = p /\ done)
    <3>1. \A q \in Phases :
            /\ runtime'[q].entered = runtime[q].entered
            /\ runtime'[q].over <=> runtime[q].over \/ (q = p /\ ClosesWith(p))
      BY <1>2, <1>5, <1>6, PhaseLeft DEF RunInv, StateInv
    <3>2. \A q \in Phases : q = p /\ ClosesWith(p) <=> q = p /\ done
      BY <1>4, StateAssumption
    <3> QED
      BY <3>1, <3>2
  <2>2. \A q \in Phases : view'.phases[q] = IF done /\ q = p THEN "completed" ELSE view.phases[q]
    BY <1>5, <1>6, <1>8 DEF Snapshots
  <2>3. h.type \in CallTypes /\ (done => p \in Phases /\ runtime[p].sealed)
    BY <1>2, <1>5, <1>6
  <2> QED
    BY <1>1, <1>5, <2>1, <2>2, <2>3, FinalPhases
<1>14. AgentsShown'
  <2>1. ASSUME NEW b \in Agents \ {a}
        PROVE  /\ stage'[b] \in {"idle", "discovering", "admitting"} => ~Admitted(view', b)
               /\ stage'[b] \in {"queueing", "answering"} \cup Working => Admitted(view', b)
               /\ b \in inner' /\ stage'[b] # "admitting" => Admitted(view', b)
               /\ Admitted(view', b) => view'.phaseOf[b] = agentPhase'[b]
               /\ b \in ended' <=> view'.agents[b] \in TerminalAgent
    BY <1>6, <1>10, <1>11, <1>12 DEF ViewInv, AgentsShown
  <2>2. view'.phaseOf[a] = agentPhase'[a]
    BY <1>2, <1>10, <1>12 DEF ViewInv, AgentsShown
  <2> QED
    BY <2>1, <2>2, <1>6, <1>10, <1>11, <1>12 DEF AgentsShown
<1>15. IndicesShown'
  BY <1>10, <1>12 DEF ViewInv, IndicesShown
<1>16. AttemptsShown'
  <2>1. ASSUME NEW b \in Agents \ {a} PROVE AttemptShown(b)'
    <3>1. \A x : Asks(x, b)' <=> Asks(x, b)
      BY <1>1, <1>2 DEF Asks
    <3>2. b \in ended' <=> b \in ended
      BY <1>6
    <3> QED
      BY <3>1, <3>2, <1>10, <1>11, OtherAttempts
  <2>2. AttemptShown(a)'
    <3>1. \A m \in Attempts : view'.attempts[a][m] = t.attempts[a][m]
      BY <1>9
    <3> QED
      BY <1>1, <1>2, <1>8, <1>11, <3>1, FinalAttempt
  <2> QED
    BY <2>1, <2>2 DEF AttemptsShown
<1>17. CallsShown'
  <2>1. \A b \in Agents : Asks("agent.admitted", b)' <=> Asks("agent.admitted", b)
    BY <1>1, <1>2 DEF Asks
  <2>2. ASSUME NEW e \in Pending', e.type \in CallTypes PROVE EventShown(e)'
    <3>1. e \in Pending /\ e.agent # a
      BY <1>1, <1>2, <2>2
    <3> QED
      BY <1>2, <1>10, <1>12, <2>1, <2>2, <3>1, OtherEvents
  <2> QED
    BY <2>2 DEF CallsShown
<1> QED
  BY <1>10, <1>13, <1>14, <1>15, <1>16, <1>17 DEF ViewInv

\* The awaited events of calls and of tasks.
LEMMA AnsweredKeeps ==
  ASSUME RuntimeTypes, view \in Snapshots, RunInv, NEW a \in Agents, Answered(a)
  PROVE  /\ RunInv' /\ RuntimeTypes'
         /\ ViewInv /\ rejected = NoEvent /\ rejected' = NoEvent => ViewInv'
<1>1. CASE stage[a] = "queueing"
  BY <1>1, QueuedKeeps
<1>2. CASE stage[a] # "queueing"
  <2>1. PICK h : h = Head(queue)
    OBVIOUS
  <2>2. /\ h.agent = a /\ h.type \in {"agent.failed", "agent.reused"} /\ Moves(a, "over")
        /\ Handled(h, <<>>, runtime) /\ stage[a] = "answering"
        /\ UNCHANGED <<runVars, turn, child, current, known, sequence, inner, agentPhase, attempt>>
    BY <1>2, <2>1 DEF Answered, acceptKept
  <2>3. IsFinal(h)
    <3>1. h \in Pending
      BY <2>2, HandledAlone DEF RunInv, QueueInv
    <3>2. h.type \in CallTypes
      BY <2>2 DEF CallTypes
    <3>3. CallFits(h)
      BY <3>1, <3>2 DEF RunInv, QueueInv, CallsWait
    <3> QED
      BY <2>2, <3>3 DEF CallFits, IsFinal
  <2> QED
    BY <2>2, <2>3, FinalRuns, FinalShown
<1> QED
  BY <1>1, <1>2

LEMMA TaskGoesOnKeeps ==
  ASSUME RuntimeTypes, view \in Snapshots, RunInv, NEW a \in Agents, TaskGoesOn(a)
  PROVE  /\ RunInv' /\ RuntimeTypes'
         /\ ViewInv /\ rejected = NoEvent /\ rejected' = NoEvent => ViewInv'
<1>1. CASE stage[a] = "starting"
  BY <1>1, StartedKeeps
<1>2. CASE stage[a] = "retrying"
  BY <1>2, RetriedKeeps
<1>3. CASE stage[a] \notin {"starting", "retrying"}
  <2>1. PICK h : h = Head(queue)
    OBVIOUS
  <2>2. /\ h.agent = a /\ IsFinal(h) /\ Moves(a, "over")
        /\ Handled(h, <<>>, runtime) /\ stage[a] = "finishing"
        /\ UNCHANGED <<runVars, turn, child, current, known, sequence, inner, agentPhase, attempt>>
    BY <1>3, <2>1 DEF TaskGoesOn
  <2> QED
    BY <2>2, FinalRuns, FinalShown
<1> QED
  BY <1>1, <1>2, <1>3

-------------------------------------------------------------------------------
(* Steps that leave the calls alone.                                         *)

\* What the runtime knows of one waiting event of a phase.
PhaseFits(e) ==
  /\ e.phase \in Phases
  /\ e.type = "phase.discovered" =>
       /\ e.phase \in Known /\ ~runtime[e.phase].entered
       /\ \A a \in Agents : agentPhase[a] # e.phase
       /\ IF e.phase = Nest THEN child = "discovering" ELSE Discovering(e.phase)
  /\ e.type = "phase.entered" =>
       /\ runtime[e.phase].entered /\ ~runtime[e.phase].sealed
       /\ runtime[e.phase].over => Waits("phase.failed", e.phase)
       /\ IF e.phase = Nest THEN child = "entering" ELSE turn = At("entering", e.phase)
  /\ e.type = "phase.completed" =>
       /\ runtime[e.phase].entered /\ runtime[e.phase].over
       /\ \A a \in Agents : agentPhase[a] = e.phase /\ a \notin ended => stage[a] = "admitting"
       /\ IF e.phase = Nest THEN child = "sealing"
          ELSE e.phase = current /\ (turn.at = "sealing" \/ main = "sealing")
  /\ e.type = "phase.failed" =>
       /\ runtime[e.phase].entered /\ runtime[e.phase].over /\ ending = "failing"
       /\ e.phase = known[visited]

PhasesWait == \A e \in Pending : e.type \in PhaseEvents => PhaseFits(e)

\* Event by event, what PhaseNames and the four waits say.
LEMMA PhasesWaiting ==
  PhasesWait <=>
    PhaseNames /\ DiscoveriesWait /\ EntriesWait /\ CompletionsWait /\ FailuresWait
<1>1. ASSUME PhasesWait
      PROVE  PhaseNames /\ DiscoveriesWait /\ EntriesWait /\ CompletionsWait /\ FailuresWait
  <2>1. PhaseNames
    BY <1>1 DEF PhasesWait, PhaseFits, PhaseNames
  <2>2. DiscoveriesWait
    BY <1>1 DEF PhasesWait, PhaseFits, DiscoveriesWait, Waits, PhaseEvents
  <2>3. EntriesWait
    BY <1>1 DEF PhasesWait, PhaseFits, EntriesWait, Waits, PhaseEvents
  <2>4. CompletionsWait
    BY <1>1 DEF PhasesWait, PhaseFits, CompletionsWait, Waits, PhaseEvents
  <2>5. FailuresWait
    BY <1>1 DEF PhasesWait, PhaseFits, FailuresWait, Waits, PhaseEvents
  <2> QED
    BY <2>1, <2>2, <2>3, <2>4, <2>5
<1>2. ASSUME PhaseNames, DiscoveriesWait, EntriesWait, CompletionsWait, FailuresWait,
             NEW e \in Pending, e.type \in PhaseEvents
      PROVE  PhaseFits(e)
  <2>1. e.phase \in Phases /\ Waits(e.type, e.phase)
    BY <1>2 DEF PhaseNames, Waits
  <2> QED
    BY <1>2, <2>1
    DEF PhaseFits, DiscoveriesWait, EntriesWait, CompletionsWait, FailuresWait
<1> QED
  BY <1>1, <1>2 DEF PhasesWait

callsAlone == UNCHANGED <<sequence, inner, agentPhase, stage, attempt, ended>>

\* What holds of the calls holds on while they stay and nothing of them comes or goes.
LEMMA CallsUntouched ==
  ASSUME RuntimeTypes, RunInv, NoCalls, callsAlone,
         Known \subseteq Known', aborted => aborted', child = "dead" => child' = "dead"
  PROVE  /\ CallsWait' /\ CallsFit' /\ StagesFit' /\ OneAccepted'
         /\ Outer' = Outer /\ (Busy(Outer)' <=> Busy(Outer))
<1> USE DEF callsAlone
<1>1. \A b \in Agents : Asks("agent.admitted", b)' <=> Asks("agent.admitted", b)
  BY NoCallsKeep DEF CallTypes
<1>2. CallsWait'
  BY DEF NoCalls, RunInv, QueueInv, CallsWait, CallFits
<1>3. CallsFit'
  BY DEF RunInv, StateInv, CallsFit
<1>4. StagesFit'
  BY <1>1 DEF RunInv, StateInv, StagesFit
<1>5. Outer' = Outer /\ OneAccepted' /\ (Busy(Outer)' <=> Busy(Outer))
  BY DEF RunInv, StateInv, OneAccepted, Outer, Busy
<1> QED
  BY <1>2, <1>3, <1>4, <1>5

\* The same, when only events of phases and of the run come and go.
LEMMA CallsUnseen ==
  ASSUME RuntimeTypes, ViewInv, NoCalls, callsAlone,
         view'.agents = view.agents, view'.attempts = view.attempts,
         view'.callIndex = view.callIndex, view'.phaseOf = view.phaseOf
  PROVE  AgentsShown' /\ IndicesShown' /\ AttemptsShown' /\ CallsShown'
<1> USE DEF callsAlone
<1>1. \A t \in CallTypes, b \in Agents : Asks(t, b)' <=> Asks(t, b)
  BY NoCallsKeep
<1>2. AgentsShown' /\ IndicesShown'
  BY DEF ViewInv, AgentsShown, IndicesShown, Admitted
<1>3. AttemptsShown'
  BY <1>1 DEF ViewInv, AttemptsShown, AttemptShown, CallTypes
<1>4. CallsShown'
  <2>1. ASSUME NEW e \in Pending', e.type \in CallTypes PROVE EventShown(e)'
    <3>1. EventShown(e)
      BY <2>1 DEF NoCalls, ViewInv, CallsShown
    <3> QED
      BY <3>1, <1>1 DEF EventShown, Admitted, CallTypes
  <2> QED
    BY <2>1 DEF CallsShown
<1> QED
  BY <1>2, <1>3, <1>4

\* RunInv by its parts.
LEMMA StepKeeps ==
  ASSUME Ordered(queue)', CallsWait', RunWaits', PhasesWait', ControlFits', PhasesFit', TurnFits',
         ChildFits', MainFits', CallsFit', StagesFit', OneAccepted', CountsFit'
  PROVE  RunInv'
<1>1. PhaseNames' /\ DiscoveriesWait' /\ EntriesWait' /\ CompletionsWait' /\ FailuresWait'
  <2>1. PhaseNames' /\ DiscoveriesWait'
    BY DEF PhasesWait, PhaseFits, PhaseNames, DiscoveriesWait, Waits, PhaseEvents
  <2>2. EntriesWait' /\ CompletionsWait'
    BY DEF PhasesWait, PhaseFits, EntriesWait, CompletionsWait, Waits, PhaseEvents
  <2>3. FailuresWait'
    BY DEF PhasesWait, PhaseFits, FailuresWait, Waits, PhaseEvents
  <2> QED
    BY <2>1, <2>2, <2>3
<1> QED
  BY <1>1 DEF RunInv, QueueInv, StateInv

\* The phases move on without their calls.
LEMMA CountsUntouched ==
  ASSUME RuntimeTypes, CountsFit, UNCHANGED <<agentPhase, ended>>,
         \A p \in Phases :
           /\ runtime'[p].active = runtime[p].active
           /\ runtime[p].over => runtime'[p].over
           /\ runtime'[p].sealed /\ ~runtime'[p].over => runtime[p].sealed \/ runtime[p].active # 0
  PROVE  CountsFit'
<1>1. \A p \in Phases : runtime[p].active \in Nat
  BY AgentNumbers DEF RuntimeTypes
<1> SUFFICES ASSUME NEW p \in Phases
             PROVE  /\ runtime'[p].active <= Cardinality({a \in Agents : agentPhase[a] = p})
                    /\ ~runtime'[p].over =>
                         /\ runtime'[p].active =
                              Cardinality({a \in Agents : agentPhase[a] = p /\ a \notin ended})
                         /\ runtime'[p].sealed => runtime'[p].active > 0
  BY DEF CountsFit
<1>2. PICK x, y : /\ x = Cardinality({a \in Agents : agentPhase[a] = p})
                  /\ y = Cardinality({a \in Agents : agentPhase[a] = p /\ a \notin ended})
  OBVIOUS
<1>3. /\ runtime[p].active <= x
      /\ ~runtime[p].over => /\ runtime[p].active = y
                             /\ runtime[p].sealed => runtime[p].active > 0
  BY <1>2 DEF CountsFit
<1> QED
  BY <1>1, <1>2, <1>3

PhaseRecords ==
  [entered : BOOLEAN, sealed : BOOLEAN, over : BOOLEAN, active : 0..Cardinality(Agents)]

\* What sealing and entering a phase change of it.
LEMMA SealsFacts ==
  ASSUME RuntimeTypes, NEW p, p \in Phases \cup {NoPhase}, NEW r, r = Seals(p)
  PROVE  /\ r \in [Phases -> PhaseRecords]
         /\ \A q \in Phases :
              /\ r[q].entered = runtime[q].entered /\ r[q].active = runtime[q].active
              /\ r[q].sealed <=> runtime[q].sealed \/ (q = p /\ ~runtime[p].over)
              /\ r[q].over <=> runtime[q].over \/ (q = p /\ MayClose(p))
<1>1. runtime \in [Phases -> PhaseRecords] /\ NoPhase \notin Phases
  BY StateAssumption DEF RuntimeTypes, PhaseRecords
<1>2. CASE p = NoPhase \/ runtime[p].over
  BY <1>1, <1>2 DEF Seals, MayClose
<1>3. CASE ~(p = NoPhase \/ runtime[p].over)
  <2>1. p \in Phases /\ MayClose(p) \in BOOLEAN
    BY <1>3 DEF MayClose
  <2>2. PICK x : x = [runtime[p] EXCEPT !.sealed = TRUE, !.over = MayClose(p)]
    OBVIOUS
  <2>3. /\ x \in PhaseRecords /\ x.entered = runtime[p].entered /\ x.active = runtime[p].active
        /\ x.sealed = TRUE /\ x.over = MayClose(p)
    BY <1>1, <2>1, <2>2 DEF PhaseRecords
  <2>4. r = [runtime EXCEPT ![p] = x]
    BY <1>1, <1>3, <2>1, <2>2 DEF Seals, PhaseRecords
  <2> QED
    BY <1>1, <1>3, <2>1, <2>3, <2>4
<1> QED
  BY <1>2, <1>3

\* Two states of the phases that differ in that one is entered.
OneEntered(r, s, p) ==
  /\ s \in [Phases -> PhaseRecords]
  /\ \A q \in Phases :
       /\ s[q].sealed <=> r[q].sealed
       /\ s[q].over <=> r[q].over
       /\ s[q].active = r[q].active
       /\ s[q].entered <=> r[q].entered \/ q = p

LEMMA EntersFacts ==
  ASSUME NEW r \in [Phases -> PhaseRecords], NEW p \in Phases
  PROVE  OneEntered(r, [r EXCEPT ![p].entered = TRUE], p)
<1>0. PICK s : s = [r EXCEPT ![p].entered = TRUE]
  OBVIOUS
<1>1. PICK x : x = [r[p] EXCEPT !.entered = TRUE]
  OBVIOUS
<1>2. /\ x \in PhaseRecords /\ x.sealed = r[p].sealed /\ x.over = r[p].over
      /\ x.active = r[p].active /\ x.entered = TRUE
  BY <1>1 DEF PhaseRecords
<1>3. s = [r EXCEPT ![p] = x]
  BY <1>0, <1>1
<1>4. OneEntered(r, s, p)
  BY <1>2, <1>3 DEF OneEntered
<1> QED
  BY <1>0, <1>4

\* A new title is recorded.
LEMMA KnownGrows ==
  ASSUME RuntimeTypes, NEW p \in Phases, p \notin Known, known' = Append(known, p)
  PROVE  /\ known' \in Seq(Phases) /\ Known' = Known \cup {p}
         /\ visited \in 0..Len(known')
         /\ visited > 0 => known'[visited] = known[visited]
<1>1. /\ known \in Seq(Phases) /\ visited \in 0..Len(known) /\ Len(known) \in Nat
      /\ DOMAIN known = 1..Len(known)
  BY DEF RuntimeTypes
<1>2. /\ known' \in Seq(Phases) /\ Len(known') = Len(known) + 1
      /\ DOMAIN known' = 1..(Len(known) + 1)
      /\ \A i \in 1..Len(known) : known'[i] = known[i]
      /\ known'[Len(known) + 1] = p
  BY <1>1
<1>3. \A i \in 1..(Len(known) + 1) : i \in 1..Len(known) \/ i = Len(known) + 1
  BY <1>1
<1>4. \A i \in 1..Len(known) : i \in 1..(Len(known) + 1)
  BY <1>1
<1>5. Len(known) + 1 \in 1..(Len(known) + 1)
  BY <1>1
<1>6. Known' = Known \cup {p}
  <2>1. Known' \subseteq Known \cup {p}
    BY <1>1, <1>2, <1>3 DEF Known
  <2>2. Known \subseteq Known'
    BY <1>1, <1>2, <1>4 DEF Known
  <2>3. p \in Known'
    BY <1>2, <1>5 DEF Known
  <2> QED
    BY <2>1, <2>2, <2>3
<1> QED
  BY <1>1, <1>2, <1>6

\* A phase that may close has no call under way.
LEMMA NoRoom ==
  ASSUME RuntimeTypes, CountsFit, NEW p \in Phases, MayClose(p)
  PROVE  \A a \in Agents : agentPhase[a] = p => a \in ended
<1>1. PICK S : S = {a \in Agents : agentPhase[a] = p /\ a \notin ended}
  OBVIOUS
<1>2. Cardinality(S) = 0
  BY <1>1 DEF CountsFit, MayClose
<1>3. IsFiniteSet(S)
  BY <1>1, StateAssumption, FS_Subset
<1>4. S = {}
  BY <1>2, <1>3, FS_EmptySet
<1> QED
  BY <1>1, <1>4

-------------------------------------------------------------------------------
(* What the snapshot shows of the phases, when events of phases come and go.   *)

WaitsIn(S, t, p) == \E e \in S : e.type = t /\ e.phase = p

\* PhasesShown of one phase, for the statuses v and the waiting events S.
Shown(v, S, p) ==
  /\ v[p] = "absent" <=> p \notin Known \/ WaitsIn(S, "phase.discovered", p)
  /\ runtime[p].entered /\ ~WaitsIn(S, "phase.entered", p) =>
       IF runtime[p].over
       THEN WaitsIn(S, "phase.completed", p) \/ WaitsIn(S, "phase.failed", p) \/ v[p] # "running"
       ELSE v[p] = "running"
  /\ v[p] = "running" => runtime[p].entered /\ ~WaitsIn(S, "phase.entered", p)

\* PhasesShown by Shown.
LEMMA ShownNow == PhasesShown <=> \A p \in Phases : Shown(view.phases, Pending, p)
BY DEF PhasesShown, Shown, Waits, WaitsIn

\* The events of phases S that come with a step say what it does to the phases.
Announces(S) ==
  \A p \in Phases :
    /\ p \in Known' <=> p \in Known \/ WaitsIn(S, "phase.discovered", p)
    /\ WaitsIn(S, "phase.discovered", p) => p \notin Known
    /\ runtime'[p].entered <=> runtime[p].entered \/ WaitsIn(S, "phase.entered", p)
    /\ WaitsIn(S, "phase.entered", p) => ~runtime[p].entered
    /\ runtime'[p].over <=>
         runtime[p].over \/ WaitsIn(S, "phase.completed", p) \/ WaitsIn(S, "phase.failed", p)

\* If the snapshot was true of the phases before, it is with what was announced.
LEMMA AnnouncedShown ==
  ASSUME NEW S, NEW T, \A p \in Phases : Shown(view'.phases, S, p), Announces(T),
         \A t \in PhaseEvents, p \in Phases : Waits(t, p)' <=> WaitsIn(S, t, p) \/ WaitsIn(T, t, p)
  PROVE  PhasesShown'
<1>1. ASSUME NEW p \in Phases
      PROVE  /\ view'.phases[p] = "absent" <=>
                  p \notin Known' \/ Waits("phase.discovered", p)'
             /\ runtime'[p].entered /\ ~Waits("phase.entered", p)' =>
                  IF runtime'[p].over
                  THEN \/ Waits("phase.completed", p)' \/ Waits("phase.failed", p)'
                       \/ view'.phases[p] # "running"
                  ELSE view'.phases[p] = "running"
             /\ view'.phases[p] = "running" =>
                  runtime'[p].entered /\ ~Waits("phase.entered", p)'
  BY DEF Shown, Announces, PhaseEvents
<1> QED
  BY <1>1 DEF PhasesShown

\* The head of the queue, applied, with the phases as they were.
LEMMA TakenShown ==
  ASSUME RuntimeTypes, RunInv, ViewInv, NEW h, First(h), h.type \in PhaseEvents, h.phase \in Phases,
         NEW v, \A q \in Phases :
           v[q] = IF q = h.phase THEN PhaseStatusAfter[h.type] ELSE view.phases[q]
  PROVE  \A q \in Phases : Shown(v, Pending \ {h}, q)
<1>1. PICK p \in Phases : p = h.phase
  OBVIOUS
<1>2. ASSUME NEW q \in Phases \ {p} PROVE Shown(v, Pending \ {h}, q)
  <2>1. \A t : WaitsIn(Pending \ {h}, t, q) <=> WaitsIn(Pending, t, q)
    BY <1>1 DEF WaitsIn
  <2>2. Shown(view.phases, Pending, q) /\ v[q] = view.phases[q]
    BY <1>1, ShownNow DEF ViewInv
  <2> QED
    BY <2>1, <2>2 DEF Shown
<1>3. /\ h \in Pending /\ Waits(h.type, p)
      /\ \A t \in PhaseEvents : t # h.type => (WaitsIn(Pending \ {h}, t, p) <=> Waits(t, p))
      /\ \A f \in Pending \ {h} : f.type \in PhaseEvents /\ f.phase = p => Rank(h.type) < Rank(f.type)
  BY <1>1, AfterHead DEF First, Waits, WaitsIn
<1>4. ~WaitsIn(Pending \ {h}, h.type, p)
  BY <1>3, RankNat DEF WaitsIn
<1>5. Shown(v, Pending \ {h}, p)
  <2>1. CASE h.type = "phase.discovered"
    <3>1. v[p] = "pending" /\ ~runtime[p].entered /\ p \in Known
      BY <1>1, <1>3, <2>1
      DEF PhaseStatusAfter, PhaseEvents, RunInv, QueueInv, DiscoveriesWait
    <3> QED
      BY <1>4, <2>1, <3>1 DEF Shown
  <2>2. CASE h.type = "phase.entered"
    <3>1. /\ v[p] = "running" /\ runtime[p].entered /\ p \in Known
          /\ runtime[p].over => Waits("phase.failed", p)
      BY <1>1, <1>3, <2>2
      DEF PhaseStatusAfter, PhaseEvents, RunInv, QueueInv, EntriesWait, StateInv, PhasesFit
    <3>2. ~WaitsIn(Pending \ {h}, "phase.discovered", p)
      BY <1>3, <2>2, Ranks DEF WaitsIn, PhaseEvents
    <3>3. runtime[p].over => WaitsIn(Pending \ {h}, "phase.failed", p)
      BY <1>3, <2>2, <3>1 DEF PhaseEvents
    <3> QED
      BY <1>4, <2>2, <3>1, <3>2, <3>3 DEF Shown
  <2>3. CASE h.type \in {"phase.completed", "phase.failed"}
    <3>1. /\ v[p] \notin {"absent", "running"} /\ runtime[p].entered /\ runtime[p].over
          /\ p \in Known
      BY <1>1, <1>3, <2>3
      DEF PhaseStatusAfter, PhaseEvents, RunInv, QueueInv, CompletionsWait, FailuresWait, StateInv,
          PhasesFit
    <3>2. ~WaitsIn(Pending \ {h}, "phase.discovered", p)
      BY <1>3, <2>3, Ranks DEF WaitsIn, PhaseEvents
    <3> QED
      BY <3>1, <3>2 DEF Shown
  <2> QED
    BY <2>1, <2>2, <2>3 DEF PhaseEvents
<1> QED
  BY <1>1, <1>2, <1>5

\* A handled event of a phase is accepted, and is all the reducer sees.
LEMMA PhaseRead ==
  ASSUME RuntimeTypes, view \in Snapshots, RunInv, ViewInv, rejected = NoEvent,
         NEW h, First(h), h.type \in PhaseEvents, Replays(<<h>>)
  PROVE  /\ rejected' = NoEvent /\ view' \in Snapshots /\ h.phase \in Phases
         /\ view'.agents = view.agents /\ view'.attempts = view.attempts
         /\ view'.callIndex = view.callIndex /\ view'.phaseOf = view.phaseOf
         /\ view'.status = view.status
         /\ \A q \in Phases :
              view'.phases[q] = IF q = h.phase THEN PhaseStatusAfter[h.type] ELSE view.phases[q]
<1>1. h \in Pending /\ h.phase \in Phases
  BY DEF First, RunInv, QueueInv, PhaseNames
<1>2. Accepts(view, h)
  BY <1>1, PhaseAccepted
<1>3. rejected' = NoEvent /\ view' = Apply(view, h)
  BY <1>2, OneReplayed
<1>4. PICK x : x = [view.phases EXCEPT ![h.phase] = PhaseStatusAfter[h.type]]
  OBVIOUS
<1>5. view' = [view EXCEPT !.phases = x]
  BY <1>3, <1>4, PhaseApplied
<1>6. PhaseStatusAfter[h.type] \in PhaseStatuses
  BY DEF PhaseStatusAfter, PhaseEvents, PhaseStatuses
<1>7. /\ x \in [Phases -> PhaseStatuses]
      /\ \A q \in Phases : x[q] = IF q = h.phase THEN PhaseStatusAfter[h.type] ELSE view.phases[q]
  BY <1>1, <1>4, <1>6 DEF Snapshots
<1> QED
  BY <1>1, <1>3, <1>5, <1>7 DEF Snapshots

\* Sets of events of phases.
OfPhases(S) == \A e \in S : e.type \in PhaseEvents

\* The snapshot, when events of phases are emitted, and when one is handled.
LEMMA EmittedPhases ==
  ASSUME RuntimeTypes, ViewInv, NEW S, OfPhases(S), Pending' = Pending \cup S, view' = view,
         Announces(S), callsAlone
  PROVE  ViewInv'
<1>1. NoCalls
  BY TypesApart DEF OfPhases, NoCalls
<1>2. AgentsShown' /\ IndicesShown' /\ AttemptsShown' /\ CallsShown'
  BY <1>1, CallsUnseen
<1>3. \A p \in Phases : Shown(view'.phases, Pending, p)
  BY ShownNow DEF ViewInv
<1>4. \A t \in PhaseEvents, p \in Phases :
        Waits(t, p)' <=> WaitsIn(Pending, t, p) \/ WaitsIn(S, t, p)
  BY DEF Waits, WaitsIn
<1>5. PhasesShown'
  BY <1>3, <1>4, AnnouncedShown
<1> QED
  BY <1>2, <1>5 DEF ViewInv

LEMMA HandledPhases ==
  ASSUME RuntimeTypes, view \in Snapshots, RunInv, ViewInv, rejected = NoEvent,
         NEW h, First(h), h.type \in PhaseEvents, Replays(<<h>>),
         NEW S, OfPhases(S), Pending' = (Pending \ {h}) \cup S, Announces(S), callsAlone
  PROVE  ViewInv'
<1>1. NoCalls
  BY TypesApart DEF OfPhases, NoCalls
<1>2. /\ rejected' = NoEvent /\ h.phase \in Phases
      /\ view'.agents = view.agents /\ view'.attempts = view.attempts
      /\ view'.callIndex = view.callIndex /\ view'.phaseOf = view.phaseOf
      /\ view'.status = view.status
      /\ \A q \in Phases :
           view'.phases[q] = IF q = h.phase THEN PhaseStatusAfter[h.type] ELSE view.phases[q]
  BY PhaseRead
<1>3. AgentsShown' /\ IndicesShown' /\ AttemptsShown' /\ CallsShown'
  BY <1>1, <1>2, CallsUnseen
<1>4. \A p \in Phases : Shown(view'.phases, Pending \ {h}, p)
  BY <1>2, TakenShown
<1>5. \A t \in PhaseEvents, p \in Phases :
        Waits(t, p)' <=> WaitsIn(Pending \ {h}, t, p) \/ WaitsIn(S, t, p)
  BY DEF Waits, WaitsIn
<1>6. PhasesShown'
  BY <1>4, <1>5, AnnouncedShown
<1> QED
  BY <1>2, <1>3, <1>6 DEF ViewInv
===============================================================================
