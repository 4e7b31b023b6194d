---------------------------- MODULE RunEventProofs ----------------------------
(***************************************************************************)
(* The events of a run: what its snapshot says of them (RunProjection), on   *)
(* the lemmas of RunQueueProofs, and the safety of their history for any     *)
(* number of readers and any log size, with its refinement of the event      *)
(* stream (RunHistory).                                                     *)
(*                                                                         *)
(* RunProjection.  The actions of the workflow's own messages, of the run     *)
(* and of admissions keep the invariant; the head of the queue reads well     *)
(* (HeadReads), and the properties follow.                                   *)
(***************************************************************************)
EXTENDS RunHistory, RunQueueProofs

-------------------------------------------------------------------------------
(* The message tail of the workflow goes on.                                 *)

\* Of the workflow's phases nothing waits outside H, but for what #fail emitted.
QuietBut(H) ==
  \A e \in Pending \ H : e.type \in PhaseEvents /\ e.phase # Nest => e.type = "phase.failed"

\* The workflow awaits nothing when its turn is free.
LEMMA Quiet ==
  ASSUME RuntimeTypes, RunInv, turn = Free, ~Busy(Outer), main \notin {"declaring", "sealing"}
  PROVE  QuietBut({})
<1>1. SUFFICES ASSUME NEW e \in Pending, e.type \in PhaseEvents, e.phase # Nest,
                      e.type # "phase.failed"
               PROVE  FALSE
  BY DEF QuietBut
<1>2. e.phase \in Phases /\ Waits(e.type, e.phase) /\ turn.at = "free"
  BY <1>1 DEF RunInv, QueueInv, PhaseNames, Waits, Free
<1>3. e.type # "phase.discovered"
  BY <1>1, <1>2 DEF RunInv, QueueInv, DiscoveriesWait, Discovering, Busy, Accepting
<1>4. e.type # "phase.entered"
  BY <1>1, <1>2 DEF RunInv, QueueInv, EntriesWait, At
<1>5. e.type # "phase.completed"
  BY <1>1, <1>2 DEF RunInv, QueueInv, CompletionsWait
<1> QED
  BY <1>1, <1>3, <1>4, <1>5 DEF PhaseEvents

\* The event a phase message awaits.
Awaited(h) ==
  /\ turn.at = "discovering" => h.type = "phase.discovered" /\ h.phase = turn.phase
  /\ turn.at = "sealing" => h.type = "phase.completed" /\ h.phase = current
  /\ turn.at = "entering" => h.type = "phase.entered" /\ h.phase = turn.phase

\* And nothing else while it awaits the head.
LEMMA QuietAfter ==
  ASSUME RuntimeTypes, RunInv, turn # Free, NEW h, First(h), Awaited(h), h.type \in PhaseEvents
  PROVE  QuietBut({h}) /\ ~Busy(Outer) /\ main \notin {"starting", "declaring"} \cup Returned
<1>0. /\ ~Busy(Outer) /\ main \notin {"starting", "declaring"} \cup Returned
      /\ main # "sealing"
  BY DEF RunInv, StateInv, TurnFits, MainFits, Returned
<1>1. SUFFICES ASSUME NEW e \in Pending \ {h}, e.type \in PhaseEvents, e.phase # Nest,
                      e.type # "phase.failed"
               PROVE  FALSE
  BY <1>0 DEF QuietBut
<1>2. e.phase \in Phases /\ Waits(e.type, e.phase)
  BY <1>1 DEF RunInv, QueueInv, PhaseNames, Waits
<1>3. ~(h.type = e.type /\ h.phase = e.phase)
  BY <1>1, AfterHead, RankNat
<1>4. e.type # "phase.discovered"
  BY <1>0, <1>1, <1>2, <1>3
  DEF RunInv, QueueInv, DiscoveriesWait, Discovering, Busy, Accepting, Awaited
<1>5. e.type # "phase.entered"
  BY <1>1, <1>2, <1>3 DEF RunInv, QueueInv, EntriesWait, At, Awaited
<1>6. e.type # "phase.completed"
  BY <1>0, <1>1, <1>2, <1>3 DEF RunInv, QueueInv, CompletionsWait, Awaited
<1> QED
  BY <1>1, <1>4, <1>5, <1>6 DEF PhaseEvents

\* The phases only move forward.
Onward ==
  \A q \in Phases :
    /\ runtime[q].entered => runtime'[q].entered
    /\ runtime[q].over => runtime'[q].over

\* The record of a phase and what it says.
LEMMA PhaseFields ==
  ASSUME RuntimeTypes
  PROVE  /\ runtime \in [Phases -> PhaseRecords]
         /\ \A q \in Phases :
              /\ runtime[q] \in PhaseRecords
              /\ runtime[q].entered \in BOOLEAN /\ runtime[q].sealed \in BOOLEAN
              /\ runtime[q].over \in BOOLEAN
<1>1. runtime \in [Phases -> PhaseRecords]
  BY DEF RuntimeTypes, PhaseRecords
<1>2. ASSUME NEW x \in PhaseRecords
      PROVE  x.entered \in BOOLEAN /\ x.sealed \in BOOLEAN /\ x.over \in BOOLEAN
  BY DEF PhaseRecords
<1> QED BY <1>1, <1>2

\* The waiting events of phases fit what a step of the workflow makes of them.
LEMMA WorkflowWaits ==
  ASSUME RuntimeTypes, RunInv, NEW H, NEW S, QuietBut(H), Pending' = (Pending \ H) \cup S,
         \A x \in H : x.type \in PhaseEvents => x.phase # Nest,
         \A x \in S : PhaseFits(x)', callsAlone, Onward,
         UNCHANGED <<child, ending, visited>>, Known \subseteq Known',
         visited > 0 => known'[visited] = known[visited],
         runtime'[Nest].entered = runtime[Nest].entered,
         runtime'[Nest].sealed = runtime[Nest].sealed, runtime'[Nest].over = runtime[Nest].over
  PROVE  PhasesWait'
<1>1. SUFFICES ASSUME NEW e \in Pending \ H, e.type \in PhaseEvents PROVE PhaseFits(e)'
  BY DEF PhasesWait
<1>2. PhaseFits(e)
  BY <1>1, PhasesWaiting DEF RunInv, QueueInv, PhasesWait
<1>3. CASE e.phase = Nest
  <2>1. Waits("phase.failed", Nest) => Waits("phase.failed", Nest)'
    BY DEF Waits, PhaseEvents
  <2>2. e.type = "phase.failed" => visited > 0
    BY <1>2 DEF PhaseFits, RunInv, StateInv, ControlFits
  <2>3. Nest \in Phases
    BY ProjectionAssumption
  <2> QED
    BY <1>2, <1>3, <2>1, <2>2, <2>3 DEF PhaseFits, Onward, callsAlone
<1>4. CASE e.phase # Nest
  <2>1. e.type = "phase.failed"
    BY <1>1, <1>4 DEF QuietBut
  <2>2. visited > 0
    BY <1>2, <2>1 DEF PhaseFits, RunInv, StateInv, ControlFits
  <2> QED
    BY <1>2, <2>1, <2>2 DEF PhaseFits, Onward
<1> QED
  BY <1>3, <1>4

\* The ways SwitchesTo and EntersFrom leave the phases, and the event they emit.
Switched(p, S) ==
  \/ /\ p = current /\ UNCHANGED <<current, runtime>> /\ turn' = Free /\ S = {}
  \/ /\ MayClose(current) /\ UNCHANGED current /\ turn' = At("sealing", p)
     /\ runtime' = Seals(current) /\ S = {Completed(current)}
  \/ /\ ~MayClose(current) /\ current' = p /\ turn' = Free /\ runtime[p].entered
     /\ runtime' = Seals(current) /\ S = {}
  \/ /\ ~MayClose(current) /\ current' = p /\ turn' = At("entering", p) /\ ~runtime[p].entered
     /\ runtime' = [Seals(current) EXCEPT ![p].entered = TRUE] /\ S = {Entered(p)}

\* What that means for each phase.
LEMMA SwitchedPhases ==
  ASSUME RuntimeTypes, RunInv, NEW p \in Phases \ {Nest}, NEW S, Switched(p, S)
  PROVE  /\ runtime' \in [Phases -> PhaseRecords]
         /\ \A q \in Phases :
              /\ runtime'[q].active = runtime[q].active
              /\ runtime[q].sealed => runtime'[q].sealed
              /\ runtime'[q].sealed => runtime[q].sealed \/ q = current
              /\ runtime'[q].sealed /\ ~runtime'[q].over => runtime[q].sealed \/ runtime[q].active # 0
              /\ runtime'[q].entered <=> runtime[q].entered \/ WaitsIn(S, "phase.entered", q)
              /\ runtime'[q].over <=> runtime[q].over \/ WaitsIn(S, "phase.completed", q)
              /\ WaitsIn(S, "phase.completed", q) => runtime'[q].sealed
              /\ q = current => runtime'[q].sealed \/ runtime'[q].over \/ q = current'
<1>0. /\ runtime \in [Phases -> PhaseRecords] /\ current \in Phases \cup {NoPhase}
      /\ NoPhase \notin Phases
      /\ \A q \in Phases : q = current => runtime[q].entered
  BY StateAssumption DEF RuntimeTypes, PhaseRecords, RunInv, StateInv, TurnFits
<1>1. PICK r : r = Seals(current)
  OBVIOUS
<1>2. /\ r \in [Phases -> PhaseRecords]
      /\ \A q \in Phases :
           /\ r[q].entered = runtime[q].entered /\ r[q].active = runtime[q].active
           /\ r[q].sealed <=> runtime[q].sealed \/ (q = current /\ ~runtime[current].over)
           /\ r[q].over <=> runtime[q].over \/ (q = current /\ MayClose(current))
  BY <1>0, <1>1, SealsFacts
<1>3. \A q \in Phases : q = current /\ ~MayClose(current) /\ ~runtime[q].over => runtime[q].active # 0
  BY <1>0 DEF MayClose
<1>4. MayClose(current) => ~runtime[current].over
  BY DEF MayClose
<1>5. CASE p = current /\ UNCHANGED <<current, runtime>> /\ turn' = Free /\ S = {}
  BY <1>0, <1>5 DEF WaitsIn
<1>6. CASE /\ MayClose(current) /\ UNCHANGED current /\ turn' = At("sealing", p)
           /\ runtime' = Seals(current) /\ S = {Completed(current)}
  <2>1. \A t, q : WaitsIn(S, t, q) <=> t = "phase.completed" /\ q = current
    BY <1>6 DEF WaitsIn, Completed, PhaseEvent
  <2> QED
    BY <1>0, <1>1, <1>2, <1>4, <1>6, <2>1
<1>7. CASE /\ ~MayClose(current) /\ current' = p /\ turn' = Free /\ runtime[p].entered
           /\ runtime' = Seals(current) /\ S = {}
  <2>1. \A t, q : ~WaitsIn(S, t, q)
    BY <1>7 DEF WaitsIn
  <2> QED
    BY <1>0, <1>1, <1>2, <1>3, <1>7, <2>1
<1>8. CASE /\ ~MayClose(current) /\ current' = p /\ turn' = At("entering", p)
           /\ ~runtime[p].entered
           /\ runtime' = [Seals(current) EXCEPT ![p].entered = TRUE] /\ S = {Entered(p)}
  <2>1. \A t, q : WaitsIn(S, t, q) <=> t = "phase.entered" /\ q = p
    BY <1>8 DEF WaitsIn, Entered, PhaseEvent
  <2>2. PICK s : s = [r EXCEPT ![p].entered = TRUE]
    OBVIOUS
  <2>3. OneEntered(r, s, p)
    BY <1>2, <2>2, EntersFacts
  <2>4. runtime' = s
    BY <1>1, <1>8, <2>2
  <2>5. \A q \in Phases :
          /\ s[q].active = runtime[q].active
          /\ s[q].sealed <=> runtime[q].sealed \/ (q = current /\ ~runtime[current].over)
          /\ s[q].over <=> runtime[q].over
          /\ s[q].entered <=> runtime[q].entered \/ q = p
    BY <1>2, <1>8, <2>3 DEF OneEntered
  <2>6. ~MayClose(current) /\ s \in [Phases -> PhaseRecords]
    BY <1>8, <2>3 DEF OneEntered
  <2> QED
    BY <1>3, <2>1, <2>4, <2>5, <2>6
<1> QED
  BY <1>5, <1>6, <1>7, <1>8 DEF Switched

\* Where it leaves the turn.
LEMMA SwitchedTurn ==
  ASSUME RuntimeTypes, RunInv, NEW p \in Phases \ {Nest}, p \in Known, NEW S, Switched(p, S),
         known' = known
  PROVE  /\ current' \in Phases \cup {NoPhase}
         /\ turn' \in [at : {"free", "discovering", "sealing", "entering"},
                       phase : Phases \cup {NoPhase}]
         /\ current' # NoPhase => current' \in {current, p} \ {Nest}
         /\ current' = p /\ p # current => runtime[p].entered \/ WaitsIn(S, "phase.entered", p)
         /\ turn' = Free \/ turn' \in {At("sealing", p), At("entering", p)}
         /\ turn' = At("sealing", p) => current' # NoPhase
         /\ turn' = At("entering", p) => current' = p
         /\ OfPhases(S)
         /\ \A x \in S : \/ /\ x = Completed(current) /\ MayClose(current) /\ current \in Phases \ {Nest}
                            /\ turn'.at = "sealing" /\ current' = current
                         \/ x = Entered(p) /\ ~runtime[p].entered /\ turn' = At("entering", p)
<1>0. /\ current \in Phases \cup {NoPhase} /\ NoPhase \notin Phases /\ Nest \in Phases
      /\ current # NoPhase => current # Nest
  BY StateAssumption, ProjectionAssumption DEF RuntimeTypes, RunInv, StateInv, TurnFits
<1>1. CASE p = current /\ UNCHANGED <<current, runtime>> /\ turn' = Free /\ S = {}
  BY <1>0, <1>1 DEF Free, OfPhases, At
<1>2. CASE /\ MayClose(current) /\ UNCHANGED current /\ turn' = At("sealing", p)
           /\ runtime' = Seals(current) /\ S = {Completed(current)}
  BY <1>0, <1>2 DEF MayClose, At, OfPhases, Completed, PhaseEvent, PhaseEvents
<1>3. CASE /\ ~MayClose(current) /\ current' = p /\ turn' = Free /\ runtime[p].entered
           /\ runtime' = Seals(current) /\ S = {}
  BY <1>0, <1>3 DEF Free, OfPhases, At
<1>4. CASE /\ ~MayClose(current) /\ current' = p /\ turn' = At("entering", p)
           /\ ~runtime[p].entered
           /\ runtime' = [Seals(current) EXCEPT ![p].entered = TRUE] /\ S = {Entered(p)}
  <2>1. WaitsIn(S, "phase.entered", p)
    BY <1>4 DEF WaitsIn, Entered, PhaseEvent
  <2> QED
    BY <1>0, <1>4, <2>1 DEF At, OfPhases, Entered, PhaseEvent, PhaseEvents
<1> QED
  BY <1>1, <1>2, <1>3, <1>4 DEF Switched

\* Its event may follow what waits.
LEMMA SwitchFollows ==
  ASSUME RuntimeTypes, RunInv, NEW p \in Phases \ {Nest}, p \in Known, NEW S, Switched(p, S),
         known' = known, NEW H, QuietBut(H)
  PROVE  \A e \in Pending \ H, x \in S : MayPrecede(e, x)
<1> SUFFICES ASSUME NEW e \in Pending \ H, NEW x \in S PROVE MayPrecede(e, x)
  OBVIOUS
<1>1. \/ /\ x = Completed(current) /\ MayClose(current) /\ current \in Phases \ {Nest}
      \/ x = Entered(p) /\ ~runtime[p].entered
  BY SwitchedTurn
<1>2. /\ x.type \in {"phase.completed", "phase.entered"} /\ x.type \in PhaseEvents
      /\ x.phase \in Phases \ {Nest}
      /\ x.type = "phase.completed" => x.phase = current /\ MayClose(x.phase)
      /\ x.type = "phase.entered" => ~runtime[x.phase].entered
  BY <1>1 DEF Completed, Entered, PhaseEvent, PhaseEvents
<1>3. ASSUME e.type \in PhaseEvents, e.phase = x.phase PROVE FALSE
  <2>1. e.type = "phase.failed"
    BY <1>2, <1>3 DEF QuietBut
  <2>2. runtime[x.phase].entered /\ runtime[x.phase].over
    BY <1>2, <1>3, <2>1 DEF RunInv, QueueInv, FailuresWait, Waits
  <2> QED
    BY <1>2, <2>2 DEF MayClose
<1>4. ASSUME e.type = "agent.admitted", x.type = "phase.completed", e.phase = x.phase PROVE FALSE
  <2>1. e.agent \in Agents /\ e.agent \notin ended /\ agentPhase[e.agent] = x.phase
    BY <1>4 DEF RunInv, QueueInv, CallsWait, CallFits, CallTypes
  <2> QED
    BY <1>2, <1>4, <2>1, NoRoom DEF RunInv, StateInv
<1> QED
  BY <1>2, <1>3, <1>4, TypesApart DEF MayPrecede

\* RunInv is kept.
LEMMA SwitchKeeps ==
  ASSUME RuntimeTypes, RunInv, NEW p \in Phases \ {Nest}, p \in Known, NEW S, Switched(p, S),
         NEW H, QuietBut(H), OfPhases(H), \A x \in H : x.phase # Nest,
         Pending' = (Pending \ H) \cup S, Ordered(queue)',
         ~Busy(Outer), main \notin {"starting", "declaring"} \cup Returned,
         UNCHANGED <<up, runVars, child, known>>, callsAlone
  PROVE  RunInv' /\ RuntimeTypes' /\ OfPhases(S) /\ Announces(S)
<1> USE DEF runVars
<1>1. /\ runtime' \in [Phases -> PhaseRecords]
      /\ \A q \in Phases :
           /\ runtime'[q].active = runtime[q].active
           /\ runtime[q].sealed => runtime'[q].sealed
           /\ runtime'[q].sealed => runtime[q].sealed \/ q = current
           /\ runtime'[q].sealed /\ ~runtime'[q].over => runtime[q].sealed \/ runtime[q].active # 0
           /\ runtime'[q].entered <=> runtime[q].entered \/ WaitsIn(S, "phase.entered", q)
           /\ runtime'[q].over <=> runtime[q].over \/ WaitsIn(S, "phase.completed", q)
           /\ WaitsIn(S, "phase.completed", q) => runtime'[q].sealed
           /\ q = current => runtime'[q].sealed \/ runtime'[q].over \/ q = current'
  BY SwitchedPhases
<1>2. /\ current' \in Phases \cup {NoPhase}
      /\ turn' \in [at : {"free", "discovering", "sealing", "entering"},
                    phase : Phases \cup {NoPhase}]
      /\ current' # NoPhase => current' \in {current, p} \ {Nest}
      /\ current' = p /\ p # current => runtime[p].entered \/ WaitsIn(S, "phase.entered", p)
      /\ turn' = Free \/ turn' \in {At("sealing", p), At("entering", p)}
      /\ turn' = At("sealing", p) => current' # NoPhase
      /\ turn' = At("entering", p) => current' = p
      /\ OfPhases(S)
      /\ \A x \in S : \/ /\ x = Completed(current) /\ MayClose(current)
                         /\ current \in Phases \ {Nest}
                         /\ turn'.at = "sealing" /\ current' = current
                      \/ x = Entered(p) /\ ~runtime[p].entered /\ turn' = At("entering", p)
  BY SwitchedTurn
<1>3. \A q :
        /\ WaitsIn(S, "phase.entered", q) => q = p /\ ~runtime[p].entered
        /\ WaitsIn(S, "phase.completed", q) =>
             /\ q = current /\ MayClose(q) /\ q # Nest
             /\ runtime[q].entered /\ ~runtime[q].over
        /\ ~WaitsIn(S, "phase.discovered", q) /\ ~WaitsIn(S, "phase.failed", q)
  BY <1>2 DEF WaitsIn, Completed, Entered, PhaseEvent, MayClose
<1>4. /\ ~aborted' <=> ~aborted
      /\ Known' = Known
      /\ \A q \in Phases : q = current => runtime[q].entered
      /\ Nest \in Phases /\ NoPhase \notin Phases
      /\ current # NoPhase => current # Nest
  BY ProjectionAssumption, StateAssumption
  DEF aborted, Known, RunInv, StateInv, TurnFits
<1>5. Announces(S) /\ Onward
  BY <1>1, <1>3, <1>4 DEF Announces, Onward
<1>6. RuntimeTypes'
  BY <1>1, <1>2 DEF RuntimeTypes, PhaseRecords, callsAlone
<1>7. NoCalls
  BY <1>2, TypesApart DEF NoCalls, OfPhases
<1>8. /\ CallsWait' /\ CallsFit' /\ StagesFit' /\ OneAccepted'
      /\ Outer' = Outer /\ (Busy(Outer)' <=> Busy(Outer))
  BY <1>4, <1>7, CallsUntouched
<1>9. PhasesWait'
  <2>1. ASSUME NEW x \in S PROVE PhaseFits(x)'
    <3>1. CASE /\ x = Completed(current) /\ MayClose(current) /\ current \in Phases \ {Nest}
               /\ turn'.at = "sealing" /\ current' = current
      <4>1. x.type = "phase.completed" /\ x.phase = current /\ WaitsIn(S, "phase.completed", current)
        BY <3>1 DEF Completed, PhaseEvent, WaitsIn
      <4>2. runtime'[current].entered /\ runtime'[current].over
        BY <1>1, <1>3, <3>1, <4>1
      <4>3. \A a \in Agents : agentPhase[a] = current => a \in ended
        BY <3>1, NoRoom DEF RunInv, StateInv
      <4> QED
        BY <3>1, <4>1, <4>2, <4>3 DEF PhaseFits, callsAlone
    <3>2. CASE x = Entered(p) /\ ~runtime[p].entered /\ turn' = At("entering", p)
      <4>1. x.type = "phase.entered" /\ x.phase = p /\ WaitsIn(S, "phase.entered", p)
        BY <3>2 DEF Entered, PhaseEvent, WaitsIn
      <4>2. ~runtime[p].sealed /\ ~runtime[p].over /\ p # current
        BY <1>4, <3>2 DEF RunInv, StateInv, PhasesFit
      <4>3. runtime'[p].entered /\ ~runtime'[p].sealed /\ ~runtime'[p].over
        BY <1>1, <1>3, <4>1, <4>2
      <4> QED
        BY <3>2, <4>1, <4>3 DEF PhaseFits
    <3> QED
      BY <1>2, <3>1, <3>2
  <2>2. /\ runtime'[Nest].entered = runtime[Nest].entered
        /\ runtime'[Nest].sealed = runtime[Nest].sealed
        /\ runtime'[Nest].over = runtime[Nest].over
    <3>1. ~WaitsIn(S, "phase.entered", Nest) /\ ~WaitsIn(S, "phase.completed", Nest)
      BY <1>3
    <3>2. Nest # current
      BY <1>4
    <3>3. Nest \in Phases /\ runtime[Nest] \in PhaseRecords /\ runtime'[Nest] \in PhaseRecords
      BY <1>1, <1>4, PhaseFields
    <3>4. /\ runtime[Nest].entered \in BOOLEAN /\ runtime'[Nest].entered \in BOOLEAN
          /\ runtime[Nest].sealed \in BOOLEAN /\ runtime'[Nest].sealed \in BOOLEAN
          /\ runtime[Nest].over \in BOOLEAN /\ runtime'[Nest].over \in BOOLEAN
      BY <3>3 DEF PhaseRecords
    <3>5. /\ runtime'[Nest].entered <=> runtime[Nest].entered
          /\ runtime'[Nest].sealed <=> runtime[Nest].sealed
          /\ runtime'[Nest].over <=> runtime[Nest].over
      BY <1>1, <3>1, <3>2, <3>3
    <3> QED
      BY <3>4, <3>5
  <2>3. \A x \in H : x.type \in PhaseEvents => x.phase # Nest
    OBVIOUS
  <2> QED
    BY <1>4, <1>5, <2>1, <2>2, <2>3, WorkflowWaits
<1>10. RunWaits'
  <2>1. \A e : e.type \in RunEvents => (e \in Pending' <=> e \in Pending)
    BY <1>2, TypesApart DEF OfPhases
  <2>2. \A t \in RunEvents : WaitsRun(t)' <=> WaitsRun(t)
    BY <2>1 DEF WaitsRun
  <2> QED
    BY <1>4, <2>2 DEF RunInv, QueueInv, RunWaits, RunEvents
<1>11. ControlFits'
  BY <1>4 DEF RunInv, StateInv, ControlFits
<1>12. PhasesFit'
  <2>1. ASSUME NEW q \in Phases
        PROVE  /\ runtime'[q].entered => q \in Known
               /\ runtime'[q].sealed \/ runtime'[q].over => runtime'[q].entered
               /\ runtime'[q].over => runtime'[q].sealed \/ aborted
               /\ runtime'[q].entered =>
                    runtime'[q].sealed \/ runtime'[q].over \/ q = current' \/ q = Nest
    <3>1. /\ runtime[q].entered => q \in Known
          /\ runtime[q].sealed \/ runtime[q].over => runtime[q].entered
          /\ runtime[q].over => runtime[q].sealed \/ aborted
          /\ runtime[q].entered => runtime[q].sealed \/ runtime[q].over \/ q = current \/ q = Nest
      BY DEF RunInv, StateInv, PhasesFit
    <3>2. WaitsIn(S, "phase.entered", q) => q = current'
      <4>1. WaitsIn(S, "phase.entered", q) => turn' = At("entering", p)
        BY <1>2 DEF WaitsIn, Completed, PhaseEvent
      <4> QED
        BY <1>2, <1>3, <4>1
    <3> QED
      BY <1>1, <1>3, <1>4, <3>1, <3>2
  <2> QED
    BY <1>4, <2>1 DEF PhasesFit
<1>13. TurnFits'
  <2>1. current' # NoPhase => runtime'[current'].entered /\ current' # Nest
    BY <1>1, <1>2, <1>4
  <2>2. /\ Free.at = "free" /\ At("sealing", p).at = "sealing" /\ At("sealing", p).phase = p
        /\ At("entering", p).at = "entering" /\ At("entering", p).phase = p
    BY DEF Free, At
  <2> QED
    BY <1>2, <1>4, <1>8, <2>1, <2>2 DEF TurnFits
<1>14. ChildFits' /\ MainFits'
  <2>1. /\ runtime'[Nest].entered <=> runtime[Nest].entered
        /\ runtime'[Nest].sealed <=> runtime[Nest].sealed
    BY <1>1, <1>3, <1>4
  <2> QED
    BY <1>4, <2>1 DEF RunInv, StateInv, ChildFits, MainFits, callsAlone
<1>15. CountsFit'
  BY <1>1, CountsUntouched DEF RunInv, StateInv, callsAlone
<1> QED
  BY <1>2, <1>5, <1>6, <1>8, <1>9, <1>10, <1>11, <1>12, <1>13, <1>14, <1>15, StepKeeps

-------------------------------------------------------------------------------
(* The messages of the workflow that enter a phase.                          *)

\* What every step but the last of the run keeps.
Kept ==
  /\ RunInv' /\ RuntimeTypes'
  /\ ViewInv /\ rejected = NoEvent /\ rejected' = NoEvent => ViewInv'

\* At most one event of a phase.
AtMost(evs, S) ==
  \/ evs = <<>> /\ S = {}
  \/ \E x : evs = <<x>> /\ S = {x} /\ x.type \in PhaseEvents

\* Emits and Handled with at most one event of a phase.
LEMMA EmitsAtMost ==
  ASSUME Ordered(queue), NEW evs, NEW S, AtMost(evs, S), Emits(evs),
         \A e \in Pending, x \in S : MayPrecede(e, x)
  PROVE  Ordered(queue)' /\ Pending' = Pending \cup S
<1>1. CASE evs = <<>> /\ S = {}
  BY <1>1, EmitsNothing
<1>2. CASE \E x : evs = <<x>> /\ S = {x} /\ x.type \in PhaseEvents
  <2>1. PICK x : evs = <<x>> /\ S = {x} /\ x.type \in PhaseEvents
    BY <1>2
  <2>2. Emits(<<x>>) /\ \A e \in Pending : MayPrecede(e, x)
    BY <2>1
  <2> QED
    BY <2>1, <2>2, EmitsOne
<1> QED
  BY <1>1, <1>2 DEF AtMost

LEMMA HandledAtMost ==
  ASSUME Ordered(queue), NEW h, NEW phases, NEW evs, NEW S, AtMost(evs, S), Handled(h, evs, phases),
         \A e \in Pending \ {h}, x \in S : MayPrecede(e, x)
  PROVE  Ordered(queue)' /\ Pending' = (Pending \ {h}) \cup S
<1>1. CASE evs = <<>> /\ S = {}
  BY <1>1, HandledAlone
<1>2. CASE \E x : evs = <<x>> /\ S = {x} /\ x.type \in PhaseEvents
  <2>1. PICK x : evs = <<x>> /\ S = {x} /\ x.type \in PhaseEvents
    BY <1>2
  <2>2. Handled(h, <<x>>, phases) /\ \A e \in Pending \ {h} : MayPrecede(e, x)
    BY <2>1
  <2> QED
    BY <2>1, <2>2, HandledOne
<1> QED
  BY <1>1, <1>2 DEF AtMost

\* The rest of the message is one of the four ways of Switched.
LEMMA EntersSwitched ==
  ASSUME RuntimeTypes, NEW p \in Phases \ {Nest}, ~MayClose(current),
         NEW s, s = EntersFrom(p, Seals(current)),
         turn' = s.turn, current' = s.current, runtime' = s.phases
  PROVE  \E S : Switched(p, S) /\ AtMost(s.events, S)
<1>1. PICK r : r = Seals(current)
  OBVIOUS
<1>2. r[p].entered = runtime[p].entered
  BY <1>1, SealsFacts DEF RuntimeTypes
<1>3. CASE runtime[p].entered
  <2>1. s = [turn |-> Free, current |-> p, phases |-> r, events |-> <<>>]
    BY <1>1, <1>2, <1>3 DEF EntersFrom
  <2>2. Switched(p, {}) /\ AtMost(s.events, {})
    BY <1>1, <1>3, <2>1 DEF Switched, AtMost
  <2> QED
    BY <2>2
<1>4. CASE ~runtime[p].entered
  <2>1. s = [turn |-> At("entering", p), current |-> p,
             phases |-> [r EXCEPT ![p].entered = TRUE], events |-> <<Entered(p)>>]
    BY <1>1, <1>2, <1>4 DEF EntersFrom
  <2>2. Entered(p).type \in PhaseEvents
    BY DEF Entered, PhaseEvent, PhaseEvents
  <2>3. Switched(p, {Entered(p)})
    BY <1>1, <1>4, <2>1 DEF Switched
  <2>4. AtMost(s.events, {Entered(p)})
    BY <2>1, <2>2 DEF AtMost
  <2> QED
    BY <2>3, <2>4
<1> QED
  BY <1>3, <1>4

\* And all of SwitchesTo.
LEMMA SwitchesSwitched ==
  ASSUME RuntimeTypes, NEW p \in Phases \ {Nest}, NEW s, s = SwitchesTo(p),
         turn' = s.turn, current' = s.current, runtime' = s.phases
  PROVE  \E S : Switched(p, S) /\ AtMost(s.events, S)
<1>1. CASE p = current
  <2>1. s = [turn |-> Free, current |-> p, phases |-> runtime, events |-> <<>>]
    BY <1>1 DEF SwitchesTo
  <2>2. Switched(p, {}) /\ AtMost(s.events, {})
    BY <1>1, <2>1 DEF Switched, AtMost
  <2> QED
    BY <2>2
<1>2. CASE p # current /\ MayClose(current)
  <2>1. s = [turn |-> At("sealing", p), current |-> current, phases |-> Seals(current),
             events |-> <<Completed(current)>>]
    BY <1>2 DEF SwitchesTo
  <2>2. Completed(current).type \in PhaseEvents
    BY DEF Completed, PhaseEvent, PhaseEvents
  <2>3. Switched(p, {Completed(current)})
    BY <1>2, <2>1 DEF Switched
  <2>4. AtMost(s.events, {Completed(current)})
    BY <2>1, <2>2 DEF AtMost
  <2> QED
    BY <2>3, <2>4
<1>3. CASE p # current /\ ~MayClose(current)
  <2>1. s = EntersFrom(p, Seals(current))
    BY <1>3 DEF SwitchesTo
  <2> QED
    BY <1>3, <2>1, EntersSwitched
<1> QED
  BY <1>1, <1>2, <1>3

\* The two actions of the message tail.
LEMMA PhaseMessageKeeps ==
  ASSUME RuntimeTypes, view \in Snapshots, RunInv, PhaseMessage
  PROVE  Kept
<1> USE DEF runVars
<1>1. PICK p \in Entries :
        /\ Knows(p)
        /\ LET s == IF p \in Known THEN SwitchesTo(p)
                    ELSE [turn |-> At("discovering", p), current |-> current,
                          phases |-> runtime, events |-> <<Discovered(p)>>]
           IN /\ turn' = s.turn /\ current' = s.current /\ runtime' = s.phases
              /\ Emits(s.events)
  BY DEF PhaseMessage
<1>2. p \in Phases \ {Nest}
  BY ProjectionAssumption
<1>3. /\ turn = Free /\ ~Busy(Outer) /\ main \in {"evaluating", "stopped"}
      /\ callsAlone /\ UNCHANGED <<up, runVars, child>> /\ view' = view /\ rejected' = rejected
  BY <1>1 DEF PhaseMessage, OuterFree, phaseKept, callsAlone, Emits
<1>4. main \notin {"starting", "declaring", "sealing"} \cup Returned
  BY <1>3 DEF Returned
<1>5. QuietBut({}) /\ Ordered(queue)
  BY <1>3, <1>4, Quiet DEF RunInv, QueueInv
<1>6. CASE p \in Known
  <2>1. PICK s : s = SwitchesTo(p)
    OBVIOUS
  <2>2. /\ turn' = s.turn /\ current' = s.current /\ runtime' = s.phases /\ Emits(s.events)
        /\ known' = known
    BY <1>1, <1>6, <2>1 DEF Knows
  <2>3. PICK S : Switched(p, S) /\ AtMost(s.events, S)
    BY <1>2, <2>1, <2>2, SwitchesSwitched
  <2>4. \A e \in Pending \ {}, x \in S : MayPrecede(e, x)
    BY <1>2, <1>5, <1>6, <2>2, <2>3, SwitchFollows
  <2>5. \A e \in Pending, x \in S : MayPrecede(e, x)
    BY <2>4
  <2>6. Ordered(queue)' /\ Pending' = Pending \cup S
    BY <1>5, <2>2, <2>3, <2>5, EmitsAtMost
  <2>7. Pending' = (Pending \ {}) \cup S /\ OfPhases({}) /\ \A x \in {} : x.phase # Nest
    BY <2>6 DEF OfPhases
  <2>8. UNCHANGED <<up, runVars, child, known>>
    BY <1>3, <2>2
  <2>9. main \notin {"starting", "declaring"} \cup Returned
    BY <1>4
  <2>10. RunInv' /\ RuntimeTypes' /\ OfPhases(S) /\ Announces(S)
    BY <1>2, <1>3, <1>5, <1>6, <2>3, <2>6, <2>7, <2>8, <2>9, SwitchKeeps
  <2>11. ViewInv => ViewInv'
    BY <1>3, <2>6, <2>10, EmittedPhases
  <2> QED
    BY <2>10, <2>11 DEF Kept
<1>7. CASE p \notin Known
  <2>1. PICK x : x = Discovered(p)
    OBVIOUS
  <2>2. x.type = "phase.discovered" /\ x.phase = p /\ x.type \in PhaseEvents
    BY <2>1 DEF Discovered, PhaseEvent, PhaseEvents
  <2>3. /\ turn' = At("discovering", p) /\ UNCHANGED <<current, runtime>>
        /\ Emits(<<x>>) /\ known' = Append(known, p)
    BY <1>1, <1>7, <2>1 DEF Knows
  <2>4. /\ known' \in Seq(Phases) /\ Known' = Known \cup {p}
        /\ visited \in 0..Len(known')
        /\ visited > 0 => known'[visited] = known[visited]
    BY <1>2, <1>7, <2>3, KnownGrows
  <2>5. ~runtime[p].entered /\ \A a \in Agents : agentPhase[a] # p
    BY <1>2, <1>7, StateAssumption DEF RunInv, StateInv, PhasesFit, CallsFit
  <2>6. ASSUME NEW e \in Pending PROVE MayPrecede(e, x)
    <3>1. e.type \in PhaseEvents => e.phase # p
      BY <1>2, <1>7, <2>5
      DEF RunInv, QueueInv, PhaseEvents, DiscoveriesWait, EntriesWait, CompletionsWait,
          FailuresWait, Waits
    <3>2. e.type = "phase.discovered" => e.phase = Nest
      BY <1>5 DEF QuietBut, PhaseEvents
    <3> QED
      BY <2>2, <3>1, <3>2, TypesApart DEF MayPrecede
  <2>7. Ordered(queue)' /\ Pending' = Pending \cup {x}
    BY <1>5, <2>2, <2>3, <2>6, EmitsOne
  <2>8. NoCalls /\ OfPhases({x})
    BY <2>2, <2>7, TypesApart DEF NoCalls, OfPhases
  <2>9. (aborted' <=> aborted) /\ Nest # p
    BY <1>2, <1>3 DEF aborted
  <2>10. /\ CallsWait' /\ CallsFit' /\ StagesFit' /\ OneAccepted'
         /\ Outer' = Outer /\ (Busy(Outer)' <=> Busy(Outer))
    BY <1>3, <2>4, <2>8, <2>9, CallsUntouched
  <2>11. PhasesWait'
    <3>1. PhaseFits(x)'
      <4>1. Discovering(p)'
        BY <2>3 DEF Discovering, At
      <4> QED
        BY <1>2, <1>3, <2>2, <2>3, <2>4, <2>5, <2>9, <4>1 DEF PhaseFits, callsAlone
    <3>2. PICK S, H : S = {x} /\ H = {}
      OBVIOUS
    <3>3. /\ QuietBut(H) /\ Pending' = (Pending \ H) \cup S
          /\ \A y \in S : PhaseFits(y)'
          /\ \A y \in H : y.type \in PhaseEvents => y.phase # Nest
      BY <1>5, <2>7, <3>1, <3>2
    <3>4. Onward /\ runtime'[Nest].entered = runtime[Nest].entered
          /\ runtime'[Nest].sealed = runtime[Nest].sealed
          /\ runtime'[Nest].over = runtime[Nest].over
      BY <2>3 DEF Onward
    <3>5. Known \subseteq Known' /\ UNCHANGED <<child, ending, visited>>
      BY <1>3, <2>4
    <3> QED
      BY <1>3, <2>4, <3>3, <3>4, <3>5, WorkflowWaits
  <2>12. RunWaits'
    <3>1. \A t \in RunEvents : WaitsRun(t)' <=> WaitsRun(t)
      BY <2>2, <2>7, TypesApart DEF WaitsRun
    <3> QED
      BY <1>3, <2>9, <3>1 DEF RunInv, QueueInv, RunWaits, RunEvents
  <2>13. ControlFits'
    BY <1>3, <2>9 DEF RunInv, StateInv, ControlFits
  <2>14. PhasesFit'
    BY <2>3, <2>4, <2>9 DEF RunInv, StateInv, PhasesFit
  <2>15. TurnFits'
    <3>1. At("discovering", p).at = "discovering" /\ At("discovering", p).phase = p
      BY DEF At
    <3> QED
      BY <1>3, <2>3, <2>4, <2>9, <2>10, <3>1 DEF RunInv, StateInv, TurnFits
  <2>16. ChildFits'
    BY <1>3, <2>3, <2>4, <2>9 DEF RunInv, StateInv, ChildFits, callsAlone
  <2>17. MainFits'
    BY <1>3, <1>4 DEF MainFits, Returned
  <2>18. CountsFit'
    BY <1>3, <2>3, CountsUntouched DEF RunInv, StateInv, callsAlone
  <2>19. RunInv'
    BY <2>7, <2>10, <2>11, <2>12, <2>13, <2>14, <2>15, <2>16, <2>17, <2>18, StepKeeps
  <2>20. RuntimeTypes'
    <3>1. turn' \in [at : {"free", "discovering", "sealing", "entering"},
                     phase : Phases \cup {NoPhase}]
      BY <1>2, <2>3 DEF At
    <3> QED
      BY <1>3, <2>3, <2>4, <3>1 DEF RuntimeTypes, callsAlone
  <2>21. Announces({x})
    <3>1. \A q : /\ WaitsIn({x}, "phase.discovered", q) <=> q = p
                 /\ ~WaitsIn({x}, "phase.entered", q) /\ ~WaitsIn({x}, "phase.completed", q)
                 /\ ~WaitsIn({x}, "phase.failed", q)
      BY <2>2 DEF WaitsIn
    <3> QED
      BY <1>7, <2>3, <2>4, <3>1 DEF Announces
  <2>22. ViewInv => ViewInv'
    BY <1>3, <2>7, <2>8, <2>21, EmittedPhases
  <2> QED
    BY <2>19, <2>20, <2>22 DEF Kept
<1> QED
  BY <1>6, <1>7

LEMMA PhaseGoesOnKeeps ==
  ASSUME RuntimeTypes, view \in Snapshots, RunInv, PhaseGoesOn
  PROVE  Kept
<1> USE DEF runVars
<1>1. turn # Free /\ turn.at \in {"discovering", "sealing", "entering"} /\ turn.phase \in Phases \ {Nest}
      /\ turn.phase \in Known
  BY DEF PhaseGoesOn, RunInv, StateInv, TurnFits, RuntimeTypes, Known
<1>2. PICK p \in Phases \ {Nest} : p = turn.phase /\ p \in Known
  BY <1>1
<1>3. PICK s, h :
        /\ s = CASE turn.at = "discovering" -> SwitchesTo(p)
                 [] turn.at = "sealing" -> EntersFrom(p, runtime)
                 [] turn.at = "entering" ->
                      [turn |-> Free, current |-> p, phases |-> runtime, events |-> <<>>]
        /\ h = CASE turn.at = "discovering" -> Discovered(p)
                 [] turn.at = "sealing" -> Completed(current)
                 [] turn.at = "entering" -> Entered(p)
  OBVIOUS
<1>4. /\ Handled(h, s.events, s.phases) /\ turn' = s.turn /\ current' = s.current
      /\ known' = known /\ UNCHANGED <<runVars, child, sequence, inner, agentPhase, stage, attempt>>
  BY <1>2, <1>3 DEF PhaseGoesOn, phaseKept
<1>5. /\ h.type \in PhaseEvents /\ Awaited(h)
      /\ h.phase = IF turn.at = "sealing" THEN current ELSE p
  BY <1>1, <1>2, <1>3 DEF Discovered, Completed, Entered, PhaseEvent, PhaseEvents, Awaited
<1>6. ended' = ended /\ runtime' = s.phases /\ Replays(<<h>>) /\ up' = up
  <2>1. ~IsFinal(h)
    BY <1>5 DEF IsFinal, PhaseEvents
  <2> QED
    BY <1>4, <2>1, HandledNotFinal DEF Handled
<1>7. First(h)
  BY <1>4, HeadFirst DEF Handled, RunInv, QueueInv
<1>8. QuietBut({h}) /\ ~Busy(Outer) /\ main \notin {"starting", "declaring"} \cup Returned
  BY <1>1, <1>5, <1>7, QuietAfter
<1>9. \E S : Switched(p, S) /\ AtMost(s.events, S)
  <2>1. CASE turn.at = "discovering"
    <3>1. s = SwitchesTo(p)
      BY <1>3, <2>1
    <3> QED
      BY <1>4, <1>6, <3>1, SwitchesSwitched
  <2>2. CASE turn.at = "sealing"
    <3>1. s = EntersFrom(p, runtime)
      BY <1>3, <2>2
    <3>2. current \in Phases /\ runtime[current].over
      BY <1>5, <1>7, <2>2, StateAssumption
      DEF Awaited, First, RunInv, QueueInv, StateInv, TurnFits, CompletionsWait, Waits, RuntimeTypes
    <3>3. Seals(current) = runtime /\ ~MayClose(current)
      BY <3>2 DEF Seals, MayClose
    <3>4. s = EntersFrom(p, Seals(current))
      BY <3>1, <3>3
    <3> QED
      BY <1>4, <1>6, <3>3, <3>4, EntersSwitched
  <2>3. CASE turn.at = "entering"
    <3>1. s = [turn |-> Free, current |-> p, phases |-> runtime, events |-> <<>>]
      BY <1>3, <2>3
    <3>2. p = current
      BY <1>2, <2>3 DEF RunInv, StateInv, TurnFits
    <3>3. Switched(p, {}) /\ AtMost(s.events, {})
      BY <1>4, <1>6, <3>1, <3>2 DEF Switched, AtMost
    <3> QED
      BY <3>3
  <2> QED
    BY <1>1, <2>1, <2>2, <2>3
<1>10. PICK S : Switched(p, S) /\ AtMost(s.events, S)
  BY <1>9
<1>11. \A e \in Pending \ {h}, x \in S : MayPrecede(e, x)
  BY <1>2, <1>4, <1>8, <1>10, SwitchFollows
<1>12. Ordered(queue)' /\ Pending' = (Pending \ {h}) \cup S
  BY <1>4, <1>10, <1>11, HandledAtMost DEF RunInv, QueueInv
<1>13. OfPhases({h}) /\ \A x \in {h} : x.phase # Nest
  BY <1>2, <1>5, ProjectionAssumption, StateAssumption DEF OfPhases, RunInv, StateInv, TurnFits
<1>14. callsAlone /\ UNCHANGED <<up, runVars, child, known>>
  BY <1>4, <1>6 DEF callsAlone
<1>15. RunInv' /\ RuntimeTypes' /\ OfPhases(S) /\ Announces(S)
  BY <1>2, <1>8, <1>10, <1>12, <1>13, <1>14, SwitchKeeps
<1>16. ViewInv /\ rejected = NoEvent => ViewInv'
  BY <1>5, <1>6, <1>7, <1>12, <1>14, <1>15, HandledPhases
<1> QED
  BY <1>15, <1>16 DEF Kept

-------------------------------------------------------------------------------
(* The nested workflow.                                                     *)

NestQuietBut(H) ==
  \A e \in Pending \ H : e.type \in PhaseEvents /\ e.phase = Nest => e.type = "phase.failed"

\* Where a step of the nested workflow leaves its phase, and it alone.
NestMoves ==
  /\ runtime' \in [Phases -> PhaseRecords]
  /\ \A q \in Phases : q # Nest => runtime'[q] = runtime[q]
  /\ runtime'[Nest].active = runtime[Nest].active
  /\ runtime[Nest].entered => runtime'[Nest].entered
  /\ runtime[Nest].sealed => runtime'[Nest].sealed
  /\ runtime[Nest].over => runtime'[Nest].over
  /\ runtime'[Nest].over => runtime[Nest].over \/ runtime'[Nest].sealed
  /\ runtime'[Nest].sealed => runtime'[Nest].entered
  /\ runtime'[Nest].sealed /\ ~runtime'[Nest].over =>
       runtime[Nest].sealed \/ runtime[Nest].active # 0

\* The waiting events fit what a step of the nested workflow makes of them.
LEMMA NestWaits ==
  ASSUME RuntimeTypes, RunInv, NEW H, NEW S, NestQuietBut(H), OfPhases(H),
         \A x \in H : x.phase = Nest, \A x \in S : PhaseFits(x)',
         Pending' = (Pending \ H) \cup S,
         UNCHANGED <<runVars, turn, current>>, callsAlone, NestMoves,
         Known \subseteq Known', visited > 0 => known'[visited] = known[visited]
  PROVE  PhasesWait'
<1> USE DEF runVars
<1>0. Nest \in Phases
  BY ProjectionAssumption
<1>1. Outer' = Outer /\ (aborted' <=> aborted)
  BY DEF Outer, callsAlone, aborted
<1>2. PhasesWait
  BY PhasesWaiting DEF RunInv, QueueInv
<1>3. ASSUME NEW e \in Pending \ H, e.type \in PhaseEvents PROVE PhaseFits(e)'
  <2>1. PhaseFits(e) /\ e.phase \in Phases
    BY <1>2, <1>3 DEF PhasesWait, PhaseFits
  <2>2. CASE e.phase = Nest
    <3>1. e.type = "phase.failed"
      BY <1>3, <2>2 DEF NestQuietBut
    <3>2. runtime[Nest].entered /\ runtime[Nest].over /\ ending = "failing" /\ Nest = known[visited]
      BY <2>1, <2>2, <3>1 DEF PhaseFits
    <3>3. visited > 0
      BY <3>2 DEF RunInv, StateInv, ControlFits
    <3> QED
      BY <1>0, <2>2, <3>1, <3>2, <3>3 DEF PhaseFits, NestMoves
  <2>3. CASE e.phase # Nest
    <3>1. runtime'[e.phase] = runtime[e.phase]
      BY <2>1, <2>3 DEF NestMoves
    <3>2. e.type = "phase.discovered" => Discovering(e.phase)'
      BY <1>1, <2>1, <2>3 DEF PhaseFits, Discovering, callsAlone
    <3>3. Waits("phase.failed", e.phase) => Waits("phase.failed", e.phase)'
      BY <2>3 DEF Waits
    <3>4. e.type = "phase.failed" => visited > 0
      BY <2>1 DEF PhaseFits, RunInv, StateInv, ControlFits
    <3> QED
      BY <2>1, <2>3, <3>1, <3>2, <3>3, <3>4 DEF PhaseFits, callsAlone
  <2> QED
    BY <2>2, <2>3
<1>4. ASSUME NEW e \in Pending', e.type \in PhaseEvents PROVE PhaseFits(e)'
  <2>1. e \in Pending \ H \/ e \in S
    OBVIOUS
  <2> QED
    BY <1>3, <1>4, <2>1
<1> QED
  BY <1>4 DEF PhasesWait

\* RunInv is kept.
LEMMA NestKeeps ==
  ASSUME RuntimeTypes, RunInv, NEW H, NEW S, NestQuietBut(H), OfPhases(H), OfPhases(S),
         \A x \in H : x.phase = Nest, \A x \in S : PhaseFits(x)',
         Pending' = (Pending \ H) \cup S, Ordered(queue)',
         main \notin {"starting", "declaring"} \cup Returned,
         UNCHANGED <<up, runVars, turn, current>>, callsAlone, NestMoves,
         known' \in Seq(Phases), Known' = Known \cup {Nest}, visited \in 0..Len(known'),
         visited > 0 => known'[visited] = known[visited],
         child' \in Nested \cup {"over", "dead"}, child = "dead" => child' = "dead",
         child' = "discovering" <=> ~runtime'[Nest].entered,
         runtime'[Nest].sealed => child' \in {"sealing", "over"},
         child' \in {"discovering", "entering"} => inner = {},
         child' \in {"sealing", "over"} => \A a \in inner : stage[a] = "over"
  PROVE  RunInv' /\ RuntimeTypes'
<1> USE DEF runVars
<1>0. Nest \in Phases
  BY ProjectionAssumption
<1>1. NoCalls
  BY TypesApart DEF NoCalls, OfPhases
<1>2. aborted' <=> aborted
  BY DEF aborted
<1>3. /\ CallsWait' /\ CallsFit' /\ StagesFit' /\ OneAccepted'
      /\ Outer' = Outer /\ (Busy(Outer)' <=> Busy(Outer))
  <2>1. Known \subseteq Known' /\ (aborted => aborted')
    BY <1>2
  <2> QED
    BY <1>1, <2>1, CallsUntouched
<1>4. PhasesWait'
  <2>1. Known \subseteq Known'
    OBVIOUS
  <2>2. UNCHANGED <<runVars, turn, current>>
    OBVIOUS
  <2> QED
    BY <2>1, <2>2, NestWaits
<1>5. RunWaits'
  <2>1. \A e : e.type \in RunEvents => (e \in Pending' <=> e \in Pending)
    BY TypesApart DEF OfPhases
  <2>2. \A t \in RunEvents : WaitsRun(t)' <=> WaitsRun(t)
    BY <2>1 DEF WaitsRun
  <2> QED
    BY <1>2, <2>2 DEF RunInv, QueueInv, RunWaits, RunEvents
<1>6. ControlFits'
  BY <1>2 DEF RunInv, StateInv, ControlFits
<1>7. PhasesFit'
  <2>1. ASSUME NEW q \in Phases
        PROVE  /\ runtime'[q].entered => q \in Known'
               /\ runtime'[q].sealed \/ runtime'[q].over => runtime'[q].entered
               /\ runtime'[q].over => runtime'[q].sealed \/ aborted'
               /\ runtime'[q].entered =>
                    runtime'[q].sealed \/ runtime'[q].over \/ q = current' \/ q = Nest
    <3>1. /\ runtime[q].entered => q \in Known
          /\ runtime[q].sealed \/ runtime[q].over => runtime[q].entered
          /\ runtime[q].over => runtime[q].sealed \/ aborted
          /\ runtime[q].entered => runtime[q].sealed \/ runtime[q].over \/ q = current \/ q = Nest
      BY DEF RunInv, StateInv, PhasesFit
    <3>2. CASE q # Nest
      BY <1>2, <3>1, <3>2 DEF NestMoves
    <3>3. CASE q = Nest
      BY <1>2, <3>1, <3>3 DEF NestMoves
    <3> QED
      BY <3>2, <3>3
  <2> QED
    BY <2>1 DEF PhasesFit
<1>8. TurnFits'
  <2>1. current # NoPhase => runtime'[current].entered /\ current # Nest
    <3>1. current # NoPhase => runtime[current].entered /\ current \in Phases \ {Nest}
      BY DEF RunInv, StateInv, TurnFits, RuntimeTypes
    <3> QED
      BY <3>1 DEF NestMoves
  <2> QED
    BY <1>3, <2>1 DEF RunInv, StateInv, TurnFits
<1>9. ChildFits'
  BY <1>0 DEF ChildFits, callsAlone, Nested
<1>10. MainFits'
  BY DEF MainFits, Returned
<1>11. CountsFit'
  <2>1. ASSUME NEW q \in Phases
        PROVE  /\ runtime'[q].active = runtime[q].active
               /\ runtime[q].over => runtime'[q].over
               /\ runtime'[q].sealed /\ ~runtime'[q].over => runtime[q].sealed \/ runtime[q].active # 0
    <3>1. CASE q # Nest
      BY <3>1 DEF NestMoves
    <3>2. CASE q = Nest
      BY <3>2 DEF NestMoves
    <3> QED
      BY <3>1, <3>2
  <2> QED
    BY <2>1, CountsUntouched DEF RunInv, StateInv, callsAlone
<1>12. RuntimeTypes'
  BY DEF RuntimeTypes, callsAlone, NestMoves, PhaseRecords
<1> QED
  BY <1>3, <1>4, <1>5, <1>6, <1>7, <1>8, <1>9, <1>10, <1>11, <1>12, StepKeeps

\* Nothing the parent awaits is left of the phase of the nested workflow.
LEMMA NestQuiet ==
  ASSUME RuntimeTypes, RunInv, NEW H, child \notin {"discovering", "entering", "sealing"} \/
           \E h : /\ H = {h} /\ First(h)
                  /\ \/ child = "discovering" /\ h = Discovered(Nest)
                     \/ child = "entering" /\ h = Entered(Nest)
                     \/ child = "sealing" /\ h = Completed(Nest)
  PROVE  NestQuietBut(H)
<1>0. Nest \in Phases
  BY ProjectionAssumption
<1>1. SUFFICES ASSUME NEW e \in Pending \ H, e.type \in PhaseEvents, e.phase = Nest,
                      e.type # "phase.failed"
               PROVE  FALSE
  BY DEF NestQuietBut
<1>2. /\ e.type = "phase.discovered" => child = "discovering"
      /\ e.type = "phase.entered" => child = "entering"
      /\ e.type = "phase.completed" => child = "sealing"
  BY <1>0, <1>1
  DEF RunInv, QueueInv, DiscoveriesWait, EntriesWait, CompletionsWait, Waits
<1>3. e.type \in {"phase.discovered", "phase.entered", "phase.completed"}
  BY <1>1 DEF PhaseEvents
<1>4. child \in {"discovering", "entering", "sealing"}
  BY <1>2, <1>3
<1>5. PICK h : /\ H = {h} /\ First(h)
               /\ \/ child = "discovering" /\ h = Discovered(Nest)
                  \/ child = "entering" /\ h = Entered(Nest)
                  \/ child = "sealing" /\ h = Completed(Nest)
  BY <1>4
<1>6. h.phase = Nest /\ h.type = e.type /\ h.type \in PhaseEvents
  BY <1>2, <1>3, <1>5 DEF Discovered, Entered, Completed, PhaseEvent, PhaseEvents
<1>7. Rank(h.type) < Rank(e.type)
  BY <1>1, <1>5, <1>6, AfterHead
<1> QED
  BY <1>6, <1>7, RankNat

\* The call of the nested workflow.
LEMMA ChildCalledKeeps ==
  ASSUME RuntimeTypes, view \in Snapshots, RunInv, ChildCalled
  PROVE  Kept
<1> USE DEF runVars
<1>1. PICK x : x = Discovered(Nest)
  OBVIOUS
<1>2. x.type = "phase.discovered" /\ x.phase = Nest /\ x.type \in PhaseEvents
  BY <1>1 DEF Discovered, PhaseEvent, PhaseEvents
<1>3. /\ main = "evaluating" /\ child = "none" /\ child' = "discovering" /\ Emits(<<x>>)
      /\ UNCHANGED <<up, runVars, turn, current, runtime, view, rejected>> /\ callsAlone /\ Nest \in Phases
  BY <1>1, ProjectionAssumption DEF ChildCalled, childKept, callsAlone, Emits
<1>4. /\ Nest \notin Known /\ ~runtime[Nest].entered /\ inner = {} /\ ~runtime[Nest].sealed
      /\ \A a \in Agents : agentPhase[a] # Nest
  BY <1>3, StateAssumption DEF RunInv, StateInv, ChildFits, PhasesFit, CallsFit
<1>5. known' = Append(known, Nest)
  BY <1>4 DEF ChildCalled, Knows
<1>6. /\ known' \in Seq(Phases) /\ Known' = Known \cup {Nest}
      /\ visited \in 0..Len(known')
      /\ visited > 0 => known'[visited] = known[visited]
  BY <1>3, <1>4, <1>5, KnownGrows
<1>7. ASSUME NEW e \in Pending PROVE MayPrecede(e, x)
  <2>1. e.type \in PhaseEvents => e.phase # Nest
    BY <1>3, <1>4
    DEF RunInv, QueueInv, PhaseEvents, DiscoveriesWait, EntriesWait, CompletionsWait,
        FailuresWait, Waits
  <2> QED
    BY <1>2, <2>1, TypesApart DEF MayPrecede
<1>8. Ordered(queue)' /\ Pending' = Pending \cup {x}
  BY <1>2, <1>3, <1>7, EmitsOne DEF RunInv, QueueInv
<1>9. PICK H, S : H = {} /\ S = {x}
  OBVIOUS
<1>10. /\ NestQuietBut(H) /\ OfPhases(H) /\ OfPhases(S)
       /\ \A y \in H : y.phase = Nest
       /\ Pending' = (Pending \ H) \cup S
  BY <1>2, <1>3, <1>8, <1>9, NestQuiet DEF OfPhases
<1>11. \A y \in S : PhaseFits(y)'
  BY <1>2, <1>3, <1>4, <1>6, <1>9 DEF PhaseFits, callsAlone
<1>12. NestMoves
  BY <1>3, <1>4 DEF NestMoves, RuntimeTypes, PhaseRecords, RunInv, StateInv, PhasesFit
<1>13. /\ main \notin {"starting", "declaring"} \cup Returned
       /\ UNCHANGED <<up, runVars, turn, current>>
       /\ child' \in Nested \cup {"over", "dead"} /\ (child = "dead" => child' = "dead")
       /\ child' = "discovering" <=> ~runtime'[Nest].entered
       /\ runtime'[Nest].sealed => child' \in {"sealing", "over"}
       /\ child' \in {"discovering", "entering"} => inner = {}
       /\ child' \in {"sealing", "over"} => \A a \in inner : stage[a] = "over"
  BY <1>3, <1>4 DEF Returned, Nested
<1>14. RunInv' /\ RuntimeTypes'
  BY <1>3, <1>6, <1>8, <1>10, <1>11, <1>12, <1>13, NestKeeps
<1>15. Announces(S)
  <2>1. \A q : /\ WaitsIn(S, "phase.discovered", q) <=> q = Nest
               /\ ~WaitsIn(S, "phase.entered", q) /\ ~WaitsIn(S, "phase.completed", q)
               /\ ~WaitsIn(S, "phase.failed", q)
    BY <1>2, <1>9 DEF WaitsIn
  <2> QED
    BY <1>3, <1>4, <1>6, <2>1 DEF Announces
<1>16. ViewInv => ViewInv'
  BY <1>3, <1>8, <1>9, <1>10, <1>15, EmittedPhases
<1> QED
  BY <1>14, <1>16 DEF Kept

\* What the three awaits of the nested workflow have in common.
LEMMA ChildAwaited ==
  ASSUME RuntimeTypes, view \in Snapshots, RunInv, NEW h, NEW evs, NEW phases,
         Handled(h, evs, phases), h.type \in PhaseEvents, h.phase = Nest,
         \/ child = "discovering" /\ h = Discovered(Nest)
         \/ child = "entering" /\ h = Entered(Nest)
         \/ child = "sealing" /\ h = Completed(Nest),
         NEW S, AtMost(evs, S), OfPhases(S), \A x \in S : PhaseFits(x)',
         \A x \in S : x.type = "phase.entered" /\ x.phase = Nest,
         runtime' = phases => NestMoves /\ Announces(S),
         UNCHANGED known, childKept,
         child' \in Nested \cup {"over"},
         runtime' = phases => (child' = "discovering" <=> ~runtime'[Nest].entered),
         runtime' = phases => (runtime'[Nest].sealed => child' \in {"sealing", "over"}),
         child' \in {"discovering", "entering"} => inner = {},
         child' \in {"sealing", "over"} => \A a \in inner : stage[a] = "over"
  PROVE  Kept
<1> USE DEF runVars
<1>1. ~IsFinal(h)
  BY DEF IsFinal, PhaseEvents
<1>2. ended' = ended /\ runtime' = phases /\ Replays(<<h>>) /\ up' = up
  <2>1. ended' = ended /\ runtime' = phases /\ Replays(<<h>>)
    BY <1>1, HandledNotFinal
  <2> QED
    BY <2>1 DEF Handled
<1>3. First(h) /\ Ordered(queue)
  BY HeadFirst DEF Handled, RunInv, QueueInv
<1>4. PICK H : H = {h}
  OBVIOUS
<1>5. NestQuietBut(H)
  BY <1>3, <1>4, NestQuiet
<1>6. child \in Nested /\ Nest \in Phases /\ callsAlone
      /\ UNCHANGED <<up, runVars, turn, current>>
  BY <1>2, ProjectionAssumption DEF Nested, callsAlone, childKept
<1>7. main \notin {"starting", "declaring"} \cup Returned
  BY <1>6 DEF RunInv, StateInv, MainFits, Nested
<1>8. ASSUME NEW e \in Pending \ {h}, NEW x \in S PROVE MayPrecede(e, x)
  <2>1. x.type = "phase.entered" /\ x.phase = Nest /\ x.type \in PhaseEvents
    BY DEF PhaseEvents
  <2>2. e.type \in PhaseEvents /\ e.phase = Nest => e.type = "phase.failed"
    BY <1>4, <1>5 DEF NestQuietBut
  <2>3. e.type = "phase.failed" /\ e.phase = Nest => runtime[Nest].entered
    BY <1>6 DEF RunInv, QueueInv, FailuresWait, Waits
  <2>4. ~runtime[Nest].entered
    <3>1. WaitsIn(S, "phase.entered", Nest)
      BY <2>1 DEF WaitsIn
    <3> QED
      BY <1>2, <1>6, <3>1 DEF Announces
  <2> QED
    BY <2>1, <2>2, <2>3, <2>4, TypesApart DEF MayPrecede
<1>9. Ordered(queue)' /\ Pending' = (Pending \ {h}) \cup S
  BY <1>3, <1>8, HandledAtMost
<1>10. /\ OfPhases(H) /\ \A x \in H : x.phase = Nest
       /\ Pending' = (Pending \ H) \cup S
  BY <1>4, <1>9 DEF OfPhases
<1>11. /\ known' \in Seq(Phases) /\ Known' = Known \cup {Nest} /\ visited \in 0..Len(known')
       /\ visited > 0 => known'[visited] = known[visited]
  <2>1. Nest \in Known
    BY <1>6 DEF RunInv, StateInv, ChildFits, Nested
  <2> QED
    BY <2>1 DEF Known, RuntimeTypes
<1>12. /\ NestMoves /\ Announces(S) /\ child' \in Nested \cup {"over", "dead"}
       /\ child = "dead" => child' = "dead"
       /\ child' = "discovering" <=> ~runtime'[Nest].entered
       /\ runtime'[Nest].sealed => child' \in {"sealing", "over"}
  BY <1>2, <1>6 DEF Nested
<1>13. RunInv' /\ RuntimeTypes'
  BY <1>5, <1>6, <1>7, <1>9, <1>10, <1>11, <1>12, NestKeeps
<1>14. ViewInv /\ rejected = NoEvent => ViewInv'
  BY <1>2, <1>3, <1>6, <1>9, <1>12, HandledPhases
<1> QED
  BY <1>13, <1>14 DEF Kept

\* Its awaits, its return and its death.
LEMMA ChildGoesOnKeeps ==
  ASSUME RuntimeTypes, view \in Snapshots, RunInv, ChildGoesOn
  PROVE  Kept
<1>0. /\ Nest \in Phases /\ runtime \in [Phases -> PhaseRecords]
      /\ UNCHANGED known /\ childKept
  BY ProjectionAssumption DEF ChildGoesOn, RuntimeTypes, PhaseRecords
<1>1. PICK x : x = Entered(Nest)
  OBVIOUS
<1>2. x.type = "phase.entered" /\ x.phase = Nest /\ x.type \in PhaseEvents
  BY <1>1 DEF Entered, PhaseEvent, PhaseEvents
<1>3. ASSUME UNCHANGED runtime PROVE NestMoves /\ Announces({})
  BY <1>0, <1>3 DEF NestMoves, Announces, WaitsIn, RunInv, StateInv, PhasesFit, Known
<1>4. AtMost(<<>>, {}) /\ OfPhases({})
  BY DEF AtMost, OfPhases
<1>5. CASE /\ child = "discovering" /\ child' = "entering"
           /\ Handled(Discovered(Nest), <<Entered(Nest)>>, [runtime EXCEPT ![Nest].entered = TRUE])
  <2>1. PICK h, r, S : h = Discovered(Nest) /\ r = [runtime EXCEPT ![Nest].entered = TRUE] /\ S = {x}
    OBVIOUS
  <2>2. Handled(h, <<x>>, r) /\ h.type \in PhaseEvents /\ h.phase = Nest
    BY <1>1, <1>5, <2>1 DEF Discovered, PhaseEvent, PhaseEvents
  <2>3. /\ ~runtime[Nest].entered /\ ~runtime[Nest].sealed /\ ~runtime[Nest].over
        /\ inner = {} /\ Nest \in Known
    BY <1>0, <1>5 DEF RunInv, StateInv, ChildFits, PhasesFit
  <2>4. OneEntered(runtime, r, Nest)
    BY <1>0, <2>1, EntersFacts
  <2>5. ASSUME runtime' = r
        PROVE  /\ NestMoves /\ Announces(S)
               /\ runtime'[Nest].entered /\ ~runtime'[Nest].sealed /\ ~runtime'[Nest].over
    <3>1. \A q : /\ WaitsIn(S, "phase.entered", q) <=> q = Nest
                 /\ ~WaitsIn(S, "phase.discovered", q) /\ ~WaitsIn(S, "phase.completed", q)
                 /\ ~WaitsIn(S, "phase.failed", q)
      BY <1>2, <2>1 DEF WaitsIn
    <3>2. Announces(S)
      BY <1>0, <2>3, <2>4, <2>5, <3>1 DEF Announces, OneEntered, Known
    <3>3. /\ runtime'[Nest].entered /\ ~runtime'[Nest].sealed /\ ~runtime'[Nest].over
          /\ runtime' \in [Phases -> PhaseRecords]
          /\ runtime'[Nest].active = runtime[Nest].active
      BY <1>0, <2>3, <2>4, <2>5 DEF OneEntered
    <3>4. \A q \in Phases : q # Nest => runtime'[q] = runtime[q]
      BY <1>0, <2>1, <2>5
    <3> QED
      BY <2>3, <3>2, <3>3, <3>4 DEF NestMoves
  <2>6. PhaseFits(x)'
    <3>1. ~IsFinal(h)
      BY <2>2 DEF IsFinal, PhaseEvents
    <3>2. runtime' = r
      BY <2>2, <3>1, HandledNotFinal
    <3> QED
      BY <1>0, <1>2, <1>5, <2>5, <3>2 DEF PhaseFits
  <2>7. AtMost(<<x>>, S) /\ OfPhases(S) /\ \A y \in S : PhaseFits(y)'
    BY <1>2, <2>1, <2>6 DEF AtMost, OfPhases
  <2>8. /\ \A y \in S : y.type = "phase.entered" /\ y.phase = Nest
        /\ runtime' = r => NestMoves /\ Announces(S)
        /\ child' \in Nested \cup {"over"}
        /\ runtime' = r => (child' = "discovering" <=> ~runtime'[Nest].entered)
        /\ runtime' = r => (runtime'[Nest].sealed => child' \in {"sealing", "over"})
        /\ child' \in {"discovering", "entering"} => inner = {}
        /\ child' \in {"sealing", "over"} => \A a \in inner : stage[a] = "over"
    BY <1>2, <1>5, <2>1, <2>3, <2>5 DEF Nested
  <2>9. \/ child = "discovering" /\ h = Discovered(Nest)
        \/ child = "entering" /\ h = Entered(Nest)
        \/ child = "sealing" /\ h = Completed(Nest)
    BY <1>5, <2>1
  <2> QED
    BY <1>0, <2>2, <2>7, <2>8, <2>9, ChildAwaited
<1>6. ASSUME NEW h, Handled(h, <<>>, runtime),
             \/ /\ child = "entering" /\ h = Entered(Nest)
                /\ child' = IF aborted THEN "over" ELSE "evaluating"
             \/ child = "sealing" /\ h = Completed(Nest) /\ child' = "over"
      PROVE  Kept
  <2>1. PICK S : S = {}
    OBVIOUS
  <2>2. h.type \in PhaseEvents /\ h.phase = Nest
    BY <1>6 DEF Entered, Completed, PhaseEvent, PhaseEvents
  <2>3. /\ runtime[Nest].entered
        /\ child = "entering" => inner = {} /\ ~runtime[Nest].sealed
        /\ child \in {"entering", "sealing"} => \A a \in inner : stage[a] = "over"
    BY <1>6 DEF RunInv, StateInv, ChildFits
  <2>4. /\ AtMost(<<>>, S) /\ OfPhases(S) /\ \A y \in S : PhaseFits(y)'
        /\ \A y \in S : y.type = "phase.entered" /\ y.phase = Nest
        /\ runtime' = runtime => NestMoves /\ Announces(S)
    BY <1>3, <1>4, <2>1
  <2>5. /\ child' \in Nested \cup {"over"}
        /\ runtime' = runtime => (child' = "discovering" <=> ~runtime'[Nest].entered)
        /\ runtime' = runtime => (runtime'[Nest].sealed => child' \in {"sealing", "over"})
        /\ child' \in {"discovering", "entering"} => inner = {}
        /\ child' \in {"sealing", "over"} => \A a \in inner : stage[a] = "over"
    BY <1>6, <2>3 DEF Nested
  <2>6. \/ child = "discovering" /\ h = Discovered(Nest)
        \/ child = "entering" /\ h = Entered(Nest)
        \/ child = "sealing" /\ h = Completed(Nest)
    BY <1>6
  <2> QED
    BY <1>0, <1>6, <2>2, <2>4, <2>5, <2>6, ChildAwaited
<1> QED
  BY <1>5, <1>6 DEF ChildGoesOn

LEMMA ChildReturnsKeeps ==
  ASSUME RuntimeTypes, view \in Snapshots, RunInv, ChildReturns
  PROVE  Kept
<1> USE DEF runVars
<1>0. PICK r : r = Seals(Nest)
  OBVIOUS
<1>1. /\ child = "evaluating" /\ \A a \in inner : stage[a] = "over"
      /\ runtime' = r /\ callsAlone /\ Nest \in Phases
      /\ UNCHANGED <<up, runVars, turn, current, known, view, rejected>>
      /\ IF MayClose(Nest) THEN child' = "sealing" /\ Emits(<<Completed(Nest)>>)
         ELSE child' = "over" /\ Emits(<<>>)
  BY <1>0, ProjectionAssumption DEF ChildReturns, childKept, callsAlone, Emits
<1>2. /\ r \in [Phases -> PhaseRecords]
      /\ \A q \in Phases :
           /\ r[q].entered = runtime[q].entered /\ r[q].active = runtime[q].active
           /\ r[q].sealed <=> runtime[q].sealed \/ (q = Nest /\ ~runtime[Nest].over)
           /\ r[q].over <=> runtime[q].over \/ (q = Nest /\ MayClose(Nest))
  BY <1>0, <1>1, SealsFacts
<1>3. \A q \in Phases : q # Nest => r[q] = runtime[q]
  BY <1>0, <1>1 DEF Seals, RuntimeTypes
<1>4. /\ runtime[Nest].entered /\ Nest \in Known /\ Nest # NoPhase
      /\ runtime[Nest].over => ~MayClose(Nest)
      /\ ~runtime[Nest].over /\ ~MayClose(Nest) => runtime[Nest].active # 0
  BY <1>1, StateAssumption DEF RunInv, StateInv, ChildFits, MayClose
<1>5. NestMoves
  BY <1>1, <1>2, <1>3, <1>4 DEF NestMoves
<1>6. PICK H : H = {}
  OBVIOUS
<1>7. NestQuietBut(H)
  BY <1>1, <1>6, NestQuiet
<1>8. /\ main \notin {"starting", "declaring"} \cup Returned
      /\ known' \in Seq(Phases) /\ Known' = Known \cup {Nest} /\ visited \in 0..Len(known')
      /\ visited > 0 => known'[visited] = known[visited]
  BY <1>1, <1>4 DEF RunInv, StateInv, MainFits, Nested, Known, RuntimeTypes
<1>9. ASSUME NEW S, OfPhases(S), Pending' = Pending \cup S, Ordered(queue)', \A x \in S : PhaseFits(x)',
             Announces(S)
      PROVE  Kept
  <2>1. /\ OfPhases(H) /\ \A x \in H : x.phase = Nest
        /\ Pending' = (Pending \ H) \cup S
    BY <1>6, <1>9 DEF OfPhases
  <2>2. /\ child' \in Nested \cup {"over", "dead"} /\ (child = "dead" => child' = "dead")
        /\ child' = "discovering" <=> ~runtime'[Nest].entered
        /\ runtime'[Nest].sealed => child' \in {"sealing", "over"}
        /\ child' \in {"discovering", "entering"} => inner = {}
        /\ child' \in {"sealing", "over"} => \A a \in inner : stage[a] = "over"
    BY <1>1, <1>2, <1>4 DEF Nested
  <2>3. RunInv' /\ RuntimeTypes'
    BY <1>1, <1>5, <1>7, <1>8, <1>9, <2>1, <2>2, NestKeeps
  <2>4. ViewInv => ViewInv'
    BY <1>1, <1>9, EmittedPhases
  <2> QED
    BY <2>3, <2>4 DEF Kept
<1>10. CASE MayClose(Nest)
  <2>1. PICK x, S : x = Completed(Nest) /\ S = {x}
    OBVIOUS
  <2>2. x.type = "phase.completed" /\ x.phase = Nest /\ x.type \in PhaseEvents /\ Emits(<<x>>)
    BY <1>1, <1>10, <2>1 DEF Completed, PhaseEvent, PhaseEvents
  <2>3. \A a \in Agents : agentPhase[a] = Nest => a \in ended
    BY <1>1, <1>10, NoRoom DEF RunInv, StateInv
  <2>4. ASSUME NEW e \in Pending PROVE MayPrecede(e, x)
    <3>1. e.type \in PhaseEvents => e.phase # Nest
      <4>1. e.type = "phase.failed" /\ e.phase = Nest => runtime[Nest].over
        BY <1>1 DEF RunInv, QueueInv, FailuresWait, Waits
      <4> QED
        BY <1>4, <1>6, <1>7, <1>10, <4>1 DEF NestQuietBut
    <3>2. e.type = "agent.admitted" => e.phase # Nest
      <4>1. e.type = "agent.admitted" =>
              e.agent \in Agents /\ e.agent \notin ended /\ agentPhase[e.agent] = e.phase
        BY DEF RunInv, QueueInv, CallsWait, CallFits, CallTypes
      <4> QED
        BY <2>3, <4>1
    <3> QED
      BY <2>2, <3>1, <3>2, TypesApart DEF MayPrecede
  <2>5. Ordered(queue)' /\ Pending' = Pending \cup {x}
    BY <2>2, <2>4, EmitsOne DEF RunInv, QueueInv
  <2>6. PhaseFits(x)'
    BY <1>1, <1>2, <1>4, <1>10, <2>2, <2>3 DEF PhaseFits, callsAlone
  <2>7. Announces(S)
    <3>1. \A q : /\ WaitsIn(S, "phase.completed", q) <=> q = Nest
                 /\ ~WaitsIn(S, "phase.discovered", q) /\ ~WaitsIn(S, "phase.entered", q)
                 /\ ~WaitsIn(S, "phase.failed", q)
      BY <2>1, <2>2 DEF WaitsIn
    <3> QED
      BY <1>1, <1>2, <1>10, <3>1 DEF Announces, Known
  <2>8. OfPhases(S) /\ Pending' = Pending \cup S /\ \A y \in S : PhaseFits(y)'
    BY <2>1, <2>2, <2>5, <2>6 DEF OfPhases
  <2> QED
    BY <1>9, <2>5, <2>7, <2>8
<1>11. CASE ~MayClose(Nest)
  <2>1. PICK S : S = {}
    OBVIOUS
  <2>2. Ordered(queue)' /\ Pending' = Pending \cup S
    BY <1>1, <1>11, <2>1, EmitsNothing DEF RunInv, QueueInv
  <2>3. OfPhases(S) /\ (\A y \in S : PhaseFits(y)') /\ Announces(S)
    BY <1>1, <1>2, <1>11, <2>1 DEF OfPhases, Announces, WaitsIn, Known
  <2> QED
    BY <1>9, <2>2, <2>3
<1> QED
  BY <1>10, <1>11

LEMMA ChildDiesKeeps ==
  ASSUME RuntimeTypes, view \in Snapshots, RunInv, ChildDies
  PROVE  Kept
<1> USE DEF runVars
<1>1. /\ child = "evaluating" /\ child' = "dead" /\ Nest \in Phases
      /\ UNCHANGED <<up, runVars, turn, current, known, runtime, view, rejected, queue>> /\ callsAlone
  BY ProjectionAssumption DEF ChildDies, childKept, callsAlone, logVars
<1>2. PICK S, H : S = {} /\ H = {}
  OBVIOUS
<1>3. /\ runtime[Nest].entered /\ ~runtime[Nest].sealed /\ Nest \in Known
      /\ main \notin {"starting", "declaring"} \cup Returned
  BY <1>1 DEF RunInv, StateInv, ChildFits, MainFits, Nested
<1>4. NestQuietBut(H)
  BY <1>1, <1>2, NestQuiet
<1>5. /\ OfPhases(H) /\ OfPhases(S) /\ (\A x \in H : x.phase = Nest) /\ (\A x \in S : PhaseFits(x)')
      /\ Pending' = (Pending \ H) \cup S /\ Pending' = Pending \cup S /\ Ordered(queue)'
  BY <1>1, <1>2 DEF OfPhases, Pending, RunInv, QueueInv
<1>6. NestMoves
  BY <1>1, <1>3 DEF NestMoves, RuntimeTypes, PhaseRecords, RunInv, StateInv, PhasesFit
<1>7. /\ known' \in Seq(Phases) /\ Known' = Known \cup {Nest} /\ visited \in 0..Len(known')
      /\ visited > 0 => known'[visited] = known[visited]
  BY <1>1, <1>3 DEF Known, RuntimeTypes
<1>8. /\ child' \in Nested \cup {"over", "dead"} /\ (child = "dead" => child' = "dead")
      /\ child' = "discovering" <=> ~runtime'[Nest].entered
      /\ runtime'[Nest].sealed => child' \in {"sealing", "over"}
      /\ child' \in {"discovering", "entering"} => inner = {}
      /\ child' \in {"sealing", "over"} => \A a \in inner : stage[a] = "over"
  BY <1>1, <1>3
<1>9. RunInv' /\ RuntimeTypes'
  BY <1>1, <1>3, <1>4, <1>5, <1>6, <1>7, <1>8, NestKeeps
<1>10. Announces(S)
  BY <1>1, <1>2 DEF Announces, WaitsIn, Known
<1>11. ViewInv => ViewInv'
  BY <1>1, <1>5, <1>10, EmittedPhases
<1> QED
  BY <1>9, <1>11 DEF Kept

-------------------------------------------------------------------------------
(* The start of the run.                                                    *)

\* A handled event of the run that is not its last, and phases announced with it.
LEMMA HandledRun ==
  ASSUME RuntimeTypes, view \in Snapshots, RunInv, ViewInv, rejected = NoEvent,
         NEW h, First(h), h.type \in {"run.started", "run.cancellation_requested"}, Replays(<<h>>),
         NEW S, OfPhases(S), Pending' = (Pending \ {h}) \cup S, Announces(S), callsAlone
  PROVE  ViewInv'
<1>1. NoCalls
  BY TypesApart DEF OfPhases, NoCalls, RunEvents
<1>2. h.type \in RunEvents /\ h.type # "agent.admitted"
  BY DEF RunEvents
<1>3. Accepts(view, h)
  BY <1>2, HeadAccepted
<1>4. view' = ApplyRun(view, h.type)
  BY <1>2, <1>3, OneReplayed, RunApplied
<1>5. PICK x : x \notin TerminalRun /\ view' = [view EXCEPT !.status = x]
  <2>1. "running" \notin TerminalRun /\ "cancellation_requested" \notin TerminalRun
    BY DEF TerminalRun
  <2> QED
    BY <1>4, <2>1 DEF ApplyRun
<1>6. /\ view'.status = x /\ view'.phases = view.phases /\ view'.agents = view.agents
      /\ view'.attempts = view.attempts /\ view'.phaseOf = view.phaseOf
      /\ view'.callIndex = view.callIndex
  BY <1>5 DEF Snapshots
<1>7. AgentsShown' /\ IndicesShown' /\ AttemptsShown' /\ CallsShown'
  BY <1>1, <1>6, CallsUnseen
<1>8. \A p \in Phases : Shown(view'.phases, Pending, p)
  BY <1>6, ShownNow DEF ViewInv
<1>9. \A t \in PhaseEvents, p \in Phases :
        Waits(t, p)' <=> WaitsIn(Pending, t, p) \/ WaitsIn(S, t, p)
  BY <1>2, TypesApart DEF Waits, WaitsIn
<1>10. PhasesShown'
  BY <1>8, <1>9, AnnouncedShown
<1> QED
  BY <1>5, <1>6, <1>7, <1>10 DEF ViewInv

\* run.started, and each declared phase, is awaited before the next.
LEMMA DeclaresKeeps ==
  ASSUME RuntimeTypes, view \in Snapshots, RunInv, NEW h, Declares(h),
         \/ main = "starting" /\ h = RunEvent("run.started")
         \/ main = "declaring" /\ \E p \in Declared : h = Discovered(p)
  PROVE  Kept
<1>1. /\ turn = Free /\ child = "none" /\ current = NoPhase /\ sequence = 0
      /\ \A p \in Phases : ~runtime[p].entered
      /\ Outer = {} /\ main # "completing"
  BY DEF RunInv, StateInv, MainFits, Outer
<1>2. /\ h.type \in {"run.started", "phase.discovered"} /\ ~IsFinal(h)
      /\ h.type = "run.started" => main = "starting"
      /\ h.type = "phase.discovered" => main = "declaring" /\ h.phase \in Declared
      /\ h.type \in RunEvents \cup PhaseEvents /\ h.type \notin CallTypes
  BY DEF RunEvent, Discovered, PhaseEvent, IsFinal, RunEvents, PhaseEvents, CallTypes
<1>3. Declared \subseteq Phases \ {Nest} /\ Nest \in Phases
  BY ProjectionAssumption
<1>4. PICK evs : Handled(h, evs, runtime)
  BY DEF Declares
<1>5. /\ ended' = ended /\ runtime' = runtime /\ Replays(<<h>>)
      /\ Ordered(queue) /\ First(h)
  <2>1. ended' = ended /\ runtime' = runtime /\ Replays(<<h>>)
    BY <1>2, <1>4, HandledNotFinal
  <2>2. Ordered(queue) /\ queue # <<>> /\ Head(queue) = h
    BY <1>4 DEF Handled, RunInv, QueueInv
  <2>3. First(h)
    BY <2>2, HeadFirst
  <2> QED
    BY <2>1, <2>2, <2>3
<1>6. UNCHANGED <<up, owner, terminal, ending, visited, turn, child, current>> /\ callsAlone
  BY <1>4, <1>5 DEF Declares, callsKept, callsAlone, Handled
<1>7. \A e \in Pending \ {h} : e.type \notin PhaseEvents /\ e.type # "run.started"
  <2>1. ASSUME NEW e \in Pending \ {h}, e.type \in PhaseEvents PROVE FALSE
    <3>1. e.phase \in Phases /\ Waits(e.type, e.phase)
      BY <2>1 DEF RunInv, QueueInv, PhaseNames, Waits
    <3>2. e.type = "phase.discovered"
      BY <1>1, <2>1, <3>1
      DEF RunInv, QueueInv, PhaseEvents, EntriesWait, CompletionsWait, FailuresWait
    <3>3. e.phase # Nest
      BY <1>1, <3>1, <3>2 DEF RunInv, QueueInv, DiscoveriesWait
    <3>4. Discovering(e.phase)
      BY <3>1, <3>2, <3>3 DEF RunInv, QueueInv, DiscoveriesWait
    <3>5. main = "declaring" /\ h.type = "phase.discovered" /\ h.phase # Nest
      BY <1>1, <1>2, <1>3, <3>4 DEF Discovering, Free, Discovered, PhaseEvent
    <3> QED
      BY <1>5, <3>2, <3>3, <3>5 DEF First, MayPrecede
  <2>2. ASSUME NEW e \in Pending \ {h}, e.type = "run.started" PROVE FALSE
    <3>1. main = "starting"
      BY <2>2 DEF RunInv, QueueInv, RunWaits, WaitsRun
    <3>2. h.type = "run.started"
      BY <3>1 DEF RunEvent
    <3> QED
      BY <1>5, <2>2, <3>2 DEF First, MayPrecede, RunEvents
  <2> QED
    BY <2>1, <2>2
<1>8. ASSUME NEW S, OfPhases(S), Ordered(queue)', Pending' = (Pending \ {h}) \cup S,
             \A x \in S : PhaseFits(x)', Announces(S),
             known' \in Seq(Phases), visited \in 0..Len(known'),
             Known \subseteq Known', Known' \subseteq Known \cup Declared,
             \/ main' = "declaring"
             \/ main' = IF aborted THEN "over" ELSE "evaluating"
      PROVE  Kept
  <2>1. NoCalls /\ (aborted' <=> aborted)
    BY <1>2, <1>6, <1>8, TypesApart DEF NoCalls, OfPhases, aborted
  <2>2. /\ CallsWait' /\ CallsFit' /\ StagesFit' /\ OneAccepted'
        /\ Outer' = Outer /\ (Busy(Outer)' <=> Busy(Outer))
    BY <1>1, <1>6, <1>8, <2>1, CallsUntouched
  <2>3. RunWaits'
    <3>1. ~WaitsRun("run.started")'
      BY <1>7, <1>8 DEF WaitsRun, OfPhases, PhaseEvents
    <3>2. \A t \in RunEvents : WaitsRun(t)' => WaitsRun(t)
      BY <1>8, TypesApart DEF WaitsRun, OfPhases
    <3> QED
      BY <1>1, <1>6, <2>1, <3>1, <3>2 DEF RunInv, QueueInv, RunWaits, RunEvents
  <2>4. PhasesWait'
    BY <1>7, <1>8 DEF PhasesWait
  <2>5. ControlFits'
    BY <1>1, <1>6, <1>8, <2>1 DEF RunInv, StateInv, ControlFits
  <2>6. PhasesFit'
    BY <1>1, <1>5, <1>6, <1>8, <2>1 DEF RunInv, StateInv, PhasesFit
  <2>7. TurnFits'
    BY <1>1, <1>5, <1>6, <1>8, <2>2, StateAssumption DEF RunInv, StateInv, TurnFits
  <2>8. ChildFits'
    BY <1>1, <1>3, <1>5, <1>6, <1>8 DEF RunInv, StateInv, ChildFits, callsAlone
  <2>9. MainFits'
    BY <1>1, <1>5, <1>6, <1>8 DEF MainFits, Returned, callsAlone
  <2>10. CountsFit'
    BY <1>5, <1>6, CountsUntouched DEF RunInv, StateInv, callsAlone
  <2>11. RunInv'
    BY <1>8, <2>2, <2>3, <2>4, <2>5, <2>6, <2>7, <2>8, <2>9, <2>10, StepKeeps
  <2>12. RuntimeTypes'
    BY <1>5, <1>6, <1>8 DEF RuntimeTypes, callsAlone
  <2>13. ViewInv /\ rejected = NoEvent => ViewInv'
    <3>1. CASE h.type = "phase.discovered"
      <4>1. h.type \in PhaseEvents
        BY <3>1 DEF PhaseEvents
      <4> QED
        BY <1>5, <1>6, <1>8, <4>1, HandledPhases
    <3>2. CASE h.type = "run.started"
      BY <1>5, <1>6, <1>8, <3>2, HandledRun
    <3> QED
      BY <1>2, <3>1, <3>2
  <2> QED
    BY <2>11, <2>12, <2>13 DEF Kept
<1>9. CASE Declared \subseteq Known
  <2>1. /\ Handled(h, <<>>, runtime) /\ known' = known
        /\ main' = IF aborted THEN "over" ELSE "evaluating"
    BY <1>9 DEF Declares
  <2>2. PICK S : S = {}
    OBVIOUS
  <2>3. Ordered(queue)' /\ Pending' = (Pending \ {h}) \cup S
    BY <1>5, <2>1, <2>2, HandledAlone
  <2>4. OfPhases(S) /\ (\A x \in S : PhaseFits(x)') /\ Announces(S)
    BY <1>5, <2>1, <2>2 DEF OfPhases, Announces, WaitsIn, Known
  <2>5. known' \in Seq(Phases) /\ visited \in 0..Len(known') /\ Known' = Known
    BY <2>1 DEF RuntimeTypes, Known
  <2> QED
    BY <1>8, <2>1, <2>3, <2>4, <2>5
<1>10. CASE ~(Declared \subseteq Known)
  <2>1. PICK p \in Declared \ Known :
          /\ Handled(h, <<Discovered(p)>>, runtime) /\ known' = Append(known, p)
          /\ main' = "declaring"
    BY <1>10 DEF Declares
  <2>2. PICK x, S : x = Discovered(p) /\ S = {x}
    OBVIOUS
  <2>3. /\ x.type = "phase.discovered" /\ x.phase = p /\ x.type \in PhaseEvents
        /\ p \in Phases \ {Nest} /\ p \notin Known
    BY <1>3, <2>2 DEF Discovered, PhaseEvent, PhaseEvents
  <2>4. \A e \in Pending \ {h} : MayPrecede(e, x)
    BY <1>7, <2>3, TypesApart DEF MayPrecede, PhaseEvents
  <2>5. Ordered(queue)' /\ Pending' = (Pending \ {h}) \cup S
    BY <1>5, <2>1, <2>2, <2>3, <2>4, HandledOne
  <2>6. /\ known' \in Seq(Phases) /\ Known' = Known \cup {p} /\ visited \in 0..Len(known')
    BY <2>1, <2>3, KnownGrows
  <2>7. PhaseFits(x)'
    <3>1. \A a \in Agents : agentPhase[a] # p
      BY <2>3, StateAssumption DEF RunInv, StateInv, CallsFit
    <3>2. Discovering(p)'
      BY <2>1 DEF Discovering
    <3> QED
      BY <1>1, <1>5, <1>6, <2>3, <2>6, <3>1, <3>2 DEF PhaseFits, callsAlone
  <2>8. Announces(S)
    <3>1. \A q : /\ WaitsIn(S, "phase.discovered", q) <=> q = p
                 /\ ~WaitsIn(S, "phase.entered", q) /\ ~WaitsIn(S, "phase.completed", q)
                 /\ ~WaitsIn(S, "phase.failed", q)
      BY <2>2, <2>3 DEF WaitsIn
    <3> QED
      BY <1>5, <2>3, <2>6, <3>1 DEF Announces
  <2>9. /\ OfPhases(S) /\ (\A y \in S : PhaseFits(y)')
        /\ Known \subseteq Known' /\ Known' \subseteq Known \cup Declared
    BY <2>2, <2>3, <2>6, <2>7 DEF OfPhases
  <2> QED
    BY <1>8, <2>1, <2>5, <2>6, <2>8, <2>9
<1> QED
  BY <1>9, <1>10

LEMMA StartKeeps ==
  ASSUME RuntimeTypes, view \in Snapshots, RunInv, Start \/ Declare
  PROVE  Kept
<1>1. PICK h : /\ Declares(h)
               /\ \/ main = "starting" /\ h = RunEvent("run.started")
                  \/ main = "declaring" /\ \E p \in Declared : h = Discovered(p)
  BY DEF Start, Declare
<1> QED
  BY <1>1, DeclaresKeeps

-------------------------------------------------------------------------------
(* The control of the run: its phases and calls stay where they are.         *)

\* A call may stop, and what others wait for of it stays.
callsStay ==
  /\ UNCHANGED <<sequence, inner, agentPhase, ended>>
  /\ \A a \in Agents :
       /\ stage[a] \in {"discovering", "admitting", "over"} => stage'[a] = stage[a]
       /\ stage'[a] \in Accepting => stage'[a] = stage[a]

\* What such a step keeps of the phases.
LEMMA ControlMoves ==
  ASSUME RuntimeTypes, RunInv, UNCHANGED phaseVars, callsStay, visited' = visited,
         \A e : e.type \notin RunEvents => (e \in Pending' <=> e \in Pending),
         aborted => aborted', main = "declaring" => main' = "declaring",
         main = "sealing" => main' = "sealing", ending = "failing" => ending' = "failing"
  PROVE  PhasesWait' /\ PhasesFit' /\ TurnFits' /\ ChildFits' /\ CountsFit'
<1> USE DEF phaseVars, callsStay
<1>1. /\ Outer' = Outer /\ (Busy(Outer)' => Busy(Outer)) /\ Known' = Known
      /\ \A a \in Outer : a \in Agents
  <2>1. \A a \in Outer : a \in Agents
    BY AgentNumbers DEF Outer, RuntimeTypes
  <2>2. Outer' = Outer /\ Known' = Known
    BY DEF Outer, Known
  <2> QED
    BY <2>1, <2>2 DEF Busy
<1>2. PhasesWait'
  <2>1. SUFFICES ASSUME NEW e \in Pending', e.type \in PhaseEvents PROVE PhaseFits(e)'
    BY DEF PhasesWait
  <2>2. e \in Pending
    BY <2>1, TypesApart
  <2>3. PhaseFits(e)
    BY <2>1, <2>2, PhasesWaiting DEF RunInv, QueueInv, PhasesWait
  <2>4. Waits("phase.failed", e.phase) => Waits("phase.failed", e.phase)'
    BY TypesApart DEF Waits, PhaseEvents
  <2>5. Discovering(e.phase) => Discovering(e.phase)'
    BY <1>1 DEF Discovering
  <2> QED
    BY <2>3, <2>4, <2>5, <1>1 DEF PhaseFits
<1>3. PhasesFit'
  BY <1>1 DEF RunInv, StateInv, PhasesFit
<1>4. TurnFits'
  BY <1>1 DEF RunInv, StateInv, TurnFits
<1>5. ChildFits'
  BY <1>1 DEF RunInv, StateInv, ChildFits, RuntimeTypes
<1>6. CountsFit'
  BY DEF RunInv, StateInv, CountsFit
<1> QED
  BY <1>2, <1>3, <1>4, <1>5, <1>6

\* And of all the rest, when no call stops.
LEMMA RunMoves ==
  ASSUME RuntimeTypes, view \in Snapshots, RunInv,
         UNCHANGED <<up, terminal, phaseVars, agentVars>>, visited' = visited,
         Ordered(queue)', \A e : e.type \notin RunEvents => (e \in Pending' <=> e \in Pending),
         aborted => aborted', main = "declaring" => main' = "declaring",
         main = "sealing" => main' = "sealing", ending = "failing" => ending' = "failing",
         RunWaits', ControlFits', MainFits',
         owner' \in {"none", "completion", "failure", "cancellation", "interruption"},
         main' \in {"starting", "declaring", "evaluating", "sealing", "draining",
                    "materializing", "completing", "stopped", "over"},
         ending' \in {"none", "stopping", "failing", "publishing", "over"},
         view' = view
  PROVE  Kept
<1>1. NoCalls /\ callsAlone /\ callsStay /\ UNCHANGED phaseVars
  BY TypesApart DEF NoCalls, callsAlone, callsStay, agentVars
<1>2. /\ CallsWait' /\ CallsFit' /\ StagesFit' /\ OneAccepted'
  BY <1>1, CallsUntouched DEF phaseVars, Known
<1>3. PhasesWait' /\ PhasesFit' /\ TurnFits' /\ ChildFits' /\ CountsFit'
  BY <1>1, ControlMoves
<1>4. RunInv'
  BY <1>2, <1>3, StepKeeps
<1>5. RuntimeTypes'
  BY DEF RuntimeTypes, phaseVars, agentVars
<1>6. ASSUME ViewInv PROVE ViewInv'
  <2>1. AgentsShown' /\ IndicesShown' /\ AttemptsShown' /\ CallsShown'
    BY <1>1, <1>6, CallsUnseen
  <2>2. \A t \in PhaseEvents, p \in Phases : Waits(t, p)' <=> Waits(t, p)
    BY TypesApart DEF Waits
  <2>3. PhasesShown'
    BY <1>6, <2>2 DEF ViewInv, PhasesShown, PhaseEvents, Known, phaseVars
  <2> QED
    BY <1>6, <2>1, <2>3 DEF ViewInv
<1> QED
  BY <1>4, <1>5, <1>6 DEF Kept

\* An event of the run that does not wait yet is emitted.
LEMMA EmitsRun ==
  ASSUME RunInv, NEW x, x.type \in RunEvents, Emits(<<x>>), ~WaitsRun(x.type)
  PROVE  /\ Ordered(queue)' /\ Pending' = Pending \cup {x}
         /\ \A e : e.type \notin RunEvents => (e \in Pending' <=> e \in Pending)
         /\ \A t \in RunEvents : WaitsRun(t)' <=> WaitsRun(t) \/ t = x.type
<1>1. \A e \in Pending : MayPrecede(e, x)
  <2>1. \A e \in Pending : e.type # x.type
    BY DEF WaitsRun
  <2>2. /\ x.type \notin PhaseEvents /\ x.type \notin CallTypes /\ x.type # "phase.discovered"
        /\ x.type # "phase.completed" /\ x.type # "agent.admitted"
    BY TypesApart DEF PhaseEvents
  <2> QED
    BY <2>1, <2>2 DEF MayPrecede
<1>2. Ordered(queue)' /\ Pending' = Pending \cup {x}
  BY <1>1, EmitsOne DEF RunInv, QueueInv
<1> QED
  BY <1>2 DEF WaitsRun

\* What StopAs does, from a client or from a task.
LEMMA StopFacts ==
  ASSUME RuntimeTypes, RunInv, NEW mode \in {"cancellation", "interruption", "failure"}, StopAs(mode),
         UNCHANGED phaseVars, callsStay
  PROVE  /\ Ordered(queue)' /\ \A e : e.type \notin RunEvents => (e \in Pending' <=> e \in Pending)
         /\ aborted' /\ ~aborted
         /\ main \in {"starting", "declaring", "sealing"} => main' = main
         /\ ending = "none" /\ ending' = "stopping" /\ owner' = mode
         /\ main' \in {"starting", "declaring", "sealing", "stopped", "over"}
         /\ RunWaits' /\ ControlFits' /\ MainFits'
         /\ UNCHANGED <<up, terminal, visited, view, rejected>>
<1>1. /\ owner = "none" /\ owner' = mode /\ ending' = "stopping" /\ ending = "none"
      /\ UNCHANGED <<up, terminal, visited, view, rejected>> /\ main # "completing"
      /\ aborted' /\ ~aborted
  BY DEF StopAs, Emits, aborted, RunInv, StateInv, ControlFits
<1>2. /\ main \notin {"stopped", "over"}
      /\ main \in {"starting", "declaring", "sealing"} => main' = main
      /\ main \notin {"starting", "declaring", "sealing"} => main' \in {"stopped", "over"}
  BY <1>1 DEF StopAs, RunInv, StateInv, ControlFits, RuntimeTypes
<1>3. \A t \in RunEvents \ {"run.started"} : ~WaitsRun(t)
  BY <1>1 DEF RunInv, QueueInv, RunWaits, RunEvents
<1>4. /\ Ordered(queue)' /\ \A e : e.type \notin RunEvents => (e \in Pending' <=> e \in Pending)
      /\ \A t \in RunEvents : WaitsRun(t)' <=> WaitsRun(t) \/
           (t = "run.cancellation_requested" /\ mode = "cancellation")
  <2>1. CASE mode = "cancellation"
    <3>1. PICK x : x = RunEvent("run.cancellation_requested")
      OBVIOUS
    <3>2. Emits(<<x>>) /\ x.type = "run.cancellation_requested" /\ x.type \in RunEvents
      BY <2>1, <3>1 DEF StopAs, RunEvent, RunEvents
    <3>3. ~WaitsRun(x.type)
      BY <1>3, <3>2
    <3> QED
      BY <2>1, <3>2, <3>3, EmitsRun
  <2>2. CASE mode # "cancellation"
    <3>1. Emits(<<>>)
      BY <2>2 DEF StopAs
    <3> QED
      BY <2>2, <3>1, EmitsNothing DEF RunInv, QueueInv, WaitsRun
  <2> QED
    BY <2>1, <2>2
<1>5. RunWaits'
  <2>1. WaitsRun("run.started")' => main' = "starting"
    BY <1>2, <1>4 DEF RunInv, QueueInv, RunWaits, RunEvents
  <2>2. ~WaitsRun("run.completed")' /\ ~WaitsRun("run.failed")' /\ ~WaitsRun("run.cancelled")'
        /\ ~WaitsRun("run.interrupted")'
    BY <1>3, <1>4 DEF RunEvents
  <2> QED
    BY <1>1, <2>1, <2>2 DEF RunWaits
<1>6. ControlFits'
  BY <1>1, <1>2 DEF ControlFits
<1>7. MainFits'
  <2>1. ASSUME main' \in {"starting", "declaring"}
        PROVE  /\ turn' = Free /\ child' = "none" /\ current' = NoPhase /\ sequence' = 0
               /\ \A p \in Phases : ~runtime'[p].entered
    BY <1>2, <2>1 DEF RunInv, StateInv, MainFits, phaseVars, callsStay
  <2>2. ASSUME main' \in Returned PROVE main' = "sealing" /\ main = "sealing"
    BY <1>2, <2>2 DEF Returned
  <2>3. ASSUME main' \in Returned
        PROVE  turn' = Free /\ child' \notin Nested /\ \A a \in Outer' : stage'[a] = "over"
    <3>1. turn = Free /\ child \notin Nested /\ \A a \in Outer : stage[a] = "over"
      BY <2>2, <2>3 DEF RunInv, StateInv, MainFits, Returned
    <3>2. Outer' = Outer /\ \A a \in Outer : a \in Agents
      BY AgentNumbers DEF Outer, callsStay, RuntimeTypes
    <3> QED
      BY <3>1, <3>2 DEF phaseVars, callsStay
  <2> QED
    BY <2>1, <2>2, <2>3 DEF MainFits
<1> QED
  BY <1>1, <1>2, <1>4, <1>5, <1>6, <1>7

\* The steps of the control.
LEMMA StopKeeps ==
  ASSUME RuntimeTypes, view \in Snapshots, RunInv, Stop
  PROVE  Kept
<1>1. PICK mode \in {"cancellation", "interruption", "failure"} : StopAs(mode)
  BY ProjectionAssumption DEF Stop
<1>2. UNCHANGED <<phaseVars, agentVars>> /\ UNCHANGED phaseVars /\ callsStay
  BY DEF Stop, callsStay, agentVars
<1>3. /\ Ordered(queue)' /\ \A e : e.type \notin RunEvents => (e \in Pending' <=> e \in Pending)
      /\ aborted' /\ ~aborted
      /\ main \in {"starting", "declaring", "sealing"} => main' = main
      /\ ending = "none" /\ ending' = "stopping" /\ owner' = mode
      /\ main' \in {"starting", "declaring", "sealing", "stopped", "over"}
      /\ RunWaits' /\ ControlFits' /\ MainFits'
      /\ UNCHANGED <<up, terminal, visited, view, rejected>>
  BY <1>1, <1>2, StopFacts
<1> QED
  BY <1>2, <1>3, RunMoves

LEMMA EndsKeeps ==
  ASSUME RuntimeTypes, view \in Snapshots, RunInv, Ends
  PROVE  Kept
<1>1. PICK x : x = RunEvent(EndEvent[owner])
  OBVIOUS
<1>2. /\ ending = "stopping" /\ ending' = "publishing" /\ Emits(<<x>>)
      /\ UNCHANGED <<owner, terminal, main, visited, phaseVars, agentVars, up, view, rejected>>
  BY <1>1 DEF Ends, Emits
<1>3. /\ owner \in {"failure", "cancellation", "interruption"} /\ aborted /\ aborted'
      /\ main # "completing"
  BY <1>2 DEF RunInv, StateInv, ControlFits, RuntimeTypes, aborted
<1>4. x.type \in {"run.failed", "run.cancelled", "run.interrupted"} /\ x.type \in RunEvents
  BY <1>1, <1>3 DEF EndEvent, RunEvent, RunEvents
<1>5. ~WaitsRun(x.type)
  BY <1>2, <1>4 DEF RunInv, QueueInv, RunWaits
<1>6. /\ Ordered(queue)'
      /\ \A e : e.type \notin RunEvents => (e \in Pending' <=> e \in Pending)
      /\ \A t \in RunEvents : WaitsRun(t)' <=> WaitsRun(t) \/ t = x.type
  BY <1>2, <1>4, <1>5, EmitsRun
<1>7. RunWaits'
  BY <1>2, <1>3, <1>4, <1>6 DEF RunInv, QueueInv, RunWaits, RunEvents
<1>8. ControlFits'
  BY <1>2, <1>3 DEF RunInv, StateInv, ControlFits
<1>9. MainFits'
  BY <1>2 DEF RunInv, StateInv, MainFits, Outer, phaseVars, agentVars
<1> QED
  BY <1>2, <1>3, <1>6, <1>7, <1>8, <1>9, RunMoves DEF RuntimeTypes

\* Drained and Claims; the end of MainGoesOn takes the run out of publishing.
LEMMA DrainedKeeps ==
  ASSUME RuntimeTypes, view \in Snapshots, RunInv, Drained
  PROVE  Kept
<1>1. /\ main = "draining" /\ main' = "materializing"
      /\ UNCHANGED <<owner, terminal, ending, visited, phaseVars, agentVars, up, view, rejected, queue>>
      /\ (aborted' <=> aborted) /\ ~aborted
  BY DEF Drained, logVars, aborted
<1>2. Pending' = Pending /\ Ordered(queue)' /\ \A t : WaitsRun(t)' <=> WaitsRun(t)
  BY <1>1 DEF Pending, RunInv, QueueInv, WaitsRun
<1>3. RunWaits'
  BY <1>1, <1>2 DEF RunInv, QueueInv, RunWaits
<1>4. ControlFits'
  BY <1>1 DEF RunInv, StateInv, ControlFits
<1>5. MainFits'
  BY <1>1 DEF RunInv, StateInv, MainFits, Outer, phaseVars, agentVars, Returned
<1> QED
  BY <1>1, <1>2, <1>3, <1>4, <1>5, RunMoves DEF RuntimeTypes

LEMMA ClaimsKeeps ==
  ASSUME RuntimeTypes, view \in Snapshots, RunInv, Claims
  PROVE  Kept
<1>1. PICK x : x = RunEvent("run.completed")
  OBVIOUS
<1>2. /\ main = "materializing" /\ main' = "completing" /\ owner = "none" /\ owner' = "completion"
      /\ Emits(<<x>>) /\ x.type = "run.completed" /\ x.type \in RunEvents
      /\ UNCHANGED <<terminal, ending, visited, phaseVars, agentVars, up, view, rejected>>
      /\ ~aborted' /\ ~aborted
  BY <1>1 DEF Claims, Emits, aborted, RunEvent, RunEvents
<1>3. ~WaitsRun(x.type)
  BY <1>2 DEF RunInv, QueueInv, RunWaits
<1>4. /\ Ordered(queue)'
      /\ \A e : e.type \notin RunEvents => (e \in Pending' <=> e \in Pending)
      /\ \A t \in RunEvents : WaitsRun(t)' <=> WaitsRun(t) \/ t = x.type
  BY <1>2, <1>3, EmitsRun
<1>5. RunWaits'
  BY <1>2, <1>4 DEF RunInv, QueueInv, RunWaits, RunEvents
<1>6. ControlFits'
  BY <1>2 DEF RunInv, StateInv, ControlFits
<1>7. MainFits'
  BY <1>2 DEF RunInv, StateInv, MainFits, Outer, phaseVars, agentVars, Returned
<1> QED
  BY <1>2, <1>4, <1>5, <1>6, <1>7, RunMoves DEF RuntimeTypes

-------------------------------------------------------------------------------
(* The end of the workflow's evaluator.                                      *)

\* When the calls of the workflow are over its phases are empty.
LEMMA OuterOver ==
  ASSUME RuntimeTypes, RunInv, ~aborted, \A a \in Outer : stage[a] = "over", NEW p \in Phases \ {Nest}
  PROVE  /\ \A a \in Agents : agentPhase[a] = p => a \in ended
         /\ runtime[p].sealed => runtime[p].over
         /\ runtime[p].entered /\ ~runtime[p].over => MayClose(p)
<1>1. ASSUME NEW a \in Agents, agentPhase[a] = p PROVE a \in ended
  <2>1. a \notin inner /\ stage[a] # "idle"
    BY <1>1, StateAssumption DEF RunInv, StateInv, CallsFit
  <2>2. a \in Outer
    BY <2>1, AgentNumbers DEF RunInv, StateInv, CallsFit, Outer, RuntimeTypes
  <2> QED
    BY <2>1, <2>2 DEF RunInv, StateInv, StagesFit
<1>2. {a \in Agents : agentPhase[a] = p /\ a \notin ended} = {}
  BY <1>1
<1>3. Cardinality({a \in Agents : agentPhase[a] = p /\ a \notin ended}) = 0
  BY <1>2, FS_EmptySet
<1>4. ~runtime[p].over => runtime[p].active = 0 /\ (runtime[p].sealed => runtime[p].active > 0)
  BY <1>3 DEF RunInv, StateInv, CountsFit
<1>5. p # NoPhase
  BY StateAssumption
<1> QED
  BY <1>1, <1>4, <1>5 DEF MayClose

\* The completion of an empty phase may follow what waits.
LEMMA CompletionFollows ==
  ASSUME RuntimeTypes, RunInv, NEW q \in Phases, MayClose(q), NEW x, x = Completed(q),
         \A e \in Pending : e.type \in PhaseEvents /\ e.phase = q => e.type = "phase.failed"
  PROVE  \A e \in Pending : MayPrecede(e, x)
<1>1. x.type = "phase.completed" /\ x.phase = q /\ x.type \in PhaseEvents
  BY DEF Completed, PhaseEvent, PhaseEvents
<1>2. \A a \in Agents : agentPhase[a] = q => a \in ended
  BY NoRoom DEF RunInv, StateInv
<1>3. SUFFICES ASSUME NEW e \in Pending PROVE MayPrecede(e, x)
  OBVIOUS
<1>4. e.type \in PhaseEvents => e.phase # q
  <2>1. e.type = "phase.failed" /\ e.phase = q => runtime[q].over
    BY DEF RunInv, QueueInv, FailuresWait, Waits
  <2> QED
    BY <2>1 DEF MayClose
<1>5. e.type = "agent.admitted" => e.phase # q
  <2>1. e.type = "agent.admitted" =>
          e.agent \in Agents /\ e.agent \notin ended /\ agentPhase[e.agent] = e.phase
    BY DEF RunInv, QueueInv, CallsWait, CallFits, CallTypes
  <2> QED
    BY <1>2, <2>1
<1> QED
  BY <1>1, <1>4, <1>5, TypesApart DEF MayPrecede

\* The evaluator returns, and the phase it sealed is complete.
LEMMA ReturnsKeeps ==
  ASSUME RuntimeTypes, view \in Snapshots, RunInv, Returns
  PROVE  Kept
<1>0. PICK r : r = Seals(current)
  OBVIOUS
<1>1. /\ main = "evaluating" /\ turn = Free /\ ~Busy(Outer) /\ child \notin Nested
      /\ \A a \in Outer : stage[a] = "over"
      /\ runtime' = r /\ callsAlone
      /\ UNCHANGED <<owner, terminal, ending, visited, turn, child, current, known, up, view, rejected>>
      /\ IF MayClose(current) THEN main' = "sealing" /\ Emits(<<Completed(current)>>)
         ELSE main' = "draining" /\ Emits(<<>>)
  BY <1>0 DEF Returns, OuterFree, turnKept, callsKept, callsAlone, Emits
<1>2. ~aborted /\ ~aborted' /\ owner = "none" /\ ending = "none" /\ Nest \in Phases /\ NoPhase \notin Phases
  BY <1>1, ProjectionAssumption, StateAssumption DEF RunInv, StateInv, ControlFits, RuntimeTypes, aborted
<1>3. /\ current \in Phases \cup {NoPhase} /\ current # Nest
      /\ current \in Phases => runtime[current].entered
  BY <1>2 DEF RunInv, StateInv, TurnFits, RuntimeTypes
<1>4. /\ r \in [Phases -> PhaseRecords]
      /\ \A q \in Phases :
           /\ r[q].entered = runtime[q].entered /\ r[q].active = runtime[q].active
           /\ r[q].sealed <=> runtime[q].sealed \/ (q = current /\ ~runtime[current].over)
           /\ r[q].over <=> runtime[q].over \/ (q = current /\ MayClose(current))
  BY <1>0, <1>3, SealsFacts
<1>5. \A p \in Phases \ {Nest} :
        /\ runtime[p].sealed => runtime[p].over
        /\ runtime[p].entered /\ ~runtime[p].over => MayClose(p)
  BY <1>1, <1>2, OuterOver
<1>6. QuietBut({})
  BY <1>1, Quiet
<1>7. Onward /\ runtime'[Nest].entered = runtime[Nest].entered
      /\ runtime'[Nest].sealed = runtime[Nest].sealed
      /\ runtime'[Nest].over = runtime[Nest].over
  <2>1. Onward
    BY <1>1, <1>4 DEF Onward
  <2>2. Nest \in Phases /\ r[Nest] \in PhaseRecords /\ runtime[Nest] \in PhaseRecords
    BY <1>2, <1>4, PhaseFields
  <2>3. /\ runtime[Nest].entered \in BOOLEAN /\ runtime[Nest].sealed \in BOOLEAN
        /\ runtime[Nest].over \in BOOLEAN /\ r[Nest].sealed \in BOOLEAN /\ r[Nest].over \in BOOLEAN
    BY <2>2 DEF PhaseRecords
  <2>4. /\ r[Nest].entered = runtime[Nest].entered
        /\ r[Nest].sealed <=> runtime[Nest].sealed
        /\ r[Nest].over <=> runtime[Nest].over
    BY <1>3, <1>4, <2>2
  <2> QED
    BY <1>1, <2>1, <2>3, <2>4
<1>8. ASSUME NEW S, OfPhases(S), Ordered(queue)', Pending' = Pending \cup S,
             \A x \in S : PhaseFits(x)', Announces(S), main' \in {"sealing", "draining"},
             main' = "draining" => ~MayClose(current)
      PROVE  Kept
  <2>1. NoCalls
    BY <1>8, TypesApart DEF NoCalls, OfPhases
  <2>2. /\ CallsWait' /\ CallsFit' /\ StagesFit' /\ OneAccepted'
        /\ Outer' = Outer /\ (Busy(Outer)' <=> Busy(Outer))
    BY <1>1, <1>2, <2>1, CallsUntouched DEF Known
  <2>3. RunWaits'
    <3>1. \A t \in RunEvents : WaitsRun(t)' <=> WaitsRun(t)
      BY <1>8, TypesApart DEF WaitsRun, OfPhases
    <3> QED
      BY <1>1, <1>2, <3>1 DEF RunInv, QueueInv, RunWaits, RunEvents
  <2>4. PhasesWait'
    <3>1. PICK H : H = {}
      OBVIOUS
    <3>2. QuietBut(H) /\ Pending' = (Pending \ H) \cup S
          /\ \A x \in H : x.type \in PhaseEvents => x.phase # Nest
      BY <1>6, <1>8, <3>1
    <3>3. /\ UNCHANGED <<child, ending, visited>> /\ Known \subseteq Known'
          /\ visited > 0 => known'[visited] = known[visited]
      BY <1>1 DEF Known
    <3> QED
      BY <1>1, <1>7, <1>8, <3>2, <3>3, WorkflowWaits
  <2>5. ControlFits'
    BY <1>1, <1>2, <1>8 DEF RunInv, StateInv, ControlFits
  <2>6. PhasesFit'
    <3>1. ASSUME NEW q \in Phases
          PROVE  /\ r[q].entered => q \in Known
                 /\ r[q].sealed \/ r[q].over => r[q].entered
                 /\ r[q].over => r[q].sealed
                 /\ r[q].entered => r[q].sealed \/ r[q].over \/ q = current \/ q = Nest
      <4>1. /\ runtime[q].entered => q \in Known
            /\ runtime[q].sealed \/ runtime[q].over => runtime[q].entered
            /\ runtime[q].over => runtime[q].sealed
            /\ runtime[q].entered => runtime[q].sealed \/ runtime[q].over \/ q = current \/ q = Nest
        BY <1>2 DEF RunInv, StateInv, PhasesFit
      <4>2. MayClose(current) => ~runtime[current].over
        BY DEF MayClose
      <4> QED
        BY <1>3, <1>4, <4>1, <4>2
    <3> QED
      BY <1>1, <3>1 DEF PhasesFit, Known
  <2>7. TurnFits'
    BY <1>1, <1>3, <1>4, <2>2 DEF RunInv, StateInv, TurnFits, Known
  <2>8. ChildFits'
    BY <1>1, <1>7 DEF RunInv, StateInv, ChildFits, Known, callsAlone
  <2>9. MainFits'
    <3>1. main' = "draining" => \A p \in Phases \ {Nest} : r[p].entered => r[p].over
      <4>1. ASSUME main' = "draining", NEW p \in Phases \ {Nest}, r[p].entered PROVE r[p].over
        <5>1. runtime[p].entered => runtime[p].sealed \/ runtime[p].over \/ p = current
          BY DEF RunInv, StateInv, PhasesFit
        <5> QED
          BY <1>4, <1>5, <1>8, <4>1, <5>1
      <4> QED
        BY <4>1
    <3> QED
      BY <1>1, <1>8, <2>2, <3>1 DEF MainFits, Returned, callsAlone
  <2>10. CountsFit'
    <3>1. \A p \in Phases :
            /\ runtime'[p].active = runtime[p].active
            /\ runtime[p].over => runtime'[p].over
            /\ runtime'[p].sealed /\ ~runtime'[p].over => runtime[p].sealed \/ runtime[p].active # 0
      <4>1. \A p \in Phases : p = current /\ ~runtime[p].over /\ ~MayClose(current) => runtime[p].active # 0
        BY <1>2, <1>3 DEF MayClose
      <4> QED
        BY <1>1, <1>4, <4>1
    <3> QED
      BY <1>1, <3>1, CountsUntouched DEF RunInv, StateInv, callsAlone
  <2>11. RunInv'
    BY <1>8, <2>2, <2>3, <2>4, <2>5, <2>6, <2>7, <2>8, <2>9, <2>10, StepKeeps
  <2>12. RuntimeTypes'
    BY <1>1, <1>4, <1>8 DEF RuntimeTypes, callsAlone, PhaseRecords
  <2>13. ViewInv => ViewInv'
    BY <1>1, <1>8, EmittedPhases
  <2> QED
    BY <2>11, <2>12, <2>13 DEF Kept
<1>9. CASE MayClose(current)
  <2>1. PICK x, S : x = Completed(current) /\ S = {x}
    OBVIOUS
  <2>2. /\ x.type = "phase.completed" /\ x.phase = current /\ x.type \in PhaseEvents
        /\ Emits(<<x>>) /\ current \in Phases \ {Nest}
    BY <1>1, <1>3, <1>9, <2>1 DEF Completed, PhaseEvent, PhaseEvents, MayClose
  <2>3. \A e \in Pending : e.type \in PhaseEvents /\ e.phase = current => e.type = "phase.failed"
    BY <1>6, <2>2 DEF QuietBut
  <2>4. \A e \in Pending : MayPrecede(e, x)
    BY <1>9, <2>1, <2>2, <2>3, CompletionFollows
  <2>5. Ordered(queue)' /\ Pending' = Pending \cup S
    BY <2>1, <2>2, <2>4, EmitsOne DEF RunInv, QueueInv
  <2>6. PhaseFits(x)'
    <3>1. \A a \in Agents : agentPhase[a] = current => a \in ended
      BY <1>1, <1>2, <2>2, OuterOver
    <3> QED
      BY <1>1, <1>3, <1>4, <1>9, <2>2, <3>1 DEF PhaseFits, callsAlone
  <2>7. Announces(S)
    <3>1. \A q : /\ WaitsIn(S, "phase.completed", q) <=> q = current
                 /\ ~WaitsIn(S, "phase.discovered", q) /\ ~WaitsIn(S, "phase.entered", q)
                 /\ ~WaitsIn(S, "phase.failed", q)
      BY <2>1, <2>2 DEF WaitsIn
    <3> QED
      BY <1>1, <1>4, <1>9, <3>1 DEF Announces, Known
  <2>8. OfPhases(S) /\ (\A y \in S : PhaseFits(y)') /\ main' = "sealing"
    BY <1>1, <1>9, <2>1, <2>2, <2>6 DEF OfPhases
  <2> QED
    BY <1>8, <2>5, <2>7, <2>8
<1>10. CASE ~MayClose(current)
  <2>1. PICK S : S = {}
    OBVIOUS
  <2>2. Ordered(queue)' /\ Pending' = Pending \cup S /\ main' = "draining"
    BY <1>1, <1>10, <2>1, EmitsNothing DEF RunInv, QueueInv
  <2>3. OfPhases(S) /\ (\A y \in S : PhaseFits(y)') /\ Announces(S)
    BY <1>1, <1>4, <1>10, <2>1 DEF OfPhases, Announces, WaitsIn, Known
  <2> QED
    BY <1>8, <1>10, <2>2, <2>3
<1> QED
  BY <1>9, <1>10

LEMMA SealedKeeps ==
  ASSUME RuntimeTypes, view \in Snapshots, RunInv, MainGoesOn, main = "sealing"
  PROVE  Kept
<1>1. PICK h : h = Completed(current)
  OBVIOUS
<1>2. /\ main' = IF aborted THEN "over" ELSE "draining"
      /\ Handled(h, <<>>, runtime) /\ terminal' = terminal
      /\ UNCHANGED <<owner, ending, visited, turn, child, current, known>>
      /\ UNCHANGED <<sequence, inner, agentPhase, stage, attempt>>
  BY <1>1 DEF MainGoesOn, turnKept, callsKept
<1>3. h.type = "phase.completed" /\ h.phase = current /\ h.type \in PhaseEvents /\ ~IsFinal(h)
  BY <1>1 DEF Completed, PhaseEvent, PhaseEvents, IsFinal
<1>4. ended' = ended /\ runtime' = runtime /\ Replays(<<h>>)
  BY <1>2, <1>3, HandledNotFinal
<1>5. up' = up /\ First(h) /\ callsAlone
  BY <1>2, <1>4, HeadFirst DEF Handled, RunInv, QueueInv, callsAlone
<1>6. Ordered(queue)' /\ Pending' = Pending \ {h}
  BY <1>2, HandledAlone DEF RunInv, QueueInv
<1>7. /\ turn = Free /\ child \notin Nested /\ \A a \in Outer : stage[a] = "over"
  BY DEF RunInv, StateInv, MainFits, Returned
<1>8. ~Busy(Outer)
  BY <1>7 DEF Busy, Accepting
<1>9. current \in Phases \ {Nest} /\ runtime[current].over
  <2>1. current \in Phases
    BY <1>3, <1>5 DEF First, RunInv, QueueInv, PhaseNames
  <2>2. Waits("phase.completed", current)
    BY <1>3, <1>5 DEF First, Waits
  <2> QED
    BY <2>1, <2>2, StateAssumption DEF RunInv, QueueInv, CompletionsWait, StateInv, TurnFits
<1>10. PICK H, S : H = {h} /\ S = {}
  OBVIOUS
<1>11. QuietBut(H)
  <2>1. SUFFICES ASSUME NEW e \in Pending \ {h}, e.type \in PhaseEvents, e.phase # Nest,
                        e.type # "phase.failed"
                 PROVE  FALSE
    BY <1>10 DEF QuietBut
  <2>2. e.phase \in Phases /\ Waits(e.type, e.phase)
    BY <2>1 DEF RunInv, QueueInv, PhaseNames, Waits
  <2>3. e.type # "phase.discovered"
    BY <1>7, <2>1, <2>2 DEF RunInv, QueueInv, DiscoveriesWait, Discovering, Free
  <2>4. e.type # "phase.entered"
    BY <1>7, <2>1, <2>2 DEF RunInv, QueueInv, EntriesWait, At, Free
  <2>5. e.type = "phase.completed" /\ e.phase = current
    BY <2>1, <2>2, <2>3, <2>4 DEF RunInv, QueueInv, CompletionsWait, PhaseEvents
  <2>6. Rank(h.type) < Rank(e.type)
    BY <1>3, <1>5, <2>1, <2>5, AfterHead
  <2> QED
    BY <1>3, <2>5, <2>6, RankNat
<1>12. NoCalls /\ (aborted' <=> aborted)
  BY <1>2, <1>3, <1>6, TypesApart DEF NoCalls, aborted
<1>13. /\ CallsWait' /\ CallsFit' /\ StagesFit' /\ OneAccepted'
       /\ Outer' = Outer /\ (Busy(Outer)' <=> Busy(Outer))
  BY <1>2, <1>5, <1>12, CallsUntouched DEF Known
<1>14. RunWaits'
  <2>1. \A t \in RunEvents : WaitsRun(t)' <=> WaitsRun(t)
    BY <1>3, <1>6, TypesApart DEF WaitsRun
  <2> QED
    BY <1>2, <1>12, <2>1 DEF RunInv, QueueInv, RunWaits, RunEvents
<1>15. PhasesWait'
  <2>1. Pending' = (Pending \ H) \cup S /\ (\A x \in S : PhaseFits(x)')
        /\ \A x \in H : x.type \in PhaseEvents => x.phase # Nest
    BY <1>3, <1>6, <1>9, <1>10
  <2>2. /\ UNCHANGED <<child, ending, visited>> /\ Known \subseteq Known'
        /\ visited > 0 => known'[visited] = known[visited]
    BY <1>2 DEF Known
  <2>3. /\ Onward /\ runtime'[Nest].entered = runtime[Nest].entered
        /\ runtime'[Nest].sealed = runtime[Nest].sealed
        /\ runtime'[Nest].over = runtime[Nest].over
    BY <1>4 DEF Onward
  <2> QED
    BY <1>5, <1>11, <2>1, <2>2, <2>3, WorkflowWaits
<1>16. ControlFits'
  BY <1>2, <1>12 DEF RunInv, StateInv, ControlFits
<1>17. PhasesFit' /\ TurnFits' /\ ChildFits' /\ CountsFit'
  <2>1. PhasesFit'
    BY <1>2, <1>4, <1>12 DEF RunInv, StateInv, PhasesFit, Known
  <2>2. TurnFits'
    BY <1>2, <1>4, <1>13 DEF RunInv, StateInv, TurnFits, Known
  <2>3. ChildFits'
    BY <1>2, <1>4 DEF RunInv, StateInv, ChildFits, Known
  <2>4. CountsFit'
    BY <1>2, <1>4 DEF RunInv, StateInv, CountsFit
  <2> QED
    BY <2>1, <2>2, <2>3, <2>4
<1>18. MainFits'
  <2>1. ~aborted => \A p \in Phases \ {Nest} : runtime[p].entered => runtime[p].over
    <3>1. ASSUME ~aborted, NEW p \in Phases \ {Nest}, runtime[p].entered PROVE runtime[p].over
      <4>1. runtime[p].sealed \/ runtime[p].over \/ p = current
        BY <3>1 DEF RunInv, StateInv, PhasesFit
      <4>2. runtime[p].sealed => runtime[p].over
        BY <1>7, <3>1, OuterOver
      <4> QED
        BY <1>9, <4>1, <4>2
    <3> QED
      BY <3>1
  <2> QED
    BY <1>2, <1>4, <1>5, <1>7, <1>13, <2>1 DEF MainFits, Returned, callsAlone
<1>19. RunInv'
  BY <1>6, <1>13, <1>14, <1>15, <1>16, <1>17, <1>18, StepKeeps
<1>20. RuntimeTypes'
  BY <1>2, <1>4, <1>5 DEF RuntimeTypes, callsAlone
<1>21. ViewInv /\ rejected = NoEvent => ViewInv'
  <2>1. Announces(S)
    BY <1>2, <1>4, <1>10 DEF Announces, WaitsIn, Known
  <2>2. OfPhases(S) /\ Pending' = (Pending \ {h}) \cup S
    BY <1>6, <1>10 DEF OfPhases
  <2> QED
    BY <1>3, <1>4, <1>5, <2>1, <2>2, HandledPhases
<1> QED
  BY <1>19, <1>20, <1>21 DEF Kept

-------------------------------------------------------------------------------
(* #failOpenPhases.                                                         *)

\* A phase is failed, and the event is awaited.
LEMMA FailsPhaseKeeps ==
  ASSUME RuntimeTypes, view \in Snapshots, RunInv, FailsPhase
  PROVE  Kept
<1>1. PICK i \in NextFallible :
        /\ visited' = i /\ runtime' = [runtime EXCEPT ![known[i]].over = TRUE]
        /\ Emits(<<Failed(known[i])>>)
  BY DEF FailsPhase
<1>2. PICK p, x, r, S : /\ p = known[i] /\ x = Failed(p) /\ r = [runtime EXCEPT ![p].over = TRUE]
                        /\ S = {x}
  OBVIOUS
<1>3. /\ visited \in Nat /\ Len(known) \in Nat /\ i \in visited + 1..Len(known)
      /\ runtime[p].entered /\ ~runtime[p].over
  BY <1>2 DEF NextFallible, RuntimeTypes
<1>4. i \in 0..Len(known) /\ i > 0 /\ p \in Phases
  BY <1>2, <1>3 DEF RuntimeTypes
<1>5. /\ ending = "stopping" /\ ending' = "failing" /\ Emits(<<x>>) /\ runtime' = r /\ visited' = i
      /\ UNCHANGED <<owner, terminal, main, turn, child, current, known, up, view, rejected>>
      /\ callsAlone
  BY <1>1, <1>2 DEF FailsPhase, turnKept, callsKept, callsAlone, Emits
<1>6. /\ r \in [Phases -> PhaseRecords]
      /\ \A q \in Phases :
           /\ r[q].entered = runtime[q].entered /\ r[q].sealed = runtime[q].sealed
           /\ r[q].active = runtime[q].active /\ (r[q].over <=> runtime[q].over \/ q = p)
  <2>1. runtime \in [Phases -> PhaseRecords] /\ runtime[p] \in PhaseRecords
    BY <1>4, PhaseFields
  <2>2. PICK s : s = [runtime[p] EXCEPT !.over = TRUE]
    OBVIOUS
  <2>3. s \in PhaseRecords
    BY <2>1, <2>2 DEF PhaseRecords
  <2>4. /\ s.entered = runtime[p].entered /\ s.sealed = runtime[p].sealed
        /\ s.active = runtime[p].active /\ s.over = TRUE
    BY <2>1, <2>2 DEF PhaseRecords
  <2>5. r = [runtime EXCEPT ![p] = s]
    BY <1>2, <2>2
  <2>6. r \in [Phases -> PhaseRecords]
    BY <2>1, <2>3, <2>5
  <2>7. r[p] = s /\ \A q \in Phases : q # p => r[q] = runtime[q]
    BY <1>4, <2>1, <2>5
  <2>8. \A q \in Phases : r[q].over <=> runtime[q].over \/ q = p
    BY <2>4, <2>7
  <2> QED
    BY <2>4, <2>6, <2>7, <2>8
<1>7. x.type = "phase.failed" /\ x.phase = p /\ x.type \in PhaseEvents
  BY <1>2 DEF Failed, PhaseEvent, PhaseEvents
<1>8. \A q \in Phases : ~Waits("phase.failed", q)
  BY <1>5 DEF RunInv, QueueInv, FailuresWait
<1>9. ASSUME NEW e \in Pending PROVE MayPrecede(e, x)
  <2>1. e.type \in PhaseEvents /\ e.phase = p => Rank(e.type) < Rank(x.type)
    <3>1. e.type \in PhaseEvents /\ e.phase = p => e.type # "phase.failed"
      BY <1>4, <1>8 DEF Waits
    <3> QED
      BY <1>7, <3>1 DEF Rank, PhaseEvents
  <2> QED
    BY <1>7, <2>1, TypesApart DEF MayPrecede
<1>10. Ordered(queue)' /\ Pending' = Pending \cup S
  BY <1>2, <1>5, <1>7, <1>9, EmitsOne DEF RunInv, QueueInv
<1>11. /\ OfPhases(S) /\ NoCalls /\ (aborted' <=> aborted) /\ aborted /\ Known' = Known
  BY <1>2, <1>5, <1>7, <1>10, TypesApart
  DEF OfPhases, NoCalls, aborted, Known, RunInv, StateInv, ControlFits
<1>12. /\ CallsWait' /\ CallsFit' /\ StagesFit' /\ OneAccepted'
       /\ Outer' = Outer /\ (Busy(Outer)' <=> Busy(Outer))
  BY <1>5, <1>11, CallsUntouched
<1>13. RunWaits'
  <2>1. \A t \in RunEvents : WaitsRun(t)' <=> WaitsRun(t)
    BY <1>10, <1>11, TypesApart DEF WaitsRun, OfPhases
  <2> QED
    BY <1>5, <1>11, <2>1 DEF RunInv, QueueInv, RunWaits, RunEvents
<1>14. PhasesWait'
  <2>1. PhaseFits(x)'
    BY <1>2, <1>3, <1>4, <1>5, <1>6, <1>7 DEF PhaseFits
  <2>2. ASSUME NEW e \in Pending, e.type \in PhaseEvents PROVE PhaseFits(e)'
    <3>1. PhaseFits(e) /\ e.phase \in Phases
      BY <2>2, PhasesWaiting DEF RunInv, QueueInv, PhasesWait, PhaseFits
    <3>2. e.type # "phase.failed"
      BY <1>8, <3>1 DEF Waits
    <3>3. Waits("phase.failed", p)'
      BY <1>2, <1>7, <1>10 DEF Waits
    <3>4. e.type = "phase.entered" /\ runtime'[e.phase].over => Waits("phase.failed", e.phase)'
      BY <1>5, <1>6, <1>8, <3>1, <3>3 DEF PhaseFits
    <3>5. Discovering(e.phase) => Discovering(e.phase)'
      BY <1>5, <1>12 DEF Discovering, callsAlone
    <3> QED
      BY <1>5, <1>6, <1>11, <3>1, <3>2, <3>4, <3>5 DEF PhaseFits, callsAlone
  <2>3. \A e \in Pending' : e \in Pending \/ e = x
    BY <1>2, <1>10
  <2> QED
    BY <2>1, <2>2, <2>3 DEF PhasesWait
<1>15. ControlFits'
  BY <1>4, <1>5, <1>11 DEF RunInv, StateInv, ControlFits
<1>16. PhasesFit'
  BY <1>3, <1>4, <1>5, <1>6, <1>11 DEF RunInv, StateInv, PhasesFit
<1>17. TurnFits'
  BY <1>5, <1>6, <1>11, <1>12 DEF RunInv, StateInv, TurnFits, RuntimeTypes
<1>18. ChildFits'
  BY <1>5, <1>6, <1>11, ProjectionAssumption DEF RunInv, StateInv, ChildFits, callsAlone
<1>19. MainFits'
  BY <1>5, <1>6, <1>12 DEF RunInv, StateInv, MainFits, callsAlone
<1>20. CountsFit'
  BY <1>5, <1>6, CountsUntouched DEF RunInv, StateInv, callsAlone
<1>21. RunInv'
  BY <1>10, <1>12, <1>13, <1>14, <1>15, <1>16, <1>17, <1>18, <1>19, <1>20, StepKeeps
<1>22. RuntimeTypes'
  BY <1>4, <1>5, <1>6 DEF RuntimeTypes, callsAlone, PhaseRecords
<1>23. Announces(S)
  <2>1. \A q : /\ WaitsIn(S, "phase.failed", q) <=> q = p
               /\ ~WaitsIn(S, "phase.discovered", q) /\ ~WaitsIn(S, "phase.entered", q)
               /\ ~WaitsIn(S, "phase.completed", q)
    BY <1>2, <1>7 DEF WaitsIn
  <2> QED
    BY <1>5, <1>6, <1>11, <2>1 DEF Announces
<1>24. ViewInv => ViewInv'
  BY <1>5, <1>10, <1>11, <1>23, EmittedPhases
<1> QED
  BY <1>21, <1>22, <1>24 DEF Kept

LEMMA PhaseFailedKeeps ==
  ASSUME RuntimeTypes, view \in Snapshots, RunInv, PhaseFailed
  PROVE  Kept
<1>1. PICK p, h : p = known[visited] /\ h = Failed(p)
  OBVIOUS
<1>2. /\ ending = "failing" /\ ending' = "stopping" /\ Handled(h, <<>>, runtime)
      /\ UNCHANGED <<owner, terminal, main, visited, turn, child, current, known>>
      /\ UNCHANGED <<sequence, inner, agentPhase, stage, attempt>>
  BY <1>1 DEF PhaseFailed, turnKept, callsKept
<1>3. h.type = "phase.failed" /\ h.phase = p /\ h.type \in PhaseEvents /\ ~IsFinal(h)
  BY <1>1 DEF Failed, PhaseEvent, PhaseEvents, IsFinal
<1>4. ended' = ended /\ runtime' = runtime /\ Replays(<<h>>)
  BY <1>2, <1>3, HandledNotFinal
<1>5. up' = up /\ First(h) /\ callsAlone
  BY <1>2, <1>4, HeadFirst DEF Handled, RunInv, QueueInv, callsAlone
<1>6. Ordered(queue)' /\ Pending' = Pending \ {h}
  BY <1>2, HandledAlone DEF RunInv, QueueInv
<1>7. \A e \in Pending \ {h} : e.type \in PhaseEvents => e.phase # p
  <2>1. ASSUME NEW e \in Pending \ {h}, e.type \in PhaseEvents, e.phase = p PROVE FALSE
    <3>1. Rank("phase.failed") < Rank(e.type)
      BY <1>3, <1>5, <2>1, AfterHead
    <3> QED
      BY <2>1, <3>1 DEF Rank, PhaseEvents
  <2> QED
    BY <2>1
<1>8. NoCalls /\ (aborted' <=> aborted) /\ Known' = Known
  BY <1>2, <1>3, <1>6, TypesApart DEF NoCalls, aborted, Known
<1>9. /\ CallsWait' /\ CallsFit' /\ StagesFit' /\ OneAccepted'
      /\ Outer' = Outer /\ (Busy(Outer)' <=> Busy(Outer))
  BY <1>2, <1>5, <1>8, CallsUntouched
<1>10. RunWaits'
  <2>1. \A t \in RunEvents : WaitsRun(t)' <=> WaitsRun(t)
    BY <1>3, <1>6, TypesApart DEF WaitsRun
  <2> QED
    BY <1>2, <1>8, <2>1 DEF RunInv, QueueInv, RunWaits, RunEvents
<1>11. PhasesWait'
  <2>1. ASSUME NEW e \in Pending \ {h}, e.type \in PhaseEvents PROVE PhaseFits(e)'
    <3>1. PhaseFits(e) /\ e.phase # p
      BY <1>7, <2>1, PhasesWaiting DEF RunInv, QueueInv, PhasesWait
    <3>2. e.type # "phase.failed"
      BY <1>1, <3>1 DEF PhaseFits
    <3>3. Waits("phase.failed", e.phase) => Waits("phase.failed", e.phase)'
      BY <1>3, <1>6, <3>1 DEF Waits
    <3>4. Discovering(e.phase) => Discovering(e.phase)'
      BY <1>2, <1>9 DEF Discovering
    <3> QED
      BY <1>2, <1>4, <1>8, <3>1, <3>2, <3>3, <3>4 DEF PhaseFits
  <2> QED
    BY <1>6, <2>1 DEF PhasesWait
<1>12. ControlFits'
  BY <1>2, <1>8 DEF RunInv, StateInv, ControlFits
<1>13. PhasesFit' /\ TurnFits' /\ ChildFits' /\ CountsFit'
  <2>1. PhasesFit'
    BY <1>2, <1>4, <1>8 DEF RunInv, StateInv, PhasesFit
  <2>2. TurnFits'
    BY <1>2, <1>4, <1>8, <1>9 DEF RunInv, StateInv, TurnFits
  <2>3. ChildFits'
    BY <1>2, <1>4, <1>8 DEF RunInv, StateInv, ChildFits
  <2>4. CountsFit'
    BY <1>2, <1>4 DEF RunInv, StateInv, CountsFit
  <2> QED
    BY <2>1, <2>2, <2>3, <2>4
<1>14. MainFits'
  BY <1>2, <1>4, <1>9 DEF RunInv, StateInv, MainFits
<1>15. RunInv'
  BY <1>6, <1>9, <1>10, <1>11, <1>12, <1>13, <1>14, StepKeeps
<1>16. RuntimeTypes'
  BY <1>2, <1>4, <1>5 DEF RuntimeTypes
<1>17. ViewInv /\ rejected = NoEvent => ViewInv'
  <2>1. PICK S : S = {}
    OBVIOUS
  <2>2. OfPhases(S) /\ Pending' = (Pending \ {h}) \cup S /\ Announces(S)
    BY <1>2, <1>4, <1>6, <1>8, <2>1 DEF OfPhases, Announces, WaitsIn
  <2> QED
    BY <1>3, <1>4, <1>5, <2>2, HandledPhases
<1> QED
  BY <1>15, <1>16, <1>17 DEF Kept

-------------------------------------------------------------------------------
(* A task that ends without a last event, and stops the run with it.          *)

\* It stops the run.
LEMMA BreaksKeeps ==
  ASSUME RuntimeTypes, view \in Snapshots, RunInv, NEW a \in Agents, Breaks(a)
  PROVE  Kept
<1>1. /\ stage[a] \in {"waiting"} \cup Open /\ stage' = [stage EXCEPT ![a] = "over"]
      /\ UNCHANGED phaseVars /\ UNCHANGED <<sequence, inner, agentPhase, ended, attempt>>
      /\ StopAs("failure")
  BY DEF Breaks, Moves, taskKept, phaseVars
<1>2. /\ stage[a] \in Working /\ stage'[a] = "over" /\ \A b \in Agents \ {a} : stage'[b] = stage[b]
      /\ \A b \in Agents : stage'[b] \in Accepting => stage'[b] = stage[b]
      /\ \A b \in Agents : stage[b] \in {"discovering", "admitting", "over"} => stage'[b] = stage[b]
      /\ stage' \in [Agents -> {"idle", "over"} \cup Accepting \cup Working]
      /\ Working \cap Accepting = {} /\ stage[a] \notin {"idle", "over"}
  BY <1>1 DEF RuntimeTypes, Open, Working, Accepting
<1>3. callsStay
  BY <1>1, <1>2 DEF callsStay
<1>4. PICK mode \in {"cancellation", "interruption", "failure"} : mode = "failure"
  OBVIOUS
<1>5. /\ Ordered(queue)' /\ \A e : e.type \notin RunEvents => (e \in Pending' <=> e \in Pending)
      /\ aborted' /\ ~aborted
      /\ main \in {"starting", "declaring", "sealing"} => main' = main
      /\ ending = "none" /\ ending' = "stopping" /\ owner' = mode
      /\ main' \in {"starting", "declaring", "sealing", "stopped", "over"}
      /\ RunWaits' /\ ControlFits' /\ MainFits'
      /\ UNCHANGED <<up, terminal, visited, view, rejected>>
  BY <1>1, <1>3, <1>4, StopFacts
<1>6. PhasesWait' /\ PhasesFit' /\ TurnFits' /\ ChildFits' /\ CountsFit'
  BY <1>1, <1>3, <1>5, ControlMoves
<1>7. /\ \A e \in Pending' : e.type \in CallTypes => e \in Pending
      /\ \A t \in CallTypes, b \in Agents : Asks(t, b)' <=> Asks(t, b)
      /\ Known' = Known /\ Outer' = Outer
      /\ \A b \in Outer : b \in Agents
  <2>1. \A t \in CallTypes, b \in Agents : Asks(t, b)' <=> Asks(t, b)
    BY <1>5, TypesApart DEF Asks
  <2> QED
    BY <1>1, <1>5, <2>1, TypesApart, AgentNumbers DEF Known, Outer, phaseVars, RuntimeTypes
<1>8. CallsWait'
  <2>1. SUFFICES ASSUME NEW e \in Pending', e.type \in CallTypes PROVE CallFits(e)'
    BY DEF CallsWait
  <2>2. CallFits(e)
    BY <1>7, <2>1 DEF RunInv, QueueInv, CallsWait
  <2>3. e.agent \in Agents /\ e.agent \notin ended'
    BY <1>1, <2>2 DEF CallFits
  <2>4. CASE e.agent = a
    <3>1. e.type = "agent.stalled" /\ e.attempt = attempt[a]
      BY <1>1, <2>1, <2>2, <2>4 DEF CallFits, CallTypes, Open
    <3> QED
      BY <1>1, <1>2, <2>3, <2>4, <3>1 DEF CallFits
  <2>5. CASE e.agent # a
    <3>1. stage'[e.agent] = stage[e.agent]
      BY <1>2, <2>3, <2>5
    <3>2. e.type = "agent.admitted" => stage'[e.callIndex + 1] # "discovering"
      <4>1. ASSUME e.type = "agent.admitted" PROVE e.callIndex + 1 \in Agents
        <5>1. e.callIndex + 1 \in 1..sequence
          BY <2>2, <4>1 DEF CallFits
        <5> QED
          BY <5>1, AgentNumbers DEF RuntimeTypes
      <4>2. e.type = "agent.admitted" => stage[e.callIndex + 1] # "discovering"
        BY <2>2 DEF CallFits
      <4> QED
        BY <1>2, <4>1, <4>2
    <3> QED
      BY <1>1, <2>2, <2>3, <3>1, <3>2 DEF CallFits
  <2> QED
    BY <2>4, <2>5
<1>9. CallsFit'
  <2>1. \A b \in Agents : /\ stage'[b] = "idle" <=> stage[b] = "idle"
                          /\ stage'[b] = "discovering" <=> stage[b] = "discovering"
    BY <1>1, <1>2 DEF Open
  <2> QED
    BY <1>1, <1>7, <2>1 DEF RunInv, StateInv, CallsFit
<1>10. StagesFit'
  <2>1. \A b \in Agents : /\ stage'[b] = "discovering" => stage[b] = "discovering"
                          /\ stage[b] = "over" => stage'[b] = "over"
                          /\ stage'[b] = "admitting" => stage[b] = "admitting"
                          /\ stage'[b] \in {"idle"} \cup Accepting => stage'[b] = stage[b]
                          /\ stage'[b] = "retrying" => stage[b] = "retrying"
    BY <1>2
  <2>2. "agent.admitted" \in CallTypes
    BY DEF CallTypes
  <2> QED
    BY <1>1, <1>5, <1>7, <2>1, <2>2 DEF RunInv, StateInv, StagesFit
<1>11. OneAccepted'
  BY <1>2, <1>7 DEF RunInv, StateInv, OneAccepted
<1>12. RunInv'
  BY <1>5, <1>6, <1>8, <1>9, <1>10, <1>11, StepKeeps
<1>13. RuntimeTypes'
  BY <1>1, <1>2, <1>4, <1>5 DEF RuntimeTypes, phaseVars
<1>14. ASSUME ViewInv PROVE ViewInv'
  <2>1. PhasesShown'
    <3>1. \A t \in PhaseEvents, p \in Phases : Waits(t, p)' <=> Waits(t, p)
      BY <1>5, TypesApart DEF Waits
    <3> QED
      BY <1>1, <1>5, <1>7, <1>14, <3>1 DEF ViewInv, PhasesShown, PhaseEvents, phaseVars
  <2>2. AgentsShown'
    <3>1. Admitted(view, a)
      BY <1>2, <1>14 DEF ViewInv, AgentsShown
    <3>2. ASSUME NEW b \in Agents
          PROVE  /\ stage'[b] \in {"idle", "discovering", "admitting"} => ~Admitted(view, b)
                 /\ stage'[b] \in {"queueing", "answering"} \cup Working => Admitted(view, b)
                 /\ b \in inner /\ stage'[b] # "admitting" => Admitted(view, b)
      <4>1. CASE b = a
        BY <1>2, <3>1, <4>1 DEF Working
      <4>2. CASE b # a
        BY <1>2, <1>14, <4>2 DEF ViewInv, AgentsShown
      <4> QED
        BY <4>1, <4>2
    <3> QED
      BY <1>1, <1>5, <1>14, <3>2 DEF ViewInv, AgentsShown
  <2>3. IndicesShown'
    BY <1>5, <1>14 DEF ViewInv, IndicesShown
  <2>4. AttemptsShown'
    <3>1. ASSUME NEW b \in Agents PROVE AttemptShown(b)'
      <4>1. AttemptShown(b)
        BY <1>14 DEF ViewInv, AttemptsShown
      <4>2. CASE b = a
        BY <1>1, <1>2, <1>5, <4>1, <4>2 DEF AttemptShown, Open, Accepting
      <4>3. CASE b # a
        BY <1>1, <1>2, <1>5, <1>7, <4>1, <4>3 DEF AttemptShown, CallTypes
      <4> QED
        BY <4>2, <4>3
    <3> QED
      BY <3>1 DEF AttemptsShown
  <2>5. CallsShown'
    <3>1. ASSUME NEW e \in Pending', e.type \in CallTypes PROVE EventShown(e)'
      <4>1. EventShown(e)
        BY <1>7, <1>14, <3>1 DEF ViewInv, CallsShown
      <4> QED
        BY <1>1, <1>5, <1>7, <4>1 DEF EventShown, CallTypes
    <3> QED
      BY <3>1 DEF CallsShown
  <2> QED
    BY <1>5, <1>14, <2>1, <2>2, <2>3, <2>4, <2>5 DEF ViewInv
<1> QED
  BY <1>12, <1>13, <1>14 DEF Kept

-------------------------------------------------------------------------------
(* An admission is durable: the call becomes a task, or is answered.          *)

\* How the call goes on, and the event that goes with it.
Follows(a, S) ==
  \/ /\ S = {} /\ stage'[a] = "over" /\ a \in inner /\ child' = "dead"
  \/ /\ child' = child
     /\ \E x : /\ S = {x} /\ x.agent = a
               /\ \/ x.type = "agent.queued" /\ stage'[a] = "queueing"
                  \/ /\ x.type = "agent.reused" /\ stage'[a] = "answering"
                     /\ x.disposition \in {"completed", "failed", "recovery_required"}
                  \/ /\ x.type = "agent.failed" /\ stage'[a] = "answering"
                     /\ x.retrying = FALSE /\ x.attempt = 0

\* The step of the queue that goes with it.
AdmissionStep(a, h, S) ==
  /\ h.type = "agent.admitted" /\ h.agent = a /\ h.phase = agentPhase[a]
  /\ h.callIndex = queue[1].callIndex
  /\ First(h) /\ CallFits(h) /\ Replays(<<h>>) /\ stage[a] = "admitting"
  /\ Follows(a, S) /\ Ordered(queue)' /\ Pending' = (Pending \ {h}) \cup S
  /\ UNCHANGED <<up, runVars, turn, current, known, runtime, sequence, inner, agentPhase,
                 attempt, ended>>
  /\ stage' \in [Agents -> {"idle", "over"} \cup Accepting \cup Working]
  /\ \A b \in Agents \ {a} : stage'[b] = stage[b]
  /\ \A e \in Pending \ {h} : e.type \in CallTypes => e.agent # a

\* The event is one of the call's own.
LEMMA FollowsTypes ==
  ASSUME NEW a, NEW S, Follows(a, S), NEW x \in S
  PROVE  x.type \in CallTypes \ {"agent.admitted"} /\ x.agent = a
BY DEF Follows, CallTypes

\* Every disjunct of AdmissionHandled is such a step.
LEMMA AdmissionSteps ==
  ASSUME RuntimeTypes, view \in Snapshots, RunInv, NEW a \in Agents, AdmissionHandled(a)
  PROVE  \E h, S : AdmissionStep(a, h, S)
<1>1. PICK h : h = Admission(a, queue[1].callIndex, agentPhase[a])
  OBVIOUS
<1>2. /\ h.type = "agent.admitted" /\ h.agent = a /\ h.phase = agentPhase[a] /\ ~IsFinal(h)
      /\ h.callIndex = queue[1].callIndex /\ h.type \in CallTypes
  BY <1>1 DEF Admission, IsFinal, CallTypes
<1>3. \E evs, S, s : /\ Handled(h, evs, runtime) /\ Moves(a, s)
                     /\ s \in {"queueing", "answering", "over"}
                     /\ s = stage'[a] => Follows(a, S)
                     /\ \/ evs = <<>> /\ S = {}
                        \/ \E x : evs = <<x>> /\ S = {x}
  <2>1. CASE /\ Handled(h, <<AgentEvent("agent.queued", a)>>, runtime) /\ Moves(a, "queueing")
             /\ UNCHANGED child
    <3>1. PICK x, S : x = AgentEvent("agent.queued", a) /\ S = {x}
      OBVIOUS
    <3>2. x.type = "agent.queued" /\ x.agent = a
      BY <3>1 DEF AgentEvent
    <3>3. "queueing" = stage'[a] => Follows(a, S)
      BY <2>1, <3>1, <3>2 DEF Follows
    <3> QED
      BY <2>1, <3>1, <3>3
  <2>2. CASE /\ \E d \in {"completed", "failed", "recovery_required"} :
                  Handled(h, <<Reuse(a, d)>>, runtime)
             /\ Moves(a, "answering") /\ UNCHANGED child
    <3>1. PICK d \in {"completed", "failed", "recovery_required"} :
            Handled(h, <<Reuse(a, d)>>, runtime)
      BY <2>2
    <3>2. PICK x, S : x = Reuse(a, d) /\ S = {x}
      OBVIOUS
    <3>3. x.type = "agent.reused" /\ x.agent = a /\ x.disposition = d
      BY <3>2 DEF Reuse
    <3>4. "answering" = stage'[a] => Follows(a, S)
      BY <2>2, <3>2, <3>3 DEF Follows
    <3> QED
      BY <2>2, <3>1, <3>2, <3>4
  <2>3. CASE /\ Handled(h, <<Failure(a, 0, FALSE)>>, runtime) /\ Moves(a, "answering")
             /\ UNCHANGED child
    <3>1. PICK x, S : x = Failure(a, 0, FALSE) /\ S = {x}
      OBVIOUS
    <3>2. x.type = "agent.failed" /\ x.agent = a /\ x.retrying = FALSE /\ x.attempt = 0
      BY <3>1 DEF Failure
    <3>3. "answering" = stage'[a] => Follows(a, S)
      BY <2>3, <3>1, <3>2 DEF Follows
    <3> QED
      BY <2>3, <3>1, <3>3
  <2>4. CASE Handled(h, <<>>, runtime) /\ Moves(a, "over") /\ a \in inner /\ child' = "dead"
    <3>1. PICK S : S = {}
      OBVIOUS
    <3>2. "over" = stage'[a] => Follows(a, S)
      BY <2>4, <3>1 DEF Follows
    <3> QED
      BY <2>4, <3>1, <3>2
  <2> QED
    BY <1>1, <2>1, <2>2, <2>3, <2>4 DEF AdmissionHandled
<1>4. PICK evs, S, s : /\ Handled(h, evs, runtime) /\ Moves(a, s)
                       /\ s \in {"queueing", "answering", "over"}
                       /\ s = stage'[a] => Follows(a, S)
                       /\ \/ evs = <<>> /\ S = {}
                          \/ \E x : evs = <<x>> /\ S = {x}
  BY <1>3
<1>5. /\ stage[a] = "admitting"
      /\ UNCHANGED <<runVars, turn, current, known, sequence, inner, agentPhase, attempt>>
  BY DEF AdmissionHandled
<1>6. /\ stage' = [stage EXCEPT ![a] = s] /\ stage'[a] = s
      /\ stage' \in [Agents -> {"idle", "over"} \cup Accepting \cup Working]
      /\ \A b \in Agents \ {a} : stage'[b] = stage[b]
  BY <1>4 DEF Moves, RuntimeTypes, Accepting
<1>7. Follows(a, S)
  BY <1>4, <1>6
<1>8. ended' = ended /\ runtime' = runtime /\ Replays(<<h>>)
  BY <1>2, <1>4, HandledNotFinal
<1>9. First(h) /\ up' = up
  BY <1>4, HeadFirst DEF Handled, RunInv, QueueInv
<1>10. CallFits(h)
  BY <1>2, <1>9 DEF First, RunInv, QueueInv, CallsWait
<1>11. \A e \in Pending \ {h} : e.type \in CallTypes => e.agent # a
  <2>1. ASSUME NEW e \in Pending \ {h}, e.type \in CallTypes, e.agent = a PROVE FALSE
    <3>1. Rank(h.type) < Rank(e.type)
      BY <1>2, <1>9, <2>1, AfterHead
    <3>2. CallFits(e)
      BY <2>1 DEF RunInv, QueueInv, CallsWait
    <3>3. e.type = "agent.admitted" \/ e.type = "agent.failed"
      BY <1>5, <2>1, <3>2 DEF CallFits, CallTypes
    <3>4. e.type # "agent.failed"
      BY <1>5, <2>1, <3>2 DEF CallFits
    <3> QED
      BY <1>2, <3>1, <3>3, <3>4, Ranks
  <2> QED
    BY <2>1
<1>12. ASSUME NEW e \in Pending \ {h}, NEW x \in S PROVE MayPrecede(e, x)
  <2>1. x.type \in CallTypes \ {"agent.admitted"} /\ x.agent = a
    BY <1>7, <1>12, FollowsTypes
  <2>2. x.type \notin RunEvents /\ x.type \notin PhaseEvents
    BY <2>1, CallTypeFacts
  <2>3. e.type \in CallTypes => e.agent # a
    BY <1>11, <1>12
  <2> QED
    BY <2>1, <2>2, <2>3 DEF MayPrecede, PhaseEvents
<1>13. Ordered(queue)' /\ Pending' = (Pending \ {h}) \cup S
  <2>1. CASE evs = <<>> /\ S = {}
    <3>1. Handled(h, <<>>, runtime)
      BY <1>4, <2>1
    <3> QED
      BY <2>1, <3>1, HandledAlone DEF RunInv, QueueInv
  <2>2. CASE \E x : evs = <<x>> /\ S = {x}
    <3>1. PICK x : evs = <<x>> /\ S = {x}
      BY <2>2
    <3>2. Handled(h, <<x>>, runtime) /\ \A e \in Pending \ {h} : MayPrecede(e, x)
      BY <1>4, <1>12, <3>1
    <3>3. x.type \in RunEvents \cup PhaseEvents \cup CallTypes
      BY <1>7, <3>1, FollowsTypes
    <3> QED
      BY <3>1, <3>2, <3>3, HandledOne DEF RunInv, QueueInv
  <2> QED
    BY <1>4, <2>1, <2>2
<1> QED
  BY <1>2, <1>5, <1>6, <1>7, <1>8, <1>9, <1>10, <1>11, <1>13 DEF AdmissionStep

\* What of the calls the step leaves as it was.
LEMMA AdmissionOthers ==
  ASSUME RuntimeTypes, RunInv, NEW a \in Agents, NEW h, NEW S, AdmissionStep(a, h, S)
  PROVE  /\ OnlyCalls /\ Known' = Known /\ Outer' = Outer /\ (aborted' <=> aborted)
         /\ stage[a] = "admitting" /\ stage'[a] \in {"queueing", "answering", "over"}
         /\ a \notin ended /\ a \in 1..sequence
         /\ \A t, b : b # a => (Asks(t, b)' <=> Asks(t, b))
         /\ Busy(Outer)' => Busy(Outer)
         /\ child' = child \/ (child' = "dead" /\ child \in {"evaluating", "dead"} /\ a \in inner)
<1>1. /\ stage[a] = "admitting" /\ stage'[a] \in {"queueing", "answering", "over"}
      /\ a \notin ended /\ Known' = Known /\ Outer' = Outer /\ (aborted' <=> aborted)
  BY DEF AdmissionStep, Follows, CallFits, Known, Outer, aborted, runVars
<1>2. a \in 1..sequence
  BY <1>1, AgentNumbers DEF RunInv, StateInv, CallsFit, RuntimeTypes
<1>3. OnlyCalls
  <2>1. h.type \in CallTypes /\ Pending' = (Pending \ {h}) \cup S
    BY DEF AdmissionStep, CallTypes
  <2>2. \A x \in S : x.type \in CallTypes
    BY FollowsTypes DEF AdmissionStep
  <2> QED
    BY <2>1, <2>2 DEF OnlyCalls
<1>4. \A t, b : b # a => (Asks(t, b)' <=> Asks(t, b))
  <2>1. h.agent = a /\ Pending' = (Pending \ {h}) \cup S
    BY DEF AdmissionStep
  <2>2. \A x \in S : x.agent = a
    BY FollowsTypes DEF AdmissionStep
  <2> QED
    BY <2>1, <2>2 DEF Asks
<1>5. Busy(Outer)' => Busy(Outer)
  <2>1. \A b \in Outer : b \in Agents
    BY AgentNumbers DEF Outer, RuntimeTypes
  <2>2. \A b \in Outer : stage'[b] \in Accepting => stage[b] \in Accepting
    BY <1>1, <2>1 DEF AdmissionStep, Accepting
  <2> QED
    BY <1>1, <2>2 DEF Busy
<1>6. child' = child \/ (child' = "dead" /\ child \in {"evaluating", "dead"} /\ a \in inner)
  <2>1. ASSUME a \in inner PROVE child \in {"evaluating", "dead"}
    BY <1>1, <2>1 DEF RunInv, StateInv, ChildFits, RuntimeTypes, Nested
  <2> QED
    BY <2>1 DEF AdmissionStep, Follows
<1> QED
  BY <1>1, <1>2, <1>3, <1>4, <1>5, <1>6

\* The waiting events of calls fit.
LEMMA AdmissionCalls ==
  ASSUME RuntimeTypes, RunInv, NEW a \in Agents, NEW h, NEW S, AdmissionStep(a, h, S)
  PROVE  CallsWait' /\ CallsFit' /\ StagesFit' /\ OneAccepted'
<1>1. /\ OnlyCalls /\ Known' = Known /\ Outer' = Outer /\ (aborted' <=> aborted)
      /\ stage[a] = "admitting" /\ stage'[a] \in {"queueing", "answering", "over"}
      /\ a \notin ended /\ a \in 1..sequence
      /\ \A t, b : b # a => (Asks(t, b)' <=> Asks(t, b))
      /\ child' = child \/ child' = "dead"
  BY AdmissionOthers
<1>2. /\ \A b \in Agents \ {a} : stage'[b] = stage[b]
      /\ UNCHANGED <<inner, agentPhase, attempt, ended, sequence>>
      /\ Pending' = (Pending \ {h}) \cup S /\ h \in Pending
      /\ \A e \in Pending \ {h} : e.type \in CallTypes => e.agent # a
  BY DEF AdmissionStep, First
<1>3. CallsWait'
  <2>1. ASSUME NEW e \in Pending \ {h}, e.type \in CallTypes PROVE CallFits(e)'
    <3>1. e.agent # a /\ stage'[a] # "discovering"
      BY <1>1, <1>2, <2>1
    <3>2. /\ CallsWait /\ sequence \in 0..Cardinality(Agents)
          /\ stage \in [Agents -> {"idle", "over"} \cup Accepting \cup Working]
      BY DEF RunInv, QueueInv, RuntimeTypes
    <3>3. /\ ended' \subseteq ended \cup {a} /\ sequence' = sequence
          /\ \A b \in Agents \ {a} : stage'[b] = stage[b] /\ attempt'[b] = attempt[b]
                                     /\ agentPhase'[b] = agentPhase[b]
      BY <1>2
    <3> QED
      BY <2>1, <3>1, <3>2, <3>3, OthersFit
  <2>2. ASSUME NEW x \in S PROVE CallFits(x)'
    BY <1>1, <1>2, <2>2 DEF AdmissionStep, Follows, CallFits
  <2> QED
    BY <1>2, <2>1, <2>2 DEF CallsWait
<1>4. CallsFit'
  <2>1. \A b \in Agents : /\ stage'[b] = "idle" <=> stage[b] = "idle"
                          /\ stage'[b] = "discovering" <=> stage[b] = "discovering"
    BY <1>1, <1>2
  <2> QED
    BY <1>1, <1>2, <2>1 DEF RunInv, StateInv, CallsFit
<1>5. StagesFit'
  <2>1. ASSUME NEW b \in Agents
        PROVE  /\ stage'[b] = "discovering" =>
                    \A c \in Agents : b < c /\ c <= sequence => c \in inner
               /\ b \in ended => stage'[b] = "over"
               /\ stage'[b] = "over" /\ ~aborted => b \in ended \/ (b \in inner /\ child' = "dead")
               /\ stage'[b] = "admitting" => Asks("agent.admitted", b)'
               /\ stage'[b] \in {"idle"} \cup Accepting => attempt[b] = 1
               /\ stage'[b] = "retrying" => attempt[b] < MaxAttempts
    <3>1. CASE b = a
      <4>1. attempt[a] = 1
        BY <1>1 DEF RunInv, StateInv, StagesFit, Accepting
      <4>2. stage'[a] = "over" => a \in inner /\ child' = "dead"
        BY DEF AdmissionStep, Follows
      <4> QED
        BY <1>1, <3>1, <4>1, <4>2
    <3>2. CASE b # a
      <4>1. stage'[b] = stage[b] /\ (Asks("agent.admitted", b)' <=> Asks("agent.admitted", b))
        BY <1>1, <1>2, <3>2
      <4> QED
        BY <1>1, <4>1 DEF RunInv, StateInv, StagesFit
    <3> QED
      BY <3>1, <3>2
  <2> QED
    BY <1>1, <1>2, <2>1 DEF StagesFit
<1>6. OneAccepted'
  <2>1. \A b \in Outer : b \in Agents
    BY AgentNumbers DEF Outer, RuntimeTypes
  <2>2. \A b \in Outer : stage'[b] \in Accepting => stage[b] \in Accepting
    BY <1>1, <1>2, <2>1 DEF Accepting
  <2> QED
    BY <1>1, <2>2 DEF RunInv, StateInv, OneAccepted
<1> QED
  BY <1>3, <1>4, <1>5, <1>6

\* RunInv, then ViewInv, then the action.
LEMMA AdmissionRuns ==
  ASSUME RuntimeTypes, RunInv, NEW a \in Agents, NEW h, NEW S, AdmissionStep(a, h, S)
  PROVE  RunInv' /\ RuntimeTypes'
<1>1. /\ OnlyCalls /\ Known' = Known /\ Outer' = Outer /\ (aborted' <=> aborted)
      /\ stage[a] = "admitting" /\ stage'[a] \in {"queueing", "answering", "over"}
      /\ a \notin ended /\ a \in 1..sequence
      /\ Busy(Outer)' => Busy(Outer)
      /\ child' = child \/ (child' = "dead" /\ child \in {"evaluating", "dead"} /\ a \in inner)
  BY AdmissionOthers
<1>2. /\ \A b \in Agents \ {a} : stage'[b] = stage[b]
      /\ UNCHANGED <<up, runVars, turn, current, known, runtime, sequence, inner, agentPhase,
                     attempt, ended>>
      /\ stage' \in [Agents -> {"idle", "over"} \cup Accepting \cup Working]
      /\ Ordered(queue)' /\ First(h) /\ h.type = "agent.admitted" /\ h.phase = agentPhase[a]
  BY DEF AdmissionStep
<1>3. CallsWait' /\ CallsFit' /\ StagesFit' /\ OneAccepted'
  BY AdmissionCalls
<1>4. /\ \A t \in PhaseEvents, p \in Phases : Waits(t, p)' <=> Waits(t, p)
      /\ \A t \in RunEvents : WaitsRun(t)' <=> WaitsRun(t)
      /\ PhaseNames'
  BY <1>1, OnlyCallsKeep DEF RunInv, QueueInv
<1>5. RunWaits'
  BY <1>1, <1>2, <1>4 DEF RunInv, QueueInv, RunWaits, RunEvents, runVars
<1>6. DiscoveriesWait'
  <2>1. \A p \in Phases : Discovering(p) => Discovering(p)'
    <3>1. \A b \in Outer : b \in Agents
      BY AgentNumbers DEF Outer, RuntimeTypes
    <3>2. \A b \in Outer : stage[b] = "discovering" => stage'[b] = "discovering"
      BY <1>1, <1>2, <3>1
    <3> QED
      BY <1>1, <1>2, <3>2 DEF Discovering, runVars
  <2> QED
    BY <1>1, <1>2, <1>4, <2>1 DEF RunInv, QueueInv, DiscoveriesWait, PhaseEvents
<1>7. EntriesWait'
  BY <1>1, <1>2, <1>4 DEF RunInv, QueueInv, EntriesWait, PhaseEvents
<1>8. CompletionsWait'
  <2>1. ASSUME NEW p \in Phases, Waits("phase.completed", p) PROVE p # agentPhase[a]
    <3>1. PICK f \in Pending : f.type = "phase.completed" /\ f.phase = p
      BY <2>1 DEF Waits
    <3>2. MayPrecede(h, f)
      BY <1>2, <3>1 DEF First
    <3> QED
      BY <1>2, <3>1, <3>2 DEF MayPrecede
  <2>2. ASSUME NEW p \in Phases, Waits("phase.completed", p)
        PROVE  \A b \in Agents : agentPhase[b] = p /\ b \notin ended => stage'[b] = "admitting"
    BY <1>2, <2>1, <2>2 DEF RunInv, QueueInv, CompletionsWait
  <2> QED
    BY <1>1, <1>2, <1>4, <2>2 DEF RunInv, QueueInv, CompletionsWait, PhaseEvents, runVars
<1>9. FailuresWait'
  BY <1>2, <1>4 DEF RunInv, QueueInv, FailuresWait, PhaseEvents, runVars
<1>10. ControlFits' /\ PhasesFit' /\ CountsFit'
  <2>1. ControlFits'
    BY <1>1, <1>2 DEF RunInv, StateInv, ControlFits, runVars
  <2>2. PhasesFit'
    BY <1>1, <1>2 DEF RunInv, StateInv, PhasesFit
  <2>3. CountsFit'
    BY <1>2 DEF RunInv, StateInv, CountsFit
  <2> QED
    BY <2>1, <2>2, <2>3
<1>11. TurnFits'
  BY <1>1, <1>2 DEF RunInv, StateInv, TurnFits
<1>12. ChildFits'
  <2>1. \A b \in inner : b \in Agents
    BY DEF RuntimeTypes
  <2>2. child' \in {"sealing", "over"} => \A b \in inner : stage'[b] = "over"
    <3>1. child' \in {"sealing", "over"} => child' = child /\ a \notin inner
      BY <1>1 DEF RunInv, StateInv, ChildFits
    <3> QED
      BY <1>2, <2>1, <3>1 DEF RunInv, StateInv, ChildFits
  <2> QED
    BY <1>1, <1>2, <2>2 DEF RunInv, StateInv, ChildFits
<1>13. MainFits'
  <2>1. main \in Returned => a \notin Outer
    BY <1>1 DEF RunInv, StateInv, MainFits
  <2>2. main \in Returned => \A b \in Outer : stage'[b] = "over"
    <3>1. \A b \in Outer : b \in Agents
      BY AgentNumbers DEF Outer, RuntimeTypes
    <3> QED
      BY <1>2, <2>1, <3>1 DEF RunInv, StateInv, MainFits
  <2>3. main \notin {"starting", "declaring"}
    <3>1. sequence # 0
      BY <1>1 DEF RuntimeTypes
    <3> QED
      BY <3>1 DEF RunInv, StateInv, MainFits
  <2>4. child \notin Nested => child' \notin Nested
    BY <1>1 DEF Nested
  <2> QED
    BY <1>1, <1>2, <2>2, <2>3, <2>4 DEF RunInv, StateInv, MainFits, runVars
<1>14. RunInv'
  <2>1. QueueInv'
    BY <1>2, <1>3, <1>4, <1>5, <1>6, <1>7, <1>8, <1>9 DEF QueueInv
  <2>2. StateInv'
    BY <1>3, <1>10, <1>11, <1>12, <1>13 DEF StateInv
  <2> QED
    BY <2>1, <2>2 DEF RunInv
<1>15. RuntimeTypes'
  BY <1>1, <1>2 DEF RuntimeTypes, runVars
<1> QED
  BY <1>14, <1>15

LEMMA AdmissionShown ==
  ASSUME RuntimeTypes, view \in Snapshots, RunInv, ViewInv, rejected = NoEvent, rejected' = NoEvent,
         NEW a \in Agents, NEW h, NEW S, AdmissionStep(a, h, S)
  PROVE  ViewInv'
<1>1. /\ OnlyCalls /\ Known' = Known
      /\ stage[a] = "admitting" /\ stage'[a] \in {"queueing", "answering", "over"}
      /\ a \notin ended
      /\ \A t, b : b # a => (Asks(t, b)' <=> Asks(t, b))
  BY AdmissionOthers
<1>2. /\ \A b \in Agents \ {a} : stage'[b] = stage[b]
      /\ UNCHANGED <<runtime, inner, agentPhase, attempt, ended>>
      /\ First(h) /\ h.type = "agent.admitted" /\ h.phase = agentPhase[a] /\ h.agent = a
      /\ CallFits(h) /\ Replays(<<h>>) /\ Pending' = (Pending \ {h}) \cup S /\ h \in Pending
      /\ \A e \in Pending \ {h} : e.type \in CallTypes => e.agent # a
  BY DEF AdmissionStep, First
<1>3. view' = Apply(view, h)
  <2>1. h # NoEvent
    BY <1>2 DEF NoEvent
  <2> QED
    BY <1>2, <2>1, OneReplayed
<1>4. /\ view.agents \in [Agents -> AgentStatuses]
      /\ view.callIndex \in [Agents -> 0..Cardinality(Agents)]
      /\ view.phaseOf \in [Agents -> Phases \cup {NoPhase}]
  BY DEF Snapshots
<1>5. /\ view'.status = view.status /\ view'.phases = view.phases /\ view'.attempts = view.attempts
      /\ view'.agents[a] = "admitted" /\ view'.callIndex[a] = h.callIndex
      /\ view'.phaseOf[a] = agentPhase[a]
      /\ \A b \in Agents \ {a} :
           /\ view'.agents[b] = view.agents[b] /\ view'.callIndex[b] = view.callIndex[b]
           /\ view'.phaseOf[b] = view.phaseOf[b]
  <2>1. PICK s : s = view
    OBVIOUS
  <2>2. PICK t : t = Apply(s, h)
    OBVIOUS
  <2>3. t = WithAdmission(s, h)
    BY <1>2, <2>2, AdmissionApplied
  <2>4. s \in Snapshots
    BY <2>1
  <2>5. t.status = s.status /\ t.phases = s.phases /\ t.attempts = s.attempts
    BY <2>3, <2>4 DEF Snapshots, WithAdmission
  <2>6. /\ t.agents = [s.agents EXCEPT ![h.agent] = "admitted"]
        /\ t.callIndex = [s.callIndex EXCEPT ![h.agent] = h.callIndex]
        /\ t.phaseOf = [s.phaseOf EXCEPT ![h.agent] = h.phase]
    BY <2>3, <2>4 DEF Snapshots, WithAdmission
  <2>7. view' = t /\ view = s
    BY <1>3, <2>1, <2>2
  <2> QED
    BY <1>2, <1>4, <2>5, <2>6, <2>7
<1>6. /\ Admitted(view', a)
      /\ \A b \in Agents \ {a} : Admitted(view', b) <=> Admitted(view, b)
      /\ \A b \in Agents : Admitted(view, b) => Admitted(view', b)
  BY <1>5 DEF Admitted
<1>7. PhasesShown'
  <2>1. \A t \in PhaseEvents, p \in Phases : Waits(t, p)' <=> Waits(t, p)
    BY <1>1, OnlyCallsKeep
  <2> QED
    BY <1>1, <1>2, <1>5, <2>1 DEF ViewInv, PhasesShown, PhaseEvents
<1>8. AgentsShown'
  <2>1. ASSUME NEW b \in Agents
        PROVE  /\ stage'[b] \in {"idle", "discovering", "admitting"} => ~Admitted(view', b)
               /\ stage'[b] \in {"queueing", "answering"} \cup Working => Admitted(view', b)
               /\ b \in inner /\ stage'[b] # "admitting" => Admitted(view', b)
               /\ Admitted(view', b) => view'.phaseOf[b] = agentPhase[b]
               /\ b \in ended <=> view'.agents[b] \in TerminalAgent
    <3>1. CASE b = a
      BY <1>1, <1>5, <1>6, <3>1 DEF TerminalAgent
    <3>2. CASE b # a
      BY <1>2, <1>5, <1>6, <3>2 DEF ViewInv, AgentsShown
    <3> QED
      BY <3>1, <3>2
  <2> QED
    BY <1>2, <2>1 DEF AgentsShown
<1>9. IndicesShown'
  <2>1. ASSUME NEW b \in Agents, Admitted(view', b), view'.callIndex[b] # b - 1
        PROVE  view'.callIndex[b] + 1 \in Agents /\ Admitted(view', view'.callIndex[b] + 1)
    <3>1. CASE b = a
      <4>1. EventShown(h) /\ h.callIndex # h.agent - 1
        BY <1>2, <1>5, <2>1, <3>1 DEF ViewInv, CallsShown, CallTypes
      <4>2. /\ h.callIndex + 1 \in Agents
            /\ Admitted(view, h.callIndex + 1) \/ Asks("agent.admitted", h.callIndex + 1)
        BY <1>2, <4>1 DEF EventShown
      <4>3. ASSUME Asks("agent.admitted", h.callIndex + 1) PROVE FALSE
        <5>1. PICK f \in Pending : f.type = "agent.admitted" /\ f.agent = h.callIndex + 1
          BY <4>3 DEF Asks
        <5>2. f # h
          <6>1. h.callIndex \in Nat /\ a \in Nat
            BY <1>2, AgentNumbers DEF CallFits
          <6> QED
            BY <1>2, <4>1, <5>1, <6>1
        <5>3. MayPrecede(h, f)
          BY <1>2, <5>2 DEF First
        <5> QED
          BY <1>2, <5>1, <5>3 DEF MayPrecede
      <4> QED
        BY <1>5, <1>6, <3>1, <4>2, <4>3
    <3>2. CASE b # a
      <4>1. view.callIndex[b] + 1 \in Agents /\ Admitted(view, view.callIndex[b] + 1)
        BY <1>5, <1>6, <2>1, <3>2 DEF ViewInv, IndicesShown
      <4> QED
        BY <1>5, <1>6, <3>2, <4>1
    <3> QED
      BY <3>1, <3>2
  <2> QED
    BY <2>1 DEF IndicesShown
<1>10. attempt[a] = 1 /\ AttemptShown(a) /\ view.attempts[a][1] = "absent" /\ 1 \in Attempts
       /\ \A m \in Attempts : view.attempts[a][m] \notin Unresolved
  <2>1. attempt[a] = 1 /\ AttemptShown(a)
    BY <1>1, <1>2 DEF RunInv, StateInv, StagesFit, Accepting, ViewInv, AttemptsShown
  <2>2. 1 \in Attempts
    BY <2>1 DEF RuntimeTypes
  <2>3. view.attempts[a][1] = "absent"
    BY <1>1, <2>1 DEF AttemptShown, Accepting
  <2>4. \A m \in Attempts : m = 1 \/ 1 < m
    BY StateAssumption DEF Attempts
  <2> QED
    BY <2>1, <2>2, <2>3, <2>4 DEF AttemptShown, Unresolved
<1>11. AttemptsShown'
  <2>1. ASSUME NEW b \in Agents PROVE AttemptShown(b)'
    <3>1. CASE b = a
      BY <1>1, <1>2, <1>5, <1>10, <3>1 DEF AttemptShown, Accepting, Open
    <3>2. CASE b # a
      <4>1. /\ stage'[b] = stage[b] /\ attempt'[b] = attempt[b] /\ (b \in ended' <=> b \in ended)
            /\ \A m \in Attempts : view'.attempts[b][m] = view.attempts[b][m]
            /\ \A t : Asks(t, b)' <=> Asks(t, b)
        BY <1>1, <1>2, <1>5, <3>2
      <4> QED
        BY <4>1, OtherAttempts
    <3> QED
      BY <3>1, <3>2
  <2> QED
    BY <2>1 DEF AttemptsShown
<1>12. CallsShown'
  <2>1. ASSUME NEW e \in Pending \ {h}, e.type \in CallTypes PROVE EventShown(e)'
    <3>1. EventShown(e) /\ e.agent # a /\ e.agent \in Agents
      BY <1>2, <2>1 DEF ViewInv, CallsShown, RunInv, QueueInv, CallsWait, CallFits
    <3>2. ASSUME NEW c \in Agents, Admitted(view, c) \/ Asks("agent.admitted", c)
          PROVE  Admitted(view', c) \/ Asks("agent.admitted", c)'
      <4>1. CASE c = a
        BY <1>6, <4>1
      <4>2. CASE c # a
        BY <1>1, <1>6, <3>2, <4>2
      <4> QED
        BY <4>1, <4>2
    <3>3. e.type # "agent.admitted" => Admitted(view', e.agent)
      BY <1>6, <3>1 DEF EventShown
    <3>4. e.type = "agent.admitted" /\ e.callIndex # e.agent - 1 =>
            /\ e.callIndex + 1 \in Agents
            /\ Admitted(view', e.callIndex + 1) \/ Asks("agent.admitted", e.callIndex + 1)'
      BY <3>1, <3>2 DEF EventShown
    <3> QED
      BY <1>2, <1>5, <3>1, <3>3, <3>4 DEF EventShown
  <2>2. ASSUME NEW x \in S PROVE EventShown(x)'
    <3>1. x.type \in {"agent.queued", "agent.reused", "agent.failed"} /\ x.agent = a
      BY <2>2 DEF AdmissionStep, Follows
    <3>2. x.type = "agent.failed" => x.attempt = 0
      BY <2>2 DEF AdmissionStep, Follows
    <3>3. view'.attempts[a][attempt'[a]] \notin Unresolved
      BY <1>2, <1>5, <1>10
    <3> QED
      BY <1>6, <3>1, <3>2, <3>3 DEF EventShown, AttemptEvents, EitherEvents
  <2> QED
    BY <1>2, <2>1, <2>2 DEF CallsShown
<1> QED
  BY <1>5, <1>7, <1>8, <1>9, <1>11, <1>12 DEF ViewInv

LEMMA AdmissionHandledKeeps ==
  ASSUME RuntimeTypes, view \in Snapshots, RunInv, NEW a \in Agents, AdmissionHandled(a)
  PROVE  Kept
<1>1. PICK h, S : AdmissionStep(a, h, S)
  BY AdmissionSteps
<1>2. RunInv' /\ RuntimeTypes'
  BY <1>1, AdmissionRuns
<1>3. ViewInv /\ rejected = NoEvent /\ rejected' = NoEvent => ViewInv'
  BY <1>1, AdmissionShown
<1> QED
  BY <1>2, <1>3 DEF Kept

-------------------------------------------------------------------------------
(* The phase an agent call names is durable, and the call joins it.            *)

\* A step that leaves the calls and the phases alone leaves the counts right.
LEMMA CountsStay ==
  ASSUME RuntimeTypes, CountsFit, UNCHANGED <<agentPhase, runtime, ended>>
  PROVE  /\ CountsFit'
         /\ runtime' \in [Phases -> PhaseRecords]
         /\ \A q \in Phases :
              /\ runtime'[q].entered = runtime[q].entered
              /\ runtime'[q].sealed = runtime[q].sealed
              /\ runtime'[q].over = runtime[q].over
<1>1. CountsFit'
  BY DEF CountsFit
<1>2. runtime' \in [Phases -> PhaseRecords]
  BY PhaseFields
<1> QED BY <1>1, <1>2

\* A phase takes one more call.
LEMMA JoinsCounts ==
  ASSUME RuntimeTypes, CountsFit, NEW a \in Agents, NEW p \in Phases,
         agentPhase[a] # p, a \notin ended, ended' = ended,
         agentPhase'[a] = p, \A b \in Agents \ {a} : agentPhase'[b] = agentPhase[b],
         agentPhase[a] = NoPhase, runtime' = [runtime EXCEPT ![p].active = @ + 1]
  PROVE  /\ CountsFit'
         /\ runtime' \in [Phases -> PhaseRecords]
         /\ \A q \in Phases :
              /\ runtime'[q].entered = runtime[q].entered
              /\ runtime'[q].sealed = runtime[q].sealed
              /\ runtime'[q].over = runtime[q].over
<1>1. /\ \A q \in Phases :
           /\ runtime'[q].entered = runtime[q].entered
           /\ runtime'[q].sealed = runtime[q].sealed
           /\ runtime'[q].over = runtime[q].over
      /\ runtime'[p].active = runtime[p].active + 1
      /\ \A q \in Phases \ {p} : runtime'[q].active = runtime[q].active
      /\ \A q \in Phases : runtime[q].active \in Nat /\ NoPhase \notin Phases
  BY StateAssumption, AgentNumbers DEF RuntimeTypes
<1>2. PICK S, T : /\ S = {b \in Agents : agentPhase[b] = p}
                  /\ T = {b \in Agents : agentPhase[b] = p /\ b \notin ended}
  OBVIOUS
<1>3. /\ IsFiniteSet(Agents) /\ IsFiniteSet(S) /\ IsFiniteSet(T) /\ a \notin S /\ a \notin T
  BY <1>2, StateAssumption, FS_Subset
<1>4. PICK S1, T1 : S1 = S \cup {a} /\ T1 = T \cup {a}
  OBVIOUS
<1>5. /\ Cardinality(S1) = Cardinality(S) + 1 /\ Cardinality(T1) = Cardinality(T) + 1
      /\ Cardinality(S) \in Nat /\ Cardinality(T) \in Nat
  BY <1>3, <1>4, FS_AddElement, FS_CardinalityType
<1>6. S1 \subseteq Agents
  BY <1>2, <1>4
<1>7. Cardinality(S1) <= Cardinality(Agents)
  BY <1>3, <1>6, FS_Subset
<1>8. {b \in Agents : agentPhase'[b] = p} = S1 /\ {b \in Agents : agentPhase'[b] = p /\ b \notin ended'} = T1
  BY <1>2, <1>4
<1>9. \A q \in Phases \ {p} :
        /\ {b \in Agents : agentPhase'[b] = q} = {b \in Agents : agentPhase[b] = q}
        /\ {b \in Agents : agentPhase'[b] = q /\ b \notin ended'}
             = {b \in Agents : agentPhase[b] = q /\ b \notin ended}
  BY <1>1
<1>10. /\ runtime[p].active <= Cardinality(S)
       /\ ~runtime[p].over => runtime[p].active = Cardinality(T)
  BY <1>2 DEF CountsFit
<1>11. CountsFit'
  <2>1. ASSUME NEW q \in Phases
        PROVE  /\ runtime'[q].active <= Cardinality({b \in Agents : agentPhase'[b] = q})
               /\ ~runtime'[q].over =>
                    /\ runtime'[q].active =
                         Cardinality({b \in Agents : agentPhase'[b] = q /\ b \notin ended'})
                    /\ runtime'[q].sealed => runtime'[q].active > 0
    <3>1. CASE q = p
      <4>1. /\ runtime'[p].active <= Cardinality(S1)
            /\ ~runtime[p].over =>
                 runtime'[p].active = Cardinality(T1) /\ runtime'[p].active > 0
        BY <1>1, <1>5, <1>10
      <4>2. ended' = ended
        OBVIOUS
      <4> QED
        BY <1>1, <1>8, <3>1, <4>1, <4>2
    <3>2. CASE q # p
      <4>1. PICK U, V : /\ U = {b \in Agents : agentPhase[b] = q}
                        /\ V = {b \in Agents : agentPhase[b] = q /\ b \notin ended}
        OBVIOUS
      <4>2. /\ runtime[q].active <= Cardinality(U)
            /\ ~runtime[q].over =>
                 runtime[q].active = Cardinality(V) /\ (runtime[q].sealed => runtime[q].active > 0)
        BY <4>1 DEF CountsFit
      <4>3. /\ {b \in Agents : agentPhase'[b] = q} = U
            /\ {b \in Agents : agentPhase'[b] = q /\ b \notin ended'} = V
        BY <1>9, <3>2, <4>1
      <4>4. /\ runtime'[q].over = runtime[q].over /\ runtime'[q].sealed = runtime[q].sealed
            /\ runtime'[q].active = runtime[q].active
        BY <1>1, <3>2
      <4> QED
        BY <4>2, <4>3, <4>4
    <3> QED
      BY <3>1, <3>2
  <2> QED
    BY <2>1 DEF CountsFit
<1>12. runtime' \in [Phases -> PhaseRecords]
  <2>1. runtime[p].active + 1 \in 0..Cardinality(Agents)
    BY <1>1, <1>5, <1>7, <1>10, AgentNumbers
  <2>2. runtime \in [Phases -> PhaseRecords]
    BY DEF RuntimeTypes, PhaseRecords
  <2>3. PICK r : r = [runtime[p] EXCEPT !.active = @ + 1]
    OBVIOUS
  <2>4. r \in PhaseRecords
    BY <2>1, <2>2, <2>3 DEF PhaseRecords
  <2>5. runtime' = [runtime EXCEPT ![p] = r]
    BY <2>3
  <2> QED
    BY <2>2, <2>4, <2>5
<1> QED
  BY <1>1, <1>11, <1>12

\* What the snapshot owes to a waiting event, when its agent is left as it is.
LEMMA EventStays ==
  ASSUME NEW e, EventShown(e), NEW b, b = e.agent, attempt'[b] = attempt[b],
         view'.attempts[b] = view.attempts[b],
         Admitted(view, b) => Admitted(view', b),
         \A c \in Agents : Admitted(view, c) \/ Asks("agent.admitted", c) =>
           Admitted(view', c) \/ Asks("agent.admitted", c)'
  PROVE  EventShown(e)'
<1>1. e.type # "agent.admitted" => Admitted(view', e.agent)
  BY DEF EventShown
<1>2. e.type = "agent.admitted" /\ e.callIndex # e.agent - 1 =>
        /\ e.callIndex + 1 \in Agents
        /\ Admitted(view', e.callIndex + 1) \/ Asks("agent.admitted", e.callIndex + 1)'
  BY DEF EventShown
<1> QED
  BY <1>1, <1>2 DEF EventShown

\* The call of a stopped run goes no further.
KnownThen(a, p, S) ==
  \/ /\ aborted /\ S = {} /\ stage'[a] = "over" /\ UNCHANGED <<agentPhase, runtime>>
  \/ /\ ~aborted /\ stage'[a] = "admitting"
     /\ \E x : /\ S = {x} /\ x.type = "agent.admitted" /\ x.agent = a /\ x.phase = p
               /\ x.callIndex = sequence - 1
     /\ agentPhase' = [agentPhase EXCEPT ![a] = p] /\ runtime' = Joins(p)

KnownStep(a, p, h, S) ==
  /\ p \in Named /\ h.type = "phase.discovered" /\ h.phase = p
  /\ First(h) /\ Replays(<<h>>) /\ stage[a] = "discovering"
  /\ KnownThen(a, p, S) /\ Ordered(queue)' /\ Pending' = (Pending \ {h}) \cup S
  /\ UNCHANGED <<up, runVars, turn, child, current, known, sequence, inner, attempt, ended>>
  /\ stage' \in [Agents -> {"idle", "over"} \cup Accepting \cup Working]
  /\ \A b \in Agents \ {a} : stage'[b] = stage[b]

\* Both disjuncts of PhaseKnown are such steps.
LEMMA KnownSteps ==
  ASSUME RuntimeTypes, view \in Snapshots, RunInv, NEW a \in Agents, PhaseKnown(a)
  PROVE  \E p, h, S : KnownStep(a, p, h, S)
<1>1. /\ stage[a] = "discovering"
      /\ UNCHANGED <<known, sequence, inner, runVars, turn, child, current, attempt>>
  BY DEF PhaseKnown, acceptKept
<1>2. PICK p \in Named :
        IF aborted
        THEN Handled(Discovered(p), <<>>, runtime) /\ Moves(a, "over") /\ UNCHANGED agentPhase
        ELSE /\ Handled(Discovered(p), <<Admission(a, CallIndex(a), p)>>, Joins(p))
             /\ Admits(a, p)
  BY DEF PhaseKnown
<1>3. PICK h, x : h = Discovered(p) /\ x = Admission(a, CallIndex(a), p)
  OBVIOUS
<1>4. h.type = "phase.discovered" /\ h.phase = p /\ ~IsFinal(h)
  BY <1>3 DEF Discovered, PhaseEvent, IsFinal
<1>5. /\ x.type = "agent.admitted" /\ x.agent = a /\ x.phase = p /\ x.callIndex = sequence - 1
      /\ x.type \in CallTypes
  BY <1>1, <1>3 DEF Admission, CallIndex, CallTypes
<1>6. Ordered(queue) /\ CallsWait
  BY DEF RunInv, QueueInv
<1>7. ASSUME NEW s \in {"over", "admitting"}, Moves(a, s)
      PROVE  /\ stage'[a] = s
             /\ stage' \in [Agents -> {"idle", "over"} \cup Accepting \cup Working]
             /\ \A b \in Agents \ {a} : stage'[b] = stage[b]
  BY <1>7 DEF Moves, RuntimeTypes, Accepting
<1>8. CASE aborted
  <2>1. Handled(h, <<>>, runtime) /\ Moves(a, "over") /\ UNCHANGED agentPhase
    BY <1>2, <1>3, <1>8
  <2>2. PICK S : S = {}
    OBVIOUS
  <2>3. ended' = ended /\ runtime' = runtime /\ Replays(<<h>>)
    BY <1>4, <2>1, HandledNotFinal
  <2>4. First(h) /\ up' = up
    BY <1>6, <2>1, HeadFirst DEF Handled
  <2>5. Ordered(queue)' /\ Pending' = (Pending \ {h}) \cup S
    BY <1>6, <2>1, <2>2, HandledAlone
  <2>6. KnownThen(a, p, S)
    BY <1>7, <1>8, <2>1, <2>2, <2>3 DEF KnownThen
  <2> QED
    BY <1>1, <1>4, <1>7, <2>1, <2>3, <2>4, <2>5, <2>6 DEF KnownStep
<1>9. CASE ~aborted
  <2>1. Handled(h, <<x>>, Joins(p)) /\ Moves(a, "admitting")
    BY <1>2, <1>3, <1>9 DEF Admits
  <2>2. PICK S : S = {x}
    OBVIOUS
  <2>3. ended' = ended /\ runtime' = Joins(p) /\ Replays(<<h>>)
    BY <1>4, <2>1, HandledNotFinal
  <2>4. First(h) /\ up' = up
    BY <1>6, <2>1, HeadFirst DEF Handled
  <2>5. ASSUME NEW e \in Pending \ {h} PROVE MayPrecede(e, x)
    <3>1. e.type \in CallTypes => e.agent # a
      BY <1>1, <1>6, NothingAsked
    <3>2. e.type = "agent.admitted" => a # e.callIndex + 1
      <4>1. e.type = "agent.admitted" => stage[e.callIndex + 1] # "discovering"
        BY <1>6 DEF CallsWait, CallFits, CallTypes
      <4> QED
        BY <1>1, <4>1
    <3>3. x.type \notin RunEvents /\ x.type \notin PhaseEvents
      BY <1>5, CallTypeFacts
    <3> QED
      BY <1>5, <3>1, <3>2, <3>3 DEF MayPrecede, PhaseEvents
  <2>6. Ordered(queue)' /\ Pending' = (Pending \ {h}) \cup S
    BY <1>5, <1>6, <2>1, <2>2, <2>5, HandledOne
  <2>7. agentPhase' = [agentPhase EXCEPT ![a] = p]
    BY <1>2, <1>9 DEF Admits
  <2>8. KnownThen(a, p, S)
    BY <1>5, <1>7, <1>9, <2>1, <2>2, <2>3, <2>7 DEF KnownThen
  <2> QED
    BY <1>1, <1>4, <1>7, <2>1, <2>3, <2>4, <2>6, <2>8 DEF KnownStep
<1> QED
  BY <1>8, <1>9

\* What of the calls and of the phases the step changes.
LEMMA KnownFacts ==
  ASSUME RuntimeTypes, RunInv, NEW a \in Agents, NEW p, NEW h, NEW S, KnownStep(a, p, h, S)
  PROVE  /\ p \in Phases /\ p # Nest /\ p \in Known /\ ~runtime[p].entered
         /\ a \notin inner /\ a \in 1..sequence /\ a \notin ended /\ attempt[a] = 1
         /\ agentPhase[a] = NoPhase /\ NoPhase \notin Phases
         /\ turn = Free /\ main \notin {"starting", "declaring"} \cup Returned
         /\ stage'[a] \in {"over", "admitting"} /\ (stage'[a] = "over" <=> aborted)
         /\ agentPhase' \in [Agents -> Phases \cup {NoPhase}]
         /\ \A b \in Agents \ {a} : agentPhase'[b] = agentPhase[b]
         /\ agentPhase'[a] = IF aborted THEN NoPhase ELSE p
         /\ CountsFit' /\ runtime' \in [Phases -> PhaseRecords]
         /\ \A q \in Phases :
              /\ runtime'[q].entered = runtime[q].entered
              /\ runtime'[q].sealed = runtime[q].sealed
              /\ runtime'[q].over = runtime[q].over
         /\ \A f \in Pending \ {h} : f.type = "phase.discovered" => f.phase = Nest
         /\ sequence \in Agents /\ stage'[sequence] # "discovering"
         /\ sequence = a \/ (sequence # a /\ sequence \in inner)
         /\ \A e \in Pending : e.type \in CallTypes => e.agent # a
<1>1. p \in Phases /\ p # Nest /\ stage[a] = "discovering" /\ h \in Pending
  BY ProjectionAssumption DEF KnownStep, First
<1>2. p \in Known /\ ~runtime[p].entered
  BY <1>1 DEF KnownStep, Waits, RunInv, QueueInv, DiscoveriesWait
<1>3. /\ a \notin inner /\ agentPhase[a] = NoPhase /\ ~(a > sequence)
  BY <1>1 DEF RunInv, StateInv, CallsFit
<1>4. a \in 1..sequence
  BY <1>3, AgentNumbers DEF RuntimeTypes
<1>5. a \notin ended /\ attempt[a] = 1
  BY <1>1 DEF RunInv, StateInv, StagesFit, Accepting
<1>6. a \in Outer
  BY <1>3, <1>4 DEF Outer
<1>7. turn = Free
  BY <1>1, <1>6 DEF RunInv, StateInv, TurnFits, Busy, Accepting
<1>8. main \notin {"starting", "declaring"} \cup Returned
  <2>1. sequence # 0
    BY <1>4 DEF RuntimeTypes
  <2> QED
    BY <1>1, <1>6, <2>1 DEF RunInv, StateInv, MainFits
<1>9. stage'[a] \in {"over", "admitting"} /\ (stage'[a] = "over" <=> aborted)
  BY DEF KnownStep, KnownThen
<1>10. NoPhase \notin Phases
  BY StateAssumption
<1>11. /\ agentPhase' \in [Agents -> Phases \cup {NoPhase}]
       /\ \A b \in Agents \ {a} : agentPhase'[b] = agentPhase[b]
       /\ agentPhase'[a] = IF aborted THEN NoPhase ELSE p
  BY <1>1, <1>3 DEF KnownStep, KnownThen, RuntimeTypes
<1>12. /\ CountsFit' /\ runtime' \in [Phases -> PhaseRecords]
       /\ \A q \in Phases :
            /\ runtime'[q].entered = runtime[q].entered
            /\ runtime'[q].sealed = runtime[q].sealed
            /\ runtime'[q].over = runtime[q].over
  <2>1. CASE aborted
    <3>1. UNCHANGED <<agentPhase, runtime, ended>>
      BY <2>1 DEF KnownStep, KnownThen
    <3>2. CountsFit
      BY DEF RunInv, StateInv
    <3> QED
      BY <3>1, <3>2, CountsStay
  <2>2. CASE ~aborted
    <3>1. runtime' = [runtime EXCEPT ![p].active = @ + 1] /\ ended' = ended
      BY <1>1, <1>10, <2>2 DEF KnownStep, KnownThen, Joins
    <3>2. agentPhase'[a] = p /\ agentPhase[a] # p
      BY <1>1, <1>3, <1>10, <1>11, <2>2
    <3>3. CountsFit
      BY DEF RunInv, StateInv
    <3> QED
      BY <1>1, <1>3, <1>5, <1>11, <3>1, <3>2, <3>3, JoinsCounts
  <2> QED
    BY <2>1, <2>2
<1>13. \A f \in Pending \ {h} : f.type = "phase.discovered" => f.phase = Nest
  BY <1>1 DEF KnownStep, First, MayPrecede
<1>14. sequence \in Agents /\ (sequence = a \/ (sequence # a /\ sequence \in inner))
  <2>1. sequence \in Agents
    BY <1>4, AgentNumbers DEF RuntimeTypes
  <2>2. sequence # a => sequence \in inner
    <3>1. sequence # a => a < sequence /\ sequence <= sequence
      BY <1>4 DEF RuntimeTypes
    <3> QED
      BY <1>1, <2>1, <3>1 DEF RunInv, StateInv, StagesFit
  <2> QED
    BY <2>1, <2>2
<1>15. stage'[sequence] # "discovering"
  <2>1. sequence # a => stage'[sequence] = stage[sequence] /\ stage[sequence] # "discovering"
    BY <1>14 DEF KnownStep, RunInv, StateInv, CallsFit
  <2> QED
    BY <1>9, <2>1
<1>16. \A e \in Pending : e.type \in CallTypes => e.agent # a
  BY <1>1, NothingAsked DEF RunInv, QueueInv
<1> QED
  BY <1>1, <1>2, <1>3, <1>4, <1>5, <1>7, <1>8, <1>9, <1>10, <1>11, <1>12, <1>13, <1>14, <1>15,
     <1>16

\* The calls, then RunInv, then ViewInv, then the action.
LEMMA KnownCalls ==
  ASSUME RuntimeTypes, RunInv, NEW a \in Agents, NEW p, NEW h, NEW S, KnownStep(a, p, h, S)
  PROVE  CallsWait' /\ CallsFit' /\ StagesFit' /\ OneAccepted'
<1>1. /\ p # Nest /\ p \in Known /\ a \notin inner /\ a \in 1..sequence /\ a \notin ended
      /\ attempt[a] = 1
      /\ stage'[a] \in {"over", "admitting"} /\ (stage'[a] = "over" <=> aborted)
      /\ \A b \in Agents \ {a} : agentPhase'[b] = agentPhase[b]
      /\ agentPhase'[a] = IF aborted THEN NoPhase ELSE p
      /\ NoPhase \notin Phases
      /\ sequence \in Agents /\ stage'[sequence] # "discovering"
      /\ \A e \in Pending : e.type \in CallTypes => e.agent # a
  BY KnownFacts
<1>2. /\ \A b \in Agents \ {a} : stage'[b] = stage[b]
      /\ UNCHANGED <<known, inner, attempt, ended, sequence, child, runVars>>
      /\ Pending' = (Pending \ {h}) \cup S /\ h.type \notin CallTypes
      /\ stage[a] = "discovering"
  BY TypesApart DEF KnownStep, PhaseEvents, CallTypes
<1>3. /\ Known' = Known /\ Outer' = Outer /\ (aborted' <=> aborted)
  BY <1>2 DEF Known, Outer, aborted, runVars
<1>4. \A x \in S : /\ x.type = "agent.admitted" /\ x.agent = a /\ x.phase = p
                   /\ x.callIndex = sequence - 1 /\ stage'[a] = "admitting" /\ ~aborted
  BY DEF KnownStep, KnownThen
<1>5. CallsWait'
  <2>1. ASSUME NEW e \in Pending \ {h}, e.type \in CallTypes PROVE CallFits(e)'
    <3>1. e.agent # a /\ stage'[a] # "discovering"
      BY <1>1, <2>1
    <3>2. /\ CallsWait /\ sequence \in 0..Cardinality(Agents)
          /\ stage \in [Agents -> {"idle", "over"} \cup Accepting \cup Working]
      BY DEF RunInv, QueueInv, RuntimeTypes
    <3>3. /\ ended' \subseteq ended \cup {a} /\ sequence' = sequence
          /\ \A b \in Agents \ {a} : stage'[b] = stage[b] /\ attempt'[b] = attempt[b]
                                     /\ agentPhase'[b] = agentPhase[b]
      BY <1>1, <1>2
    <3> QED
      BY <2>1, <3>1, <3>2, <3>3, OthersFit
  <2>2. ASSUME NEW x \in S PROVE CallFits(x)'
    <3>1. /\ x.type = "agent.admitted" /\ x.agent = a /\ x.phase = p
          /\ x.callIndex = sequence - 1 /\ stage'[a] = "admitting" /\ ~aborted
      BY <1>4, <2>2
    <3>2. x.callIndex \in Nat /\ x.callIndex + 1 = sequence /\ sequence \in 1..sequence
      BY <1>1, <3>1 DEF RuntimeTypes
    <3> QED
      BY <1>1, <1>2, <3>1, <3>2 DEF CallFits
  <2> QED
    BY <1>2, <2>1, <2>2 DEF CallsWait
<1>6. CallsFit'
  <2>1. \A b \in Agents : stage'[b] = "idle" <=> stage[b] = "idle"
    BY <1>1, <1>2
  <2>2. ASSUME NEW b \in Agents
        PROVE  /\ stage'[b] \in {"idle", "discovering"} => agentPhase'[b] = NoPhase
               /\ b \in inner => agentPhase'[b] = Nest /\ stage'[b] # "discovering"
               /\ b \notin inner => agentPhase'[b] # Nest
               /\ agentPhase'[b] # NoPhase => agentPhase'[b] \in Known
    <3>1. CASE b = a
      BY <1>1, <3>1, ProjectionAssumption
    <3>2. CASE b # a
      BY <1>1, <1>2, <3>2 DEF RunInv, StateInv, CallsFit
    <3> QED
      BY <3>1, <3>2
  <2> QED
    BY <1>2, <1>3, <2>1, <2>2 DEF RunInv, StateInv, CallsFit
<1>7. StagesFit'
  <2>1. ASSUME NEW b \in Agents
        PROVE  /\ stage'[b] = "discovering" =>
                    \A c \in Agents : b < c /\ c <= sequence => c \in inner
               /\ b \in ended => stage'[b] = "over"
               /\ stage'[b] = "over" /\ ~aborted => b \in ended \/ (b \in inner /\ child = "dead")
               /\ stage'[b] = "admitting" => Asks("agent.admitted", b)'
               /\ stage'[b] \in {"idle"} \cup Accepting => attempt[b] = 1
               /\ stage'[b] = "retrying" => attempt[b] < MaxAttempts
    <3>1. CASE b = a
      <4>1. stage'[a] = "admitting" => Asks("agent.admitted", a)'
        <5>1. stage'[a] = "admitting" => \E x \in S : x.type = "agent.admitted" /\ x.agent = a
          BY DEF KnownStep, KnownThen
        <5> QED
          BY <1>2, <5>1 DEF Asks
      <4> QED
        BY <1>1, <3>1, <4>1
    <3>2. CASE b # a
      <4>1. stage'[b] = stage[b]
        BY <1>2, <3>2
      <4>2. Asks("agent.admitted", b) => Asks("agent.admitted", b)'
        BY <1>2 DEF Asks, CallTypes
      <4> QED
        BY <4>1, <4>2 DEF RunInv, StateInv, StagesFit
    <3> QED
      BY <3>1, <3>2
  <2> QED
    BY <1>2, <1>3, <2>1 DEF StagesFit
<1>8. OneAccepted'
  <2>1. \A b \in Outer : b \in Agents
    BY AgentNumbers DEF Outer, RuntimeTypes
  <2>2. \A b \in Outer : stage'[b] \in Accepting => stage[b] \in Accepting
    BY <1>2, <2>1 DEF Accepting
  <2> QED
    BY <1>3, <2>2 DEF RunInv, StateInv, OneAccepted
<1> QED
  BY <1>5, <1>6, <1>7, <1>8

LEMMA KnownRuns ==
  ASSUME RuntimeTypes, RunInv, NEW a \in Agents, NEW p, NEW h, NEW S, KnownStep(a, p, h, S)
  PROVE  RunInv' /\ RuntimeTypes'
<1>1. /\ p \in Phases /\ p # Nest /\ p \in Known /\ ~runtime[p].entered /\ a \notin inner
      /\ turn = Free /\ main \notin {"starting", "declaring"} \cup Returned
      /\ agentPhase' \in [Agents -> Phases \cup {NoPhase}]
      /\ \A b \in Agents \ {a} : agentPhase'[b] = agentPhase[b]
      /\ agentPhase'[a] = IF aborted THEN NoPhase ELSE p
      /\ NoPhase \notin Phases
      /\ CountsFit' /\ runtime' \in [Phases -> PhaseRecords]
      /\ \A q \in Phases :
           /\ runtime'[q].entered = runtime[q].entered
           /\ runtime'[q].sealed = runtime[q].sealed
           /\ runtime'[q].over = runtime[q].over
      /\ \A f \in Pending \ {h} : f.type = "phase.discovered" => f.phase = Nest
  BY KnownFacts
<1>2. /\ \A b \in Agents \ {a} : stage'[b] = stage[b]
      /\ UNCHANGED <<up, runVars, turn, child, current, known, sequence, inner, attempt, ended>>
      /\ Pending' = (Pending \ {h}) \cup S /\ h.type \notin CallTypes
      /\ h.type = "phase.discovered" /\ stage[a] = "discovering" /\ Ordered(queue)'
      /\ stage' \in [Agents -> {"idle", "over"} \cup Accepting \cup Working]
  BY TypesApart DEF KnownStep, PhaseEvents, CallTypes
<1>3. Known' = Known /\ (aborted' <=> aborted)
  BY <1>2 DEF Known, aborted, runVars
<1>4. \A x \in S : x.type \notin RunEvents /\ x.type \notin PhaseEvents
  BY TypesApart DEF KnownStep, KnownThen, CallTypes, RunEvents, PhaseEvents
<1>5. CallsWait' /\ CallsFit' /\ StagesFit' /\ OneAccepted'
  BY KnownCalls
<1>6. RunWaits'
  <2>1. \A t \in RunEvents : WaitsRun(t)' <=> WaitsRun(t)
    BY <1>2, <1>4 DEF WaitsRun, RunEvents
  <2> QED
    BY <1>2, <1>3, <2>1 DEF RunInv, QueueInv, RunWaits, RunEvents, runVars
<1>7. PhasesWait'
  <2>1. ASSUME NEW e \in Pending \ {h}, e.type \in PhaseEvents PROVE PhaseFits(e)'
    <3>1. PhaseFits(e) /\ e.phase \in Phases
      BY <2>1, PhasesWaiting DEF RunInv, QueueInv, PhasesWait, PhaseFits
    <3>2. e.type = "phase.discovered" => e.phase = Nest /\ \A b \in Agents : agentPhase'[b] # Nest
      <4>1. ASSUME e.type = "phase.discovered" PROVE \A b \in Agents : agentPhase[b] # Nest
        BY <1>1, <2>1, <3>1, <4>1 DEF PhaseFits
      <4> QED
        BY <1>1, <2>1, <4>1, ProjectionAssumption
    <3>3. e.type = "phase.completed" =>
            \A b \in Agents : agentPhase'[b] = e.phase /\ b \notin ended => stage'[b] = "admitting"
      <4>1. ASSUME e.type = "phase.completed" PROVE e.phase # agentPhase'[a]
        BY <1>1, <3>1, <4>1 DEF PhaseFits
      <4> QED
        BY <1>1, <1>2, <3>1, <4>1 DEF PhaseFits
    <3>4. Waits("phase.failed", e.phase) => Waits("phase.failed", e.phase)'
      BY <1>2 DEF Waits
    <3> QED
      BY <1>1, <1>2, <1>3, <3>1, <3>2, <3>3, <3>4 DEF PhaseFits, runVars
  <2> QED
    BY <1>2, <1>4, <2>1 DEF PhasesWait
<1>8. ControlFits' /\ PhasesFit'
  <2>1. ControlFits'
    BY <1>2, <1>3 DEF RunInv, StateInv, ControlFits, runVars
  <2>2. PhasesFit'
    BY <1>1, <1>2, <1>3 DEF RunInv, StateInv, PhasesFit
  <2> QED
    BY <2>1, <2>2
<1>9. TurnFits'
  <2>1. turn'.at = "free" /\ turn' = Free
    BY <1>1, <1>2 DEF Free
  <2>2. current # NoPhase => current \in Phases
    BY DEF RuntimeTypes
  <2> QED
    BY <1>1, <1>2, <2>1, <2>2 DEF RunInv, StateInv, TurnFits
<1>10. ChildFits'
  <2>1. \A b \in inner : b \in Agents /\ stage'[b] = stage[b]
    BY <1>1, <1>2 DEF RuntimeTypes
  <2> QED
    BY <1>1, <1>2, <1>3, <2>1, ProjectionAssumption DEF RunInv, StateInv, ChildFits
<1>11. MainFits'
  BY <1>1, <1>2 DEF MainFits, runVars
<1>12. RunInv'
  BY <1>1, <1>2, <1>5, <1>6, <1>7, <1>8, <1>9, <1>10, <1>11, StepKeeps
<1>13. RuntimeTypes'
  BY <1>1, <1>2 DEF RuntimeTypes, runVars, PhaseRecords
<1> QED
  BY <1>12, <1>13

LEMMA KnownShown ==
  ASSUME RuntimeTypes, view \in Snapshots, RunInv, ViewInv, rejected = NoEvent,
         NEW a \in Agents, NEW p, NEW h, NEW S, KnownStep(a, p, h, S)
  PROVE  ViewInv'
<1>1. /\ a \notin inner /\ a \notin ended /\ attempt[a] = 1 /\ agentPhase[a] = NoPhase
      /\ stage'[a] \in {"over", "admitting"}
      /\ \A b \in Agents \ {a} : agentPhase'[b] = agentPhase[b]
      /\ \A q \in Phases :
           /\ runtime'[q].entered = runtime[q].entered
           /\ runtime'[q].sealed = runtime[q].sealed
           /\ runtime'[q].over = runtime[q].over
      /\ sequence \in Agents /\ (sequence = a \/ (sequence # a /\ sequence \in inner))
      /\ \A e \in Pending : e.type \in CallTypes => e.agent # a
  BY KnownFacts
<1>2. /\ \A b \in Agents \ {a} : stage'[b] = stage[b]
      /\ UNCHANGED <<known, inner, attempt, ended>>
      /\ Pending' = (Pending \ {h}) \cup S /\ h.type \notin CallTypes
      /\ h.type \in PhaseEvents /\ stage[a] = "discovering" /\ First(h) /\ Replays(<<h>>)
  BY TypesApart DEF KnownStep, PhaseEvents, CallTypes
<1>3. Known' = Known
  BY <1>2 DEF Known
<1>4. \A x \in S : /\ x.type = "agent.admitted" /\ x.agent = a /\ x.callIndex = sequence - 1
                   /\ x.type \notin PhaseEvents
  BY TypesApart DEF KnownStep, KnownThen, CallTypes, PhaseEvents
<1>5. /\ view'.agents = view.agents /\ view'.attempts = view.attempts /\ h.phase \in Phases
      /\ view'.callIndex = view.callIndex /\ view'.phaseOf = view.phaseOf
      /\ view'.status = view.status
      /\ \A q \in Phases :
           view'.phases[q] = IF q = h.phase THEN PhaseStatusAfter[h.type] ELSE view.phases[q]
  BY <1>2, PhaseRead
<1>6. \A b : Admitted(view', b) <=> Admitted(view, b)
  BY <1>5 DEF Admitted
<1>7. PhasesShown'
  <2>1. PICK V, Q : V = view'.phases /\ Q = Pending \ {h}
    OBVIOUS
  <2>2. \A q \in Phases : Shown(V, Pending \ {h}, q)
    BY <1>2, <1>5, <2>1, TakenShown
  <2>3. \A q \in Phases : Shown(view'.phases, Q, q)
    BY <2>1, <2>2
  <2>4. Announces(S)
    BY <1>1, <1>3, <1>4 DEF Announces, WaitsIn, PhaseEvents
  <2>5. \A t \in PhaseEvents, q \in Phases : Waits(t, q)' <=> WaitsIn(Q, t, q) \/ WaitsIn(S, t, q)
    BY <1>2, <2>1 DEF Waits, WaitsIn
  <2> QED
    BY <2>3, <2>4, <2>5, AnnouncedShown
<1>8. \A t \in CallTypes, b \in Agents \ {a} : Asks(t, b)' <=> Asks(t, b)
  BY <1>2, <1>4 DEF Asks
<1>9. AgentsShown'
  <2>1. ASSUME NEW b \in Agents
        PROVE  /\ stage'[b] \in {"idle", "discovering", "admitting"} => ~Admitted(view', b)
               /\ stage'[b] \in {"queueing", "answering"} \cup Working => Admitted(view', b)
               /\ b \in inner /\ stage'[b] # "admitting" => Admitted(view', b)
               /\ Admitted(view', b) => view'.phaseOf[b] = agentPhase'[b]
               /\ b \in ended <=> view'.agents[b] \in TerminalAgent
    <3>1. CASE b = a
      <4>1. ~Admitted(view, a) /\ (a \in ended <=> view.agents[a] \in TerminalAgent)
        BY <1>2 DEF ViewInv, AgentsShown
      <4> QED
        BY <1>1, <1>5, <1>6, <3>1, <4>1 DEF Working
    <3>2. CASE b # a
      BY <1>1, <1>2, <1>5, <1>6, <3>2 DEF ViewInv, AgentsShown
    <3> QED
      BY <3>1, <3>2
  <2> QED
    BY <1>2, <2>1 DEF AgentsShown
<1>10. IndicesShown'
  BY <1>5, <1>6 DEF ViewInv, IndicesShown
<1>11. AttemptsShown'
  <2>1. ASSUME NEW b \in Agents PROVE AttemptShown(b)'
    <3>1. AttemptShown(b)
      BY DEF ViewInv, AttemptsShown
    <3>2. CASE b = a
      <4>1. stage[b] \in Accepting /\ b \notin ended /\ stage'[b] \in {"over", "admitting"}
        BY <1>1, <1>2, <3>2 DEF Accepting
      <4>2. ended' = ended /\ attempt' = attempt /\ view'.attempts = view.attempts
        BY <1>2, <1>5
      <4>3. \A m \in Attempts : view'.attempts[b][m] = view.attempts[b][m]
        BY <4>2
      <4>4. /\ \A m \in Attempts : attempt[b] < m => view.attempts[b][m] = "absent"
            /\ \A m \in Attempts : m < attempt[b] => view.attempts[b][m] \notin Unresolved
            /\ view.attempts[b][attempt[b]] = "absent" /\ attempt[b] \in Attempts
        BY <3>1, <4>1 DEF AttemptShown, RuntimeTypes
      <4> QED
        BY <4>1, <4>2, <4>3, <4>4 DEF AttemptShown, Open, Accepting
    <3>3. CASE b # a
      <4>1. /\ stage'[b] = stage[b] /\ (Asks("agent.started", b)' <=> Asks("agent.started", b))
            /\ (Asks("agent.failed", b)' <=> Asks("agent.failed", b))
            /\ ended' = ended /\ attempt' = attempt /\ view'.attempts = view.attempts
        BY <1>2, <1>5, <1>8, <3>3 DEF CallTypes
      <4>2. attempt[b] \in Attempts /\ \A m \in Attempts : view'.attempts[b][m] = view.attempts[b][m]
        BY <4>1 DEF RuntimeTypes
      <4> QED
        BY <3>1, <4>1, <4>2 DEF AttemptShown
    <3> QED
      BY <3>2, <3>3
  <2> QED
    BY <2>1 DEF AttemptsShown
<1>12. \A c \in Agents : Admitted(view, c) \/ Asks("agent.admitted", c) =>
         Admitted(view', c) \/ Asks("agent.admitted", c)'
  <2>1. \A c \in Agents : Asks("agent.admitted", c) => Asks("agent.admitted", c)'
    BY <1>2 DEF Asks, CallTypes
  <2> QED
    BY <1>6, <2>1
<1>13. CallsShown'
  <2>1. ASSUME NEW e \in Pending \ {h}, e.type \in CallTypes PROVE EventShown(e)'
    <3>1. EventShown(e)
      BY <2>1 DEF ViewInv, CallsShown
    <3>2. PICK b : b = e.agent
      OBVIOUS
    <3>3. attempt'[b] = attempt[b] /\ view'.attempts[b] = view.attempts[b]
      BY <1>2, <1>5
    <3>4. Admitted(view, b) => Admitted(view', b)
      BY <1>6
    <3> QED
      BY <1>12, <3>1, <3>2, <3>3, <3>4, EventStays
  <2>2. ASSUME NEW x \in S PROVE EventShown(x)'
    <3>1. x.type = "agent.admitted" /\ x.agent = a /\ x.callIndex = sequence - 1
      BY <1>4, <2>2
    <3>2. x.callIndex + 1 = sequence
      BY <1>1, <3>1, AgentNumbers
    <3>3. sequence # a => Admitted(view, sequence) \/ Asks("agent.admitted", sequence)
      <4>1. CASE stage[sequence] = "admitting"
        BY <1>1, <4>1 DEF RunInv, StateInv, StagesFit
      <4>2. CASE stage[sequence] # "admitting"
        BY <1>1, <4>2 DEF ViewInv, AgentsShown
      <4> QED
        BY <4>1, <4>2
    <3>4. PICK c : c = sequence
      OBVIOUS
    <3>5. c # a => Admitted(view', c) \/ Asks("agent.admitted", c)'
      BY <1>1, <1>12, <3>3, <3>4
    <3>6. x.callIndex + 1 = c /\ (x.callIndex # x.agent - 1 => c # a) /\ c \in Agents
      BY <1>1, <3>1, <3>2, <3>4, AgentNumbers
    <3> QED
      BY <3>1, <3>5, <3>6 DEF EventShown, AttemptEvents, EitherEvents
  <2> QED
    BY <1>2, <2>1, <2>2 DEF CallsShown
<1> QED
  BY <1>5, <1>7, <1>9, <1>10, <1>11, <1>13 DEF ViewInv

LEMMA PhaseKnownKeeps ==
  ASSUME RuntimeTypes, view \in Snapshots, RunInv, NEW a \in Agents, PhaseKnown(a)
  PROVE  Kept
<1>1. PICK p, h, S : KnownStep(a, p, h, S)
  BY KnownSteps
<1>2. RunInv' /\ RuntimeTypes'
  BY <1>1, KnownRuns
<1>3. ViewInv /\ rejected = NoEvent => ViewInv'
  BY <1>1, KnownShown
<1> QED
  BY <1>2, <1>3 DEF Kept

-------------------------------------------------------------------------------
(* An agent call arrives: it joins a phase at once, or names a new one.        *)

\* The call is admitted to p.
Joined(a, p, S) ==
  /\ stage'[a] = "admitting" /\ known' = known /\ runtime' = Joins(p)
  /\ agentPhase' = [agentPhase EXCEPT ![a] = p]
  /\ \E x : S = {x} /\ x.type = "agent.admitted" /\ x.agent = a /\ x.phase = p /\ x.callIndex = a - 1
\* Its phase is discovered first.
Names(a, p, S) ==
  /\ stage'[a] = "discovering" /\ p \notin Known /\ known' = Append(known, p)
  /\ UNCHANGED <<runtime, agentPhase>>
  /\ \E x : S = {x} /\ x.type = "phase.discovered" /\ x.phase = p

\* Where it comes from: the workflow, or its nested workflow.
OwnCall(a, p, S) ==
  /\ main = "evaluating" /\ OuterFree /\ inner' = inner /\ p # Nest /\ p \in Phases \cup {NoPhase}
  /\ IF p \in Known \cup {NoPhase} THEN Joined(a, p, S) ELSE Names(a, p, S)
NestedCall(a, p, S) ==
  /\ child \in {"evaluating", "dead"} /\ ~aborted /\ inner' = inner \cup {a} /\ p = Nest
  /\ Joined(a, p, S)

RequestStep(a, p, S) ==
  /\ a = sequence + 1 /\ a \in Agents /\ sequence' = a
  /\ stage' \in [Agents -> {"idle", "over"} \cup Accepting \cup Working]
  /\ \A b \in Agents \ {a} : stage'[b] = stage[b]
  /\ Ordered(queue)' /\ Pending' = Pending \cup S
  /\ UNCHANGED <<up, runVars, turn, child, current, attempt, ended, view, rejected>>
  /\ OwnCall(a, p, S) \/ NestedCall(a, p, S)

\* A call that is still to come.
LEMMA Unasked ==
  ASSUME RuntimeTypes, RunInv, NEW a \in Agents, a = sequence + 1
  PROVE  /\ stage[a] = "idle" /\ agentPhase[a] = NoPhase /\ a \notin ended /\ a \notin inner
         /\ attempt[a] = 1 /\ a \in Nat /\ sequence \in Nat
         /\ \A e \in Pending : e.type \in CallTypes => e.agent # a
         /\ \A e \in Pending : e.type = "agent.admitted" =>
              e.callIndex \in Nat /\ e.callIndex + 1 \in 1..sequence /\ e.callIndex + 1 \in Agents
<1>1. a \in Nat /\ sequence \in Nat /\ a > sequence /\ a \notin 1..sequence
  BY AgentNumbers DEF RuntimeTypes
<1>2. stage[a] = "idle" /\ a \notin inner
  BY <1>1 DEF RunInv, StateInv, CallsFit
<1>3. agentPhase[a] = NoPhase /\ a \notin ended /\ attempt[a] = 1
  BY <1>2 DEF RunInv, StateInv, CallsFit, StagesFit
<1>4. \A e \in Pending : e.type \in CallTypes => e.agent # a
  BY <1>2, NothingAsked DEF RunInv, QueueInv
<1>5. ASSUME NEW e \in Pending, e.type = "agent.admitted"
      PROVE  e.callIndex \in Nat /\ e.callIndex + 1 \in 1..sequence /\ e.callIndex + 1 \in Agents
  <2>1. e.callIndex \in Nat /\ e.callIndex + 1 \in 1..sequence
    BY <1>5 DEF RunInv, QueueInv, CallsWait, CallFits, CallTypes
  <2>2. e.callIndex + 1 \in Agents
    BY <2>1, AgentNumbers DEF RuntimeTypes
  <2> QED
    BY <2>1, <2>2
<1> QED
  BY <1>1, <1>2, <1>3, <1>4, <1>5

\* An own call finds no phase of the workflow on its way.
LEMMA OwnQuiet ==
  ASSUME RuntimeTypes, RunInv, main = "evaluating", OuterFree
  PROVE  /\ \A e \in Pending : e.type \in PhaseEvents /\ e.phase # Nest => e.type = "phase.failed"
         /\ turn = Free /\ \A b \in Outer : stage[b] \notin Accepting
<1>1. PICK H : H = {}
  OBVIOUS
<1>2. turn = Free /\ ~Busy(Outer)
  BY DEF OuterFree
<1>3. QuietBut({})
  BY <1>2, Quiet
<1> QED
  BY <1>2, <1>3 DEF QuietBut, Busy

\* Its admission, or the discovery of its phase, may follow what waits.
LEMMA AdmissionFollows ==
  ASSUME RuntimeTypes, RunInv, NEW a \in Agents, a = sequence + 1, NEW x,
         x.type = "agent.admitted", x.agent = a
  PROVE  \A e \in Pending : MayPrecede(e, x)
<1>1. ASSUME NEW e \in Pending PROVE MayPrecede(e, x)
  <2>1. e.type \in CallTypes => e.agent # a
    BY Unasked
  <2>2. e.type = "agent.admitted" => a # e.callIndex + 1
    <3>1. /\ a \in Nat /\ sequence \in Nat
          /\ e.type = "agent.admitted" => e.callIndex \in Nat /\ e.callIndex + 1 \in 1..sequence
      BY Unasked
    <3> QED
      BY <3>1
  <2>3. x.type \notin RunEvents /\ x.type \notin PhaseEvents
    BY DEF RunEvents, PhaseEvents
  <2> QED
    BY <2>1, <2>2, <2>3 DEF MayPrecede, PhaseEvents
<1> QED
  BY <1>1

LEMMA DiscoveryFollows ==
  ASSUME RuntimeTypes, RunInv, NEW p \in Phases \ {Nest}, p \notin Known,
         main = "evaluating", OuterFree, NEW x, x.type = "phase.discovered", x.phase = p
  PROVE  \A e \in Pending : MayPrecede(e, x)
<1>1. ~runtime[p].entered
  BY DEF RunInv, StateInv, PhasesFit
<1>2. ASSUME NEW e \in Pending PROVE MayPrecede(e, x)
  <2>1. e.type \in PhaseEvents => e.phase # p
    <3>1. e.type \in PhaseEvents => PhaseFits(e)
      BY PhasesWaiting DEF RunInv, QueueInv, PhasesWait
    <3> QED
      BY <1>1, <3>1 DEF PhaseFits, PhaseEvents
  <2>2. e.type = "phase.discovered" => e.phase = Nest
    BY OwnQuiet DEF PhaseEvents
  <2>3. x.type \notin RunEvents /\ x.type \notin CallTypes
    BY DEF RunEvents, CallTypes
  <2> QED
    BY <2>1, <2>2, <2>3 DEF MayPrecede
<1> QED
  BY <1>2

\* Every disjunct of Request is such a step.
LEMMA RequestSteps ==
  ASSUME RuntimeTypes, view \in Snapshots, RunInv, Request
  PROVE  \E a, p, S : RequestStep(a, p, S)
<1>1. PICK a : a = sequence + 1
  OBVIOUS
<1>2. /\ sequence' = a /\ a \in Agents /\ CallIndex(a) = a - 1
      /\ UNCHANGED <<runVars, turn, child, current, attempt, ended>>
  BY <1>1, AgentNumbers DEF Request, acceptKept, CallIndex, RuntimeTypes
<1>3. ASSUME NEW s \in {"admitting", "discovering"}, Moves(a, s)
      PROVE  /\ stage'[a] = s
             /\ stage' \in [Agents -> {"idle", "over"} \cup Accepting \cup Working]
             /\ \A b \in Agents \ {a} : stage'[b] = stage[b]
  BY <1>2, <1>3 DEF Moves, RuntimeTypes, Accepting
<1>4. Ordered(queue)
  BY DEF RunInv, QueueInv
<1>5. ASSUME NEW p, Admits(a, p), runtime' = Joins(p), UNCHANGED known,
             Emits(<<Admission(a, CallIndex(a), p)>>)
      PROVE  \E S : /\ Joined(a, p, S) /\ Ordered(queue)' /\ Pending' = Pending \cup S
                    /\ UNCHANGED <<up, view, rejected>>
                    /\ stage' \in [Agents -> {"idle", "over"} \cup Accepting \cup Working]
                    /\ \A b \in Agents \ {a} : stage'[b] = stage[b]
  <2>1. PICK x, S : x = Admission(a, CallIndex(a), p) /\ S = {x}
    OBVIOUS
  <2>2. /\ x.type = "agent.admitted" /\ x.agent = a /\ x.phase = p /\ x.callIndex = a - 1
        /\ x.type \in CallTypes
    BY <1>2, <2>1 DEF Admission, CallTypes
  <2>3. Emits(<<x>>)
    BY <1>5, <2>1
  <2>4. \A e \in Pending : MayPrecede(e, x)
    BY <1>1, <1>2, <2>2, AdmissionFollows
  <2>5. Ordered(queue)' /\ Pending' = Pending \cup S
    BY <1>4, <2>1, <2>2, <2>3, <2>4, EmitsOne
  <2>6. UNCHANGED <<up, view, rejected>>
    BY <2>3 DEF Emits
  <2>7. agentPhase' = [agentPhase EXCEPT ![a] = p] /\ Moves(a, "admitting")
    BY <1>5 DEF Admits
  <2>8. Joined(a, p, S)
    BY <1>3, <1>5, <2>1, <2>2, <2>7 DEF Joined
  <2> QED
    BY <1>3, <2>5, <2>6, <2>7, <2>8
<1>6. CASE /\ main = "evaluating" /\ OuterFree /\ UNCHANGED inner
           /\ \E p \in Named \cup {current} :
                IF p \in Known \cup {NoPhase}
                THEN /\ Admits(a, p) /\ runtime' = Joins(p) /\ UNCHANGED known
                     /\ Emits(<<Admission(a, CallIndex(a), p)>>)
                ELSE /\ Moves(a, "discovering") /\ Knows(p)
                     /\ Emits(<<Discovered(p)>>)
                     /\ UNCHANGED <<runtime, agentPhase>>
  <2>1. PICK p \in Named \cup {current} :
          IF p \in Known \cup {NoPhase}
          THEN /\ Admits(a, p) /\ runtime' = Joins(p) /\ UNCHANGED known
               /\ Emits(<<Admission(a, CallIndex(a), p)>>)
          ELSE /\ Moves(a, "discovering") /\ Knows(p)
               /\ Emits(<<Discovered(p)>>)
               /\ UNCHANGED <<runtime, agentPhase>>
    BY <1>6
  <2>2. p # Nest /\ p \in Phases \cup {NoPhase}
    BY ProjectionAssumption, StateAssumption DEF RunInv, StateInv, TurnFits, RuntimeTypes
  <2>3. CASE p \in Known \cup {NoPhase}
    <3>1. PICK S : /\ Joined(a, p, S) /\ Ordered(queue)' /\ Pending' = Pending \cup S
                   /\ UNCHANGED <<up, view, rejected>>
                   /\ stage' \in [Agents -> {"idle", "over"} \cup Accepting \cup Working]
                   /\ \A b \in Agents \ {a} : stage'[b] = stage[b]
      BY <1>5, <2>1, <2>3
    <3>2. OwnCall(a, p, S)
      BY <1>6, <2>2, <2>3, <3>1 DEF OwnCall
    <3> QED
      BY <1>1, <1>2, <3>1, <3>2 DEF RequestStep
  <2>4. CASE p \notin Known \cup {NoPhase}
    <3>1. PICK x, S : x = Discovered(p) /\ S = {x}
      OBVIOUS
    <3>2. x.type = "phase.discovered" /\ x.phase = p /\ x.type \in PhaseEvents
      BY <3>1 DEF Discovered, PhaseEvent, PhaseEvents
    <3>3. Emits(<<x>>) /\ Moves(a, "discovering") /\ Knows(p) /\ UNCHANGED <<runtime, agentPhase>>
      BY <2>1, <2>4, <3>1
    <3>4. \A e \in Pending : MayPrecede(e, x)
      BY <1>6, <2>2, <2>4, <3>2, DiscoveryFollows
    <3>5. Ordered(queue)' /\ Pending' = Pending \cup S
      BY <1>4, <3>1, <3>2, <3>3, <3>4, EmitsOne
    <3>6. UNCHANGED <<up, view, rejected>> /\ known' = Append(known, p)
      BY <2>4, <3>3 DEF Emits, Knows
    <3>7. Names(a, p, S)
      BY <1>3, <2>4, <3>1, <3>2, <3>3, <3>6 DEF Names
    <3>8. OwnCall(a, p, S)
      BY <1>6, <2>2, <2>4, <3>7 DEF OwnCall
    <3> QED
      BY <1>1, <1>2, <1>3, <3>3, <3>5, <3>6, <3>8 DEF RequestStep
  <2> QED
    BY <2>3, <2>4
<1>7. CASE /\ child \in {"evaluating", "dead"} /\ ~Busy(inner) /\ ~aborted
           /\ inner' = inner \cup {a}
           /\ Admits(a, Nest) /\ runtime' = Joins(Nest) /\ UNCHANGED known
           /\ Emits(<<Admission(a, CallIndex(a), Nest)>>)
  <2>1. PICK p : p = Nest
    OBVIOUS
  <2>2. PICK S : /\ Joined(a, p, S) /\ Ordered(queue)' /\ Pending' = Pending \cup S
                 /\ UNCHANGED <<up, view, rejected>>
                 /\ stage' \in [Agents -> {"idle", "over"} \cup Accepting \cup Working]
                 /\ \A b \in Agents \ {a} : stage'[b] = stage[b]
    BY <1>5, <1>7, <2>1
  <2>3. NestedCall(a, p, S)
    BY <1>7, <2>1, <2>2 DEF NestedCall
  <2> QED
    BY <1>1, <1>2, <2>2, <2>3 DEF RequestStep
<1> QED
  BY <1>1, <1>6, <1>7 DEF Request

\* What every request leaves of the phases and of the other calls.
LEMMA RequestFacts ==
  ASSUME RuntimeTypes, RunInv, NEW a, NEW p, NEW S, RequestStep(a, p, S)
  PROVE  /\ stage'[a] \in {"admitting", "discovering"}
         /\ \A b \in Agents \ {a} : agentPhase'[b] = agentPhase[b]
         /\ agentPhase' \in [Agents -> Phases \cup {NoPhase}]
         /\ agentPhase'[a] = IF stage'[a] = "admitting" THEN p ELSE NoPhase
         /\ CountsFit' /\ runtime' \in [Phases -> PhaseRecords]
         /\ \A q \in Phases :
              /\ runtime'[q].entered = runtime[q].entered
              /\ runtime'[q].sealed = runtime[q].sealed
              /\ runtime'[q].over = runtime[q].over
         /\ known' \in Seq(Phases) /\ visited \in 0..Len(known')
         /\ Known' = IF stage'[a] = "admitting" THEN Known ELSE Known \cup {p}
         /\ visited > 0 => known'[visited] = known[visited]
         /\ p \in Phases \cup {NoPhase} /\ stage'[a] = "discovering" => p \in Phases /\ p \notin Known
         /\ p # NoPhase => p \in Known'
<1>1. /\ a = sequence + 1 /\ a \in Agents /\ ended' = ended /\ visited \in Nat
      /\ known \in Seq(Phases) /\ visited \in 0..Len(known)
  BY DEF RequestStep, RuntimeTypes
<1>2. agentPhase[a] = NoPhase /\ a \notin ended /\ NoPhase \notin Phases
  BY <1>1, Unasked, StateAssumption
<1>3. \/ Joined(a, p, S) /\ p \in Known \cup {NoPhase}
      \/ Names(a, p, S) /\ p \notin Known \cup {NoPhase} /\ p # Nest
  BY DEF RequestStep, OwnCall, NestedCall, RunInv, StateInv, ChildFits
<1>4. p \in Phases \cup {NoPhase}
  BY ProjectionAssumption DEF RequestStep, OwnCall, NestedCall
<1>5. CASE Joined(a, p, S) /\ p \in Known \cup {NoPhase}
  <2>1. /\ stage'[a] = "admitting" /\ known' = known /\ runtime' = Joins(p)
        /\ agentPhase' = [agentPhase EXCEPT ![a] = p] /\ Known' = Known
    BY <1>5 DEF Joined, Known
  <2>2. /\ \A b \in Agents \ {a} : agentPhase'[b] = agentPhase[b]
        /\ agentPhase' \in [Agents -> Phases \cup {NoPhase}] /\ agentPhase'[a] = p
    BY <1>1, <1>4, <2>1 DEF RuntimeTypes
  <2>3. /\ CountsFit' /\ runtime' \in [Phases -> PhaseRecords]
        /\ \A q \in Phases :
             /\ runtime'[q].entered = runtime[q].entered
             /\ runtime'[q].sealed = runtime[q].sealed
             /\ runtime'[q].over = runtime[q].over
    <3>1. CASE p = NoPhase
      <4>1. runtime' = runtime
        BY <2>1, <3>1 DEF Joins
      <4>2. agentPhase' = agentPhase
        BY <1>2, <2>1, <3>1 DEF RuntimeTypes
      <4>3. CountsFit /\ ended' = ended
        BY <1>1 DEF RunInv, StateInv
      <4> QED
        BY <4>1, <4>2, <4>3, CountsStay
    <3>2. CASE p # NoPhase
      <4>1. runtime' = [runtime EXCEPT ![p].active = @ + 1] /\ p \in Phases
        BY <1>4, <2>1, <3>2 DEF Joins
      <4>2. CountsFit /\ agentPhase[a] # p
        BY <1>2, <3>2 DEF RunInv, StateInv
      <4> QED
        BY <1>1, <1>2, <2>2, <4>1, <4>2, JoinsCounts
    <3> QED
      BY <3>1, <3>2
  <2> QED
    BY <1>1, <1>4, <1>5, <2>1, <2>2, <2>3
<1>6. CASE Names(a, p, S) /\ p \notin Known \cup {NoPhase} /\ p # Nest
  <2>1. /\ stage'[a] = "discovering" /\ known' = Append(known, p)
        /\ UNCHANGED <<runtime, agentPhase>> /\ p \in Phases
    BY <1>4, <1>6 DEF Names
  <2>2. /\ known' \in Seq(Phases) /\ Known' = Known \cup {p}
        /\ visited \in 0..Len(known')
        /\ visited > 0 => known'[visited] = known[visited]
    BY <1>6, <2>1, KnownGrows
  <2>3. CountsFit' /\ runtime' \in [Phases -> PhaseRecords]
    <3>1. UNCHANGED <<runtime, agentPhase, ended>>
      BY <1>1, <2>1
    <3>2. CountsFit /\ runtime \in [Phases -> PhaseRecords]
      BY DEF RunInv, StateInv, RuntimeTypes, PhaseRecords
    <3>3. CountsFit'
      BY <3>1, <3>2 DEF CountsFit
    <3> QED
      BY <3>1, <3>2, <3>3
  <2>4. agentPhase' \in [Agents -> Phases \cup {NoPhase}]
    BY <2>1 DEF RuntimeTypes
  <2> QED
    BY <1>2, <1>4, <1>6, <2>1, <2>2, <2>3, <2>4
<1> QED
  BY <1>3, <1>5, <1>6

\* The calls, then RunInv, then ViewInv, then the action.
LEMMA RequestCalls ==
  ASSUME RuntimeTypes, RunInv, NEW a, NEW p, NEW S, RequestStep(a, p, S)
  PROVE  CallsWait' /\ CallsFit' /\ StagesFit' /\ OneAccepted'
<1>1. /\ a = sequence + 1 /\ a \in Agents /\ sequence' = a
      /\ UNCHANGED <<attempt, ended, child, owner>>
      /\ \A b \in Agents \ {a} : stage'[b] = stage[b]
      /\ Pending' = Pending \cup S
  BY DEF RequestStep, runVars
<1>2. /\ stage[a] = "idle" /\ agentPhase[a] = NoPhase /\ a \notin ended /\ a \notin inner
      /\ attempt[a] = 1 /\ a \in Nat /\ sequence \in Nat
      /\ \A e \in Pending : e.type \in CallTypes => e.agent # a
      /\ \A e \in Pending : e.type = "agent.admitted" =>
           e.callIndex \in Nat /\ e.callIndex + 1 \in 1..sequence /\ e.callIndex + 1 \in Agents
  BY <1>1, Unasked
<1>3. /\ stage'[a] \in {"admitting", "discovering"}
      /\ \A b \in Agents \ {a} : agentPhase'[b] = agentPhase[b]
      /\ agentPhase'[a] = IF stage'[a] = "admitting" THEN p ELSE NoPhase
      /\ Known' = IF stage'[a] = "admitting" THEN Known ELSE Known \cup {p}
      /\ p # NoPhase => p \in Known'
  BY RequestFacts
<1>4. /\ inner' = inner \/ inner' = inner \cup {a}
      /\ a \in inner' <=> p = Nest
      /\ a \in inner' => stage'[a] = "admitting"
      /\ inner' = inner => \A b \in Outer : stage[b] \notin Accepting
  BY <1>2, OwnQuiet DEF RequestStep, OwnCall, NestedCall, Joined
<1>5. \A x \in S : \/ /\ x.type = "agent.admitted" /\ x.agent = a /\ x.phase = p
                      /\ x.callIndex = a - 1 /\ stage'[a] = "admitting"
                   \/ x.type = "phase.discovered"
  BY DEF RequestStep, OwnCall, NestedCall, Joined, Names
<1>6. /\ aborted' <=> aborted
      /\ \A b : b \in 1..sequence' <=> b \in 1..sequence \/ b = a
      /\ \A b \in Agents : b > sequence' <=> b > sequence /\ b # a
  BY <1>1, <1>2, AgentNumbers DEF aborted
<1>7. CallsWait'
  <2>1. ASSUME NEW e \in Pending, e.type \in CallTypes PROVE CallFits(e)'
    <3>1. CallFits(e) /\ e.agent # a
      BY <1>2, <2>1 DEF RunInv, QueueInv, CallsWait
    <3>2. e.type = "agent.admitted" =>
            /\ e.callIndex \in Nat /\ e.callIndex + 1 \in 1..sequence'
            /\ stage'[e.callIndex + 1] = stage[e.callIndex + 1]
      <4>1. ASSUME e.type = "agent.admitted"
            PROVE  e.callIndex \in Nat /\ e.callIndex + 1 \in 1..sequence /\ e.callIndex + 1 \in Agents
                   /\ e.callIndex + 1 # a
        BY <1>1, <1>2, <2>1, <4>1
      <4> QED
        BY <1>1, <1>6, <4>1
    <3>3. /\ e.agent \in Agents /\ stage'[e.agent] = stage[e.agent]
          /\ agentPhase'[e.agent] = agentPhase[e.agent]
      BY <1>1, <1>3, <3>1 DEF CallFits
    <3> QED
      BY <1>1, <3>1, <3>2, <3>3 DEF CallFits
  <2>2. ASSUME NEW x \in S, x.type \in CallTypes PROVE CallFits(x)'
    <3>1. /\ x.type = "agent.admitted" /\ x.agent = a /\ x.phase = p
          /\ x.callIndex = a - 1 /\ stage'[a] = "admitting"
      BY <1>5, <2>2 DEF CallTypes
    <3>2. x.callIndex \in Nat /\ x.callIndex + 1 = a /\ a \in 1..sequence'
      BY <1>1, <1>2, <1>6, <3>1
    <3> QED
      BY <1>1, <1>2, <1>3, <3>1, <3>2 DEF CallFits
  <2> QED
    BY <1>1, <2>1, <2>2 DEF CallsWait
<1>8. CallsFit'
  <2>1. inner' \subseteq 1..sequence'
    BY <1>4, <1>6 DEF RunInv, StateInv, CallsFit
  <2>2. ASSUME NEW b \in Agents
        PROVE  /\ b > sequence' <=> stage'[b] = "idle"
               /\ stage'[b] \in {"idle", "discovering"} => agentPhase'[b] = NoPhase
               /\ b \in inner' => agentPhase'[b] = Nest /\ stage'[b] # "discovering"
               /\ b \notin inner' => agentPhase'[b] # Nest
               /\ agentPhase'[b] # NoPhase => agentPhase'[b] \in Known'
    <3>1. CASE b = a
      <4>1. NoPhase # Nest
        BY ProjectionAssumption, StateAssumption
      <4> QED
        BY <1>3, <1>4, <1>6, <3>1, <4>1
    <3>2. CASE b # a
      <4>1. Known \subseteq Known' /\ (b \in inner' <=> b \in inner)
        BY <1>3, <1>4, <3>2
      <4> QED
        BY <1>1, <1>3, <1>6, <3>2, <4>1 DEF RunInv, StateInv, CallsFit
    <3> QED
      BY <3>1, <3>2
  <2> QED
    BY <2>1, <2>2 DEF CallsFit
<1>9. StagesFit'
  <2>1. ASSUME NEW b \in Agents
        PROVE  /\ stage'[b] = "discovering" =>
                    \A c \in Agents : b < c /\ c <= sequence' => c \in inner'
               /\ b \in ended => stage'[b] = "over"
               /\ stage'[b] = "over" /\ ~aborted => b \in ended \/ (b \in inner' /\ child = "dead")
               /\ stage'[b] = "admitting" => Asks("agent.admitted", b)'
               /\ stage'[b] \in {"idle"} \cup Accepting => attempt[b] = 1
               /\ stage'[b] = "retrying" => attempt[b] < MaxAttempts
    <3>1. CASE b = a
      <4>1. stage'[a] = "admitting" => Asks("agent.admitted", a)'
        <5>1. stage'[a] = "admitting" => \E x \in S : x.type = "agent.admitted" /\ x.agent = a
          BY DEF RequestStep, OwnCall, NestedCall, Joined, Names
        <5> QED
          BY <1>1, <5>1 DEF Asks
      <4>2. \A c \in Agents : ~(a < c /\ c <= sequence')
        BY <1>1, <1>2, AgentNumbers
      <4> QED
        BY <1>2, <1>3, <3>1, <4>1, <4>2
    <3>2. CASE b # a
      <4>1. stage'[b] = stage[b] /\ (b \in inner => b \in inner')
        BY <1>1, <1>4, <3>2
      <4>2. Asks("agent.admitted", b) => Asks("agent.admitted", b)'
        BY <1>1 DEF Asks
      <4>3. ASSUME stage[b] = "discovering", NEW c \in Agents, b < c, c <= sequence'
            PROVE  c \in inner'
        <5>1. b \in Outer
          <6>1. b \notin inner /\ ~(b > sequence)
            BY <4>3 DEF RunInv, StateInv, CallsFit
          <6> QED
            BY <1>2, <6>1, AgentNumbers DEF Outer
        <5>2. inner' = inner \cup {a}
          BY <1>4, <4>3, <5>1 DEF Accepting
        <5>3. c <= sequence \/ c = a
          BY <1>1, <1>2, <4>3, AgentNumbers
        <5> QED
          BY <4>3, <5>2, <5>3 DEF RunInv, StateInv, StagesFit
      <4> QED
        BY <4>1, <4>2, <4>3 DEF RunInv, StateInv, StagesFit
    <3> QED
      BY <3>1, <3>2
  <2> QED
    BY <1>1, <1>6, <2>1 DEF StagesFit
<1>10. OneAccepted'
  <2>1. \A b \in Outer : b \in Agents /\ b # a
    BY <1>1, <1>2, AgentNumbers DEF Outer, RuntimeTypes
  <2>2. \A b \in Outer' : b \in Outer \/ (b = a /\ inner' = inner)
    BY <1>4, <1>6 DEF Outer
  <2>3. \A b \in Outer : stage'[b] = stage[b]
    BY <1>1, <2>1
  <2> QED
    BY <1>4, <2>2, <2>3 DEF RunInv, StateInv, OneAccepted
<1> QED
  BY <1>7, <1>8, <1>9, <1>10

LEMMA RequestRuns ==
  ASSUME RuntimeTypes, RunInv, NEW a, NEW p, NEW S, RequestStep(a, p, S)
  PROVE  RunInv' /\ RuntimeTypes'
<1>1. /\ a = sequence + 1 /\ a \in Agents /\ sequence' = a
      /\ UNCHANGED <<up, runVars, turn, child, current, attempt, ended>>
      /\ \A b \in Agents \ {a} : stage'[b] = stage[b]
      /\ stage' \in [Agents -> {"idle", "over"} \cup Accepting \cup Working]
      /\ Pending' = Pending \cup S /\ Ordered(queue)'
  BY DEF RequestStep
<1>2. /\ stage[a] = "idle" /\ agentPhase[a] = NoPhase /\ a \notin ended /\ a \notin inner
      /\ a \in Nat /\ sequence \in Nat
  BY <1>1, Unasked
<1>3. /\ stage'[a] \in {"admitting", "discovering"}
      /\ \A b \in Agents \ {a} : agentPhase'[b] = agentPhase[b]
      /\ agentPhase' \in [Agents -> Phases \cup {NoPhase}]
      /\ agentPhase'[a] = IF stage'[a] = "admitting" THEN p ELSE NoPhase
      /\ CountsFit' /\ runtime' \in [Phases -> PhaseRecords]
      /\ \A q \in Phases :
           /\ runtime'[q].entered = runtime[q].entered
           /\ runtime'[q].sealed = runtime[q].sealed
           /\ runtime'[q].over = runtime[q].over
      /\ known' \in Seq(Phases) /\ visited \in 0..Len(known')
      /\ Known' = IF stage'[a] = "admitting" THEN Known ELSE Known \cup {p}
      /\ visited > 0 => known'[visited] = known[visited]
      /\ p \in Phases \cup {NoPhase} /\ stage'[a] = "discovering" => p \in Phases /\ p \notin Known
      /\ NoPhase \notin Phases
  BY RequestFacts, StateAssumption
<1>4. \/ /\ main = "evaluating" /\ inner' = inner /\ p # Nest /\ p \in Phases \cup {NoPhase}
         /\ turn = Free /\ \A b \in Outer : stage[b] \notin Accepting
         /\ \A e \in Pending : e.type \in PhaseEvents /\ e.phase # Nest => e.type = "phase.failed"
      \/ /\ child \in {"evaluating", "dead"} /\ inner' = inner \cup {a} /\ p = Nest
         /\ stage'[a] = "admitting"
  BY OwnQuiet DEF RequestStep, OwnCall, NestedCall, Joined
<1>5. \A x \in S : \/ x.type = "agent.admitted" /\ stage'[a] = "admitting"
                   \/ x.type = "phase.discovered" /\ x.phase = p /\ stage'[a] = "discovering"
  BY DEF RequestStep, OwnCall, NestedCall, Joined, Names
<1>6. /\ aborted' <=> aborted
      /\ Known \subseteq Known' /\ (Nest \in Known' <=> Nest \in Known)
      /\ \A b \in Outer : b \in Agents /\ b # a /\ stage'[b] = stage[b]
      /\ \A b \in Outer : b \in Outer'
      /\ inner' = inner => a \in Outer'
      /\ inner' # inner => Outer' = Outer
  <2>1. \A b : b \in 1..sequence' <=> b \in 1..sequence \/ b = a
    BY <1>1, <1>2
  <2>2. \A b \in Outer : b \in Agents /\ b # a
    BY <1>1, <1>2, AgentNumbers DEF Outer, RuntimeTypes
  <2>3. Outer = (1..sequence) \ inner /\ Outer' = (1..sequence') \ inner'
    BY DEF Outer
  <2>4. (inner' = inner \/ inner' = inner \cup {a}) /\ a \notin inner
    BY <1>2, <1>4
  <2>5. /\ \A b \in Outer : b \in Outer'
        /\ inner' = inner => a \in Outer'
        /\ inner' # inner => Outer' = Outer
    BY <2>1, <2>2, <2>3, <2>4
  <2>6. (aborted' <=> aborted) /\ Known \subseteq Known' /\ (Nest \in Known' <=> Nest \in Known)
    BY <1>1, <1>3, <1>4 DEF aborted, runVars
  <2> QED
    BY <1>1, <2>2, <2>5, <2>6
<1>7. CallsWait' /\ CallsFit' /\ StagesFit' /\ OneAccepted'
  BY RequestCalls
<1>8. RunWaits'
  <2>1. \A t \in RunEvents : WaitsRun(t)' <=> WaitsRun(t)
    BY <1>1, <1>5 DEF WaitsRun, RunEvents
  <2> QED
    BY <1>1, <1>6, <2>1 DEF RunInv, QueueInv, RunWaits, RunEvents, runVars
<1>9. PhasesWait'
  <2>1. ASSUME NEW e \in Pending, e.type \in PhaseEvents PROVE PhaseFits(e)'
    <3>1. PhaseFits(e) /\ e.phase \in Phases
      BY <2>1, PhasesWaiting DEF RunInv, QueueInv, PhasesWait, PhaseFits
    <3>2. e.type = "phase.discovered" => agentPhase'[a] # e.phase
      <4>1. ASSUME e.type = "phase.discovered" PROVE e.phase # p
        BY <1>4, <2>1, <3>1, <4>1 DEF PhaseFits
      <4> QED
        BY <1>3, <3>1, <4>1
    <3>3. e.type = "phase.discovered" =>
            \A b \in Agents : agentPhase'[b] # e.phase
      BY <1>3, <3>1, <3>2 DEF PhaseFits
    <3>4. e.type = "phase.completed" =>
            \A b \in Agents : agentPhase'[b] = e.phase /\ b \notin ended => stage'[b] = "admitting"
      <4>1. stage'[a] = "admitting" \/ agentPhase'[a] # e.phase
        BY <1>3, <3>1
      <4> QED
        BY <1>1, <1>3, <3>1, <4>1 DEF PhaseFits
    <3>5. Waits("phase.failed", e.phase) => Waits("phase.failed", e.phase)'
      BY <1>1 DEF Waits
    <3>6. Discovering(e.phase) => Discovering(e.phase)'
      BY <1>1, <1>6 DEF Discovering, runVars
    <3>7. e.type = "phase.failed" => visited > 0 /\ e.phase = known'[visited]
      BY <1>3, <3>1 DEF PhaseFits, RunInv, StateInv, ControlFits
    <3> QED
      BY <1>1, <1>3, <1>6, <3>1, <3>3, <3>4, <3>5, <3>6, <3>7 DEF PhaseFits, runVars
  <2>2. ASSUME NEW x \in S, x.type \in PhaseEvents PROVE PhaseFits(x)'
    <3>1. x.type = "phase.discovered" /\ x.phase = p /\ stage'[a] = "discovering"
      BY <1>5, <2>2 DEF PhaseEvents
    <3>2. p \in Phases /\ p \notin Known /\ p # Nest /\ inner' = inner
      BY <1>3, <1>4, <3>1, ProjectionAssumption
    <3>3. p \in Known' /\ ~runtime'[p].entered
      BY <1>3, <3>1, <3>2 DEF RunInv, StateInv, PhasesFit
    <3>4. \A b \in Agents : agentPhase'[b] # p
      <4>1. \A b \in Agents : agentPhase[b] # p
        BY <1>3, <3>2 DEF RunInv, StateInv, CallsFit
      <4> QED
        BY <1>3, <3>1, <3>2, <4>1
    <3>5. Discovering(p)'
      BY <1>6, <3>1, <3>2 DEF Discovering
    <3> QED
      BY <3>1, <3>2, <3>3, <3>4, <3>5 DEF PhaseFits
  <2> QED
    BY <1>1, <2>1, <2>2 DEF PhasesWait
<1>10. ControlFits' /\ PhasesFit'
  <2>1. ControlFits'
    BY <1>1, <1>6 DEF RunInv, StateInv, ControlFits, runVars
  <2>2. PhasesFit'
    BY <1>1, <1>3, <1>6 DEF RunInv, StateInv, PhasesFit
  <2> QED
    BY <2>1, <2>2
<1>11. TurnFits'
  <2>1. turn' # Free => ~Busy(Outer)'
    <3>1. ASSUME turn # Free PROVE inner' # inner /\ ~Busy(Outer)
      BY <1>2, <1>4, <3>1 DEF RunInv, StateInv, TurnFits
    <3>2. ASSUME turn # Free PROVE ~Busy(Outer)'
      BY <1>1, <1>6, <3>1, <3>2 DEF Busy
    <3> QED
      BY <1>1, <3>2
  <2>2. current # NoPhase => current \in Phases
    BY DEF RuntimeTypes
  <2>3. turn'.at # "free" => turn'.phase \in Known'
    BY <1>1, <1>6 DEF RunInv, StateInv, TurnFits
  <2> QED
    BY <1>1, <1>3, <2>1, <2>2, <2>3 DEF RunInv, StateInv, TurnFits
<1>12. ChildFits'
  <2>1. child' \in {"none", "discovering", "entering"} => inner' = {}
    BY <1>1, <1>4 DEF RunInv, StateInv, ChildFits
  <2>2. child' \in {"sealing", "over"} => \A b \in inner' : stage'[b] = "over"
    <3>1. child' \in {"sealing", "over"} => inner' = inner
      BY <1>1, <1>4
    <3>2. \A b \in inner : b \in Agents /\ b # a
      BY <1>2 DEF RuntimeTypes
    <3> QED
      BY <1>1, <3>1, <3>2 DEF RunInv, StateInv, ChildFits
  <2> QED
    BY <1>1, <1>3, <1>6, <2>1, <2>2, ProjectionAssumption DEF RunInv, StateInv, ChildFits
<1>13. MainFits'
  <2>1. main \notin {"starting", "declaring"}
    BY <1>4 DEF RunInv, StateInv, MainFits
  <2>2. main \in Returned => inner' # inner
    <3>1. main \in Returned => main # "evaluating"
      BY DEF Returned
    <3> QED
      BY <1>2, <1>4, <3>1
  <2>3. main \in Returned => \A b \in Outer' : stage'[b] = "over"
    BY <1>6, <2>2 DEF RunInv, StateInv, MainFits
  <2> QED
    BY <1>1, <1>3, <2>1, <2>3 DEF RunInv, StateInv, MainFits, runVars
<1>14. RunInv'
  BY <1>1, <1>3, <1>7, <1>8, <1>9, <1>10, <1>11, <1>12, <1>13, StepKeeps
<1>15. RuntimeTypes'
  <2>1. inner' \subseteq Agents
    BY <1>1, <1>4 DEF RuntimeTypes
  <2>2. sequence' \in 0..Cardinality(Agents)
    BY <1>1, <1>2, AgentNumbers
  <2> QED
    BY <1>1, <1>3, <2>1, <2>2 DEF RuntimeTypes, runVars, PhaseRecords
<1> QED
  BY <1>14, <1>15

LEMMA RequestShown ==
  ASSUME RuntimeTypes, view \in Snapshots, RunInv, ViewInv, NEW a, NEW p, NEW S, RequestStep(a, p, S)
  PROVE  ViewInv'
<1>1. /\ a = sequence + 1 /\ a \in Agents /\ view' = view
      /\ UNCHANGED <<attempt, ended>>
      /\ \A b \in Agents \ {a} : stage'[b] = stage[b]
      /\ Pending' = Pending \cup S
  BY DEF RequestStep
<1>2. /\ stage[a] = "idle" /\ a \notin ended /\ a \in Nat
      /\ \A e \in Pending : e.type \in CallTypes => e.agent # a
  BY <1>1, Unasked
<1>3. /\ stage'[a] \in {"admitting", "discovering"}
      /\ \A b \in Agents \ {a} : agentPhase'[b] = agentPhase[b]
      /\ \A q \in Phases :
           /\ runtime'[q].entered = runtime[q].entered
           /\ runtime'[q].sealed = runtime[q].sealed
           /\ runtime'[q].over = runtime[q].over
      /\ Known' = IF stage'[a] = "admitting" THEN Known ELSE Known \cup {p}
      /\ p \in Phases \cup {NoPhase} /\ stage'[a] = "discovering" => p \in Phases /\ p \notin Known
  BY RequestFacts
<1>4. p \in Phases \cup {NoPhase} /\ (inner' = inner \/ inner' = inner \cup {a})
  BY ProjectionAssumption DEF RequestStep, OwnCall, NestedCall
<1>5. /\ \A x \in S : \/ /\ x.type = "agent.admitted" /\ x.agent = a /\ x.callIndex = a - 1
                         /\ stage'[a] = "admitting"
                      \/ x.type = "phase.discovered" /\ x.phase = p /\ stage'[a] = "discovering"
      /\ \E x : x \in S
  BY DEF RequestStep, OwnCall, NestedCall, Joined, Names
<1>6. PhasesShown'
  <2>1. PICK Q, V : Q = Pending /\ V = view.phases
    OBVIOUS
  <2>2. \A q \in Phases : Shown(view'.phases, Q, q)
    <3>1. \A q \in Phases : Shown(view.phases, Pending, q)
      BY ShownNow DEF ViewInv
    <3> QED
      BY <1>1, <2>1, <3>1
  <2>3. Announces(S)
    <3>1. \A q : /\ WaitsIn(S, "phase.discovered", q) <=> stage'[a] = "discovering" /\ q = p
                 /\ ~WaitsIn(S, "phase.entered", q) /\ ~WaitsIn(S, "phase.completed", q)
                 /\ ~WaitsIn(S, "phase.failed", q)
      BY <1>3, <1>5 DEF WaitsIn
    <3> QED
      BY <1>3, <1>4, <3>1 DEF Announces
  <2>4. \A t \in PhaseEvents, q \in Phases : Waits(t, q)' <=> WaitsIn(Q, t, q) \/ WaitsIn(S, t, q)
    BY <1>1, <2>1 DEF Waits, WaitsIn
  <2> QED
    BY <2>2, <2>3, <2>4, AnnouncedShown
<1>7. \A t \in CallTypes, b \in Agents \ {a} : Asks(t, b)' <=> Asks(t, b)
  BY <1>1, <1>5 DEF Asks, CallTypes
<1>8. ~Admitted(view, a) /\ (a \in ended <=> view.agents[a] \in TerminalAgent)
  BY <1>1, <1>2 DEF ViewInv, AgentsShown
<1>9. AgentsShown'
  <2>1. ASSUME NEW b \in Agents
        PROVE  /\ stage'[b] \in {"idle", "discovering", "admitting"} => ~Admitted(view, b)
               /\ stage'[b] \in {"queueing", "answering"} \cup Working => Admitted(view, b)
               /\ b \in inner' /\ stage'[b] # "admitting" => Admitted(view, b)
               /\ Admitted(view, b) => view.phaseOf[b] = agentPhase'[b]
               /\ b \in ended <=> view.agents[b] \in TerminalAgent
    <3>1. CASE b = a
      <4>1. a \in inner' => stage'[a] = "admitting"
        BY <1>1, Unasked DEF RequestStep, OwnCall, NestedCall, Joined
      <4> QED
        BY <1>3, <1>8, <3>1, <4>1 DEF Working
    <3>2. CASE b # a
      <4>1. b \in inner' <=> b \in inner
        BY <1>4, <3>2
      <4> QED
        BY <1>1, <1>3, <3>2, <4>1 DEF ViewInv, AgentsShown
    <3> QED
      BY <3>1, <3>2
  <2> QED
    BY <1>1, <2>1 DEF AgentsShown
<1>10. IndicesShown'
  BY <1>1 DEF ViewInv, IndicesShown
<1>11. AttemptsShown'
  <2>1. ASSUME NEW b \in Agents PROVE AttemptShown(b)'
    <3>1. AttemptShown(b)
      BY DEF ViewInv, AttemptsShown
    <3>2. CASE b = a
      BY <1>1, <1>2, <1>3, <3>1, <3>2 DEF AttemptShown, Accepting, Open
    <3>3. CASE b # a
      <4>1. /\ stage'[b] = stage[b] /\ (Asks("agent.started", b)' <=> Asks("agent.started", b))
            /\ (Asks("agent.failed", b)' <=> Asks("agent.failed", b))
        BY <1>1, <1>7, <3>3 DEF CallTypes
      <4> QED
        BY <1>1, <3>1, <4>1 DEF AttemptShown
    <3> QED
      BY <3>2, <3>3
  <2> QED
    BY <2>1 DEF AttemptsShown
<1>12. CallsShown'
  <2>1. ASSUME NEW e \in Pending, e.type \in CallTypes PROVE EventShown(e)'
    <3>1. EventShown(e)
      BY <2>1 DEF ViewInv, CallsShown
    <3>2. PICK b : b = e.agent
      OBVIOUS
    <3>3. /\ attempt'[b] = attempt[b] /\ view'.attempts[b] = view.attempts[b]
          /\ Admitted(view, b) => Admitted(view', b)
      BY <1>1
    <3>4. \A c \in Agents : Admitted(view, c) \/ Asks("agent.admitted", c) =>
            Admitted(view', c) \/ Asks("agent.admitted", c)'
      BY <1>1 DEF Asks
    <3> QED
      BY <3>1, <3>2, <3>3, <3>4, EventStays
  <2>2. ASSUME NEW x \in S, x.type \in CallTypes PROVE EventShown(x)'
    <3>1. x.type = "agent.admitted" /\ x.agent = a /\ x.callIndex = a - 1
      BY <1>5, <2>2 DEF CallTypes
    <3> QED
      BY <3>1 DEF EventShown, AttemptEvents, EitherEvents
  <2> QED
    BY <1>1, <2>1, <2>2 DEF CallsShown
<1> QED
  BY <1>1, <1>6, <1>9, <1>10, <1>11, <1>12 DEF ViewInv

LEMMA RequestKeeps ==
  ASSUME RuntimeTypes, view \in Snapshots, RunInv, Request
  PROVE  Kept
<1>1. PICK a, p, S : RequestStep(a, p, S)
  BY RequestSteps
<1>2. RunInv' /\ RuntimeTypes'
  BY <1>1, RequestRuns
<1>3. ViewInv => ViewInv'
  BY <1>1, RequestShown
<1> QED
  BY <1>2, <1>3 DEF Kept

-------------------------------------------------------------------------------
(* What one event of the queue leaves to read, the last of the run included.   *)

\* NothingLeftOpen of a snapshot.
Settled(s) ==
  \A a \in Agents :
    Admitted(s, a) /\ ~(s.status = "completed" /\ s.phaseOf[a] = Nest /\ s.phases[Nest] = "running") =>
      /\ s.agents[a] \in TerminalAgent => \A n \in Attempts : s.attempts[a][n] \notin Unresolved
      /\ s.status \in TerminalRun => s.agents[a] \in TerminalAgent

\* It is NothingLeftOpen of the snapshot as it is.
LEMMA SettledNow == NothingLeftOpen <=> Settled(view)
BY DEF NothingLeftOpen, Settled, Lost

\* FinalsStay and PhaseTruth of two snapshots.
FinalsKept(s, t) == \A a \in Agents : s.agents[a] \in TerminalAgent => t.agents[a] = s.agents[a]
PhasesTrue(s, t) ==
  /\ \A p \in Phases : s.phases[p] # "completed" /\ t.phases[p] = "completed" =>
       \A a \in Members(t, p) : t.agents[a] \in TerminalAgent
  /\ t.status = "completed" => \A p \in Phases : t.phases[p] = "running" => p = Nest
ReadsWell(s, t) == t \in Snapshots /\ FinalsKept(s, t) /\ PhasesTrue(s, t)

\* While the run is shown as it is, nothing is left open.
LEMMA ShownSettled ==
  ASSUME RuntimeTypes, ViewInv
  PROVE  NothingLeftOpen
<1>1. ASSUME NEW a \in Agents, view.agents[a] \in TerminalAgent, NEW n \in Attempts
      PROVE  view.attempts[a][n] \notin Unresolved
  <2>1. a \in ended /\ AttemptShown(a)
    BY <1>1 DEF ViewInv, AgentsShown, AttemptsShown
  <2>2. attempt[a] \in Nat /\ n \in Nat /\ "absent" \notin Unresolved
    BY DEF RuntimeTypes, Attempts, Unresolved
  <2>3. n < attempt[a] \/ n = attempt[a] \/ attempt[a] < n
    BY <1>1, <2>2
  <2>4. CASE n < attempt[a]
    BY <2>1, <2>4 DEF AttemptShown
  <2>5. CASE n = attempt[a]
    BY <2>1, <2>5 DEF AttemptShown
  <2>6. CASE attempt[a] < n
    BY <2>1, <2>2, <2>6 DEF AttemptShown
  <2> QED
    BY <2>3, <2>4, <2>5, <2>6
<1> QED
  BY <1>1 DEF NothingLeftOpen, ViewInv

\* What closeNonterminalAgents closes, and what it leaves.
LEMMA CloseFacts ==
  ASSUME NEW s \in Snapshots, NEW status \in {"failed", "cancelled"},
         NEW t, t = closeNonterminalAgents(s, status)
  PROVE  /\ t \in Snapshots
         /\ t.status = s.status /\ t.phases = s.phases /\ t.phaseOf = s.phaseOf
         /\ \A a \in Agents :
              t.agents[a] = IF Admitted(s, a) /\ s.agents[a] \notin TerminalAgent THEN status
                            ELSE s.agents[a]
         /\ \A a \in Agents, n \in Attempts :
              t.attempts[a][n] =
                IF /\ Admitted(s, a) /\ s.agents[a] \notin TerminalAgent
                   /\ s.attempts[a][n] \in Unresolved
                THEN status ELSE s.attempts[a][n]
<1>1. PICK open : open = {a \in Agents : Admitted(s, a) /\ s.agents[a] \notin TerminalAgent}
  OBVIOUS
<1>2. PICK g : g = [a \in Agents |-> IF a \in open THEN status ELSE s.agents[a]]
  OBVIOUS
<1>3. PICK m : m = [a \in Agents |-> [n \in Attempts |->
                      IF a \in open /\ s.attempts[a][n] \in Unresolved THEN status
                      ELSE s.attempts[a][n]]]
  OBVIOUS
<1>4. PICK x : x = IF status = "failed" THEN s.error \cup open ELSE s.error
  OBVIOUS
<1>5. t = [s EXCEPT !.agents = g, !.attempts = m, !.error = x]
  BY <1>1, <1>2, <1>3, <1>4 DEF closeNonterminalAgents, Snapshots
<1>6. status \in AgentStatuses /\ status \in AttemptStatuses
  BY DEF AgentStatuses, AttemptStatuses
<1>7. g \in [Agents -> AgentStatuses]
  BY <1>2, <1>6 DEF Snapshots
<1>8. m \in [Agents -> [Attempts -> AttemptStatuses]]
  BY <1>3, <1>6 DEF Snapshots
<1>9. x \in SUBSET Agents
  BY <1>1, <1>4 DEF Snapshots
<1>10. /\ t \in Snapshots
       /\ t.status = s.status /\ t.phases = s.phases /\ t.phaseOf = s.phaseOf
       /\ t.agents = g /\ t.attempts = m
  BY <1>5, <1>7, <1>8, <1>9 DEF Snapshots
<1> QED
  BY <1>1, <1>2, <1>3, <1>10

\* The ends that close what is open.
LEMMA EndApplied ==
  ASSUME NEW s \in Snapshots, Settled(s), s.status \notin TerminalRun,
         NEW e \in {"run.failed", "run.cancelled", "run.interrupted"}, NEW t, t = ApplyRun(s, e)
  PROVE  Settled(t) /\ ReadsWell(s, t)
<1>1. PICK r, x, status :
        /\ x \in {"failed", "cancelled", "interrupted"} /\ status \in {"failed", "cancelled"}
        /\ r = [s EXCEPT !.status = x] /\ t = closeNonterminalAgents(r, status)
  <2>1. CASE e = "run.failed"
    BY <2>1 DEF ApplyRun
  <2>2. CASE e = "run.cancelled"
    BY <2>2 DEF ApplyRun
  <2>3. CASE e = "run.interrupted"
    BY <2>3 DEF ApplyRun
  <2> QED
    BY <2>1, <2>2, <2>3
<1>2. /\ r \in Snapshots /\ r.status = x /\ r.phases = s.phases /\ r.phaseOf = s.phaseOf
      /\ r.agents = s.agents /\ r.attempts = s.attempts
  BY <1>1 DEF Snapshots, RunStatuses
<1>a. r \in Snapshots /\ status \in {"failed", "cancelled"} /\ t = closeNonterminalAgents(r, status)
  BY <1>1, <1>2
<1>3. /\ t \in Snapshots
      /\ t.status = r.status /\ t.phases = r.phases /\ t.phaseOf = r.phaseOf
      /\ \A a \in Agents :
           t.agents[a] = IF Admitted(r, a) /\ r.agents[a] \notin TerminalAgent THEN status
                         ELSE r.agents[a]
      /\ \A a \in Agents, n \in Attempts :
           t.attempts[a][n] =
             IF /\ Admitted(r, a) /\ r.agents[a] \notin TerminalAgent
                /\ r.attempts[a][n] \in Unresolved
             THEN status ELSE r.attempts[a][n]
  BY <1>a, CloseFacts
<1>4. \A a : Admitted(r, a) <=> Admitted(s, a)
  BY <1>2 DEF Admitted
<1>5. t.status # "completed" /\ s.status # "completed"
  BY <1>1, <1>2, <1>3 DEF TerminalRun
<1>6. status \in TerminalAgent /\ status \notin Unresolved /\ status # "absent"
  BY <1>1 DEF TerminalAgent, Unresolved
<1>7. ASSUME NEW a \in Agents, Admitted(t, a)
      PROVE  /\ t.agents[a] \in TerminalAgent
             /\ \A n \in Attempts : t.attempts[a][n] \notin Unresolved
  <2>1. Admitted(s, a)
    BY <1>2, <1>3, <1>4, <1>6, <1>7 DEF Admitted
  <2>2. CASE s.agents[a] \in TerminalAgent
    <3>1. \A n \in Attempts : s.attempts[a][n] \notin Unresolved
      BY <1>5, <2>1, <2>2 DEF Settled
    <3> QED
      BY <1>2, <1>3, <2>2, <3>1
  <2>3. CASE s.agents[a] \notin TerminalAgent
    BY <1>2, <1>3, <1>4, <1>6, <2>1, <2>3
  <2> QED
    BY <2>2, <2>3
<1>8. Settled(t)
  BY <1>7 DEF Settled
<1>9. FinalsKept(s, t)
  BY <1>2, <1>3 DEF FinalsKept
<1>10. PhasesTrue(s, t)
  BY <1>2, <1>3, <1>5 DEF PhasesTrue
<1> QED
  BY <1>3, <1>8, <1>9, <1>10 DEF ReadsWell

\* A new status of the run that is not its end.
LEMMA StatusRead ==
  ASSUME NEW s \in Snapshots, Settled(s), s.status \notin TerminalRun,
         NEW x \in RunStatuses \ TerminalRun, NEW t, t = [s EXCEPT !.status = x]
  PROVE  Settled(t) /\ ReadsWell(s, t)
<1>1. /\ t \in Snapshots /\ t.status = x /\ t.phases = s.phases /\ t.phaseOf = s.phaseOf
      /\ t.agents = s.agents /\ t.attempts = s.attempts
  BY DEF Snapshots
<1>2. t.status # "completed" /\ s.status # "completed" /\ t.status \notin TerminalRun
  BY <1>1 DEF TerminalRun
<1>3. Settled(t)
  BY <1>1, <1>2 DEF Settled, Admitted
<1>4. FinalsKept(s, t)
  BY <1>1 DEF FinalsKept
<1>5. PhasesTrue(s, t)
  BY <1>1, <1>2 DEF PhasesTrue
<1> QED
  BY <1>1, <1>3, <1>4, <1>5 DEF ReadsWell

\* Where a run that completes has left its calls and its phases.
LEMMA CompletingFacts ==
  ASSUME RuntimeTypes, RunInv, ViewInv, main = "completing"
  PROVE  /\ \A a \in Agents : Admitted(view, a) /\ a \notin ended =>
              view.phaseOf[a] = Nest /\ view.phases[Nest] = "running"
         /\ \A p \in Phases : view.phases[p] = "running" => p = Nest
<1>1. ~aborted /\ ending = "none" /\ child \notin Nested /\ turn = Free
      /\ \A a \in Outer : stage[a] = "over"
  BY DEF RunInv, StateInv, ControlFits, MainFits, Returned, aborted
<1>2. \A p \in Phases \ {Nest} : runtime[p].entered => runtime[p].over
  BY DEF RunInv, StateInv, MainFits, Returned
<1>3. \A p \in Phases : ~Waits("phase.failed", p)
  BY <1>1 DEF RunInv, QueueInv, FailuresWait
<1>4. ASSUME NEW p \in Phases, view.phases[p] = "running", p # Nest
      PROVE  FALSE
  <2>1. runtime[p].entered /\ ~Waits("phase.entered", p)
    BY <1>4 DEF ViewInv, PhasesShown
  <2>2. Waits("phase.completed", p)
    BY <1>2, <1>3, <1>4, <2>1 DEF ViewInv, PhasesShown
  <2> QED
    BY <1>1, <1>4, <2>2 DEF RunInv, QueueInv, CompletionsWait, Free
<1>5. ASSUME NEW a \in Agents, Admitted(view, a), a \notin ended
      PROVE  view.phaseOf[a] = Nest /\ view.phases[Nest] = "running"
  <2>1. stage[a] # "idle" /\ stage[a] # "admitting" /\ stage[a] # "discovering"
    BY <1>5 DEF ViewInv, AgentsShown
  <2>2. a \in 1..sequence
    BY <2>1, AgentNumbers DEF RunInv, StateInv, CallsFit, RuntimeTypes
  <2>3. a \in inner /\ agentPhase[a] = Nest /\ inner # {}
    BY <1>1, <1>5, <2>2 DEF Outer, RunInv, StateInv, StagesFit, CallsFit
  <2>4. child \notin {"none", "discovering", "entering"}
    BY <2>3 DEF RunInv, StateInv, ChildFits
  <2>5. child = "dead"
    <3>1. child \in {"none", "over", "dead"}
      BY <1>1 DEF RuntimeTypes
    <3>2. child = "over" => stage[a] = "over"
      BY <2>3 DEF RunInv, StateInv, ChildFits
    <3>3. stage[a] = "over" => child = "dead"
      BY <1>1, <1>5 DEF RunInv, StateInv, StagesFit
    <3> QED
      BY <2>4, <3>1, <3>2, <3>3
  <2>6. Nest \in Phases
    BY ProjectionAssumption
  <2>7. runtime[Nest].entered /\ ~runtime[Nest].sealed
    BY <2>5 DEF RunInv, StateInv, ChildFits
  <2>8. ~runtime[Nest].over
    BY <1>1, <2>6, <2>7 DEF RunInv, StateInv, PhasesFit
  <2>9. ~Waits("phase.entered", Nest)
    BY <2>5, <2>6 DEF RunInv, QueueInv, EntriesWait
  <2>10. view.phases[Nest] = "running"
    BY <2>6, <2>7, <2>8, <2>9 DEF ViewInv, PhasesShown
  <2> QED
    BY <1>5, <2>3, <2>10 DEF ViewInv, AgentsShown
<1> QED
  BY <1>4, <1>5

\* run.completed closes nothing, and finds nothing to close.
LEMMA CompletedRead ==
  ASSUME RuntimeTypes, view \in Snapshots, RunInv, ViewInv, NEW h \in Pending,
         h.type = "run.completed", NEW t, t = [view EXCEPT !.status = "completed"]
  PROVE  Settled(t) /\ ReadsWell(view, t)
<1>1. main = "completing"
  BY DEF RunInv, QueueInv, RunWaits, WaitsRun
<1>2. /\ t \in Snapshots /\ t.status = "completed" /\ t.phases = view.phases
      /\ t.phaseOf = view.phaseOf /\ t.agents = view.agents /\ t.attempts = view.attempts
  BY DEF Snapshots, RunStatuses
<1>3. Settled(view) /\ view.status # "completed"
  BY ShownSettled, SettledNow DEF ViewInv, TerminalRun
<1>4. ASSUME NEW a \in Agents, Admitted(t, a),
             ~(t.status = "completed" /\ t.phaseOf[a] = Nest /\ t.phases[Nest] = "running")
      PROVE  /\ t.agents[a] \in TerminalAgent
             /\ \A n \in Attempts : t.attempts[a][n] \notin Unresolved
  <2>1. Admitted(view, a) /\ a \in ended
    BY <1>1, <1>2, <1>4, CompletingFacts DEF Admitted
  <2>2. view.agents[a] \in TerminalAgent
    BY <2>1 DEF ViewInv, AgentsShown
  <2> QED
    BY <1>2, <1>3, <2>1, <2>2 DEF Settled
<1>5. Settled(t)
  BY <1>4 DEF Settled
<1>6. FinalsKept(view, t)
  BY <1>2 DEF FinalsKept
<1>7. PhasesTrue(view, t)
  BY <1>1, <1>2, CompletingFacts DEF PhasesTrue
<1> QED
  BY <1>2, <1>5, <1>6, <1>7 DEF ReadsWell

\* The events of phases: a completed one finds its agents ended.
LEMMA PhaseEventRead ==
  ASSUME RuntimeTypes, view \in Snapshots, RunInv, ViewInv, NEW h \in Pending,
         h.type \in PhaseEvents, NEW t, t = [view EXCEPT !.phases[h.phase] = PhaseStatusAfter[h.type]]
  PROVE  Settled(t) /\ ReadsWell(view, t)
<1>0. h.phase \in Phases
  BY DEF RunInv, QueueInv, PhaseNames
<1>1. PICK x : x = PhaseStatusAfter[h.type]
  OBVIOUS
<1>2. x \in PhaseStatuses /\ (x = "completed" => h.type = "phase.completed")
  BY <1>1 DEF PhaseStatusAfter, PhaseEvents, PhaseStatuses
<1>3. /\ t \in Snapshots /\ t.status = view.status
      /\ t.phases = [view.phases EXCEPT ![h.phase] = x]
      /\ t.phaseOf = view.phaseOf /\ t.agents = view.agents /\ t.attempts = view.attempts
  BY <1>0, <1>1, <1>2 DEF Snapshots
<1>4. Settled(view) /\ view.status # "completed"
  BY ShownSettled, SettledNow DEF ViewInv, TerminalRun
<1>5. Settled(t)
  BY <1>3, <1>4 DEF Settled, Admitted
<1>6. FinalsKept(view, t)
  BY <1>3 DEF FinalsKept
<1>7. ASSUME NEW p \in Phases, view.phases[p] # "completed", t.phases[p] = "completed",
             NEW a \in Members(t, p)
      PROVE  t.agents[a] \in TerminalAgent
  <2>1. view.phases \in [Phases -> PhaseStatuses]
    BY DEF Snapshots
  <2>2. p = h.phase /\ x = "completed"
    BY <1>0, <1>3, <1>7, <2>1
  <2>3. Waits("phase.completed", p)
    BY <1>2, <2>2 DEF Waits
  <2>4. a \in Agents /\ Admitted(view, a) /\ agentPhase[a] = p
    BY <1>3, <1>7 DEF Members, Admitted, ViewInv, AgentsShown
  <2>5. a \in ended \/ stage[a] = "admitting"
    BY <2>3, <2>4 DEF RunInv, QueueInv, CompletionsWait
  <2>6. stage[a] # "admitting"
    BY <2>4 DEF ViewInv, AgentsShown
  <2> QED
    BY <1>3, <2>4, <2>5, <2>6 DEF ViewInv, AgentsShown
<1>8. PhasesTrue(view, t)
  BY <1>3, <1>4, <1>7 DEF PhasesTrue
<1> QED
  BY <1>3, <1>5, <1>6, <1>8 DEF ReadsWell

\* An admission: its agent had no end, and has none.
LEMMA AdmissionRead ==
  ASSUME RuntimeTypes, view \in Snapshots, RunInv, ViewInv, NEW h \in Pending,
         h.type = "agent.admitted", Accepts(view, h), NEW t, t = WithAdmission(view, h)
  PROVE  Settled(t) /\ ReadsWell(view, t)
<1>1. PICK s : s = view
  OBVIOUS
<1>2. PICK a : a = h.agent
  OBVIOUS
<1>3. CallFits(h)
  BY DEF RunInv, QueueInv, CallsWait, CallTypes
<1>4. a \in Agents /\ h.phase \in Phases \cup {NoPhase}
  BY <1>2, <1>3 DEF CallFits, RuntimeTypes
<1>5. h.callIndex \in 0..Cardinality(Agents)
  <2>1. h.callIndex \in Nat /\ h.callIndex + 1 \in 1..sequence /\ sequence \in 0..Cardinality(Agents)
    BY <1>3 DEF CallFits, RuntimeTypes
  <2> QED
    BY <2>1, AgentNumbers
<1>6. s.agents[a] = "absent"
  BY <1>1, <1>2 DEF Accepts, Admitted
<1>7. "admitted" \in AgentStatuses /\ "admitted" \notin TerminalAgent /\ "absent" \notin TerminalAgent
  BY DEF AgentStatuses, TerminalAgent
<1>8. /\ t \in Snapshots
      /\ t.status = s.status /\ t.phases = s.phases /\ t.attempts = s.attempts
      /\ t.agents = [s.agents EXCEPT ![a] = "admitted"]
      /\ t.phaseOf = [s.phaseOf EXCEPT ![a] = h.phase]
  BY <1>1, <1>2, <1>4, <1>5, <1>7 DEF Snapshots, WithAdmission
<1>9. Settled(s) /\ s.status \notin TerminalRun /\ s.status # "completed"
  BY <1>1, ShownSettled, SettledNow DEF ViewInv, TerminalRun
<1>10. s.agents \in [Agents -> AgentStatuses]
  BY <1>1 DEF Snapshots
<1>11. \A b \in Agents : b # a => t.agents[b] = s.agents[b]
  BY <1>4, <1>8, <1>10
<1>12. t.agents[a] = "admitted"
  BY <1>4, <1>8, <1>10
<1>13. ASSUME NEW b \in Agents, t.agents[b] \in TerminalAgent
       PROVE  \A n \in Attempts : t.attempts[b][n] \notin Unresolved
  <2>1. b # a
    BY <1>7, <1>12, <1>13
  <2>2. s.agents[b] \in TerminalAgent
    BY <1>11, <1>13, <2>1
  <2>3. Admitted(s, b)
    BY <1>7, <2>2 DEF Admitted
  <2> QED
    BY <1>8, <1>9, <2>2, <2>3 DEF Settled
<1>14. Settled(t)
  BY <1>8, <1>9, <1>13 DEF Settled
<1>15. FinalsKept(s, t)
  BY <1>6, <1>7, <1>11 DEF FinalsKept
<1>16. PhasesTrue(s, t)
  BY <1>8, <1>9 DEF PhasesTrue
<1> QED
  BY <1>1, <1>8, <1>14, <1>15, <1>16 DEF ReadsWell

\* A last event leaves no attempt of its agent open.
LEMMA FinalCloses ==
  ASSUME RuntimeTypes, ViewInv, NEW h, IsFinal(h), h \in Pending, CallFits(h),
         h.type \in CallTypes \ {"agent.admitted"},
         NEW a \in Agents, a = h.agent, NEW t, CallChange(h, view, t), NEW m \in Attempts
  PROVE  t.attempts[a][m] \notin Unresolved
<1>0. PICK n : n = attempt[a]
  OBVIOUS
<1>1. n \in Attempts /\ n # 0 /\ 0 \notin Attempts /\ AttemptShown(a) /\ EventShown(h)
  BY <1>0 DEF RuntimeTypes, Attempts, ViewInv, AttemptsShown, CallsShown
<1>2. h.type \in Attempting => h.attempt \in {0, n}
  BY <1>0 DEF CallFits, Attempting
<1>3. CASE m # n
  <2>1. t.attempts[a][m] = view.attempts[a][m]
    BY <1>1, <1>2, <1>3 DEF CallChange
  <2>2. n \in Nat /\ m \in Nat
    BY <1>1 DEF Attempts
  <2>3. m < n \/ n < m
    BY <1>3, <2>2
  <2>4. view.attempts[a][m] \notin Unresolved
    BY <1>0, <1>1, <2>3 DEF AttemptShown, Unresolved
  <2> QED
    BY <2>1, <2>4
<1>4. CASE m = n
  <2>1. CASE h.type = "agent.reused"
    <3>1. stage[a] = "answering" /\ h.type \notin Attempting
      BY <2>1 DEF CallFits, Attempting
    <3>2. view.attempts[a][n] = "absent"
      BY <1>0, <1>1, <3>1 DEF AttemptShown, Accepting
    <3>3. t.attempts[a][n] = view.attempts[a][n]
      BY <1>1, <3>1 DEF CallChange
    <3> QED
      BY <1>4, <3>2, <3>3 DEF Unresolved
  <2>2. CASE h.type # "agent.reused" /\ h.attempt = 0
    <3>1. h.type \in EitherEvents
      BY <1>0, <1>1, <2>2 DEF CallFits, EitherEvents, IsFinal, CallTypes
    <3>2. view.attempts[a][n] \notin Unresolved
      BY <1>0, <1>1, <2>2, <3>1 DEF EventShown
    <3>3. t.attempts[a][n] = view.attempts[a][n]
      BY <1>1, <2>2 DEF CallChange
    <3> QED
      BY <1>4, <3>2, <3>3
  <2>3. CASE h.type # "agent.reused" /\ h.attempt # 0
    <3>1. h.type \in Closers /\ h.type \in Attempting
      BY <2>3 DEF IsFinal, CallTypes, Closers, Attempting
    <3>2. h.attempt = n
      BY <1>2, <2>3, <3>1
    <3> QED
      BY <1>1, <1>4, <2>3, <3>1, <3>2 DEF CallChange
  <2> QED
    BY <2>1, <2>2, <2>3
<1> QED
  BY <1>3, <1>4

\* What a call's event leaves to read of the agents.
LEMMA CallRead ==
  ASSUME RuntimeTypes, view \in Snapshots, RunInv, ViewInv, NEW h \in Pending, CallFits(h),
         h.type \in CallTypes \ {"agent.admitted"}, NEW t, CallChange(h, view, t)
  PROVE  /\ Settled(t) /\ FinalsKept(view, t) /\ t \in Snapshots
         /\ t.status = view.status /\ t.phases = view.phases /\ t.phaseOf = view.phaseOf
         /\ \A a \in Agents : a \in ended => t.agents[a] \in TerminalAgent
         /\ IsFinal(h) => t.agents[h.agent] \in TerminalAgent
<1>1. h.agent \in Agents /\ h.agent \notin ended
  BY DEF CallFits
<1>2. /\ t \in Snapshots /\ t.status = view.status /\ t.phases = view.phases
      /\ t.phaseOf = view.phaseOf
      /\ \A b \in Agents : b # h.agent => t.agents[b] = view.agents[b]
      /\ \A b \in Agents, m \in Attempts : b # h.agent => t.attempts[b][m] = view.attempts[b][m]
  BY DEF CallChange, SameButAgents
<1>3. \A a \in Agents : a \in ended <=> view.agents[a] \in TerminalAgent
  BY DEF ViewInv, AgentsShown
<1>4. view.agents[h.agent] \notin TerminalAgent
  BY <1>1, <1>3
<1>5. FinalsKept(view, t)
  BY <1>2, <1>4 DEF FinalsKept
<1>6. IsFinal(h) => t.agents[h.agent] \in TerminalAgent
  BY DEF CallChange
<1>7. ~IsFinal(h) => t.agents[h.agent] \notin TerminalAgent
  BY <1>4 DEF CallChange, TerminalAgent
<1>8. Settled(view) /\ view.status \notin TerminalRun /\ view.status # "completed"
  BY ShownSettled, SettledNow DEF ViewInv, TerminalRun
<1>9. ASSUME NEW a \in Agents, t.agents[a] \in TerminalAgent, NEW n \in Attempts
      PROVE  t.attempts[a][n] \notin Unresolved
  <2>1. CASE a = h.agent
    <3>1. IsFinal(h)
      BY <1>7, <1>9, <2>1
    <3> QED
      BY <2>1, <3>1, FinalCloses
  <2>2. CASE a # h.agent
    <3>1. view.agents[a] \in TerminalAgent /\ t.attempts[a][n] = view.attempts[a][n]
      BY <1>2, <1>9, <2>2
    <3>2. Admitted(view, a)
      BY <3>1 DEF Admitted, TerminalAgent
    <3> QED
      BY <1>8, <3>1, <3>2 DEF Settled
  <2> QED
    BY <2>1, <2>2
<1>10. Settled(t)
  BY <1>2, <1>8, <1>9 DEF Settled
<1>11. \A a \in Agents : a \in ended => t.agents[a] \in TerminalAgent
  BY <1>1, <1>2, <1>3
<1> QED
  BY <1>2, <1>5, <1>6, <1>10, <1>11

\* So for whatever is at the head of the queue.
LEMMA HeadApplied ==
  ASSUME RuntimeTypes, view \in Snapshots, RunInv, ViewInv, NEW h \in Pending,
         Accepts(view, h), NEW t, t = Apply(view, h)
  PROVE  Settled(t) /\ ReadsWell(view, t)
<1>1. h.type \in RunEvents \cup PhaseEvents \cup CallTypes
  BY Typed DEF RunInv, QueueInv
<1>2. Settled(view) /\ view.status \notin TerminalRun
  BY ShownSettled, SettledNow DEF ViewInv
<1>3. CASE h.type \in RunEvents
  <2>1. t = ApplyRun(view, h.type)
    BY <1>3, RunApplied
  <2>2. CASE h.type = "run.started"
    <3>1. t = [view EXCEPT !.status = "running"] /\ "running" \in RunStatuses \ TerminalRun
      BY <2>1, <2>2 DEF ApplyRun, RunStatuses, TerminalRun
    <3> QED
      BY <1>2, <3>1, StatusRead
  <2>3. CASE h.type = "run.cancellation_requested"
    <3>1. /\ t = [view EXCEPT !.status = "cancellation_requested"]
          /\ "cancellation_requested" \in RunStatuses \ TerminalRun
      BY <2>1, <2>3 DEF ApplyRun, RunStatuses, TerminalRun
    <3> QED
      BY <1>2, <3>1, StatusRead
  <2>4. CASE h.type = "run.completed"
    <3>1. t = [view EXCEPT !.status = "completed"]
      BY <2>1, <2>4 DEF ApplyRun
    <3> QED
      BY <2>4, <3>1, CompletedRead
  <2>5. CASE h.type \in {"run.failed", "run.cancelled", "run.interrupted"}
    BY <1>2, <2>1, <2>5, EndApplied
  <2> QED
    BY <1>3, <2>2, <2>3, <2>4, <2>5 DEF RunEvents
<1>4. CASE h.type \in PhaseEvents
  <2>1. t = [view EXCEPT !.phases[h.phase] = PhaseStatusAfter[h.type]]
    BY <1>4, PhaseApplied
  <2> QED
    BY <1>4, <2>1, PhaseEventRead
<1>5. CASE h.type = "agent.admitted"
  <2>1. t = WithAdmission(view, h)
    BY <1>5, AdmissionApplied
  <2> QED
    BY <1>5, <2>1, AdmissionRead
<1>6. CASE h.type \in CallTypes \ {"agent.admitted"}
  <2>1. CallFits(h)
    BY <1>6 DEF RunInv, QueueInv, CallsWait
  <2>2. CallChange(h, view, t)
    BY <1>6, <2>1, CallApplied
  <2>3. /\ Settled(t) /\ FinalsKept(view, t) /\ t \in Snapshots
        /\ t.status = view.status /\ t.phases = view.phases
    BY <1>6, <2>1, <2>2, CallRead
  <2>4. PhasesTrue(view, t)
    BY <1>2, <2>3 DEF PhasesTrue, TerminalRun
  <2> QED
    BY <2>3, <2>4 DEF ReadsWell
<1> QED
  BY <1>1, <1>3, <1>4, <1>5, <1>6

\* The last agent of a phase finds the others ended.
LEMMA LastOfPhase ==
  ASSUME RuntimeTypes, CountsFit, NEW a \in Agents, a \notin ended, NEW p \in Phases,
         agentPhase[a] = p, ~runtime[p].over, ClosesWith(p), NEW b \in Agents, agentPhase[b] = p
  PROVE  b \in ended \/ b = a
<1>1. PICK S : S = {c \in Agents : agentPhase[c] = p /\ c \notin ended}
  OBVIOUS
<1>2. IsFiniteSet(S)
  BY <1>1, StateAssumption, FS_Subset
<1>3. Cardinality(S) = 1
  BY <1>1 DEF CountsFit, ClosesWith
<1>4. PICK x : S = {x}
  BY <1>2, <1>3, FS_Singleton
<1> QED
  BY <1>1, <1>4

\* The last event of an agent that was the last of its phase, with the completion.
LEMMA PairRead ==
  ASSUME RuntimeTypes, view \in Snapshots, RunInv, ViewInv, rejected = NoEvent,
         NEW h, IsFinal(h), First(h), NEW p \in Phases, agentPhase[h.agent] = p,
         ~runtime[p].over, ClosesWith(p), Replays(<<h, Completed(p)>>)
  PROVE  rejected' = NoEvent /\ Settled(view') /\ ReadsWell(view, view')
<1>1. h \in Pending /\ h.type \in CallTypes \ {"agent.admitted"}
  <2>1. h \in Pending
    BY DEF First
  <2>2. h.type \in RunEvents \cup PhaseEvents \cup CallTypes
    BY <2>1, Typed DEF RunInv, QueueInv
  <2> QED
    BY <2>1, <2>2 DEF IsFinal, RunEvents, PhaseEvents, CallTypes
<1>2. CallFits(h) /\ h.agent \in Agents /\ h.agent \notin ended
  BY <1>1 DEF RunInv, QueueInv, CallsWait, CallFits
<1>3. PICK t : t = [view' EXCEPT !.phases = view.phases]
  OBVIOUS
<1>4. /\ rejected' = NoEvent /\ CallChange(h, view, t) /\ view' \in Snapshots
      /\ view'.phases = [view.phases EXCEPT ![p] = "completed"]
  <2>1. p \in Phases \/ p = NoPhase
    OBVIOUS
  <2>2. PICK done : done = TRUE
    OBVIOUS
  <2>3. done \in BOOLEAN /\ (done => p # NoPhase /\ runtime[p].sealed)
    BY <2>2, StateAssumption DEF ClosesWith
  <2>4. Replays(IF done THEN <<h, Completed(p)>> ELSE <<h>>)
    BY <2>2
  <2>5. /\ rejected' = NoEvent
        /\ CallChange(h, view, [view' EXCEPT !.phases = view.phases])
        /\ view' \in Snapshots
        /\ view'.phases = IF done THEN [view.phases EXCEPT ![p] = "completed"] ELSE view.phases
    BY <1>1, <1>2, <2>1, <2>3, <2>4, FinalRead
  <2> QED
    BY <1>3, <2>2, <2>5
<1>5. /\ Settled(t) /\ FinalsKept(view, t) /\ t.status = view.status /\ t.phaseOf = view.phaseOf
      /\ \A a \in Agents : a \in ended => t.agents[a] \in TerminalAgent
      /\ t.agents[h.agent] \in TerminalAgent
  BY <1>1, <1>2, <1>4, CallRead
<1>6. PICK w : w = view'
  OBVIOUS
<1>7. /\ w \in Snapshots /\ w.status = t.status /\ w.phaseOf = t.phaseOf
      /\ w.agents = t.agents /\ w.attempts = t.attempts
  BY <1>3, <1>4, <1>6 DEF Snapshots
<1>8. view.status \notin TerminalRun /\ view.status # "completed"
  BY DEF ViewInv, TerminalRun
<1>9. Settled(w)
  BY <1>5, <1>7, <1>8 DEF Settled, Admitted
<1>10. FinalsKept(view, w)
  BY <1>5, <1>7 DEF FinalsKept
<1>11. PhasesTrue(view, w)
  <2>1. view.phases \in [Phases -> PhaseStatuses]
    BY DEF Snapshots
  <2>2. ASSUME NEW q \in Phases, view.phases[q] # "completed", w.phases[q] = "completed",
               NEW a \in Members(w, q)
        PROVE  w.agents[a] \in TerminalAgent
    <3>1. q = p
      BY <1>4, <1>6, <2>1, <2>2
    <3>2. a \in Agents /\ w.agents[a] # "absent" /\ view.phaseOf[a] = p
      BY <1>5, <1>7, <2>2, <3>1 DEF Members, Admitted
    <3>3. CASE a = h.agent
      BY <1>5, <1>7, <3>3
    <3>4. CASE a # h.agent
      <4>1. Admitted(view, a)
        BY <1>4, <1>7, <3>2, <3>4 DEF CallChange, Admitted
      <4>2. agentPhase[a] = p
        BY <3>2, <4>1 DEF ViewInv, AgentsShown
      <4>3. a \in ended
        BY <1>2, <3>2, <3>4, <4>2, LastOfPhase DEF RunInv, StateInv
      <4> QED
        BY <1>5, <1>7, <3>2, <4>3
    <3> QED
      BY <3>3, <3>4
  <2> QED
    BY <1>5, <1>7, <1>8, <2>2 DEF PhasesTrue
<1> QED
  BY <1>4, <1>6, <1>7, <1>9, <1>10, <1>11 DEF ReadsWell

\* What any step leaves to read: nothing new, or what is well to read.
Reads ==
  /\ view' \in Snapshots /\ RejectedFits'
  /\ view' = view \/ (Settled(view') /\ ReadsWell(view, view'))

\* The head of the queue, alone.
LEMMA HeadReads ==
  ASSUME RuntimeTypes, view \in Snapshots, RunInv, RejectedFits, rejected = NoEvent => ViewInv,
         NEW h, First(h), Replays(<<h>>)
  PROVE  Reads
<1>1. CASE rejected # NoEvent
  BY <1>1, OneReplayed DEF Reads, RejectedFits
<1>2. CASE rejected = NoEvent /\ Accepts(view, h)
  <2>1. rejected' = NoEvent /\ view' = Apply(view, h) /\ ViewInv /\ h \in Pending
    BY <1>2, OneReplayed DEF First
  <2>2. PICK t : t = Apply(view, h)
    OBVIOUS
  <2>3. Settled(t) /\ ReadsWell(view, t)
    BY <1>2, <2>1, <2>2, HeadApplied
  <2> QED
    BY <2>1, <2>2, <2>3 DEF Reads, RejectedFits, ReadsWell
<1>3. CASE rejected = NoEvent /\ ~Accepts(view, h)
  <2>1. rejected' = h /\ view' = view /\ ViewInv
    BY <1>3, OneReplayed
  <2>2. h.type = "agent.admitted" /\ h.callIndex # h.agent - 1
    BY <1>3, <2>1, HeadAccepted
  <2> QED
    BY <2>1, <2>2 DEF Reads, RejectedFits
<1> QED
  BY <1>1, <1>2, <1>3

\* The head as Handled publishes it, alone or with the completion of a phase.
LEMMA HandledReads ==
  ASSUME RuntimeTypes, view \in Snapshots, RunInv, RejectedFits, rejected = NoEvent => ViewInv,
         NEW h, NEW evs, NEW phases, Handled(h, evs, phases)
  PROVE  Reads
<1>1. First(h)
  BY HeadFirst DEF RunInv, QueueInv, Handled
<1>2. PICK p : p = Leaves(h)
  OBVIOUS
<1>3. CASE p = NoPhase \/ ~ClosesWith(p)
  <2>1. Replays(<<h>>)
    BY <1>2, <1>3 DEF Handled
  <2> QED
    BY <1>1, <2>1, HeadReads
<1>4. CASE p # NoPhase /\ ClosesWith(p)
  <2>1. Replays(<<h, Completed(p)>>)
    BY <1>2, <1>4 DEF Handled
  <2>2. CASE rejected # NoEvent
    BY <2>1, <2>2 DEF Reads, RejectedFits, Replays
  <2>3. CASE rejected = NoEvent
    <3>1. IsFinal(h) /\ agentPhase[h.agent] = p /\ ~runtime[p].over
      BY <1>2, <1>4 DEF Leaves
    <3>2. h \in Pending
      BY <1>1 DEF First
    <3>3. h.type \in RunEvents \cup PhaseEvents \cup CallTypes
      BY <3>2, Typed DEF RunInv, QueueInv
    <3>4. h.type \in CallTypes
      BY <3>1, <3>3 DEF IsFinal, RunEvents, PhaseEvents, CallTypes
    <3>5. h.agent \in Agents
      BY <3>2, <3>4 DEF RunInv, QueueInv, CallsWait, CallFits
    <3>6. p \in Phases
      BY <1>4, <3>1, <3>5 DEF RuntimeTypes
    <3>7. rejected' = NoEvent /\ Settled(view') /\ ReadsWell(view, view')
      BY <1>1, <1>4, <2>1, <2>3, <3>1, <3>6, PairRead
    <3> QED
      BY <3>7 DEF Reads, RejectedFits, ReadsWell
  <2> QED
    BY <2>2, <2>3
<1> QED
  BY <1>3, <1>4

\* What every step leaves of the invariant.
Stepped ==
  /\ RuntimeTypes' /\ Reads
  /\ (publishing => RunInv)'
  /\ (publishing /\ rejected = NoEvent => ViewInv)'

\* The steps of a run that goes on: nothing is published, or the head of the queue.
Published ==
  \/ publishing /\ UNCHANGED <<view, rejected>>
  \/ \E h, evs, phases : Handled(h, evs, phases)

\* Both ways of publishing.
LEMMA EmitsPublished == ASSUME NEW evs, Emits(evs) PROVE Published
BY DEF Emits, Published

LEMMA HandledPublished ==
  ASSUME NEW h, NEW evs, NEW phases, Handled(h, evs, phases)
  PROVE  Published
BY DEF Published

\* The invariant by its parts.
LEMMA InvFacts ==
  ASSUME ProjectionInv
  PROVE  /\ RuntimeTypes /\ view \in Snapshots /\ RejectedFits /\ Settled(view)
         /\ publishing => RunInv
         /\ publishing /\ rejected = NoEvent => ViewInv
BY SettledNow DEF ProjectionInv, ProjectionTypeOK, RuntimeTypes

\* A step of a run that goes on reads well.
LEMMA PublishedStep ==
  ASSUME ProjectionInv, Published
  PROVE  /\ publishing /\ RunInv /\ Reads
         /\ rejected' = NoEvent => rejected = NoEvent
<1>1. CASE publishing /\ UNCHANGED <<view, rejected>>
  BY <1>1, InvFacts DEF Reads, RejectedFits
<1>2. CASE \E h, evs, phases : Handled(h, evs, phases)
  <2>1. PICK h, evs, phases : Handled(h, evs, phases)
    BY <1>2
  <2>2. publishing
    BY <2>1 DEF Handled
  <2>3. rejected' = NoEvent => rejected = NoEvent
    BY <2>1 DEF Handled, Replays
  <2>4. /\ RuntimeTypes /\ view \in Snapshots /\ RunInv /\ RejectedFits
        /\ rejected = NoEvent => ViewInv
    BY <2>2, InvFacts
  <2> QED
    BY <2>1, <2>2, <2>3, <2>4, HandledReads
<1> QED
  BY <1>1, <1>2 DEF Published

\* And leaves the invariant, when its action keeps it.
LEMMA KeptStep ==
  ASSUME ProjectionInv, Published, Kept
  PROVE  Stepped
<1>1. /\ publishing /\ RunInv /\ Reads
      /\ rejected' = NoEvent => rejected = NoEvent
  BY PublishedStep
<1>2. RunInv' /\ RuntimeTypes'
  BY DEF Kept
<1>3. rejected' = NoEvent => ViewInv'
  BY <1>1, InvFacts DEF Kept
<1> QED
  BY <1>1, <1>2, <1>3 DEF Stepped

\* Each of those steps publishes so.
LEMMA WorkflowPublished ==
  ASSUME Start \/ Declare \/ PhaseMessage \/ PhaseGoesOn \/ ChildCalled \/ ChildGoesOn
         \/ ChildReturns \/ ChildDies \/ Request
  PROVE  Published
<1>1. CASE Start
  BY <1>1, HandledPublished DEF Start, Declares
<1>2. CASE Declare
  BY <1>2, HandledPublished DEF Declare, Declares
<1>3. CASE PhaseMessage
  BY <1>3, EmitsPublished DEF PhaseMessage
<1>4. CASE PhaseGoesOn
  BY <1>4, HandledPublished DEF PhaseGoesOn
<1>5. CASE ChildCalled
  BY <1>5, EmitsPublished DEF ChildCalled
<1>6. CASE ChildGoesOn
  BY <1>6, HandledPublished DEF ChildGoesOn
<1>7. CASE ChildReturns
  BY <1>7, EmitsPublished DEF ChildReturns
<1>8. CASE ChildDies
  BY <1>8 DEF ChildDies, Published, logVars
<1>9. CASE Request
  BY <1>9, EmitsPublished DEF Request
<1> QED
  BY <1>1, <1>2, <1>3, <1>4, <1>5, <1>6, <1>7, <1>8, <1>9

\* The same for the actions of calls, and of the run.
LEMMA CallPublished ==
  ASSUME NEW a,
         PhaseKnown(a) \/ AdmissionHandled(a) \/ Answered(a) \/ Starts(a) \/ TimesOut(a)
         \/ Completes(a) \/ GivesUp(a) \/ Retries(a) \/ Cancels(a) \/ Breaks(a) \/ TaskGoesOn(a)
  PROVE  Published
<1>1. CASE PhaseKnown(a)
  BY <1>1, HandledPublished DEF PhaseKnown
<1>2. CASE AdmissionHandled(a)
  BY <1>2, HandledPublished DEF AdmissionHandled
<1>3. CASE Answered(a)
  BY <1>3, HandledPublished DEF Answered
<1>4. CASE Starts(a)
  BY <1>4, EmitsPublished DEF Starts
<1>5. CASE TimesOut(a)
  BY <1>5, EmitsPublished DEF TimesOut
<1>6. CASE Completes(a)
  BY <1>6, EmitsPublished DEF Completes, Finishes
<1>7. CASE GivesUp(a)
  BY <1>7, EmitsPublished DEF GivesUp, Finishes
<1>8. CASE Retries(a)
  BY <1>8, EmitsPublished DEF Retries
<1>9. CASE Cancels(a)
  BY <1>9, EmitsPublished DEF Cancels, Finishes
<1>10. CASE Breaks(a)
  BY <1>10, EmitsPublished DEF Breaks, StopAs
<1>11. CASE TaskGoesOn(a)
  BY <1>11, HandledPublished DEF TaskGoesOn
<1> QED
  BY <1>1, <1>2, <1>3, <1>4, <1>5, <1>6, <1>7, <1>8, <1>9, <1>10, <1>11

LEMMA RunPublished ==
  ASSUME Passes \/ Stop \/ FailsPhase \/ PhaseFailed \/ Ends \/ Ended \/ Returns \/ Drained
         \/ Claims \/ MainGoesOn
  PROVE  Published
<1>1. CASE Passes
  BY <1>1, HandledPublished DEF Passes
<1>2. CASE Stop
  BY <1>2, EmitsPublished DEF Stop, StopAs
<1>3. CASE FailsPhase
  BY <1>3, EmitsPublished DEF FailsPhase
<1>4. CASE PhaseFailed
  BY <1>4, HandledPublished DEF PhaseFailed
<1>5. CASE Ends
  BY <1>5, EmitsPublished DEF Ends
<1>6. CASE Ended
  BY <1>6, HandledPublished DEF Ended
<1>7. CASE Returns
  BY <1>7, EmitsPublished DEF Returns
<1>8. CASE Drained
  BY <1>8 DEF Drained, Published, logVars
<1>9. CASE Claims
  BY <1>9, EmitsPublished DEF Claims
<1>10. CASE MainGoesOn
  BY <1>10, HandledPublished DEF MainGoesOn
<1> QED
  BY <1>1, <1>2, <1>3, <1>4, <1>5, <1>6, <1>7, <1>8, <1>9, <1>10

\* The last event of the run: nothing is published after it.
LEMMA LastStep ==
  ASSUME ProjectionInv, Ended \/ (MainGoesOn /\ main = "completing")
  PROVE  Stepped
<1>1. /\ publishing /\ RunInv /\ Reads
      /\ RuntimeTypes
  BY RunPublished, PublishedStep, InvFacts
<1>2. PICK h : h.type \in RunEvents /\ Handled(h, <<>>, runtime)
  <2>1. CASE Ended
    <3>1. ending = "publishing"
      BY <2>1 DEF Ended
    <3>2. owner \in {"failure", "cancellation", "interruption"}
      BY <1>1, <3>1 DEF RunInv, StateInv, ControlFits, RuntimeTypes
    <3>3. EndEvent[owner] \in RunEvents
      BY <3>2 DEF EndEvent, RunEvents
    <3> QED
      BY <2>1, <3>3 DEF Ended, RunEvent
  <2>2. CASE MainGoesOn /\ main = "completing"
    <3>1. Handled(RunEvent("run.completed"), <<>>, runtime)
      BY <2>2 DEF MainGoesOn
    <3> QED
      BY <3>1 DEF RunEvent, RunEvents
  <2> QED
    BY <2>1, <2>2
<1>3. ~IsFinal(h)
  BY <1>2 DEF IsFinal, RunEvents
<1>4. ended' = ended /\ runtime' = runtime
  BY <1>2, <1>3, HandledNotFinal
<1>5. up' = up
  BY <1>2 DEF Handled
<1>6. terminal' = TRUE
  BY DEF Ended, MainGoesOn
<1>7. RuntimeTypes'
  <2>1. /\ main' \in {main, "over"} /\ ending' \in {ending, "over"}
        /\ UNCHANGED <<owner, visited, turn, child, current, known, sequence, inner,
                       agentPhase, stage, attempt>>
    BY DEF Ended, MainGoesOn, turnKept, callsKept
  <2> QED
    BY <1>1, <1>4, <1>5, <1>6, <2>1 DEF RuntimeTypes
<1> QED
  BY <1>1, <1>6, <1>7 DEF Stepped, publishing

\* The host is lost, and the runtime with it.
LEMMA LoseStep ==
  ASSUME ProjectionInv, Lose
  PROVE  Stepped
<1>1. publishing /\ RunInv /\ RuntimeTypes /\ view \in Snapshots /\ RejectedFits
      /\ (rejected = NoEvent => ViewInv)
  BY InvFacts DEF Lose
<1>2. Reads
  <2>1. CASE queue # <<>> /\ Replays(<<Head(queue)>>)
    <3>1. First(Head(queue))
      BY <1>1, <2>1, HeadFirst DEF RunInv, QueueInv
    <3> QED
      BY <1>1, <2>1, <3>1, HeadReads
  <2>2. CASE UNCHANGED <<view, rejected>>
    BY <1>1, <2>2 DEF Reads, RejectedFits
  <2> QED
    BY <2>1, <2>2 DEF Lose
<1>3. up' = FALSE /\ terminal' = terminal
  BY DEF Lose
<1>4. known' \in Seq(Phases) /\ visited' \in 0..Len(known')
  BY DEF Lose
<1>5. runtime' \in [Phases -> [entered : BOOLEAN, sealed : BOOLEAN, over : BOOLEAN,
                               active : 0..Cardinality(Agents)]]
  BY AgentNumbers DEF Lose, NothingKnown
<1>6. /\ sequence' \in 0..Cardinality(Agents) /\ inner' \subseteq Agents /\ ended' \subseteq Agents
      /\ agentPhase' \in [Agents -> Phases \cup {NoPhase}]
      /\ stage' \in [Agents -> {"idle", "over"} \cup Accepting \cup Working]
  BY AgentNumbers DEF Lose
<1>7. attempt' \in [Agents -> Attempts]
  BY StateAssumption DEF Lose, Attempts
<1>8. /\ owner' = "none" /\ main' = "over" /\ ending' = "none"
      /\ turn' \in [at : {"free", "discovering", "sealing", "entering"}, phase : Phases \cup {NoPhase}]
      /\ child' = "none" /\ current' \in Phases \cup {NoPhase}
  BY DEF Lose, Free
<1>9. RuntimeTypes'
  BY <1>1, <1>3, <1>4, <1>5, <1>6, <1>7, <1>8 DEF RuntimeTypes
<1> QED
  BY <1>2, <1>3, <1>9 DEF Stepped, publishing

\* Startup appends run.interrupted.
LEMMA RestartStep ==
  ASSUME ProjectionInv, Restart
  PROVE  Stepped
<1>1. RuntimeTypes /\ view \in Snapshots /\ RejectedFits /\ Settled(view)
  BY InvFacts
<1>2. /\ ~up /\ view.status \notin TerminalRun /\ view' = Apply(view, RunEvent("run.interrupted"))
      /\ UNCHANGED <<rejected, queue, up, runVars, phaseVars, agentVars>>
  BY DEF Restart
<1>3. PICK t : t = ApplyRun(view, "run.interrupted")
  OBVIOUS
<1>4. view' = t
  <2>1. PICK h : h = RunEvent("run.interrupted")
    OBVIOUS
  <2>2. h.type \in RunEvents /\ h.type = "run.interrupted"
    BY <2>1 DEF RunEvent, RunEvents
  <2> QED
    BY <1>2, <1>3, <2>1, <2>2, RunApplied
<1>5. Settled(t) /\ ReadsWell(view, t)
  BY <1>1, <1>2, <1>3, EndApplied
<1>6. Reads
  BY <1>1, <1>2, <1>4, <1>5 DEF Reads, RejectedFits, ReadsWell
<1>7. RuntimeTypes'
  BY <1>1, <1>2 DEF RuntimeTypes, runVars, phaseVars, agentVars
<1> QED
  BY <1>2, <1>6, <1>7 DEF Stepped, publishing

\* One step of the system.
LEMMA EveryStep ==
  ASSUME ProjectionInv, [ProjectionNext]_projectionVars
  PROVE  Stepped
<1>1. RuntimeTypes /\ view \in Snapshots /\ RejectedFits
  BY InvFacts
<1>2. CASE Start \/ Declare \/ PhaseMessage \/ PhaseGoesOn \/ ChildCalled \/ ChildGoesOn
           \/ ChildReturns \/ ChildDies \/ Request
  <2>1. Published
    BY <1>2, WorkflowPublished
  <2>2. RunInv
    BY <2>1, PublishedStep
  <2>3. Kept
    BY <1>1, <1>2, <2>2, StartKeeps, PhaseMessageKeeps, PhaseGoesOnKeeps, ChildCalledKeeps,
       ChildGoesOnKeeps, ChildReturnsKeeps, ChildDiesKeeps, RequestKeeps
  <2> QED
    BY <2>1, <2>3, KeptStep
<1>3. ASSUME NEW a \in Agents,
             PhaseKnown(a) \/ AdmissionHandled(a) \/ Answered(a) \/ Starts(a) \/ TimesOut(a)
             \/ Completes(a) \/ GivesUp(a) \/ Retries(a) \/ Cancels(a) \/ Breaks(a)
             \/ TaskGoesOn(a)
      PROVE  Stepped
  <2>1. Published
    BY <1>3, CallPublished
  <2>2. RunInv
    BY <2>1, PublishedStep
  <2>3. CASE PhaseKnown(a) \/ AdmissionHandled(a) \/ Breaks(a)
    <3>1. Kept
      BY <1>1, <1>3, <2>2, <2>3, PhaseKnownKeeps, AdmissionHandledKeeps, BreaksKeeps
    <3> QED
      BY <2>1, <3>1, KeptStep
  <2>4. CASE Starts(a) \/ TimesOut(a) \/ Completes(a) \/ GivesUp(a) \/ Retries(a) \/ Cancels(a)
    <3>1. RunInv' /\ RuntimeTypes' /\ (ViewInv => ViewInv')
      BY <1>1, <1>3, <2>2, <2>4, StartsKeeps, TimesOutKeeps, CompletesKeeps, GivesUpKeeps,
         RetriesKeeps, CancelsKeeps
    <3>2. Kept
      BY <3>1 DEF Kept
    <3> QED
      BY <2>1, <3>2, KeptStep
  <2>5. CASE Answered(a) \/ TaskGoesOn(a)
    <3>1. /\ RunInv' /\ RuntimeTypes'
          /\ ViewInv /\ rejected = NoEvent /\ rejected' = NoEvent => ViewInv'
      BY <1>1, <1>3, <2>2, <2>5, AnsweredKeeps, TaskGoesOnKeeps
    <3>2. Kept
      BY <3>1 DEF Kept
    <3> QED
      BY <2>1, <3>2, KeptStep
  <2> QED
    BY <1>3, <2>3, <2>4, <2>5
<1>4. CASE Passes \/ Stop \/ FailsPhase \/ PhaseFailed \/ Ends \/ Returns \/ Drained \/ Claims
           \/ (MainGoesOn /\ main = "sealing")
  <2>1. Published
    BY <1>4, RunPublished
  <2>2. RunInv
    BY <2>1, PublishedStep
  <2>3. CASE Passes
    <3>1. /\ RunInv' /\ RuntimeTypes'
          /\ ViewInv /\ rejected = NoEvent /\ rejected' = NoEvent => ViewInv'
      BY <1>1, <2>2, <2>3, PassesKeeps
    <3>2. Kept
      BY <3>1 DEF Kept
    <3> QED
      BY <2>1, <3>2, KeptStep
  <2>4. CASE ~Passes
    <3>1. Kept
      BY <1>1, <1>4, <2>2, <2>4, StopKeeps, FailsPhaseKeeps, PhaseFailedKeeps, EndsKeeps,
         ReturnsKeeps, DrainedKeeps, ClaimsKeeps, SealedKeeps
    <3> QED
      BY <2>1, <3>1, KeptStep
  <2> QED
    BY <2>3, <2>4
<1>5. CASE Ended \/ (MainGoesOn /\ main = "completing")
  BY <1>5, LastStep
<1>6. CASE Lose
  BY <1>6, LoseStep
<1>7. CASE Restart
  BY <1>7, RestartStep
<1>8. CASE UNCHANGED projectionVars
  <2>1. UNCHANGED <<view, rejected, queue, up, owner, terminal, main, ending, visited, turn, child,
                    current, known, runtime, sequence, inner, agentPhase, stage, attempt, ended>>
    BY <1>8 DEF projectionVars, logVars, runVars, phaseVars, agentVars
  <2>2. RuntimeTypes'
    BY <1>1, <2>1 DEF RuntimeTypes
  <2>3. Reads
    BY <1>1, <2>1 DEF Reads, RejectedFits
  <2>4. publishing' => RunInv'
    <3>1. publishing' = publishing
      BY <2>1 DEF publishing
    <3>2. ASSUME RunInv
          PROVE  QueueInv' /\ StateInv'
      <4>1. Pending' = Pending /\ Outer' = Outer /\ Known' = Known /\ (aborted' <=> aborted)
        BY <2>1 DEF Pending, Outer, Known, aborted
      <4>2. Ordered(queue)' /\ CallsWait' /\ RunWaits' /\ PhaseNames'
        BY <2>1, <3>2, <4>1 DEF RunInv, QueueInv, CallsWait, CallFits, RunWaits, WaitsRun, PhaseNames
      <4>3. DiscoveriesWait' /\ EntriesWait' /\ CompletionsWait' /\ FailuresWait'
        BY <2>1, <3>2, <4>1 DEF RunInv, QueueInv, DiscoveriesWait, EntriesWait, CompletionsWait,
           FailuresWait, Waits, Discovering
      <4>4. ControlFits' /\ PhasesFit' /\ TurnFits' /\ ChildFits' /\ MainFits'
        BY <2>1, <3>2, <4>1 DEF RunInv, StateInv, ControlFits, PhasesFit, TurnFits, ChildFits,
           MainFits, Busy
      <4>5. CallsFit' /\ StagesFit' /\ OneAccepted' /\ CountsFit'
        BY <2>1, <3>2, <4>1 DEF RunInv, StateInv, CallsFit, StagesFit, OneAccepted, CountsFit, Asks
      <4> QED
        BY <4>2, <4>3, <4>4, <4>5 DEF QueueInv, StateInv
    <3> QED
      BY <3>1, <3>2, InvFacts DEF RunInv
  <2>5. publishing' /\ rejected' = NoEvent => ViewInv'
    <3>1. publishing' = publishing /\ rejected' = rejected
      BY <2>1 DEF publishing
    <3>2. ViewInv => ViewInv'
      BY <2>1 DEF ViewInv, PhasesShown, AgentsShown, IndicesShown, AttemptsShown, AttemptShown,
         CallsShown, EventShown, Waits, Asks, Pending, Known
    <3> QED
      BY <3>1, <3>2, InvFacts
  <2> QED
    BY <2>2, <2>3, <2>4, <2>5 DEF Stepped
<1>9. MainGoesOn => main = "sealing" \/ main = "completing"
  BY DEF MainGoesOn
<1> QED
  BY <1>2, <1>3, <1>4, <1>5, <1>6, <1>7, <1>8, <1>9 DEF ProjectionNext

\* So the invariant is inductive.
LEMMA InvStep ==
  ASSUME ProjectionInv, [ProjectionNext]_projectionVars
  PROVE  ProjectionInv'
<1>1. /\ RuntimeTypes' /\ Reads
      /\ (publishing => RunInv)'
      /\ (publishing /\ rejected = NoEvent => ViewInv)'
  BY EveryStep DEF Stepped
<1>2. view' \in Snapshots /\ RejectedFits'
  BY <1>1 DEF Reads
<1>3. ProjectionTypeOK'
  BY <1>1, <1>2 DEF ProjectionTypeOK, RuntimeTypes
<1>4. Settled(view')
  BY <1>1, InvFacts DEF Reads
<1>5. NothingLeftOpen'
  BY <1>4 DEF NothingLeftOpen, Settled, Lost
<1> QED
  BY <1>1, <1>2, <1>3, <1>5 DEF ProjectionInv

\* It holds at first.
LEMMA FirstTypes ==
  ASSUME ProjectionInit
  PROVE  ProjectionTypeOK /\ RuntimeTypes /\ view \in Snapshots
<1>1. view \in Snapshots
  BY AgentNumbers DEF ProjectionInit, createWorkflowState, Snapshots, RunStatuses, PhaseStatuses,
     AgentStatuses, AttemptStatuses
<1>2. known \in Seq(Phases) /\ visited \in 0..Len(known)
  BY DEF ProjectionInit
<1>3. runtime \in [Phases -> [entered : BOOLEAN, sealed : BOOLEAN, over : BOOLEAN,
                              active : 0..Cardinality(Agents)]]
  BY AgentNumbers DEF ProjectionInit, NothingKnown
<1>4. /\ sequence \in 0..Cardinality(Agents) /\ inner \subseteq Agents /\ ended \subseteq Agents
      /\ agentPhase \in [Agents -> Phases \cup {NoPhase}]
      /\ stage \in [Agents -> {"idle", "over"} \cup Accepting \cup Working]
  BY AgentNumbers DEF ProjectionInit
<1>5. attempt \in [Agents -> Attempts]
  BY StateAssumption DEF ProjectionInit, Attempts
<1>6. /\ up \in BOOLEAN /\ terminal \in BOOLEAN /\ owner = "none" /\ main = "starting"
      /\ ending = "none" /\ child = "none" /\ current \in Phases \cup {NoPhase}
      /\ turn \in [at : {"free", "discovering", "sealing", "entering"}, phase : Phases \cup {NoPhase}]
  BY DEF ProjectionInit, Free
<1>7. RuntimeTypes
  BY <1>2, <1>3, <1>4, <1>5, <1>6 DEF RuntimeTypes
<1> QED
  BY <1>1, <1>7 DEF ProjectionTypeOK, RuntimeTypes

\* Only run.started waits.
LEMMA FirstQueue ==
  ASSUME ProjectionInit
  PROVE  Ordered(queue) /\ Pending = {RunEvent("run.started")} /\ RunEvent("run.started").type = "run.started"
<1>1. PICK x : x = RunEvent("run.started")
  OBVIOUS
<1>2. queue = <<x>> /\ x.type = "run.started"
  BY <1>1 DEF ProjectionInit, RunEvent
<1>3. Pending = {x} /\ queue \in Seq(EventsIn(queue)) /\ EventsIn(queue) = {x}
  BY <1>2, OneEvent DEF Pending
<1>4. \A e, f : ~Precedes(queue, e, f)
  BY <1>2, OneEvent
<1>5. x.type \in RunEvents
  BY <1>2 DEF RunEvents
<1>6. Ordered(queue)
  BY <1>3, <1>4, <1>5 DEF Ordered
<1> QED
  BY <1>1, <1>2, <1>3, <1>6

LEMMA FirstRun ==
  ASSUME ProjectionInit
  PROVE  RunInv
<1>1. RuntimeTypes
  BY FirstTypes
<1>2. \A e \in Pending : e.type = "run.started"
  BY FirstQueue
<1>3. /\ owner = "none" /\ main = "starting" /\ ending = "none" /\ turn = Free /\ child = "none"
      /\ current = NoPhase /\ known = <<>> /\ visited = 0 /\ sequence = 0 /\ inner = {}
      /\ ended = {}
      /\ \A p \in Phases : /\ ~runtime[p].entered /\ ~runtime[p].sealed /\ ~runtime[p].over
                           /\ runtime[p].active = 0
      /\ \A a \in Agents : agentPhase[a] = NoPhase /\ stage[a] = "idle" /\ attempt[a] = 1
  BY DEF ProjectionInit, NothingKnown
<1>4. Known = {}
  BY <1>3 DEF Known
<1>5. Outer = {}
  BY <1>3 DEF Outer
<1>6. \A p \in Phases : p # NoPhase
  BY StateAssumption
<1>7. CallsWait /\ PhaseNames
  BY <1>2 DEF CallsWait, CallTypes, PhaseNames, PhaseEvents
<1>8. RunWaits
  BY <1>2, <1>3 DEF RunWaits, WaitsRun
<1>9. DiscoveriesWait /\ EntriesWait /\ CompletionsWait /\ FailuresWait
  BY <1>2 DEF Waits, DiscoveriesWait, EntriesWait, CompletionsWait, FailuresWait
<1>10. ControlFits /\ PhasesFit /\ MainFits
  BY <1>3 DEF ControlFits, aborted, PhasesFit, MainFits, Returned
<1>11. TurnFits /\ ChildFits
  BY <1>3, <1>4, ProjectionAssumption DEF TurnFits, ChildFits, Free
<1>12. CallsFit
  BY <1>3, <1>6, AgentNumbers, ProjectionAssumption DEF CallsFit
<1>13. StagesFit /\ OneAccepted
  BY <1>3, <1>5 DEF StagesFit, OneAccepted
<1>14. CountsFit
  <2>1. ASSUME NEW p \in Phases
        PROVE  /\ Cardinality({a \in Agents : agentPhase[a] = p}) = 0
               /\ Cardinality({a \in Agents : agentPhase[a] = p /\ a \notin ended}) = 0
    <3>1. {a \in Agents : agentPhase[a] = p} = {}
      BY <1>3, <1>6
    <3>2. {a \in Agents : agentPhase[a] = p /\ a \notin ended} = {}
      BY <1>3, <1>6
    <3> QED
      BY <3>1, <3>2, FS_EmptySet
  <2> QED
    BY <1>3, <2>1 DEF CountsFit
<1> QED
  BY <1>7, <1>8, <1>9, <1>10, <1>11, <1>12, <1>13, <1>14, FirstQueue DEF RunInv, QueueInv, StateInv

LEMMA FirstView ==
  ASSUME ProjectionInit
  PROVE  ViewInv
<1>1. \A e \in Pending : e.type = "run.started"
  BY FirstQueue
<1>2. /\ known = <<>> /\ inner = {} /\ ended = {}
      /\ \A p \in Phases : ~runtime[p].entered /\ ~runtime[p].over
      /\ \A a \in Agents : stage[a] = "idle" /\ attempt[a] = 1
  BY DEF ProjectionInit, NothingKnown
<1>3. /\ view.status = "pending"
      /\ \A p \in Phases : view.phases[p] = "absent"
      /\ \A a \in Agents : view.agents[a] = "absent"
      /\ \A a \in Agents, n \in Attempts : view.attempts[a][n] = "absent"
  BY DEF ProjectionInit, createWorkflowState
<1>4. Known = {}
  BY <1>2 DEF Known
<1>5. PhasesShown
  BY <1>1, <1>2, <1>3, <1>4 DEF PhasesShown, Waits
<1>6. AgentsShown
  BY <1>2, <1>3 DEF AgentsShown, Admitted, Accepting, Working, TerminalAgent
<1>7. IndicesShown
  BY <1>3 DEF IndicesShown, Admitted
<1>8. AttemptsShown
  <2>1. 1 \in Attempts
    BY StateAssumption DEF Attempts
  <2> QED
    BY <1>2, <1>3, <2>1 DEF AttemptsShown, AttemptShown, Accepting, Open, Unresolved
<1>9. CallsShown
  BY <1>1 DEF CallsShown, CallTypes
<1> QED
  BY <1>3, <1>5, <1>6, <1>7, <1>8, <1>9 DEF ViewInv, TerminalRun

LEMMA InvFirst ==
  ASSUME ProjectionInit
  PROVE  ProjectionInv
<1>1. rejected = NoEvent
  BY DEF ProjectionInit
<1>2. NothingLeftOpen
  BY FirstTypes, FirstView, ShownSettled
<1> QED
  BY <1>1, <1>2, FirstTypes, FirstRun, FirstView DEF ProjectionInv, RejectedFits

\* The inductive invariant of RunProjection, for any number of agents, phases and attempts.
THEOREM ProjectionInvariance == ProjectionSpec => []ProjectionInv
<1>1. ProjectionInit => ProjectionInv
  BY InvFirst
<1>2. ProjectionInv /\ [ProjectionNext]_projectionVars => ProjectionInv'
  BY InvStep
<1> QED
  BY <1>1, <1>2, PTL DEF ProjectionSpec

\* The only event of the stream that the reducer of workflowState.ts can refuse is an
\* admission that carries the call index of another call (#acceptAgentRequest).
THEOREM RejectsOnlyStolen == ProjectionSpec => []OnlyStolenIndexRejected
<1>1. ProjectionInv => OnlyStolenIndexRejected
  BY DEF ProjectionInv, OnlyStolenIndexRejected, RejectedFits
<1> QED
  BY <1>1, ProjectionInvariance, PTL

\* What recovery reads of a run: no attempt is open under an agent's end, and no agent
\* under the run's, but for the calls of a nested workflow whose evaluator died.
THEOREM LeavesNothingOpen == ProjectionSpec => []NothingLeftOpen
<1>1. ProjectionInv => NothingLeftOpen
  BY DEF ProjectionInv
<1> QED
  BY <1>1, ProjectionInvariance, PTL

\* The end of an agent a client read is never replaced, by a retry, a late event or the
\* closing of the run (reduceWorkflowState).
THEOREM KeepsFinals == ProjectionSpec => FinalsStay
<1>1. ProjectionInv /\ [ProjectionNext]_projectionVars =>
        [\A a \in Agents : view.agents[a] \in TerminalAgent => view'.agents[a] = view.agents[a]]_view
  BY EveryStep DEF Stepped, Reads, ReadsWell, FinalsKept
<1> QED
  BY <1>1, ProjectionInvariance, PTL DEF ProjectionSpec, FinalsStay

\* A phase is completed only when its agents have ended, and a completed run leaves none
\* running but that of a nested workflow (#recordAgentTerminal, #sealPhase).
THEOREM TellsPhases == ProjectionSpec => PhaseTruth
<1>1. ProjectionInv /\ [ProjectionNext]_projectionVars =>
        [/\ \A p \in Phases : view.phases[p] # "completed" /\ view'.phases[p] = "completed" =>
              \A a \in Members(view', p) : view'.agents[a] \in TerminalAgent
         /\ view'.status = "completed" =>
              \A p \in Phases : view'.phases[p] = "running" => p = Nest]_view
  BY EveryStep DEF Stepped, Reads, ReadsWell, PhasesTrue
<1> QED
  BY <1>1, ProjectionInvariance, PTL DEF ProjectionSpec, PhaseTruth

-------------------------------------------------------------------------------
(* The history of a run.                                                   *)

USE DEF Stream!Kinds, Stream!TerminalKinds

\* How far the log, its synced part and the manifest are apart at each stage
\* of an append, and that nothing is appended while the host is not serving.
AppendInv ==
  /\ host = "interrupting" => writer # "ready"
  /\ host \notin {"interrupting", "serving"} => writer = "ready" /\ ~live
  /\ writer = "writing" =>
       /\ manifest.cursor = Len(file) /\ Len(file) < MaxEvents
       /\ ~Terminal(manifest.status)
  /\ writer \in {"written", "synced"} =>
       Len(file) = manifest.cursor + 1 /\ file[Len(file)] = flight
  /\ writer \in {"synced", "recorded", "cached"} => synced = Len(file)
  /\ writer \in {"recorded", "cached"} => manifest.cursor = Len(file)
  /\ live /\ writer = "ready" => manifest.cursor = Len(file)
  /\ host = "deciding" => manifest.cursor = Len(file)

\* A manifest that claims no more than the log has reflects it, and only a
\* power loss makes it claim more.
ManifestInv ==
  /\ manifest.cursor <= Len(file) => Reflects(manifest)
  /\ host \notin {"down", "repairing", "rebuilding"} => manifest.cursor <= Len(file)

\* What a reader has observed and read was there.
PollInv ==
  \A r \in Readers :
    /\ seen[r] <= published
    /\ polls[r] = "read" => seen[r] <= page[r]

IInv ==
  /\ TypeOK /\ AppendInv /\ ManifestInv /\ PollInv
  /\ PublishedDurable /\ CacheExact /\ NoLostWakeup

\* TypeOK in two parts, for the provers: the Boolean variables and the others.
Flags ==
  /\ torn \in BOOLEAN /\ live \in BOOLEAN
  /\ mayWait \in [Readers -> BOOLEAN]

DiskTypes ==
  /\ file \in Seq(Stream!Kinds) /\ Len(file) <= MaxEvents
  /\ synced \in 0..Len(file)
  /\ manifest \in [cursor : Cursors, status : Statuses]

MemoryTypes ==
  /\ host \in Hosts /\ writer \in WriterStages /\ flight \in Stream!Kinds
  /\ emitted \in Cursors /\ published \in Cursors
  /\ cache \subseteq [cursor : Cursors, applied : Cursors]
  /\ snapCursor \subseteq Cursors

ReaderTypes ==
  /\ polls \in [Readers -> PollStages]
  /\ after \in [Readers -> Cursors] /\ page \in [Readers -> Cursors]
  /\ seen \in [Readers -> Cursors]

LEMMA TypeParts == TypeOK <=> Flags /\ DiskTypes /\ MemoryTypes /\ ReaderTypes
BY DEF TypeOK, Flags, DiskTypes, MemoryTypes, ReaderTypes

LEMMA InitIInv == Init => IInv
<1> SUFFICES ASSUME Init
             PROVE  IInv
  OBVIOUS
<1> USE DEF Init
<1>1. 0 \in Cursors /\ Len(file) = 0
  BY HistoryAssumption DEF Cursors
<1>2. Flags
  BY Zenon DEF Flags
<1>3. DiskTypes /\ MemoryTypes
  BY <1>1, HistoryAssumption DEF DiskTypes, MemoryTypes, Statuses, Hosts, WriterStages
<1>4. ReaderTypes
  BY <1>1 DEF ReaderTypes, PollStages
<1>5. TypeOK
  BY <1>2, <1>3, <1>4, TypeParts
<1>6. AppendInv /\ ManifestInv
  BY <1>1 DEF AppendInv, ManifestInv, Reflects
<1>7. PollInv /\ PublishedDurable /\ CacheExact /\ NoLostWakeup
  BY DEF PollInv, PublishedDurable, CacheExact, NoLostWakeup
<1> QED
  BY <1>5, <1>6, <1>7 DEF IInv

\* What Reflects says depends on the records up to the cursor only.
LEMMA ReflectsFrame ==
  ASSUME DiskTypes, NEW m \in [cursor : Cursors, status : Statuses],
         Reflects(m), m.cursor <= Len(file), m.cursor <= Len(file'),
         \A i \in 1..m.cursor : file'[i] = file[i]
  PROVE  \/ m.status = "queued" /\ \A i \in 1..m.cursor : file'[i] = "activity"
         \/ \E i \in 1..m.cursor :
              /\ m.status = file'[i] /\ file'[i] # "activity"
              /\ \A j \in (i + 1)..m.cursor : file'[j] = "activity"
BY DEF Reflects, Cursors

-------------------------------------------------------------------------------
(* Readers and snapshots leave the disk and the writer alone.               *)

LEMMA ReadPreserves == IInv /\ ReadStep => IInv'
<1> SUFFICES ASSUME IInv, NEW r \in Readers,
                    \/ PollOpens(r) \/ PollObserves(r) \/ PollChecks(r)
                    \/ PollReads(r) \/ PollReadsTorn(r) \/ PollReturns(r)
                    \/ PollWaits(r) \/ PollTimeout(r)
             PROVE  IInv'
  BY DEF ReadStep
<1> USE DEF IInv
<1>1. UNCHANGED <<diskVars, host, writerVars, snapVars>>
  BY DEF PollOpens, PollObserves, PollChecks, PollReads, PollReadsTorn,
         PollReturns, PollWaits, PollTimeout
<1>2. ReaderTypes'
  <2>1. Len(file) \in Cursors /\ published \in Cursors /\ ReaderTypes
    BY TypeParts DEF DiskTypes, MemoryTypes, Cursors
  <2> QED
    BY <2>1
       DEF ReaderTypes, PollStages, Polling, PollOpens, PollObserves, PollChecks,
           PollReads, PollReadsTorn, PollReturns, PollWaits, PollTimeout
<1>3. mayWait' \in [Readers -> BOOLEAN]
  <2>1. mayWait' = mayWait \/ \E b \in BOOLEAN : mayWait' = [mayWait EXCEPT ![r] = b]
    <3>1. CASE PollOpens(r)
      <4>1. PICK wait \in BOOLEAN :
              mayWait' = [mayWait EXCEPT ![r] = wait /\ ~Terminal(manifest.status)]
        BY <3>1 DEF PollOpens
      <4>2. (wait /\ ~Terminal(manifest.status)) \in BOOLEAN
        BY Zenon
      <4> QED
        BY <4>1, <4>2, Zenon
    <3>2. CASE PollWaits(r) \/ PollTimeout(r)
      BY <3>2, Zenon DEF PollWaits, PollTimeout
    <3>3. CASE ~PollOpens(r) /\ ~PollWaits(r) /\ ~PollTimeout(r)
      BY <3>3, Zenon DEF PollObserves, PollChecks, PollReads, PollReadsTorn, PollReturns
    <3> QED
      BY <3>1, <3>2, <3>3, Zenon
  <2> QED
    BY <2>1, TypeParts, Zenon DEF Flags
<1>4. TypeOK'
  <2>1. DiskTypes' /\ MemoryTypes'
    BY <1>1, TypeParts
       DEF DiskTypes, MemoryTypes, diskVars, writerVars, snapVars
  <2>2. Flags'
    BY <1>1, <1>3, TypeParts, Zenon DEF Flags, diskVars, writerVars
  <2>3. (Flags /\ DiskTypes /\ MemoryTypes /\ ReaderTypes)'
    BY <1>2, <2>1, <2>2
  <2> QED
    BY <2>3, TypeParts, PTL
<1>5. PollInv' /\ NoLostWakeup'
  <2>1. published <= Len(file) /\ published \in Nat /\ Len(file) \in Nat /\ ReaderTypes
    BY TypeParts DEF DiskTypes, MemoryTypes, Cursors, PublishedDurable
  <2>2. published' = published /\ file' = file
    BY <1>1 DEF diskVars, writerVars
  <2> QED
    BY <2>1, <2>2
       DEF PollInv, NoLostWakeup, ReaderTypes, Cursors, Polling,
           PollOpens, PollObserves, PollChecks,
           PollReads, PollReadsTorn, PollReturns, PollWaits, PollTimeout
<1>6. AppendInv' /\ ManifestInv' /\ PublishedDurable' /\ CacheExact'
  BY <1>1 DEF AppendInv, ManifestInv, Reflects, PublishedDurable, CacheExact,
              diskVars, writerVars, snapVars
<1> QED
  BY <1>4, <1>5, <1>6

LEMMA SnapshotPreserves == IInv /\ SnapshotStep => IInv'
<1> SUFFICES ASSUME IInv, SnapshotStep
             PROVE  IInv'
  OBVIOUS
<1> USE DEF IInv
<1>1. UNCHANGED <<diskVars, host, writerVars, readVars>>
  BY DEF SnapshotStep, SnapshotReads, SnapshotHits, SnapshotReplays
<1>2. /\ snapCursor' \subseteq Cursors
      /\ cache' \subseteq [cursor : Cursors, applied : Cursors]
      /\ CacheExact'
  <2>1. MemoryTypes /\ manifest.cursor \in Cursors
    BY TypeParts DEF DiskTypes
  <2>2. CASE SnapshotReads
    BY <2>1, <2>2 DEF SnapshotReads, MemoryTypes, CacheExact
  <2>3. ASSUME NEW n \in Cursors, SnapshotHits(n)
        PROVE  <1>2!:
    BY <2>1, <2>3 DEF SnapshotHits, MemoryTypes, CacheExact
  <2>4. ASSUME NEW n \in Cursors, SnapshotReplays(n)
        PROVE  <1>2!:
    BY <2>1, <2>4 DEF SnapshotReplays, MemoryTypes, CacheExact
  <2> QED
    BY <2>2, <2>3, <2>4 DEF SnapshotStep
<1>3. TypeOK'
  BY <1>1, <1>2, Zenon DEF TypeOK, diskVars, writerVars, readVars
<1>4. PollInv' /\ NoLostWakeup' /\ AppendInv' /\ ManifestInv' /\ PublishedDurable'
  BY <1>1 DEF PollInv, NoLostWakeup, AppendInv, ManifestInv, Reflects,
              PublishedDurable, diskVars, writerVars, readVars
<1> QED
  BY <1>2, <1>3, <1>4

-------------------------------------------------------------------------------
(* One append.                                                              *)

LEMMA AppendTypes == IInv /\ AppendStep => TypeOK'
<1> SUFFICES ASSUME IInv, AppendStep
             PROVE  TypeOK'
  OBVIOUS
<1>1. /\ Flags /\ DiskTypes /\ MemoryTypes /\ ReaderTypes
      /\ AppendInv /\ PublishedDurable
  BY TypeParts, Zenon DEF IInv
<1>2. torn' \in BOOLEAN
  BY <1>1, Zenon
     DEF Flags, AppendStep, Emit, EmitRefused, WritePart, WriteLine, Sync, Record,
         UpdateCache, Publish, AppendFails, SinkTimeout, diskVars
<1>3. live' \in BOOLEAN
  <2>1. live' = live \/ live' = FALSE \/ live' = (live /\ ~Terminal(flight))
    BY Zenon
       DEF AppendStep, Emit, EmitRefused, WritePart, WriteLine, Sync, Record,
           UpdateCache, Publish, AppendFails, SinkTimeout, writerVars, Writing
  <2> QED
    BY <1>1, <2>1, Zenon DEF Flags
<1>4. mayWait' \in [Readers -> BOOLEAN]
  <2>1. \/ mayWait' = mayWait
        \/ mayWait' = [r \in Readers |-> mayWait[r] /\ polls[r] # "waiting"]
    BY Zenon
       DEF AppendStep, Emit, EmitRefused, WritePart, WriteLine, Sync, Record,
           UpdateCache, Publish, AppendFails, SinkTimeout, readVars
  <2> QED
    BY <1>1, <2>1, Zenon DEF Flags
<1>5. DiskTypes'
  <2>1. CASE WriteLine
    <3>1. /\ file' = Append(file, flight) /\ UNCHANGED <<synced, manifest>>
          /\ writer = "writing"
      BY <2>1, Zenon DEF WriteLine
    <3>2. Len(file) < MaxEvents
      BY <1>1, <3>1, Zenon DEF AppendInv
    <3> QED
      BY <1>1, <3>1, <3>2, HistoryAssumption DEF DiskTypes, MemoryTypes
  <2>2. CASE Sync
    BY <1>1, <2>2 DEF Sync, DiskTypes
  <2>3. CASE Record
    BY <1>1, <2>3
       DEF Record, AfterEvent, DiskTypes, MemoryTypes, AppendInv, Cursors, Statuses
  <2>4. CASE ~WriteLine /\ ~Sync /\ ~Record
    <3>1. UNCHANGED <<file, synced, manifest>>
      BY <2>4, Zenon
         DEF AppendStep, Emit, EmitRefused, WritePart, UpdateCache, Publish,
             AppendFails, SinkTimeout, diskVars
    <3> QED
      BY <1>1, <3>1 DEF DiskTypes
  <2> QED
    BY <2>1, <2>2, <2>3, <2>4, Zenon
<1>6. MemoryTypes'
  <2>1. ASSUME NEW k \in Stream!Kinds, Emit(k)
        PROVE  MemoryTypes'
    <3>1. /\ UNCHANGED <<host, published, snapVars>>
          /\ emitted' = emitted + 1 /\ emitted = manifest.cursor
          /\ writer' = "writing" /\ flight' = k
      BY <2>1, Zenon DEF Emit
    <3>2. Len(file) < MaxEvents /\ manifest.cursor = Len(file)
      BY <1>1, <2>1, Zenon DEF Emit, AppendInv
    <3> QED
      BY <1>1, <3>1, <3>2, HistoryAssumption
         DEF MemoryTypes, DiskTypes, Cursors, WriterStages, snapVars
  <2>2. CASE WriteLine \/ Sync \/ Record
    BY <1>1, <2>2 DEF WriteLine, Sync, Record, MemoryTypes, WriterStages, Writing, snapVars
  <2>3. CASE UpdateCache
    BY <1>1, <2>3
       DEF UpdateCache, MemoryTypes, DiskTypes, CacheExact, IInv, WriterStages, Writing
  <2>4. CASE Publish
    BY <1>1, <2>4 DEF Publish, MemoryTypes, DiskTypes, WriterStages, Hosts, snapVars
  <2>5. CASE AppendFails
    BY <1>1, <2>5 DEF AppendFails, MemoryTypes, WriterStages, Hosts, snapVars
  <2>6. CASE EmitRefused \/ WritePart \/ SinkTimeout
    BY <1>1, <2>6
       DEF EmitRefused, WritePart, SinkTimeout, MemoryTypes, writerVars, snapVars
  <2> QED
    BY <2>1, <2>2, <2>3, <2>4, <2>5, <2>6 DEF AppendStep
<1>7. ReaderTypes'
  <2>1. CASE Publish
    BY <1>1, <2>1 DEF Publish, ReaderTypes, PollStages
  <2>2. CASE ~Publish
    <3>1. UNCHANGED readVars
      BY <2>2, Zenon
         DEF AppendStep, Emit, EmitRefused, WritePart, WriteLine, Sync, Record,
             UpdateCache, AppendFails, SinkTimeout
    <3> QED
      BY <1>1, <3>1 DEF ReaderTypes, readVars
  <2> QED
    BY <2>1, <2>2
<1>8. (Flags /\ DiskTypes /\ MemoryTypes /\ ReaderTypes)'
  BY <1>2, <1>3, <1>4, <1>5, <1>6, <1>7, Zenon DEF Flags
<1> QED
  BY <1>8, TypeParts, PTL

\* A step that changes neither the disk nor what was published keeps these.
LEMMA DiskFrame ==
  ASSUME IInv, UNCHANGED <<file, synced, manifest, published>>
  PROVE  /\ PublishedDurable'
         /\ Reflects(manifest) <=> Reflects(manifest)'
         /\ manifest.cursor <= Len(file) <=> (manifest.cursor <= Len(file))'
BY DEF IInv, PublishedDurable, Reflects

LEMMA ReadersFrame == IInv /\ UNCHANGED <<published, readVars>> => PollInv' /\ NoLostWakeup'
BY DEF IInv, PollInv, NoLostWakeup, readVars

LEMMA AppendPreserves == IInv /\ AppendStep => IInv'
<1> SUFFICES ASSUME IInv, AppendStep
             PROVE  /\ AppendInv' /\ ManifestInv' /\ PollInv'
                    /\ PublishedDurable' /\ CacheExact' /\ NoLostWakeup'
  BY AppendTypes DEF IInv
<1> DEFINE Goal == /\ AppendInv' /\ ManifestInv' /\ PollInv'
                   /\ PublishedDurable' /\ CacheExact' /\ NoLostWakeup'
<1>1. /\ AppendInv /\ ManifestInv /\ PublishedDurable /\ CacheExact
      /\ Len(file) \in Nat /\ synced \in 0..Len(file)
      /\ manifest.cursor \in Nat /\ published \in Nat
      /\ file \in Seq(Stream!Kinds) /\ flight \in Stream!Kinds
      /\ DiskTypes
  BY TypeParts DEF IInv, DiskTypes, MemoryTypes, Cursors
<1>2. ASSUME NEW k \in Stream!Kinds, Emit(k)
      PROVE  Goal
  <2>1. UNCHANGED <<file, torn, synced, manifest, host, published, cache, readVars>>
    BY <1>2 DEF Emit, diskVars, snapVars
  <2>2. AppendInv'
    BY <1>1, <1>2, <2>1 DEF Emit, AppendInv
  <2>3. ManifestInv' /\ PublishedDurable' /\ PollInv' /\ NoLostWakeup' /\ CacheExact'
    BY <1>1, <2>1, DiskFrame, ReadersFrame DEF ManifestInv, CacheExact
  <2> QED
    BY <2>2, <2>3
<1>3. CASE EmitRefused
  <2>1. UNCHANGED <<file, torn, synced, manifest, host, writer, published, cache, readVars>>
    BY <1>3 DEF EmitRefused, diskVars, snapVars
  <2>2. AppendInv'
    BY <1>1, <1>3, <2>1, Zenon DEF EmitRefused, AppendInv
  <2>3. ManifestInv' /\ PublishedDurable' /\ PollInv' /\ NoLostWakeup' /\ CacheExact'
    BY <1>1, <2>1, DiskFrame, ReadersFrame DEF ManifestInv, CacheExact
  <2> QED
    BY <2>2, <2>3
<1>4. CASE WritePart
  <2>1. UNCHANGED <<file, synced, manifest, host, writerVars, cache, readVars>>
    BY <1>4 DEF WritePart, snapVars
  <2>2. AppendInv'
    BY <1>1, <2>1 DEF AppendInv, writerVars
  <2>3. ManifestInv' /\ PublishedDurable' /\ PollInv' /\ NoLostWakeup' /\ CacheExact'
    BY <1>1, <2>1, DiskFrame, ReadersFrame DEF ManifestInv, CacheExact, writerVars
  <2> QED
    BY <2>2, <2>3
<1>5. CASE WriteLine
  <2>1. /\ UNCHANGED <<synced, manifest, host, flight, live, published, cache, readVars>>
        /\ writer = "writing" /\ writer' = "written"
        /\ file' = Append(file, flight)
    BY <1>5 DEF WriteLine, Writing, snapVars
  <2>2. /\ manifest.cursor = Len(file) /\ Len(file') = Len(file) + 1
        /\ file'[Len(file')] = flight
        /\ \A i \in 1..manifest.cursor : file'[i] = file[i]
    BY <1>1, <2>1 DEF AppendInv
  <2>3. AppendInv'
    BY <1>1, <2>1, <2>2 DEF AppendInv
  <2>4. Reflects(manifest)'
    <3>1. Reflects(manifest)
      BY <1>1, <2>2 DEF ManifestInv
    <3> QED
      BY <1>1, <2>1, <2>2, <3>1, ReflectsFrame DEF Reflects, DiskTypes
  <2>5. ManifestInv'
    BY <1>1, <2>1, <2>2, <2>4 DEF ManifestInv
  <2>6. PublishedDurable' /\ PollInv' /\ NoLostWakeup' /\ CacheExact'
    BY <1>1, <2>1, ReadersFrame DEF PublishedDurable, CacheExact
  <2> QED
    BY <2>3, <2>5, <2>6
<1>6. CASE Sync
  <2>1. /\ UNCHANGED <<file, manifest, host, flight, live, published, cache, readVars>>
        /\ writer = "written" /\ writer' = "synced" /\ synced' = Len(file)
    BY <1>6 DEF Sync, Writing, snapVars
  <2>2. AppendInv'
    BY <1>1, <2>1 DEF AppendInv
  <2>3. ManifestInv' /\ PublishedDurable' /\ PollInv' /\ NoLostWakeup' /\ CacheExact'
    BY <1>1, <2>1, ReadersFrame DEF ManifestInv, Reflects, PublishedDurable, CacheExact
  <2> QED
    BY <2>2, <2>3
<1>7. CASE Record
  <2>1. /\ UNCHANGED <<file, synced, host, flight, live, published, cache, readVars>>
        /\ writer = "synced" /\ writer' = "recorded"
        /\ manifest' = AfterEvent(manifest, flight)
    BY <1>7 DEF Record, Writing, snapVars
  <2>2. /\ Len(file) = manifest.cursor + 1 /\ file[Len(file)] = flight
        /\ synced = Len(file) /\ manifest'.cursor = Len(file)
    BY <1>1, <2>1 DEF AppendInv, AfterEvent
  <2>3. AppendInv'
    BY <1>1, <2>1, <2>2 DEF AppendInv
  <2>4. Reflects(manifest)'
    <3>1. Reflects(manifest)
      BY <1>1, <2>1 , <2>2 DEF ManifestInv, AppendInv
    <3>2. CASE flight = "activity"
      BY <1>1, <2>1, <2>2, <3>1, <3>2 DEF Reflects, AfterEvent
    <3>3. CASE flight # "activity"
      BY <1>1, <2>1, <2>2, <3>3 DEF Reflects, AfterEvent
    <3> QED
      BY <3>2, <3>3
  <2>5. ManifestInv' /\ PublishedDurable' /\ PollInv' /\ NoLostWakeup' /\ CacheExact'
    BY <1>1, <2>1, <2>2, <2>4, ReadersFrame DEF ManifestInv, PublishedDurable, CacheExact
  <2> QED
    BY <2>3, <2>5
<1>8. CASE UpdateCache
  <2>1. /\ UNCHANGED <<file, synced, manifest, host, flight, live, published, readVars>>
        /\ writer = "recorded" /\ writer' = "cached"
    BY <1>8 DEF UpdateCache, Writing, diskVars
  <2>2. AppendInv'
    BY <1>1, <2>1 DEF AppendInv
  <2>3. ManifestInv' /\ PublishedDurable' /\ PollInv' /\ NoLostWakeup'
    BY <1>1, <2>1, DiskFrame, ReadersFrame DEF ManifestInv
  <2>4. CacheExact'
    BY <1>1, <1>8 DEF UpdateCache, CacheExact
  <2> QED
    BY <2>2, <2>3, <2>4
<1>9. CASE Publish
  <2>1. /\ UNCHANGED <<file, synced, manifest, cache>>
        /\ writer = "cached" /\ writer' = "ready" /\ host' = "serving"
        /\ published' = manifest.cursor
    BY <1>9 DEF Publish, diskVars, snapVars
  <2>2. manifest.cursor = Len(file) /\ synced = Len(file)
    BY <1>1, <2>1 DEF AppendInv
  <2>3. AppendInv'
    BY <1>1, <2>1, <2>2 DEF AppendInv
  <2>4. ManifestInv' /\ PublishedDurable' /\ CacheExact'
    BY <1>1, <2>1, <2>2 DEF ManifestInv, Reflects, PublishedDurable, CacheExact
  <2>5. PollInv' /\ NoLostWakeup'
    <3>1. ReaderTypes /\ PollInv /\ published <= published'
      BY <1>1, <2>1, <2>2, TypeParts DEF IInv, PublishedDurable
    <3>2. /\ UNCHANGED <<seen, page, after>>
          /\ polls' = [r \in Readers |->
                         IF polls[r] = "waiting" THEN "observed" ELSE polls[r]]
      BY <1>9 DEF Publish
    <3> QED
      BY <1>1, <2>1, <3>1, <3>2 DEF PollInv, NoLostWakeup, ReaderTypes, Cursors
  <2> QED
    BY <2>3, <2>4, <2>5
<1>10. CASE AppendFails
  <2>1. /\ UNCHANGED <<file, synced, manifest, published, cache, readVars>>
        /\ writer # "ready" /\ writer' = "ready"
        /\ host' = IF host = "interrupting" THEN "failed" ELSE host
    BY <1>10 DEF AppendFails, diskVars, snapVars
  <2>2. ~live'
    BY <1>10, Zenon DEF AppendFails
  <2>3. host \in {"interrupting", "serving"}
    BY <1>1, <2>1 DEF AppendInv
  <2>4. AppendInv'
    BY <2>1, <2>2, <2>3 DEF AppendInv
  <2>5. ManifestInv' /\ PublishedDurable' /\ PollInv' /\ NoLostWakeup' /\ CacheExact'
    BY <1>1, <2>1, <2>3, DiskFrame, ReadersFrame DEF ManifestInv, CacheExact
  <2> QED
    BY <2>4, <2>5
<1>11. CASE SinkTimeout
  <2>1. UNCHANGED <<file, torn, synced, manifest, host, writer, flight, published, cache, readVars>>
    BY <1>11 DEF SinkTimeout, diskVars, snapVars
  <2>2. AppendInv'
    BY <1>1, <1>11, <2>1, Zenon DEF SinkTimeout, AppendInv
  <2>3. ManifestInv' /\ PublishedDurable' /\ PollInv' /\ NoLostWakeup' /\ CacheExact'
    BY <1>1, <2>1, DiskFrame, ReadersFrame DEF ManifestInv, CacheExact
  <2> QED
    BY <2>2, <2>3
<1> QED
  BY <1>2, <1>3, <1>4, <1>5, <1>6, <1>7, <1>8, <1>9, <1>10, <1>11, Zenon DEF AppendStep

-------------------------------------------------------------------------------
(* Crashes and startup.                                                     *)

LEMMA DeathTypes ==
  ASSUME IInv, Dies
  PROVE  /\ MemoryTypes' /\ ReaderTypes'
         /\ live' \in BOOLEAN /\ mayWait' \in [Readers -> BOOLEAN]
<1>1. MemoryTypes /\ ReaderTypes
  BY TypeParts DEF IInv
<1>2. mayWait' = [r \in Readers |-> FALSE] /\ live' = FALSE
  BY Zenon DEF Dies
<1>3. mayWait' \in [Readers -> BOOLEAN] /\ live' \in BOOLEAN
  BY <1>2, Zenon
<1>4. MemoryTypes' /\ ReaderTypes'
  BY <1>1, HistoryAssumption
     DEF Dies, MemoryTypes, ReaderTypes, Hosts, WriterStages, PollStages, Cursors
<1> QED
  BY <1>3, <1>4

LEMMA DeathPreserves ==
  ASSUME IInv, Dies
  PROVE  AppendInv' /\ PollInv' /\ CacheExact' /\ NoLostWakeup'
<1>1. AppendInv'
  <2>1. ~live' /\ host' = "down" /\ writer' = "ready"
    BY Zenon DEF Dies
  <2> QED
    BY <2>1 DEF AppendInv
<1>2. PollInv' /\ CacheExact' /\ NoLostWakeup'
  BY DEF IInv, Dies, PollInv, CacheExact, NoLostWakeup
<1> QED
  BY <1>1, <1>2

LEMMA PowerLossPreserves == IInv /\ PowerLoss => IInv'
<1> SUFFICES ASSUME IInv, PowerLoss
             PROVE  IInv'
  OBVIOUS
<1>1. /\ DiskTypes /\ Flags /\ ManifestInv /\ published \in Nat
      /\ published <= synced
  BY TypeParts DEF IInv, MemoryTypes, Cursors, PublishedDurable
<1>2. Dies
  BY DEF PowerLoss
<1>3. PICK n \in synced..Len(file) :
        /\ file' = SubSeq(file, 1, n) /\ synced' = n
  BY Zenon DEF PowerLoss
<1>4. PICK m \in [cursor : 0..manifest.cursor, status : Statuses] :
        /\ manifest' = m
        /\ m = manifest \/ (m.cursor <= Len(file) /\ Reflects(m))
  BY Zenon DEF PowerLoss
<1>5. /\ n \in Nat /\ Len(file') = n
      /\ \A i \in 1..n : file'[i] = file[i]
      /\ file' \in Seq(Stream!Kinds)
      /\ m \in [cursor : Cursors, status : Statuses]
  <2>1. /\ file \in Seq(Stream!Kinds) /\ Len(file) \in Nat /\ synced \in Nat
        /\ manifest.cursor \in 0..MaxEvents
    BY <1>1 DEF DiskTypes, Cursors
  <2>2. n \in Nat /\ n <= Len(file)
    BY <2>1
  <2>3. m \in [cursor : Cursors, status : Statuses]
    BY <2>1, HistoryAssumption DEF Cursors
  <2>4. file' \in Seq(Stream!Kinds) /\ Len(file') = n
        /\ \A i \in 1..n : file'[i] = file[i]
    BY <1>3, <2>1, <2>2
  <2> QED
    BY <2>2, <2>3, <2>4
<1>6. DiskTypes'
  <2>1. n <= MaxEvents
    BY <1>1, <1>5, HistoryAssumption DEF DiskTypes
  <2> QED
    BY <1>3, <1>4, <1>5, <2>1 DEF DiskTypes
<1>7. torn' \in BOOLEAN
  BY DEF PowerLoss
<1>8. ManifestInv'
  <2>1. host' = "down"
    BY <1>2 DEF Dies
  <2>2. ASSUME manifest'.cursor <= Len(file')
        PROVE  Reflects(manifest)'
    <3>1. Reflects(m) /\ m.cursor <= Len(file)
      BY <1>1, <1>3, <1>4, <1>5, <2>2 DEF ManifestInv, DiskTypes
    <3>2. \A i \in 1..m.cursor : file'[i] = file[i]
      BY <1>4, <1>5, <2>2 DEF Cursors
    <3> QED
      BY <1>1, <1>4, <1>5, <2>2, <3>1, <3>2, ReflectsFrame DEF Reflects
  <2> QED
    BY <2>1, <2>2 DEF ManifestInv
<1>9. PublishedDurable'
  BY <1>1, <1>2, <1>3, <1>5 DEF Dies, PublishedDurable, DiskTypes
<1>10. TypeOK'
  <2>1. (Flags /\ DiskTypes /\ MemoryTypes /\ ReaderTypes)'
    BY <1>2, <1>6, <1>7, DeathTypes, Zenon DEF Flags
  <2> QED
    BY <2>1, TypeParts, PTL
<1> QED
  BY <1>2, <1>8, <1>9, <1>10, DeathPreserves DEF IInv

LEMMA CrashPreserves == IInv /\ Crash => IInv'
<1> SUFFICES ASSUME IInv, Crash
             PROVE  IInv'
  OBVIOUS
<1>1. Dies /\ UNCHANGED diskVars
  BY DEF Crash
<1>2. UNCHANGED <<file, torn, synced, manifest, published>> /\ host' = "down"
  BY <1>1 DEF Dies, diskVars
<1>3. TypeOK'
  <2>1. DiskTypes' /\ Flags'
    <3>1. DiskTypes /\ torn \in BOOLEAN
      BY TypeParts, Zenon DEF IInv, Flags
    <3>2. DiskTypes'
      BY <1>2, <3>1 DEF DiskTypes
    <3> QED
      BY <1>1, <1>2, <3>1, <3>2, DeathTypes, Zenon DEF Flags
  <2>2. (Flags /\ DiskTypes /\ MemoryTypes /\ ReaderTypes)'
    BY <1>1, <2>1, DeathTypes
  <2> QED
    BY <2>2, TypeParts, PTL
<1>4. ManifestInv' /\ PublishedDurable'
  BY <1>2, DiskFrame DEF IInv, ManifestInv
<1> QED
  BY <1>1, <1>3, <1>4, DeathPreserves DEF IInv

\* The steps of a startup, which the process takes alone.
StartupStep ==
  \/ Boot \/ RepairTail \/ RebuildManifest
  \/ KeepFinished \/ Interrupt \/ InterruptRefused

LEMMA StartupTypes == IInv /\ StartupStep => TypeOK'
<1> SUFFICES ASSUME IInv, StartupStep
             PROVE  TypeOK'
  OBVIOUS
<1>1. /\ UNCHANGED <<file, synced, live, mayWait, snapVars, readVars>>
      /\ torn' = torn \/ torn' = FALSE
  BY Zenon
     DEF StartupStep, Boot, RepairTail, RebuildManifest, KeepFinished, Interrupt,
         InterruptRefused, diskVars, writerVars, readVars
<1>2. Flags /\ DiskTypes /\ MemoryTypes /\ ReaderTypes
  BY TypeParts DEF IInv
<1>3. Flags'
  BY <1>1, <1>2, Zenon DEF Flags
<1>4. DiskTypes'
  <2>1. manifest' \in [cursor : Cursors, status : Statuses]
    <3>1. Len(file) \in Cursors
      BY <1>2 DEF DiskTypes, Cursors
    <3>2. CASE RebuildManifest
      BY <1>2, <3>1, <3>2 DEF RebuildManifest, DiskTypes
    <3>3. CASE ~RebuildManifest
      BY <1>2, <3>3
         DEF StartupStep, Boot, RepairTail, KeepFinished, Interrupt,
             InterruptRefused, diskVars, DiskTypes
    <3> QED
      BY <3>2, <3>3
  <2> QED
    BY <1>1, <1>2, <2>1 DEF DiskTypes
<1>5. MemoryTypes'
  BY <1>1, <1>2
     DEF StartupStep, Boot, RepairTail, RebuildManifest, KeepFinished, Interrupt,
         InterruptRefused, writerVars, snapVars, MemoryTypes, Hosts, WriterStages
<1>6. ReaderTypes'
  BY <1>1, <1>2 DEF readVars, ReaderTypes
<1>7. (Flags /\ DiskTypes /\ MemoryTypes /\ ReaderTypes)'
  BY <1>3, <1>4, <1>5, <1>6
<1> QED
  BY <1>7, TypeParts, PTL

LEMMA StartupPreserves == IInv /\ StartupStep => IInv'
<1> SUFFICES ASSUME IInv, StartupStep
             PROVE  IInv'
  OBVIOUS
<1>1. /\ AppendInv /\ ManifestInv
      /\ Len(file) \in Nat /\ Len(file) <= MaxEvents /\ manifest.cursor \in Nat
  BY TypeParts DEF IInv, DiskTypes, Cursors
<1>2. /\ host \notin {"interrupting", "serving"}
      /\ UNCHANGED <<file, synced, live>>
  BY DEF StartupStep, Boot, RepairTail, RebuildManifest, KeepFinished, Interrupt,
         InterruptRefused, diskVars, writerVars
<1>3. writer = "ready" /\ ~live /\ ~live'
  BY <1>1, <1>2, Zenon DEF AppendInv
<1>4. ASSUME Boot \/ RepairTail
      PROVE  AppendInv' /\ ManifestInv'
  <2>1. UNCHANGED <<manifest, writer>> /\ host \in {"down", "repairing"}
        /\ host' \in {"repairing", "rebuilding"}
    BY <1>4 DEF Boot, RepairTail, diskVars, writerVars
  <2> QED
    BY <1>1, <1>2, <1>3, <2>1 DEF AppendInv, ManifestInv, Reflects
<1>5. ASSUME RebuildManifest
      PROVE  AppendInv' /\ ManifestInv'
  <2>1. host' = "deciding" /\ writer' = writer
    BY <1>5 DEF RebuildManifest, writerVars
  <2>2. manifest'.cursor = Len(file) /\ Reflects(manifest)'
    BY <1>1, <1>2, <1>5 DEF RebuildManifest, ManifestInv, Reflects
  <2> QED
    BY <1>1, <1>2, <1>3, <2>1, <2>2 DEF AppendInv, ManifestInv
<1>6. ASSUME KeepFinished \/ InterruptRefused
      PROVE  AppendInv' /\ ManifestInv'
  <2>1. UNCHANGED <<manifest, writer>> /\ host = "deciding"
        /\ host' \in {"serving", "refused"}
    BY <1>6 DEF KeepFinished, InterruptRefused, diskVars, writerVars
  <2> QED
    BY <1>1, <1>2, <1>3, <2>1 DEF AppendInv, ManifestInv, Reflects
<1>7. ASSUME Interrupt
      PROVE  AppendInv' /\ ManifestInv'
  <2>1. /\ UNCHANGED manifest /\ host = "deciding" /\ host' = "interrupting"
        /\ writer' = "writing" /\ ~Terminal(manifest.status) /\ Len(file) < MaxEvents
    BY <1>7 DEF Interrupt, diskVars
  <2> QED
    BY <1>1, <1>2, <1>3, <2>1 DEF AppendInv, ManifestInv, Reflects, Terminal
<1>8. AppendInv' /\ ManifestInv'
  BY <1>4, <1>5, <1>6, <1>7 DEF StartupStep
<1>9. UNCHANGED <<published, synced, cache, readVars>>
  BY Zenon
     DEF StartupStep, Boot, RepairTail, RebuildManifest, KeepFinished, Interrupt,
         InterruptRefused, diskVars, writerVars, snapVars
<1>10. PollInv' /\ NoLostWakeup'
  BY <1>9, ReadersFrame
<1>11. PublishedDurable' /\ CacheExact'
  BY <1>9 DEF IInv, PublishedDurable, CacheExact
<1> QED
  BY <1>8, <1>10, <1>11, StartupTypes DEF IInv

-------------------------------------------------------------------------------
(* The invariant, and what follows from it.                                 *)

LEMMA NextIInv == IInv /\ [Next]_vars => IInv'
<1> SUFFICES ASSUME IInv, [Next]_vars
             PROVE  IInv'
  OBVIOUS
<1>1. CASE AppendStep \/ SnapshotStep \/ ReadStep
  BY <1>1, AppendPreserves, SnapshotPreserves, ReadPreserves
<1>2. CASE RecoveryStep
  BY <1>2, CrashPreserves, PowerLossPreserves, StartupPreserves
     DEF RecoveryStep, StartupStep
<1>3. CASE UNCHANGED vars
  BY <1>3
     DEF vars, diskVars, writerVars, snapVars, readVars, IInv, TypeOK, AppendInv,
         ManifestInv, PollInv, PublishedDurable, CacheExact, NoLostWakeup, Reflects
<1> QED
  BY <1>1, <1>2, <1>3 DEF Next

\* The log, its synced part, the manifest and what was published are never
\* further apart than the stage of the append allows, through every crash.
THEOREM Invariance == Spec => []IInv
BY InitIInv, NextIInv, PTL DEF Spec

\* Every variable has its type, for any number of readers and any log size.
THEOREM TypeCorrect == Spec => []TypeOK
<1>1. IInv => TypeOK
  BY DEF IInv
<1> QED
  BY <1>1, Invariance, PTL

\* Recovery and status calls act on a manifest that reflects the log.
THEOREM ManifestTruth == Spec => []ManifestHonest
<1>1. IInv => ManifestHonest
  BY DEF IInv, ManifestInv, ManifestHonest
<1> QED
  BY <1>1, Invariance, PTL

\* Persist-before-publish: what subscribers saw survives a power loss.
THEOREM PublishedSurvives == Spec => []PublishedDurable
<1>1. IInv => PublishedDurable
  BY DEF IInv
<1> QED
  BY <1>1, Invariance, PTL

\* A cached snapshot projection is exact, whatever appends it raced with.
THEOREM CacheCorrect == Spec => []CacheExact
<1>1. IInv => CacheExact
  BY DEF IInv
<1> QED
  BY <1>1, Invariance, PTL

\* Log, manifest, subscribers and cache tell one history through every crash.
THEOREM HistoryAgreement == Spec => []OneHistory
BY TypeCorrect, ManifestTruth, PublishedSurvives, CacheCorrect, PTL DEF OneHistory

\* A long poll never sleeps through an event.
THEOREM WakeupsKept == Spec => []NoLostWakeup
<1>1. IInv => NoLostWakeup
  BY DEF IInv
<1> QED
  BY <1>1, Invariance, PTL

-------------------------------------------------------------------------------
(* Refinement of the event stream.                                          *)

\* An unfinished manifest that has caught up means an unfinished log.
LEMMA NotEnded ==
  ASSUME DiskTypes, Reflects(manifest),
         manifest.cursor = Len(file), ~Terminal(manifest.status)
  PROVE  ~Stream!Ended(file)
<1> SUFFICES ASSUME file # <<>>, file[Len(file)] \in Stream!TerminalKinds
             PROVE  FALSE
  BY DEF Stream!Ended
<1>1. Len(file) \in Nat \ {0}
  BY DEF DiskTypes
<1>2. file[Len(file)] # "activity"
  OBVIOUS
<1>3. PICK i \in 1..Len(file) :
        /\ manifest.status = file[i]
        /\ \A j \in (i + 1)..Len(file) : file[j] = "activity"
  BY <1>1, <1>2 DEF Reflects
<1>4. i = Len(file)
  BY <1>1, <1>2, <1>3
<1> QED
  BY <1>3, <1>4 DEF Terminal

LEMMA StreamStep == IInv /\ [Next]_vars => [Stream!StreamNext]_(Stream!streamVars)
<1> SUFFICES ASSUME IInv, [Next]_vars
             PROVE  Stream!StreamNext \/ UNCHANGED <<file, published>>
  BY DEF Stream!streamVars
<1>1. /\ DiskTypes /\ AppendInv /\ ManifestInv
      /\ published \in Nat /\ published <= synced
      /\ synced \in 0..Len(file) /\ Len(file) \in Nat
  BY TypeParts DEF IInv, DiskTypes, MemoryTypes, Cursors, PublishedDurable
<1>2. ASSUME WriteLine
      PROVE  Stream!StreamNext
  <2>1. /\ writer = "writing" /\ file' = Append(file, flight)
        /\ UNCHANGED published /\ flight \in Stream!Kinds
    BY <1>2, TypeParts DEF WriteLine, Writing, IInv, MemoryTypes
  <2>2. manifest.cursor = Len(file) /\ ~Terminal(manifest.status)
    BY <1>1, <2>1, Zenon DEF AppendInv
  <2>3. ~Stream!Ended(file)
    BY <1>1, <2>2, NotEnded DEF ManifestInv
  <2> QED
    BY <2>1, <2>3 DEF Stream!StreamNext, Stream!Commit
<1>3. ASSUME Publish
      PROVE  Stream!StreamNext \/ UNCHANGED <<file, published>>
  <2>1. published' = manifest.cursor /\ file' = file /\ writer = "cached"
    BY <1>3 DEF Publish, diskVars
  <2>2. published' \in published..Len(file)
    BY <1>1, <2>1 DEF AppendInv
  <2> QED
    BY <1>1, <2>1, <2>2 DEF Stream!StreamNext, Stream!Announce
<1>4. ASSUME PowerLoss
      PROVE  Stream!StreamNext
  <2>1. PICK n \in synced..Len(file) : file' = SubSeq(file, 1, n)
    BY <1>4, Zenon DEF PowerLoss
  <2>2. n \in published..Len(file)
    BY <1>1
  <2>3. UNCHANGED published
    BY <1>4 DEF PowerLoss, Dies
  <2> QED
    BY <2>1, <2>2, <2>3 DEF Stream!StreamNext, Stream!Lose
<1>5. CASE AppendStep
  <2>1. ASSUME ~WriteLine, ~Publish
        PROVE  UNCHANGED <<file, published>>
    BY <1>5, <2>1, Zenon
       DEF AppendStep, Emit, EmitRefused, WritePart, Sync, Record, UpdateCache,
           AppendFails, SinkTimeout, Writing, diskVars, writerVars
  <2> QED
    BY <1>2, <1>3, <2>1
<1>6. CASE RecoveryStep
  <2>1. ASSUME ~PowerLoss
        PROVE  UNCHANGED <<file, published>>
    BY <1>6, <2>1, Zenon
       DEF RecoveryStep, Crash, Dies, Boot, RepairTail, RebuildManifest, KeepFinished,
           Interrupt, InterruptRefused, diskVars, writerVars
  <2> QED
    BY <1>4, <2>1
<1>7. CASE SnapshotStep
  BY <1>7 DEF SnapshotStep, SnapshotReads, SnapshotHits, SnapshotReplays,
              diskVars, writerVars
<1>8. CASE ReadStep
  BY <1>8 DEF ReadStep, PollOpens, PollObserves, PollChecks, PollReads,
              PollReadsTorn, PollReturns, PollWaits, PollTimeout, diskVars, writerVars
<1>9. CASE UNCHANGED vars
  BY <1>9 DEF vars, diskVars, writerVars
<1> QED
  BY <1>5, <1>6, <1>7, <1>8, <1>9 DEF Next

\* Appends, crashes, repairs, snapshots and readers together implement the
\* event stream: it grows by one event at a time, ends with its terminal
\* event, and loses nothing that was published.
THEOREM Implementation == Spec => ImplementsStream
<1>1. Init => Stream!StreamInit
  BY DEF Init, Stream!StreamInit
<1> QED
  BY <1>1, StreamStep, Invariance, PTL DEF Spec, ImplementsStream, Stream!StreamSpec
===============================================================================
