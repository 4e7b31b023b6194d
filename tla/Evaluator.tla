------------------------------- MODULE Evaluator -------------------------------
(***************************************************************************)
(* One evaluation of workflow code: the worker process of workflowWorker.ts, *)
(* the two IPC channels of nodeWorkflowWorkerLauncher.ts and #executeWorker  *)
(* of runWorkflow.ts, which answers its calls, watches its health and        *)
(* decides how the evaluation ended.                                        *)
(*                                                                         *)
(* The workflow code is any code: while it has control (turn) it may call    *)
(* agents or nested workflows, set timers, log, return, throw, or never give *)
(* control back.  Time is kept only as what makes a deadline possible: a      *)
(* worker with control handed back and an interval running always beats in    *)
(* time, so the heartbeat deadline passes only on one that cannot beat.       *)
(***************************************************************************)
EXTENDS Naturals, FiniteSets, Sequences

CONSTANTS
  Calls,        \* the agent and workflow calls the code can make
  Nested,       \* those that are workflow calls
  MaxTimers,    \* bound: timers the code sets
  MaxLogs,      \* bound: log and phase messages it sends
  MaxBeats      \* bound: heartbeats on their way at one time

ASSUME EvaluatorAssumption ==
  /\ IsFiniteSet(Calls) /\ Nested \subseteq Calls
  /\ MaxTimers \in Nat /\ MaxLogs \in Nat /\ MaxBeats \in Nat \ {0}

VARIABLES
  worker,       \* the worker process
  turn,         \* workflow code has control
  cancelled,    \* the worker was told to cancel
  open,         \* pendingAgents and pendingWorkflows
  made,         \* the calls made so far
  timers,       \* timers pending
  timed,        \* timers set so far
  logged,       \* log and phase messages sent so far
  up,           \* worker to parent, the exit notification last
  down,         \* parent to worker
  tail,         \* messageTail: received, not yet handled
  writing,      \* the head of the tail awaits the event log
  ready,        \* ready was handled
  idle,         \* idleSince is set
  marked,       \* #pendingWorkerRequests of this worker
  tasks,        \* the calls being carried out
  aborted,      \* the run's signal
  heard,        \* a terminal message was received in time
  outcome       \* how the evaluation settled

codeVars == <<turn, open, made, timers, timed, logged>>
workerVars == <<worker, cancelled, codeVars>>
parentVars == <<tail, writing, ready, idle, marked, tasks, aborted, heard, outcome>>
vars == <<workerVars, up, down, parentVars>>

Beat == [type : {"heartbeat"}, pending : BOOLEAN]
Request == [type : {"request"}, call : Calls]
Plain == [type : {"ready", "log", "complete", "failed", "exit"}]
FromParent == [type : {"start", "cancel"}] \cup [type : {"answer"}, call : Calls]

TypeOK ==
  /\ worker \in {"starting", "waiting", "running", "terminal", "gone"}
  /\ turn \in BOOLEAN /\ cancelled \in BOOLEAN
  /\ open \subseteq Calls /\ made \subseteq Calls
  /\ timers \in 0..MaxTimers /\ timed \in 0..MaxTimers /\ logged \in 0..MaxLogs
  /\ up \in Seq(Beat \cup Request \cup Plain) /\ tail \in Seq(Beat \cup Request \cup Plain)
  /\ down \in Seq(FromParent)
  /\ writing \in BOOLEAN /\ ready \in BOOLEAN /\ idle \in BOOLEAN
  /\ marked \subseteq Calls /\ tasks \subseteq Calls
  /\ aborted \in BOOLEAN /\ heard \in BOOLEAN
  /\ outcome \in {"none", "completed", "failed", "detached", "unlogged",
                  "startup", "heartbeat", "idle", "exit"}

Message(t) == [type |-> t]
Posts(msg) == up' = Append(up, msg)
InFlight(t) == Cardinality({i \in DOMAIN up : up[i].type = t})
               + Cardinality({i \in DOMAIN tail : tail[i].type = t})

-------------------------------------------------------------------------------
(* The worker process.                                                      *)

\* startWorkflowWorker: the transport is installed, ready is sent.
Boots ==
  /\ worker = "starting"
  /\ worker' = "waiting" /\ Posts(Message("ready"))
  /\ UNCHANGED <<cancelled, codeVars, down, parentVars>>

\* ensureRunning.
MayCall == turn /\ worker = "running" /\ ~cancelled

Call ==
  /\ MayCall
  /\ \E c \in Calls \ made :
       /\ made' = made \cup {c} /\ open' = open \cup {c}
       /\ Posts([type |-> "request", call |-> c])
  /\ UNCHANGED <<worker, turn, cancelled, timers, timed, logged, down, parentVars>>

Log ==
  /\ MayCall /\ logged < MaxLogs
  /\ logged' = logged + 1 /\ Posts(Message("log"))
  /\ UNCHANGED <<worker, turn, cancelled, open, made, timers, timed, down, parentVars>>

SetTimer ==
  /\ MayCall /\ timed < MaxTimers
  /\ timed' = timed + 1 /\ timers' = timers + 1
  /\ UNCHANGED <<worker, turn, cancelled, open, made, logged, up, down, parentVars>>

\* The code awaits something, if only a promise nobody will settle.
Awaits ==
  /\ turn /\ worker = "running"
  /\ turn' = FALSE
  /\ UNCHANGED <<worker, cancelled, open, made, timers, timed, logged, up, down, parentVars>>

\* finish: the code returned, threw, or left a rejection unhandled.
Finish ==
  /\ turn /\ worker = "running"
  /\ worker' = "terminal" /\ turn' = FALSE /\ open' = {} /\ timers' = 0
  /\ \E t \in {"complete", "failed"} : Posts(Message(t))
  /\ UNCHANGED <<cancelled, made, timed, logged, down, parentVars>>

TimerFires ==
  /\ worker = "running" /\ ~turn /\ timers > 0
  /\ timers' = timers - 1 /\ turn' = TRUE
  /\ UNCHANGED <<worker, cancelled, open, made, timed, logged, up, down, parentVars>>

\* What a heartbeat reports: whether anything can still give the code control.
Occupied == open # {} \/ timers > 0

Heartbeat ==
  /\ worker = "running" /\ ~turn
  /\ InFlight("heartbeat") < MaxBeats
  /\ Posts([type |-> "heartbeat", pending |-> Occupied])
  /\ UNCHANGED <<workerVars, down, parentVars>>

\* receive: cancel rejects what is pending, and the code may catch that.
Receive ==
  /\ down # <<>> /\ worker \in {"waiting", "running", "terminal"} /\ ~turn
  /\ down' = Tail(down)
  /\ \/ /\ Head(down).type = "start" /\ worker = "waiting"
        /\ worker' = "running" /\ turn' = TRUE
        /\ UNCHANGED <<cancelled, open, timers>>
     \/ /\ Head(down).type = "cancel" /\ worker # "terminal"
        /\ cancelled' = TRUE /\ open' = {} /\ timers' = 0
        /\ turn' = (worker = "running" /\ open # {})
        /\ UNCHANGED worker
     \/ /\ Head(down).type = "answer" /\ Head(down).call \in open
        /\ open' = open \ {Head(down).call} /\ turn' = TRUE
        /\ UNCHANGED <<worker, cancelled, timers>>
     \/ /\ \/ Head(down).type = "answer" /\ Head(down).call \notin open
           \/ Head(down).type = "cancel" /\ worker = "terminal"
        /\ UNCHANGED <<worker, cancelled, turn, open, timers>>
  /\ UNCHANGED <<made, timed, logged, up, parentVars>>

\* The process ends: by itself once its terminal message was sent, by a crash,
\* or killed.  Its exit is seen after what it sent.
Leaves ==
  /\ worker' = "gone" /\ turn' = FALSE /\ open' = {} /\ timers' = 0 /\ down' = <<>>
  /\ UNCHANGED <<cancelled, made, timed, logged>>

Exit ==
  /\ worker # "gone"
  /\ Leaves /\ Posts(Message("exit"))
  /\ UNCHANGED parentVars

-------------------------------------------------------------------------------
(* #executeWorker.                                                          *)

Pending == outcome = "none"
Sends(msgs) == down' = IF worker = "gone" THEN down ELSE down \o msgs

\* settleResolve and settleReject: the first one counts.
Settles(how) == outcome' = IF Pending THEN how ELSE outcome

\* Were the clock restarted by each heartbeat, no spell would last.
KeepsIdle_Never(msg) == FALSE

\* Any message but a heartbeat ends an idle spell.
KeepsIdle(msg) == msg.type \in {"heartbeat", "exit"}

\* onMessage and onExit: health and idleness are noted on receipt, the rest is
\* chained to what was received before.
Hears ==
  /\ up # <<>> /\ Pending
  /\ up' = Tail(up) /\ tail' = Append(tail, Head(up))
  /\ idle' = (idle /\ KeepsIdle(Head(up)))
  /\ heard' = (heard \/ Head(up).type \in {"complete", "failed"})
  /\ UNCHANGED <<workerVars, down, writing, ready, marked, tasks, aborted, outcome>>

Comes(t) == tail # <<>> /\ Head(tail).type = t

Handle ==
  /\ ~writing
  /\ \/ /\ Comes("ready")
        /\ ready' = TRUE /\ Sends(<<Message("start")>>) /\ tail' = Tail(tail)
        /\ UNCHANGED <<writing, idle, marked, tasks, outcome>>
     \/ /\ Comes("heartbeat")
        /\ idle' = ~Head(tail).pending /\ tail' = Tail(tail)
        /\ UNCHANGED <<down, writing, ready, marked, tasks, outcome>>
     \/ /\ Comes("log")
        /\ writing' = TRUE
        /\ UNCHANGED <<down, tail, ready, idle, marked, tasks, outcome>>
     \/ /\ Comes("failed")
        /\ Settles("failed") /\ tail' = Tail(tail)
        /\ UNCHANGED <<down, writing, ready, idle, marked, tasks>>
  /\ UNCHANGED <<workerVars, up, aborted, heard>>

\* An exit listener that does not wait.
TailDrained_AtOnce == \E i \in DOMAIN tail : tail[i].type = "exit"

\* The exit listener waits for the tail it found to drain.
TailDrained == Comes("exit") /\ ~writing

Exits ==
  /\ TailDrained
  /\ Settles("exit") /\ tail' = Tail(tail)
  /\ UNCHANGED <<workerVars, up, down, writing, ready, idle, marked, tasks, aborted, heard>>

Answer(c) == Sends(<<[type |-> "answer", call |-> c]>>)

\* A refusal that is not sent.
Refuse_Silent(c) == UNCHANGED down

\* #replyAgentError.
Refuse(c) == Answer(c)

\* #acceptAgentRequest refuses a call of an aborted run, or one over a limit,
\* at once; it admits any other after the events that announce it.  A workflow
\* call is a task from the start.
HandleRequest ==
  /\ ~writing /\ Comes("request")
  /\ LET c == Head(tail).call IN
       \/ /\ c \notin Nested
          /\ Refuse(c) /\ tail' = Tail(tail)
          /\ UNCHANGED <<writing, marked, tasks>>
       \/ /\ c \notin Nested /\ ~aborted
          /\ writing' = TRUE
          /\ UNCHANGED <<down, tail, marked, tasks>>
       \/ /\ c \in Nested
          /\ marked' = marked \cup {c} /\ tasks' = tasks \cup {c} /\ tail' = Tail(tail)
          /\ UNCHANGED <<down, writing>>
  /\ UNCHANGED <<workerVars, up, ready, idle, aborted, heard, outcome>>

\* A value returned while a call is marked is refused; any other waits for the
\* end of the phase to be recorded.
Detached == marked # {}

Complete ==
  /\ ~writing /\ Comes("complete")
  /\ IF Detached
     THEN Settles("detached") /\ tail' = Tail(tail) /\ UNCHANGED writing
     ELSE writing' = TRUE /\ UNCHANGED <<tail, outcome>>
  /\ UNCHANGED <<workerVars, up, down, ready, idle, marked, tasks, aborted, heard>>

\* The append the head of the tail waits for ends; it may fail, which settles.
\* The signal is looked at again between the events that announce a call.
Written ==
  /\ writing /\ writing' = FALSE /\ tail' = Tail(tail)
  /\ \/ /\ Settles("unlogged")
        /\ UNCHANGED <<down, marked, tasks>>
     \/ /\ Head(tail).type = "log"
        /\ UNCHANGED <<down, marked, tasks, outcome>>
     \/ /\ Head(tail).type = "complete" /\ Settles("completed")
        /\ UNCHANGED <<down, marked, tasks>>
     \/ /\ Head(tail).type = "request"
        /\ marked' = marked \cup {Head(tail).call}
        /\ tasks' = tasks \cup {Head(tail).call}
        /\ UNCHANGED <<down, outcome>>
     \/ /\ Head(tail).type = "request" /\ aborted
        /\ Refuse(Head(tail).call)
        /\ UNCHANGED <<marked, tasks, outcome>>
  /\ UNCHANGED <<workerVars, up, ready, idle, aborted, heard>>

\* #completeWorkerRequest, by the task's success or by its failure.
TaskEnds ==
  /\ \E c \in tasks :
       /\ tasks' = tasks \ {c} /\ marked' = marked \ {c}
       /\ Answer(c)
  /\ UNCHANGED <<workerVars, up, tail, writing, ready, idle, aborted, heard, outcome>>

\* The watchdog.  A worker in a long turn or at its end sends no heartbeat, and
\* neither does one that is gone.  A deadline outlasts what the parent has only to
\* read: it passes with nothing to handle but what the event log delays.
Silent == turn \/ worker \in {"terminal", "gone"}
Quiet == up = <<>> /\ (tail = <<>> \/ writing)

StartupExpires ==
  /\ Pending /\ ~ready /\ Quiet /\ Settles("startup")
  /\ UNCHANGED <<workerVars, up, down, tail, writing, ready, idle, marked, tasks, aborted, heard>>

HeartbeatExpires ==
  /\ Pending /\ ready /\ Silent /\ Quiet /\ Settles("heartbeat")
  /\ UNCHANGED <<workerVars, up, down, tail, writing, ready, idle, marked, tasks, aborted, heard>>

IdleExpires ==
  /\ Pending /\ idle /\ Settles("idle")
  /\ UNCHANGED <<workerVars, up, down, tail, writing, ready, idle, marked, tasks, aborted, heard>>

\* cancel, interrupt or a failure elsewhere: the worker is asked, then killed.
Abort ==
  /\ Pending /\ ~aborted
  /\ aborted' = TRUE /\ Sends(<<Message("cancel")>>)
  /\ UNCHANGED <<workerVars, up, tail, writing, ready, idle, marked, tasks, heard, outcome>>

\* #killWorkers of an aborted run, or the end of an evaluation that settled.
Kill ==
  /\ worker # "gone"
  /\ \/ aborted /\ Pending /\ Posts(Message("exit"))
     \/ ~Pending /\ UNCHANGED up
  /\ Leaves
  /\ UNCHANGED parentVars

Watchdog == StartupExpires \/ HeartbeatExpires \/ IdleExpires
Code == Call \/ Log \/ SetTimer \/ Awaits \/ Finish
Parent == Hears \/ Handle \/ Exits \/ HandleRequest \/ Complete \/ Written

\* The evaluation is over: its worker is gone, its tail and its calls are done.
Over == ~Pending /\ worker = "gone" /\ tail = <<>> /\ tasks = {} /\ UNCHANGED vars

Init ==
  /\ worker = "starting" /\ turn = FALSE /\ cancelled = FALSE
  /\ open = {} /\ made = {} /\ timers = 0 /\ timed = 0 /\ logged = 0
  /\ up = <<>> /\ down = <<>> /\ tail = <<>>
  /\ writing = FALSE /\ ready = FALSE /\ idle = FALSE
  /\ marked = {} /\ tasks = {} /\ aborted = FALSE /\ heard = FALSE /\ outcome = "none"

Next ==
  \/ Boots \/ Code \/ TimerFires \/ Heartbeat \/ Receive \/ Exit
  \/ Parent \/ TaskEnds \/ Watchdog \/ Abort \/ Kill \/ Over

\* Node's timers and channels, the event log's own deadline and the end of every
\* task are fair.  The workflow code owes nothing: it may keep control for ever.
Fairness ==
  /\ WF_vars(Boots) /\ WF_vars(TimerFires) /\ WF_vars(Heartbeat) /\ WF_vars(Receive)
  /\ WF_vars(Parent) /\ WF_vars(TaskEnds)
  /\ WF_vars(StartupExpires) /\ WF_vars(HeartbeatExpires) /\ WF_vars(IdleExpires)

Spec == Init /\ [][Next]_vars /\ Fairness

-------------------------------------------------------------------------------
(* Properties.                                                              *)

\* An evaluation given up as idle had nothing that could ever give its code
\* control again: no timer, no call asked, carried out or on its way back.  The
\* watchdog reads a heartbeat that was true when it was sent.  (Cancelled code
\* may have dropped calls that still run.)
IdleIsDead ==
  outcome = "idle" =>
    /\ ~turn /\ open = {} /\ timers = 0
    /\ ~aborted => tasks = {} /\ InFlight("request") = 0

\* A value is accepted only of code all of whose calls were answered: nothing
\* the code dropped is still being carried out on its behalf.
NothingDetached == outcome = "completed" => tasks = {} /\ marked = {}

\* An evaluation is reported as a worker that exited only when no terminal
\* message of that worker had arrived: the exit waits for the tail.
ExitIsSilent == outcome = "exit" => ~heard

\* The verdict on an evaluation is one its worker deserves, in whatever order its
\* messages, heartbeats and exit arrive.
VerdictsDeserved == TypeOK /\ IdleIsDead /\ NothingDetached /\ ExitIsSilent

\* A call the code waits for is on its way, carried out, or answered, unless the
\* evaluation is over or its worker cancelled: no request is lost between the
\* channel, the tail and the tasks.
CallsCarried ==
  Pending =>
    \A c \in open :
      \/ \E i \in DOMAIN up : up[i] = [type |-> "request", call |-> c]
      \/ \E i \in DOMAIN tail : tail[i] = [type |-> "request", call |-> c]
      \/ c \in tasks
      \/ \E i \in DOMAIN down : down[i] = [type |-> "answer", call |-> c]

\* Whatever the code does, the evaluation ends: code that spins, waits for
\* nothing, crashes or never starts is given up.
Settled == <>(outcome # "none")

\* A worker whose last message has arrived is never given up for its silence.
CompletedIsNotDead == outcome = "heartbeat" => ~heard
===============================================================================
