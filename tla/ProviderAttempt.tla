---------------------------- MODULE ProviderAttempt ----------------------------
(***************************************************************************)
(* One provider attempt, from the runtime's call of execute to its verdict.   *)
(* Three parties: #executeProviderAttempt of runWorkflow.ts with its liveness *)
(* monitor, the supervisor of processOwnedProviderHost.ts in the same         *)
(* process, and the host of providerHost.ts, a child process that runs one    *)
(* Codex turn with the commands it starts.                                    *)
(*                                                                         *)
(* Codex and its commands do what they like: finish, fail, hang, ignore a     *)
(* signal, leave children behind.  Every deadline of the runtime may pass      *)
(* while what it bounds is still to come.                                     *)
(*                                                                         *)
(* Activities of one attempt do not meet: the events here are those of one.    *)
(***************************************************************************)
EXTENDS Naturals, Sequences

CONSTANTS
  Boundaries,   \* the terminationBoundary values to consider
  MaxEvents     \* bound: events a turn emits

ASSUME AttemptAssumption ==
  Boundaries \subseteq {"process-tree", "unconfirmed-descendants"} /\ MaxEvents \in Nat

VARIABLES
  boundary,     \* provider.terminationBoundary
  phase,        \* where #executeProviderAttempt is
  cause,        \* what ended the race, other than the provider
  runAborted,   \* the run's signal
  signalled,    \* the attempt's signal
  accepts,      \* acceptProviderEvents
  open,         \* the monitor's openActivities has the activity
  known,        \* activityIds has it, and the kind of event that put it there
  outcome,      \* how the attempt ended
  sup,          \* #executePrepared
  promise,      \* the provider's promise
  terminal,     \* execution.terminal
  chain,        \* execution.delivery: events received, not yet delivered
  recording,    \* an append for the first of them is under way
  drafts,       \* workflow events the first of them has yet to append
  shown,        \* the activity in the projection of the log
  undelivered,  \* execution.deliveryError
  reap,         \* execution.termination
  exitSeen,     \* the exit event was handled
  closing,      \* the close event was handled
  host,         \* the host process
  turn,         \* what it does
  told,         \* it was told to stop
  emitted,      \* events it sent
  group,        \* commands of its process group are alive
  escaped,      \* so are some that left the group
  inherits,     \* those commands hold the host's stderr
  up, down,     \* the IPC channel
  parentGone    \* the runtime's process died

endVars == <<phase, cause, runAborted, signalled, accepts, outcome>>
activityVars == <<open, known, drafts, shown>>
runtimeVars == <<endVars, activityVars>>
superVars == <<sup, promise, terminal, chain, recording, undelivered, reap, exitSeen, closing>>
hostVars == <<host, turn, told, emitted>>
treeVars == <<group, escaped>>
given == <<boundary, inherits>>
vars == <<given, runtimeVars, superVars, hostVars, treeVars, up, down, parentGone>>

EventKinds == {"activity.started", "activity.updated", "activity.completed"}

TypeOK ==
  /\ boundary \in Boundaries /\ inherits \in BOOLEAN
  /\ phase \in {"racing", "grace", "hard", "confirming", "done"}
  /\ cause \in {"none", "timeout", "cancellation"}
  /\ runAborted \in BOOLEAN /\ signalled \in BOOLEAN /\ accepts \in BOOLEAN
  /\ outcome \in {"none", "result", "failure", "timedOut", "cancelled", "unconfirmed"}
  /\ sup \in {"preparing", "forked", "settled"}
  /\ promise \in {"pending", "fulfilled", "rejected"}
  /\ terminal \in {"none", "result", "error"}
  /\ chain \in Seq(EventKinds) /\ recording \in BOOLEAN /\ undelivered \in BOOLEAN
  /\ open \in BOOLEAN /\ known \in EventKinds \cup {"none"} /\ drafts \in Seq(EventKinds)
  /\ shown \in {"none", "running", "completed", "rejected"}
  /\ reap \in {"none", "soft", "hard", "done", "failed"}
  /\ exitSeen \in BOOLEAN /\ closing \in BOOLEAN
  /\ host \in {"none", "up", "exited"} /\ told \in BOOLEAN /\ emitted \in 0..MaxEvents
  /\ turn \in {"waiting", "running", "emitting", "finished"}
  /\ group \in BOOLEAN /\ escaped \in BOOLEAN /\ parentGone \in BOOLEAN
  /\ up \in Seq(EventKinds \cup {"result", "error"}) /\ down \in Seq({"start", "cancel", "ack"})

Alive == ~parentGone

-------------------------------------------------------------------------------
(* The runtime.                                                             *)

\* The attempt's signal fires: a host that was forked is sent cancel.
Signal ==
  /\ signalled' = TRUE
  /\ down' = IF sup = "forked" /\ host = "up" /\ ~signalled THEN Append(down, "cancel")
                                                        ELSE down

\* Were it to listen on, what comes while it ends would be recorded.
Refuses_Not == UNCHANGED accepts

\* The attempt stops listening to its provider when its race is lost.
Refuses == accepts' = FALSE

GivesUp(why) == phase' = "grace" /\ cause' = why /\ Refuses

\* AttemptLivenessMonitor: startup, idle, active-operation or absolute.
Timeout ==
  /\ Alive /\ phase = "racing" /\ promise = "pending"
  /\ GivesUp("timeout") /\ Signal
  /\ UNCHANGED <<given, activityVars, runAborted, outcome, superVars, hostVars,
                 treeVars, up, parentGone>>

RunAborts ==
  /\ Alive /\ ~runAborted /\ phase # "done"
  /\ runAborted' = TRUE /\ Signal
  /\ IF phase = "racing" THEN GivesUp("cancellation") ELSE UNCHANGED <<phase, cause, accepts>>
  /\ UNCHANGED <<given, activityVars, outcome, superVars, hostVars, treeVars, up,
                 parentGone>>

RaceSettles ==
  /\ Alive /\ phase = "racing" /\ promise # "pending"
  /\ phase' = "done" /\ outcome' = IF promise = "fulfilled" THEN "result" ELSE "failure"
  /\ UNCHANGED <<given, activityVars, cause, runAborted, signalled, accepts, superVars,
                 hostVars, treeVars, up, down, parentGone>>

\* A runtime that only asks.
Terminates_Never == UNCHANGED reap

\* terminateAttempt, which knows only a host already forked.
Terminates == reap' = IF sup = "forked" /\ reap = "none" THEN "soft" ELSE reap

ProvesTermination == boundary # "unconfirmed-descendants"

\* The cooperative grace ends: with a settlement that proves termination, or
\* with the provider's hook called.
GraceEnds ==
  /\ Alive /\ phase = "grace"
  /\ IF promise # "pending" /\ ProvesTermination
     THEN phase' = "confirming" /\ UNCHANGED reap
     ELSE phase' = "hard" /\ Terminates
  /\ UNCHANGED <<given, activityVars, cause, runAborted, signalled, accepts, outcome,
                 sup, promise, terminal, chain, recording, undelivered, exitSeen,
                 closing, hostVars, treeVars, up, down, parentGone>>

\* The hard graces end, by settlement or by their deadline.
HardEnds ==
  /\ Alive /\ phase = "hard" /\ phase' = "confirming"
  /\ UNCHANGED <<given, activityVars, cause, runAborted, signalled, accepts, outcome,
                 superVars, hostVars, treeVars, up, down, parentGone>>

\* What the runtime takes for an attempt that is over.
Confirmed == ProvesTermination /\ promise # "pending"

\* termination_confirmed, or a warning that it could not be, is recorded, after
\* an event whose append began before.
Confirms ==
  /\ Alive /\ phase = "confirming" /\ ~recording /\ phase' = "done"
  /\ \/ outcome' = CASE ~Confirmed -> "unconfirmed"
                     [] Confirmed /\ cause = "cancellation" -> "cancelled"
                     [] OTHER -> IF promise = "fulfilled" THEN "result" ELSE "timedOut"
     \/ outcome' = "failure"
  /\ UNCHANGED <<given, activityVars, cause, runAborted, signalled, accepts, superVars,
                 hostVars, treeVars, up, down, parentGone>>

-------------------------------------------------------------------------------
(* The supervisor.                                                          *)

\* The signal looked at only before the preparation.
Forkable_Always == TRUE

\* Looked at when the preparation ends, in the step that forks.
Forkable == ~signalled

\* Preparation ends: authentication, the isolated home, the session's import.
Prepares ==
  /\ Alive /\ sup = "preparing"
  /\ \/ /\ Forkable
        /\ sup' = "forked" /\ host' = "up" /\ down' = <<"start">>
        /\ UNCHANGED promise
     \/ /\ sup' = "settled" /\ promise' = "rejected"
        /\ UNCHANGED <<host, down>>
  /\ UNCHANGED <<given, runtimeVars, terminal, chain, recording, undelivered, reap,
                 exitSeen, closing, turn, told, emitted, treeVars, up, parentGone>>

\* #onMessage.
Hears ==
  /\ Alive /\ up # <<>> /\ up' = Tail(up)
  /\ IF Head(up) \in EventKinds THEN chain' = Append(chain, Head(up)) /\ UNCHANGED terminal
                               ELSE terminal' = Head(up) /\ UNCHANGED chain
  /\ UNCHANGED <<given, runtimeVars, sup, promise, recording, undelivered, reap,
                 exitSeen, closing, hostVars, treeVars, down, parentGone>>

\* sendIfConnected.
Acknowledges == down' = IF host = "up" THEN Append(down, "ack") ELSE down

\* An event of an attempt that stopped listening is acknowledged and dropped.
Drops ==
  /\ Alive /\ chain # <<>> /\ drafts = <<>> /\ ~accepts
  /\ chain' = Tail(chain) /\ Acknowledges
  /\ UNCHANGED <<given, runtimeVars, sup, promise, terminal, recording, undelivered,
                 reap, exitSeen, closing, hostVars, treeVars, up, parentGone>>

\* AttemptLivenessMonitor.progress, deaf once its deadline has passed.
Progress(event) ==
  IF cause = "timeout" THEN UNCHANGED open
  ELSE open' = (event = "activity.started" \/ (open /\ event # "activity.completed"))

\* Mutant of Drafts: events go to the log as the provider sent them.
Drafts_AsSent(event) == <<event>>

\* #emitProviderEvent: a start is logged once, and before anything else of its
\* activity.
Drafts(event) ==
  IF event = "activity.started" THEN (IF known = "none" THEN <<event>> ELSE <<>>)
  ELSE IF known = "none" THEN <<"activity.started", event>> ELSE <<event>>

\* context.emit: the first append begins; an event with none is acknowledged.
Delivers ==
  /\ Alive /\ chain # <<>> /\ drafts = <<>> /\ accepts
  /\ Progress(Head(chain))
  /\ known' = IF known = "none" THEN Head(chain) ELSE known
  /\ drafts' = Drafts(Head(chain)) /\ recording' = (drafts' # <<>>)
  /\ IF drafts' # <<>> THEN UNCHANGED <<chain, down>>
                       ELSE chain' = Tail(chain) /\ Acknowledges
  /\ UNCHANGED <<given, endVars, shown, sup, promise, terminal, undelivered, reap,
                 exitSeen, closing, hostVars, treeVars, up, parentGone>>

\* The second append of an event begins when the first has ended, and after what
\* other tasks of the run appended meanwhile.
DeliversOn ==
  /\ Alive /\ drafts # <<>> /\ ~recording /\ recording' = TRUE
  /\ UNCHANGED <<given, runtimeVars, sup, promise, terminal, chain, undelivered, reap,
                 exitSeen, closing, hostVars, treeVars, up, down, parentGone>>

\* reduceWorkflowEvent, which throws at a repeated start or an unknown activity.
Reduced(event) ==
  IF event = "activity.started" THEN (IF shown = "none" THEN "running" ELSE "rejected")
  ELSE IF shown \in {"none", "rejected"} THEN "rejected"
  ELSE IF event = "activity.completed" THEN "completed" ELSE shown

\* The append ends; one that failed condemns the host, and fails those to come.
Records ==
  /\ Alive /\ recording /\ recording' = FALSE
  /\ \/ /\ ~undelivered /\ shown' = Reduced(Head(drafts)) /\ drafts' = Tail(drafts)
        /\ IF drafts' # <<>> THEN UNCHANGED <<chain, down>>
                             ELSE chain' = Tail(chain) /\ Acknowledges
        /\ UNCHANGED <<undelivered, reap>>
     \/ /\ undelivered' = TRUE /\ drafts' = <<>> /\ chain' = Tail(chain)
        /\ reap' = IF reap = "none" THEN "soft" ELSE reap
        /\ UNCHANGED <<shown, down>>
  /\ UNCHANGED <<given, endVars, open, known, sup, promise, terminal, exitSeen, closing,
                 hostVars, treeVars, up, parentGone>>

\* exit: what is left of the group is reaped.  A tool that holds the host's
\* stderr would keep close away for ever.
ExitReaps == IF group THEN "soft" ELSE "done"

SeesExit ==
  /\ Alive /\ host = "exited" /\ ~exitSeen
  /\ exitSeen' = TRUE /\ reap' = IF reap = "none" THEN ExitReaps ELSE reap
  /\ UNCHANGED <<given, runtimeVars, sup, promise, terminal, chain, recording,
                 undelivered, closing, hostVars, treeVars, up, down, parentGone>>

\* terminatePosixProcessGroup: SIGTERM, a grace, SIGKILL, a grace.
GroupEmpty == host # "up" /\ ~group

Reaps ==
  /\ Alive
  /\ \/ /\ reap \in {"soft", "hard"} /\ GroupEmpty /\ reap' = "done"
        /\ UNCHANGED <<host, group>>
     \/ /\ reap = "soft" /\ ~GroupEmpty /\ reap' = "hard"
        /\ host' = "exited" /\ group' = FALSE
     \/ /\ reap = "soft" /\ ~GroupEmpty /\ reap' = "failed"
        /\ UNCHANGED <<host, group>>
  /\ UNCHANGED <<given, runtimeVars, sup, promise, terminal, chain, recording,
                 undelivered, exitSeen, closing, turn, told, emitted, escaped, up, down,
                 parentGone>>

\* close: the process has exited, the channel is drained, stderr is released.
Closes ==
  /\ Alive /\ exitSeen /\ ~closing /\ up = <<>>
  /\ inherits => ~group /\ ~escaped
  /\ closing' = TRUE
  /\ UNCHANGED <<given, runtimeVars, sup, promise, terminal, chain, recording,
                 undelivered, reap, exitSeen, hostVars, treeVars, up, down, parentGone>>

\* #onClose settles once the reaping and then the deliveries have ended.
Delivered == chain = <<>>

Settles ==
  /\ Alive /\ closing /\ sup = "forked"
  /\ reap = "failed" \/ (reap = "done" /\ Delivered)
  /\ sup' = "settled"
  /\ promise' = IF reap = "done" /\ ~undelivered /\ terminal = "result" THEN "fulfilled"
                                                                  ELSE "rejected"
  /\ UNCHANGED <<given, runtimeVars, terminal, chain, recording, undelivered, reap,
                 exitSeen, closing, hostVars, treeVars, up, down, parentGone>>

-------------------------------------------------------------------------------
(* The host process and what it starts.                                     *)

HostHears ==
  /\ host = "up" /\ down # <<>> /\ down' = Tail(down)
  /\ \/ /\ Head(down) = "start" /\ turn' = "running" /\ UNCHANGED told
     \/ /\ Head(down) = "cancel" /\ told' = TRUE /\ UNCHANGED turn
     \/ /\ Head(down) = "ack" /\ turn' = "running" /\ UNCHANGED told
  /\ UNCHANGED <<given, runtimeVars, superVars, host, emitted, treeVars, up,
                 parentGone>>

\* Each event waits for the one before to be acknowledged.
Emits ==
  /\ host = "up" /\ turn = "running" /\ Alive /\ emitted < MaxEvents
  /\ turn' = "emitting" /\ emitted' = emitted + 1
  /\ \E event \in EventKinds : up' = Append(up, event)
  /\ UNCHANGED <<given, runtimeVars, superVars, host, told, treeVars, down, parentGone>>

\* finish: the terminal record is sent, then the channel closed.
Finishes ==
  /\ host = "up" /\ turn = "running" /\ Alive
  /\ turn' = "finished" /\ down' = <<>>
  /\ \E record \in {"result", "error"} : up' = Append(up, record)
  /\ UNCHANGED <<given, runtimeVars, superVars, host, told, emitted, treeVars,
                 parentGone>>

HostExits ==
  /\ host = "up" /\ host' = "exited" /\ down' = <<>>
  /\ UNCHANGED <<given, runtimeVars, superVars, turn, told, emitted, treeVars, up,
                 parentGone>>

\* Commands start while the turn runs, outlive the host, leave its group when
\* nothing contains them, and end.
Commands ==
  /\ \/ /\ host = "up" /\ turn = "running" /\ group' = TRUE /\ UNCHANGED escaped
     \/ /\ group /\ boundary = "unconfirmed-descendants" /\ escaped' = TRUE /\ group' = FALSE
     \/ /\ group' = FALSE /\ UNCHANGED escaped
     \/ /\ escaped' = FALSE /\ UNCHANGED group
  /\ UNCHANGED <<given, runtimeVars, superVars, hostVars, up, down, parentGone>>

ParentDies ==
  /\ Alive /\ phase # "done"
  /\ parentGone' = TRUE /\ down' = <<>>
  /\ UNCHANGED <<given, runtimeVars, superVars, hostVars, treeVars, up>>

\* disconnect: the turn is aborted and a timer kills the host.
SelfDestructs ==
  /\ parentGone /\ host = "up" /\ turn # "finished"
  /\ host' = "exited"
  /\ UNCHANGED <<given, runtimeVars, superVars, turn, told, emitted, treeVars, up, down,
                 parentGone>>

Over == (parentGone \/ phase = "done") /\ UNCHANGED vars

Runtime == Timeout \/ RunAborts \/ RaceSettles \/ GraceEnds \/ HardEnds \/ Confirms
Supervisor ==
  \/ Prepares \/ Hears \/ Drops \/ Delivers \/ DeliversOn \/ Records
  \/ SeesExit \/ Reaps \/ Closes \/ Settles
Host == HostHears \/ Emits \/ Finishes \/ HostExits \/ Commands \/ SelfDestructs

Init ==
  /\ boundary \in Boundaries /\ inherits \in BOOLEAN
  /\ phase = "racing" /\ cause = "none" /\ runAborted = FALSE /\ signalled = FALSE
  /\ accepts = TRUE /\ outcome = "none"
  /\ sup = "preparing" /\ promise = "pending" /\ terminal = "none" /\ chain = <<>>
  /\ recording = FALSE /\ undelivered = FALSE /\ reap = "none" /\ exitSeen = FALSE
  /\ closing = FALSE
  /\ open = FALSE /\ known = "none" /\ drafts = <<>> /\ shown = "none"
  /\ host = "none" /\ turn = "waiting" /\ told = FALSE /\ emitted = 0
  /\ group = FALSE /\ escaped = FALSE /\ up = <<>> /\ down = <<>> /\ parentGone = FALSE

Next == Runtime \/ Supervisor \/ Host \/ ParentDies \/ Over

\* The runtime's deadlines, Node's events and the kernel's signals are fair; the
\* preparation, the host, Codex and its commands are not.
Fairness ==
  /\ WF_vars(Timeout) /\ WF_vars(RaceSettles) /\ WF_vars(GraceEnds) /\ WF_vars(HardEnds)
  /\ WF_vars(Confirms) /\ WF_vars(Records) /\ WF_vars(Reaps) /\ WF_vars(SelfDestructs)

Spec == Init /\ [][Next]_vars /\ Fairness

-------------------------------------------------------------------------------
(* Properties.                                                              *)

\* The provider's promise settles only when the host and its group are gone and
\* no event of the attempt is still on its way to the log: a terminal record
\* alone settles nothing.  A group that survived SIGKILL is reported as that.
SettledIsReaped ==
  promise # "pending" /\ reap # "failed" => host # "up" /\ chain = <<>> /\ up = <<>>

\* A timeout or a cancellation recorded as confirmed, or an attempt that counts
\* as over, leaves nothing of it running, whatever left the process group; so
\* its replacement never runs beside it.
ConfirmedIsOver ==
  outcome \in {"timedOut", "cancelled"} /\ reap # "failed" =>
    host # "up" /\ ~escaped

\* No host runs on for an attempt that ended, or was signalled, without having
\* been told to stop: an abort during the preparation starts no host, one after
\* it reaches the host.
NoUntoldHost ==
  signalled /\ host = "up" /\ Alive =>
    \/ told \/ turn = "finished" \/ reap # "none"
    \/ \E i \in DOMAIN down : down[i] = "cancel"

\* What is settled is reaped, what is confirmed is over, what is to stop was told.
HostAccounted == TypeOK /\ SettledIsReaped /\ ConfirmedIsOver /\ NoUntoldHost

\* No event of a provider is handed to the log once its attempt has ended: what a
\* host not yet killed still sends changes nothing.
NothingRecordedLate ==
  [][drafts = <<>> /\ drafts' # <<>> => outcome = "none" \/ reap = "failed"]_vars

\* Whatever order a turn reports its activity in, the log stays one the reducer
\* accepts: an event it throws at would fail the run and every later reader.  And
\* the monitor knows each start the log shows open: an activity that a timeout
\* leaves in doubt is named to the attempt that replaces it.
ActivityFollowed ==
  /\ shown # "rejected"
  /\ shown = "running" /\ known = "activity.started" /\ ~undelivered =>
       open \/ (drafts # <<>> /\ Head(drafts) = "activity.completed")

\* Every attempt ends, whatever its provider does, and its host with it.
AttemptEnds == []<>(parentGone \/ (outcome # "none" /\ (host # "up" \/ reap = "failed")))

\* A host whose parent died does not live on.
OrphanDies == []<>(parentGone => host # "up")

\* Nor is it appended then: not so for the second half of an event.
NothingAppendedLate ==
  [][~recording /\ recording' => outcome = "none" \/ reap = "failed"]_vars

\* The monitor knows every activity the log shows open: not one first heard of by
\* an update.
DoubtIsNamed ==
  shown = "running" /\ ~undelivered =>
    open \/ (drafts # <<>> /\ Head(drafts) = "activity.completed")

\* An attempt whose provider returned in time is never replaced by another.
ResultKept ==
  [][outcome = "none" /\ outcome' = "unconfirmed" /\ cause = "timeout"
     => promise # "fulfilled"]_vars

\* What was recorded as confirmed stopped is stopped.
ConfirmedIsStopped == outcome \in {"timedOut", "cancelled"} => host # "up" /\ ~group
===============================================================================
