------------------------------ MODULE EventStream ------------------------------
(***************************************************************************)
(* What the history of one workflow run promises to those who follow it,    *)
(* without files, processes or recovery: events are appended, at most one   *)
(* terminal event ends them, and an event that was published to subscribers *)
(* is never taken back, whatever crashes.  RunHistory implements it.        *)
(***************************************************************************)
EXTENDS Naturals, Sequences

\* Event types by what they do to the status of the run: all that leave it
\* alone are "activity", the others are named for the status they set; one
\* stands for the terminal types of the runtime, "interrupted" is also what
\* the next service appends for a run that its host left unfinished.
Kinds == {"running", "activity", "cancellation_requested",
          "completed", "interrupted"}
TerminalKinds == {"completed", "interrupted"}

VARIABLES
  log,         \* the events of the run, in order
  published    \* how many of them subscribers were told of

streamVars == <<log, published>>

Ended(s) == s # <<>> /\ s[Len(s)] \in TerminalKinds

StreamInit ==
  /\ log = <<>>
  /\ published = 0

Commit(k) ==
  /\ ~Ended(log)
  /\ log' = Append(log, k)
  /\ UNCHANGED published

Announce ==
  /\ published' \in (published + 1)..Len(log)
  /\ UNCHANGED log

\* A crash takes back events that nobody was told of.
Lose ==
  /\ \E n \in published..Len(log) : log' = SubSeq(log, 1, n)
  /\ UNCHANGED published

StreamNext ==
  \/ \E k \in Kinds : Commit(k)
  \/ Announce
  \/ Lose

StreamSpec == StreamInit /\ [][StreamNext]_streamVars
================================================================================
