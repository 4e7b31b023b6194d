------------------------------- MODULE Recovery -------------------------------
(***************************************************************************)
(* Runs across restarts: how WorkflowService starts, resumes and recovers   *)
(* runs (src/workflowService.ts), what FileWorkflowStore.createRun makes    *)
(* durable, and which calls a successor takes from its predecessor's        *)
(* journal (src/workflowJournal.ts, src/persistentWorkflowJournal.ts).      *)
(*                                                                         *)
(* One store, one service at a time (StoreLease).  A manifest, a journal    *)
(* and the projected events are durable; everything else dies in a crash.   *)
(* A run makes the calls 1..Calls in order without waiting for answers.     *)
(* The chained key of a call commits to the calls before it, so within a    *)
(* sidecar a key stands for a call and each has at most one entry.          *)
(* Imported Claude journals are left out.                                   *)
(***************************************************************************)
EXTENDS Naturals, FiniteSets, FiniteSetsExt

CONSTANTS
  MaxRuns,       \* runs are 1..MaxRuns, numbered as they are created
  Calls,         \* calls a workflow makes
  Unsafe,        \* calls whose attempts are not safe to replay automatically
  Failing,       \* calls an attempt of which may end in a coverage gap
  Requests,      \* <<client, key, edit>>: what a client may ask; the edit is what
                 \* a resume changes, "original" for nothing
  NoKey,         \* a request without idempotency key
  MaxRoots,      \* runs started afresh
  Policies,      \* whether a host's policy may allow automatic recovery, or not
  MaxCancels,    \* runs a client cancels
  MaxBoots       \* times a service is started on the store

ASSUME RecoveryAssumption ==
  /\ MaxRuns \in Nat \ {0} /\ Calls \in Nat \ {0} /\ MaxBoots \in Nat \ {0}
  /\ Policies \subseteq BOOLEAN /\ MaxCancels \in Nat
  /\ Unsafe \subseteq 1..Calls /\ MaxRoots \in Nat
  /\ Failing \subseteq 1..Calls /\ \A q \in Requests : q[3] \in {"original", "args", "source"}

Runs == 1..MaxRuns
Clients == {q[1] : q \in Requests}
Keys == {q[2] : q \in Requests} \ {NoKey}
Call == 1..Calls
None == 0

VARIABLES
  status,     \* each manifest's status, "absent" before createRun
  cursor,     \* its event cursor: none, one or more events
  from,       \* resumedFromRunId
  origin,     \* lineageId
  key,        \* idempotencyKey
  automatic,  \* recoveryMode is automatic
  version,    \* the program and arguments it runs
  sparse,     \* the journalReuseMode asked for is exact-source-sparse
  journal,    \* per call: what the sidecar says of it
  sidecar,    \* whose source hash the sidecar's snapshot bears
  attempt,    \* per call: the attempt as the events project it
  service,    \* the service's life
  boots,      \* how often it was started
  policy,     \* the host's policy and fingerprint allow automatic recovery
  todo,       \* manifests the startup has yet to look at
  continued,  \* manifests with a successor when it listed them
  recover,    \* manifests it will resume
  op,         \* each client's request in flight
  next,       \* how many calls each run has admitted in this process
  zombie,     \* attempts whose termination was never confirmed
  ambiguous,  \* lineages and unsafe calls dispatched whose outcome is not recorded
  excused     \* lineages the policy, a cancellation or an unsafe call keeps from recovery

manifestVars == <<status, cursor, from, origin, key, automatic, version, sparse>>
journalVars == <<journal, sidecar>>
bootVars == <<service, boots, policy, todo, continued, recover>>
runVars == <<next, zombie>>
histVars == <<ambiguous, excused>>
recoveryVars == <<manifestVars, journalVars, attempt, bootVars, op, runVars, histVars>>

Terminal == {"completed", "completed_with_errors", "failed", "cancelled", "interrupted"}
Resumable == {"interrupted", "failed", "cancelled", "completed_with_errors"}
Versions == {"original", "args", "source"}
Idle == [kind |-> "idle", key |-> NoKey, run |-> None, edit |-> "original"]
Entry(state, by) == [state |-> state, by |-> by]
Blank == [c \in Call |-> Entry("absent", "original")]

\* The source hash a version has: other arguments leave it as it was.
Hash(v) == IF v = "source" THEN "source" ELSE "original"

Created == {r \in Runs : status[r] # "absent"}
FreshRun == Cardinality(Created) + 1
Unfinished == {r \in Created : status[r] \notin Terminal}

\* Once startup has marked what it found, the unfinished runs are this
\* process's own, and an attempt without an entry is with its provider.
Live == IF service \in {"resuming", "ready"} THEN Unfinished ELSE {}
Executing ==
  {e \in Live \X Call : attempt[e[1]][e[2]] = "running" /\ journal[e[1]][e[2]].state = "started"}
ActiveIn(lineage, except) == {r \in Unfinished \ {except} : origin[r] = lineage}
ByKey(k) == IF k = NoKey THEN {} ELSE {r \in Created : key[r] = k}

RecoveryTypeOK ==
  /\ status \in [Runs -> Terminal \cup {"absent", "queued", "running", "cancelling"}]
  /\ cursor \in [Runs -> 0..2] /\ from \in [Runs -> 0..MaxRuns]
  /\ origin \in [Runs -> 0..MaxRuns]
  /\ key \in [Runs -> Keys \cup {NoKey}] /\ automatic \in [Runs -> BOOLEAN]
  /\ version \in [Runs -> Versions] /\ sparse \in [Runs -> BOOLEAN]
  /\ journal \in [Runs -> [Call -> [state : {"absent", "started", "value", "gap"}, by : Versions]]]
  /\ sidecar \in [Runs -> Versions]
  /\ attempt \in [Runs -> [Call -> {"none", "running", "closed"}]]
  /\ service \in {"down", "scanning", "resuming", "ready"}
  /\ boots \in 0..MaxBoots /\ policy \in BOOLEAN
  /\ todo \subseteq Runs /\ continued \subseteq Runs /\ recover \subseteq Runs
  /\ op \in [Clients -> [kind : {"idle", "start", "resume"}, key : Keys \cup {NoKey},
                         run : 0..MaxRuns, edit : Versions]]
  /\ next \in [Runs -> 0..Calls] /\ zombie \subseteq Runs \X Call
  /\ ambiguous \subseteq Runs \X Call /\ excused \subseteq Runs

-------------------------------------------------------------------------------
(* Creation.  #startLoaded reserves the run; createRun writes the inherited *)
(* journal before it publishes the manifest, in one exclusive step.         *)

Create(k, pred, auto, edit) ==
  LET r == FreshRun
  IN /\ status' = [status EXCEPT ![r] = "queued"]
     /\ cursor' = [cursor EXCEPT ![r] = 0]
     /\ from' = [from EXCEPT ![r] = pred]
     /\ origin' = [origin EXCEPT ![r] = IF pred = None THEN r ELSE origin[pred]]
     /\ key' = [key EXCEPT ![r] = k]
     /\ automatic' = [automatic EXCEPT ![r] = auto]
     /\ version' = [version EXCEPT ![r] =
          IF pred = None THEN "original" ELSE IF edit = "original" THEN version[pred] ELSE edit]
     /\ sparse' = [sparse EXCEPT ![r] = pred # None /\ edit = "original"]
     /\ journal' = [journal EXCEPT ![r] = IF pred = None THEN Blank ELSE journal[pred]]
     /\ sidecar' = [sidecar EXCEPT ![r] = IF pred = None THEN "original" ELSE sidecar[pred]]
     /\ ambiguous' = {a \in ambiguous : pred # None => a[1] # origin[pred]}

\* The lineage check of createRun and the creation, for a successor.
CreateSuccessor(k, pred, auto, edit) ==
  /\ ActiveIn(origin[pred], pred) = {}
  /\ FreshRun \in Runs /\ Create(k, pred, auto, edit)

\* The loser returns the winner.
Attach(pred) ==
  /\ ActiveIn(origin[pred], pred) # {}
  /\ UNCHANGED <<manifestVars, journalVars, ambiguous>>

-------------------------------------------------------------------------------
(* Startup: #initializeOnce.                                                *)

Boot ==
  /\ service = "down" /\ boots < MaxBoots
  /\ boots' = boots + 1 /\ service' = "scanning"
  /\ policy' \in Policies
  /\ todo' = Created
  /\ continued' = {from[r] : r \in Created} \ {None}
  /\ recover' = {}
  /\ UNCHANGED <<manifestVars, journalVars, attempt, op, runVars, histVars>>

\* Mutant of RecoverySafe: the provider-wide attestation is enough.
RecoverySafe_Trusting(r) == policy

\* #automaticRecoveryIsSafe: every attempt the events leave running has a
\* terminal journal entry or was assessed safe to replay.
RecoverySafe(r) ==
  /\ policy
  /\ \A c \in Call : attempt[r][c] = "running" =>
       journal[r][c].state \in {"value", "gap"} \/ c \notin Unsafe

\* closeNonterminalAgents: the terminal event of a run ends its open attempts.
ClosesAttempts(r) ==
  attempt' = [attempt EXCEPT ![r] = [c \in Call |->
    IF attempt[r][c] = "running" THEN "closed" ELSE attempt[r][c]]]

\* What keeps a run from recovery, whatever the service decides.
Excuse(r) ==
  \/ ~policy
  \/ status[r] \in {"cancelling", "cancelled"}
  \/ \E c \in Unsafe : attempt[r][c] # "none" /\ journal[r][c].state = "started"

Excuses(r) ==
  excused' = IF Excuse(r) THEN excused \cup {origin[r]} ELSE excused

\* Mutant of ScanFinished: an ended run is ended, interrupted or not.
ScanFinished_Skips(r) ==
  /\ status[r] \in Terminal
  /\ IF status[r] = "interrupted" THEN Excuses(r) ELSE UNCHANGED excused
  /\ UNCHANGED <<status, cursor, attempt, recover>>

\* An interrupted run with no successor is considered again.
ScanFinished(r) ==
  /\ status[r] \in Terminal
  /\ recover' = IF /\ status[r] = "interrupted" /\ r \notin continued
                   /\ RecoverySafe(r) \/ cursor[r] = 1
                THEN recover \cup {r} ELSE recover
  /\ IF status[r] = "interrupted" THEN Excuses(r) ELSE UNCHANGED excused
  /\ UNCHANGED <<status, cursor, attempt>>

\* The dead host's run is marked; one that never started, or was running
\* safely, is resumed.
ScanUnfinished(r) ==
  /\ status[r] \notin Terminal
  /\ recover' = IF \/ status[r] = "running" /\ RecoverySafe(r)
                   \/ status[r] = "queued" /\ cursor[r] = 0
                THEN recover \cup {r} ELSE recover
  /\ status' = [status EXCEPT ![r] = "interrupted"]
  /\ cursor' = [cursor EXCEPT ![r] = Min({2, cursor[r] + 1})]
  /\ ClosesAttempts(r)
  /\ Excuses(r)

Scan ==
  /\ service = "scanning" /\ todo # {}
  /\ LET r == Min(todo)
     IN /\ todo' = todo \ {r}
        /\ ScanFinished(r) \/ ScanUnfinished(r)
  /\ UNCHANGED <<from, origin, key, automatic, version, sparse, journalVars, service, boots,
                 policy, continued, op, runVars, ambiguous>>

ScanEnds ==
  /\ service = "scanning" /\ todo = {}
  /\ service' = "resuming"
  /\ UNCHANGED <<manifestVars, journalVars, attempt, boots, policy, todo, continued, recover,
                 op, runVars, histVars>>

\* One #resumeStored(..., 'automatic') of the recovery loop.
ResumeOne ==
  /\ service = "resuming" /\ recover # {}
  /\ LET r == Min(recover)
     IN /\ recover' = recover \ {r}
        /\ CreateSuccessor(NoKey, r, TRUE, "original") \/ Attach(r)
  /\ UNCHANGED <<attempt, service, boots, policy, todo, continued, op, runVars, excused>>

Ready ==
  /\ service = "resuming" /\ recover = {}
  /\ service' = "ready"
  /\ UNCHANGED <<manifestVars, journalVars, attempt, boots, policy, todo, continued, recover,
                 op, runVars, histVars>>

-------------------------------------------------------------------------------
(* Clients.  What a request reads before it creates is one step, the        *)
(* creation another: what is read of an ended run does not change, and a    *)
(* key or a lineage is looked up again or serialized when it may.  A resume *)
(* of a run that has not ended is refused, and taken to be refused however  *)
(* long its reads take.                                                     *)

\* #serializeIdempotentStart: a second request with the key joins the first.
MayAsk(cl, k) ==
  /\ service = "ready" /\ op[cl].kind = "idle"
  /\ k # NoKey => \A other \in Clients : op[other].key # k

\* The bound on starts: another run only for a key that has one, or races for it.
StartBound(k) ==
  \/ ByKey(k) # {}
  \/ /\ Cardinality({r \in Created : from[r] = None}) < MaxRoots
     /\ \A cl \in Clients : op[cl].kind = "start" => op[cl].key = k /\ k # NoKey

\* #startOnce: a run that has the key is the answer.
Known(k) == ByKey(k) # {}
AskStart(cl, k) ==
  /\ MayAsk(cl, k) /\ StartBound(k) /\ ~Known(k)
  /\ op' = [op EXCEPT ![cl] = [kind |-> "start", key |-> k, run |-> None, edit |-> "original"]]
  /\ UNCHANGED <<manifestVars, journalVars, attempt, bootVars, runVars, histVars>>

StartCreates(cl) ==
  /\ op[cl].kind = "start"
  /\ FreshRun \in Runs /\ Create(op[cl].key, None, FALSE, "original")
  /\ op' = [op EXCEPT ![cl] = Idle]
  /\ UNCHANGED <<attempt, bootVars, runVars, excused>>

\* #resumeStored up to createRun.  What is quarantined of the named run must
\* be abandoned by the operator; its lineage must have no unfinished run.
AskResume(cl, k, r, edit) ==
  /\ MayAsk(cl, k) /\ status[r] \in Resumable
  /\ ~Known(k) /\ ActiveIn(origin[r], r) = {}
  /\ zombie' = {z \in zombie : z[1] # r}
  /\ op' = [op EXCEPT ![cl] = [kind |-> "resume", key |-> k, run |-> r, edit |-> edit]]
  /\ UNCHANGED <<manifestVars, journalVars, attempt, bootVars, next, histVars>>

ResumeCreates(cl) ==
  /\ op[cl].kind = "resume"
  /\ \/ CreateSuccessor(op[cl].key, op[cl].run, FALSE, op[cl].edit)
     \/ Attach(op[cl].run)
  /\ op' = [op EXCEPT ![cl] = Idle]
  /\ UNCHANGED <<attempt, bootVars, runVars, excused>>

-------------------------------------------------------------------------------
(* A run.                                                                   *)

\* PersistentWorkflowJournal.open: a call the sidecar has is the newer
\* generation's, the others come from the inherited snapshots.
Merge(primary, fallback) ==
  [c \in Call |-> IF primary[c].state # "absent" THEN primary[c] ELSE fallback[c]]

\* Its journal opens and runWorkflow emits run.started.
RunStarts(r) ==
  /\ r \in Live /\ status[r] = "queued"
  /\ status' = [status EXCEPT ![r] = "running"]
  /\ cursor' = [cursor EXCEPT ![r] = 1]
  /\ journal' = [journal EXCEPT ![r] =
       Merge(@, IF from[r] = None THEN Blank ELSE journal[from[r]])]
  /\ UNCHANGED <<from, origin, key, automatic, version, sparse, sidecar, attempt, bootVars,
                 op, runVars, histVars>>

\* exactSourceSparse: the reuse mode, and the source the snapshot was made by.
ReusesSparsely(r) ==
  from[r] # None /\ sparse[r] /\ sidecar[from[r]] = Hash(version[r])

\* canReusePrefix: no call of this generation missed.
Missed(r, c) == attempt[r][c] # "none" \/ journal[r][c].state = "started"

Inherited(r, c) == IF from[r] = None THEN Blank[c] ELSE journal[from[r]][c]

Reuses(r, c) ==
  /\ ReusesSparsely(r) \/ \A d \in 1..(c - 1) : ~Missed(r, d)
  /\ \/ Inherited(r, c).state = "value"
     \/ Inherited(r, c).state = "gap" /\ automatic[r]

\* Mutant of Retained: every generation starts from an empty sidecar.
Retained_Empty(r, c) == IF c = 1 THEN Blank ELSE journal[r]

\* What is left of the sidecar when a call is admitted: a sparse run replaces
\* its keys one by one, another starts from nothing.
Retained(r, c) == IF c = 1 /\ ~ReusesSparsely(r) THEN Blank ELSE journal[r]

\* beginRun and admit, persisted before the call goes on.
Admit(r) ==
  /\ r \in Live /\ status[r] = "running" /\ next[r] < Calls
  /\ LET c == next[r] + 1
         hit == Reuses(r, c)
     IN /\ next' = [next EXCEPT ![r] = c]
        /\ journal' = [journal EXCEPT ![r] = [Retained(r, c) EXCEPT ![c] =
             Entry(IF hit THEN Inherited(r, c).state ELSE "started", version[r])]]
        /\ sidecar' = [sidecar EXCEPT ![r] = Hash(version[r])]
  /\ cursor' = [cursor EXCEPT ![r] = 2]
  /\ UNCHANGED <<status, from, origin, key, automatic, version, sparse, attempt, bootVars, op,
                 zombie, histVars>>

\* agent.started is durable, then the provider is called.
Dispatch(r, c) ==
  /\ r \in Live /\ status[r] = "running"
  /\ c <= next[r] /\ journal[r][c].state = "started" /\ attempt[r][c] = "none"
  /\ attempt' = [attempt EXCEPT ![r][c] = "running"]
  /\ ambiguous' = IF c \in Unsafe THEN ambiguous \cup {<<origin[r], c>>} ELSE ambiguous
  /\ UNCHANGED <<manifestVars, journalVars, bootVars, op, runVars, excused>>

\* recordResult: a value, or a coverage gap.
Record(r, c) ==
  /\ <<r, c>> \in Executing /\ status[r] = "running"
  /\ \E outcome \in {"value"} \cup (IF c \in Failing THEN {"gap"} ELSE {}) :
       journal' = [journal EXCEPT ![r][c] = Entry(outcome, version[r])]
  /\ ambiguous' = ambiguous \ {<<origin[r], c>>}
  /\ UNCHANGED <<manifestVars, sidecar, attempt, bootVars, op, runVars, excused>>

\* The event that reports it is a later append.
Report(r, c) ==
  /\ r \in Live /\ attempt[r][c] = "running" /\ journal[r][c].state \in {"value", "gap"}
  /\ attempt' = [attempt EXCEPT ![r][c] = "closed"]
  /\ UNCHANGED <<manifestVars, journalVars, bootVars, op, runVars, histVars>>

Completes(r) ==
  /\ r \in Live /\ status[r] = "running" /\ next[r] = Calls
  /\ \A c \in Call : journal[r][c].state \in {"value", "gap"} /\ attempt[r][c] # "running"
  /\ status' = [status EXCEPT ![r] =
       IF \E c \in Call : journal[r][c].state = "gap" THEN "completed_with_errors" ELSE "completed"]
  /\ UNCHANGED <<cursor, from, origin, key, automatic, version, sparse, journalVars, attempt,
                 bootVars, op, runVars, histVars>>

\* A client's cancel: the request is durable before the end; each attempt
\* under way is confirmed dead or stays quarantined.
CancelRequested(r) ==
  /\ r \in Live /\ status[r] = "running" /\ service = "ready"
  /\ Cardinality({q \in Runs : status[q] \in {"cancelling", "cancelled"}}) < MaxCancels
  /\ status' = [status EXCEPT ![r] = "cancelling"]
  /\ cursor' = [cursor EXCEPT ![r] = 2]
  /\ UNCHANGED <<from, origin, key, automatic, version, sparse, journalVars, attempt, bootVars,
                 op, runVars, histVars>>

Cancelled(r) ==
  /\ r \in Live /\ status[r] = "cancelling"
  /\ status' = [status EXCEPT ![r] = "cancelled"]
  /\ ClosesAttempts(r)
  /\ \E alive \in SUBSET {e \in Executing : e[1] = r} : zombie' = zombie \cup alive
  /\ UNCHANGED <<cursor, from, origin, key, automatic, version, sparse, journalVars, bootVars,
                 op, next, histVars>>

\* A quarantined provider exits late.
ZombieExits ==
  /\ \E z \in zombie : zombie' = zombie \ {z}
  /\ UNCHANGED <<manifestVars, journalVars, attempt, bootVars, op, next, histVars>>

-------------------------------------------------------------------------------
(* The end of a service.                                                    *)

Gone ==
  /\ service' = "down" /\ todo' = {} /\ continued' = {} /\ recover' = {}
  /\ op' = [cl \in Clients |-> Idle]
  /\ next' = [r \in Runs |-> 0] /\ zombie' = {}
  /\ UNCHANGED <<boots, policy>>

Crash ==
  /\ service # "down" /\ boots < MaxBoots
  /\ Gone
  /\ UNCHANGED <<manifestVars, journalVars, attempt, histVars>>

\* stop() in interruption mode, once nothing is quarantined or in admission.
Stop ==
  /\ service = "ready" /\ boots < MaxBoots
  /\ zombie = {} /\ \A cl \in Clients : op[cl].kind = "idle"
  /\ status' = [r \in Runs |-> IF r \in Live THEN "interrupted" ELSE status[r]]
  /\ cursor' = [r \in Runs |-> IF r \in Live THEN Min({2, cursor[r] + 1}) ELSE cursor[r]]
  /\ attempt' = [r \in Runs |-> [c \in Call |->
       IF r \in Live /\ attempt[r][c] = "running" THEN "closed" ELSE attempt[r][c]]]
  /\ Gone
  /\ UNCHANGED <<from, origin, key, automatic, version, sparse, journalVars, histVars>>

-------------------------------------------------------------------------------
RecoveryInit ==
  /\ status = [r \in Runs |-> "absent"] /\ cursor = [r \in Runs |-> 0]
  /\ from = [r \in Runs |-> None] /\ origin = [r \in Runs |-> None]
  /\ key = [r \in Runs |-> NoKey] /\ automatic = [r \in Runs |-> FALSE]
  /\ version = [r \in Runs |-> "original"] /\ sparse = [r \in Runs |-> FALSE]
  /\ journal = [r \in Runs |-> Blank] /\ sidecar = [r \in Runs |-> "original"]
  /\ attempt = [r \in Runs |-> [c \in Call |-> "none"]]
  /\ service = "down" /\ boots = 0 /\ policy = TRUE
  /\ todo = {} /\ continued = {} /\ recover = {}
  /\ op = [cl \in Clients |-> Idle]
  /\ next = [r \in Runs |-> 0] /\ zombie = {} /\ ambiguous = {} /\ excused = {}

Startup == Boot \/ Scan \/ ScanEnds \/ ResumeOne \/ Ready
Asks ==
  \E q \in Requests :
    \/ AskStart(q[1], q[2])
    \/ \E r \in Runs : AskResume(q[1], q[2], r, q[3])
Answers(cl) == StartCreates(cl) \/ ResumeCreates(cl)
Runtime(r) ==
  \/ RunStarts(r) \/ Admit(r) \/ Completes(r) \/ Cancelled(r)
  \/ \E c \in Call : Dispatch(r, c) \/ Record(r, c) \/ Report(r, c)

RecoveryNext ==
  \/ Startup \/ Asks \/ Crash \/ Stop \/ ZombieExits
  \/ \E cl \in Clients : Answers(cl)
  \/ \E r \in Runs : Runtime(r) \/ CancelRequested(r)

RecoverySpec == RecoveryInit /\ [][RecoveryNext]_recoveryVars

\* The supervisor restarts the service, startup and runs make progress.
FairRecoverySpec ==
  /\ RecoverySpec
  /\ WF_recoveryVars(Startup)
  /\ WF_recoveryVars(\E r \in Runs : Runtime(r))

-------------------------------------------------------------------------------
(* Properties.                                                              *)

\* One key makes one run, however requests and restarts interleave.
OneRunPerKey == \A k \in Keys : Cardinality(ByKey(k)) <= 1

\* A lineage never has two unfinished runs: neither two clients with two keys
\* nor a client and the recovery at startup make a second one.
OneLivePerLineage == \A r \in Created : Cardinality(ActiveIn(origin[r], None)) <= 1

\* A run that repeats its predecessor, and one that recovery made of it.
Repeats == {r \in Runs : from[r] # None /\ sparse[r]}
Recovers == {r \in Repeats : automatic[r]}

\* p is a generation behind r, each following from the next by a link: p is in every set
\* that has r and, with a member of link, the run that one is from.
Behind(p, r, link) ==
  /\ p # r
  /\ \A S \in SUBSET Runs : r \in S /\ (\A q \in S \cap link : from[q] \in S) => p \in S

\* A call whose result an earlier generation of the same program recorded, under the
\* same arguments and source, is never executed again, wherever the generations between
\* them died; nor is one recorded as a coverage gap, unless a client asked.
ResultsKept ==
  \A r, p \in Runs, c \in Call : attempt[r][c] # "none" =>
    /\ journal[p][c] = Entry("value", version[r]) => ~Behind(p, r, Repeats)
    /\ journal[p][c] = Entry("gap", version[r]) => ~Behind(p, r, Recovers)

\* Nothing is done twice: no second run of a key, no second unfinished run of a
\* lineage, no second execution of a recorded call.
NothingTwice == RecoveryTypeOK /\ OneRunPerKey /\ OneLivePerLineage /\ ResultsKept

\* A run found unfinished is not resumed while one of its unsafe attempts may
\* or may not have taken effect.
UnsafeHeldBack ==
  [][\A r \in recover' \ recover, c \in Call :
       status[r] \notin Terminal => <<origin[r], c>> \notin ambiguous]_recoveryVars

\* As above for every run recovery takes up.
UnsafeNotReplayed ==
  [][\A r \in recover' \ recover, c \in Call : <<origin[r], c>> \notin ambiguous]_recoveryVars

\* A result recorded under other arguments or another source is reused only
\* within the unchanged prefix.
NoSmuggledResult ==
  [][\A r \in Live : next'[r] = next[r] + 1 =>
       LET c == next'[r]
       IN /\ journal'[r][c].state = "value" /\ Inherited(r, c).by # version[r]
          => \A d \in 1..(c - 1) : ~Missed(r, d)]_recoveryVars

\* A run does not execute while a provider whose end was never confirmed may
\* still work for another run of its lineage.  (Its predecessor is left to the
\* ownership check of the resume that named it.)
LineageFenced ==
  \A e \in Executing, z \in zombie :
    origin[e[1]] = origin[z[1]] => z[1] \in {e[1], from[e[1]]}

\* Every run is carried through restarts to an end of its lineage, unless
\* recovery had a reason not to.  What carries a run stays, so always again all
\* are carried.
Carried ==
  []<>(\A r \in Created :
         \/ \E q \in Created : origin[q] = origin[r] /\ status[q] \in Terminal \ {"interrupted"}
         \/ origin[r] \in excused
         \/ FreshRun \notin Runs)
===============================================================================
