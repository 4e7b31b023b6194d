------------------------------ MODULE RunHistory ------------------------------
(***************************************************************************)
(* The durable history of one workflow run: the event log and manifest of   *)
(* src/fileWorkflowStore.ts, the runtime that appends to it one event at a  *)
(* time (#emit of src/runWorkflow.ts), the startup repair that follows a    *)
(* crash (initialize() of src/workflowService.ts), the snapshot cache, and  *)
(* the long-polling readers.                                                *)
(*                                                                         *)
(* Every await between two file operations ends a step.  A record is in     *)
(* `file` once all its bytes are written; `torn` says that part of another  *)
(* record follows.  The host may crash at any step; after a power loss only *)
(* what was synced is sure to be there, and the manifest, whose rename is   *)
(* never synced, may be an older one.  Readers outlive the host and keep    *)
(* the cursor they were given.                                              *)
(***************************************************************************)
EXTENDS Naturals, Sequences

CONSTANTS
  Readers,      \* clients that page through readEvents()
  MaxEvents     \* maxEventFileBytes, in events

ASSUME HistoryAssumption == MaxEvents \in Nat \ {0}

VARIABLES
  file,        \* the complete records of events.jsonl
  torn,        \* the file ends in a part of a record
  synced,      \* how many records an fsync has covered
  manifest,    \* manifest.json: its cursor and status
  host,        \* what the process that owns the store is doing
  writer,      \* where #appendEvent is, "ready" when none is in flight
  flight,      \* the event in flight
  emitted,     \* #eventSequence of the runtime
  live,        \* the runtime exists, is not terminal, and has no #storageFailure
  published,   \* the cursor of the latest event given to #publish
  cache,       \* the entry of #snapshotCache, if any
  snapCursor,  \* the manifest cursors snapshot() calls in flight have read
  polls,       \* where each reader's readEvents() call is
  after,       \* the cursor each reader was last given
  page,        \* the end of the page its call has read
  seen,        \* observedVersion
  mayWait      \* the call would wait for an event if its page were empty

diskVars == <<file, torn, synced, manifest>>
writerVars == <<writer, flight, emitted, live, published>>
snapVars == <<cache, snapCursor>>
readVars == <<polls, after, page, seen, mayWait>>
vars == <<diskVars, host, writerVars, snapVars, readVars>>

Stream == INSTANCE EventStream WITH log <- file

Statuses == {"queued"} \cup (Stream!Kinds \ {"activity"})
Terminal(status) == status \in Stream!TerminalKinds
Cursors == 0..MaxEvents

Hosts == {"down", "repairing", "rebuilding", "deciding", "interrupting",
          "serving", "failed", "refused"}
WriterStages == {"ready", "writing", "written", "synced", "recorded", "cached"}
PollStages == {"idle", "opened", "observed", "checked", "read", "waiting"}

TypeOK ==
  /\ file \in Seq(Stream!Kinds) /\ Len(file) <= MaxEvents
  /\ torn \in BOOLEAN
  /\ synced \in 0..Len(file)
  /\ manifest \in [cursor : Cursors, status : Statuses]
  /\ host \in Hosts
  /\ writer \in WriterStages
  /\ flight \in Stream!Kinds
  /\ emitted \in Cursors
  /\ live \in BOOLEAN
  /\ published \in Cursors
  /\ cache \subseteq [cursor : Cursors, applied : Cursors]
  /\ snapCursor \subseteq Cursors
  /\ polls \in [Readers -> PollStages]
  /\ after \in [Readers -> Cursors]
  /\ page \in [Readers -> Cursors]
  /\ seen \in [Readers -> Cursors]
  /\ mayWait \in [Readers -> BOOLEAN]

\* applyEventToManifest().
AfterEvent(m, k) ==
  [cursor |-> m.cursor + 1, status |-> IF k = "activity" THEN m.status ELSE k]

\* The manifest is what applyEventToManifest() makes of its first events: the
\* last one to set a status gives it.
Reflects(m) ==
  \/ m.status = "queued" /\ \A i \in 1..m.cursor : file[i] = "activity"
  \/ \E i \in 1..m.cursor :
       /\ m.status = file[i] /\ file[i] # "activity"
       /\ \A j \in (i + 1)..m.cursor : file[j] = "activity"

Writing(stage) == writer' = stage /\ UNCHANGED <<flight, emitted, live, published>>
Polling(r, stage) == polls' = [polls EXCEPT ![r] = stage]

-------------------------------------------------------------------------------
(* One append: #emit, #publishDraft and #appendEvent.                       *)

\* The runtime emits run.started first; the store takes the event if it comes
\* next, the run is not over and the log has room.
Emit(k) ==
  /\ host = "serving" /\ live /\ writer = "ready"
  /\ k = "running" <=> emitted = 0
  /\ emitted = manifest.cursor /\ ~Terminal(manifest.status)
  /\ Len(file) < MaxEvents
  /\ writer' = "writing" /\ flight' = k
  /\ emitted' = emitted + 1
  /\ UNCHANGED <<diskVars, host, live, published, snapVars, readVars>>

\* event-log-full: like every failure of the sink, it ends the publication of
\* this run.
EmitRefused ==
  /\ host = "serving" /\ live /\ writer = "ready"
  /\ Len(file) = MaxEvents
  /\ live' = FALSE
  /\ UNCHANGED <<diskVars, host, writer, flight, emitted, published, snapVars, readVars>>

WritePart ==
  /\ writer = "writing"
  /\ torn' = TRUE
  /\ UNCHANGED <<file, synced, manifest, host, writerVars, snapVars, readVars>>

WriteLine ==
  /\ writer = "writing" /\ Writing("written")
  /\ file' = Append(file, flight)
  /\ torn' = FALSE
  /\ UNCHANGED <<synced, manifest, host, snapVars, readVars>>

Sync ==
  /\ writer = "written" /\ Writing("synced")
  /\ synced' = Len(file)
  /\ UNCHANGED <<file, torn, manifest, host, snapVars, readVars>>

\* The new manifest is renamed into place.
Record ==
  /\ writer = "synced" /\ Writing("recorded")
  /\ manifest' = AfterEvent(manifest, flight)
  /\ UNCHANGED <<file, torn, synced, host, snapVars, readVars>>

\* A cached projection that ends just before this event takes it in; any other
\* one is dropped.
UpdateCache ==
  /\ writer = "recorded" /\ Writing("cached")
  /\ cache' = {[cursor |-> manifest.cursor, applied |-> c.applied + 1] :
                 c \in {d \in cache : d.cursor + 1 = manifest.cursor}}
  /\ UNCHANGED <<diskVars, host, snapCursor, readVars>>

\* appendEvent() returns, #publish wakes the long polls of the run; at startup
\* the service then becomes available.
Publish ==
  /\ writer = "cached"
  /\ writer' = "ready"
  /\ published' = manifest.cursor
  /\ live' = (live /\ ~Terminal(flight))
  /\ host' = "serving"
  /\ polls' = [r \in Readers |-> IF polls[r] = "waiting" THEN "observed" ELSE polls[r]]
  /\ mayWait' = [r \in Readers |-> mayWait[r] /\ polls[r] # "waiting"]
  /\ UNCHANGED <<diskVars, flight, emitted, snapVars, after, page, seen>>

\* A file operation of the append fails, or the lease does not verify any more
\* when it is done: the runtime publishes nothing else, a startup fails.
AppendFails ==
  /\ writer \in {"writing", "written", "synced", "cached"}
  /\ writer' = "ready"
  /\ live' = FALSE
  /\ host' = IF host = "interrupting" THEN "failed" ELSE host
  /\ UNCHANGED <<diskVars, flight, emitted, published, snapVars, readVars>>

\* The deadline of #publishDraft passes; the append itself goes on.
SinkTimeout ==
  /\ live /\ writer # "ready"
  /\ live' = FALSE
  /\ UNCHANGED <<diskVars, host, writer, flight, emitted, published, snapVars, readVars>>

-------------------------------------------------------------------------------
(* Crashes, and the startup that repairs the run.                           *)

\* The process ends: what it had in memory and its clients' calls are gone.
Dies ==
  /\ host # "down"
  /\ host' = "down" /\ writer' = "ready" /\ live' = FALSE /\ emitted' = 0
  /\ cache' = {} /\ snapCursor' = {}
  /\ polls' = [r \in Readers |-> "idle"]
  /\ mayWait' = [r \in Readers |-> FALSE]
  /\ UNCHANGED <<flight, published, after, page, seen>>

Crash == Dies /\ UNCHANGED diskVars

\* Records that were not synced and recent renames may be lost, a part of one
\* may be left, and a cut by RepairTail, which is not synced, may be undone.
PowerLoss ==
  /\ Dies
  /\ \E n \in synced..Len(file) :
       /\ file' = SubSeq(file, 1, n)
       /\ synced' = n
  /\ torn' \in BOOLEAN
  /\ \E m \in [cursor : 0..manifest.cursor, status : Statuses] :
       (m = manifest \/ (m.cursor < manifest.cursor /\ m.cursor <= Len(file)
                           /\ Reflects(m))) /\ manifest' = m

Boot ==
  /\ host = "down"
  /\ host' = "repairing"
  /\ UNCHANGED <<diskVars, writerVars, snapVars, readVars>>

\* #recoverEventTail: a torn record is cut off.
RepairTail ==
  /\ host = "repairing"
  /\ host' = "rebuilding"
  /\ torn' = FALSE
  /\ UNCHANGED <<file, synced, manifest, writerVars, snapVars, readVars>>

\* Mutant of RebuildManifest: the cursor is repaired, the status is kept.
RebuildManifest_KeepsStatus ==
  /\ host = "rebuilding"
  /\ host' = "deciding"
  /\ manifest' = [manifest EXCEPT !.cursor = Len(file)]
  /\ UNCHANGED <<file, torn, synced, writerVars, snapVars, readVars>>

\* #recoverEventTail: a manifest whose cursor is not that of the log is made
\* again from all of its events.
RebuildManifest ==
  /\ host = "rebuilding"
  /\ host' = "deciding"
  /\ IF manifest.cursor = Len(file) THEN UNCHANGED manifest
     ELSE \E m \in [cursor : {Len(file)}, status : Statuses] :
            Reflects(m) /\ manifest' = m
  /\ UNCHANGED <<file, torn, synced, writerVars, snapVars, readVars>>

\* #initializeOnce leaves a finished run alone.
KeepFinished ==
  /\ host = "deciding" /\ Terminal(manifest.status)
  /\ host' = "serving"
  /\ UNCHANGED <<diskVars, writerVars, snapVars, readVars>>

\* Mutant of Interrupt: every run is interrupted again.
Interrupt_Always ==
  /\ host = "deciding"
  /\ Len(file) < MaxEvents
  /\ host' = "interrupting"
  /\ writer' = "writing" /\ flight' = "interrupted"
  /\ UNCHANGED <<diskVars, emitted, live, published, snapVars, readVars>>

\* #initializeOnce appends run.interrupted to a run that is not finished.
Interrupt ==
  /\ host = "deciding" /\ ~Terminal(manifest.status)
  /\ Len(file) < MaxEvents
  /\ host' = "interrupting"
  /\ writer' = "writing" /\ flight' = "interrupted"
  /\ UNCHANGED <<diskVars, emitted, live, published, snapVars, readVars>>

\* The log has no room for it: #initializeOnce throws.
InterruptRefused ==
  /\ host = "deciding" /\ ~Terminal(manifest.status)
  /\ Len(file) = MaxEvents
  /\ host' = "refused"
  /\ UNCHANGED <<diskVars, writerVars, snapVars, readVars>>

-------------------------------------------------------------------------------
(* snapshot()                                                               *)

\* For a client, or for #automaticRecoveryIsSafe at startup.
SnapshotReads ==
  /\ host \in {"deciding", "serving"}
  /\ snapCursor' = snapCursor \cup {manifest.cursor}
  /\ UNCHANGED <<diskVars, host, writerVars, cache, readVars>>

\* The cached projection has the cursor that was read.
SnapshotHits(n) ==
  /\ n \in snapCursor /\ \E c \in cache : c.cursor = n
  /\ snapCursor' = snapCursor \ {n}
  /\ UNCHANGED <<diskVars, host, writerVars, cache, readVars>>

\* It has not: the events up to that cursor are replayed, and the projection
\* is cached unless a newer one is by then.
SnapshotReplays(n) ==
  /\ n \in snapCursor
  /\ snapCursor' = snapCursor \ {n}
  /\ cache' = IF \A c \in cache : c.cursor <= n
              THEN {[cursor |-> n, applied |-> n]} ELSE cache
  /\ UNCHANGED <<diskVars, host, writerVars, readVars>>

-------------------------------------------------------------------------------
(* readEvents() of the service and of the store, with a page limit that is  *)
(* not reached.                                                             *)

\* status(); waitMs is zero or not.
PollOpens(r) ==
  /\ host = "serving" /\ polls[r] = "idle" /\ Polling(r, "opened")
  /\ \E wait \in BOOLEAN :
       mayWait' = [mayWait EXCEPT ![r] = wait /\ ~Terminal(manifest.status)]
  /\ UNCHANGED <<diskVars, host, writerVars, snapVars, after, page, seen>>

PollObserves(r) ==
  /\ polls[r] = "opened" /\ Polling(r, "observed")
  /\ seen' = [seen EXCEPT ![r] = published]
  /\ UNCHANGED <<diskVars, host, writerVars, snapVars, after, page, mayWait>>

\* A cursor beyond the manifest's is refused as cursor-ahead.
PollChecks(r) ==
  /\ polls[r] = "observed"
  /\ Polling(r, IF after[r] > manifest.cursor THEN "idle" ELSE "checked")
  /\ UNCHANGED <<diskVars, host, writerVars, snapVars, after, page, seen, mayWait>>

\* The store reads the file to its end, whatever the manifest says by then.
PollReads(r) ==
  /\ polls[r] = "checked" /\ ~torn /\ Polling(r, "read")
  /\ page' = [page EXCEPT ![r] = Len(file)]
  /\ UNCHANGED <<diskVars, host, writerVars, snapVars, after, seen, mayWait>>

\* It meets the written part of a record: corrupt-store.
PollReadsTorn(r) ==
  /\ polls[r] = "checked" /\ torn /\ Polling(r, "idle")
  /\ UNCHANGED <<diskVars, host, writerVars, snapVars, after, page, seen, mayWait>>

PollReturns(r) ==
  /\ polls[r] = "read" /\ Polling(r, "idle")
  /\ page[r] > after[r] \/ ~mayWait[r]
  /\ after' = [after EXCEPT ![r] = page[r]]
  /\ UNCHANGED <<diskVars, host, writerVars, snapVars, page, seen, mayWait>>

\* Mutant of PollWaits: the version is not compared again.
PollWaits_Unchecked(r) ==
  /\ polls[r] = "read" /\ page[r] = after[r] /\ mayWait[r]
  /\ Polling(r, "waiting")
  /\ UNCHANGED <<diskVars, host, writerVars, snapVars, after, page, seen, mayWait>>

\* #waitForEvent, which an event published since PollObserves ends at once.
PollWaits(r) ==
  /\ polls[r] = "read" /\ page[r] = after[r] /\ mayWait[r]
  /\ IF published # seen[r]
     THEN Polling(r, "observed") /\ mayWait' = [mayWait EXCEPT ![r] = FALSE]
     ELSE Polling(r, "waiting") /\ UNCHANGED mayWait
  /\ UNCHANGED <<diskVars, host, writerVars, snapVars, after, page, seen>>

\* waitMs passes: the page is read once more and returned.
PollTimeout(r) ==
  /\ polls[r] = "waiting" /\ Polling(r, "observed")
  /\ mayWait' = [mayWait EXCEPT ![r] = FALSE]
  /\ UNCHANGED <<diskVars, host, writerVars, snapVars, after, page, seen>>

-------------------------------------------------------------------------------
\* createRun() has published the manifest and the runtime has been started.
Init ==
  /\ file = <<>> /\ torn = FALSE /\ synced = 0
  /\ manifest = [cursor |-> 0, status |-> "queued"]
  /\ host = "serving"
  /\ writer = "ready" /\ flight = "activity" /\ emitted = 0 /\ live = TRUE
  /\ published = 0
  /\ cache = {} /\ snapCursor = {}
  /\ polls = [r \in Readers |-> "idle"]
  /\ after = [r \in Readers |-> 0] /\ page = [r \in Readers |-> 0]
  /\ seen = [r \in Readers |-> 0] /\ mayWait = [r \in Readers |-> FALSE]

AppendStep ==
  \/ \E k \in Stream!Kinds : Emit(k)
  \/ EmitRefused \/ WritePart \/ WriteLine \/ Sync \/ Record
  \/ UpdateCache \/ Publish \/ AppendFails \/ SinkTimeout

RecoveryStep ==
  \/ Crash \/ PowerLoss \/ Boot \/ RepairTail \/ RebuildManifest
  \/ KeepFinished \/ Interrupt \/ InterruptRefused

SnapshotStep ==
  \/ SnapshotReads
  \/ \E n \in Cursors : SnapshotHits(n) \/ SnapshotReplays(n)

ReadStep ==
  \E r \in Readers :
    \/ PollOpens(r) \/ PollObserves(r) \/ PollChecks(r)
    \/ PollReads(r) \/ PollReadsTorn(r) \/ PollReturns(r)
    \/ PollWaits(r) \/ PollTimeout(r)

Next == AppendStep \/ RecoveryStep \/ SnapshotStep \/ ReadStep

Spec == Init /\ [][Next]_vars

-------------------------------------------------------------------------------
\* Whoever may act on the manifest finds in it a prefix of the log and the
\* status that prefix gives, through every crash: a stale terminal status, or a
\* lost one, would have a finished run executed again or an unfinished one
\* never recovered.
ManifestHonest ==
  host \in {"deciding", "interrupting", "serving"} =>
    manifest.cursor <= Len(file) /\ Reflects(manifest)

\* "Persist-before-publish": an event that subscribers were told of survives a
\* power loss.
PublishedDurable == published <= synced

\* A cached projection has taken in the events up to its cursor, each once,
\* although snapshots and appends interleave and the file runs ahead.
CacheExact == \A c \in cache : c.applied = c.cursor

\* Log, manifest, subscribers and cache tell one history, whichever of them a
\* crash, a power loss or a reader finds half way through an append or a repair.
OneHistory == TypeOK /\ ManifestHonest /\ PublishedDurable /\ CacheExact

\* A long poll that waits has missed no published event.
NoLostWakeup ==
  \A r \in Readers : polls[r] = "waiting" => published <= after[r]

\* Appends, crashes and repairs implement the event stream: the log grows by
\* one event at a time, ends with its terminal event, and loses nothing that
\* was published.
ImplementsStream == Stream!StreamSpec
================================================================================
