------------------------------ MODULE RunReaders ------------------------------
(***************************************************************************)
(* How a client reads a run: the pages of its result (readResult), the bulk   *)
(* walk over its agents' results (readAgentResults), one agent's slice of the *)
(* event stream (readAgentTranscript) and the inventory of runs (listRuns),   *)
(* of workflowService.ts and fileWorkflowStore.ts, while runs go on writing,  *)
(* files are damaged and another client reads another run through the same    *)
(* store object.                                                              *)
(*                                                                         *)
(* An agent's call has its own record in the journal, within the snapshot of  *)
(* the workflow invocation it is of, but is looked up by its cache key, which  *)
(* is chained from the empty key anew in every invocation: two calls of one    *)
(* invocation never share a key, calls of two invocations may.  The journal of *)
(* a resumed run begins with its predecessor's records, under the              *)
(* predecessor's agent ids; a call that runs again returns what it had         *)
(* returned.  Content is the set of its character boundaries, as byte offsets; *)
(* its checksum says whose it is.                                              *)
(***************************************************************************)
EXTENDS Naturals, Sequences, FiniteSets, SequencesExt, FiniteSetsExt

CONSTANTS
  Agents,       \* agent ids of the run, in call order
  Key,          \* [Agents -> Nat]: the cache key of each agent's call
  Space,        \* [Agents -> Nat]: the place of its invocation's snapshot in the journal
  Content,      \* [Agents -> contents]: the content of the result of each call
  ResultContent, \* the content of the run's result
  Copied,       \* the agent of the record the journal begins with for a call, or NoAgent
  PageBytes,    \* maxBytes
  PageItems,    \* AGENT_RESULTS_PAGE_ITEMS
  Batch,        \* TRANSCRIPT_SCAN_BATCH
  MaxBatches,   \* MAX_TRANSCRIPT_SCAN_BATCHES
  Limit,        \* limit of a transcript page
  Keys,         \* runIndexKey of the runs that may exist: their order of creation
  PageRuns,     \* limit of a page of the inventory
  MaxBusy,      \* bound: agents at work at once
  MaxEvents,    \* bound: events the run records
  MaxFaults     \* bound: files damaged

NoAgent == 0

\* a content has an end, and a character at most four bytes
IsContent(content) ==
  /\ content \subseteq Nat /\ 0 \in content
  /\ \E end \in content :
       /\ \A b \in content : b <= end
       /\ \A b \in content : b < end => \E d \in content : b < d /\ d <= b + 4

ASSUME RunReadersAssumption ==
  /\ Agents \subseteq Nat \ {NoAgent} /\ IsFiniteSet(Agents)
  /\ Key \in [Agents -> Nat] /\ Space \in [Agents -> Nat]
  /\ \A a, b \in Agents : a # b /\ Key[a] = Key[b] => Space[a] # Space[b]
  /\ DOMAIN Content = Agents /\ \A a \in Agents : IsContent(Content[a])
  /\ IsContent(ResultContent) /\ Copied \in [Agents -> Agents \cup {NoAgent}]
  /\ PageBytes \in Nat /\ PageBytes >= 4
  /\ {PageItems, Batch, MaxBatches, Limit, PageRuns} \subseteq Nat \ {0}
  /\ Keys \subseteq Nat \ {0} /\ IsFiniteSet(Keys)
  /\ MaxBusy \in Nat /\ MaxEvents \in Nat /\ MaxFaults \in Nat

VARIABLES
  op,           \* what the client of this behaviour reads
  stage,        \* how far each agent of the run is
  files,        \* each agent's two artifact files
  journal,      \* the run's journal file
  otherReads,   \* the other run's journal can be parsed
  cache,        \* #journalResultCache
  failure,      \* #journalReadFailure is set
  faults,       \* files damaged so far
  walk,         \* the bulk walk
  other,        \* another client of the same store object
  result,       \* the run's result artifact and status
  reader,       \* the client of the run's result
  stream,       \* the run's events: is it about the agent?
  scan,         \* the client of a transcript
  runs,         \* #runSummaries: the status of each run
  byStatus,     \* #runKeysByStatus
  list          \* the client of the inventory

storeVars == <<stage, files, journal, otherReads, cache, failure, faults>>
walkVars == <<storeVars, walk, other>>
resultVars == <<result, reader>>
transcriptVars == <<stream, scan>>
inventoryVars == <<runs, byStatus, list>>
readersVars == <<op, walkVars, resultVars, transcriptVars, inventoryVars>>

------------------------------------------------------------------------------
(* Bytes and pages *)

Size(content) == Max(content)

\* decodeCompleteUtf8Prefix: the bytes asked for, short of an incomplete last character
PageEnd(content, from) == Max({b \in content : b <= from + PageBytes})

\* a page cannot begin within a character
OnBoundary(content, from) == from \in content

\* The members of S in the order Before, a set of pairs: SetToSortSeq for an order
\* that is a value.
Ordered(S, Before) ==
  [i \in 1..Cardinality(S) |->
     CHOOSE x \in S : Cardinality({y \in S : <<y, x>> \in Before}) = i - 1]
Ascending(S) == Ordered(S, {p \in S \X S : p[1] < p[2]})

\* the statuses of a run: queued, live, terminal
Statuses == 1..3

------------------------------------------------------------------------------
(* Where an agent's result is *)

\* of: whose content the checksum of the inner cursor is of
FirstCursor == [agent |-> NoAgent, of |-> NoAgent, offset |-> 0]

\* #agentArtifactDataUsable: metadata and data agree
Usable(a) == files[a].data = "whole" /\ files[a].meta = "whole"

\* the record an agent's result is found by: of its cache key, never of its agent id, and
\* of several the one of the snapshot that comes last in the journal
LastOf(found) == {k \in found : \A j \in found : Space[j] <= Space[k]}
OfKey(a, records) == {k \in Agents : Key[k] = Key[a] /\ records[k] # NoAgent}
\* Mutant of JournalKeys: without a record of its key, one of its number will do.
JournalKeys_ByAgent(a, records) ==
  IF OfKey(a, records) # {} THEN LastOf(OfKey(a, records)) ELSE {k \in Agents : records[k] = a}
JournalKeys(a, records) == LastOf(OfKey(a, records))
NoRecords == [k \in Agents |-> NoAgent]

Located(a, records) == Usable(a) \/ JournalKeys(a, records) # {}

\* agents whose own result some reader could be given, by what is on the disk
Recorded ==
  {a \in Agents : /\ stage[a] # "new"
                  /\ Usable(a) \/ (journal.reads /\ journal.records[a] # NoAgent)}

ReadersInit ==
  /\ op \in {"walk", "read", "result", "transcript", "inventory"}
  /\ stage = [a \in Agents |-> "new"]
  /\ files = [a \in Agents |-> [data |-> "none", meta |-> "none"]]
  /\ journal = [records |-> Copied, reads |-> TRUE, identity |-> 0]
  /\ otherReads \in IF op = "read" THEN BOOLEAN ELSE {TRUE}
  /\ cache = [run |-> "none", identity |-> 0, records |-> NoRecords]
  /\ failure = FALSE /\ faults = 0
  /\ walk = [pc |-> "idle", reading |-> FALSE, cursor |-> FirstCursor, todo |-> {}, of |-> NoAgent,
             offset |-> 0, items |-> 0, got |-> [a \in Agents |-> 0], from |-> NoRecords, seen |-> {},
             skipped |-> {}, owed |-> {}, torn |-> FALSE, early |-> {}, identity |-> 0]
  /\ other = [pc |-> "idle", said |-> "nothing"]
  /\ result = [data |-> "none", meta |-> "none", status |-> "running"]
  /\ reader = [offset |-> 0, got |-> 0, state |-> "reading"]
  /\ stream = <<>>
  /\ scan = [pc |-> "idle", after |-> 0, cursor |-> 0, last |-> 0, batches |-> 0,
             events |-> <<>>, got |-> <<>>, more |-> TRUE, moved |-> TRUE, floor |-> 0]
  /\ runs = [k \in Keys |-> 0] /\ byStatus = [s \in Statuses |-> {}]
  /\ \E filter \in IF op = "inventory" THEN SUBSET Statuses \ {{}} ELSE {Statuses} :
       list = [state |-> "new", filter |-> filter, after |-> 0, high |-> 0, got |-> <<>>, owed |-> {}]

------------------------------------------------------------------------------
(* The run writes the results of its agents *)

\* the journal file is rewritten whole
Rewrites(a, by) == journal' = [journal EXCEPT !.records[a] = by, !.reads = TRUE, !.identity = @ + 1]

\* beginRun of an invocation that resumes by its longest prefix: what the predecessor had
\* recorded for it is out of the journal with the file's next write
BeginRun(s) ==
  LET dropped == {a \in Agents : Space[a] = s /\ stage[a] = "new" /\ journal.records[a] # NoAgent}
  IN /\ dropped # {}
     /\ journal' = [records |-> [a \in Agents |-> IF a \in dropped THEN NoAgent ELSE journal.records[a]],
                    reads |-> TRUE, identity |-> journal.identity + 1]
     /\ UNCHANGED <<stage, files, otherReads, cache, failure, faults>>

Busy == {a \in Agents : stage[a] \in {"running", "recorded", "stored"}}

\* a call the predecessor had recorded is reused, unless its record is of a coverage gap or
\* behind the first call that was not reused; a rewrite that changes no result is left out
Admit(a) ==
  /\ stage[a] = "new"
  /\ \/ /\ Copied[a] # NoAgent
        /\ stage' = [stage EXCEPT ![a] = "settled"] /\ Rewrites(a, a)
     \/ /\ Cardinality(Busy) < MaxBusy
        /\ stage' = [stage EXCEPT ![a] = "running"]
        /\ IF journal.records[a] = NoAgent THEN UNCHANGED journal ELSE Rewrites(a, NoAgent)
  /\ UNCHANGED <<files, otherReads, cache, failure, faults>>

\* recordResult, of a value or of the placeholder of a coverage gap
Record(a) ==
  /\ stage[a] = "running"
  /\ stage' = [stage EXCEPT ![a] = "recorded"]
  /\ Rewrites(a, a)
  /\ UNCHANGED <<files, otherReads, cache, failure, faults>>

EndWithout(a) ==
  /\ stage[a] \in {"running", "recorded", "stored"}
  /\ stage' = [stage EXCEPT ![a] = "settled"]
  /\ UNCHANGED <<files, journal, otherReads, cache, failure, faults>>

\* #persistAgentResult: the data file first, its metadata after it
StoreData(a) ==
  /\ stage[a] = "recorded"
  /\ stage' = [stage EXCEPT ![a] = "stored"]
  /\ files' = [files EXCEPT ![a].data = "whole"]
  /\ UNCHANGED <<journal, otherReads, cache, failure, faults>>

StoreMetadata(a) ==
  /\ stage[a] = "stored"
  /\ stage' = [stage EXCEPT ![a] = "settled"]
  /\ files' = [files EXCEPT ![a].meta = "whole"]
  /\ UNCHANGED <<journal, otherReads, cache, failure, faults>>

\* a file cut short or lost, metadata that does not parse, a journal that cannot be read
Damage ==
  /\ faults < MaxFaults
  /\ faults' = faults + 1
  /\ \/ /\ \E a \in Agents, part \in {"data", "meta"} :
             files[a][part] = "whole" /\ files' = [files EXCEPT ![a][part] = "torn"]
        /\ UNCHANGED journal
     \/ /\ journal.reads
        /\ \E i \in {0, 1} : journal' = [journal EXCEPT !.reads = FALSE, !.identity = @ + i]
        /\ UNCHANGED files
  /\ UNCHANGED <<stage, otherReads, cache, failure, walk, other>>

------------------------------------------------------------------------------
(* One walk: a request lists the agents, then reads page after page *)

\* readAgentResults: the next agent of the request, or its end
Moves(w, rest) ==
  IF rest = {} THEN [w EXCEPT !.pc = "ended", !.todo = rest]
               ELSE [w EXCEPT !.pc = "artifact", !.todo = rest, !.of = NoAgent, !.offset = 0]

Skips(w, a) == Moves([w EXCEPT !.skipped = @ \cup {a}], w.todo \ {a})

\* what the client is told to ask for next, a page with more bytes of a before all else
NextCursor(w, a, k, end) ==
  IF end < Size(Content[k]) THEN [agent |-> a, of |-> k, offset |-> end]
                            ELSE [agent |-> Min(w.todo \ {a}), of |-> NoAgent, offset |-> 0]

\* parseResultCursor: an inner cursor is of the content it is used with
Accepted(w, k) == w.of \in {NoAgent, k} /\ OnBoundary(Content[k], w.offset)

\* readAgentResult of agent a, whose bytes are those of call k
Page(w, a, k) ==
  LET content == Content[k]
      end == PageEnd(content, w.offset)
      returned == stage[a] \notin {"new", "running"}
      given == [w EXCEPT !.got[a] = end, !.from[a] = k, !.seen = @ \cup {a}, !.items = @ + 1,
                         !.torn = @ \/ w.offset # w.got[a] \/ (w.got[a] # 0 /\ w.from[a] # k),
                         !.early = IF returned THEN @ ELSE @ \cup {a}]
  IN IF ~Accepted(w, k) THEN Skips(w, a)
     ELSE IF end < Size(content) \/ (w.items + 1 >= PageItems /\ w.todo # {a})
       THEN [given EXCEPT !.pc = "idle", !.cursor = NextCursor(w, a, k, end), !.todo = {}]
       ELSE Moves(given, w.todo \ {a})

\* listAgents, from the artifacts and the records of the journal
Lists(w, records) ==
  LET readable == {a \in Agents : stage[a] # "new" /\ Located(a, records)}
      from == {a \in readable : a >= w.cursor.agent}
  IN IF w.cursor # FirstCursor /\ w.cursor.agent \notin readable THEN [w EXCEPT !.pc = "refused"]
     ELSE [Moves(w, from) EXCEPT !.of = w.cursor.of, !.offset = w.cursor.offset]

\* the journal has been looked up, for the listing or for one agent's bytes
Continues(w, records) ==
  IF ~w.reading THEN Lists(w, records)
  ELSE LET a == Min(w.todo)
       IN IF JournalKeys(a, records) = {} THEN Skips(w, a)
          ELSE Page(w, a, CHOOSE k \in JournalKeys(a, records) : TRUE)

Ask ==
  /\ walk.pc = "idle"
  /\ walk' = [walk EXCEPT !.pc = "stat", !.reading = FALSE, !.items = 0,
                !.owed = IF walk.cursor = FirstCursor THEN Recorded ELSE @]
  /\ UNCHANGED <<storeVars, other>>

\* the artifact serves the page, or the journal is looked up
ReadArtifact ==
  LET a == Min(walk.todo)
  IN /\ walk.pc = "artifact"
     /\ walk' = IF Usable(a) THEN Page(walk, a, a) ELSE [walk EXCEPT !.pc = "stat", !.reading = TRUE]
     /\ UNCHANGED <<storeVars, other>>

Cached(run, identity) == cache.run = run /\ cache.identity = identity

\* #journalResultsByKey: the file's identity first, then its content
StatJournal ==
  /\ walk.pc = "stat"
  /\ walk' = IF Cached("this", journal.identity) THEN Continues(walk, cache.records)
             ELSE [walk EXCEPT !.pc = "parse", !.identity = journal.identity]
  /\ UNCHANGED <<storeVars, other>>

Caches(run, identity, records) == [run |-> run, identity |-> identity, records |-> records]

ParseJournal ==
  /\ walk.pc = "parse"
  /\ failure' = ~journal.reads
  /\ cache' = IF journal.reads THEN Caches("this", walk.identity, journal.records) ELSE cache
  /\ walk' = [Continues(walk, IF journal.reads THEN journal.records ELSE NoRecords)
                EXCEPT !.identity = 0]
  /\ UNCHANGED <<stage, files, journal, otherReads, faults, other>>

\* another client lists the agents of another run, whose journal does not change
StatOther ==
  /\ other.pc = "idle" /\ ~Cached("other", 0)
  /\ other' = [other EXCEPT !.pc = "parse"]
  /\ UNCHANGED <<storeVars, walk>>

ParseOther ==
  /\ other.pc = "parse"
  /\ other' = [other EXCEPT !.pc = "idle"]
  /\ failure' = ~otherReads
  /\ cache' = IF otherReads THEN Caches("other", 0, NoRecords) ELSE cache
  /\ UNCHANGED <<stage, files, journal, otherReads, faults, walk>>

\* readAgentResult of one agent of this run, its lookup taken as one step
ReadOne(a) ==
  LET hit == Cached("this", journal.identity)
      records == IF hit THEN cache.records ELSE IF journal.reads THEN journal.records ELSE NoRecords
      failed == IF hit THEN failure ELSE ~journal.reads
  IN /\ other.pc = "idle" /\ stage[a] # "new" /\ ~Usable(a)
     /\ failure' = failed
     /\ cache' = IF hit \/ failed THEN cache ELSE Caches("this", journal.identity, records)
     /\ other' = [other EXCEPT !.said = IF JournalKeys(a, records) # {} THEN "page"
                                        ELSE IF failed THEN "damaged" ELSE "absent"]
     /\ UNCHANGED <<stage, files, journal, otherReads, faults, walk>>

Writes ==
  /\ \/ \E s \in Range(Space) : BeginRun(s)
     \/ \E a \in Agents : Admit(a) \/ Record(a) \/ EndWithout(a) \/ StoreData(a) \/ StoreMetadata(a)
  /\ UNCHANGED <<walk, other>>

Walking ==
  /\ op \in {"walk", "read"}
  /\ \/ Writes \/ Damage \/ StatOther \/ ParseOther
     \/ op = "read" /\ \E a \in Agents : ReadOne(a)
     \/ op = "walk" /\ (Ask \/ ReadArtifact \/ StatJournal \/ ParseJournal)
  /\ UNCHANGED <<op, resultVars, transcriptVars, inventoryVars>>

------------------------------------------------------------------------------
(* The result of the run *)

\* #persistResult: bytes, then metadata; run.completed only after both
PersistData ==
  /\ result.status = "running" /\ result.data = "none"
  /\ result' = [result EXCEPT !.data = "whole"]
  /\ UNCHANGED reader

MayNameResult == result.data = "whole"

PersistMetadata ==
  /\ result.status = "running" /\ result.meta = "none" /\ MayNameResult
  /\ result' = [result EXCEPT !.meta = "whole"]
  /\ UNCHANGED reader

MayComplete == result.meta = "whole"

CompleteRun ==
  /\ result.status = "running" /\ MayComplete
  /\ result' = [result EXCEPT !.status = "completed"]
  /\ UNCHANGED reader

\* a result too large or not representable, a failed write, a stop or a crash
EndRun ==
  /\ result.status = "running"
  /\ result' = [result EXCEPT !.status = "ended"]
  /\ UNCHANGED reader

\* #readResultMetadata, and the store's readResult of the bytes from an offset
MetadataReads == result.meta = "whole"
Serves(offset) == result.data = "whole" /\ OnBoundary(ResultContent, offset)

\* readResult: not ready, unavailable, or a page
ReadResult ==
  /\ reader.state = "reading"
  /\ result.status # "running"
  /\ LET end == PageEnd(ResultContent, reader.offset)
     IN reader' =
       IF result.status # "completed" THEN [reader EXCEPT !.state = "unavailable"]
       ELSE IF ~MetadataReads \/ ~Serves(reader.offset) THEN [reader EXCEPT !.state = "refused"]
       ELSE [offset |-> end, got |-> reader.got + (end - reader.offset),
             state |-> IF end < Size(ResultContent) THEN "reading" ELSE "read"]
  /\ UNCHANGED result

ReadingResult ==
  /\ op = "result"
  /\ PersistData \/ PersistMetadata \/ CompleteRun \/ EndRun \/ ReadResult
  /\ UNCHANGED <<op, walkVars, transcriptVars, inventoryVars>>

------------------------------------------------------------------------------
(* One agent's slice of the event stream *)

Publish(own) ==
  /\ Len(stream) < MaxEvents
  /\ stream' = Append(stream, own)
  /\ UNCHANGED scan

AskTranscript ==
  /\ scan.pc = "idle"
  /\ scan' = [scan EXCEPT !.pc = "scanning", !.cursor = scan.after, !.last = scan.after,
                          !.batches = 0, !.events = <<>>, !.floor = Len(stream)]
  /\ UNCHANGED stream

\* where the next page goes on: after the last event given, or after what was scanned
\* Mutant of ResumeAt: always after the last event that was given.
ResumeAt_LastMatch(s, filled) == s.last
ResumeAt(s, filled) == IF filled THEN s.last ELSE s.cursor

Answer(s, filled, exhausted) ==
  LET to == ResumeAt(s, filled)
  IN [s EXCEPT !.pc = "idle", !.after = to, !.got = @ \o s.events,
               !.more = filled \/ ~exhausted, !.moved = to > s.after]

\* readEvents and the loop over what it gave
ScanBatch ==
  /\ scan.pc = "scanning"
  /\ LET to == IF scan.cursor + Batch < Len(stream) THEN scan.cursor + Batch ELSE Len(stream)
         own == Ascending({c \in (scan.cursor + 1)..to : stream[c]})
         room == Limit - Len(scan.events)
         filled == Len(own) > room
         taken == [i \in 1..(IF filled THEN room ELSE Len(own)) |-> own[i]]
         s == [scan EXCEPT !.batches = @ + 1, !.events = @ \o taken,
                           !.last = IF taken = <<>> THEN @ ELSE Last(taken),
                           !.cursor = IF filled THEN @ ELSE to]
     IN scan' =
       IF filled \/ to = Len(stream) THEN Answer(s, filled, ~filled)
       ELSE IF Len(s.events) >= Limit \/ s.batches >= MaxBatches THEN Answer(s, FALSE, FALSE)
       ELSE s
  /\ UNCHANGED stream

Transcribing ==
  /\ op = "transcript"
  /\ (\E own \in BOOLEAN : Publish(own)) \/ AskTranscript \/ ScanBatch
  /\ UNCHANGED <<op, walkVars, resultVars, inventoryVars>>

------------------------------------------------------------------------------
(* The inventory of runs *)

\* Mutant of Indexed: the key is not taken from the list of the status the run has left.
Indexed_KeepsOld(index, k, old, new) ==
  [s \in Statuses |-> IF s = new THEN index[s] \cup {k} ELSE index[s]]
Indexed(index, k, old, new) ==
  [s \in Statuses |-> IF s = new THEN index[s] \cup {k}
                      ELSE IF s = old THEN index[s] \ {k} ELSE index[s]]

\* #indexManifest, for a run created or written with a new status: queued, live, terminal
WriteManifest(k) ==
  /\ runs[k] < 3
  /\ \E new \in (runs[k] + 1)..3 :
       /\ runs[k] = 0 => new = 1
       /\ runs' = [runs EXCEPT ![k] = new]
       /\ byStatus' = Indexed(byStatus, k, runs[k], new)
       /\ list' = IF list.state = "listing" /\ {runs[k], new} \ list.filter # {}
                    THEN [list EXCEPT !.owed = @ \ {k}] ELSE list

\* the lists of the filter's statuses merged, after the cursor and up to the high water
Earlier(d, e) == d[1] < e[1] \/ (d[1] = e[1] /\ d[2] < e[2])
Merged(filter, after, high) ==
  LET entries == {e \in Keys \X filter : e[1] \in byStatus[e[2]] /\ after < e[1] /\ e[1] <= high}
  IN Ordered(entries, {p \in entries \X entries : Earlier(p[1], p[2])})

Existing == {k \in Keys : runs[k] # 0}
HighWater == IF Existing = {} THEN 0 ELSE Max(Existing)

\* listRuns, which answers within one turn of the event loop
ListRuns ==
  /\ list.state # "listed"
  /\ LET first == list.state = "new"
         high == IF first THEN HighWater ELSE list.high
         found == Merged(list.filter, list.after, high)
         page == [i \in 1..(IF Len(found) < PageRuns THEN Len(found) ELSE PageRuns) |-> found[i][1]]
         more == Len(found) > PageRuns
     IN list' = [list EXCEPT !.state = IF more THEN "listing" ELSE "listed",
                             !.after = IF more THEN Last(page) ELSE @,
                             !.high = high, !.got = @ \o page,
                             !.owed = IF first THEN {k \in Keys : runs[k] \in list.filter} ELSE @]
  /\ UNCHANGED <<runs, byStatus>>

Inventory ==
  /\ op = "inventory"
  /\ (\E k \in Keys : WriteManifest(k)) \/ ListRuns
  /\ UNCHANGED <<op, walkVars, resultVars, transcriptVars>>

------------------------------------------------------------------------------
ReadersNext == Walking \/ ReadingResult \/ Transcribing \/ Inventory

ReadersSpec == ReadersInit /\ [][ReadersNext]_readersVars

------------------------------------------------------------------------------
(* Types *)

Parts == {"none", "whole", "torn"}
Walks == [pc : {"idle", "stat", "parse", "artifact", "ended", "refused"}, reading : BOOLEAN,
          cursor : [agent : Agents \cup {NoAgent}, of : Agents \cup {NoAgent}, offset : Nat],
          todo : SUBSET Agents, of : Agents \cup {NoAgent}, offset : Nat, items : Nat,
          got : [Agents -> Nat], from : [Agents -> Agents \cup {NoAgent}], seen : SUBSET Agents,
          skipped : SUBSET Agents, owed : SUBSET Agents, torn : BOOLEAN, early : SUBSET Agents,
          identity : Nat]
Scans == [pc : {"idle", "scanning"}, after : Nat, cursor : Nat, last : Nat, batches : Nat,
          events : Seq(Nat), got : Seq(Nat), more : BOOLEAN, moved : BOOLEAN, floor : Nat]

ReadersTypeOK ==
  /\ op \in {"walk", "read", "result", "transcript", "inventory"}
  /\ stage \in [Agents -> {"new", "running", "recorded", "stored", "settled"}]
  /\ files \in [Agents -> [data : Parts, meta : Parts]]
  /\ journal \in [records : [Agents -> Agents \cup {NoAgent}], reads : BOOLEAN, identity : Nat]
  /\ otherReads \in BOOLEAN /\ failure \in BOOLEAN /\ faults \in 0..MaxFaults
  /\ cache \in [run : {"none", "this", "other"}, identity : Nat,
                 records : [Agents -> Agents \cup {NoAgent}]]
  /\ walk \in Walks
  /\ other \in [pc : {"idle", "parse"}, said : {"nothing", "page", "absent", "damaged"}]
  /\ result \in [data : Parts, meta : Parts, status : {"running", "completed", "ended"}]
  /\ reader \in [offset : Nat, got : Nat, state : {"reading", "read", "refused", "unavailable"}]
  /\ stream \in Seq(BOOLEAN) /\ Len(stream) <= MaxEvents /\ scan \in Scans
  /\ runs \in [Keys -> Statuses \cup {0}] /\ byStatus \in [Statuses -> SUBSET Keys]
  /\ list \in [state : {"new", "listing", "listed"}, filter : SUBSET Statuses, after : Nat, high : Nat,
                got : Seq(Keys), owed : SUBSET Keys]

\* each once and in order
Increasing(s) == \A i, j \in DOMAIN s : i < j => s[i] < s[j]

(* Properties *)

\* no call of another invocation has this one's cache key
Alone(a) == \A b \in Agents : Key[b] = Key[a] => b = a

\* Nobody who follows the cursors misses or repeats a byte or is given bytes of two
\* results for one agent.  A walk over a run none of whose files is damaged is never
\* refused a cursor it was given, skips nothing, and ends with every result that was on
\* the disk when it began, whole and in order, also while agents finish, artifacts appear
\* and the store's one journal cache serves another client; only an agent whose key is
\* another's too may be named in skipped, or be the one the refused cursor names.  A walk
\* that meets damage ends with each result whole or named in skipped.  A completed run
\* serves every byte of its result (readAgentResults, #journalResultsByKey, resultPage,
\* parseResultCursor, #persistResult).
PagesExact ==
  /\ ~walk.torn /\ reader.state # "refused"
  /\ faults = 0 => /\ \A a \in walk.skipped : ~Alone(a)
                   /\ walk.pc = "refused" => ~Alone(walk.cursor.agent)
  /\ walk.pc = "ended" =>
       /\ faults = 0 => walk.owed \subseteq walk.seen \cup walk.skipped
       /\ \A a \in walk.seen \ walk.skipped : walk.got[a] = Size(Content[walk.from[a]])
  /\ reader.state = "read" => reader.got = Size(ResultContent)

\* Every page given for an agent holds what a call of its own key returned, and, if no
\* other call has that key, what its own call returned, and only after it returned: never
\* the value an agent of the same number returned in the predecessor whose records the
\* journal was copied from (#agentResultBytes).
OwnResult ==
  \A a \in walk.seen :
    /\ Key[walk.from[a]] = Key[a]
    /\ Alone(a) => walk.from[a] = a /\ a \notin walk.early

\* What the pages and the results of one agent add up to.
ResultsExact == ReadersTypeOK /\ PagesExact /\ OwnResult

\* The events a client collected by following toCursor are the agent's events up to that
\* cursor, each once and in order; a page that says there is more has moved the cursor,
\* and one that says there is no more has given every event recorded before it was
\* asked for (readAgentTranscript).
TranscriptExact ==
  scan.pc = "idle" =>
    /\ Increasing(scan.got) /\ ToSet(scan.got) = {c \in 1..scan.after : stream[c]}
    /\ scan.more => scan.moved
    /\ ~scan.more => scan.after >= scan.floor

\* A client that pages the inventory is given no run twice and runs in order, and at the
\* end every run that existed when it began and had a status of the filter all along,
\* while runs are created, with keys before and after the cursor, and change status
\* (listRuns, #indexManifest).
InventoryExact ==
  /\ Increasing(list.got)
  /\ list.state = "listed" => list.owed \subseteq ToSet(list.got)

(* What the code does not do *)

\* A page given for an agent holds what its own call returned: "a missing result is a fine
\* answer; a confidently wrong one is not", the comment of #agentResultBytes.  Calls of
\* two invocations share a key when the calls up to them are the same, and the records of
\* all invocations are looked up in one map: the last one's answers for both, also for an
\* agent that is still running.
NoSiblingResult == \A a \in walk.seen : walk.from[a] = a /\ a \notin walk.early

\* A walk over an undamaged run skips nothing and is refused nothing.  The bytes of an
\* agent whose key is another's too change under its cursor, whose checksum then fails.
UndamagedWalkCompletes == faults = 0 => walk.pc # "refused" /\ walk.skipped = {}

\* An agent whose recorded result cannot be read is said to be damaged, in skipped or by
\* the error: the comment of #journalResultsByKey.  The listing drops it without a word.
DamageIsTold ==
  walk.pc = "ended" => walk.owed \subseteq walk.seen \cup walk.skipped

\* A read calls the store damaged only when something of the run is: the comments of
\* #journalReadFailure and readAgentResult.  The field outlives the lookup that set it.
BlameIsDeserved == other.said = "damaged" => faults > 0

================================================================================
