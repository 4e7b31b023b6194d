------------------------------ MODULE DataVolume ------------------------------
(***************************************************************************)
(* The data volume of a standalone installation and the commands that own it *)
(* in turn: the daemon's start (daemon/dataLayout.ts), an offline backup, a   *)
(* restore and the check before a reset (maintenance/backup.ts), each under   *)
(* the owner flock, with the launcher's volume removal and the publication of *)
(* backups in a host directory, which are not.                                *)
(*                                                                         *)
(* A process may die between two steps and the host may lose power: what a    *)
(* directory was told since its last fsync may then be undone, the latest     *)
(* changes first if the file system is Journaled, any of them if not.  Beside *)
(* what a directory holds stands every state of it that may survive.         *)
(***************************************************************************)
EXTENDS Naturals, Sequences, SequencesExt, Functions

CONSTANTS
  Paths,       \* the entries of an archive, in the order of the archive
  Layout,      \* layout.json, one of them
  Journaled,   \* the file system keeps the order of its changes
  MaxWrites,   \* bound: versions of a file
  MaxBackups,  \* bound: archives made
  MaxFaults    \* bound: power losses, and changes made behind the owner's back

Restoring == ".restore-in-progress.json"
Preparing == ".restore-in-progress.preparing"
ResetClaim == ".restore-reset-claimed.json"
Claiming == ".restore-reset-claimed.preparing"
Temporary == "layout.json.tmp"

Marks == {Restoring, Preparing, ResetClaim, Claiming}
Reserved == Marks \cup {Temporary}

ASSUME DataVolumeAssumption ==
  /\ Paths \in Seq(STRING) /\ Layout \in ToSet(Paths) /\ Journaled \in BOOLEAN
  /\ MaxWrites \in Nat /\ MaxBackups \in Nat /\ MaxFaults \in Nat
  /\ ToSet(Paths) \cap Reserved = {}

VARIABLES
  root,        \* the names in the volume's root
  survivors,   \* what a power loss may leave of them
  payload,     \* the files beside layout.json: path -> version, 0 when cut short
  owner,       \* the process that holds the flock
  resetOk,     \* the launcher was told that the volume may be removed
  backups,     \* the archives made
  leaves, leavesSurviving, \* the two names of the host directory, likewise
  committer,   \* how far the publication of each archive is
  faults,
  from,        \* the archive the volume should hold since a restore began to write, or 0
  served,      \* the daemon has acknowledged a write to the volume
  restored,    \* a restore of the volume was reported
  destroyed    \* a reset removed a volume with an acknowledged write

volume == <<root, survivors, payload>>
host == <<leaves, leavesSurviving, committer>>
ghosts == <<from, served, restored, destroyed>>
volumeVars == <<volume, owner, resetOk, backups, host, faults, ghosts>>

Files == ToSet(Paths) \ {Layout}

------------------------------------------------------------------------------
(* Directories *)

Changes(del, add) ==
  LET Changed(names) == (names \ del) \cup add
  IN /\ root' = Changed(root)
     /\ survivors' = survivors \cup
          IF Journaled THEN {Changed(root)} ELSE {Changed(names) : names \in survivors}

Flush == survivors' = {root} /\ UNCHANGED root

With(f, p, v) == [q \in DOMAIN f \cup {p} |-> IF q = p THEN v ELSE f[q]]

Nobody == [role |-> "nobody", pc |-> "idle", at |-> 0, backup |-> 0, hashes |-> <<>>, bytes |-> <<>>]
Owns(role, pc) == owner.role = role /\ owner.pc = pc
Free == owner.role = "nobody"

\* what an archive of the volume holds
ContentAt(names) ==
  [p \in DOMAIN payload \cup (names \cap {Layout}) |-> IF p = Layout THEN 1 ELSE payload[p]]
Content == ContentAt(root)

NoLeaves == [archive |-> 0, checksum |-> 0]

VolumeInit ==
  /\ root = {} /\ survivors = {{}}
  /\ payload \in {<<>>, [p \in Files |-> 1]}
  /\ owner = Nobody /\ resetOk = FALSE
  /\ backups = <<>>
  /\ leaves = NoLeaves /\ leavesSurviving = {NoLeaves}
  /\ committer = [b \in 1..MaxBackups |-> "none"]
  /\ faults = 0 /\ from = 0 /\ served = FALSE /\ restored = FALSE /\ destroyed = FALSE

------------------------------------------------------------------------------
(* The daemon *)

\* inspectWorkflowDataLayout
Inspected ==
  IF root \cap Marks # {} THEN "refused"
  ELSE IF Layout \in root THEN "ready"
  ELSE IF root = {} THEN "unprepared" ELSE "refused"

StartDaemon ==
  /\ Free /\ Inspected # "refused"
  /\ owner' = [Nobody EXCEPT !.role = "daemon",
                             !.pc = IF Inspected = "ready" THEN "serving" ELSE "selecting"]
  /\ UNCHANGED <<volume, resetOk, backups, host, faults, ghosts>>

\* writeSelectorAtomically: a temporary, its rename, the fsync of the root
WriteSelector ==
  /\ Owns("daemon", "selecting")
  /\ Changes({}, {Temporary})
  /\ owner' = [owner EXCEPT !.pc = "written"]
  /\ UNCHANGED <<payload, resetOk, backups, host, faults, ghosts>>

RenameSelector ==
  /\ Owns("daemon", "written")
  /\ Changes({Temporary}, {Layout})
  /\ owner' = [owner EXCEPT !.pc = "renamed"]
  /\ UNCHANGED <<payload, resetOk, backups, host, faults, ghosts>>

SyncSelector ==
  /\ Owns("daemon", "renamed")
  /\ Flush
  /\ owner' = [owner EXCEPT !.pc = "serving"]
  /\ UNCHANGED <<payload, resetOk, backups, host, faults, ghosts>>

\* one of these calls fails: the temporary is removed
FailSelector ==
  /\ Owns("daemon", "written")
  /\ Changes({Temporary}, {})
  /\ owner' = Nobody
  /\ UNCHANGED <<payload, resetOk, backups, host, faults, ghosts>>

\* a durable write of the daemon, acknowledged after its own fsync
Serve(p) ==
  /\ Owns("daemon", "serving")
  /\ p \in DOMAIN payload => payload[p] < MaxWrites
  /\ payload' = With(payload, p, IF p \in DOMAIN payload THEN payload[p] + 1 ELSE 1)
  /\ served' = TRUE
  /\ IF Journaled THEN Flush ELSE UNCHANGED <<root, survivors>>
  /\ UNCHANGED <<owner, resetOk, backups, host, faults, from, restored, destroyed>>

------------------------------------------------------------------------------
(* Backup *)

\* createOfflineBackup; the volume must have a layout
StartBackup ==
  /\ Free /\ Layout \in root /\ Len(backups) < MaxBackups
  /\ owner' = [Nobody EXCEPT !.role = "backup", !.pc = "inventory", !.at = 1]
  /\ UNCHANGED <<volume, resetOk, backups, host, faults, ghosts>>

\* inventoryPayload: the digest of one entry after the other
TakeInventory ==
  /\ Owns("backup", "inventory") /\ owner.at <= Len(Paths)
  /\ LET p == Paths[owner.at]
     IN owner' = [owner EXCEPT !.at = @ + 1,
                    !.hashes = IF p \in DOMAIN Content THEN With(@, p, Content[p]) ELSE @]
  /\ UNCHANGED <<volume, resetOk, backups, host, faults, ghosts>>

\* the whole payload at this moment is kept for the properties
EndInventory ==
  /\ Owns("backup", "inventory") /\ owner.at > Len(Paths)
  /\ owner' = [owner EXCEPT !.pc = "writing", !.at = 1, !.bytes = Content]
  /\ UNCHANGED <<volume, resetOk, backups, host, faults, ghosts>>

Rereads(hash, read) == hash = read

WriteEntry ==
  /\ Owns("backup", "writing") /\ owner.at <= Len(Paths)
  /\ LET p == Paths[owner.at]
     IN owner' = IF p \notin DOMAIN owner.hashes THEN [owner EXCEPT !.at = @ + 1]
                 ELSE IF Rereads(owner.hashes[p], Content[p])
                   THEN [owner EXCEPT !.at = @ + 1, !.hashes[p] = Content[p]]
                 ELSE Nobody
  /\ UNCHANGED <<volume, resetOk, backups, host, faults, ghosts>>

\* the archive passes the verifier and is published in its private directory, from which
\* the launcher copies it to the host
EndBackup ==
  /\ Owns("backup", "writing") /\ owner.at > Len(Paths)
  /\ backups' = Append(backups, [content |-> owner.hashes, snapshot |-> owner.bytes,
                                 marked |-> root \cap Marks # {}])
  /\ committer' = [committer EXCEPT ![Len(backups) + 1] = "copied"]
  /\ owner' = Nobody
  /\ UNCHANGED <<volume, resetOk, leaves, leavesSurviving, faults, ghosts>>

------------------------------------------------------------------------------
(* Publication in the host directory: commitHostBackup *)

Check(b) ==
  /\ committer[b] = "copied"
  /\ committer' = [committer EXCEPT
       ![b] = IF leaves = NoLeaves THEN "checked" ELSE "failed"]
  /\ UNCHANGED <<leaves, leavesSurviving>>

\* link(2) fails when the name exists
\* Mutant of Linkable: rename(2), which replaces it.
Linkable_Rename(leaf) == TRUE
Linkable(leaf) == leaves[leaf] = 0

Link(b, leaf, before, after) ==
  /\ committer[b] = before
  /\ IF Linkable(leaf)
       THEN /\ leaves' = [leaves EXCEPT ![leaf] = b]
            /\ leavesSurviving' = leavesSurviving \cup
                 IF Journaled THEN {leaves'} ELSE {[l EXCEPT ![leaf] = b] : l \in leavesSurviving}
            /\ committer' = [committer EXCEPT ![b] = after]
       ELSE /\ committer' = [committer EXCEPT ![b] = "failed"]
            /\ UNCHANGED <<leaves, leavesSurviving>>

Sync(b, before, after) ==
  /\ committer[b] = before
  /\ committer' = [committer EXCEPT ![b] = after]
  /\ leavesSurviving' = {leaves} /\ UNCHANGED leaves

DieCommitting(b) ==
  /\ committer[b] \notin {"none", "done", "failed"}
  /\ committer' = [committer EXCEPT ![b] = "failed"]
  /\ UNCHANGED <<leaves, leavesSurviving>>

Publish(b) ==
  /\ \/ Check(b) \/ DieCommitting(b)
     \/ Link(b, "archive", "checked", "archived") \/ Sync(b, "archived", "durable")
     \/ Link(b, "checksum", "durable", "linked") \/ Sync(b, "linked", "done")
  /\ UNCHANGED <<volume, owner, resetOk, backups, faults, ghosts>>

------------------------------------------------------------------------------
(* Restore *)

\* verifyOfflineBackup: the sidecar is there and names these bytes
Verifies(b) == leaves.checksum = b /\ leaves.archive = b

\* assertRestoreTargetEmpty
TargetEmpty == root = {} /\ payload = <<>>

StartRestore(b) ==
  /\ Free /\ b \in DOMAIN backups /\ Verifies(b) /\ TargetEmpty
  /\ owner' = [Nobody EXCEPT !.role = "restore", !.pc = "verified", !.backup = b,
                             !.bytes = backups[b].content]
  /\ UNCHANGED <<volume, resetOk, backups, host, faults, ghosts>>

MarkPreparing ==
  /\ Owns("restore", "verified")
  /\ Changes({}, {Preparing})
  /\ owner' = [owner EXCEPT !.pc = "preparing"]
  /\ UNCHANGED <<payload, resetOk, backups, host, faults, ghosts>>

MarkRestoring ==
  /\ Owns("restore", "preparing")
  /\ Changes({Preparing}, {Restoring})
  /\ owner' = [owner EXCEPT !.pc = "marked"]
  /\ UNCHANGED <<payload, resetOk, backups, host, faults, ghosts>>

SyncMark ==
  /\ Owns("restore", "marked")
  /\ Flush
  /\ owner' = [owner EXCEPT !.pc = "extracting", !.at = 1]
  /\ from' = owner.backup
  /\ UNCHANGED <<payload, resetOk, backups, host, faults, served, restored, destroyed>>

\* one entry of the archive as it is read now, synced with its directory; the process may
\* die within it
Extract ==
  /\ Owns("restore", "extracting") /\ owner.at <= Len(Paths)
  /\ LET p == Paths[owner.at]
         goes == [owner EXCEPT !.at = @ + 1]
         reads == [goes EXCEPT !.hashes = With(@, p, owner.bytes[p])]
     IN IF p \notin DOMAIN owner.bytes THEN owner' = goes /\ UNCHANGED volume
        ELSE IF p = Layout
          THEN /\ owner' = reads /\ root' = root \cup {Layout} /\ survivors' = {root'}
               /\ UNCHANGED payload
        ELSE /\ \/ owner' = reads /\ payload' = With(payload, p, owner.bytes[p])
                \/ owner' = Nobody /\ payload' = With(payload, p, 0)
             /\ UNCHANGED <<root, survivors>>
  /\ UNCHANGED <<resetOk, backups, host, faults, ghosts>>

\* the bytes read are the bytes verified
\* Mutant of DigestMatches: the digest of the second reading is not compared.
DigestMatches_Unread(read, b) == DOMAIN read = DOMAIN backups[b].content
DigestMatches(read, b) == read = backups[b].content

EndExtraction ==
  /\ Owns("restore", "extracting") /\ owner.at > Len(Paths)
  /\ owner' = IF DigestMatches(owner.hashes, owner.backup) /\ root \cap {ResetClaim, Claiming} = {}
                THEN [owner EXCEPT !.pc = "committing"] ELSE Nobody
  /\ IF DigestMatches(owner.hashes, owner.backup) THEN Flush ELSE UNCHANGED <<root, survivors>>
  /\ UNCHANGED <<payload, resetOk, backups, host, faults, ghosts>>

UnlinkMark ==
  /\ Owns("restore", "committing")
  /\ Changes({Restoring}, {})
  /\ owner' = [owner EXCEPT !.pc = "committed"]
  /\ UNCHANGED <<payload, resetOk, backups, host, faults, ghosts>>

ReportRestore ==
  /\ Owns("restore", "committed")
  /\ Flush
  /\ owner' = Nobody /\ restored' = TRUE
  /\ UNCHANGED <<payload, resetOk, backups, host, faults, from, served, destroyed>>

------------------------------------------------------------------------------
(* Reset: claimInterruptedRestore, then the launcher *)

\* Mutant of Interrupted: only an extraction that has begun.
Interrupted_Begun(names) == Restoring \in names
Interrupted(names) == names \cap {Restoring, Preparing} # {}

MayReset(names) == ResetClaim \in names \/ Interrupted(names)

StartReset ==
  /\ Free /\ MayReset(root)
  /\ IF ResetClaim \in root THEN resetOk' = TRUE /\ UNCHANGED owner
     ELSE /\ owner' = [Nobody EXCEPT !.role = "reset", !.pc = "checked"]
          /\ UNCHANGED resetOk
  /\ UNCHANGED <<volume, backups, host, faults, ghosts>>

WriteClaim ==
  /\ Owns("reset", "checked")
  /\ Changes({}, {Claiming})
  /\ owner' = [owner EXCEPT !.pc = "claiming"]
  /\ UNCHANGED <<payload, resetOk, backups, host, faults, ghosts>>

PublishClaim ==
  /\ Owns("reset", "claiming")
  /\ Changes({Claiming}, {ResetClaim})
  /\ owner' = [owner EXCEPT !.pc = "claimed"]
  /\ UNCHANGED <<payload, resetOk, backups, host, faults, ghosts>>

SyncClaim ==
  /\ Owns("reset", "claimed")
  /\ Flush
  /\ owner' = Nobody /\ resetOk' = TRUE
  /\ UNCHANGED <<payload, backups, host, faults, ghosts>>

Emptied ==
  /\ owner.role \in {"nobody", "daemon"}
  /\ root' = {} /\ survivors' = {{}} /\ payload' = <<>>
  /\ owner' = Nobody /\ resetOk' = FALSE
  /\ from' = 0 /\ served' = FALSE /\ restored' = FALSE
  /\ UNCHANGED <<backups, host, faults>>

\* the launcher takes the daemon down and removes the volume; the next command finds a new one
RemoveVolume == resetOk /\ Emptied /\ destroyed' = (destroyed \/ served)

\* uninstall --delete-data, or an installation elsewhere: the operator has a backup
NewVolume == leaves.checksum # 0 /\ Emptied /\ UNCHANGED destroyed

------------------------------------------------------------------------------
(* Faults *)

\* the owner stops, fails or is killed: the kernel releases the flock
Die ==
  /\ ~Free
  /\ owner' = Nobody
  /\ UNCHANGED <<volume, resetOk, backups, host, faults, ghosts>>

PowerLoss ==
  /\ faults < MaxFaults /\ faults' = faults + 1
  /\ root' \in survivors /\ survivors' = {root'}
  /\ leaves' \in leavesSurviving /\ leavesSurviving' = {leaves'}
  /\ owner' = Nobody /\ resetOk' = FALSE
  /\ committer' = [b \in 1..MaxBackups |->
                     IF committer[b] \in {"none", "done"} THEN committer[b] ELSE "failed"]
  /\ UNCHANGED <<payload, backups, ghosts>>

\* a writer that does not take the flock changes a file while it is backed up
WriteUncoordinated(p) ==
  /\ owner.role = "backup" /\ p \in DOMAIN payload /\ payload[p] < MaxWrites
  /\ faults < MaxFaults /\ faults' = faults + 1
  /\ payload' = [payload EXCEPT ![p] = @ + 1]
  /\ from' = 0
  /\ UNCHANGED <<root, survivors, owner, resetOk, backups, host, served, restored, destroyed>>

\* the archive is changed on the host after it was verified
SwapInput(p) ==
  /\ owner.role = "restore" /\ p \in DOMAIN owner.bytes
  /\ faults < MaxFaults /\ faults' = faults + 1
  /\ owner' = [owner EXCEPT !.bytes[p] = @ + 1]
  /\ UNCHANGED <<volume, resetOk, backups, host, ghosts>>

------------------------------------------------------------------------------
Daemon ==
  StartDaemon \/ WriteSelector \/ RenameSelector \/ SyncSelector \/ FailSelector
    \/ \E p \in Files : Serve(p)
Backup ==
  \/ StartBackup \/ TakeInventory \/ EndInventory \/ WriteEntry \/ EndBackup
  \/ \E b \in 1..MaxBackups : Publish(b)
Restore ==
  \/ (\E b \in 1..MaxBackups : StartRestore(b)) \/ MarkPreparing \/ MarkRestoring \/ SyncMark
  \/ Extract \/ EndExtraction \/ UnlinkMark \/ ReportRestore
Reset == StartReset \/ WriteClaim \/ PublishClaim \/ SyncClaim \/ RemoveVolume \/ NewVolume
Fault == Die \/ PowerLoss \/ \E p \in Files : WriteUncoordinated(p) \/ SwapInput(p)

VolumeNext == Daemon \/ Backup \/ Restore \/ Reset \/ Fault

VolumeSpec == VolumeInit /\ [][VolumeNext]_volumeVars

------------------------------------------------------------------------------
(* Types *)

VolumeTypeOK ==
  /\ survivors \subseteq SUBSET (Reserved \cup {Layout}) /\ root \in survivors
  /\ DOMAIN payload \subseteq Files /\ \A p \in DOMAIN payload : payload[p] \in Nat
  /\ owner.role \in {"nobody", "daemon", "backup", "restore", "reset"}
  /\ Len(backups) <= MaxBackups
  /\ leavesSurviving \subseteq [archive : 0..MaxBackups, checksum : 0..MaxBackups]
  /\ leaves \in leavesSurviving
  /\ committer \in [1..MaxBackups -> {"none", "copied", "checked", "archived", "durable",
                                      "linked", "done", "failed"}]
  /\ faults \in 0..MaxFaults /\ from \in 0..MaxBackups
  /\ {resetOk, served, restored, destroyed} \subseteq BOOLEAN

(* Properties *)

\* The daemon opens no half-restored volume: what it first serves of a volume into which a
\* restore has written is, file by file, the archive that was verified, though the restore
\* died anywhere, power failed and the archive changed while it was read; and a restore
\* that was reported stays committed (restoreOfflineBackup, inspectWorkflowDataLayout).
RestoreExact ==
  /\ VolumeTypeOK
  /\ owner.role = "daemon" /\ from # 0 /\ ~served => Content = backups[from].content
  /\ restored => root \cap Marks = {}

\* The launcher removes no volume that the daemon has written to, and a volume nobody owns
\* can always be started, restored into or reset, whatever died; except one whose first
\* start died over its selector (claimInterruptedRestore, restore_command).
ResetExact ==
  /\ ~destroyed
  /\ Free => Inspected # "refused" \/ MayReset(root) \/ Temporary \in root

\* A published checksum names a published, whole archive of the same backup, a publication
\* that was reported survives a power loss, and every entry of an archive is what the
\* volume held at one and the same moment, also when two publications choose one name and
\* somebody writes to the volume meanwhile (commitHostBackup, inventoryPayload,
\* writeArchive).
BackupExact ==
  /\ leaves.checksum # 0 => leaves.archive = leaves.checksum
  /\ \A b \in 1..MaxBackups : committer[b] = "done" => leaves.checksum = b
  /\ \A b \in DOMAIN backups : Restrict(backups[b].snapshot, DOMAIN backups[b].content) = backups[b].content

(* What the code does not do *)

\* A start that died can be repeated: the selector is the commit record of the layout
\* (dataLayout.ts, writeSelectorAtomically).  Its temporary is an unknown entry ever after.
StartsAgain == Free => Inspected # "refused" \/ MayReset(root)

\* No archive is made of a volume that a restore has left half written, which "must never
\* be repaired or opened" (dataLayout.ts).  The inventory does not look for the marker.
NoPartialBackup == \A b \in DOMAIN backups : ~backups[b].marked

================================================================================
