------------------------------ MODULE StoreLease ------------------------------
(***************************************************************************)
(* Ownership of a workflow store directory: acquireLease() and release() of *)
(* src/fileWorkflowStore.ts with the lock directory, and the writes behind  *)
(* the gate of WriteGate.                                                   *)
(*                                                                         *)
(* `lock` is the content of the lock directory: the token of the owner that *)
(* renamed its candidate into place.  An owner that gave its lease back may *)
(* acquire again with another token; no token of its earlier lease is left  *)
(* in the directory then, so its name serves again.  Crashes are for good:  *)
(* the process that replaces a dead one is another owner.  Each await of    *)
(* acquireLease() between two file operations ends a step.                  *)
(***************************************************************************)
EXTENDS WriteGate

CONSTANTS
  NoOwner,     \* the lock directory does not exist
  Attempts     \* OWNER_ACQUIRE_ATTEMPTS

ASSUME LeaseAssumption == NoOwner \notin Owners /\ Attempts \in Nat \ {0}

VARIABLES
  lock,       \* the owner whose token is in the lock directory
  pc,         \* where each owner is in acquireLease() or release()
  seen,       \* the owner it read from owner.json, in the stages between
  attempt,    \* the loop counter of acquireLease(), 0 outside it
  usurped,    \* history: owners whose lock went while they had writes in flight
  raced       \* history: a reclaimer moved a lock it had not inspected

leaseVars == <<lock, pc, seen, attempt, usurped, raced>>
vars == <<gateVars, leaseVars>>

Stages == {"idle", "claiming", "inspecting", "judging", "reclaiming",
           "owner", "closing", "unlocking", "cleaning", "crashed"}

TypeOK ==
  /\ GateTypeOK
  /\ lock \in Owners \cup {NoOwner}
  /\ pc \in [Owners -> Stages]
  /\ seen \in [Owners -> Owners \cup {NoOwner}]
  /\ attempt \in [Owners -> 0..Attempts]
  /\ usurped \subseteq Owners
  /\ raced \in BOOLEAN

Goes(o, s) == pc' = [pc EXCEPT ![o] = s]
Alive(o) == pc[o] # "crashed"

\* The token check of #assertDefaultLeaseOwned.
Owned(o) == lock = o

\* The lock directory is renamed to a tombstone, or filled; permits of the
\* owner that loses it are from now on without a lease.
LockBecomes(o) ==
  /\ lock' = o
  /\ usurped' = usurped \cup {p \in Owners : p = lock /\ p # o /\ active[p] > 0}

-------------------------------------------------------------------------------
(* acquireLease()                                                           *)

StartAcquire(o) ==
  /\ pc[o] = "idle"
  /\ Goes(o, "claiming")
  /\ UNCHANGED <<gateVars, lock, seen, attempt, usurped, raced>>

\* rename(candidate, lock) finds no lock: this is the owner, its gate opens.
Claim(o) ==
  /\ pc[o] = "claiming" /\ lock = NoOwner
  /\ LockBecomes(o)
  /\ OpenGate(o)
  /\ Goes(o, "owner")
  /\ attempt' = [attempt EXCEPT ![o] = 0]
  /\ UNCHANGED <<seen, raced>>

\* rename(candidate, lock) fails: another lock is in the way.
ClaimRefused(o) ==
  /\ pc[o] = "claiming" /\ lock # NoOwner
  /\ Goes(o, "inspecting")
  /\ UNCHANGED <<gateVars, lock, seen, attempt, usurped, raced>>

\* readOwner(): what it finds may be gone by now.
Inspect(o) ==
  /\ pc[o] = "inspecting"
  /\ seen' = [seen EXCEPT ![o] = lock]
  /\ Goes(o, "judging")
  /\ UNCHANGED <<gateVars, lock, attempt, usurped, raced>>

\* Mutant of Judge: a lock is never stale.
Judge_AlwaysAlive(o) ==
  /\ pc[o] = "judging"
  /\ Goes(o, IF seen[o] # NoOwner THEN "idle" ELSE "reclaiming")
  /\ seen' = [seen EXCEPT ![o] = NoOwner]
  /\ attempt' = [attempt EXCEPT ![o] = 0]
  /\ UNCHANGED <<gateVars, lock, usurped, raced>>

\* ownerProcessIsAlive(): a live owner is a conflict, any other lock is stale.
Judge(o) ==
  /\ pc[o] = "judging"
  /\ IF seen[o] # NoOwner /\ Alive(seen[o])
     THEN /\ Goes(o, "idle")
          /\ seen' = [seen EXCEPT ![o] = NoOwner]
          /\ attempt' = [attempt EXCEPT ![o] = 0]
     ELSE Goes(o, "reclaiming") /\ UNCHANGED <<seen, attempt>>
  /\ UNCHANGED <<gateVars, lock, usurped, raced>>

\* The next iteration, or the conflict after the last one.
TryAgain(o) ==
  IF attempt[o] + 1 < Attempts
  THEN attempt' = [attempt EXCEPT ![o] = @ + 1] /\ Goes(o, "claiming")
  ELSE attempt' = [attempt EXCEPT ![o] = 0] /\ Goes(o, "idle")

\* rename(lock, tombstone) moves whatever lock is there now, or finds none.
Reclaim(o) ==
  /\ pc[o] = "reclaiming"
  /\ LockBecomes(NoOwner)
  /\ raced' = (raced \/ lock \notin {NoOwner, seen[o]})
  /\ seen' = [seen EXCEPT ![o] = NoOwner]
  /\ TryAgain(o)
  /\ UNCHANGED gateVars

-------------------------------------------------------------------------------
(* Writes of the lease holder.                                              *)

WriteEnters(o) ==
  /\ pc[o] = "owner"
  /\ Enter(o, Owned(o))
  /\ UNCHANGED leaseVars

WriteFinishes(o) == Finish(o, Owned(o)) /\ UNCHANGED leaseVars

WriteThrows(o) == Abandon(o) /\ UNCHANGED leaseVars

-------------------------------------------------------------------------------
(* release()                                                                *)

StartRelease(o) ==
  /\ pc[o] = "owner"
  /\ CloseGate(o)
  /\ Goes(o, "closing")
  /\ UNCHANGED <<lock, seen, attempt, usurped, raced>>

\* Mutant of CheckToken: the permits are not waited for.
CheckToken_NoDrain(o) ==
  /\ pc[o] = "closing"
  /\ Goes(o, IF Owned(o) THEN "unlocking" ELSE "idle")
  /\ UNCHANGED <<gateVars, lock, seen, attempt, usurped, raced>>

\* The permits are back; a lock with another token, or none, is left alone.
CheckToken(o) ==
  /\ pc[o] = "closing" /\ Drained(o)
  /\ Goes(o, IF Owned(o) THEN "unlocking" ELSE "idle")
  /\ usurped' = usurped \ {o}
  /\ UNCHANGED <<gateVars, lock, seen, attempt, raced>>

\* rename(lock, tombstone), without looking at the token again.  When the
\* tombstone cannot be removed the release is incomplete all the same.
Unlock(o) ==
  /\ pc[o] = "unlocking"
  /\ LockBecomes(NoOwner)
  /\ Goes(o, "idle") \/ Goes(o, "cleaning")
  /\ UNCHANGED <<gateVars, seen, attempt, raced>>

\* It is called again, and finds the lock gone or another owner's.
ReleaseAgain(o) ==
  /\ pc[o] = "cleaning"
  /\ Goes(o, "idle")
  /\ UNCHANGED <<gateVars, lock, seen, attempt, usurped, raced>>

\* The rename fails: the release stays incomplete and is called again.
UnlockFails(o) ==
  /\ pc[o] = "unlocking"
  /\ Goes(o, "closing")
  /\ UNCHANGED <<gateVars, lock, seen, attempt, usurped, raced>>

-------------------------------------------------------------------------------
\* The process dies anywhere; the lock directory outlives it.
Crash(o) ==
  /\ Alive(o)
  /\ LoseGate(o)
  /\ Goes(o, "crashed")
  /\ seen' = [seen EXCEPT ![o] = NoOwner]
  /\ attempt' = [attempt EXCEPT ![o] = 0]
  /\ usurped' = usurped \ {o}
  /\ UNCHANGED <<lock, raced>>

Init ==
  /\ GateInit
  /\ lock = NoOwner
  /\ pc = [o \in Owners |-> "idle"]
  /\ seen = [o \in Owners |-> NoOwner]
  /\ attempt = [o \in Owners |-> 0]
  /\ usurped = {}
  /\ raced = FALSE

Next ==
  \E o \in Owners :
    \/ StartAcquire(o) \/ Claim(o) \/ ClaimRefused(o)
    \/ Inspect(o) \/ Judge(o) \/ Reclaim(o)
    \/ WriteEnters(o) \/ WriteFinishes(o) \/ WriteThrows(o)
    \/ StartRelease(o) \/ CheckToken(o) \/ Unlock(o) \/ UnlockFails(o)
    \/ ReleaseAgain(o) \/ Crash(o)

Spec == Init /\ [][Next]_vars

\* A process that is acquiring runs on: its file operations return.
Fairness ==
  \A o \in Owners :
    /\ WF_vars(Claim(o)) /\ WF_vars(ClaimRefused(o))
    /\ WF_vars(Inspect(o)) /\ WF_vars(Judge(o)) /\ WF_vars(Reclaim(o))

FairSpec == Spec /\ Fairness

-------------------------------------------------------------------------------
\* While no reclaimer moves a lock it did not inspect, whoever can write or is
\* writing has the lock: lease transfer and the writes of the old owner never
\* overlap.
SingleWriter ==
  ~raced => \A o \in Owners : o \in gate \/ active[o] > 0 => lock = o

\* Even if a lease is usurped in the middle of a write, that write is refused:
\* no acknowledged write overlapped another owner's lease.
NoUsurpedAcknowledgement ==
  [][\A o \in Owners :
       active'[o] < active[o] /\ o \in acked' => o \notin usurped]_vars

\* A live process that is through with its lease leaves no lock behind: its
\* pid would make every later acquireLease() a conflict.
NoStrandedLock ==
  \A o \in Owners :
    lock = o => pc[o] \in {"owner", "closing", "unlocking", "crashed"}

\* The lock and the gates of the processes agree, across release, reclaim and
\* crash: who may write holds the lock, and who holds it may still need it.
LockDiscipline == TypeOK /\ SingleWriter /\ NoStrandedLock

StaleLock == lock # NoOwner /\ ~Alive(lock)

\* The lock of a dead owner does not keep out a process that wants the store.
StaleLockReclaimed ==
  \A o \in Owners :
    (pc[o] = "claiming" /\ StaleLock) ~> (~StaleLock \/ ~Alive(o))
================================================================================
