---------------------------- MODULE OwnershipProofs ----------------------------
(***************************************************************************)
(* Safety of the two things on a disk that processes own in turn: the store, *)
(* by its lock directory, and the data volume, by the owner flock.          *)
(***************************************************************************)
EXTENDS StoreLease, DataVolume, SequenceTheorems, TLAPS

-------------------------------------------------------------------------------
(* The lock directory and the write gate, for any number of processes, attempts *)
(* and writes in flight.                                                   *)

Holding == {"owner", "closing", "unlocking"}

\* Gates and permits belong to lease holders; a usurped holder has no token in
\* the lock; what a reclaimer judged stale stays stale; and a holder has the
\* lock unless a race took it.
HolderExact ==
  \A o \in Owners :
    /\ o \in gate => pc[o] = "owner"
    /\ active[o] > 0 => pc[o] \in {"owner", "closing"}
    /\ o \in usurped => pc[o] \in {"owner", "closing"} /\ lock # o
    /\ pc[o] = "reclaiming" /\ seen[o] # NoOwner => pc[seen[o]] = "crashed"
    /\ ~raced /\ pc[o] \in Holding => lock = o

LeaseInv == TypeOK /\ NoStrandedLock /\ HolderExact

LEMMA InitLeaseInv == Init => LeaseInv
<1> SUFFICES ASSUME Init
             PROVE  LeaseInv
  OBVIOUS
<1> USE DEF Init, GateInit
<1>1. /\ active \in [Owners -> 0..MaxPermits] /\ attempt \in [Owners -> 0..Attempts]
      /\ \A o \in Owners : ~(active[o] > 0)
  BY GateAssumption, LeaseAssumption
<1>2. pc \in [Owners -> Stages] /\ \A o \in Owners : pc[o] = "idle"
  BY DEF Stages
<1>3. TypeOK
  BY <1>1, <1>2, Zenon DEF TypeOK, GateTypeOK
<1>4. NoStrandedLock
  BY LeaseAssumption DEF NoStrandedLock
<1>5. HolderExact
  BY <1>1, <1>2 DEF HolderExact, Holding
<1> QED
  BY <1>3, <1>4, <1>5 DEF LeaseInv

\* The gate's operations keep the types of its variables, and issue permits
\* only under an open gate.
LEMMA GateStep ==
  ASSUME GateTypeOK, NEW o \in Owners, NEW owned,
         \/ UNCHANGED gateVars \/ OpenGate(o) \/ CloseGate(o) \/ LoseGate(o)
         \/ Enter(o, owned) \/ Finish(o, owned) \/ Abandon(o)
  PROVE  /\ GateTypeOK'
         /\ \A p \in Owners : active'[p] > 0 => active[p] > 0 \/ p \in gate
         /\ gate' \subseteq gate \cup {o}
BY GateAssumption
   DEF GateTypeOK, gateVars, OpenGate, CloseGate, LoseGate, Enter, Finish, Abandon

\* A write neither moves the lock nor its owner.
LEMMA WritePreserves ==
  ASSUME LeaseInv, NEW o \in Owners,
         WriteEnters(o) \/ WriteFinishes(o) \/ WriteThrows(o)
  PROVE  LeaseInv'
<1> USE DEF LeaseInv
<1>1. UNCHANGED leaseVars
  BY DEF WriteEnters, WriteFinishes, WriteThrows
<1>2. Enter(o, Owned(o)) \/ Finish(o, Owned(o)) \/ Abandon(o)
  BY DEF WriteEnters, WriteFinishes, WriteThrows
<1>3. /\ GateTypeOK' /\ gate' \subseteq gate
      /\ \A p \in Owners : active'[p] > 0 => active[p] > 0 \/ p \in gate
  BY <1>2, GateStep DEF TypeOK, Enter, Finish, Abandon, CloseGate
<1>4. TypeOK' /\ NoStrandedLock'
  BY <1>1, <1>3 DEF TypeOK, NoStrandedLock, leaseVars
<1>5. HolderExact'
  BY <1>1, <1>3 DEF HolderExact, leaseVars
<1> QED
  BY <1>4, <1>5

LEMMA AcquirePreserves ==
  ASSUME LeaseInv, NEW o \in Owners,
         StartAcquire(o) \/ ClaimRefused(o) \/ Inspect(o) \/ Judge(o)
  PROVE  LeaseInv'
<1> USE DEF LeaseInv
<1>1. UNCHANGED <<gateVars, lock, usurped, raced>>
  BY DEF StartAcquire, ClaimRefused, Inspect, Judge
<1>2. PICK s \in {"idle", "claiming", "inspecting", "judging", "reclaiming"} : Goes(o, s)
  BY DEF StartAcquire, ClaimRefused, Inspect, Judge
<1>3. pc[o] \in {"idle", "claiming", "inspecting", "judging"}
  BY DEF StartAcquire, ClaimRefused, Inspect, Judge
<1>4. /\ seen' \in [Owners -> Owners \cup {NoOwner}]
      /\ attempt' \in [Owners -> 0..Attempts]
      /\ \A p \in Owners : p # o => seen'[p] = seen[p]
  BY LeaseAssumption DEF StartAcquire, ClaimRefused, Inspect, Judge, TypeOK
<1>5. pc' = [pc EXCEPT ![o] = s]
  BY <1>2 DEF Goes
<1>6. TypeOK'
  BY <1>1, <1>4, <1>5 DEF TypeOK, GateTypeOK, gateVars, Stages
<1>7. NoStrandedLock'
  BY <1>1, <1>3, <1>5 DEF NoStrandedLock, TypeOK
<1>8. s = "reclaiming" /\ seen'[o] # NoOwner => pc[seen'[o]] = "crashed"
  BY <1>3, <1>5 DEF StartAcquire, ClaimRefused, Inspect, Judge, Goes, Alive, TypeOK
<1>9. HolderExact'
  <2>1. ASSUME NEW p \in Owners
        PROVE  pc'[p] = "reclaiming" /\ seen'[p] # NoOwner => pc'[seen'[p]] = "crashed"
    BY <1>3, <1>4, <1>5, <1>8, LeaseAssumption DEF HolderExact, TypeOK
  <2>2. ASSUME NEW p \in Owners
        PROVE  /\ p \in gate' => pc'[p] = "owner"
               /\ active'[p] > 0 => pc'[p] \in {"owner", "closing"}
               /\ p \in usurped' => pc'[p] \in {"owner", "closing"} /\ lock' # p
               /\ ~raced' /\ pc'[p] \in Holding => lock' = p
    BY <1>1, <1>3, <1>5 DEF HolderExact, TypeOK, gateVars, Holding
  <2> QED
    BY <2>1, <2>2 DEF HolderExact
<1> QED
  BY <1>6, <1>7, <1>9

\* The lock changes hands in Claim, Reclaim and Unlock only: the owner that
\* loses it joins the usurped ones if it has writes in flight.
LEMMA LockStep ==
  ASSUME LeaseInv, NEW o \in Owners \cup {NoOwner}, LockBecomes(o),
         o \in Owners => pc[o] = "claiming"
  PROVE  /\ usurped' \subseteq Owners
         /\ \A p \in Owners : p \in usurped' =>
               p # lock' /\ pc[p] \in {"owner", "closing"}
<1>1. /\ lock' = o
      /\ usurped' = usurped \cup {p \in Owners : p = lock /\ p # o /\ active[p] > 0}
  BY DEF LockBecomes
<1>2. ASSUME NEW p \in Owners, p \in usurped'
      PROVE  p # lock' /\ pc[p] \in {"owner", "closing"}
  <2>1. CASE p \in usurped
    <3>1. p # lock /\ pc[p] \in {"owner", "closing"}
      BY <2>1 DEF LeaseInv, HolderExact
    <3> QED
      BY <1>1, <3>1
  <2>2. CASE p \notin usurped
    BY <1>1, <1>2, <2>2 DEF LeaseInv, HolderExact
  <2> QED
    BY <2>1, <2>2
<1> QED
  BY <1>1, <1>2 DEF LeaseInv, TypeOK

LEMMA ClaimPreserves ==
  ASSUME LeaseInv, NEW o \in Owners, Claim(o)
  PROVE  LeaseInv'
<1> USE DEF LeaseInv
<1>1. /\ pc[o] = "claiming" /\ lock = NoOwner /\ lock' = o
      /\ pc' = [pc EXCEPT ![o] = "owner"]
      /\ seen' = seen /\ raced' = raced
      /\ attempt' = [attempt EXCEPT ![o] = 0]
  BY DEF Claim, LockBecomes, Goes
<1>2. GateTypeOK' /\ gate' = gate \cup {o} /\ active' = active
  BY GateStep DEF Claim, TypeOK, OpenGate
<1>3. /\ usurped' \subseteq Owners
      /\ \A p \in Owners : p \in usurped' =>
            p # lock' /\ pc[p] \in {"owner", "closing"}
  BY <1>1, LockStep DEF Claim
<1>4. TypeOK'
  BY <1>1, <1>2, <1>3, LeaseAssumption DEF TypeOK, Stages
<1>5. NoStrandedLock'
  BY <1>1 DEF NoStrandedLock, TypeOK
<1>6. ASSUME NEW p \in Owners
      PROVE  ~raced' /\ pc'[p] \in Holding => lock' = p
  BY <1>1, LeaseAssumption DEF HolderExact, Holding, TypeOK
<1>7. ASSUME NEW p \in Owners
      PROVE  /\ p \in gate' => pc'[p] = "owner"
             /\ active'[p] > 0 => pc'[p] \in {"owner", "closing"}
             /\ p \in usurped' => pc'[p] \in {"owner", "closing"} /\ lock' # p
             /\ pc'[p] = "reclaiming" /\ seen'[p] # NoOwner => pc'[seen'[p]] = "crashed"
  BY <1>1, <1>2, <1>3 DEF HolderExact, TypeOK
<1> QED
  BY <1>4, <1>5, <1>6, <1>7 DEF HolderExact

LEMMA ReclaimPreserves ==
  ASSUME LeaseInv, NEW o \in Owners, Reclaim(o)
  PROVE  LeaseInv'
<1> USE DEF LeaseInv
<1>1. PICK s \in {"claiming", "idle"} : pc' = [pc EXCEPT ![o] = s]
  BY DEF Reclaim, TryAgain, Goes
<1>2. /\ pc[o] = "reclaiming" /\ lock' = NoOwner
      /\ raced' = (raced \/ lock \notin {NoOwner, seen[o]})
      /\ seen' = [seen EXCEPT ![o] = NoOwner]
      /\ UNCHANGED gateVars
  BY DEF Reclaim, LockBecomes
<1>3. attempt' \in [Owners -> 0..Attempts]
  BY LeaseAssumption DEF Reclaim, TryAgain, TypeOK
<1>4. /\ usurped' \subseteq Owners
      /\ \A p \in Owners : p \in usurped' =>
            p # lock' /\ pc[p] \in {"owner", "closing"}
  BY LockStep, LeaseAssumption DEF Reclaim
<1>5. raced' \in BOOLEAN
  BY <1>2, Zenon
<1>6. TypeOK'
  BY <1>1, <1>2, <1>3, <1>4, <1>5 DEF TypeOK, GateTypeOK, gateVars, Stages
<1>7. NoStrandedLock'
  BY <1>2, LeaseAssumption DEF NoStrandedLock
<1>8. ASSUME NEW p \in Owners, pc'[p] \in Holding
      PROVE  raced'
  <2>1. p # o /\ pc[p] \in Holding
    BY <1>1, <1>8 DEF TypeOK, Holding
  <2>2. CASE raced
    BY <1>2, <2>2
  <2>3. CASE ~raced
    <3>1. lock = p
      BY <2>1, <2>3 DEF HolderExact
    <3>2. seen[o] # p
      BY <1>2, <2>1, LeaseAssumption DEF HolderExact, Holding
    <3> QED
      BY <1>2, <3>1, <3>2, LeaseAssumption
  <2> QED
    BY <2>2, <2>3
<1>9. ASSUME NEW p \in Owners
      PROVE  /\ p \in gate' => pc'[p] = "owner"
             /\ active'[p] > 0 => pc'[p] \in {"owner", "closing"}
             /\ p \in usurped' => pc'[p] \in {"owner", "closing"} /\ lock' # p
             /\ pc'[p] = "reclaiming" /\ seen'[p] # NoOwner => pc'[seen'[p]] = "crashed"
  BY <1>1, <1>2, <1>4 DEF HolderExact, TypeOK, gateVars
<1> QED
  BY <1>6, <1>7, <1>8, <1>9 DEF HolderExact

LEMMA ReleasePreserves ==
  ASSUME LeaseInv, NEW o \in Owners,
         StartRelease(o) \/ CheckToken(o) \/ UnlockFails(o)
  PROVE  LeaseInv'
<1> USE DEF LeaseInv
<1>1. PICK s \in {"closing", "unlocking", "idle"} : pc' = [pc EXCEPT ![o] = s]
  BY DEF StartRelease, CheckToken, UnlockFails, Goes
<1>2. /\ UNCHANGED <<lock, seen, attempt, raced>> /\ pc[o] \in Holding
      /\ usurped' \subseteq usurped
  BY DEF StartRelease, CheckToken, UnlockFails, Holding
<1>3. UNCHANGED gateVars \/ CloseGate(o)
  BY DEF StartRelease, CheckToken, UnlockFails
<1>4. GateTypeOK' /\ gate' \subseteq gate /\ active' = active
  BY <1>3, GateStep DEF TypeOK, CloseGate, gateVars
<1>5. TypeOK'
  BY <1>1, <1>2, <1>4 DEF TypeOK, Stages
<1>6. s = "idle" => lock # o
  BY <1>1, <1>2 DEF StartRelease, CheckToken, UnlockFails, Goes, Owned, TypeOK
<1>7. NoStrandedLock'
  BY <1>1, <1>2, <1>6 DEF NoStrandedLock, TypeOK
<1>8. /\ o \notin gate'
      /\ ~(active'[o] > 0) \/ s = "closing"
      /\ o \notin usurped' \/ s = "closing"
  BY <1>1, <1>2, <1>4 DEF StartRelease, CheckToken, UnlockFails, Goes, Drained,
     CloseGate, HolderExact, GateTypeOK, TypeOK
<1>9. ASSUME NEW p \in Owners
      PROVE  /\ p \in gate' => pc'[p] = "owner"
             /\ active'[p] > 0 => pc'[p] \in {"owner", "closing"}
             /\ p \in usurped' => pc'[p] \in {"owner", "closing"} /\ lock' # p
             /\ pc'[p] = "reclaiming" /\ seen'[p] # NoOwner => pc'[seen'[p]] = "crashed"
             /\ ~raced' /\ pc'[p] \in Holding => lock' = p
  BY <1>1, <1>2, <1>4, <1>8 DEF HolderExact, TypeOK, Holding
<1> QED
  BY <1>5, <1>7, <1>9 DEF HolderExact

LEMMA UnlockPreserves ==
  ASSUME LeaseInv, NEW o \in Owners, Unlock(o)
  PROVE  LeaseInv'
<1> USE DEF LeaseInv
<1>1. PICK s \in {"idle", "cleaning"} :
        /\ pc[o] = "unlocking" /\ pc' = [pc EXCEPT ![o] = s]
        /\ lock' = NoOwner /\ UNCHANGED <<gateVars, seen, attempt, raced>>
  BY DEF Unlock, LockBecomes, Goes
<1>2. /\ usurped' \subseteq Owners
      /\ \A p \in Owners : p \in usurped' =>
            p # lock' /\ pc[p] \in {"owner", "closing"}
  BY LockStep, LeaseAssumption DEF Unlock
<1>3. TypeOK'
  BY <1>1, <1>2 DEF TypeOK, GateTypeOK, gateVars, Stages
<1>4. NoStrandedLock'
  BY <1>1, LeaseAssumption DEF NoStrandedLock
<1>5. ASSUME NEW p \in Owners
      PROVE  ~raced' /\ pc'[p] \in Holding => lock' = p
  <2>1. ASSUME p # o, ~raced, pc[p] \in Holding
        PROVE  FALSE
    BY <1>1, <2>1 DEF HolderExact, Holding
  <2> QED
    BY <1>1, <2>1 DEF TypeOK, Holding
<1>6. ASSUME NEW p \in Owners
      PROVE  /\ p \in gate' => pc'[p] = "owner"
             /\ active'[p] > 0 => pc'[p] \in {"owner", "closing"}
             /\ p \in usurped' => pc'[p] \in {"owner", "closing"} /\ lock' # p
             /\ pc'[p] = "reclaiming" /\ seen'[p] # NoOwner => pc'[seen'[p]] = "crashed"
  BY <1>1, <1>2 DEF HolderExact, TypeOK, gateVars
<1> QED
  BY <1>3, <1>4, <1>5, <1>6 DEF HolderExact

LEMMA ReleaseAgainPreserves ==
  ASSUME LeaseInv, NEW o \in Owners, ReleaseAgain(o)
  PROVE  LeaseInv'
<1> USE DEF LeaseInv
<1>1. /\ pc[o] = "cleaning" /\ pc' = [pc EXCEPT ![o] = "idle"]
      /\ UNCHANGED <<gateVars, lock, seen, attempt, usurped, raced>>
  BY DEF ReleaseAgain, Goes
<1>2. TypeOK'
  BY <1>1 DEF TypeOK, GateTypeOK, gateVars, Stages
<1>3. NoStrandedLock'
  BY <1>1 DEF NoStrandedLock, TypeOK
<1>4. HolderExact'
  BY <1>1 DEF HolderExact, TypeOK, gateVars, Holding
<1> QED
  BY <1>2, <1>3, <1>4

LEMMA CrashPreserves ==
  ASSUME LeaseInv, NEW o \in Owners, Crash(o)
  PROVE  LeaseInv'
<1> USE DEF LeaseInv
<1>1. /\ pc' = [pc EXCEPT ![o] = "crashed"] /\ UNCHANGED <<lock, raced>>
      /\ usurped' = usurped \ {o} /\ seen' = [seen EXCEPT ![o] = NoOwner]
      /\ attempt' = [attempt EXCEPT ![o] = 0]
  BY DEF Crash, Goes
<1>2. /\ gate' = gate \ {o} /\ active' = [active EXCEPT ![o] = 0] /\ GateTypeOK'
  BY GateStep DEF Crash, TypeOK, LoseGate
<1>3. TypeOK'
  BY <1>1, <1>2, LeaseAssumption DEF TypeOK, Stages
<1>4. NoStrandedLock'
  BY <1>1 DEF NoStrandedLock, TypeOK
<1>5. ASSUME NEW p \in Owners
      PROVE  /\ p \in gate' => pc'[p] = "owner"
             /\ active'[p] > 0 => pc'[p] \in {"owner", "closing"}
             /\ p \in usurped' => pc'[p] \in {"owner", "closing"} /\ lock' # p
             /\ ~raced' /\ pc'[p] \in Holding => lock' = p
  BY <1>1, <1>2 DEF HolderExact, TypeOK, GateTypeOK, Holding
<1>6. ASSUME NEW p \in Owners
      PROVE  pc'[p] = "reclaiming" /\ seen'[p] # NoOwner => pc'[seen'[p]] = "crashed"
  BY <1>1, LeaseAssumption DEF HolderExact, TypeOK
<1> QED
  BY <1>3, <1>4, <1>5, <1>6 DEF HolderExact

LEMMA NextLeaseInv == LeaseInv /\ [Next]_vars => LeaseInv'
<1> SUFFICES ASSUME LeaseInv, [Next]_vars
             PROVE  LeaseInv'
  OBVIOUS
<1>1. CASE UNCHANGED vars
  BY <1>1 DEF LeaseInv, TypeOK, GateTypeOK, NoStrandedLock, HolderExact,
              vars, gateVars, leaseVars
<1>2. ASSUME NEW o \in Owners,
             \/ StartAcquire(o) \/ Claim(o) \/ ClaimRefused(o)
             \/ Inspect(o) \/ Judge(o) \/ Reclaim(o)
             \/ WriteEnters(o) \/ WriteFinishes(o) \/ WriteThrows(o)
             \/ StartRelease(o) \/ CheckToken(o) \/ Unlock(o) \/ UnlockFails(o)
             \/ ReleaseAgain(o) \/ Crash(o)
      PROVE  LeaseInv'
  BY <1>2, AcquirePreserves, ClaimPreserves, ReclaimPreserves, WritePreserves,
     ReleasePreserves, UnlockPreserves, ReleaseAgainPreserves, CrashPreserves
<1> QED
  BY <1>1, <1>2 DEF Next

-------------------------------------------------------------------------------
\* The strengthened invariant holds in every reachable state.
THEOREM LeaseInvariance == Spec => []LeaseInv
BY InitLeaseInv, NextLeaseInv, PTL DEF Spec

\* The lock directory, the acquiring processes and their gates keep their types.
THEOREM TypeCorrect == Spec => []TypeOK
BY LeaseInvariance, PTL DEF LeaseInv

\* Every open gate and every write in flight belong to the owner whose token is
\* in the lock directory, unless a reclaimer moved a lock it had not inspected.
THEOREM OneWriter == Spec => []SingleWriter
<1>1. LeaseInv => SingleWriter
  BY DEF LeaseInv, HolderExact, SingleWriter, Holding
<1> QED
  BY <1>1, LeaseInvariance, PTL

\* release() never completes with its own token still in the lock directory.
THEOREM LockReleased == Spec => []NoStrandedLock
BY LeaseInvariance, PTL DEF LeaseInv

\* The lock directory and the gates of all processes agree, through release,
\* reclaim and crash.
THEOREM DisciplineKept == Spec => []LockDiscipline
BY TypeCorrect, OneWriter, LockReleased, PTL DEF LockDiscipline

\* The second verification of LeaseScopedWriteCoordinator.run refuses every
\* write whose lease was lost meanwhile, races included.
THEOREM AcknowledgedWritesFenced == Spec => NoUsurpedAcknowledgement
<1>1. ASSUME LeaseInv, [Next]_vars, NEW o \in Owners,
             active'[o] < active[o], o \in acked'
      PROVE  o \notin usurped
  <2> USE DEF LeaseInv
  <2>1. ASSUME NEW p \in Owners, WriteFinishes(p)
        PROVE  lock = o
    <3>1. p = o
      BY <1>1, <2>1 DEF WriteFinishes, Finish, TypeOK, GateTypeOK
    <3>2. Owned(o)
      BY <1>1, <2>1, <3>1 DEF WriteFinishes, Finish
    <3> QED
      BY <3>2 DEF Owned
  <2>2. ASSUME NEW p \in Owners, WriteThrows(p) \/ Crash(p)
        PROVE  FALSE
    <3>1. p # o => active'[o] = active[o]
      BY <1>1, <2>2 DEF WriteThrows, Abandon, Crash, LoseGate, TypeOK, GateTypeOK
    <3>2. o \notin acked' \/ p # o
      BY <2>2 DEF WriteThrows, Abandon, Crash, LoseGate
    <3> QED
      BY <1>1, <3>1, <3>2 DEF TypeOK, GateTypeOK
  <2>3. ASSUME NEW p \in Owners, WriteEnters(p)
        PROVE  FALSE
    <3>1. active' = active \/ active' = [active EXCEPT ![p] = @ + 1]
      BY <2>3 DEF WriteEnters, Enter, CloseGate
    <3> QED
      BY <1>1, <3>1 DEF TypeOK, GateTypeOK
  <2>4. ASSUME active' = active
        PROVE  FALSE
    BY <1>1, <2>4 DEF TypeOK, GateTypeOK
  <2>5. ASSUME NEW p \in Owners,
               \/ StartAcquire(p) \/ Claim(p) \/ ClaimRefused(p)
               \/ Inspect(p) \/ Judge(p) \/ Reclaim(p)
               \/ StartRelease(p) \/ CheckToken(p) \/ Unlock(p) \/ UnlockFails(p)
               \/ ReleaseAgain(p)
        PROVE  active' = active
    BY <2>5 DEF StartAcquire, Claim, ClaimRefused, Inspect, Judge, Reclaim,
                StartRelease, CheckToken, Unlock, UnlockFails, ReleaseAgain, OpenGate,
                CloseGate, gateVars
  <2>6. UNCHANGED vars => active' = active
    BY DEF vars, gateVars
  <2>7. lock = o
    BY <1>1, <2>1, <2>2, <2>3, <2>4, <2>5, <2>6 DEF Next
  <2> QED
    BY <1>1, <2>7 DEF HolderExact
<1>2. LeaseInv /\ [Next]_vars =>
        [\A o \in Owners :
           active'[o] < active[o] /\ o \in acked' => o \notin usurped]_vars
  BY <1>1
<1> QED
  BY <1>2, LeaseInvariance, PTL DEF Spec, NoUsurpedAcknowledgement

-------------------------------------------------------------------------------
(* The data volume, for any archive and any number of backups, writes and faults. *)

\* Digests or versions by path.
Tables == UNION {[names -> Nat] : names \in SUBSET ToSet(Paths)}
Archives == [content : Tables, snapshot : Tables, marked : BOOLEAN]

OwnerType ==
  [role : {"nobody", "daemon", "backup", "restore", "reset"},
   pc : {"idle", "selecting", "written", "renamed", "serving", "inventory", "writing",
         "verified", "preparing", "marked", "extracting", "committing", "committed",
         "checked", "claiming", "claimed"},
   at : Nat, backup : 0..MaxBackups, hashes : Tables, bytes : Tables]

Typed ==
  /\ survivors \subseteq SUBSET (Reserved \cup {Layout}) /\ root \in survivors
  /\ payload \in Tables /\ Layout \notin DOMAIN payload
  /\ owner \in OwnerType
  /\ backups \in Seq(Archives) /\ Len(backups) <= MaxBackups
  /\ leavesSurviving \subseteq [archive : 0..MaxBackups, checksum : 0..MaxBackups]
  /\ leaves \in leavesSurviving
  /\ committer \in [1..MaxBackups -> {"none", "copied", "checked", "archived", "durable",
                                      "linked", "done", "failed"}]
  /\ faults \in 0..MaxFaults /\ from \in 0..MaxBackups
  /\ resetOk \in BOOLEAN /\ served \in BOOLEAN /\ restored \in BOOLEAN /\ destroyed \in BOOLEAN

\* A checksum stands beside its archive, and what a publication has synced stays.
Published ==
  /\ \A l \in leavesSurviving :
       /\ l.checksum # 0 => l.archive = l.checksum
       /\ l.archive \in {0, leaves.archive}
  /\ \A b \in 1..MaxBackups :
       /\ committer[b] = "archived" => leaves.archive = b
       /\ committer[b] \in {"durable", "linked", "done"} => \A l \in leavesSurviving : l.archive = b
       /\ committer[b] = "linked" => leaves.checksum = b
       /\ committer[b] = "done" => \A l \in leavesSurviving : l.checksum = b

\* An archive holds its layout, and its entries are of one moment.
Copied ==
  \A b \in DOMAIN backups :
    LET whole == backups[b]
    IN /\ Layout \in DOMAIN whole.content /\ whole.content[Layout] = 1
       /\ \A p \in DOMAIN whole.content :
            p \in DOMAIN whole.snapshot /\ whole.snapshot[p] = whole.content[p]

\* While a backup is made the volume only moves on from what it has read.
Copying ==
  owner.role = "backup" =>
    /\ owner.pc \in {"inventory", "writing"} /\ Layout \in root /\ owner.at \in Nat \ {0}
    /\ Len(backups) < MaxBackups
    /\ \A p \in DOMAIN owner.hashes : p \in DOMAIN Content /\ owner.hashes[p] <= Content[p]
    /\ Layout \in DOMAIN owner.hashes => owner.hashes[Layout] = 1
    /\ owner.pc = "inventory" =>
         \A i \in DOMAIN Paths : i < owner.at /\ Paths[i] = Layout => Layout \in DOMAIN owner.hashes
    /\ owner.pc = "writing" =>
         /\ Layout \in DOMAIN owner.hashes
         /\ \A p \in DOMAIN owner.hashes :
              /\ p \in DOMAIN owner.bytes
              /\ owner.hashes[p] <= owner.bytes[p] /\ owner.bytes[p] <= Content[p]
         /\ \A i \in DOMAIN Paths :
              i < owner.at /\ Paths[i] \in DOMAIN owner.hashes =>
                owner.hashes[Paths[i]] = owner.bytes[Paths[i]]

\* What a restore has done to the volume at each of its steps.
Restores ==
  owner.role = "restore" =>
    /\ owner.pc \in {"verified", "preparing", "marked", "extracting", "committing", "committed"}
    /\ owner.backup \in DOMAIN backups /\ ~restored /\ (Journaled => ~served)
    /\ owner.pc \in {"verified", "preparing", "marked"} =>
         DOMAIN payload = {} /\ DOMAIN owner.hashes = {}
    /\ owner.pc = "verified" => root = {}
    /\ owner.pc = "preparing" => root = {Preparing}
    /\ owner.pc = "marked" => root = {Restoring}
    /\ owner.pc = "extracting" =>
         /\ root \ {Layout} = {Restoring} /\ from = owner.backup
         /\ \A names \in survivors : Restoring \in names
         /\ DOMAIN owner.hashes = DOMAIN Content
         /\ \A p \in DOMAIN payload : owner.hashes[p] = payload[p]
    /\ owner.pc = "committing" => root = {Restoring, Layout} /\ survivors = {root}
    /\ owner.pc = "committed" => root = {Layout}
    /\ owner.pc \in {"committing", "committed"} =>
         from = owner.backup /\ Content = backups[from].content

\* What a daemon finds and does when it starts.
Serves ==
  owner.role = "daemon" =>
    /\ \/ owner.pc = "selecting" /\ root = {}
       \/ owner.pc = "written" /\ root = {Temporary}
       \/ owner.pc = "renamed" /\ root = {Layout}
       \/ owner.pc = "serving" /\ Layout \in root /\ root \cap Marks = {}
    /\ owner.pc # "serving" => from = 0 \/ served

\* A volume without a mark is the archive it was restored from, or was written to.
Restored ==
  /\ from # 0 => from \in DOMAIN backups
  /\ from # 0 /\ ~served =>
       \A names \in survivors : names \cap Marks = {} => ContentAt(names) = backups[from].content
  /\ restored => \A names \in survivors : Layout \in names /\ names \cap Marks = {}

\* A reset is allowed only of a marked volume.
Resets ==
  /\ resetOk => ResetClaim \in root /\ owner.role \in {"nobody", "backup"}
  /\ owner.role = "reset" =>
       /\ owner.pc \in {"checked", "claiming", "claimed"} /\ MayReset(root)
       /\ owner.pc = "claimed" => ResetClaim \in root
       /\ ~restored /\ (Journaled => ~served)

\* A volume with a write keeps its layout and never gets a mark.
Written ==
  Journaled =>
    /\ ~destroyed
    /\ \A names \in survivors : Claiming \in names => MayReset(names)
    /\ served => \A names \in survivors : Layout \in names /\ names \cap Marks = {}

VolumeInv ==
  Typed /\ Published /\ Copied /\ Copying /\ Restores /\ Serves /\ Restored /\ Resets /\ Written


-------------------------------------------------------------------------------
(* Tables, directories and archives.                                        *)

\* What a table is.
LEMMA TableIs ==
  /\ \A f \in Tables :
       /\ DOMAIN f \subseteq ToSet(Paths) /\ f = [q \in DOMAIN f |-> f[q]]
       /\ \A q \in DOMAIN f : f[q] \in Nat
  /\ \A f : /\ f = [q \in DOMAIN f |-> f[q]] /\ DOMAIN f \subseteq ToSet(Paths)
            /\ \A q \in DOMAIN f : f[q] \in Nat
            => f \in Tables
<1>1. ASSUME NEW f \in Tables
      PROVE  /\ DOMAIN f \subseteq ToSet(Paths) /\ f = [q \in DOMAIN f |-> f[q]]
             /\ \A q \in DOMAIN f : f[q] \in Nat
  <2>1. PICK names \in SUBSET ToSet(Paths) : f \in [names -> Nat]
    BY DEF Tables
  <2> QED
    BY <2>1
<1>2. ASSUME NEW f, f = [q \in DOMAIN f |-> f[q]], DOMAIN f \subseteq ToSet(Paths),
             \A q \in DOMAIN f : f[q] \in Nat
      PROVE  f \in Tables
  <2>1. f \in [DOMAIN f -> Nat]
    BY <1>2
  <2> QED
    BY <1>2, <2>1 DEF Tables
<1> QED
  BY <1>1, <1>2

\* Tables that agree are one.
LEMMA TableEqual ==
  ASSUME NEW f \in Tables, NEW g \in Tables, DOMAIN f = DOMAIN g, \A q \in DOMAIN f : f[q] = g[q]
  PROVE  f = g
BY TableIs

\* The table without entries.
LEMMA TableEmpty ==
  <<>> \in Tables /\ DOMAIN <<>> = {} /\ \A f \in Tables : DOMAIN f = {} => f = <<>>
<1>1. DOMAIN <<>> = {} /\ <<>> = [q \in DOMAIN <<>> |-> <<>>[q]]
  OBVIOUS
<1>2. <<>> \in Tables
  BY <1>1, TableIs
<1> QED
  BY <1>1, <1>2, TableEqual

\* An entry is set.
LEMMA TableWith ==
  ASSUME NEW f \in Tables, NEW p \in ToSet(Paths), NEW v \in Nat
  PROVE  /\ With(f, p, v) \in Tables /\ DOMAIN With(f, p, v) = DOMAIN f \cup {p}
         /\ With(f, p, v)[p] = v /\ \A q \in DOMAIN f : q # p => With(f, p, v)[q] = f[q]
<1>1. /\ DOMAIN With(f, p, v) = DOMAIN f \cup {p} /\ With(f, p, v)[p] = v
      /\ \A q \in DOMAIN f : q # p => With(f, p, v)[q] = f[q]
      /\ With(f, p, v) = [q \in DOMAIN With(f, p, v) |-> With(f, p, v)[q]]
  BY DEF With
<1>2. DOMAIN f \subseteq ToSet(Paths) /\ \A q \in DOMAIN f : f[q] \in Nat
  BY TableIs
<1>3. \A q \in DOMAIN With(f, p, v) : With(f, p, v)[q] \in Nat
  BY <1>1, <1>2
<1> HIDE DEF With
<1> QED
  BY <1>1, <1>2, <1>3, TableIs

\* The layout is an entry of an archive, and no entry is a mark or a temporary.
LEMMA LayoutIs ==
  /\ Layout \in ToSet(Paths) /\ Layout \notin Reserved /\ Layout \notin Marks
  /\ \A i \in DOMAIN Paths : Paths[i] \in ToSet(Paths)
  /\ \E i \in DOMAIN Paths : Paths[i] = Layout
  /\ \A p \in ToSet(Paths) : \E i \in DOMAIN Paths : Paths[i] = p
  /\ DOMAIN Paths = 1..Len(Paths) /\ Len(Paths) \in Nat
BY DataVolumeAssumption DEF ToSet, Reserved

\* The whole of a volume.
LEMMA ContentIs ==
  ASSUME Typed, NEW names
  PROVE  /\ ContentAt(names) \in Tables
         /\ DOMAIN ContentAt(names) = DOMAIN payload \cup (names \cap {Layout})
         /\ \A p \in DOMAIN payload : p # Layout /\ ContentAt(names)[p] = payload[p]
         /\ Layout \in names => ContentAt(names)[Layout] = 1
<1>1. /\ DOMAIN payload \subseteq ToSet(Paths) /\ Layout \in ToSet(Paths)
           /\ Layout \notin DOMAIN payload
      /\ \A q \in DOMAIN payload : payload[q] \in Nat
  BY TableIs, LayoutIs DEF Typed
<1>2. /\ DOMAIN ContentAt(names) = DOMAIN payload \cup (names \cap {Layout})
      /\ \A p \in DOMAIN payload : p # Layout /\ ContentAt(names)[p] = payload[p]
      /\ Layout \in names => ContentAt(names)[Layout] = 1
      /\ ContentAt(names) = [q \in DOMAIN ContentAt(names) |-> ContentAt(names)[q]]
  BY <1>1 DEF ContentAt
<1>3. \A q \in DOMAIN ContentAt(names) : ContentAt(names)[q] \in Nat
  BY <1>1, <1>2
<1> HIDE DEF ContentAt
<1> QED
  BY <1>1, <1>2, <1>3, TableIs

\* A change of the root, and what a power loss may leave after it.
LEMMA Changed ==
  ASSUME NEW del, NEW add, add \subseteq Reserved \cup {Layout}, Typed, Changes(del, add)
  PROVE  /\ root' = (root \ del) \cup add /\ root' \in survivors'
         /\ survivors' \subseteq SUBSET (Reserved \cup {Layout})
         /\ \A s \in survivors' : s \in survivors \/ \E t \in survivors : s = (t \ del) \cup add
         /\ Journaled => \A s \in survivors' : s \in survivors \/ s = root'
<1>1. /\ root' = (root \ del) \cup add /\ root \in survivors
      /\ Journaled => survivors' = survivors \cup {root'}
      /\ ~Journaled => survivors' = survivors \cup {(t \ del) \cup add : t \in survivors}
  BY DEF Changes, Typed
<1>2. \A s \in survivors' : s \in survivors \/ \E t \in survivors : s = (t \ del) \cup add
  BY <1>1
<1>3. survivors' \subseteq SUBSET (Reserved \cup {Layout})
  BY <1>1, <1>2 DEF Typed
<1>4. root' \in survivors'
  BY <1>1
<1> QED
  BY <1>1, <1>2, <1>3, <1>4

\* The archives made.
LEMMA ArchiveIs ==
  ASSUME Typed
  PROVE  /\ Len(backups) \in Nat /\ DOMAIN backups = 1..Len(backups)
         /\ \A b \in DOMAIN backups :
              b \in 1..MaxBackups /\ backups[b].content \in Tables /\ backups[b].snapshot \in Tables
<1>1. /\ Len(backups) \in Nat /\ DOMAIN backups = 1..Len(backups) /\ Len(backups) <= MaxBackups
      /\ MaxBackups \in Nat
  BY DataVolumeAssumption DEF Typed
<1>2. \A b \in DOMAIN backups : backups[b] \in Archives
  BY DEF Typed
<1> QED
  BY <1>1, <1>2 DEF Archives

\* No name of the root is another.
LEMMA Names ==
  /\ Marks = {Restoring, Preparing, ResetClaim, Claiming} /\ Reserved = Marks \cup {Temporary}
  /\ Restoring # Preparing /\ Restoring # ResetClaim /\ Restoring # Claiming
       /\ Preparing # ResetClaim
  /\ Preparing # Claiming /\ ResetClaim # Claiming /\ Temporary \notin Marks
  /\ Layout \notin Marks /\ Layout # Temporary
BY LayoutIs DEF Reserved, Marks, Restoring, Preparing, ResetClaim, Claiming, Temporary

\* What a volume holds follows from its files and whether its root has a layout.
LEMMA ContentStays ==
  /\ UNCHANGED payload => \A names : ContentAt(names)' = ContentAt(names)
  /\ UNCHANGED <<root, payload>> => Content' = Content
  /\ \A names, others : (Layout \in names <=> Layout \in others)
       => ContentAt(names) = ContentAt(others)
<1>1. \A names : ContentAt(names) =
        [p \in DOMAIN payload \cup (names \cap {Layout}) |-> IF p = Layout THEN 1 ELSE payload[p]]
  BY DEF ContentAt
<1>2. \A names, others : (Layout \in names <=> Layout \in others)
        => names \cap {Layout} = others \cap {Layout}
  OBVIOUS
<1>3. UNCHANGED payload => \A names : ContentAt(names)' = ContentAt(names)
  BY DEF ContentAt
<1>4. UNCHANGED <<root, payload>> => Content' = Content
  BY DEF Content, ContentAt
<1> QED
  BY <1>1, <1>2, <1>3, <1>4

\* Nobody owns nothing.
LEMMA NobodyIs ==
  /\ Nobody \in OwnerType
  /\ Nobody.role = "nobody" /\ Nobody.hashes = <<>>
  /\ \A role \in {"daemon", "backup", "restore", "reset"} :
       \A at \in {"selecting", "serving", "inventory", "checked"} :
       [Nobody EXCEPT !.role = role, !.pc = at] \in OwnerType
<1>1. 0 \in 0..MaxBackups
  BY DataVolumeAssumption
<1> QED
  BY <1>1, TableEmpty DEF Nobody, OwnerType

\* One name of the host directory is linked.
LEMMA LinkKept ==
  ASSUME VolumeInv, NEW b \in 1..MaxBackups,
         \/ Link(b, "archive", "checked", "archived") \/ Link(b, "checksum", "durable", "linked")
  PROVE  /\ leaves' \in leavesSurviving'
         /\ leavesSurviving' \subseteq [archive : 0..MaxBackups, checksum : 0..MaxBackups]
         /\ committer' \in [1..MaxBackups -> {"none", "copied", "checked", "archived", "durable",
                                              "linked", "done", "failed"}]
         /\ Published'
<1> DEFINE Both == [archive : 0..MaxBackups, checksum : 0..MaxBackups]
<1>1. /\ leaves \in leavesSurviving /\ leavesSurviving \subseteq Both
      /\ committer \in [1..MaxBackups -> {"none", "copied", "checked", "archived", "durable",
                                          "linked", "done", "failed"}]
      /\ Published /\ b # 0 /\ b \in 0..MaxBackups
  BY DataVolumeAssumption DEF VolumeInv, Typed
<1>2. CASE committer' = [committer EXCEPT ![b] = "failed"] /\ UNCHANGED <<leaves, leavesSurviving>>
  BY <1>1, <1>2 DEF Published
<1>3. ASSUME committer[b] = "checked", leaves.archive = 0,
             leaves' = [leaves EXCEPT !.archive = b],
             committer' = [committer EXCEPT ![b] = "archived"],
             \A l \in leavesSurviving' :
               l \in leavesSurviving \/ \E k \in leavesSurviving : l = [k EXCEPT !.archive = b],
             leaves' \in leavesSurviving'
      PROVE  leavesSurviving' \subseteq Both /\ Published'
  <2>1. \A l \in leavesSurviving : l.archive = 0 /\ l.checksum = 0
    BY <1>1, <1>3 DEF Published
  <2>2. \A l \in leavesSurviving' :
          l \in Both /\ (l.archive = 0 \/ l.archive = b) /\ l.checksum = 0
    BY <1>1, <1>3, <2>1
  <2>3. leaves'.archive = b
    BY <1>1, <1>3
  <2>4. \A c \in 1..MaxBackups : committer[c] \notin {"archived", "durable", "linked", "done"}
    BY <1>1, <1>3 DEF Published
  <2>5. \A c \in 1..MaxBackups :
          committer'[c] \notin {"durable", "linked", "done"}
            /\ (committer'[c] = "archived" => c = b)
    BY <1>1, <1>3, <2>4
  <2> QED
    BY <1>3, <2>2, <2>3, <2>5 DEF Published
<1>4. ASSUME committer[b] = "durable", leaves.checksum = 0,
             leaves' = [leaves EXCEPT !.checksum = b],
             committer' = [committer EXCEPT ![b] = "linked"],
             \A l \in leavesSurviving' :
               l \in leavesSurviving \/ \E k \in leavesSurviving : l = [k EXCEPT !.checksum = b],
             leaves' \in leavesSurviving'
      PROVE  leavesSurviving' \subseteq Both /\ Published'
  <2>1. \A l \in leavesSurviving : l.archive = b
    BY <1>1, <1>4 DEF Published
  <2>2. \A l \in leavesSurviving' :
          l \in Both /\ l.archive = b /\ (l.checksum # 0 => l.checksum = b)
    BY <1>1, <1>4, <2>1 DEF Published
  <2>3. leaves'.checksum = b /\ leaves'.archive = b
    BY <1>1, <1>4, <2>1
  <2>4. \A c \in 1..MaxBackups :
          /\ committer[c] \notin {"linked", "done"}
          /\ committer[c] \in {"archived", "durable"} => c = b
    BY <1>1, <1>4, <2>1 DEF Published
  <2>5. \A c \in 1..MaxBackups :
          committer'[c] # "done" /\ (committer'[c] \in {"archived", "durable", "linked"} => c = b)
    BY <1>1, <1>4, <2>4
  <2> QED
    BY <1>4, <2>2, <2>3, <2>5 DEF Published
<1>5. CASE Link(b, "archive", "checked", "archived") /\ Linkable("archive")
  <2>1. /\ committer[b] = "checked" /\ leaves.archive = 0
        /\ leaves' = [leaves EXCEPT !.archive = b]
        /\ committer' = [committer EXCEPT ![b] = "archived"]
        /\ \A l \in leavesSurviving' :
             l \in leavesSurviving \/ \E k \in leavesSurviving : l = [k EXCEPT !.archive = b]
        /\ leaves' \in leavesSurviving'
    BY <1>1, <1>5 DEF Link, Linkable
  <2> QED
    BY <1>1, <1>3, <2>1
<1>6. CASE Link(b, "checksum", "durable", "linked") /\ Linkable("checksum")
  <2>1. /\ committer[b] = "durable" /\ leaves.checksum = 0
        /\ leaves' = [leaves EXCEPT !.checksum = b]
        /\ committer' = [committer EXCEPT ![b] = "linked"]
        /\ \A l \in leavesSurviving' :
             l \in leavesSurviving \/ \E k \in leavesSurviving : l = [k EXCEPT !.checksum = b]
        /\ leaves' \in leavesSurviving'
    BY <1>1, <1>6 DEF Link, Linkable
  <2> QED
    BY <1>1, <1>4, <2>1
<1> QED
  BY <1>2, <1>5, <1>6 DEF Link

\* The host directory is synced.
LEMMA SyncKept ==
  ASSUME VolumeInv, NEW b \in 1..MaxBackups,
         Sync(b, "archived", "durable") \/ Sync(b, "linked", "done")
  PROVE  /\ leaves' \in leavesSurviving'
         /\ leavesSurviving' \subseteq [archive : 0..MaxBackups, checksum : 0..MaxBackups]
         /\ committer' \in [1..MaxBackups -> {"none", "copied", "checked", "archived", "durable",
                                              "linked", "done", "failed"}]
         /\ Published'
<1>1. /\ leaves \in leavesSurviving
      /\ leavesSurviving \subseteq [archive : 0..MaxBackups, checksum : 0..MaxBackups]
      /\ committer \in [1..MaxBackups -> {"none", "copied", "checked", "archived", "durable",
                                          "linked", "done", "failed"}]
      /\ Published
  BY DEF VolumeInv, Typed
<1>2. leaves' = leaves /\ leavesSurviving' = {leaves}
  BY DEF Sync
<1>3. CASE Sync(b, "archived", "durable")
  BY <1>1, <1>2, <1>3 DEF Sync, Published
<1>4. CASE Sync(b, "linked", "done")
  BY <1>1, <1>2, <1>4 DEF Sync, Published
<1> QED
  BY <1>3, <1>4

\* A publication touches only the host directory.
LEMMA PublishKept == ASSUME VolumeInv, NEW b \in 1..MaxBackups, Publish(b) PROVE VolumeInv'
<1>1. /\ leaves' \in leavesSurviving'
      /\ leavesSurviving' \subseteq [archive : 0..MaxBackups, checksum : 0..MaxBackups]
      /\ committer' \in [1..MaxBackups -> {"none", "copied", "checked", "archived", "durable",
                                           "linked", "done", "failed"}]
      /\ Published'
  <2>1. CASE Check(b)
    BY <2>1 DEF Check, VolumeInv, Typed, Published
  <2>2. CASE DieCommitting(b)
    BY <2>2 DEF DieCommitting, VolumeInv, Typed, Published
  <2>3. CASE Link(b, "archive", "checked", "archived") \/ Link(b, "checksum", "durable", "linked")
    BY <2>3, LinkKept
  <2>4. CASE Sync(b, "archived", "durable") \/ Sync(b, "linked", "done")
    BY <2>4, SyncKept
  <2> QED
    BY <2>1, <2>2, <2>3, <2>4 DEF Publish
<1>2. UNCHANGED <<root, survivors, payload, owner, resetOk, backups, faults, from, served,
                  restored, destroyed>>
  BY DEF Publish, volume, ghosts
<1>3. Content' = Content /\ \A names : ContentAt(names)' = ContentAt(names)
  BY <1>2, ContentStays
<1>4. Typed'
  BY <1>1, <1>2 DEF VolumeInv, Typed
<1>5. Copied' /\ Copying'
  BY <1>2, <1>3 DEF VolumeInv, Copied, Copying
<1>6. Restores' /\ Serves'
  BY <1>2, <1>3 DEF VolumeInv, Restores, Serves
<1>7. Restored' /\ Resets' /\ Written'
  BY <1>2, <1>3 DEF VolumeInv, Restored, Resets, Written
<1> QED
  BY <1>1, <1>4, <1>5, <1>6, <1>7 DEF VolumeInv


USE DEF volume, host, ghosts, Owns, Free, Nobody, Flush, Marks

\* The daemon starts on a volume that is whole or new.
LEMMA StartDaemonKept == ASSUME VolumeInv, StartDaemon PROVE VolumeInv'
<1> USE DEF VolumeInv, StartDaemon, Inspected
<1>1. Typed'
  <2>1. owner' \in OwnerType
    BY NobodyIs DEF Typed, OwnerType
  <2> QED
    BY <2>1 DEF Typed
<1>v. Content' = Content /\ \A names : ContentAt(names)' = ContentAt(names)
  BY ContentStays
<1>2. Published'
  BY <1>1, <1>v DEF Typed, Published
<1>3. Copied'
  BY <1>1, <1>v DEF Typed, Copied
<1>4. Copying'
  BY <1>1, <1>v DEF Typed, Copying
<1>5. Restores'
  BY <1>1, <1>v DEF Typed, Restores
<1>6. Serves'
  <2>1. Layout \notin root /\ root = {} => from = 0 \/ served
    <3>1. ASSUME root = {}, from # 0, ~served PROVE FALSE
      <4>1. Content = backups[from].content /\ from \in DOMAIN backups
        BY <3>1 DEF Typed, Restored, Content
      <4>2. Layout \in DOMAIN Content
        BY <4>1 DEF Copied
      <4> QED
        BY <3>1, <4>2, ContentIs DEF Content, Typed
    <3> QED
      BY <3>1
  <2>2. /\ owner'.role = "daemon"
        /\ owner'.pc = IF Inspected = "ready" THEN "serving" ELSE "selecting"
    BY DEF Nobody
  <2>3. /\ Inspected = "ready" => Layout \in root /\ root \cap Marks = {}
        /\ Inspected # "ready" => root = {}
    OBVIOUS
  <2> HIDE DEF StartDaemon, Inspected
  <2>4. UNCHANGED <<root, from, served>>
    BY DEF StartDaemon
  <2> QED
    BY <2>1, <2>2, <2>3, <2>4 DEF Serves
<1>7. Restored'
  BY <1>1, <1>v DEF Typed, Restored
<1>8. Resets'
  BY <1>1, <1>v DEF Typed, Resets
<1>9. Written'
  BY <1>1, <1>v DEF Typed, Written
<1> QED
  BY <1>1, <1>2, <1>3, <1>4, <1>5, <1>6, <1>7, <1>8, <1>9 DEF VolumeInv

\* The selector is written to its temporary.
LEMMA WriteSelectorKept == ASSUME VolumeInv, WriteSelector PROVE VolumeInv'
<1> USE DEF VolumeInv, WriteSelector
<1>c. /\ root' = (root \ {}) \cup {Temporary} /\ root' \in survivors'
      /\ survivors' \subseteq SUBSET (Reserved \cup {Layout})
      /\ \A s \in survivors' : s \in survivors \/ \E t \in survivors : s = (t \ {}) \cup {Temporary}
      /\ Journaled => \A s \in survivors' : s \in survivors \/ s = root'
  <2>1. {Temporary} \subseteq Reserved \cup {Layout}
    BY Names
  <2> QED
    BY <2>1, Changed
<1>1. Typed'
  <2>1. owner' \in OwnerType
    BY DEF Typed, OwnerType
  <2> QED
    BY <2>1, <1>c DEF Typed
<1>v. \A names : ContentAt(names)' = ContentAt(names)
  BY ContentStays
<1> HIDE DEF Marks
<1>2. Published'
  BY <1>1, <1>c, <1>v, Names DEF Typed, Published
<1>3. Copied'
  BY <1>1, <1>c, <1>v, Names DEF Typed, Copied
<1>4. Copying'
  BY <1>1, <1>c, <1>v, Names DEF Typed, Copying
<1>5. Restores'
  BY <1>1, <1>c, <1>v, Names DEF Typed, Restores
<1>6. Serves'
  BY <1>1, <1>c, <1>v, Names DEF Typed, Serves
<1>7. Restored'
  <2>1. (from = 0 \/ served) /\ Layout \notin root
    BY Names DEF Serves
  <2>2. ~restored
    BY <2>1 DEF Typed, Restored
  <2> QED
    BY <1>1, <2>1, <2>2 DEF Restored
<1>8. Resets'
  BY <1>1, <1>c, <1>v, Names DEF Typed, Resets
<1>9. Written'
  <2>1. Layout \notin root /\ Claiming \notin root'
    BY <1>c, Names DEF Serves
  <2>2. Journaled => ~served
    BY <2>1 DEF Typed, Written
  <2> QED
    BY <1>c, <2>1, <2>2 DEF Written
<1> QED
  BY <1>1, <1>2, <1>3, <1>4, <1>5, <1>6, <1>7, <1>8, <1>9 DEF VolumeInv

\* The selector gets its name.
LEMMA RenameSelectorKept == ASSUME VolumeInv, RenameSelector PROVE VolumeInv'
<1> USE DEF VolumeInv, RenameSelector
<1>c. /\ root' = (root \ {Temporary}) \cup {Layout} /\ root' \in survivors'
      /\ survivors' \subseteq SUBSET (Reserved \cup {Layout})
      /\ \A s \in survivors' : s \in survivors \/ \E t \in survivors :
           s = (t \ {Temporary}) \cup {Layout}
      /\ Journaled => \A s \in survivors' : s \in survivors \/ s = root'
  <2>1. {Layout} \subseteq Reserved \cup {Layout}
    BY Names
  <2> QED
    BY <2>1, Changed
<1>1. Typed'
  <2>1. owner' \in OwnerType
    BY DEF Typed, OwnerType
  <2> QED
    BY <2>1, <1>c DEF Typed
<1>v. \A names : ContentAt(names)' = ContentAt(names)
  BY ContentStays
<1> HIDE DEF Marks
<1>2. Published'
  BY <1>1, <1>c, <1>v, Names DEF Typed, Published
<1>3. Copied'
  BY <1>1, <1>c, <1>v, Names DEF Typed, Copied
<1>4. Copying'
  BY <1>1, <1>c, <1>v, Names DEF Typed, Copying
<1>5. Restores'
  BY <1>1, <1>c, <1>v, Names DEF Typed, Restores
<1>6. Serves'
  BY <1>1, <1>c, <1>v, Names DEF Typed, Serves
<1>7. Restored'
  <2>1. (from = 0 \/ served) /\ Layout \notin root
    BY Names DEF Serves
  <2>2. ~restored
    BY <2>1 DEF Typed, Restored
  <2> QED
    BY <1>1, <2>1, <2>2 DEF Restored
<1>8. Resets'
  BY <1>1, <1>c, <1>v, Names DEF Typed, Resets
<1>9. Written'
  <2>1. Layout \notin root /\ Claiming \notin root'
    BY <1>c, Names DEF Serves
  <2>2. Journaled => ~served
    BY <2>1 DEF Typed, Written
  <2> QED
    BY <1>c, <2>1, <2>2 DEF Written
<1> QED
  BY <1>1, <1>2, <1>3, <1>4, <1>5, <1>6, <1>7, <1>8, <1>9 DEF VolumeInv

\* The selector is durable before the daemon serves.
LEMMA SyncSelectorKept == ASSUME VolumeInv, SyncSelector PROVE VolumeInv'
<1> USE DEF VolumeInv, SyncSelector
<1>1. Typed'
  <2>1. owner' \in OwnerType
    BY DEF Typed, OwnerType
  <2> QED
    BY <2>1 DEF Typed
<1>v. Content' = Content /\ \A names : ContentAt(names)' = ContentAt(names)
  BY ContentStays
<1> HIDE DEF Marks, Restoring
<1>2. Published'
  BY <1>1, <1>v, Names DEF Typed, Published
<1>3. Copied'
  BY <1>1, <1>v, Names DEF Typed, Copied
<1>4. Copying'
  BY <1>1, <1>v, Names DEF Typed, Copying
<1>5. Restores'
  BY <1>1, <1>v, Names DEF Typed, Restores
<1>6. Serves'
  BY <1>1, <1>v, Names DEF Typed, Serves
<1>7. Restored'
  <2>1. root = {Layout} /\ (from = 0 \/ served)
    BY DEF Serves
  <2>2. {Layout} \cap Marks = {} /\ Layout \in {Layout}
    BY Names
  <2> HIDE DEF Marks
  <2> QED
    BY <2>1, <2>2 DEF Restored
<1>8. Resets'
  BY <1>1, <1>v, Names DEF Typed, Resets
<1>9. Written'
  BY <1>1, <1>v, Names DEF Typed, Written
<1> QED
  BY <1>1, <1>2, <1>3, <1>4, <1>5, <1>6, <1>7, <1>8, <1>9 DEF VolumeInv

\* A selector that cannot be written leaves nothing.
LEMMA FailSelectorKept == ASSUME VolumeInv, FailSelector PROVE VolumeInv'
<1> USE DEF VolumeInv, FailSelector
<1>c. /\ root' = (root \ {Temporary}) \cup {} /\ root' \in survivors'
      /\ survivors' \subseteq SUBSET (Reserved \cup {Layout})
      /\ \A s \in survivors' : s \in survivors \/ \E t \in survivors : s = (t \ {Temporary}) \cup {}
      /\ Journaled => \A s \in survivors' : s \in survivors \/ s = root'
  <2>1. {} \subseteq Reserved \cup {Layout}
    BY Names
  <2> QED
    BY <2>1, Changed
<1>1. Typed'
  <2>1. owner' \in OwnerType
    BY NobodyIs DEF Typed, OwnerType
  <2> QED
    BY <2>1, <1>c DEF Typed
<1>v. \A names : ContentAt(names)' = ContentAt(names)
  BY ContentStays
<1> HIDE DEF Marks
<1>2. Published'
  BY <1>1, <1>c, <1>v, Names DEF Typed, Published
<1>3. Copied'
  BY <1>1, <1>c, <1>v, Names DEF Typed, Copied
<1>4. Copying'
  BY <1>1, <1>c, <1>v, Names DEF Typed, Copying
<1>5. Restores'
  BY <1>1, <1>c, <1>v, Names DEF Typed, Restores
<1>6. Serves'
  BY <1>1, <1>c, <1>v, Names DEF Typed, Serves
<1>7. Restored'
  <2>1. (from = 0 \/ served) /\ Layout \notin root
    BY Names DEF Serves
  <2>2. ~restored
    BY <2>1 DEF Typed, Restored
  <2> QED
    BY <1>1, <2>1, <2>2 DEF Restored
<1>8. Resets'
  BY <1>1, <1>c, <1>v, Names DEF Typed, Resets
<1>9. Written'
  <2>1. Layout \notin root /\ Claiming \notin root'
    BY <1>c, Names DEF Serves
  <2>2. Journaled => ~served
    BY <2>1 DEF Typed, Written
  <2> QED
    BY <1>c, <2>1, <2>2 DEF Written
<1> QED
  BY <1>1, <1>2, <1>3, <1>4, <1>5, <1>6, <1>7, <1>8, <1>9 DEF VolumeInv

\* A write is acknowledged when the layout is durable.
LEMMA ServeKept == ASSUME VolumeInv, NEW p \in Files, Serve(p) PROVE VolumeInv'
<1> USE DEF VolumeInv, Serve
<1>1. Typed'
  <2>1. owner' \in OwnerType
    BY DEF Typed
  <2>2. p \in ToSet(Paths) /\ p # Layout
    BY DEF Files
  <2>3. payload' \in Tables /\ Layout \notin DOMAIN payload'
    <3>1. \A q \in DOMAIN payload : payload[q] \in Nat
      BY TableIs DEF Typed
    <3> DEFINE v == IF p \in DOMAIN payload THEN payload[p] + 1 ELSE 1
    <3>2. v \in Nat /\ payload' = With(payload, p, v)
      BY <3>1
    <3> HIDE DEF v
    <3>3. payload \in Tables /\ Layout \notin DOMAIN payload
      BY DEF Typed
    <3>4. /\ With(payload, p, v) \in Tables
          /\ DOMAIN With(payload, p, v) = DOMAIN payload \cup {p}
      BY <2>2, <3>2, <3>3, TableWith
    <3> HIDE DEF Serve
    <3> QED
      BY <2>2, <3>2, <3>3, <3>4
  <2>4. survivors' \subseteq survivors \cup {root} /\ root' \in survivors' /\ root' = root
    BY DEF Typed
  <2> HIDE DEF Serve
  <2>5. /\ UNCHANGED <<owner, resetOk, backups, leaves, leavesSurviving, committer, faults, from,
             restored, destroyed>>
        /\ served' = TRUE
    BY DEF Serve
  <2> QED
    BY <2>1, <2>3, <2>4, <2>5 DEF Typed
<1>2. Published'
  BY <1>1 DEF Typed, Published
<1>3. Copied'
  BY <1>1 DEF Typed, Copied
<1>4. Copying'
  BY <1>1 DEF Typed, Copying
<1>5. Restores'
  BY <1>1 DEF Typed, Restores
<1>6. Serves'
  BY <1>1 DEF Typed, Serves
<1>7. Restored'
  BY <1>1 DEF Typed, Restored
<1>8. Resets'
  BY <1>1 DEF Typed, Resets
<1>9. Written'
  <2>1. Layout \in root /\ root \cap Marks = {} /\ (Journaled => survivors' = {root})
          /\ UNCHANGED destroyed
    BY DEF Serves
  <2> HIDE DEF Serve, Marks
  <2> QED
    BY <2>1, Names DEF Written
<1> QED
  BY <1>1, <1>2, <1>3, <1>4, <1>5, <1>6, <1>7, <1>8, <1>9 DEF VolumeInv

\* A backup begins on a volume with a layout.
LEMMA StartBackupKept == ASSUME VolumeInv, StartBackup PROVE VolumeInv'
<1> USE DEF VolumeInv, StartBackup
<1>1. Typed'
  <2>1. owner' \in OwnerType
    <3>1. 0 \in 0..MaxBackups /\ 1 \in Nat
      BY DataVolumeAssumption
    <3>2. owner' = [role |-> "backup", pc |-> "inventory", at |-> 1, backup |-> 0, hashes |-> <<>>,
            bytes |-> <<>>]
      OBVIOUS
    <3> QED
      BY <3>1, <3>2, TableEmpty DEF OwnerType
  <2> QED
    BY <2>1 DEF Typed
<1>v. Content' = Content /\ \A names : ContentAt(names)' = ContentAt(names)
  BY ContentStays
<1>2. Published'
  BY <1>1, <1>v DEF Typed, Published
<1>3. Copied'
  BY <1>1, <1>v DEF Typed, Copied
<1>4. Copying'
  BY <1>1, <1>v DEF Typed, Copying
<1>5. Restores'
  BY <1>1, <1>v DEF Typed, Restores
<1>6. Serves'
  BY <1>1, <1>v DEF Typed, Serves
<1>7. Restored'
  BY <1>1, <1>v DEF Typed, Restored
<1>8. Resets'
  BY <1>1, <1>v DEF Typed, Resets
<1>9. Written'
  BY <1>1, <1>v DEF Typed, Written
<1> QED
  BY <1>1, <1>2, <1>3, <1>4, <1>5, <1>6, <1>7, <1>8, <1>9 DEF VolumeInv

\* A digest is of what the volume holds now.
LEMMA TakeInventoryKept == ASSUME VolumeInv, TakeInventory PROVE VolumeInv'
<1> USE DEF VolumeInv, TakeInventory
<1>c. /\ owner.hashes \in Tables /\ owner.at \in Nat /\ owner.at \in DOMAIN Paths
      /\ Paths[owner.at] \in ToSet(Paths)
  <2>1. owner.at \in Nat \ {0} /\ owner.hashes \in Tables
    BY DEF Copying, Typed, OwnerType
  <2> QED
    BY <2>1, LayoutIs
<1>d. Content \in Tables /\ DOMAIN Content = DOMAIN payload \cup (root \cap {Layout})
        /\ (Layout \in root => Content[Layout] = 1)
  BY ContentIs DEF Content
<1> DEFINE p == Paths[owner.at]
           h == IF p \in DOMAIN Content THEN With(owner.hashes, p, Content[p]) ELSE owner.hashes
<1>e. owner' = [owner EXCEPT !.at = @ + 1, !.hashes = h]
  OBVIOUS
<1>f. h \in Tables /\ DOMAIN h = DOMAIN owner.hashes \cup ({p} \cap DOMAIN Content)
      /\ \A q \in DOMAIN h : h[q] = IF q = p /\ p \in DOMAIN Content THEN Content[p]
           ELSE owner.hashes[q]
  <2>1. p \in DOMAIN Content => Content[p] \in Nat
    BY <1>d, TableIs
  <2>2. CASE p \in DOMAIN Content
    <3> DEFINE f == owner.hashes
               v == Content[p]
    <3> HIDE DEF f, v, TakeInventory
    <3>1. f \in Tables /\ v \in Nat /\ p \in ToSet(Paths)
      BY <1>c, <2>1, <2>2 DEF f, v
    <3> HIDE DEF p
    <3>2. /\ With(f, p, v) \in Tables /\ DOMAIN With(f, p, v) = DOMAIN f \cup {p}
          /\ With(f, p, v)[p] = v /\ \A q \in DOMAIN f : q # p => With(f, p, v)[q] = f[q]
      BY <3>1, TableWith
    <3>3. h = With(f, p, v)
      BY <2>2 DEF f, v
    <3> QED
      BY <2>2, <3>2, <3>3 DEF f, v
  <2>3. CASE p \notin DOMAIN Content
    BY <1>c, <2>3
  <2> QED
    BY <2>2, <2>3
<1> HIDE DEF h
<1>1. Typed'
  <2>1. owner' \in OwnerType
    <3>1. h \in Tables /\ owner.at + 1 \in Nat /\ owner \in OwnerType
      BY <1>c, <1>f DEF Typed
    <3> HIDE DEF TakeInventory
    <3> QED
      BY <1>e, <3>1 DEF OwnerType
  <2> QED
    BY <2>1 DEF Typed
<1>v. Content' = Content /\ \A names : ContentAt(names)' = ContentAt(names)
  BY ContentStays
<1>2. Published'
  BY <1>1, <1>v DEF Typed, Published
<1>3. Copied'
  BY <1>1, <1>v DEF Typed, Copied
<1>4. Copying'
  <2>1. /\ owner'.role = "backup" /\ owner'.pc = "inventory" /\ owner'.at = owner.at + 1
             /\ owner'.hashes = h
    BY <1>e DEF Typed, OwnerType
  <2>2. /\ Layout \in root /\ owner.at \in Nat \ {0}
        /\ \A q \in DOMAIN owner.hashes : q \in DOMAIN Content /\ owner.hashes[q] <= Content[q]
        /\ Layout \in DOMAIN owner.hashes => owner.hashes[Layout] = 1
        /\ \A i \in DOMAIN Paths : i < owner.at /\ Paths[i] = Layout
             => Layout \in DOMAIN owner.hashes
    BY DEF Copying
  <2>3. \A q \in DOMAIN h : q \in DOMAIN Content /\ h[q] <= Content[q]
    BY <1>d, <1>f, <2>2, TableIs
  <2>4. Layout \in DOMAIN h => h[Layout] = 1
    BY <1>d, <1>f, <2>2
  <2>5. \A i \in DOMAIN Paths : i < owner.at + 1 /\ Paths[i] = Layout => Layout \in DOMAIN h
    <3> SUFFICES ASSUME NEW i \in DOMAIN Paths, i < owner.at + 1, Paths[i] = Layout
                   PROVE Layout \in DOMAIN h
      OBVIOUS
    <3>1. i < owner.at \/ i = owner.at
      BY <2>2, LayoutIs
    <3> QED
      BY <1>d, <1>f, <2>2, <3>1
  <2>6. owner.at + 1 \in Nat \ {0} /\ Layout \in root'
    BY <2>2
  <2>7. Len(backups) < MaxBackups /\ UNCHANGED backups
    BY DEF Copying
  <2> HIDE DEF TakeInventory
  <2> QED
    BY <2>7, <1>v, <2>1, <2>3, <2>4, <2>5, <2>6 DEF Copying
<1>5. Restores'
  BY <1>1, <1>v DEF Typed, Restores
<1>6. Serves'
  BY <1>1, <1>v DEF Typed, Serves
<1>7. Restored'
  BY <1>1, <1>v DEF Typed, Restored
<1>8. Resets'
  BY <1>1, <1>v DEF Typed, Resets
<1>9. Written'
  BY <1>1, <1>v DEF Typed, Written
<1> QED
  BY <1>1, <1>2, <1>3, <1>4, <1>5, <1>6, <1>7, <1>8, <1>9 DEF VolumeInv

\* What the volume holds now lies after every digest.
LEMMA EndInventoryKept == ASSUME VolumeInv, EndInventory PROVE VolumeInv'
<1> USE DEF VolumeInv, EndInventory
<1>1. Typed'
  <2>1. Content \in Tables
    BY ContentIs DEF Content
  <2>2. owner' \in OwnerType
    BY <2>1 DEF Typed, OwnerType
  <2> QED
    BY <2>2 DEF Typed
<1>v. Content' = Content /\ \A names : ContentAt(names)' = ContentAt(names)
  BY ContentStays
<1>2. Published'
  BY <1>1, <1>v DEF Typed, Published
<1>3. Copied'
  BY <1>1, <1>v DEF Typed, Copied
<1>4. Copying'
  <2>1. /\ owner'.role = "backup" /\ owner'.pc = "writing" /\ owner'.at = 1
        /\ owner'.hashes = owner.hashes /\ owner'.bytes = Content
    BY DEF Typed, OwnerType
  <2>2. /\ Layout \in root /\ owner.at \in Nat \ {0}
        /\ \A q \in DOMAIN owner.hashes : q \in DOMAIN Content /\ owner.hashes[q] <= Content[q]
        /\ Layout \in DOMAIN owner.hashes => owner.hashes[Layout] = 1
        /\ \A i \in DOMAIN Paths : i < owner.at /\ Paths[i] = Layout
             => Layout \in DOMAIN owner.hashes
    BY DEF Copying
  <2>3. Layout \in DOMAIN owner.hashes
    BY <2>2, LayoutIs
  <2>4. \A q \in DOMAIN owner.hashes : Content[q] <= Content[q]
    <3>1. \A q \in DOMAIN Content : Content[q] \in Nat
      BY ContentIs, TableIs DEF Content
    <3>2. \A q \in DOMAIN Content : Content[q] <= Content[q]
      BY <3>1
    <3> QED
      BY <2>2, <3>2
  <2>5. \A i \in DOMAIN Paths : ~(i < 1)
    BY LayoutIs
  <2>6. Layout \in root'
    BY <2>2
  <2>7. Len(backups) < MaxBackups /\ UNCHANGED backups
    BY DEF Copying
  <2> HIDE DEF EndInventory
  <2> QED
    BY <2>7, <1>v, <2>1, <2>2, <2>3, <2>4, <2>5, <2>6 DEF Copying
<1>5. Restores'
  BY <1>1, <1>v DEF Typed, Restores
<1>6. Serves'
  BY <1>1, <1>v DEF Typed, Serves
<1>7. Restored'
  BY <1>1, <1>v DEF Typed, Restored
<1>8. Resets'
  BY <1>1, <1>v DEF Typed, Resets
<1>9. Written'
  BY <1>1, <1>v DEF Typed, Written
<1> QED
  BY <1>1, <1>2, <1>3, <1>4, <1>5, <1>6, <1>7, <1>8, <1>9 DEF VolumeInv

\* An entry read twice alike was so in between.
LEMMA WriteEntryKept == ASSUME VolumeInv, WriteEntry PROVE VolumeInv'
<1> USE DEF VolumeInv, WriteEntry, Rereads
<1>c. /\ owner.hashes \in Tables /\ owner.bytes \in Tables /\ owner.at \in Nat \ {0}
           /\ owner.at \in DOMAIN Paths
      /\ Paths[owner.at] \in ToSet(Paths)
  <2>1. owner.at \in Nat \ {0} /\ owner.hashes \in Tables /\ owner.bytes \in Tables
    BY DEF Copying, Typed, OwnerType
  <2> QED
    BY <2>1, LayoutIs
<1>d. Content \in Tables
  BY ContentIs DEF Content
<1> DEFINE p == Paths[owner.at]
<1>e. \/ owner' = Nobody
      \/ owner' = [owner EXCEPT !.at = @ + 1]
           /\ (p \in DOMAIN owner.hashes => owner.hashes[p] = Content[p])
  <2>1. CASE p \notin DOMAIN owner.hashes
    BY <2>1
  <2>2. CASE p \in DOMAIN owner.hashes /\ owner.hashes[p] # Content[p]
    BY <2>2
  <2>3. CASE p \in DOMAIN owner.hashes /\ owner.hashes[p] = Content[p]
    <3>1. owner' = [owner EXCEPT !.at = @ + 1, !.hashes[p] = Content[p]]
      BY <2>3
    <3>2. [owner.hashes EXCEPT ![p] = Content[p]] = owner.hashes
      BY <1>c, <2>3, TableIs
    <3>3. owner' = [owner EXCEPT !.at = @ + 1]
      BY <3>1, <3>2 DEF Typed, OwnerType
    <3> QED
      BY <2>3, <3>3
  <2> QED
    BY <2>1, <2>2, <2>3
<1>1. Typed'
  <2>1. owner' \in OwnerType
    <3>1. owner.at + 1 \in Nat /\ owner \in OwnerType
      BY <1>c DEF Typed
    <3>2. [owner EXCEPT !.at = @ + 1] \in OwnerType
      BY <3>1 DEF OwnerType
    <3> HIDE DEF WriteEntry, Nobody
    <3> QED
      BY <1>e, <3>2, NobodyIs
  <2> QED
    BY <2>1 DEF Typed
<1>v. Content' = Content /\ \A names : ContentAt(names)' = ContentAt(names)
  BY ContentStays
<1>2. Published'
  BY <1>1, <1>v DEF Typed, Published
<1>3. Copied'
  BY <1>1, <1>v DEF Typed, Copied
<1>4. Copying'
  <2>1. CASE owner' = Nobody
    <3> HIDE DEF WriteEntry, Nobody
    <3> QED
      BY <2>1, NobodyIs DEF Copying
  <2>2. CASE owner' = [owner EXCEPT !.at = @ + 1]
               /\ (p \in DOMAIN owner.hashes => owner.hashes[p] = Content[p])
    <3>1. /\ owner'.role = "backup" /\ owner'.pc = "writing" /\ owner'.at = owner.at + 1
          /\ owner'.hashes = owner.hashes /\ owner'.bytes = owner.bytes
      BY <2>2 DEF Typed, OwnerType
    <3>2. p \in DOMAIN owner.hashes => owner.hashes[p] = owner.bytes[p]
      <4> SUFFICES ASSUME p \in DOMAIN owner.hashes PROVE owner.hashes[p] = owner.bytes[p]
        OBVIOUS
      <4>1. owner.hashes[p] <= owner.bytes[p] /\ owner.bytes[p] <= Content[p]
              /\ p \in DOMAIN owner.bytes /\ p \in DOMAIN Content
        BY DEF Copying
      <4>2. owner.hashes[p] \in Nat /\ owner.bytes[p] \in Nat /\ Content[p] \in Nat
        BY <1>c, <1>d, <4>1, TableIs
      <4> QED
        BY <2>2, <4>1, <4>2
    <3>3. \A i \in DOMAIN Paths : i < owner.at + 1 => i < owner.at \/ i = owner.at
      BY <1>c, LayoutIs
    <3>4. \A i \in DOMAIN Paths :
            i < owner.at + 1 /\ Paths[i] \in DOMAIN owner.hashes
              => owner.hashes[Paths[i]] = owner.bytes[Paths[i]]
      BY <3>2, <3>3 DEF Copying
    <3>5. owner.at + 1 \in Nat \ {0} /\ root' = root
      BY <1>c
    <3>6. owner.role = "backup" /\ owner.pc = "writing"
      OBVIOUS
    <3>7. Len(backups) < MaxBackups /\ UNCHANGED backups
      BY DEF Copying
    <3> HIDE DEF WriteEntry
    <3> QED
      BY <3>7, <1>v, <3>1, <3>4, <3>5, <3>6 DEF Copying
  <2> QED
    BY <1>e, <2>1, <2>2
<1>5. Restores'
  BY <1>1, <1>v DEF Typed, Restores
<1>6. Serves'
  BY <1>1, <1>v DEF Typed, Serves
<1>7. Restored'
  BY <1>1, <1>v DEF Typed, Restored
<1>8. Resets'
  BY <1>1, <1>v DEF Typed, Resets
<1>9. Written'
  BY <1>1, <1>v DEF Typed, Written
<1> QED
  BY <1>1, <1>2, <1>3, <1>4, <1>5, <1>6, <1>7, <1>8, <1>9 DEF VolumeInv

\* An archive that is whole is of one moment.
LEMMA EndBackupKept == ASSUME VolumeInv, EndBackup PROVE VolumeInv'
<1> USE DEF VolumeInv, EndBackup
<1>c. /\ owner.hashes \in Tables /\ owner.bytes \in Tables /\ Len(backups) < MaxBackups
      /\ Len(backups) \in Nat /\ backups \in Seq(Archives)
      /\ Layout \in DOMAIN owner.hashes /\ owner.hashes[Layout] = 1
      /\ \A q \in DOMAIN owner.hashes : q \in DOMAIN owner.bytes /\ owner.hashes[q] = owner.bytes[q]
  <2>1. /\ owner.hashes \in Tables /\ owner.bytes \in Tables /\ Len(backups) \in Nat
        /\ backups \in Seq(Archives) /\ owner.at \in Nat
    BY DEF Typed, OwnerType
  <2>2. /\ Len(backups) < MaxBackups /\ Layout \in DOMAIN owner.hashes /\ owner.hashes[Layout] = 1
        /\ \A q \in DOMAIN owner.hashes : q \in DOMAIN owner.bytes
        /\ \A i \in DOMAIN Paths : i < owner.at /\ Paths[i] \in DOMAIN owner.hashes =>
              owner.hashes[Paths[i]] = owner.bytes[Paths[i]]
    BY DEF Copying
  <2>3. \A i \in DOMAIN Paths : i < owner.at
    BY <2>1, LayoutIs
  <2>4. \A q \in DOMAIN owner.hashes : \E i \in DOMAIN Paths : Paths[i] = q
    BY <2>1, TableIs, LayoutIs
  <2> QED
    BY <2>1, <2>2, <2>3, <2>4
<1> DEFINE whole == [content |-> owner.hashes, snapshot |-> owner.bytes,
             marked |-> root \cap Marks # {}]
<1>d. whole \in Archives /\ backups' = Append(backups, whole)
  BY <1>c DEF Archives
<1>e. /\ DOMAIN backups' = 1..Len(backups) + 1 /\ DOMAIN backups = 1..Len(backups)
      /\ backups'[Len(backups) + 1] = whole /\ \A b \in DOMAIN backups : backups'[b] = backups[b]
      /\ backups' \in Seq(Archives) /\ Len(backups') = Len(backups) + 1
  <2> HIDE DEF whole
  <2> QED
    BY <1>c, <1>d
<1> HIDE DEF whole
<1>1. Typed'
  <2>1. owner' \in OwnerType
    BY NobodyIs
  <2>2. Len(backups') <= MaxBackups
    BY <1>c, <1>e, DataVolumeAssumption
  <2>3. committer' \in [1..MaxBackups -> {"none", "copied", "checked", "archived", "durable",
                                      "linked", "done", "failed"}]
    BY DEF Typed
  <2> HIDE DEF EndBackup
  <2>4. UNCHANGED <<volume, resetOk, leaves, leavesSurviving, faults, ghosts>>
    BY DEF EndBackup
  <2> QED
    BY <1>e, <2>1, <2>2, <2>3, <2>4 DEF Typed
<1>v. Content' = Content /\ \A names : ContentAt(names)' = ContentAt(names)
  BY ContentStays
<1>2. Published'
  BY <1>1, <1>v DEF Typed, Published
<1>3. Copied'
  <2>1. whole.content = owner.hashes /\ whole.snapshot = owner.bytes
    BY DEF whole
  <2> HIDE DEF EndBackup
  <2>2. ASSUME NEW b \in DOMAIN backups'
        PROVE  (b \in DOMAIN backups /\ backups'[b] = backups[b]) \/ backups'[b] = whole
    BY <1>c, <1>e
  <2> SUFFICES ASSUME NEW b \in DOMAIN backups'
               PROVE  /\ Layout \in DOMAIN backups'[b].content /\ backups'[b].content[Layout] = 1
                      /\ \A p \in DOMAIN backups'[b].content :
                           p \in DOMAIN backups'[b].snapshot
                             /\ backups'[b].snapshot[p] = backups'[b].content[p]
    BY DEF Copied
  <2>3. CASE b \in DOMAIN backups /\ backups'[b] = backups[b]
    BY <2>3 DEF Copied
  <2>4. CASE backups'[b] = whole
    BY <1>c, <2>1, <2>4
  <2> QED
    BY <2>2, <2>3, <2>4
<1>4. Copying'
  BY <1>1, <1>v DEF Typed, Copying
<1>5. Restores'
  BY <1>1, <1>v DEF Typed, Restores
<1>6. Serves'
  BY <1>1, <1>v DEF Typed, Serves
<1>7. Restored'
  BY <1>1, <1>v DEF Typed, Restored
<1>8. Resets'
  BY <1>1, <1>v DEF Typed, Resets
<1>9. Written'
  BY <1>1, <1>v DEF Typed, Written
<1> QED
  BY <1>1, <1>2, <1>3, <1>4, <1>5, <1>6, <1>7, <1>8, <1>9 DEF VolumeInv

\* A restore begins on an empty volume.
LEMMA StartRestoreKept ==
  ASSUME VolumeInv, NEW b \in 1..MaxBackups, StartRestore(b)
  PROVE  VolumeInv'
<1> USE DEF VolumeInv, StartRestore, TargetEmpty
<1>c. /\ b \in DOMAIN backups /\ root = {} /\ DOMAIN payload = {} /\ backups[b].content \in Tables
  BY ArchiveIs, TableEmpty
<1>d. Layout \notin DOMAIN Content
  <2>1. DOMAIN Content = DOMAIN payload \cup (root \cap {Layout})
    BY ContentIs DEF Content
  <2> QED
    BY <1>c, <2>1
<1>e. owner' = [role |-> "restore", pc |-> "verified", at |-> 0, backup |-> b, hashes |-> <<>>,
                bytes |-> backups[b].content]
  OBVIOUS
<1>1. Typed'
  <2>1. owner' \in OwnerType
    <3> HIDE DEF StartRestore
    <3> QED
      BY <1>c, <1>e, TableEmpty, ArchiveIs DEF OwnerType
  <2> QED
    BY <2>1 DEF Typed
<1>v. Content' = Content /\ \A names : ContentAt(names)' = ContentAt(names)
  BY ContentStays
<1>2. Published'
  BY <1>1, <1>v DEF Typed, Published
<1>3. Copied'
  BY <1>1, <1>v DEF Typed, Copied
<1>4. Copying'
  BY <1>1, <1>v DEF Typed, Copying
<1>5. Restores'
  <2>1. ~restored
    BY <1>c DEF Typed, Restored
  <2>2. Journaled => ~served
    BY <1>c DEF Typed, Written
  <2>3. DOMAIN <<>> = {}
    BY TableEmpty
  <2>4. UNCHANGED <<root, payload, backups, restored, served>>
    OBVIOUS
  <2> HIDE DEF StartRestore
  <2> QED
    BY <1>c, <1>e, <2>1, <2>2, <2>3, <2>4 DEF Restores
<1>6. Serves'
  BY <1>1, <1>v DEF Typed, Serves
<1>7. Restored'
  BY <1>1, <1>v DEF Typed, Restored
<1>8. Resets'
  BY <1>1, <1>v DEF Typed, Resets
<1>9. Written'
  BY <1>1, <1>v DEF Typed, Written
<1> QED
  BY <1>1, <1>2, <1>3, <1>4, <1>5, <1>6, <1>7, <1>8, <1>9 DEF VolumeInv

\* The mark is prepared.
LEMMA MarkPreparingKept == ASSUME VolumeInv, MarkPreparing PROVE VolumeInv'
<1> USE DEF VolumeInv, MarkPreparing
<1>c. /\ root' = (root \ {}) \cup {Preparing} /\ root' \in survivors'
      /\ survivors' \subseteq SUBSET (Reserved \cup {Layout})
      /\ \A s \in survivors' : s \in survivors \/ \E t \in survivors : s = (t \ {}) \cup {Preparing}
      /\ Journaled => \A s \in survivors' : s \in survivors \/ s = root'
  <2>1. {Preparing} \subseteq Reserved \cup {Layout}
    BY Names
  <2> QED
    BY <2>1, Changed
<1>1. Typed'
  <2>1. owner' \in OwnerType
    BY DEF Typed, OwnerType
  <2> QED
    BY <2>1, <1>c DEF Typed
<1>v. \A names : ContentAt(names)' = ContentAt(names)
  BY ContentStays
<1> HIDE DEF Marks
<1>2. Published'
  BY <1>1, <1>c, <1>v, Names DEF Typed, Published
<1>3. Copied'
  BY <1>1, <1>c, <1>v, Names DEF Typed, Copied
<1>4. Copying'
  BY <1>1, <1>c, <1>v, Names DEF Typed, Copying
<1>5. Restores'
  <2>1. /\ owner.backup \in DOMAIN backups /\ ~restored /\ (Journaled => ~served)
        /\ DOMAIN payload = {} /\ DOMAIN owner.hashes = {} /\ root = {}
    BY DEF Restores
  <2>2. root' = {Preparing}
    BY <1>c, <2>1
  <2>3. /\ owner'.pc = "preparing" /\ owner'.backup = owner.backup /\ owner'.hashes = owner.hashes
    BY DEF Typed, OwnerType
  <2>4. UNCHANGED <<payload, backups, restored, served>>
    OBVIOUS
  <2> HIDE DEF MarkPreparing
  <2> QED
    BY <2>1, <2>2, <2>3, <2>4 DEF Restores
<1>6. Serves'
  BY <1>1, <1>c, <1>v, Names DEF Typed, Serves
<1>7. Restored'
  <2>1. ~restored
    BY DEF Restores
  <2>2. \A s \in survivors' : s \cap Marks = {} => s \in survivors
    BY <1>c, Names
  <2> QED
    BY <1>1, <1>v, <2>1, <2>2 DEF Restored
<1>8. Resets'
  BY <1>1, <1>c, <1>v, Names DEF Typed, Resets
<1>9. Written'
  <2>1. Journaled => ~served
    BY DEF Restores
  <2>2. Claiming \in root' => MayReset(root')
    BY <1>c, Names DEF Restores, MayReset, Interrupted
  <2> HIDE DEF MarkPreparing
  <2>3. UNCHANGED <<served, destroyed>>
    BY DEF MarkPreparing
  <2> QED
    BY <1>c, <2>1, <2>2, <2>3 DEF Written
<1> QED
  BY <1>1, <1>2, <1>3, <1>4, <1>5, <1>6, <1>7, <1>8, <1>9 DEF VolumeInv

\* The mark gets its name.
LEMMA MarkRestoringKept == ASSUME VolumeInv, MarkRestoring PROVE VolumeInv'
<1> USE DEF VolumeInv, MarkRestoring
<1>c. /\ root' = (root \ {Preparing}) \cup {Restoring} /\ root' \in survivors'
      /\ survivors' \subseteq SUBSET (Reserved \cup {Layout})
      /\ \A s \in survivors' : s \in survivors \/ \E t \in survivors :
           s = (t \ {Preparing}) \cup {Restoring}
      /\ Journaled => \A s \in survivors' : s \in survivors \/ s = root'
  <2>1. {Restoring} \subseteq Reserved \cup {Layout}
    BY Names
  <2> QED
    BY <2>1, Changed
<1>1. Typed'
  <2>1. owner' \in OwnerType
    BY DEF Typed, OwnerType
  <2> QED
    BY <2>1, <1>c DEF Typed
<1>v. \A names : ContentAt(names)' = ContentAt(names)
  BY ContentStays
<1> HIDE DEF Marks
<1>2. Published'
  BY <1>1, <1>c, <1>v, Names DEF Typed, Published
<1>3. Copied'
  BY <1>1, <1>c, <1>v, Names DEF Typed, Copied
<1>4. Copying'
  BY <1>1, <1>c, <1>v, Names DEF Typed, Copying
<1>5. Restores'
  <2>1. /\ owner.backup \in DOMAIN backups /\ ~restored /\ (Journaled => ~served)
        /\ DOMAIN payload = {} /\ DOMAIN owner.hashes = {} /\ root = {Preparing}
    BY DEF Restores
  <2>2. root' = {Restoring}
    BY <1>c, <2>1
  <2>3. /\ owner'.pc = "marked" /\ owner'.backup = owner.backup /\ owner'.hashes = owner.hashes
    BY DEF Typed, OwnerType
  <2>4. UNCHANGED <<payload, backups, restored, served>>
    OBVIOUS
  <2> HIDE DEF MarkRestoring
  <2> QED
    BY <2>1, <2>2, <2>3, <2>4 DEF Restores
<1>6. Serves'
  BY <1>1, <1>c, <1>v, Names DEF Typed, Serves
<1>7. Restored'
  <2>1. ~restored
    BY DEF Restores
  <2>2. \A s \in survivors' : s \cap Marks = {} => s \in survivors
    BY <1>c, Names
  <2> QED
    BY <1>1, <1>v, <2>1, <2>2 DEF Restored
<1>8. Resets'
  BY <1>1, <1>c, <1>v, Names DEF Typed, Resets
<1>9. Written'
  <2>1. Journaled => ~served
    BY DEF Restores
  <2>2. Claiming \in root' => MayReset(root')
    BY <1>c, Names DEF Restores, MayReset, Interrupted
  <2> HIDE DEF MarkRestoring
  <2>3. UNCHANGED <<served, destroyed>>
    BY DEF MarkRestoring
  <2> QED
    BY <1>c, <2>1, <2>2, <2>3 DEF Written
<1> QED
  BY <1>1, <1>2, <1>3, <1>4, <1>5, <1>6, <1>7, <1>8, <1>9 DEF VolumeInv

\* The mark is durable before anything is extracted.
LEMMA SyncMarkKept == ASSUME VolumeInv, SyncMark PROVE VolumeInv'
<1> USE DEF VolumeInv, SyncMark
<1>c. /\ owner.backup \in DOMAIN backups /\ ~restored /\ (Journaled => ~served)
      /\ DOMAIN payload = {} /\ DOMAIN owner.hashes = {} /\ root = {Restoring}
  BY DEF Restores
<1>d. /\ owner'.role = "restore" /\ owner'.pc = "extracting" /\ owner'.backup = owner.backup
      /\ owner'.hashes = owner.hashes /\ owner'.at = 1 /\ owner' \in OwnerType
  BY DEF Typed, OwnerType
<1>e. /\ root' = {Restoring} /\ survivors' = {{Restoring}} /\ from' = owner.backup
      /\ UNCHANGED <<payload, backups, restored, served>>
  BY <1>c
<1>1. Typed'
  <2>1. from' \in 0..MaxBackups
    BY <1>c, <1>e, ArchiveIs
  <2> QED
    BY <1>d, <2>1 DEF Typed
<1>v. Content' = Content /\ \A names : ContentAt(names)' = ContentAt(names)
  BY ContentStays
<1> HIDE DEF Marks, Restoring
<1>2. Published'
  BY <1>1, <1>v, Names DEF Typed, Published
<1>3. Copied'
  BY <1>1, <1>v, Names DEF Typed, Copied
<1>4. Copying'
  BY <1>1, <1>v, Names DEF Typed, Copying
<1>5. Restores'
  <2>1. DOMAIN Content = {} /\ root' \ {Layout} = {Restoring}
    <3>1. Layout \notin root /\ Layout # Restoring
      BY <1>c, Names
    <3>2. DOMAIN Content = DOMAIN payload \cup (root \cap {Layout})
      BY ContentIs DEF Content
    <3> QED
      BY <1>c, <1>e, <3>1, <3>2
  <2> HIDE DEF SyncMark
  <2> QED
    BY <1>c, <1>d, <1>e, <1>v, <2>1 DEF Restores
<1>6. Serves'
  BY <1>1, <1>v, Names DEF Typed, Serves
<1>7. Restored'
  <2>1. {Restoring} \cap Marks # {}
    BY Names
  <2> HIDE DEF SyncMark
  <2> QED
    BY <1>c, <1>e, <2>1 DEF Restored
<1>8. Resets'
  BY <1>1, <1>v, Names DEF Typed, Resets
<1>9. Written'
  BY <1>1, <1>v, Names DEF Typed, Written
<1> QED
  BY <1>1, <1>2, <1>3, <1>4, <1>5, <1>6, <1>7, <1>8, <1>9 DEF VolumeInv

\* An entry is extracted under the mark.
LEMMA ExtractKept == ASSUME VolumeInv, Extract PROVE VolumeInv'
<1> USE DEF VolumeInv, Extract
<1>c. /\ owner.backup \in DOMAIN backups /\ ~restored /\ (Journaled => ~served)
      /\ root \ {Layout} = {Restoring} /\ from = owner.backup
      /\ \A names \in survivors : Restoring \in names
      /\ DOMAIN owner.hashes = DOMAIN Content
      /\ \A q \in DOMAIN payload : owner.hashes[q] = payload[q]
  BY DEF Restores
<1>d. /\ owner \in OwnerType /\ owner.hashes \in Tables /\ owner.bytes \in Tables
           /\ owner.at \in Nat
      /\ payload \in Tables /\ Layout \notin DOMAIN payload
  BY DEF Typed, OwnerType
<1> DEFINE p == Paths[owner.at]
           h == With(owner.hashes, p, owner.bytes[p])
<1>e. p \in DOMAIN owner.bytes => p \in ToSet(Paths) /\ owner.bytes[p] \in Nat
  BY <1>d, TableIs
<1>f. p \in DOMAIN owner.bytes =>
        /\ h \in Tables /\ DOMAIN h = DOMAIN owner.hashes \cup {p} /\ h[p] = owner.bytes[p]
        /\ \A q \in DOMAIN owner.hashes : q # p => h[q] = owner.hashes[q]
  <2> DEFINE f == owner.hashes
             v == owner.bytes[p]
  <2> HIDE DEF f, v, p, Extract
  <2>1. p \in DOMAIN owner.bytes => f \in Tables /\ v \in Nat /\ p \in ToSet(Paths)
    BY <1>d, <1>e DEF f, v
  <2>2. p \in DOMAIN owner.bytes =>
          /\ With(f, p, v) \in Tables /\ DOMAIN With(f, p, v) = DOMAIN f \cup {p}
          /\ With(f, p, v)[p] = v /\ \A q \in DOMAIN f : q # p => With(f, p, v)[q] = f[q]
    BY <2>1, TableWith
  <2> QED
    BY <2>2 DEF f, v
<1>g. p \in DOMAIN owner.bytes => \A v \in Nat :
        /\ With(payload, p, v) \in Tables /\ DOMAIN With(payload, p, v) = DOMAIN payload \cup {p}
        /\ With(payload, p, v)[p] = v /\ \A q \in DOMAIN payload : q # p
             => With(payload, p, v)[q] = payload[q]
  BY <1>d, <1>e, TableWith
<1>h. \/ owner' = [owner EXCEPT !.at = @ + 1] /\ UNCHANGED volume
      \/ /\ p \in DOMAIN owner.bytes /\ p = Layout
         /\ owner' = [[owner EXCEPT !.at = @ + 1] EXCEPT !.hashes = h]
         /\ root' = root \cup {Layout} /\ survivors' = {root'} /\ UNCHANGED payload
      \/ /\ p \in DOMAIN owner.bytes /\ p # Layout
         /\ owner' = [[owner EXCEPT !.at = @ + 1] EXCEPT !.hashes = h]
         /\ payload' = With(payload, p, owner.bytes[p]) /\ UNCHANGED <<root, survivors>>
      \/ /\ p \in DOMAIN owner.bytes /\ p # Layout /\ owner' = Nobody
         /\ payload' = With(payload, p, 0) /\ UNCHANGED <<root, survivors>>
  <2>1. CASE p \notin DOMAIN owner.bytes
    BY <2>1
  <2>2. CASE p \in DOMAIN owner.bytes /\ p = Layout
    BY <2>2, <1>d
  <2>3. CASE p \in DOMAIN owner.bytes /\ p # Layout
    BY <2>3, <1>d
  <2> QED
    BY <2>1, <2>2, <2>3
<1>i. UNCHANGED <<resetOk, backups, leaves, leavesSurviving, committer, faults, from, served,
        restored, destroyed>>
  OBVIOUS
<1>j. owner.role = "restore" /\ owner.pc = "extracting"
  OBVIOUS
<1> HIDE DEF h, p, Extract, Nobody, Marks
<1>k. /\ owner' \in OwnerType /\ owner'.role \in {"nobody", "restore"}
      /\ owner'.role = "restore" => owner'.pc = "extracting" /\ owner'.backup = owner.backup
  <2>1. owner.at + 1 \in Nat /\ [owner EXCEPT !.at = @ + 1] \in OwnerType
    BY <1>d DEF OwnerType
  <2>2. p \in DOMAIN owner.bytes => [[owner EXCEPT !.at = @ + 1] EXCEPT !.hashes = h] \in OwnerType
    BY <1>f, <2>1 DEF OwnerType
  <2>3. owner' \in OwnerType
    BY <1>h, <2>1, <2>2, NobodyIs
  <2>4. \/ owner' = Nobody
        \/ owner'.role = owner.role /\ owner'.pc = owner.pc /\ owner'.backup = owner.backup
    BY <1>d, <1>h DEF OwnerType
  <2> QED
    BY <1>j, <2>3, <2>4, NobodyIs
<1>l. /\ root' \in survivors' /\ root' \ {Layout} = root \ {Layout} /\ Restoring \in root
      /\ \A s \in survivors' : s \in survivors \/ (s = root' /\ root' = root \cup {Layout})
  <2>1. Restoring \in root /\ root \in survivors
    BY <1>c DEF Typed
  <2>2. CASE UNCHANGED <<root, survivors>>
    <3>1. root' = root /\ survivors' = survivors
      BY <2>2
    <3> QED
      BY <2>1, <3>1
  <2>3. CASE root' = root \cup {Layout} /\ survivors' = {root'}
    BY <2>1, <2>3
  <2> QED
    BY <1>h, <2>2, <2>3
<1>m. ~resetOk
  BY <1>j DEF Resets
<1>1. Typed'
  <2>1. payload' \in Tables /\ Layout \notin DOMAIN payload'
    BY <1>d, <1>e, <1>g, <1>h
  <2>2. survivors' \subseteq SUBSET (Reserved \cup {Layout})
    BY <1>l, <1>h DEF Typed
  <2> QED
    BY <1>i, <1>k, <1>l, <2>1, <2>2 DEF Typed
<1>2. Published'
  BY <1>i DEF Published
<1>3. Copied'
  BY <1>i DEF Copied
<1>4. Copying'
  BY <1>k DEF Copying
<1>5. Restores'
  <2> SUFFICES ASSUME owner' # Nobody PROVE Restores'
    BY NobodyIs DEF Restores
  <2>1. owner'.role = "restore" /\ owner'.pc = "extracting" /\ owner'.backup = owner.backup
    BY <1>h, <1>j, <1>k, <1>d DEF OwnerType
  <2>2. root' \ {Layout} = {Restoring} /\ \A s \in survivors' : Restoring \in s
    BY <1>c, <1>l
  <2>3. DOMAIN Content = DOMAIN payload \cup (root \cap {Layout})
    BY ContentIs DEF Content
  <2>4. DOMAIN Content' = DOMAIN payload' \cup (root' \cap {Layout})
    BY <1>1, ContentIs DEF Content, ContentAt
  <2>5. CASE owner' = [owner EXCEPT !.at = @ + 1] /\ UNCHANGED volume
    <3>1. owner'.hashes = owner.hashes
      BY <1>d, <2>5 DEF OwnerType
    <3> QED
      BY <1>c, <1>i, <2>1, <2>2, <2>3, <2>4, <2>5, <3>1 DEF Restores
  <2>6. CASE /\ p \in DOMAIN owner.bytes /\ p = Layout
             /\ owner' = [[owner EXCEPT !.at = @ + 1] EXCEPT !.hashes = h]
             /\ root' = root \cup {Layout} /\ survivors' = {root'} /\ UNCHANGED payload
    <3>1. owner'.hashes = h
      BY <1>d, <2>6 DEF OwnerType
    <3>2. DOMAIN owner'.hashes = DOMAIN Content'
      BY <1>c, <1>f, <2>3, <2>4, <2>6, <3>1
    <3>3. \A q \in DOMAIN payload' : owner'.hashes[q] = payload'[q]
      BY <1>c, <1>d, <1>f, <2>3, <2>6, <3>1
    <3> QED
      BY <1>c, <1>i, <2>1, <2>2, <3>2, <3>3 DEF Restores
  <2>7. CASE /\ p \in DOMAIN owner.bytes /\ p # Layout
             /\ owner' = [[owner EXCEPT !.at = @ + 1] EXCEPT !.hashes = h]
             /\ payload' = With(payload, p, owner.bytes[p]) /\ UNCHANGED <<root, survivors>>
    <3>1. owner'.hashes = h
      BY <1>d, <2>7 DEF OwnerType
    <3>0. /\ DOMAIN payload' = DOMAIN payload \cup {p} /\ payload'[p] = owner.bytes[p]
          /\ \A q \in DOMAIN payload : q # p => payload'[q] = payload[q]
      BY <1>e, <1>g, <2>7
    <3>2. DOMAIN owner'.hashes = DOMAIN Content'
      BY <1>c, <1>f, <2>3, <2>4, <2>7, <3>0, <3>1
    <3>3. \A q \in DOMAIN payload' : owner'.hashes[q] = payload'[q]
      BY <1>c, <1>f, <2>3, <2>7, <3>0, <3>1
    <3> QED
      BY <1>c, <1>i, <2>1, <2>2, <3>2, <3>3 DEF Restores
  <2> QED
    BY <1>h, <2>5, <2>6, <2>7
<1>6. Serves'
  BY <1>k DEF Serves
<1>7. Restored'
  <2>1. \A s \in survivors' : Restoring \in s
    BY <1>c, <1>l
  <2> QED
    BY <1>c, <1>i, <2>1, Names DEF Restored
<1>8. Resets'
  BY <1>i, <1>k, <1>m DEF Resets
<1>9. Written'
  <2>1. MayReset(root \cup {Layout})
    BY <1>l DEF MayReset, Interrupted
  <2> QED
    BY <1>c, <1>i, <1>l, <2>1 DEF Written
<1> QED
  BY <1>1, <1>2, <1>3, <1>4, <1>5, <1>6, <1>7, <1>8, <1>9 DEF VolumeInv

\* What was extracted is what was verified, durably.
LEMMA EndExtractionKept == ASSUME VolumeInv, EndExtraction PROVE VolumeInv'
<1> USE DEF VolumeInv, EndExtraction, DigestMatches
<1>c. /\ owner.backup \in DOMAIN backups /\ ~restored /\ (Journaled => ~served)
      /\ root \ {Layout} = {Restoring} /\ from = owner.backup
      /\ DOMAIN owner.hashes = DOMAIN Content
      /\ \A q \in DOMAIN payload : owner.hashes[q] = payload[q]
  BY DEF Restores
<1>d. /\ \/ owner' = Nobody
         \/ /\ owner' = [owner EXCEPT !.pc = "committing"]
                 /\ owner.hashes = backups[owner.backup].content
            /\ survivors' = {root}
      /\ root' = root /\ (survivors' = {root} \/ survivors' = survivors)
  OBVIOUS
<1>e. UNCHANGED <<payload, resetOk, backups, leaves, leavesSurviving, committer, faults, from,
        served, restored, destroyed>>
  OBVIOUS
<1>f. owner.role = "restore"
  OBVIOUS
<1> HIDE DEF EndExtraction, Nobody
<1>g. \/ owner' = Nobody
      \/ owner'.role = "restore" /\ owner'.pc = "committing" /\ owner'.backup = owner.backup
  <2>1. CASE owner' = [owner EXCEPT !.pc = "committing"]
    BY <1>f, <2>1 DEF Typed, OwnerType
  <2> QED
    BY <1>d, <2>1
<1>1. Typed'
  <2>1. owner' \in OwnerType
    <3>1. [owner EXCEPT !.pc = "committing"] \in OwnerType
      BY DEF Typed, OwnerType
    <3> QED
      BY <1>d, <3>1, NobodyIs
  <2> QED
    BY <1>d, <1>e, <2>1 DEF Typed
<1>2. Published'
  BY <1>e DEF Published
<1>3. Copied'
  BY <1>e DEF Copied
<1>4. Copying'
  BY <1>g, NobodyIs DEF Copying
<1>5. Restores'
  <2> SUFFICES ASSUME owner' # Nobody PROVE Restores'
    BY NobodyIs DEF Restores
  <2>1. /\ owner.hashes = backups[owner.backup].content /\ survivors' = {root}
        /\ owner'.role = "restore" /\ owner'.pc = "committing" /\ owner'.backup = owner.backup
    BY <1>d, <1>g
  <2>2. Layout \in DOMAIN owner.hashes /\ owner.hashes[Layout] = 1
    BY <1>c, <2>1 DEF Copied
  <2>3. Content \in Tables /\ owner.hashes \in Tables
          /\ DOMAIN Content = DOMAIN payload \cup (root \cap {Layout})
        /\ Layout \notin DOMAIN payload /\ (Layout \in root => Content[Layout] = 1)
        /\ \A q \in DOMAIN payload : Content[q] = payload[q]
    BY ContentIs DEF Content, Typed, OwnerType
  <2>4. Layout \in root
    BY <1>c, <2>2, <2>3
  <2>5. root = {Restoring, Layout}
    BY <1>c, <2>4
  <2>6. \A q \in DOMAIN Content : Content[q] = owner.hashes[q]
    BY <1>c, <2>2, <2>3, <2>4
  <2>7. Content = backups[owner.backup].content
    BY <1>c, <2>1, <2>3, <2>6, TableEqual
  <2>8. Content' = Content
    BY <1>d, <1>e, ContentStays
  <2> QED
    BY <1>c, <1>d, <1>e, <2>1, <2>5, <2>7, <2>8 DEF Restores
<1>6. Serves'
  BY <1>g, NobodyIs DEF Serves
<1>7. Restored'
  <2>1. Restoring \in root /\ \A names : ContentAt(names)' = ContentAt(names)
    BY <1>c, <1>e, ContentStays
  <2>2. \A s \in survivors' : s \in survivors \/ s = root
    BY <1>d
  <2>3. Restoring \in Marks
    BY Names
  <2> QED
    BY <1>c, <1>d, <1>e, <2>1, <2>2, <2>3 DEF Restored
<1>8. Resets'
  <2>1. ~resetOk
    BY <1>f DEF Resets
  <2> QED
    BY <1>e, <1>g, <2>1, NobodyIs DEF Resets
<1>9. Written'
  <2>1. \A s \in survivors' : s \in survivors
    BY <1>d DEF Typed
  <2> QED
    BY <1>c, <1>e, <2>1 DEF Written
<1> QED
  BY <1>1, <1>2, <1>3, <1>4, <1>5, <1>6, <1>7, <1>8, <1>9 DEF VolumeInv

\* The mark goes when the volume is whole.
LEMMA UnlinkMarkKept == ASSUME VolumeInv, UnlinkMark PROVE VolumeInv'
<1> USE DEF VolumeInv, UnlinkMark
<1>c. /\ root' = (root \ {Restoring}) \cup {} /\ root' \in survivors'
      /\ survivors' \subseteq SUBSET (Reserved \cup {Layout})
      /\ \A s \in survivors' : s \in survivors \/ \E t \in survivors : s = (t \ {Restoring}) \cup {}
      /\ Journaled => \A s \in survivors' : s \in survivors \/ s = root'
  <2>1. {} \subseteq Reserved \cup {Layout}
    BY Names
  <2> QED
    BY <2>1, Changed
<1>1. Typed'
  <2>1. owner' \in OwnerType
    BY DEF Typed, OwnerType
  <2> QED
    BY <2>1, <1>c DEF Typed
<1>v. \A names : ContentAt(names)' = ContentAt(names)
  BY ContentStays
<1> HIDE DEF Marks
<1>2. Published'
  BY <1>1, <1>c, <1>v, Names DEF Typed, Published
<1>3. Copied'
  BY <1>1, <1>c, <1>v, Names DEF Typed, Copied
<1>4. Copying'
  BY <1>1, <1>c, <1>v, Names DEF Typed, Copying
<1>5. Restores'
  <2>1. /\ owner.backup \in DOMAIN backups /\ ~restored /\ (Journaled => ~served)
        /\ root = {Restoring, Layout} /\ from = owner.backup /\ Content = backups[from].content
    BY DEF Restores
  <2>2. root' = {Layout}
    BY <1>c, <2>1, Names
  <2>3. Content' = Content
    BY <1>v, <2>1, <2>2, ContentStays DEF Content
  <2>4. owner'.pc = "committed" /\ owner'.backup = owner.backup
    BY DEF Typed, OwnerType
  <2> HIDE DEF UnlinkMark
  <2>5. UNCHANGED <<backups, restored, served, from>>
    BY DEF UnlinkMark
  <2> QED
    BY <2>1, <2>2, <2>3, <2>4, <2>5 DEF Restores
<1>6. Serves'
  BY <1>1, <1>c, <1>v, Names DEF Typed, Serves
<1>7. Restored'
  <2>1. /\ ~restored /\ root = {Restoring, Layout} /\ survivors = {root}
        /\ Content = backups[from].content
    BY DEF Restores
  <2>2. root' = {Layout} /\ \A s \in survivors' : s = root \/ s = {Layout}
    BY <1>c, <2>1, Names
  <2>3. \A s \in survivors' : ContentAt(s)' = Content
    BY <1>v, <2>1, <2>2, ContentStays DEF Content
  <2> HIDE DEF UnlinkMark
  <2>4. UNCHANGED <<backups, restored, served, from>>
    BY DEF UnlinkMark
  <2> QED
    BY <2>1, <2>3, <2>4 DEF Restored
<1>8. Resets'
  BY <1>1, <1>c, <1>v, Names DEF Typed, Resets
<1>9. Written'
  <2>1. (Journaled => ~served) /\ root = {Restoring, Layout}
    BY DEF Restores
  <2>2. Claiming \notin root'
    BY <1>c, <2>1, Names
  <2> QED
    BY <1>c, <2>1, <2>2 DEF Written
<1> QED
  BY <1>1, <1>2, <1>3, <1>4, <1>5, <1>6, <1>7, <1>8, <1>9 DEF VolumeInv

\* A restore is reported when its mark is durably gone.
LEMMA ReportRestoreKept == ASSUME VolumeInv, ReportRestore PROVE VolumeInv'
<1> USE DEF VolumeInv, ReportRestore
<1>1. Typed'
  <2>1. owner' \in OwnerType
    BY NobodyIs DEF Typed, OwnerType
  <2> QED
    BY <2>1 DEF Typed
<1>v. Content' = Content /\ \A names : ContentAt(names)' = ContentAt(names)
  BY ContentStays
<1> HIDE DEF Marks, Restoring
<1>2. Published'
  BY <1>1, <1>v, Names DEF Typed, Published
<1>3. Copied'
  BY <1>1, <1>v, Names DEF Typed, Copied
<1>4. Copying'
  BY <1>1, <1>v, Names DEF Typed, Copying
<1>5. Restores'
  BY <1>1, <1>v, Names DEF Typed, Restores
<1>6. Serves'
  BY <1>1, <1>v, Names DEF Typed, Serves
<1>7. Restored'
  <2>1. root' = {Layout} /\ survivors' = {{Layout}} /\ Content = backups[from].content
    BY DEF Restores
  <2>2. Layout \in {Layout} /\ {Layout} \cap Marks = {}
    BY Names
  <2> HIDE DEF ReportRestore
  <2>3. ContentAt({Layout})' = Content /\ UNCHANGED <<backups, from>>
    BY <1>v, <2>1 DEF Content, ReportRestore
  <2> QED
    BY <2>1, <2>2, <2>3 DEF Restored
<1>8. Resets'
  BY <1>1, <1>v, Names DEF Typed, Resets
<1>9. Written'
  BY <1>1, <1>v, Names DEF Typed, Written
<1> QED
  BY <1>1, <1>2, <1>3, <1>4, <1>5, <1>6, <1>7, <1>8, <1>9 DEF VolumeInv

\* A reset is of a volume that no restore completed.
LEMMA StartResetKept == ASSUME VolumeInv, StartReset PROVE VolumeInv'
<1> USE DEF VolumeInv, StartReset
<1>1. Typed'
  <2>1. owner' \in OwnerType
    <3>1. [Nobody EXCEPT !.role = "reset", !.pc = "checked"] \in OwnerType
      <4> HIDE DEF Nobody
      <4> QED
        BY NobodyIs
    <3> QED
      BY <3>1 DEF Typed
  <2>2. resetOk' \in BOOLEAN
    BY DEF Typed
  <2> HIDE DEF StartReset
  <2>3. UNCHANGED <<volume, backups, host, faults, ghosts>>
    BY DEF StartReset
  <2> QED
    BY <2>1, <2>2, <2>3 DEF Typed
<1>v. Content' = Content /\ \A names : ContentAt(names)' = ContentAt(names)
  BY ContentStays
<1>2. Published'
  BY <1>1, <1>v DEF Typed, Published
<1>3. Copied'
  BY <1>1, <1>v DEF Typed, Copied
<1>4. Copying'
  BY <1>1, <1>v DEF Typed, Copying
<1>5. Restores'
  BY <1>1, <1>v DEF Typed, Restores
<1>6. Serves'
  BY <1>1, <1>v DEF Typed, Serves
<1>7. Restored'
  BY <1>1, <1>v DEF Typed, Restored
<1>8. Resets'
  <2>1. ResetClaim \in root => owner' = owner /\ resetOk'
    OBVIOUS
  <2>2. ResetClaim \notin root => owner'.role = "reset" /\ owner'.pc = "checked"
          /\ resetOk' = resetOk
    OBVIOUS
  <2>3. ~restored
    <3>1. restored => root \cap Marks = {}
      BY DEF Typed, Restored
    <3> QED
      BY <3>1 DEF MayReset, Interrupted
  <2>4. Journaled => ~served
    <3>1. Journaled /\ served => root \cap Marks = {}
      BY DEF Typed, Written
    <3> QED
      BY <3>1 DEF MayReset, Interrupted
  <2>5. MayReset(root) /\ owner.role = "nobody" /\ UNCHANGED <<root, restored, served>>
    OBVIOUS
  <2> HIDE DEF StartReset
  <2> QED
    BY <2>1, <2>2, <2>3, <2>4, <2>5 DEF Resets
<1>9. Written'
  BY <1>1, <1>v DEF Typed, Written
<1> QED
  BY <1>1, <1>2, <1>3, <1>4, <1>5, <1>6, <1>7, <1>8, <1>9 DEF VolumeInv

\* The claim is prepared.
LEMMA WriteClaimKept == ASSUME VolumeInv, WriteClaim PROVE VolumeInv'
<1> USE DEF VolumeInv, WriteClaim
<1>c. /\ root' = (root \ {}) \cup {Claiming} /\ root' \in survivors'
      /\ survivors' \subseteq SUBSET (Reserved \cup {Layout})
      /\ \A s \in survivors' : s \in survivors \/ \E t \in survivors : s = (t \ {}) \cup {Claiming}
      /\ Journaled => \A s \in survivors' : s \in survivors \/ s = root'
  <2>1. {Claiming} \subseteq Reserved \cup {Layout}
    BY Names
  <2> QED
    BY <2>1, Changed
<1>1. Typed'
  <2>1. owner' \in OwnerType
    BY DEF Typed, OwnerType
  <2> QED
    BY <2>1, <1>c DEF Typed
<1>v. \A names : ContentAt(names)' = ContentAt(names)
  BY ContentStays
<1> HIDE DEF Marks
<1>2. Published'
  BY <1>1, <1>c, <1>v, Names DEF Typed, Published
<1>3. Copied'
  BY <1>1, <1>c, <1>v, Names DEF Typed, Copied
<1>4. Copying'
  BY <1>1, <1>c, <1>v, Names DEF Typed, Copying
<1>5. Restores'
  BY <1>1, <1>c, <1>v, Names DEF Typed, Restores
<1>6. Serves'
  BY <1>1, <1>c, <1>v, Names DEF Typed, Serves
<1>7. Restored'
  <2>1. ~restored
    BY DEF Resets
  <2>2. \A s \in survivors' : s \cap Marks = {} => s \in survivors
    BY <1>c, Names
  <2> QED
    BY <1>1, <1>v, <2>1, <2>2 DEF Restored
<1>8. Resets'
  <2>1. MayReset(root) /\ ~restored /\ (Journaled => ~served) /\ ~resetOk
    BY DEF Resets
  <2>2. MayReset(root')
    BY <1>c, <2>1, Names DEF MayReset, Interrupted
  <2>3. owner'.role = "reset" /\ owner'.pc \in {"claiming", "claimed"}
          /\ (owner'.pc = "claimed" => ResetClaim \in root')
    BY <1>c DEF Typed, OwnerType
  <2> HIDE DEF WriteClaim
  <2>4. UNCHANGED <<served, restored, resetOk>>
    BY DEF WriteClaim
  <2> QED
    BY <2>1, <2>2, <2>3, <2>4 DEF Resets
<1>9. Written'
  <2>1. Journaled => ~served
    BY DEF Resets
  <2>2. Claiming \in root' => MayReset(root')
    BY <1>c, Names DEF Resets, MayReset, Interrupted
  <2> HIDE DEF WriteClaim
  <2>3. UNCHANGED <<served, destroyed>>
    BY DEF WriteClaim
  <2> QED
    BY <1>c, <2>1, <2>2, <2>3 DEF Written
<1> QED
  BY <1>1, <1>2, <1>3, <1>4, <1>5, <1>6, <1>7, <1>8, <1>9 DEF VolumeInv

\* The claim gets its name.
LEMMA PublishClaimKept == ASSUME VolumeInv, PublishClaim PROVE VolumeInv'
<1> USE DEF VolumeInv, PublishClaim
<1>c. /\ root' = (root \ {Claiming}) \cup {ResetClaim} /\ root' \in survivors'
      /\ survivors' \subseteq SUBSET (Reserved \cup {Layout})
      /\ \A s \in survivors' : s \in survivors \/ \E t \in survivors :
           s = (t \ {Claiming}) \cup {ResetClaim}
      /\ Journaled => \A s \in survivors' : s \in survivors \/ s = root'
  <2>1. {ResetClaim} \subseteq Reserved \cup {Layout}
    BY Names
  <2> QED
    BY <2>1, Changed
<1>1. Typed'
  <2>1. owner' \in OwnerType
    BY DEF Typed, OwnerType
  <2> QED
    BY <2>1, <1>c DEF Typed
<1>v. \A names : ContentAt(names)' = ContentAt(names)
  BY ContentStays
<1> HIDE DEF Marks
<1>2. Published'
  BY <1>1, <1>c, <1>v, Names DEF Typed, Published
<1>3. Copied'
  BY <1>1, <1>c, <1>v, Names DEF Typed, Copied
<1>4. Copying'
  BY <1>1, <1>c, <1>v, Names DEF Typed, Copying
<1>5. Restores'
  BY <1>1, <1>c, <1>v, Names DEF Typed, Restores
<1>6. Serves'
  BY <1>1, <1>c, <1>v, Names DEF Typed, Serves
<1>7. Restored'
  <2>1. ~restored
    BY DEF Resets
  <2>2. \A s \in survivors' : s \cap Marks = {} => s \in survivors
    BY <1>c, Names
  <2> QED
    BY <1>1, <1>v, <2>1, <2>2 DEF Restored
<1>8. Resets'
  <2>1. MayReset(root) /\ ~restored /\ (Journaled => ~served) /\ ~resetOk
    BY DEF Resets
  <2>2. MayReset(root')
    BY <1>c, <2>1, Names DEF MayReset, Interrupted
  <2>3. owner'.role = "reset" /\ owner'.pc \in {"claiming", "claimed"}
          /\ (owner'.pc = "claimed" => ResetClaim \in root')
    BY <1>c DEF Typed, OwnerType
  <2> HIDE DEF PublishClaim
  <2>4. UNCHANGED <<served, restored, resetOk>>
    BY DEF PublishClaim
  <2> QED
    BY <2>1, <2>2, <2>3, <2>4 DEF Resets
<1>9. Written'
  <2>1. Journaled => ~served
    BY DEF Resets
  <2>2. Claiming \in root' => MayReset(root')
    BY <1>c, Names DEF Resets, MayReset, Interrupted
  <2> HIDE DEF PublishClaim
  <2>3. UNCHANGED <<served, destroyed>>
    BY DEF PublishClaim
  <2> QED
    BY <1>c, <2>1, <2>2, <2>3 DEF Written
<1> QED
  BY <1>1, <1>2, <1>3, <1>4, <1>5, <1>6, <1>7, <1>8, <1>9 DEF VolumeInv

\* The claim is durable before the launcher is told.
LEMMA SyncClaimKept == ASSUME VolumeInv, SyncClaim PROVE VolumeInv'
<1> USE DEF VolumeInv, SyncClaim
<1>1. Typed'
  <2>1. owner' \in OwnerType
    BY NobodyIs DEF Typed, OwnerType
  <2> QED
    BY <2>1 DEF Typed
<1>v. Content' = Content /\ \A names : ContentAt(names)' = ContentAt(names)
  BY ContentStays
<1> HIDE DEF Marks, Restoring
<1>2. Published'
  BY <1>1, <1>v, Names DEF Typed, Published
<1>3. Copied'
  BY <1>1, <1>v, Names DEF Typed, Copied
<1>4. Copying'
  BY <1>1, <1>v, Names DEF Typed, Copying
<1>5. Restores'
  BY <1>1, <1>v, Names DEF Typed, Restores
<1>6. Serves'
  BY <1>1, <1>v, Names DEF Typed, Serves
<1>7. Restored'
  <2>1. ~restored /\ root \cap Marks # {}
    BY Names DEF Resets
  <2> HIDE DEF Marks
  <2> QED
    BY <1>v, <2>1 DEF Restored
<1>8. Resets'
  BY <1>1, <1>v, Names DEF Typed, Resets
<1>9. Written'
  BY <1>1, <1>v, Names DEF Typed, Written
<1> QED
  BY <1>1, <1>2, <1>3, <1>4, <1>5, <1>6, <1>7, <1>8, <1>9 DEF VolumeInv

\* The launcher removes the volume.
LEMMA RemoveVolumeKept == ASSUME VolumeInv, RemoveVolume PROVE VolumeInv'
<1> USE DEF VolumeInv, RemoveVolume, Emptied
<1>1. Typed'
  <2>1. owner' \in OwnerType /\ 0 \in 0..MaxBackups
    BY NobodyIs, DataVolumeAssumption
  <2>2. payload' \in Tables /\ Layout \notin DOMAIN payload'
    BY TableEmpty
  <2>3. destroyed' \in BOOLEAN
    BY DEF Typed
  <2>4. survivors' \subseteq SUBSET (Reserved \cup {Layout}) /\ root' \in survivors'
    OBVIOUS
  <2>5. /\ UNCHANGED <<backups, leaves, leavesSurviving, committer, faults>>
        /\ from' = 0 /\ served' = FALSE /\ restored' = FALSE /\ resetOk' = FALSE
    OBVIOUS
  <2> HIDE DEF RemoveVolume
  <2> QED
    BY <2>1, <2>2, <2>3, <2>4, <2>5 DEF Typed
<1>2. Published'
  BY <1>1 DEF Typed, Published
<1>3. Copied'
  BY <1>1 DEF Typed, Copied
<1>4. Copying'
  BY <1>1 DEF Typed, Copying
<1>5. Restores'
  BY <1>1 DEF Typed, Restores
<1>6. Serves'
  BY <1>1 DEF Typed, Serves
<1>7. Restored'
  BY <1>1 DEF Typed, Restored
<1>8. Resets'
  BY <1>1 DEF Typed, Resets
<1>9. Written'
  <2>1. Journaled => ~served
    BY DEF Resets, Written, Typed
  <2>2. Claiming \notin {}
    OBVIOUS
  <2> QED
    BY <2>1, <2>2 DEF Written
<1> QED
  BY <1>1, <1>2, <1>3, <1>4, <1>5, <1>6, <1>7, <1>8, <1>9 DEF VolumeInv

\* An installation gets a new volume.
LEMMA NewVolumeKept == ASSUME VolumeInv, NewVolume PROVE VolumeInv'
<1> USE DEF VolumeInv, NewVolume, Emptied
<1>1. Typed'
  <2>1. owner' \in OwnerType /\ 0 \in 0..MaxBackups
    BY NobodyIs, DataVolumeAssumption
  <2>2. payload' \in Tables /\ Layout \notin DOMAIN payload'
    BY TableEmpty
  <2>3. destroyed' \in BOOLEAN
    BY DEF Typed
  <2>4. survivors' \subseteq SUBSET (Reserved \cup {Layout}) /\ root' \in survivors'
    OBVIOUS
  <2>5. /\ UNCHANGED <<backups, leaves, leavesSurviving, committer, faults>>
        /\ from' = 0 /\ served' = FALSE /\ restored' = FALSE /\ resetOk' = FALSE
    OBVIOUS
  <2> HIDE DEF NewVolume
  <2> QED
    BY <2>1, <2>2, <2>3, <2>4, <2>5 DEF Typed
<1>2. Published'
  BY <1>1 DEF Typed, Published
<1>3. Copied'
  BY <1>1 DEF Typed, Copied
<1>4. Copying'
  BY <1>1 DEF Typed, Copying
<1>5. Restores'
  BY <1>1 DEF Typed, Restores
<1>6. Serves'
  BY <1>1 DEF Typed, Serves
<1>7. Restored'
  BY <1>1 DEF Typed, Restored
<1>8. Resets'
  BY <1>1 DEF Typed, Resets
<1>9. Written'
  BY <1>1 DEF Typed, Written
<1> QED
  BY <1>1, <1>2, <1>3, <1>4, <1>5, <1>6, <1>7, <1>8, <1>9 DEF VolumeInv

\* A process that dies changes nothing.
LEMMA DieKept == ASSUME VolumeInv, Die PROVE VolumeInv'
<1> USE DEF VolumeInv, Die
<1>1. Typed'
  <2>1. owner' \in OwnerType
    BY NobodyIs DEF Typed, OwnerType
  <2> QED
    BY <2>1 DEF Typed
<1>v. Content' = Content /\ \A names : ContentAt(names)' = ContentAt(names)
  BY ContentStays
<1>2. Published'
  BY <1>1, <1>v DEF Typed, Published
<1>3. Copied'
  BY <1>1, <1>v DEF Typed, Copied
<1>4. Copying'
  BY <1>1, <1>v DEF Typed, Copying
<1>5. Restores'
  BY <1>1, <1>v DEF Typed, Restores
<1>6. Serves'
  BY <1>1, <1>v DEF Typed, Serves
<1>7. Restored'
  BY <1>1, <1>v DEF Typed, Restored
<1>8. Resets'
  BY <1>1, <1>v DEF Typed, Resets
<1>9. Written'
  BY <1>1, <1>v DEF Typed, Written
<1> QED
  BY <1>1, <1>2, <1>3, <1>4, <1>5, <1>6, <1>7, <1>8, <1>9 DEF VolumeInv

\* A power loss leaves one of the states that may survive it.
LEMMA PowerLossKept == ASSUME VolumeInv, PowerLoss PROVE VolumeInv'
<1> USE DEF VolumeInv, PowerLoss
<1>1. Typed'
  <2>1. owner' \in OwnerType
    BY NobodyIs
  <2>2. faults' \in 0..MaxFaults
    BY DataVolumeAssumption DEF Typed
  <2>3. survivors' \subseteq SUBSET (Reserved \cup {Layout}) /\ root' \in survivors'
    BY DEF Typed
  <2>4. /\ leaves' \in leavesSurviving'
        /\ leavesSurviving' \subseteq [archive : 0..MaxBackups, checksum : 0..MaxBackups]
    BY DEF Typed
  <2>5. committer' \in [1..MaxBackups -> {"none", "copied", "checked", "archived", "durable",
                                      "linked", "done", "failed"}]
    BY DEF Typed
  <2>6. UNCHANGED <<payload, backups, from, served, restored, destroyed>> /\ resetOk' = FALSE
    OBVIOUS
  <2> HIDE DEF PowerLoss
  <2> QED
    BY <2>1, <2>2, <2>3, <2>4, <2>5, <2>6 DEF Typed
<1>v. \A names : ContentAt(names)' = ContentAt(names)
  BY ContentStays
<1>2. Published'
  BY <1>1, <1>v DEF Typed, Published
<1>3. Copied'
  BY <1>1, <1>v DEF Typed, Copied
<1>4. Copying'
  BY <1>1, <1>v DEF Typed, Copying
<1>5. Restores'
  BY <1>1, <1>v DEF Typed, Restores
<1>6. Serves'
  BY <1>1, <1>v DEF Typed, Serves
<1>7. Restored'
  <2>1. survivors' \subseteq survivors
    OBVIOUS
  <2>2. UNCHANGED <<payload, backups, from, served, restored>>
    OBVIOUS
  <2> HIDE DEF PowerLoss, Marks
  <2> QED
    BY <1>v, <2>1, <2>2 DEF Restored
<1>8. Resets'
  BY <1>1, <1>v DEF Typed, Resets
<1>9. Written'
  BY <1>1, <1>v DEF Typed, Written
<1> QED
  BY <1>1, <1>2, <1>3, <1>4, <1>5, <1>6, <1>7, <1>8, <1>9 DEF VolumeInv

\* A write behind the back of a backup.
LEMMA WriteUncoordinatedKept ==
  ASSUME VolumeInv, NEW p \in Files, WriteUncoordinated(p)
  PROVE  VolumeInv'
<1> USE DEF VolumeInv, WriteUncoordinated
<1>c. /\ payload \in Tables /\ Layout \notin DOMAIN payload /\ \A q \in DOMAIN payload :
           payload[q] \in Nat
  BY TableIs DEF Typed
<1>d. /\ DOMAIN payload' = DOMAIN payload /\ payload'[p] = payload[p] + 1
      /\ \A q \in DOMAIN payload : q # p => payload'[q] = payload[q]
      /\ payload' = [q \in DOMAIN payload' |-> payload'[q]]
  BY <1>c
<1>e. payload' \in Tables
  <2>1. DOMAIN payload' \subseteq ToSet(Paths) /\ \A q \in DOMAIN payload' : payload'[q] \in Nat
    BY <1>c, <1>d, TableIs
  <2> HIDE DEF WriteUncoordinated
  <2> QED
    BY <1>d, <2>1, TableIs
<1>1. Typed'
  <2>1. faults' \in 0..MaxFaults /\ from' \in 0..MaxBackups
    BY DataVolumeAssumption DEF Typed
  <2> QED
    BY <1>c, <1>d, <1>e, <2>1 DEF Typed
<1>2. Published'
  BY <1>1 DEF Typed, Published
<1>3. Copied'
  BY <1>1 DEF Typed, Copied
<1>4. Copying'
  <2>1. /\ DOMAIN Content = DOMAIN payload \cup (root \cap {Layout})
        /\ \A q \in DOMAIN payload : q # Layout /\ Content[q] = payload[q]
        /\ (Layout \in root => Content[Layout] = 1) /\ Content \in Tables
    BY ContentIs DEF Content
  <2>2. /\ DOMAIN Content' = DOMAIN payload' \cup (root' \cap {Layout})
        /\ \A q \in DOMAIN payload' : Content'[q] = payload'[q]
        /\ (Layout \in root' => Content'[Layout] = 1)
    BY <1>c, <1>d DEF Content, ContentAt
  <2>3. UNCHANGED <<root, owner, backups>>
    OBVIOUS
  <2>4. DOMAIN Content' = DOMAIN Content
    BY <1>d, <2>1, <2>2, <2>3
  <2>5. \A q \in DOMAIN Content : Content[q] \in Nat /\ Content'[q] \in Nat
          /\ Content[q] <= Content'[q]
    <3> SUFFICES ASSUME NEW q \in DOMAIN Content
                 PROVE  Content[q] \in Nat /\ Content'[q] \in Nat /\ Content[q] <= Content'[q]
      OBVIOUS
    <3>1. CASE q \in DOMAIN payload
      BY <1>c, <1>d, <2>1, <2>2, <3>1
    <3>2. CASE q \notin DOMAIN payload
      BY <2>1, <2>2, <2>3, <3>2
    <3> QED
      BY <3>1, <3>2
  <2>6. owner.hashes \in Tables /\ owner.bytes \in Tables
    BY DEF Typed, OwnerType
  <2>7. /\ \A q \in DOMAIN owner.hashes : owner.hashes[q] \in Nat
        /\ \A q \in DOMAIN owner.bytes : owner.bytes[q] \in Nat
    BY <2>6, TableIs
  <2> HIDE DEF WriteUncoordinated
  <2>8. owner.role = "backup" =>
          \A q \in DOMAIN owner.hashes : q \in DOMAIN Content' /\ owner.hashes[q] <= Content'[q]
    BY <2>4, <2>5, <2>7 DEF Copying
  <2>9. owner.role = "backup" /\ owner.pc = "writing" =>
          \A q \in DOMAIN owner.hashes : owner.bytes[q] <= Content'[q]
    BY <2>4, <2>5, <2>7 DEF Copying
  <2> QED
    BY <2>3, <2>8, <2>9 DEF Copying
<1>5. Restores'
  BY <1>1 DEF Typed, Restores
<1>6. Serves'
  BY <1>1 DEF Typed, Serves
<1>7. Restored'
  BY <1>1 DEF Typed, Restored
<1>8. Resets'
  BY <1>1 DEF Typed, Resets
<1>9. Written'
  BY <1>1 DEF Typed, Written
<1> QED
  BY <1>1, <1>2, <1>3, <1>4, <1>5, <1>6, <1>7, <1>8, <1>9 DEF VolumeInv

\* The input of a restore changes.
LEMMA SwapInputKept == ASSUME VolumeInv, NEW p \in Files, SwapInput(p) PROVE VolumeInv'
<1> USE DEF VolumeInv, SwapInput
<1>1. Typed'
  <2>1. owner.bytes \in Tables /\ \A q \in DOMAIN owner.bytes : owner.bytes[q] \in Nat
    BY TableIs DEF Typed, OwnerType
  <2> DEFINE b == [owner.bytes EXCEPT ![p] = @ + 1]
  <2>2. DOMAIN b = DOMAIN owner.bytes /\ b = [q \in DOMAIN b |-> b[q]] /\ \A q \in DOMAIN b :
          b[q] \in Nat
    BY <2>1
  <2>3. owner' = [owner EXCEPT !.bytes = b] /\ owner \in OwnerType
    BY DEF Typed, OwnerType
  <2>4. faults' \in 0..MaxFaults
    BY DataVolumeAssumption DEF Typed
  <2>5. UNCHANGED <<volume, resetOk, backups, host, ghosts>>
    OBVIOUS
  <2> HIDE DEF b, SwapInput
  <2>6. b \in Tables
    BY <2>1, <2>2, TableIs
  <2>7. owner' \in OwnerType
    BY <2>3, <2>6 DEF OwnerType
  <2> QED
    BY <2>4, <2>5, <2>7 DEF Typed
<1>v. Content' = Content /\ \A names : ContentAt(names)' = ContentAt(names)
  BY ContentStays
<1>2. Published'
  BY <1>1, <1>v DEF Typed, Published
<1>3. Copied'
  BY <1>1, <1>v DEF Typed, Copied
<1>4. Copying'
  BY <1>1, <1>v DEF Typed, Copying
<1>5. Restores'
  BY <1>1, <1>v DEF Typed, Restores
<1>6. Serves'
  BY <1>1, <1>v DEF Typed, Serves
<1>7. Restored'
  BY <1>1, <1>v DEF Typed, Restored
<1>8. Resets'
  BY <1>1, <1>v DEF Typed, Resets
<1>9. Written'
  BY <1>1, <1>v DEF Typed, Written
<1> QED
  BY <1>1, <1>2, <1>3, <1>4, <1>5, <1>6, <1>7, <1>8, <1>9 DEF VolumeInv

-------------------------------------------------------------------------------
\* A new volume, or one of an older version, keeps it.
LEMMA InitVolumeInv == VolumeInit => VolumeInv
<1> SUFFICES ASSUME VolumeInit PROVE VolumeInv
  OBVIOUS
<1>1. payload \in Tables /\ Layout \notin DOMAIN payload
  <2>1. CASE payload = <<>>
    BY <2>1, TableEmpty
  <2>2. CASE payload = [p \in Files |-> 1]
    BY <2>2, TableIs DEF Files
  <2> QED
    BY <2>1, <2>2 DEF VolumeInit
<1>2. /\ 0 \in 0..MaxBackups /\ 0 \in 0..MaxFaults /\ MaxBackups \in Nat
      /\ <<>> \in Seq(Archives) /\ Len(<<>>) = 0 /\ DOMAIN <<>> = {}
  BY DataVolumeAssumption
<1>3. Typed
  <2>1. owner \in OwnerType
    BY NobodyIs DEF VolumeInit
  <2>2. backups \in Seq(Archives) /\ Len(backups) <= MaxBackups
    BY <1>2 DEF VolumeInit
  <2>3. leaves \in leavesSurviving
          /\ leavesSurviving \subseteq [archive : 0..MaxBackups, checksum : 0..MaxBackups]
    BY <1>2 DEF VolumeInit, NoLeaves
  <2> QED
    BY <1>1, <1>2, <2>1, <2>2, <2>3 DEF VolumeInit, Typed
<1>4. Published
  BY DEF VolumeInit, NoLeaves, Published
<1>5. Copied /\ Copying /\ Restores /\ Serves
  BY <1>2, NobodyIs DEF VolumeInit, Copied, Copying, Restores, Serves
<1>6. Restored /\ Resets /\ Written
  BY NobodyIs DEF VolumeInit, Restored, Resets, Written
<1> QED
  BY <1>3, <1>4, <1>5, <1>6 DEF VolumeInv

\* A step that changes no variable keeps it.
LEMMA VolumeStays == ASSUME VolumeInv, UNCHANGED volumeVars PROVE VolumeInv'
<1>1. UNCHANGED <<root, survivors, payload, owner, resetOk, backups, leaves, leavesSurviving,
                  committer, faults, from, served, restored, destroyed>>
  BY DEF volumeVars, volume, host, ghosts
<1>2. Content' = Content /\ \A names : ContentAt(names)' = ContentAt(names)
  BY <1>1, ContentStays
<1>3. Typed' /\ Published'
  BY <1>1 DEF VolumeInv, Typed, Published
<1>4. Copied' /\ Copying'
  BY <1>1, <1>2 DEF VolumeInv, Copied, Copying
<1>5. Restores' /\ Serves'
  BY <1>1, <1>2 DEF VolumeInv, Restores, Serves
<1>6. Restored' /\ Resets' /\ Written'
  BY <1>1, <1>2 DEF VolumeInv, Restored, Resets, Written
<1> QED
  BY <1>3, <1>4, <1>5, <1>6 DEF VolumeInv

\* Every step of the daemon, of a command, of a publication and of a fault keeps it.
LEMMA StepVolumeInv == VolumeInv /\ [VolumeNext]_volumeVars => VolumeInv'
<1> SUFFICES ASSUME VolumeInv, [VolumeNext]_volumeVars PROVE VolumeInv'
  OBVIOUS
<1> HIDE DEF volumeVars
<1>1. CASE UNCHANGED volumeVars
  BY <1>1, VolumeStays
<1>2. CASE Daemon
  BY <1>2, StartDaemonKept, WriteSelectorKept, RenameSelectorKept, SyncSelectorKept,
     FailSelectorKept, ServeKept DEF Daemon
<1>3. CASE Backup
  BY <1>3, StartBackupKept, TakeInventoryKept, EndInventoryKept, WriteEntryKept, EndBackupKept,
     PublishKept DEF Backup
<1>4. CASE Restore
  BY <1>4, StartRestoreKept, MarkPreparingKept, MarkRestoringKept, SyncMarkKept, ExtractKept,
     EndExtractionKept, UnlinkMarkKept, ReportRestoreKept DEF Restore
<1>5. CASE Reset
  BY <1>5, StartResetKept, WriteClaimKept, PublishClaimKept, SyncClaimKept, RemoveVolumeKept,
     NewVolumeKept DEF Reset
<1>6. CASE Fault
  BY <1>6, DieKept, PowerLossKept, WriteUncoordinatedKept, SwapInputKept DEF Fault
<1> QED
  BY <1>1, <1>2, <1>3, <1>4, <1>5, <1>6 DEF VolumeNext

\* The inductive invariant holds in every reachable state, whatever the volume holds and
\* however many backups are made of it.
THEOREM VolumeInvariance == VolumeSpec => []VolumeInv
BY InitVolumeInv, StepVolumeInv, PTL DEF VolumeSpec

\* The daemon serves no half-restored volume, and a reported restore stays committed, on any
\* file system and with any archive: restoreOfflineBackup of backup.ts and
\* inspectWorkflowDataLayout of dataLayout.ts, whatever dies, loses power or is swapped.
THEOREM OpensNoHalf == VolumeSpec => []RestoreExact
<1>1. ASSUME VolumeInv PROVE RestoreExact
  <2>1. VolumeTypeOK
    <3>1. DOMAIN payload \subseteq Files /\ \A p \in DOMAIN payload : payload[p] \in Nat
      BY <1>1, TableIs DEF VolumeInv, Typed, Files
    <3> QED
      BY <1>1, <3>1 DEF VolumeInv, Typed, OwnerType, VolumeTypeOK
  <2>2. owner.role = "daemon" /\ from # 0 /\ ~served => Content = backups[from].content
    BY <1>1 DEF VolumeInv, Typed, Serves, Restored, Content
  <2>3. restored => root \cap Marks = {}
    BY <1>1 DEF VolumeInv, Typed, Restored
  <2> QED
    BY <2>1, <2>2, <2>3 DEF RestoreExact
<1> QED
  BY <1>1, VolumeInvariance, PTL

\* A checksum names a whole archive of one moment, and a reported publication survives:
\* commitHostBackup, inventoryPayload and writeArchive of backup.ts, however many backups
\* choose one name and on any file system.
THEOREM PublishesWhole == VolumeSpec => []BackupExact
<1>1. ASSUME VolumeInv PROVE BackupExact
  <2>1. leaves.checksum # 0 => leaves.archive = leaves.checksum
    BY <1>1 DEF VolumeInv, Typed, Published
  <2>2. \A b \in 1..MaxBackups : committer[b] = "done" => leaves.checksum = b
    BY <1>1 DEF VolumeInv, Typed, Published
  <2>3. ASSUME NEW b \in DOMAIN backups
        PROVE  Restrict(backups[b].snapshot, DOMAIN backups[b].content) = backups[b].content
    <3>1. /\ backups[b].content \in Tables
          /\ \A p \in DOMAIN backups[b].content : backups[b].snapshot[p] = backups[b].content[p]
      BY <1>1, ArchiveIs DEF VolumeInv, Copied
    <3> QED
      BY <3>1, TableIs DEF Restrict
  <2> QED
    BY <2>1, <2>2, <2>3 DEF BackupExact
<1> QED
  BY <1>1, VolumeInvariance, PTL

\* The launcher removes no volume with an acknowledged write, and a volume nobody owns can be
\* started, restored into or reset, on a file system that keeps the order of its changes:
\* claimInterruptedRestore of backup.ts.
THEOREM ResetsUnserved == ASSUME Journaled PROVE VolumeSpec => []ResetExact
<1>1. ASSUME VolumeInv PROVE ResetExact
  <2>1. ~destroyed /\ (Claiming \in root => MayReset(root)) /\ root \subseteq Reserved \cup {Layout}
    BY <1>1 DEF VolumeInv, Typed, Written
  <2>2. Inspected # "refused" \/ MayReset(root) \/ Temporary \in root
    <3>1. CASE root \cap Marks # {}
      BY <2>1, <3>1, Names DEF MayReset, Interrupted
    <3>2. CASE root \cap Marks = {} /\ Layout \notin root /\ root # {}
      BY <2>1, <3>2, Names
    <3>3. CASE root \cap Marks = {} /\ (Layout \in root \/ root = {})
      BY <3>3 DEF Inspected
    <3> QED
      BY <3>1, <3>2, <3>3
  <2> QED
    BY <2>1, <2>2 DEF ResetExact
<1> QED
  BY <1>1, VolumeInvariance, PTL
================================================================================
