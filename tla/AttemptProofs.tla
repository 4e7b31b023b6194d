----------------------------- MODULE AttemptProofs -----------------------------
(***************************************************************************)
(* What an attempt goes through: its permit, for any finite set of callers,  *)
(* any assignment of keys and any capacity (WorkConservingScheduler), and    *)
(* its host (ProviderAttempt).                                              *)
(*                                                                         *)
(* The inductive invariant of the scheduler adds to the checked ones that    *)
(* the queue holds exactly the callers whose call is pending, each once:      *)
(* without it a grant could count a caller twice.                            *)
(*                                                                         *)
(* That of an attempt relates the messages between runtime and host to        *)
(* where either side stands, for any termination boundary and any number of  *)
(* events.                                                                  *)
(***************************************************************************)
EXTENDS WorkConservingScheduler, ProviderAttempt, FiniteSetTheorems, SequenceTheorems, TLAPS

\* The queue and the pending calls are the same callers, each queued once.
QueueExact ==
  /\ \A c \in Callers : lease[c] = "queued" => \E i \in DOMAIN waiters : waiters[i] = c
  /\ \A i \in DOMAIN waiters : lease[waiters[i]] = "queued"
  /\ \A i, j \in DOMAIN waiters : waiters[i] = waiters[j] => i = j

SchedulerInv == SchedulerTypeOK /\ QueueExact /\ PermitsExact /\ WorkConserving

\* Taking one position out of a queue keeps the others in order.
LEMMA RemoveAtProperties ==
  ASSUME NEW S, NEW s \in Seq(S), NEW i \in 1..Len(s)
  PROVE  /\ RemoveAt(s, i) \in Seq(S)
         /\ Len(RemoveAt(s, i)) = Len(s) - 1
         /\ \A j \in 1..(Len(s) - 1) :
              RemoveAt(s, i)[j] = IF j < i THEN s[j] ELSE s[j + 1]
<1> DEFINE left == SubSeq(s, 1, i - 1)
           right == SubSeq(s, i + 1, Len(s))
<1>1. Len(s) \in Nat /\ \A j \in 1..Len(s) : s[j] \in S
  BY LenProperties, ElementOfSeq
<1>2. /\ left \in Seq(S) /\ Len(left) = i - 1
      /\ \A j \in 1..(i - 1) : left[j] = s[j]
  <2>1. \A j \in 1..(i - 1) : s[j] \in S
    BY <1>1
  <2>2. /\ left \in Seq(S)
        /\ Len(left) = IF 1 <= i - 1 THEN (i - 1) - 1 + 1 ELSE 0
        /\ \A j \in 1..((i - 1) - 1 + 1) : left[j] = s[1 + j - 1]
    BY <1>1, <2>1, SubSeqProperties
  <2> QED
    BY <1>1, <2>2
<1>3. /\ right \in Seq(S) /\ Len(right) = Len(s) - i
      /\ \A j \in 1..(Len(s) - i) : right[j] = s[i + j]
  <2>1. \A j \in (i + 1)..Len(s) : s[j] \in S
    BY <1>1
  <2>2. /\ right \in Seq(S)
        /\ Len(right) = IF i + 1 <= Len(s) THEN Len(s) - (i + 1) + 1 ELSE 0
        /\ \A j \in 1..(Len(s) - (i + 1) + 1) : right[j] = s[(i + 1) + j - 1]
    BY <1>1, <2>1, SubSeqProperties
  <2> QED
    BY <1>1, <2>2
<1>4. /\ left \o right \in Seq(S)
      /\ Len(left \o right) = Len(left) + Len(right)
      /\ \A j \in 1..(Len(left) + Len(right)) :
           (left \o right)[j] = IF j <= Len(left) THEN left[j] ELSE right[j - Len(left)]
  BY <1>2, <1>3, ConcatProperties
<1>5. RemoveAt(s, i) = left \o right
  BY DEF RemoveAt
<1> HIDE DEF left, right
<1>6. Len(left) + Len(right) = Len(s) - 1
  BY <1>1, <1>2, <1>3
<1>7. ASSUME NEW j \in 1..(Len(s) - 1)
      PROVE  RemoveAt(s, i)[j] = IF j < i THEN s[j] ELSE s[j + 1]
  <2>1. CASE j < i
    <3>1. j \in 1..(i - 1) /\ j <= Len(left) /\ j \in 1..(Len(left) + Len(right))
      BY <1>1, <1>2, <1>6, <2>1
    <3> QED
      BY <1>2, <1>4, <1>5, <2>1, <3>1
  <2>2. CASE ~(j < i)
    <3>1. /\ j \in 1..(Len(left) + Len(right)) /\ ~(j <= Len(left))
          /\ j - Len(left) \in 1..(Len(s) - i)
          /\ i + (j - Len(left)) = j + 1
      BY <1>1, <1>2, <1>6, <2>2
    <3> QED
      BY <1>3, <1>4, <1>5, <2>2, <3>1
  <2> QED
    BY <2>1, <2>2
<1> QED
  BY <1>4, <1>5, <1>6, <1>7

\* The callers in a set given by their lease state are finitely many.
LEMMA HoldersFinite == IsFiniteSet(Holders)
<1>1. Holders \in SUBSET Callers
  BY DEF Holders
<1> QED
  BY <1>1, FS_Subset, SchedulerAssumption

LEMMA InitSchedulerInv == SchedulerInit => SchedulerInv
<1> SUFFICES ASSUME SchedulerInit PROVE SchedulerInv
  OBVIOUS
<1>1. Holders = {}
  BY DEF SchedulerInit, Holders
<1>2. SchedulerTypeOK /\ WorkConserving
  BY EmptySeq DEF SchedulerInit, SchedulerTypeOK, WorkConserving, LeaseStates
<1>3. QueueExact
  <2>1. DOMAIN waiters = {}
    BY DEF SchedulerInit
  <2> QED
    BY <2>1 DEF SchedulerInit, QueueExact
<1>4. PermitsExact
  BY <1>1, FS_EmptySet, SchedulerAssumption DEF SchedulerInit, PermitsExact
<1> QED
  BY <1>2, <1>3, <1>4 DEF SchedulerInv
-------------------------------------------------------------------------------
\* A waiter that leaves the queue, whatever its call comes to, leaves the queue
\* and the pending calls equal.
LEMMA QueueShrinks ==
  ASSUME SchedulerTypeOK, QueueExact,
         NEW i \in DOMAIN waiters, NEW st \in LeaseStates \ {"queued"},
         waiters' = RemoveAt(waiters, i),
         lease' = [lease EXCEPT ![waiters[i]] = st]
  PROVE  /\ waiters' \in Seq(Callers)
         /\ lease' \in [Callers -> LeaseStates]
         /\ QueueExact'
<1> DEFINE n == Len(waiters)
<1>1. /\ n \in Nat /\ DOMAIN waiters = 1..n /\ i \in 1..n
      /\ \A j \in 1..n : waiters[j] \in Callers
  BY LenProperties, ElementOfSeq DEF SchedulerTypeOK
<1>2. /\ waiters' \in Seq(Callers)
      /\ Len(waiters') = n - 1
      /\ \A j \in 1..(n - 1) : waiters'[j] = IF j < i THEN waiters[j] ELSE waiters[j + 1]
  BY <1>1, RemoveAtProperties DEF SchedulerTypeOK
<1>3. DOMAIN waiters' = 1..(n - 1)
  BY <1>2, LenProperties
<1>4. /\ lease' \in [Callers -> LeaseStates]
      /\ \A c \in Callers : lease'[c] = IF c = waiters[i] THEN st ELSE lease[c]
  BY <1>1 DEF SchedulerTypeOK
<1> HIDE DEF n
<1>5. \A j \in 1..(n - 1) : \E k \in 1..n :
        k # i /\ waiters'[j] = waiters[k] /\ k = (IF j < i THEN j ELSE j + 1)
  BY <1>1, <1>2
<1>6. ASSUME NEW c \in Callers, lease'[c] = "queued"
      PROVE  \E j \in DOMAIN waiters' : waiters'[j] = c
  <2>1. lease[c] = "queued" /\ c # waiters[i]
    BY <1>4, <1>6
  <2>2. PICK k \in 1..n : waiters[k] = c
    BY <1>1, <2>1 DEF QueueExact
  <2>3. k # i
    BY <2>1, <2>2
  <2>4. CASE k < i
    BY <1>1, <1>2, <1>3, <2>2, <2>4
  <2>5. CASE k > i
    <3>1. k - 1 \in 1..(n - 1) /\ ~(k - 1 < i) /\ (k - 1) + 1 = k
      BY <1>1, <2>5
    <3> QED
      BY <1>2, <1>3, <2>2, <3>1
  <2> QED
    BY <1>1, <2>3, <2>4, <2>5
<1>7. ASSUME NEW j \in DOMAIN waiters'
      PROVE  lease'[waiters'[j]] = "queued"
  <2>1. PICK k \in 1..n : k # i /\ waiters'[j] = waiters[k]
    BY <1>3, <1>5
  <2>2. waiters[k] # waiters[i] /\ lease[waiters[k]] = "queued"
    BY <1>1, <2>1 DEF QueueExact
  <2> QED
    BY <1>1, <1>4, <2>1, <2>2
<1>8. ASSUME NEW j1 \in DOMAIN waiters', NEW j2 \in DOMAIN waiters',
             waiters'[j1] = waiters'[j2]
      PROVE  j1 = j2
  <2>1. PICK k1 \in 1..n : waiters'[j1] = waiters[k1] /\ k1 = (IF j1 < i THEN j1 ELSE j1 + 1)
    BY <1>3, <1>5
  <2>2. PICK k2 \in 1..n : waiters'[j2] = waiters[k2] /\ k2 = (IF j2 < i THEN j2 ELSE j2 + 1)
    BY <1>3, <1>5
  <2>3. k1 = k2
    BY <1>1, <1>8, <2>1, <2>2 DEF QueueExact
  <2> QED
    BY <1>1, <1>3, <2>1, <2>2, <2>3
<1> QED
  BY <1>2, <1>4, <1>6, <1>7, <1>8 DEF QueueExact

\* A caller that becomes a holder is counted once more.
LEMMA HolderAdded ==
  ASSUME SchedulerTypeOK, NEW c \in Callers, lease[c] # "held",
         lease' = [lease EXCEPT ![c] = "held"]
  PROVE  /\ Holders' = Holders \cup {c}
         /\ Cardinality(Holders') = Cardinality(Holders) + 1
<1>1. Holders' = Holders \cup {c} /\ c \notin Holders
  BY DEF SchedulerTypeOK, Holders
<1> QED
  BY <1>1, HoldersFinite, FS_AddElement

\* A caller whose lease changes without being or becoming held changes no count.
LEMMA HoldersSame ==
  ASSUME SchedulerTypeOK, NEW c \in Callers, lease[c] # "held",
         NEW st \in LeaseStates \ {"held"},
         lease' = [lease EXCEPT ![c] = st]
  PROVE  Holders' = Holders
BY DEF SchedulerTypeOK, Holders

-------------------------------------------------------------------------------
\* One lemma per action: the step keeps the inductive invariant.
LEMMA AcquireNowStep ==
  ASSUME SchedulerInv, NEW c \in Callers, AcquireNow(c)
  PROVE  SchedulerInv'
<1> USE DEF SchedulerInv, MayAcquire
<1>1. lease[c] # "held" /\ lease' = [lease EXCEPT ![c] = "held"]
  BY DEF AcquireNow
<1>2. active' = active + 1 /\ active < Capacity /\ waiters' = <<>> /\ waiters = <<>>
  BY DEF AcquireNow
<1>3. SchedulerTypeOK'
  <2>1. lastGrantedKey' \in Keys
    BY SchedulerAssumption DEF AcquireNow
  <2>2. lease' \in [Callers -> LeaseStates]
    BY <1>1 DEF SchedulerTypeOK, LeaseStates
  <2> QED
    BY <1>2, <2>1, <2>2 DEF AcquireNow, SchedulerTypeOK
<1>4. QueueExact'
  <2>1. DOMAIN waiters = {} /\ DOMAIN waiters' = {}
    BY <1>2
  <2> QED
    BY <1>1, <2>1 DEF QueueExact, SchedulerTypeOK
<1>5. PermitsExact'
  <2>1. Cardinality(Holders') = Cardinality(Holders) + 1
    BY <1>1, HolderAdded
  <2>2. active \in Nat /\ active = Cardinality(Holders)
    BY DEF PermitsExact, SchedulerTypeOK
  <2> QED
    BY <1>2, <2>1, <2>2, SchedulerAssumption DEF PermitsExact
<1>6. WorkConserving'
  BY <1>2 DEF WorkConserving
<1> QED
  BY <1>3, <1>4, <1>5, <1>6

LEMMA AcquireLaterStep ==
  ASSUME SchedulerInv, NEW c \in Callers, AcquireLater(c)
  PROVE  SchedulerInv'
<1> USE DEF SchedulerInv, MayAcquire
<1> DEFINE n == Len(waiters)
<1>1. /\ lease[c] = "none" /\ lease' = [lease EXCEPT ![c] = "queued"]
      /\ waiters' = Append(waiters, c) /\ active' = active /\ draining' = TRUE
  BY DEF AcquireLater
<1>2. /\ n \in Nat /\ DOMAIN waiters = 1..n
      /\ \A j \in 1..n : waiters[j] \in Callers
  BY LenProperties, ElementOfSeq DEF SchedulerTypeOK
<1>3. /\ waiters' \in Seq(Callers) /\ DOMAIN waiters' = 1..(n + 1)
      /\ waiters'[n + 1] = c /\ \A j \in 1..n : waiters'[j] = waiters[j]
  BY <1>1, AppendProperties, LenProperties DEF SchedulerTypeOK
<1>4. SchedulerTypeOK'
  BY <1>1, <1>3 DEF AcquireLater, SchedulerTypeOK, LeaseStates
<1>5. QueueExact'
  <2>1. \A d \in Callers : lease'[d] = IF d = c THEN "queued" ELSE lease[d]
    BY <1>1 DEF SchedulerTypeOK
  <2>2. \A j \in 1..n : waiters[j] # c /\ lease[waiters[j]] = "queued"
    BY <1>1, <1>2 DEF QueueExact
  <2>3. ASSUME NEW d \in Callers, lease'[d] = "queued"
        PROVE  \E j \in DOMAIN waiters' : waiters'[j] = d
    <3>1. CASE d = c
      BY <1>2, <1>3, <3>1
    <3>2. CASE d # c
      <4>1. PICK j \in 1..n : waiters[j] = d
        BY <1>2, <2>1, <2>3, <3>2 DEF QueueExact
      <4> QED
        BY <1>2, <1>3, <4>1
    <3> QED
      BY <3>1, <3>2
  <2>4. \A j \in DOMAIN waiters' : lease'[waiters'[j]] = "queued"
    BY <1>2, <1>3, <2>1, <2>2
  <2>5. \A i, j \in DOMAIN waiters' : waiters'[i] = waiters'[j] => i = j
    BY <1>2, <1>3, <2>2 DEF QueueExact
  <2> QED
    BY <2>3, <2>4, <2>5 DEF QueueExact
<1>6. PermitsExact'
  <2>1. Holders' = Holders
    BY <1>1, HoldersSame DEF LeaseStates
  <2> QED
    BY <1>1, <2>1 DEF PermitsExact
<1>7. WorkConserving'
  BY <1>1 DEF WorkConserving
<1> QED
  BY <1>4, <1>5, <1>6, <1>7

LEMMA AbortStep ==
  ASSUME SchedulerInv, NEW k \in Keys, Abort(k)
  PROVE  SchedulerInv'
BY DEF SchedulerInv, Abort, SchedulerTypeOK, QueueExact, PermitsExact, WorkConserving, Holders

LEMMA OnAbortStep ==
  ASSUME SchedulerInv, NEW c \in Callers, OnAbort(c)
  PROVE  SchedulerInv'
<1> USE DEF SchedulerInv
<1>1. PICK i \in DOMAIN waiters : waiters[i] = c /\ waiters' = RemoveAt(waiters, i)
  BY DEF OnAbort
<1>2. /\ lease[c] = "queued" /\ lease' = [lease EXCEPT ![c] = "none"]
      /\ active' = active /\ draining' = draining /\ ~draining
  BY DEF OnAbort
<1>3. /\ waiters' \in Seq(Callers) /\ lease' \in [Callers -> LeaseStates]
      /\ QueueExact'
  BY <1>1, <1>2, QueueShrinks DEF LeaseStates
<1>4. SchedulerTypeOK'
  BY <1>3 DEF OnAbort, SchedulerTypeOK
<1>5. PermitsExact'
  <2>1. Holders' = Holders
    BY <1>2, HoldersSame DEF LeaseStates
  <2> QED
    BY <1>2, <2>1 DEF PermitsExact
<1>6. WorkConserving'
  <2>1. waiters # <<>>
    BY <1>1
  <2> QED
    BY <1>2, <2>1 DEF WorkConserving
<1> QED
  BY <1>3, <1>4, <1>5, <1>6

LEMMA ReleaseStep ==
  ASSUME SchedulerInv, NEW c \in Callers, Release(c)
  PROVE  SchedulerInv'
<1> USE DEF SchedulerInv
<1>1. /\ lease[c] = "held" /\ lease' = [lease EXCEPT ![c] = "released"]
      /\ active' = (IF active > 0 THEN active - 1 ELSE 0)
      /\ draining' = TRUE /\ waiters' = waiters
  BY DEF Release
<1>2. SchedulerTypeOK'
  BY <1>1 DEF Release, SchedulerTypeOK, LeaseStates
<1>3. QueueExact'
  <2>1. \A j \in DOMAIN waiters : waiters[j] \in Callers /\ waiters[j] # c
    BY <1>1, LenProperties, ElementOfSeq DEF SchedulerTypeOK, QueueExact
  <2> QED
    BY <1>1, <2>1 DEF QueueExact, SchedulerTypeOK
<1>4. PermitsExact'
  <2>1. Holders' = Holders \ {c} /\ c \in Holders
    BY <1>1 DEF Holders, SchedulerTypeOK
  <2>2. Cardinality(Holders') = Cardinality(Holders) - 1
    BY <2>1, HoldersFinite, FS_RemoveElement
  <2>3. Cardinality(Holders) # 0
    BY <2>1, HoldersFinite, FS_EmptySet
  <2> QED
    BY <1>1, <2>2, <2>3, SchedulerAssumption DEF PermitsExact, SchedulerTypeOK
<1>5. WorkConserving'
  BY <1>1 DEF WorkConserving
<1> QED
  BY <1>2, <1>3, <1>4, <1>5

LEMMA ReleaseAgainStep ==
  ASSUME SchedulerInv, NEW c \in Callers, ReleaseAgain(c)
  PROVE  SchedulerInv'
<1> USE DEF SchedulerInv
<1>1. /\ lease[c] = "released" /\ lease' = [lease EXCEPT ![c] = "none"]
      /\ UNCHANGED <<waiters, active, lastGrantedKey, aborted, draining>>
  BY DEF ReleaseAgain
<1>2. SchedulerTypeOK'
  BY <1>1 DEF SchedulerTypeOK, LeaseStates
<1>3. QueueExact'
  <2>1. \A j \in DOMAIN waiters : waiters[j] \in Callers /\ waiters[j] # c
    BY <1>1, LenProperties, ElementOfSeq DEF SchedulerTypeOK, QueueExact
  <2> QED
    BY <1>1, <2>1 DEF QueueExact, SchedulerTypeOK
<1>4. PermitsExact'
  <2>1. Holders' = Holders
    BY <1>1, HoldersSame DEF LeaseStates
  <2> QED
    BY <1>1, <2>1 DEF PermitsExact
<1>5. WorkConserving'
  BY <1>1 DEF WorkConserving
<1> QED
  BY <1>2, <1>3, <1>4, <1>5

LEMMA DrainRejectStep ==
  ASSUME SchedulerInv, DrainReject
  PROVE  SchedulerInv'
<1> USE DEF SchedulerInv
<1>1. PICK i \in DOMAIN waiters :
        /\ waiters' = RemoveAt(waiters, i)
        /\ lease' = [lease EXCEPT ![waiters[i]] = "none"]
  BY DEF DrainReject
<1>2. UNCHANGED <<active, lastGrantedKey, aborted, draining>> /\ draining
  BY DEF DrainReject
<1>3. waiters[i] \in Callers /\ lease[waiters[i]] = "queued"
  BY LenProperties, ElementOfSeq DEF SchedulerTypeOK, QueueExact
<1>4. /\ waiters' \in Seq(Callers) /\ lease' \in [Callers -> LeaseStates]
      /\ QueueExact'
  BY <1>1, QueueShrinks DEF LeaseStates
<1>5. SchedulerTypeOK'
  BY <1>2, <1>4 DEF SchedulerTypeOK
<1>6. PermitsExact'
  <2>1. Holders' = Holders
    BY <1>1, <1>3, HoldersSame DEF LeaseStates
  <2> QED
    BY <1>2, <2>1 DEF PermitsExact
<1>7. WorkConserving'
  BY <1>2 DEF WorkConserving
<1> QED
  BY <1>4, <1>5, <1>6, <1>7

LEMMA DrainGrantStep ==
  ASSUME SchedulerInv, DrainGrant
  PROVE  SchedulerInv'
<1> USE DEF SchedulerInv
<1>1. PICK i \in DOMAIN waiters :
        /\ waiters' = RemoveAt(waiters, i)
        /\ lease' = [lease EXCEPT ![waiters[i]] = "held"]
        /\ lastGrantedKey' = KeyOf[waiters[i]]
  BY DEF DrainGrant
<1>2. /\ draining /\ active < Capacity /\ active' = active + 1
      /\ UNCHANGED <<aborted, draining>>
  BY DEF DrainGrant
<1>3. waiters[i] \in Callers /\ lease[waiters[i]] = "queued"
  BY LenProperties, ElementOfSeq DEF SchedulerTypeOK, QueueExact
<1>4. /\ waiters' \in Seq(Callers) /\ lease' \in [Callers -> LeaseStates]
      /\ QueueExact'
  BY <1>1, QueueShrinks DEF LeaseStates
<1>5. SchedulerTypeOK'
  <2>1. lastGrantedKey' \in Keys
    BY <1>1, <1>3, SchedulerAssumption
  <2> QED
    BY <1>2, <1>4, <2>1 DEF SchedulerTypeOK
<1>6. PermitsExact'
  <2>1. Cardinality(Holders') = Cardinality(Holders) + 1
    BY <1>1, <1>3, HolderAdded
  <2>2. active \in Nat /\ active = Cardinality(Holders)
    BY DEF PermitsExact, SchedulerTypeOK
  <2> QED
    BY <1>2, <2>1, <2>2, SchedulerAssumption DEF PermitsExact
<1>7. WorkConserving'
  BY <1>2 DEF WorkConserving
<1> QED
  BY <1>4, <1>5, <1>6, <1>7

LEMMA DrainDoneStep ==
  ASSUME SchedulerInv, DrainDone
  PROVE  SchedulerInv'
<1>1. /\ ~(active < Capacity /\ waiters # <<>>)
      /\ UNCHANGED <<waiters, active, lastGrantedKey, lease, aborted>>
      /\ draining' = FALSE
  BY DEF DrainDone
<1>2. SchedulerTypeOK' /\ QueueExact' /\ PermitsExact'
  BY <1>1 DEF SchedulerInv, SchedulerTypeOK, QueueExact, PermitsExact, Holders
<1>3. WorkConserving'
  BY <1>1, SchedulerAssumption DEF SchedulerInv, SchedulerTypeOK, PermitsExact, WorkConserving
<1> QED
  BY <1>2, <1>3 DEF SchedulerInv

LEMMA NextSchedulerInv == SchedulerInv /\ [SchedulerNext]_schedulerVars => SchedulerInv'
<1> SUFFICES ASSUME SchedulerInv, [SchedulerNext]_schedulerVars
             PROVE  SchedulerInv'
  OBVIOUS
<1>1. CASE UNCHANGED schedulerVars
  BY <1>1 DEF schedulerVars, SchedulerInv, SchedulerTypeOK, QueueExact, PermitsExact,
              WorkConserving, Holders
<1>2. ASSUME NEW c \in Callers,
             \/ AcquireNow(c) \/ AcquireLater(c) \/ OnAbort(c)
             \/ Release(c) \/ ReleaseAgain(c)
      PROVE  SchedulerInv'
  BY <1>2, AcquireNowStep, AcquireLaterStep, OnAbortStep, ReleaseStep, ReleaseAgainStep
<1>3. ASSUME NEW k \in Keys, Abort(k)
      PROVE  SchedulerInv'
  BY <1>3, AbortStep
<1>4. CASE DrainReject \/ DrainGrant \/ DrainDone
  BY <1>4, DrainRejectStep, DrainGrantStep, DrainDoneStep
<1> QED
  BY <1>1, <1>2, <1>3, <1>4 DEF SchedulerNext

THEOREM SchedulerInvariance == SchedulerSpec => []SchedulerInv
BY InitSchedulerInv, NextSchedulerInv, PTL DEF SchedulerSpec

\* The scheduler's variables keep their types.
THEOREM SchedulerTypes == SchedulerSpec => []SchedulerTypeOK
BY SchedulerInvariance, PTL DEF SchedulerInv

\* The permit counter of workConservingScheduler.ts is the number of unreleased
\* leases and never passes the capacity, however calls, aborts and repeated
\* releases interleave.
THEOREM PermitAccounting == SchedulerSpec => []PermitsExact
BY SchedulerInvariance, PTL DEF SchedulerInv

\* No waiter is left in the queue beside an idle permit.
THEOREM WorkConservation == SchedulerSpec => []WorkConserving
BY SchedulerInvariance, PTL DEF SchedulerInv

\* The counter, the leases and the queue agree after every step, for any number of
\* callers, keys and permits.
THEOREM OrderKept == SchedulerSpec => []PermitsInOrder
BY SchedulerTypes, PermitAccounting, WorkConservation, PTL DEF PermitsInOrder

-------------------------------------------------------------------------------
\* The scheduler implements the permit pool: each action is a pool action of
\* the same caller, or moves nothing the pool sees.

\* A step that keeps the leases is a stuttering step of the pool.
LEMMA PoolStutter ==
  ASSUME lease' = lease
  PROVE  UNCHANGED Pool!poolVars
BY DEF Queued, Holders, Pool!poolVars

LEMMA FreePermit ==
  ASSUME SchedulerInv
  PROVE  Pool!PermitFree <=> active < Capacity
BY DEF SchedulerInv, PermitsExact, Pool!PermitFree, Pool!Cardinality, Cardinality

LEMMA PoolStep == SchedulerInv /\ [SchedulerNext]_schedulerVars => [Pool!PoolNext]_(Pool!poolVars)
<1> SUFFICES ASSUME SchedulerInv, [SchedulerNext]_schedulerVars
             PROVE  [Pool!PoolNext]_(Pool!poolVars)
  OBVIOUS
<1> USE DEF SchedulerInv
<1>1. CASE UNCHANGED schedulerVars
  BY <1>1, PoolStutter DEF schedulerVars
<1>2. ASSUME NEW c \in Callers, AcquireNow(c)
      PROVE  Pool!Take(c)
  <2>1. Queued = {}
    <3>1. DOMAIN waiters = {}
      BY <1>2 DEF AcquireNow
    <3> QED
      BY <3>1 DEF Queued, QueueExact
  <2>2. Queued' = Queued /\ Holders' = Holders \cup {c}
    BY <1>2, <2>1 DEF AcquireNow, MayAcquire, Queued, Holders, SchedulerTypeOK
  <2>3. c \notin Queued \cup Holders
    BY <1>2 DEF AcquireNow, MayAcquire, Queued, Holders
  <2>4. Pool!PermitFree
    BY <1>2, FreePermit DEF AcquireNow
  <2> QED
    BY <2>1, <2>2, <2>3, <2>4 DEF Pool!Take
<1>3. ASSUME NEW c \in Callers, AcquireLater(c)
      PROVE  Pool!Ask(c)
  <2>1. lease[c] = "none" /\ lease' = [lease EXCEPT ![c] = "queued"]
    BY <1>3 DEF AcquireLater, MayAcquire
  <2>2. Queued' = Queued \cup {c} /\ Holders' = Holders
    BY <2>1 DEF Queued, Holders, SchedulerTypeOK
  <2>3. Queued = {} => waiters = <<>>
    <3>1. ASSUME Queued = {}, waiters # <<>>
          PROVE  FALSE
      <4>1. 1 \in DOMAIN waiters
        BY <3>1, EmptySeq, LenProperties DEF SchedulerTypeOK
      <4>2. waiters[1] \in Callers /\ lease[waiters[1]] = "queued"
        BY <4>1, LenProperties, ElementOfSeq DEF SchedulerTypeOK, QueueExact
      <4> QED
        BY <3>1, <4>2 DEF Queued
    <3> QED
      BY <3>1
  <2>4. ~(Queued = {} /\ Pool!PermitFree)
    BY <1>3, <2>3, FreePermit DEF AcquireLater
  <2> QED
    BY <2>1, <2>2, <2>4 DEF Pool!Ask, Queued, Holders
<1>4. ASSUME NEW c \in Callers, OnAbort(c)
      PROVE  Pool!Withdraw(c)
  <2>1. lease[c] = "queued" /\ lease' = [lease EXCEPT ![c] = "none"]
    BY <1>4 DEF OnAbort
  <2>2. Queued' = Queued \ {c} /\ Holders' = Holders
    BY <2>1 DEF Queued, Holders, SchedulerTypeOK
  <2> QED
    BY <2>1, <2>2 DEF Pool!Withdraw, Queued
<1>5. ASSUME NEW c \in Callers, Release(c)
      PROVE  Pool!GiveBack(c)
  <2>1. lease[c] = "held" /\ lease' = [lease EXCEPT ![c] = "released"]
    BY <1>5 DEF Release
  <2>2. Queued' = Queued /\ Holders' = Holders \ {c}
    BY <2>1 DEF Queued, Holders, SchedulerTypeOK
  <2> QED
    BY <2>1, <2>2 DEF Pool!GiveBack, Holders
<1>6. ASSUME NEW c \in Callers, ReleaseAgain(c)
      PROVE  UNCHANGED Pool!poolVars
  <2>1. lease[c] = "released" /\ lease' = [lease EXCEPT ![c] = "none"]
    BY <1>6 DEF ReleaseAgain
  <2> QED
    BY <2>1 DEF Queued, Holders, SchedulerTypeOK, Pool!poolVars
<1>7. ASSUME NEW k \in Keys, Abort(k)
      PROVE  UNCHANGED Pool!poolVars
  BY <1>7, PoolStutter DEF Abort
<1>8. CASE DrainReject
  <2>1. PICK i \in DOMAIN waiters : lease' = [lease EXCEPT ![waiters[i]] = "none"]
    BY <1>8 DEF DrainReject
  <2>2. waiters[i] \in Callers /\ lease[waiters[i]] = "queued"
    BY LenProperties, ElementOfSeq DEF SchedulerTypeOK, QueueExact
  <2>3. Queued' = Queued \ {waiters[i]} /\ Holders' = Holders
    BY <2>1, <2>2 DEF Queued, Holders, SchedulerTypeOK
  <2>4. Pool!Withdraw(waiters[i])
    BY <2>2, <2>3 DEF Pool!Withdraw, Queued
  <2> QED
    BY <2>2, <2>4 DEF Pool!PoolNext
<1>9. CASE DrainGrant
  <2>1. PICK i \in DOMAIN waiters : lease' = [lease EXCEPT ![waiters[i]] = "held"]
    BY <1>9 DEF DrainGrant
  <2>2. waiters[i] \in Callers /\ lease[waiters[i]] = "queued"
    BY LenProperties, ElementOfSeq DEF SchedulerTypeOK, QueueExact
  <2>3. Queued' = Queued \ {waiters[i]} /\ Holders' = Holders \cup {waiters[i]}
    BY <2>1, <2>2 DEF Queued, Holders, SchedulerTypeOK
  <2>4. Pool!PermitFree
    BY <1>9, FreePermit DEF DrainGrant
  <2>5. Pool!Grant(waiters[i])
    BY <2>2, <2>3, <2>4 DEF Pool!Grant, Queued
  <2> QED
    BY <2>2, <2>5 DEF Pool!PoolNext
<1>10. CASE DrainDone
  BY <1>10, PoolStutter DEF DrainDone
<1> QED
  BY <1>1, <1>2, <1>3, <1>4, <1>5, <1>6, <1>7, <1>8, <1>9, <1>10
     DEF SchedulerNext, Pool!PoolNext

\* Every behaviour of the scheduler is one of the permit pool: callers wait,
\* hold and give back permits as the pool allows, never more than its capacity.
THEOREM PoolImplemented == SchedulerSpec => ImplementsPool
<1>1. SchedulerInit => Pool!PoolInit
  BY DEF SchedulerInit, Pool!PoolInit, Queued, Holders
<1> QED
  BY <1>1, PoolStep, SchedulerInvariance, PTL DEF SchedulerSpec, ImplementsPool, Pool!PoolSpec

-------------------------------------------------------------------------------
(* ProviderAttempt.                                                        *)

\* A host, its commands and its messages come only after the fork, and the exit
\* is seen before the close.
Forked ==
  /\ promise # "pending" <=> sup = "settled"
  /\ sup = "preparing" => host = "none"
  /\ sup = "forked" => host # "none"
  /\ host = "none" =>
       /\ reap = "none" /\ ~group /\ ~escaped /\ turn = "waiting"
       /\ up = <<>> /\ down = <<>> /\ chain = <<>>
  /\ exitSeen => host = "exited" /\ reap # "none"
  /\ closing => exitSeen /\ up = <<>>
  /\ sup = "settled" /\ host # "none" =>
       closing /\ (reap = "failed" \/ (reap = "done" /\ chain = <<>>))

\* The channels and the deliveries hold at most two messages.
One(x) == <<x>>
Two(x, y) == <<x, y>>

\* The host sends one event at a time: what is in the channels fits its turn.
Waiting == {<<>>, One("start"), Two("start", "cancel")}
Asked == {<<>>, One("cancel")}
Acknowledged == {One("ack"), Two("ack", "cancel"), Two("cancel", "ack")}

Channels ==
  /\ turn = "waiting" => up = <<>> /\ chain = <<>> /\ down \in Waiting
  /\ turn = "waiting" /\ host = "up" /\ Alive => down # <<>>
  /\ turn = "running" => up = <<>> /\ chain = <<>> /\ down \in Asked
  /\ turn = "finished" =>
       up \in {<<>>, One("result"), One("error")} /\ chain = <<>> /\ down \in Asked
  /\ turn = "emitting" =>
       \/ up = <<>> /\ chain = <<>> /\ down \in Asked \cup Acknowledged
       \/ (\E e \in EventKinds : up = One(e)) /\ chain = <<>> /\ down \in Asked
       \/ up = <<>> /\ (\E e \in EventKinds : chain = One(e)) /\ down \in Asked
  /\ ~signalled => ~told /\ down \in {<<>>, One("start"), One("ack")}
  /\ parentGone => down = <<>>

\* An append belongs to the event at the head of the deliveries.
First == {One("activity.started"), Two("activity.started", "activity.updated"),
          Two("activity.started", "activity.completed")}
Later == {One("activity.updated"), One("activity.completed")}

Delivery ==
  /\ recording => drafts # <<>>
  /\ drafts # <<>> => chain # <<>>
  /\ drafts \in {<<>>} \cup First \cup Later
  /\ known = "none" => shown = "none" /\ drafts = <<>>
  /\ ~undelivered =>
       /\ known # "none" /\ drafts = <<>> => shown \in {"running", "completed"}
       /\ drafts \in First => shown = "none"
       /\ drafts \in Later => shown \in {"running", "completed"}
  /\ shown # "rejected"
  /\ ~undelivered /\ known = "activity.started" /\ shown \in {"none", "running"} =>
       \/ open
       \/ drafts \in {One("activity.completed"), Two("activity.started", "activity.completed")}
  /\ known = "activity.started" => drafts \notin First \ {One("activity.started")}

\* The attempt listens until its race is over, and a verdict of confirmation
\* rests on a settlement that proves it.
Verdicts ==
  /\ phase = "racing" => accepts
  /\ phase \in {"grace", "hard", "confirming"} => ~accepts
  /\ phase = "done" <=> outcome # "none"
  /\ phase = "done" /\ accepts => promise # "pending"
  /\ cause = "timeout" => ~accepts
  /\ outcome \in {"timedOut", "cancelled"} => ProvesTermination /\ promise # "pending"
  /\ escaped => boundary = "unconfirmed-descendants"

\* A host that was signalled has been told, or is being stopped.
Told ==
  signalled /\ host = "up" /\ Alive =>
    \/ told \/ turn = "finished" \/ reap # "none"
    \/ down \in {One("cancel"), Two("start", "cancel"), Two("ack", "cancel"),
                Two("cancel", "ack")}

IInv == TypeOK /\ Forked /\ Channels /\ Delivery /\ Verdicts /\ Told

\* Sequences of one and two messages: what they are, and what appending to them
\* and taking from them does.
LEMMA Ones ==
  /\ \A x : Append(<<>>, x) = One(x) /\ Tail(One(x)) = <<>> /\ Head(One(x)) = x /\ One(x) # <<>>
  /\ \A x, y : One(x) = One(y) => x = y
  /\ \A S : \A x \in S : One(x) \in Seq(S)
<1> USE DEF One
<1>1. ASSUME NEW x PROVE Append(<<>>, x) = One(x)
  OBVIOUS
<1>2. ASSUME NEW x PROVE Tail(One(x)) = <<>>
  OBVIOUS
<1>3. ASSUME NEW x PROVE Head(One(x)) = x /\ One(x) # <<>>
  OBVIOUS
<1>4. ASSUME NEW x, NEW y, One(x) = One(y) PROVE x = y
  BY <1>4, <1>3
<1>5. ASSUME NEW S, NEW x \in S PROVE One(x) \in Seq(S)
  OBVIOUS
<1> QED
  BY <1>1, <1>2, <1>3, <1>4, <1>5

\* Likewise for two.
LEMMA Twos ==
  /\ \A x, y : /\ Append(One(x), y) = Two(x, y) /\ Tail(Two(x, y)) = One(y)
               /\ Head(Two(x, y)) = x /\ Two(x, y) # <<>>
  /\ \A x, y, u, v : Two(x, y) = Two(u, v) => x = u /\ y = v
  /\ \A x, y, z : One(x) # Two(y, z)
  /\ \A S : \A x, y \in S : Two(x, y) \in Seq(S)
<1> USE DEF One, Two
<1>1. ASSUME NEW x, NEW y PROVE Append(One(x), y) = Two(x, y)
  <2>1. One(x) \in Seq({x, y}) /\ Len(One(x)) = 1
    OBVIOUS
  <2>2. Append(One(x), y) \in Seq({x, y}) /\ Len(Append(One(x), y)) = 2
    BY <2>1
  <2>3. \A i \in 1..2 : Append(One(x), y)[i] = Two(x, y)[i]
    BY <2>1
  <2>4. Two(x, y) \in Seq({x, y}) /\ Len(Two(x, y)) = 2
    OBVIOUS
  <2> QED
    BY <2>2, <2>3, <2>4, SeqEqual
<1>2. ASSUME NEW x, NEW y PROVE Tail(Two(x, y)) = One(y)
  OBVIOUS
<1>3. ASSUME NEW x, NEW y PROVE Head(Two(x, y)) = x /\ Two(x, y) # <<>>
  OBVIOUS
<1>4. ASSUME NEW x, NEW y, NEW u, NEW v, Two(x, y) = Two(u, v) PROVE x = u /\ y = v
  <2>1. Two(x, y)[1] = x /\ Two(x, y)[2] = y /\ Two(u, v)[1] = u /\ Two(u, v)[2] = v
    OBVIOUS
  <2> QED
    BY <1>4, <2>1
<1>5. ASSUME NEW x, NEW y, NEW z PROVE One(x) # Two(y, z)
  <2>1. Len(One(x)) = 1 /\ Len(Two(y, z)) = 2
    OBVIOUS
  <2> QED
    BY <2>1
<1>6. ASSUME NEW S, NEW x \in S, NEW y \in S PROVE Two(x, y) \in Seq(S)
  OBVIOUS
<1> QED
  BY <1>1, <1>2, <1>3, <1>4, <1>5, <1>6

\* The drafts of an event.
LEMMA DraftsOf ==
  ASSUME NEW event \in EventKinds
  PROVE  Drafts(event) = IF event = "activity.started"
                         THEN (IF known = "none" THEN One(event) ELSE <<>>)
                         ELSE IF known = "none" THEN Two("activity.started", event)
                                                ELSE One(event)
BY DEF Drafts, One, Two

\* The signal of an attempt adds a cancel to a channel without one.
LEMMA SignalKept ==
  ASSUME TypeOK, Forked, Channels, Told, Signal, Alive,
         UNCHANGED <<turn, up, chain, told, host, reap, parentGone>>
  PROVE  Channels' /\ Told'
<1> USE DEF Alive
<1>1. signalled'
  BY DEF Signal
<1>2. CASE down' = down /\ signalled
  BY <1>1, <1>2 DEF Channels, Told, Waiting, Asked, Acknowledged
<1>3. CASE down' = down /\ ~signalled
  <2>1. host # "up"
    <3>1. sup = "forked" => down' # down \/ host # "up"
      <4>1. ASSUME sup = "forked", host = "up" PROVE down' = Append(down, "cancel")
        BY <4>1, <1>3 DEF Signal
      <4>2. down \in {<<>>, One("start"), One("ack")}
        BY <1>3 DEF Channels
      <4>3. Append(down, "cancel") # down
        BY <4>2, Ones, Twos
      <4> QED
        BY <4>1, <4>3
    <3>2. sup # "forked" => host # "up"
      BY DEF Forked, TypeOK
    <3> QED
      BY <3>1, <3>2, <1>3
  <2>2. Told'
    BY <2>1 DEF Told
  <2> QED
    BY <2>1, <2>2, <1>1, <1>3 DEF Channels, Waiting, Asked, Acknowledged
<1>4. CASE ~signalled /\ host = "up" /\ down' = Append(down, "cancel")
  <2>1. down \in {<<>>, One("start"), One("ack")}
    BY <1>4 DEF Channels
  <2>2. /\ down = <<>> => down' = One("cancel")
        /\ down = One("start") => down' = Two("start", "cancel")
        /\ down = One("ack") => down' = Two("ack", "cancel")
    <3>1. down = <<>> => down' = One("cancel")
      BY <1>4, Ones
    <3>2. down = One("start") => down' = Two("start", "cancel")
      BY <1>4, Twos
    <3>3. down = One("ack") => down' = Two("ack", "cancel")
      BY <1>4, Twos
    <3> QED
      BY <3>1, <3>2, <3>3
  <2>3. Told'
    BY <2>1, <2>2 DEF Told
  <2>4. turn = "waiting" => down' \in Waiting /\ down' # <<>>
    <3>1. turn = "waiting" => down = One("start")
      BY <1>4, <2>1, Ones, Twos DEF Channels, Waiting
    <3> QED
      BY <3>1, <2>2, Twos DEF Waiting
  <2>5. turn \in {"running", "finished"} => down' \in Asked
    <3>1. turn \in {"running", "finished"} => down = <<>>
      BY <2>1, Ones DEF Channels, Asked
    <3> QED
      BY <3>1, <2>2 DEF Asked
  <2>6. turn = "emitting" =>
          /\ down \in Asked => down' \in Asked
          /\ down \in Acknowledged => down' \in Acknowledged
    <3>1. CASE down = <<>>
      BY <3>1, <2>2, Ones, Twos DEF Asked, Acknowledged
    <3>2. CASE down = One("start")
      <4>1. down \notin Asked
        BY <3>2, Ones DEF Asked
      <4>2. down # One("ack") /\ down # Two("ack", "cancel") /\ down # Two("cancel", "ack")
        <5>1. One("start") # One("ack")
          BY Ones
        <5>2. One("start") # Two("ack", "cancel")
          BY Twos
        <5>3. One("start") # Two("cancel", "ack")
          BY Twos
        <5> QED
          BY <3>2, <5>1, <5>2, <5>3
      <4>3. down \notin Acknowledged
        BY <4>2 DEF Acknowledged
      <4> QED
        BY <4>1, <4>3
    <3>3. CASE down = One("ack")
      <4>1. down \notin Asked
        BY <3>3, Ones DEF Asked
      <4> QED
        BY <4>1, <3>3, <2>2 DEF Acknowledged
    <3> QED
      BY <2>1, <3>1, <3>2, <3>3
  <2> QED
    BY <1>1, <2>3, <2>4, <2>5, <2>6 DEF Channels
<1> QED
  BY <1>2, <1>3, <1>4 DEF Signal

\* The acknowledgement of the event at the head of the deliveries.
LEMMA AcknowledgeKept ==
  ASSUME TypeOK, Channels, Told, Acknowledges, Alive, chain # <<>>, chain' = Tail(chain),
         UNCHANGED <<turn, up, signalled, told, host, reap, parentGone>>
  PROVE  Channels' /\ Told' /\ chain' = <<>>
<1> USE DEF Alive
<1>1. turn = "emitting" /\ up = <<>> /\ (\E e \in EventKinds : chain = One(e)) /\ down \in Asked
  BY DEF Channels, TypeOK
<1>2. chain' = <<>>
  BY <1>1, Ones
<1>3. down' = down \/ (down = <<>> /\ down' = One("ack"))
                   \/ (down = One("cancel") /\ down' = Two("cancel", "ack"))
  <2>1. CASE down = <<>>
    BY <2>1, Ones DEF Acknowledges
  <2>2. CASE down = One("cancel")
    BY <2>2, Twos DEF Acknowledges
  <2> QED
    BY <1>1, <2>1, <2>2 DEF Asked
<1>4. Channels'
  <2>1. down' \in Asked \cup Acknowledged
    BY <1>1, <1>3 DEF Asked, Acknowledged
  <2>2. ~signalled => down' \in {<<>>, One("start"), One("ack")}
    BY <1>1, <1>3, Ones DEF Channels, Asked
  <2> QED
    BY <1>1, <1>2, <2>1, <2>2 DEF Channels
<1>5. Told'
  <2>1. CASE down' = down
    BY <2>1 DEF Told
  <2>2. CASE down = <<>> /\ down' = One("ack")
    <3>1. down \notin {One("cancel"), Two("start", "cancel"), Two("ack", "cancel"),
                      Two("cancel", "ack")}
      BY <2>2, Ones, Twos
    <3> QED
      BY <3>1 DEF Told
  <2>3. CASE down = One("cancel") /\ down' = Two("cancel", "ack")
    BY <2>3 DEF Told
  <2> QED
    BY <1>3, <2>1, <2>2, <2>3
<1> QED
  BY <1>2, <1>4, <1>5

\* The contents of the channel to the host are distinct.
LEMMA Distinct ==
  /\ One("start") \notin {<<>>, One("cancel"), One("ack"), Two("start", "cancel"),
                          Two("ack", "cancel"), Two("cancel", "ack")}
  /\ One("cancel") \notin {<<>>, One("ack"), Two("start", "cancel"), Two("ack", "cancel"),
                           Two("cancel", "ack")}
  /\ One("ack") \notin {<<>>, Two("start", "cancel"), Two("ack", "cancel"), Two("cancel", "ack")}
  /\ Two("start", "cancel") \notin {<<>>, Two("ack", "cancel"), Two("cancel", "ack")}
  /\ Two("ack", "cancel") \notin {<<>>, Two("cancel", "ack")}
  /\ Two("cancel", "ack") # <<>>
<1>1. One("start") # One("cancel") /\ One("start") # One("ack") /\ One("cancel") # One("ack")
  BY Ones
<1>2. /\ Two("start", "cancel") # Two("ack", "cancel")
      /\ Two("start", "cancel") # Two("cancel", "ack")
      /\ Two("ack", "cancel") # Two("cancel", "ack")
  BY Twos
<1>3. \A x : One(x) # <<>>
  BY Ones
<1>4. \A x, y, z : One(x) # Two(y, z)
  BY Twos
<1>5. \A y, z : Two(y, z) # <<>>
  BY Twos
<1> QED
  BY <1>1, <1>2, <1>3, <1>4, <1>5

\* What the channel to the host holds tells the turn.
LEMMA Turns ==
  ASSUME TypeOK, Channels
  PROVE  /\ down \in {<<>>, One("start"), One("cancel"), One("ack"), Two("start", "cancel"),
                      Two("ack", "cancel"), Two("cancel", "ack")}
         /\ down \in {One("start"), Two("start", "cancel")} => turn = "waiting"
         /\ down = One("cancel") => turn # "waiting"
         /\ down \in {One("ack"), Two("ack", "cancel"), Two("cancel", "ack")} =>
              turn = "emitting" /\ up = <<>> /\ chain = <<>>
<1>1. turn \in {"waiting", "running", "emitting", "finished"}
  BY DEF TypeOK
<1>2. CASE turn = "waiting"
  <2>1. down \in Waiting
    BY <1>2 DEF Channels
  <2> QED
    BY <1>2, <2>1, Distinct DEF Waiting
<1>3. CASE turn \in {"running", "finished"}
  <2>1. down \in Asked
    BY <1>3 DEF Channels
  <2> QED
    BY <1>3, <2>1, Distinct DEF Asked
<1>4. CASE turn = "emitting"
  <2>1. down \in Asked \/ (down \in Acknowledged /\ up = <<>> /\ chain = <<>>)
    BY <1>4 DEF Channels
  <2> QED
    BY <1>4, <2>1, Distinct DEF Asked, Acknowledged
<1> QED
  BY <1>1, <1>2, <1>3, <1>4

\* The host takes a message.
LEMMA HostHearsTakes ==
  ASSUME TypeOK, Forked, Channels, Told, HostHears
  PROVE  Channels' /\ Told'
<1>1. /\ host = "up" /\ down # <<>> /\ down' = Tail(down)
      /\ UNCHANGED <<up, chain, signalled, parentGone, host, reap>>
  BY DEF HostHears, vars, given, runtimeVars, endVars, superVars
<1>2. /\ Head(down) = "start" => turn' = "running" /\ UNCHANGED told
      /\ Head(down) = "cancel" => told' /\ UNCHANGED turn
      /\ Head(down) = "ack" => turn' = "running" /\ UNCHANGED told
  BY DEF HostHears
<1>3. CASE down \in {One("start"), One("ack")}
  <2>1. down' = <<>> /\ turn' = "running" /\ UNCHANGED told
    BY <1>1, <1>2, <1>3, Ones
  <2>2. up = <<>> /\ chain = <<>>
    BY <1>3, Turns DEF Channels
  <2>3. Channels'
    BY <1>1, <2>1, <2>2 DEF Channels, Asked
  <2>4. signalled /\ Alive => told \/ turn = "finished" \/ reap # "none"
    BY <1>1, <1>3, Distinct DEF Told
  <2>5. turn # "finished"
    BY <1>3, Turns
  <2>6. Told'
    BY <1>1, <2>1, <2>4, <2>5 DEF Told, Alive
  <2> QED
    BY <2>3, <2>6
<1>4. CASE down = One("cancel")
  <2>1. down' = <<>> /\ told' /\ UNCHANGED turn
    BY <1>1, <1>2, <1>4, Ones
  <2>2. signalled /\ turn # "waiting"
    BY <1>4, Distinct, Turns DEF Channels
  <2>3. Channels'
    BY <1>1, <2>1, <2>2, Distinct DEF Channels, Asked, Acknowledged
  <2> QED
    BY <2>1, <2>3 DEF Told
<1>5. CASE down \in {Two("start", "cancel"), Two("ack", "cancel")}
  <2>1. down' = One("cancel") /\ turn' = "running" /\ UNCHANGED told
    BY <1>1, <1>2, <1>5, Twos
  <2>2. up = <<>> /\ chain = <<>>
    BY <1>5, Turns DEF Channels
  <2>3. signalled /\ ~parentGone
    BY <1>1, <1>5, Distinct DEF Channels
  <2>4. Channels'
    BY <1>1, <2>1, <2>2, <2>3 DEF Channels, Asked
  <2> QED
    BY <2>1, <2>4 DEF Told
<1>6. CASE down = Two("cancel", "ack")
  <2>1. down' = One("ack") /\ told' /\ UNCHANGED turn
    BY <1>1, <1>2, <1>6, Twos
  <2>2. signalled /\ ~parentGone /\ turn = "emitting" /\ up = <<>> /\ chain = <<>>
    BY <1>1, <1>6, Distinct, Turns DEF Channels
  <2>3. Channels'
    BY <1>1, <2>1, <2>2 DEF Channels, Acknowledged
  <2> QED
    BY <2>1, <2>3 DEF Told
<1> QED
  BY <1>1, <1>3, <1>4, <1>5, <1>6, Turns

\* A message of the host leaves the channel.
LEMMA HearsOne ==
  ASSUME TypeOK, Channels, Hears
  PROVE  Channels'
<1>1. /\ up # <<>> /\ up' = Tail(up)
      /\ Head(up) \in EventKinds => chain' = Append(chain, Head(up))
      /\ Head(up) \notin EventKinds => UNCHANGED chain
      /\ UNCHANGED <<turn, down, signalled, told, host, parentGone>>
  BY DEF Hears, given, runtimeVars, endVars, hostVars
<1>2. turn \in {"emitting", "finished"}
  BY <1>1 DEF Channels, TypeOK
<1>3. CASE turn = "finished"
  <2>1. up \in {One("result"), One("error")} /\ chain = <<>> /\ down \in Asked
    BY <1>1, <1>3 DEF Channels
  <2>2. up' = <<>> /\ Head(up) \in {"result", "error"}
    BY <1>1, <2>1, Ones
  <2>3. chain' = <<>>
    BY <1>1, <2>1, <2>2 DEF EventKinds
  <2> QED
    BY <1>1, <1>3, <2>1, <2>2, <2>3 DEF Channels, Alive
<1>4. CASE turn = "emitting"
  <2>1. (\E e \in EventKinds : up = One(e)) /\ chain = <<>> /\ down \in Asked
    BY <1>1, <1>4 DEF Channels
  <2>2. PICK e \in EventKinds : up = One(e)
    BY <2>1
  <2>3. up' = <<>> /\ chain' = One(e)
    BY <1>1, <2>1, <2>2, Ones
  <2> QED
    BY <1>1, <1>4, <2>1, <2>2, <2>3 DEF Channels
<1> QED
  BY <1>2, <1>3, <1>4

\* So are the drafts of an event.
LEMMA DraftsDistinct ==
  /\ One("activity.started") \notin
       {<<>>, Two("activity.started", "activity.updated"),
        Two("activity.started", "activity.completed")} \cup Later
  /\ One("activity.updated") \notin {<<>>, One("activity.completed")} \cup First
  /\ One("activity.completed") \notin {<<>>} \cup First
  /\ Two("activity.started", "activity.updated") \notin
       {<<>>, Two("activity.started", "activity.completed")} \cup Later
  /\ Two("activity.started", "activity.completed") \notin {<<>>} \cup Later
<1> USE DEF First, Later
<1>1. /\ One("activity.started") # One("activity.updated")
      /\ One("activity.started") # One("activity.completed")
      /\ One("activity.updated") # One("activity.completed")
  BY Ones
<1>2. Two("activity.started", "activity.updated") # Two("activity.started", "activity.completed")
  BY Twos
<1>3. \A x : One(x) # <<>>
  BY Ones
<1>4. \A x, y, z : One(x) # Two(y, z)
  BY Twos
<1>5. \A y, z : Two(y, z) # <<>>
  BY Twos
<1> QED
  BY <1>1, <1>2, <1>3, <1>4, <1>5

\* An append that succeeds leaves a log the reducer accepts.
LEMMA AppendKept ==
  ASSUME TypeOK, Delivery, recording, ~undelivered, shown' = Reduced(Head(drafts)),
         drafts' = Tail(drafts), recording' = FALSE, UNCHANGED <<known, open, undelivered>>,
         drafts' # <<>> => UNCHANGED chain
  PROVE  Delivery'
<1>1. drafts \in First \cup Later /\ known # "none" /\ chain # <<>>
  BY DEF Delivery
<1>2. ~undelivered'
  OBVIOUS
<1>3. CASE drafts = One("activity.started")
  <2>1. drafts' = <<>> /\ Head(drafts) = "activity.started"
    BY <1>3, Ones
  <2>2. shown = "none"
    BY <1>3 DEF Delivery, First
  <2>3. shown' = "running"
    BY <2>1, <2>2 DEF Reduced
  <2>4. known = "activity.started" => open
    BY <1>3, <2>2, DraftsDistinct DEF Delivery, Later, First
  <2>5. drafts' \notin First \cup Later
    BY <2>1, DraftsDistinct DEF First, Later
  <2> QED
    BY <1>1, <1>2, <2>1, <2>3, <2>4, <2>5 DEF Delivery
<1>4. CASE drafts \in First /\ drafts # One("activity.started")
  <2>1. PICK event \in {"activity.updated", "activity.completed"} :
          drafts = Two("activity.started", event)
    BY <1>4 DEF First
  <2>2. drafts' = One(event) /\ Head(drafts) = "activity.started" /\ drafts' # <<>>
    <3>1. drafts' = One(event) /\ Head(drafts) = "activity.started"
      BY <2>1, Twos
    <3> QED
      BY <3>1, Ones
  <2>3. shown = "none" /\ known # "activity.started"
    BY <1>4 DEF Delivery
  <2>4. shown' = "running"
    BY <2>2, <2>3 DEF Reduced
  <2>5. drafts' \in Later /\ drafts' \notin First
    BY <2>1, <2>2, DraftsDistinct DEF Later
  <2> QED
    BY <1>1, <1>2, <2>2, <2>3, <2>4, <2>5 DEF Delivery
<1>5. CASE drafts \in Later
  <2>1. PICK event \in {"activity.updated", "activity.completed"} : drafts = One(event)
    BY <1>5 DEF Later
  <2>2. drafts' = <<>> /\ Head(drafts) = event
    BY <2>1, Ones
  <2>3. shown \in {"running", "completed"}
    BY <1>5 DEF Delivery
  <2>4. shown' = IF event = "activity.updated" THEN shown ELSE "completed"
    BY <2>2, <2>3 DEF Reduced
  <2>5. known = "activity.started" /\ shown = "running" => open \/ event = "activity.completed"
    <3>1. event = "activity.updated" =>
            drafts \notin {One("activity.completed"), Two("activity.started", "activity.completed")}
      BY <2>1, DraftsDistinct DEF First
    <3> QED
      BY <3>1 DEF Delivery
  <2>6. drafts' \notin First \cup Later
    BY <2>2, DraftsDistinct DEF First, Later
  <2> QED
    BY <1>1, <1>2, <2>2, <2>3, <2>4, <2>5, <2>6 DEF Delivery
<1> QED
  BY <1>1, <1>3, <1>4, <1>5

\* The drafts an event becomes are ones the log can take.
LEMMA DeliversDrafts ==
  ASSUME TypeOK, Verdicts, Delivery, Delivers
  PROVE  Delivery'
<1> DEFINE event == Head(chain)
<1>1. /\ chain # <<>> /\ drafts = <<>> /\ accepts /\ Progress(event)
      /\ known' = IF known = "none" THEN event ELSE known
      /\ drafts' = Drafts(event) /\ recording' = (drafts' # <<>>)
      /\ drafts' # <<>> => UNCHANGED chain
      /\ UNCHANGED <<shown, undelivered>>
  BY DEF Delivers
<1>2. event \in EventKinds
  BY <1>1 DEF TypeOK
<1>3. cause # "timeout"
  BY <1>1 DEF Verdicts
<1>4. open' = (event = "activity.started" \/ (open /\ event # "activity.completed"))
  BY <1>1, <1>3 DEF Progress
<1> HIDE DEF event
<1>5. CASE known = "none"
  <2>1. shown = "none"
    BY <1>5 DEF Delivery
  <2>2. CASE event = "activity.started"
    <3>1. drafts' = One("activity.started") /\ known' = "activity.started" /\ open'
      BY <1>1, <1>2, <1>4, <1>5, <2>2, DraftsOf
    <3>2. drafts' \in First \ Later /\ drafts' # <<>>
      BY <3>1, DraftsDistinct DEF First
    <3> QED
      BY <1>1, <2>1, <3>1, <3>2 DEF Delivery
  <2>3. CASE event # "activity.started"
    <3>1. drafts' = Two("activity.started", event) /\ known' = event
      BY <1>1, <1>2, <1>5, <2>3, DraftsOf
    <3>2. drafts' \in First \ Later /\ drafts' # <<>>
      BY <1>2, <2>3, <3>1, DraftsDistinct DEF First, EventKinds
    <3> QED
      BY <1>1, <1>2, <2>1, <2>3, <3>1, <3>2 DEF Delivery, EventKinds
  <2> QED
    BY <2>2, <2>3
<1>6. CASE known # "none"
  <2>1. known' = known /\ (~undelivered => shown \in {"running", "completed"})
    BY <1>1, <1>6 DEF Delivery
  <2>2. CASE event = "activity.started"
    <3>1. drafts' = <<>> /\ open'
      BY <1>1, <1>2, <1>4, <1>6, <2>2, DraftsOf
    <3>2. drafts' \notin First \cup Later
      BY <3>1, DraftsDistinct DEF First, Later
    <3> QED
      BY <1>1, <1>6, <2>1, <3>1, <3>2 DEF Delivery
  <2>3. CASE event # "activity.started"
    <3>1. drafts' = One(event)
      BY <1>1, <1>2, <1>6, <2>3, DraftsOf
    <3>2. drafts' \in Later \ First /\ drafts' # <<>>
      BY <1>2, <2>3, <3>1, DraftsDistinct DEF Later, EventKinds
    <3>3. event = "activity.updated" /\ open => open'
      BY <1>4
    <3>4. ~undelivered /\ known = "activity.started" /\ shown \in {"none", "running"} => open
      BY <1>1, DraftsDistinct DEF Delivery, First
    <3> QED
      BY <1>1, <1>2, <1>6, <2>1, <2>3, <3>1, <3>2, <3>3, <3>4 DEF Delivery, EventKinds
  <2> QED
    BY <2>2, <2>3
<1> QED
  BY <1>5, <1>6


USE DEF vars, endVars, activityVars, runtimeVars, superVars, hostVars, treeVars, given, Alive,
        EventKinds, ProvesTermination, Waiting, Asked, Acknowledged, First, Later

\* A deadline ends the race while the provider is still running.
LEMMA TimeoutKept == ASSUME IInv, Timeout PROVE IInv'
<1> USE DEF IInv, Timeout, GivesUp, Refuses, Signal
<1>1. TypeOK'
  <2>1. down' \in Seq({"start", "cancel", "ack"})
    <3>1. down \in Seq({"start", "cancel", "ack"})
      BY DEF TypeOK
    <3> QED
      BY <3>1
  <2>2. /\ phase' \in {"racing", "grace", "hard", "confirming", "done"}
        /\ cause' \in {"none", "timeout", "cancellation"}
    BY DEF TypeOK
  <2>3. accepts' \in BOOLEAN /\ signalled' \in BOOLEAN /\ runAborted' \in BOOLEAN
    BY DEF TypeOK
  <2>4. UNCHANGED <<given, activityVars, outcome, superVars, hostVars, treeVars, up, parentGone>>
    OBVIOUS
  <2> HIDE DEF Timeout
  <2> QED
    BY <2>1, <2>2, <2>3, <2>4 DEF TypeOK
<1>2. Forked'
  BY <1>1 DEF TypeOK, Forked
<1>3. Channels'
  <2>1. Signal /\ Alive /\ UNCHANGED <<turn, up, chain, told, host, reap, parentGone>>
    OBVIOUS
  <2> HIDE DEF Timeout, Signal
  <2> QED
    BY <2>1, SignalKept
<1>4. Delivery'
  BY <1>1 DEF TypeOK, Delivery
<1>5. Verdicts'
  BY <1>1 DEF TypeOK, Verdicts
<1>6. Told'
  <2>1. Signal /\ Alive /\ UNCHANGED <<turn, up, chain, told, host, reap, parentGone>>
    OBVIOUS
  <2> HIDE DEF Timeout, Signal
  <2> QED
    BY <2>1, SignalKept
<1> QED
  BY <1>1, <1>2, <1>3, <1>4, <1>5, <1>6 DEF IInv

\* The run's signal ends the race, and reaches a host already forked.
LEMMA RunAbortsKept == ASSUME IInv, RunAborts PROVE IInv'
<1> USE DEF IInv, RunAborts, GivesUp, Refuses, Signal
<1>1. TypeOK'
  <2>1. down' \in Seq({"start", "cancel", "ack"})
    <3>1. down \in Seq({"start", "cancel", "ack"})
      BY DEF TypeOK
    <3> QED
      BY <3>1
  <2>2. /\ phase' \in {"racing", "grace", "hard", "confirming", "done"}
        /\ cause' \in {"none", "timeout", "cancellation"}
    BY DEF TypeOK
  <2>3. accepts' \in BOOLEAN /\ signalled' \in BOOLEAN /\ runAborted' \in BOOLEAN
    BY DEF TypeOK
  <2>4. UNCHANGED <<given, activityVars, outcome, superVars, hostVars, treeVars, up, parentGone>>
    OBVIOUS
  <2> HIDE DEF RunAborts
  <2> QED
    BY <2>1, <2>2, <2>3, <2>4 DEF TypeOK
<1>2. Forked'
  BY <1>1 DEF TypeOK, Forked
<1>3. Channels'
  <2>1. Signal /\ Alive /\ UNCHANGED <<turn, up, chain, told, host, reap, parentGone>>
    OBVIOUS
  <2> HIDE DEF RunAborts, Signal
  <2> QED
    BY <2>1, SignalKept
<1>4. Delivery'
  BY <1>1 DEF TypeOK, Delivery
<1>5. Verdicts'
  BY <1>1 DEF TypeOK, Verdicts
<1>6. Told'
  <2>1. Signal /\ Alive /\ UNCHANGED <<turn, up, chain, told, host, reap, parentGone>>
    OBVIOUS
  <2> HIDE DEF RunAborts, Signal
  <2> QED
    BY <2>1, SignalKept
<1> QED
  BY <1>1, <1>2, <1>3, <1>4, <1>5, <1>6 DEF IInv

\* The attempt takes the verdict of its provider.
LEMMA RaceSettlesKept == ASSUME IInv, RaceSettles PROVE IInv'
<1> USE DEF IInv, RaceSettles
<1>1. TypeOK'
  BY DEF TypeOK
<1>2. Forked'
  BY <1>1 DEF TypeOK, Forked
<1>3. Channels'
  BY <1>1 DEF TypeOK, Channels
<1>4. Delivery'
  BY <1>1 DEF TypeOK, Delivery
<1>5. Verdicts'
  BY <1>1 DEF TypeOK, Verdicts
<1>6. Told'
  BY <1>1 DEF TypeOK, Told
<1> QED
  BY <1>1, <1>2, <1>3, <1>4, <1>5, <1>6 DEF IInv

\* After the grace the hook is called unless the settlement proves termination.
LEMMA GraceEndsKept == ASSUME IInv, GraceEnds PROVE IInv'
<1> USE DEF IInv, GraceEnds, Terminates
<1>1. TypeOK'
  BY DEF TypeOK
<1>2. Forked'
  BY <1>1 DEF TypeOK, Forked
<1>3. Channels'
  BY <1>1 DEF TypeOK, Channels
<1>4. Delivery'
  BY <1>1 DEF TypeOK, Delivery
<1>5. Verdicts'
  BY <1>1 DEF TypeOK, Verdicts
<1>6. Told'
  BY <1>1 DEF TypeOK, Told
<1> QED
  BY <1>1, <1>2, <1>3, <1>4, <1>5, <1>6 DEF IInv

\* After the hard graces the attempt is judged.
LEMMA HardEndsKept == ASSUME IInv, HardEnds PROVE IInv'
<1> USE DEF IInv, HardEnds
<1>1. TypeOK'
  BY DEF TypeOK
<1>2. Forked'
  BY <1>1 DEF TypeOK, Forked
<1>3. Channels'
  BY <1>1 DEF TypeOK, Channels
<1>4. Delivery'
  BY <1>1 DEF TypeOK, Delivery
<1>5. Verdicts'
  BY <1>1 DEF TypeOK, Verdicts
<1>6. Told'
  BY <1>1 DEF TypeOK, Told
<1> QED
  BY <1>1, <1>2, <1>3, <1>4, <1>5, <1>6 DEF IInv

\* A verdict of confirmation needs a settlement.
LEMMA ConfirmsKept == ASSUME IInv, Confirms PROVE IInv'
<1> USE DEF IInv, Confirms, Confirmed
<1>1. TypeOK'
  BY DEF TypeOK
<1>2. Forked'
  BY <1>1 DEF TypeOK, Forked
<1>3. Channels'
  BY <1>1 DEF TypeOK, Channels
<1>4. Delivery'
  BY <1>1 DEF TypeOK, Delivery
<1>5. Verdicts'
  BY <1>1 DEF TypeOK, Verdicts
<1>6. Told'
  BY <1>1 DEF TypeOK, Told
<1> QED
  BY <1>1, <1>2, <1>3, <1>4, <1>5, <1>6 DEF IInv

\* No host is forked for an attempt that was signalled.
LEMMA PreparesKept == ASSUME IInv, Prepares PROVE IInv'
<1> USE DEF IInv, Prepares, Forkable
<1>1. TypeOK'
  <2>1. sup' \in {"preparing", "forked", "settled"} /\ promise' \in {"pending", "fulfilled", "rejected"}
    BY DEF TypeOK
  <2>2. host' \in {"none", "up", "exited"}
    BY DEF TypeOK
  <2>3. down' \in Seq({"start", "cancel", "ack"})
    <3>1. <<"start">> \in Seq({"start", "cancel", "ack"})
      OBVIOUS
    <3>2. down \in Seq({"start", "cancel", "ack"})
      BY DEF TypeOK
    <3> QED
      BY <3>1, <3>2
  <2>4. UNCHANGED <<given, runtimeVars, terminal, chain, recording, undelivered, reap, exitSeen,
                    closing, turn, told, emitted, treeVars, up, parentGone>>
    OBVIOUS
  <2> HIDE DEF Prepares
  <2> QED
    BY <2>1, <2>2, <2>3, <2>4 DEF TypeOK
<1>2. Forked'
  BY <1>1 DEF TypeOK, Forked
<1>3. Channels'
  <2>1. UNCHANGED <<turn, up, chain, signalled, told, parentGone>> /\ Alive /\ host = "none"
    BY DEF Forked
  <2>2. CASE sup' = "forked" /\ down' = One("start") /\ ~signalled
    <3>1. turn = "waiting" /\ down' # <<>>
      BY <2>2, Ones DEF Forked
    <3> QED
      BY <2>1, <2>2, <3>1 DEF Channels
  <2>3. CASE UNCHANGED <<host, down>>
    BY <2>1, <2>3 DEF Channels
  <2> QED
    BY <2>2, <2>3 DEF One
<1>4. Delivery'
  BY <1>1 DEF TypeOK, Delivery
<1>5. Verdicts'
  BY <1>1 DEF TypeOK, Verdicts
<1>6. Told'
  BY <1>1 DEF TypeOK, Told
<1> QED
  BY <1>1, <1>2, <1>3, <1>4, <1>5, <1>6 DEF IInv

\* A message leaves the channel for the deliveries.
LEMMA HearsKept == ASSUME IInv, Hears PROVE IInv'
<1> USE DEF IInv, Hears
<1>1. TypeOK'
  <2>1. /\ up' \in Seq(EventKinds \cup {"result", "error"})
        /\ Head(up) \in EventKinds \cup {"result", "error"}
    <3>1. up \in Seq(EventKinds \cup {"result", "error"}) /\ up # <<>>
      BY DEF TypeOK
    <3> QED
      BY <3>1
  <2>2. chain' \in Seq(EventKinds) /\ terminal' \in {"none", "result", "error"}
    <3>1. chain \in Seq(EventKinds) /\ terminal \in {"none", "result", "error"}
      BY DEF TypeOK
    <3>2. CASE Head(up) \in EventKinds
      BY <3>1, <3>2
    <3>3. CASE Head(up) \notin EventKinds
      BY <2>1, <3>1, <3>3
    <3> QED
      BY <3>2, <3>3
  <2>3. UNCHANGED <<given, runtimeVars, sup, promise, recording, undelivered, reap, exitSeen,
                    closing, hostVars, treeVars, down, parentGone>>
    OBVIOUS
  <2> HIDE DEF Hears
  <2> QED
    BY <2>1, <2>2, <2>3 DEF TypeOK
<1>2. Forked'
  BY <1>1 DEF TypeOK, Forked
<1>3. Channels'
  <2> HIDE DEF Hears
  <2> QED
    BY HearsOne
<1>4. Delivery'
  BY <1>1 DEF TypeOK, Delivery
<1>5. Verdicts'
  BY <1>1 DEF TypeOK, Verdicts
<1>6. Told'
  BY <1>1 DEF TypeOK, Told
<1> QED
  BY <1>1, <1>2, <1>3, <1>4, <1>5, <1>6 DEF IInv

\* An event that is dropped is acknowledged.
LEMMA DropsKept == ASSUME IInv, Drops PROVE IInv'
<1> USE DEF IInv, Drops, Acknowledges
<1>1. TypeOK'
  BY DEF TypeOK
<1>2. Forked'
  BY <1>1 DEF TypeOK, Forked
<1>3. Channels'
  <2>1. /\ Acknowledges /\ Alive /\ chain # <<>> /\ chain' = Tail(chain)
        /\ UNCHANGED <<turn, up, signalled, told, host, reap, parentGone>>
    OBVIOUS
  <2> HIDE DEF Drops, Acknowledges
  <2> QED
    BY <2>1, AcknowledgeKept
<1>4. Delivery'
  BY <1>1 DEF TypeOK, Delivery
<1>5. Verdicts'
  BY <1>1 DEF TypeOK, Verdicts
<1>6. Told'
  <2>1. /\ Acknowledges /\ Alive /\ chain # <<>> /\ chain' = Tail(chain)
        /\ UNCHANGED <<turn, up, signalled, told, host, reap, parentGone>>
    OBVIOUS
  <2> HIDE DEF Drops, Acknowledges
  <2> QED
    BY <2>1, AcknowledgeKept
<1> QED
  BY <1>1, <1>2, <1>3, <1>4, <1>5, <1>6 DEF IInv

\* An event becomes the drafts the log can take.
LEMMA DeliversKept == ASSUME IInv, Delivers PROVE IInv'
<1> USE DEF IInv, Delivers, Progress, Acknowledges
<1>1. TypeOK'
  <2>1. known' \in EventKinds \cup {"none"} /\ Head(chain) \in EventKinds
    <3>1. chain \in Seq(EventKinds) /\ chain # <<>> /\ known \in EventKinds \cup {"none"}
      BY DEF TypeOK
    <3>2. Head(chain) \in EventKinds
      BY <3>1
    <3> QED
      BY <3>1, <3>2
  <2>2. drafts' \in Seq(EventKinds)
    <3>1. drafts' = Drafts(Head(chain))
      OBVIOUS
    <3>2. drafts' \in {<<>>, One(Head(chain)), Two("activity.started", Head(chain))}
      <4> HIDE DEF Delivers
      <4> QED
        BY <2>1, <3>1, DraftsOf
    <3>3. One(Head(chain)) \in Seq(EventKinds)
      BY <2>1, Ones
    <3>4. Two("activity.started", Head(chain)) \in Seq(EventKinds)
      BY <2>1, Twos
    <3>5. <<>> \in Seq(EventKinds)
      OBVIOUS
    <3> HIDE DEF Delivers, EventKinds
    <3> QED
      BY <3>2, <3>3, <3>4, <3>5
  <2>3. open' \in BOOLEAN /\ recording' \in BOOLEAN
    BY DEF TypeOK
  <2>4. chain' \in Seq(EventKinds)
    <3>1. chain \in Seq(EventKinds) /\ chain # <<>>
      BY DEF TypeOK
    <3> QED
      BY <3>1
  <2>5. down' \in Seq({"start", "cancel", "ack"})
    <3>1. down \in Seq({"start", "cancel", "ack"})
      BY DEF TypeOK
    <3>2. down' = Append(down, "ack") \/ down' = down
      OBVIOUS
    <3> HIDE DEF Delivers, Acknowledges
    <3> QED
      BY <3>1, <3>2
  <2>6. UNCHANGED <<given, endVars, shown, sup, promise, terminal, undelivered, reap, exitSeen,
                    closing, hostVars, treeVars, up, parentGone>>
    OBVIOUS
  <2> HIDE DEF Delivers
  <2> QED
    BY <2>1, <2>2, <2>3, <2>4, <2>5, <2>6 DEF TypeOK
<1>2. Forked'
  BY <1>1 DEF TypeOK, Forked
<1>3. Channels'
  <2>1. Alive /\ chain # <<>> /\ UNCHANGED <<turn, up, signalled, told, host, reap, parentGone>>
    OBVIOUS
  <2>2. (Acknowledges /\ chain' = Tail(chain)) \/ UNCHANGED <<chain, down>>
    OBVIOUS
  <2> HIDE DEF Delivers, Acknowledges
  <2>3. CASE Acknowledges /\ chain' = Tail(chain)
    BY <2>1, <2>3, AcknowledgeKept
  <2>4. CASE UNCHANGED <<chain, down>>
    BY <2>1, <2>4 DEF Channels
  <2> QED
    BY <2>2, <2>3, <2>4
<1>4. Delivery'
  <2> HIDE DEF Delivers
  <2> QED
    BY DeliversDrafts
<1>5. Verdicts'
  BY <1>1 DEF TypeOK, Verdicts
<1>6. Told'
  <2>1. Alive /\ chain # <<>> /\ UNCHANGED <<turn, up, signalled, told, host, reap, parentGone>>
    OBVIOUS
  <2>2. (Acknowledges /\ chain' = Tail(chain)) \/ UNCHANGED <<chain, down>>
    OBVIOUS
  <2> HIDE DEF Delivers, Acknowledges
  <2>3. CASE Acknowledges /\ chain' = Tail(chain)
    BY <2>1, <2>3, AcknowledgeKept
  <2>4. CASE UNCHANGED <<chain, down>>
    BY <2>1, <2>4 DEF Told
  <2> QED
    BY <2>2, <2>3, <2>4
<1> QED
  BY <1>1, <1>2, <1>3, <1>4, <1>5, <1>6 DEF IInv

\* The second append begins.
LEMMA DeliversOnKept == ASSUME IInv, DeliversOn PROVE IInv'
<1> USE DEF IInv, DeliversOn
<1>1. TypeOK'
  BY DEF TypeOK
<1>2. Forked'
  BY <1>1 DEF TypeOK, Forked
<1>3. Channels'
  BY <1>1 DEF TypeOK, Channels
<1>4. Delivery'
  BY <1>1 DEF TypeOK, Delivery
<1>5. Verdicts'
  BY <1>1 DEF TypeOK, Verdicts
<1>6. Told'
  BY <1>1 DEF TypeOK, Told
<1> QED
  BY <1>1, <1>2, <1>3, <1>4, <1>5, <1>6 DEF IInv

\* The log takes an event, or fails and condemns the host.
LEMMA RecordsKept == ASSUME IInv, Records PROVE IInv'
<1> USE DEF IInv, Records, Acknowledges
<1>1. TypeOK'
  <2>1. shown' \in {"none", "running", "completed", "rejected"}
    BY DEF TypeOK, Reduced
  <2>2. recording' \in BOOLEAN /\ undelivered' \in BOOLEAN
    BY DEF TypeOK
  <2>3. reap' \in {"none", "soft", "hard", "done", "failed"}
    BY DEF TypeOK
  <2>4. drafts' \in Seq(EventKinds) /\ chain' \in Seq(EventKinds)
    <3>1. /\ drafts \in Seq(EventKinds) /\ drafts # <<>>
          /\ chain \in Seq(EventKinds) /\ chain # <<>>
      BY DEF TypeOK, Delivery
    <3>2. Tail(drafts) \in Seq(EventKinds) /\ Tail(chain) \in Seq(EventKinds)
      BY <3>1
    <3>3. drafts' \in {<<>>, Tail(drafts)} /\ chain' \in {chain, Tail(chain)}
      OBVIOUS
    <3>4. <<>> \in Seq(EventKinds)
      OBVIOUS
    <3> HIDE DEF Records, EventKinds
    <3> QED
      BY <3>1, <3>2, <3>3, <3>4
  <2>5. down' \in Seq({"start", "cancel", "ack"})
    <3>1. down \in Seq({"start", "cancel", "ack"})
      BY DEF TypeOK
    <3> QED
      BY <3>1
  <2>6. UNCHANGED <<given, endVars, open, known, sup, promise, terminal, exitSeen, closing,
                    hostVars, treeVars, up, parentGone>>
    OBVIOUS
  <2> HIDE DEF Records
  <2> QED
    BY <2>1, <2>2, <2>3, <2>4, <2>5, <2>6 DEF TypeOK
<1>2. Forked'
  BY <1>1 DEF TypeOK, Forked, Delivery, Channels
<1>3. Channels'
  <2>1. Alive /\ chain # <<>> /\ UNCHANGED <<turn, up, signalled, told, host, parentGone>>
    BY DEF Delivery
  <2>2. \/ Acknowledges /\ chain' = Tail(chain) /\ UNCHANGED reap
        \/ UNCHANGED <<chain, down, reap>>
        \/ chain' = Tail(chain) /\ UNCHANGED down /\ (reap = "none" => reap' # "none")
                                /\ (reap # "none" => UNCHANGED reap)
    OBVIOUS
  <2> HIDE DEF Records, Acknowledges
  <2>3. CASE Acknowledges /\ chain' = Tail(chain) /\ UNCHANGED reap
    BY <2>1, <2>3, AcknowledgeKept
  <2>4. CASE UNCHANGED <<chain, down, reap>>
    BY <2>1, <2>4 DEF Channels
  <2>5. CASE chain' = Tail(chain) /\ UNCHANGED down /\ (reap = "none" => reap' # "none")
                                /\ (reap # "none" => UNCHANGED reap)
    <3>1. turn = "emitting" /\ up = <<>> /\ (\E e \in EventKinds : chain = One(e)) /\ down \in Asked
      BY <2>1 DEF Channels, TypeOK
    <3>2. chain' = <<>>
      BY <2>5, <3>1, Ones
    <3> QED
      BY <2>1, <2>5, <3>1, <3>2 DEF Channels
  <2> QED
    BY <2>2, <2>3, <2>4, <2>5
<1>4. Delivery'
  <2>1. UNCHANGED <<known, open>> /\ recording /\ recording' = FALSE /\ known # "none"
    BY DEF Delivery
  <2>2. CASE ~undelivered /\ shown' = Reduced(Head(drafts)) /\ drafts' = Tail(drafts)
             /\ UNCHANGED undelivered /\ (drafts' # <<>> => UNCHANGED chain)
    <3> HIDE DEF Records, Acknowledges
    <3> QED
      BY <2>1, <2>2, AppendKept
  <2>3. CASE undelivered' = TRUE /\ drafts' = <<>> /\ UNCHANGED shown
    <3>1. drafts' \notin First
      BY <2>3, DraftsDistinct
    <3> QED
      BY <2>1, <2>3, <3>1 DEF Delivery
  <2> QED
    BY <2>2, <2>3
<1>5. Verdicts'
  BY <1>1 DEF TypeOK, Verdicts
<1>6. Told'
  <2>1. Alive /\ chain # <<>> /\ UNCHANGED <<turn, up, signalled, told, host, parentGone>>
    BY DEF Delivery
  <2>2. \/ Acknowledges /\ chain' = Tail(chain) /\ UNCHANGED reap
        \/ UNCHANGED <<chain, down, reap>>
        \/ chain' = Tail(chain) /\ UNCHANGED down /\ (reap = "none" => reap' # "none")
                                /\ (reap # "none" => UNCHANGED reap)
    OBVIOUS
  <2> HIDE DEF Records, Acknowledges
  <2>3. CASE Acknowledges /\ chain' = Tail(chain) /\ UNCHANGED reap
    BY <2>1, <2>3, AcknowledgeKept
  <2>4. CASE UNCHANGED <<chain, down, reap>>
    BY <2>1, <2>4 DEF Told
  <2>5. CASE chain' = Tail(chain) /\ UNCHANGED down /\ (reap = "none" => reap' # "none")
                                /\ (reap # "none" => UNCHANGED reap)
    BY <2>1, <2>5 DEF Told
  <2> QED
    BY <2>2, <2>3, <2>4, <2>5
<1> QED
  BY <1>1, <1>2, <1>3, <1>4, <1>5, <1>6 DEF IInv

\* The exit leaves the group to the reaping.
LEMMA SeesExitKept == ASSUME IInv, SeesExit PROVE IInv'
<1> USE DEF IInv, SeesExit, ExitReaps
<1>1. TypeOK'
  BY DEF TypeOK
<1>2. Forked'
  BY <1>1 DEF TypeOK, Forked
<1>3. Channels'
  BY <1>1 DEF TypeOK, Channels
<1>4. Delivery'
  BY <1>1 DEF TypeOK, Delivery
<1>5. Verdicts'
  BY <1>1 DEF TypeOK, Verdicts
<1>6. Told'
  BY <1>1 DEF TypeOK, Told
<1> QED
  BY <1>1, <1>2, <1>3, <1>4, <1>5, <1>6 DEF IInv

\* The group is signalled, then killed.
LEMMA ReapsKept == ASSUME IInv, Reaps PROVE IInv'
<1> USE DEF IInv, Reaps, GroupEmpty
<1>1. TypeOK'
  <2>1. reap' \in {"none", "soft", "hard", "done", "failed"}
    BY DEF TypeOK
  <2>2. host' \in {"none", "up", "exited"}
    BY DEF TypeOK
  <2>3. group' \in BOOLEAN
    BY DEF TypeOK
  <2>4. UNCHANGED <<given, runtimeVars, sup, promise, terminal, chain, recording, undelivered,
                    exitSeen, closing, turn, told, emitted, escaped, up, down, parentGone>>
    OBVIOUS
  <2> HIDE DEF Reaps
  <2> QED
    BY <2>1, <2>2, <2>3, <2>4 DEF TypeOK
<1>2. Forked'
  BY <1>1 DEF TypeOK, Forked
<1>3. Channels'
  BY <1>1 DEF TypeOK, Channels
<1>4. Delivery'
  BY <1>1 DEF TypeOK, Delivery
<1>5. Verdicts'
  BY <1>1 DEF TypeOK, Verdicts
<1>6. Told'
  BY <1>1 DEF TypeOK, Told
<1> QED
  BY <1>1, <1>2, <1>3, <1>4, <1>5, <1>6 DEF IInv

\* The channel is drained when the close event comes.
LEMMA ClosesKept == ASSUME IInv, Closes PROVE IInv'
<1> USE DEF IInv, Closes
<1>1. TypeOK'
  BY DEF TypeOK
<1>2. Forked'
  BY <1>1 DEF TypeOK, Forked
<1>3. Channels'
  BY <1>1 DEF TypeOK, Channels
<1>4. Delivery'
  BY <1>1 DEF TypeOK, Delivery
<1>5. Verdicts'
  BY <1>1 DEF TypeOK, Verdicts
<1>6. Told'
  BY <1>1 DEF TypeOK, Told
<1> QED
  BY <1>1, <1>2, <1>3, <1>4, <1>5, <1>6 DEF IInv

\* The promise settles behind the reaping and the deliveries.
LEMMA SettlesKept == ASSUME IInv, Settles PROVE IInv'
<1> USE DEF IInv, Settles, Delivered
<1>1. TypeOK'
  BY DEF TypeOK
<1>2. Forked'
  BY <1>1 DEF TypeOK, Forked
<1>3. Channels'
  BY <1>1 DEF TypeOK, Channels
<1>4. Delivery'
  BY <1>1 DEF TypeOK, Delivery
<1>5. Verdicts'
  BY <1>1 DEF TypeOK, Verdicts
<1>6. Told'
  BY <1>1 DEF TypeOK, Told
<1> QED
  BY <1>1, <1>2, <1>3, <1>4, <1>5, <1>6 DEF IInv

\* The host takes one message from its channel.
LEMMA HostHearsKept == ASSUME IInv, HostHears PROVE IInv'
<1> USE DEF IInv, HostHears
<1>1. TypeOK'
  <2>1. down' \in Seq({"start", "cancel", "ack"})
    <3>1. down \in Seq({"start", "cancel", "ack"}) /\ down # <<>>
      BY DEF TypeOK
    <3> QED
      BY <3>1
  <2>2. turn' \in {"waiting", "running", "emitting", "finished"} /\ told' \in BOOLEAN
    BY DEF TypeOK
  <2>3. UNCHANGED <<given, runtimeVars, superVars, host, emitted, treeVars, up, parentGone>>
    OBVIOUS
  <2> HIDE DEF HostHears
  <2> QED
    BY <2>1, <2>2, <2>3 DEF TypeOK
<1>2. Forked'
  BY <1>1 DEF TypeOK, Forked
<1>3. Channels'
  <2> HIDE DEF HostHears
  <2> QED
    BY HostHearsTakes
<1>4. Delivery'
  BY <1>1 DEF TypeOK, Delivery
<1>5. Verdicts'
  BY <1>1 DEF TypeOK, Verdicts
<1>6. Told'
  <2> HIDE DEF HostHears
  <2> QED
    BY HostHearsTakes
<1> QED
  BY <1>1, <1>2, <1>3, <1>4, <1>5, <1>6 DEF IInv

\* The host sends an event when none is on its way.
LEMMA EmitsKept == ASSUME IInv, Emits PROVE IInv'
<1> USE DEF IInv, Emits
<1>1. TypeOK'
  <2>1. turn' \in {"waiting", "running", "emitting", "finished"}
    BY DEF TypeOK
  <2>2. emitted' \in 0..MaxEvents
    BY AttemptAssumption DEF TypeOK
  <2>3. up' \in Seq(EventKinds \cup {"result", "error"})
    <3>1. up \in Seq(EventKinds \cup {"result", "error"})
      BY DEF TypeOK
    <3> QED
      BY <3>1
  <2>4. UNCHANGED <<given, runtimeVars, superVars, host, told, treeVars, down, parentGone>>
    OBVIOUS
  <2> HIDE DEF Emits
  <2> QED
    BY <2>1, <2>2, <2>3, <2>4 DEF TypeOK
<1>2. Forked'
  BY <1>1 DEF TypeOK, Forked
<1>3. Channels'
  BY <1>1, Ones DEF TypeOK, Channels
<1>4. Delivery'
  BY <1>1 DEF TypeOK, Delivery
<1>5. Verdicts'
  BY <1>1 DEF TypeOK, Verdicts
<1>6. Told'
  BY <1>1 DEF TypeOK, Told
<1> QED
  BY <1>1, <1>2, <1>3, <1>4, <1>5, <1>6 DEF IInv

\* The host sends its terminal record last.
LEMMA FinishesKept == ASSUME IInv, Finishes PROVE IInv'
<1> USE DEF IInv, Finishes
<1>1. TypeOK'
  BY DEF TypeOK
<1>2. Forked'
  BY <1>1 DEF TypeOK, Forked
<1>3. Channels'
  BY <1>1, Ones DEF TypeOK, Channels
<1>4. Delivery'
  BY <1>1 DEF TypeOK, Delivery
<1>5. Verdicts'
  BY <1>1 DEF TypeOK, Verdicts
<1>6. Told'
  BY <1>1 DEF TypeOK, Told
<1> QED
  BY <1>1, <1>2, <1>3, <1>4, <1>5, <1>6 DEF IInv

\* The host's exit loses what it was sent.
LEMMA HostExitsKept == ASSUME IInv, HostExits PROVE IInv'
<1> USE DEF IInv, HostExits
<1>1. TypeOK'
  BY DEF TypeOK
<1>2. Forked'
  BY <1>1 DEF TypeOK, Forked
<1>3. Channels'
  BY <1>1 DEF TypeOK, Channels
<1>4. Delivery'
  BY <1>1 DEF TypeOK, Delivery
<1>5. Verdicts'
  BY <1>1 DEF TypeOK, Verdicts
<1>6. Told'
  BY <1>1 DEF TypeOK, Told
<1> QED
  BY <1>1, <1>2, <1>3, <1>4, <1>5, <1>6 DEF IInv

\* Commands leave the group only where nothing contains them.
LEMMA CommandsKept == ASSUME IInv, Commands PROVE IInv'
<1> USE DEF IInv, Commands
<1>1. TypeOK'
  <2>1. group' \in BOOLEAN
    BY DEF TypeOK
  <2>2. escaped' \in BOOLEAN
    BY DEF TypeOK
  <2>3. UNCHANGED <<given, runtimeVars, superVars, hostVars, up, down, parentGone>>
    OBVIOUS
  <2> HIDE DEF Commands
  <2> QED
    BY <2>1, <2>2, <2>3 DEF TypeOK
<1>2. Forked'
  BY <1>1 DEF TypeOK, Forked
<1>3. Channels'
  BY <1>1 DEF TypeOK, Channels
<1>4. Delivery'
  BY <1>1 DEF TypeOK, Delivery
<1>5. Verdicts'
  BY <1>1 DEF TypeOK, Verdicts
<1>6. Told'
  BY <1>1 DEF TypeOK, Told
<1> QED
  BY <1>1, <1>2, <1>3, <1>4, <1>5, <1>6 DEF IInv

\* The death of the runtime empties the channel.
LEMMA ParentDiesKept == ASSUME IInv, ParentDies PROVE IInv'
<1> USE DEF IInv, ParentDies
<1>1. TypeOK'
  BY DEF TypeOK
<1>2. Forked'
  BY <1>1 DEF TypeOK, Forked
<1>3. Channels'
  BY <1>1 DEF TypeOK, Channels
<1>4. Delivery'
  BY <1>1 DEF TypeOK, Delivery
<1>5. Verdicts'
  BY <1>1 DEF TypeOK, Verdicts
<1>6. Told'
  BY <1>1 DEF TypeOK, Told
<1> QED
  BY <1>1, <1>2, <1>3, <1>4, <1>5, <1>6 DEF IInv

\* A host without a parent exits.
LEMMA SelfDestructsKept == ASSUME IInv, SelfDestructs PROVE IInv'
<1> USE DEF IInv, SelfDestructs
<1>1. TypeOK'
  BY DEF TypeOK
<1>2. Forked'
  BY <1>1 DEF TypeOK, Forked
<1>3. Channels'
  BY <1>1 DEF TypeOK, Channels
<1>4. Delivery'
  BY <1>1 DEF TypeOK, Delivery
<1>5. Verdicts'
  BY <1>1 DEF TypeOK, Verdicts
<1>6. Told'
  BY <1>1 DEF TypeOK, Told
<1> QED
  BY <1>1, <1>2, <1>3, <1>4, <1>5, <1>6 DEF IInv

-------------------------------------------------------------------------------
\* An attempt begins with nothing forked and nothing sent.
LEMMA InitIInv == Init => IInv
<1> SUFFICES ASSUME Init PROVE IInv
  OBVIOUS
<1> USE DEF Init
<1>1. TypeOK
  <2>1. /\ <<>> \in Seq(EventKinds) /\ <<>> \in Seq(EventKinds \cup {"result", "error"})
        /\ <<>> \in Seq({"start", "cancel", "ack"}) /\ 0 \in 0..MaxEvents
    BY AttemptAssumption
  <2>2. chain \in Seq(EventKinds) /\ drafts \in Seq(EventKinds)
    BY <2>1
  <2>3. /\ up \in Seq(EventKinds \cup {"result", "error"})
        /\ down \in Seq({"start", "cancel", "ack"}) /\ emitted \in 0..MaxEvents
    BY <2>1
  <2>4. /\ known \in EventKinds \cup {"none"} /\ boundary \in Boundaries /\ inherits \in BOOLEAN
    OBVIOUS
  <2>5. /\ runAborted \in BOOLEAN /\ signalled \in BOOLEAN /\ accepts \in BOOLEAN
        /\ recording \in BOOLEAN /\ undelivered \in BOOLEAN /\ open \in BOOLEAN
        /\ exitSeen \in BOOLEAN /\ closing \in BOOLEAN /\ told \in BOOLEAN
        /\ group \in BOOLEAN /\ escaped \in BOOLEAN /\ parentGone \in BOOLEAN
    OBVIOUS
  <2> QED
    BY <2>2, <2>3, <2>4, <2>5 DEF TypeOK
<1>2. Forked /\ Verdicts /\ Told
  BY AttemptAssumption DEF Forked, Verdicts, Told
<1>3. Channels
  BY DEF Channels
<1>4. Delivery
  <2>1. drafts \notin First /\ drafts \notin Later
    BY DraftsDistinct
  <2> QED
    BY <2>1 DEF Delivery
<1> QED
  BY <1>1, <1>2, <1>3, <1>4 DEF IInv

\* A step that changes no variable keeps the invariant.
LEMMA StutterKept == ASSUME IInv, UNCHANGED vars PROVE IInv'
<1>1. TypeOK'
  BY DEF IInv, TypeOK
<1>2. Forked' /\ Channels'
  BY DEF IInv, Forked, Channels
<1>3. Delivery' /\ Verdicts' /\ Told'
  BY DEF IInv, Delivery, Verdicts, Told
<1> QED
  BY <1>1, <1>2, <1>3 DEF IInv

\* Every step of the runtime, of its supervisor and of the host keeps it.
LEMMA StepIInv == IInv /\ [Next]_vars => IInv'
<1> SUFFICES ASSUME IInv, [Next]_vars PROVE IInv'
  OBVIOUS
<1> HIDE DEF vars
<1>1. CASE UNCHANGED vars
  BY <1>1, StutterKept
<1>2. CASE Runtime
  BY <1>2, TimeoutKept, RunAbortsKept, RaceSettlesKept, GraceEndsKept, HardEndsKept,
     ConfirmsKept DEF Runtime
<1>3. CASE Supervisor
  BY <1>3, PreparesKept, HearsKept, DropsKept, DeliversKept, DeliversOnKept, RecordsKept,
     SeesExitKept, ReapsKept, ClosesKept, SettlesKept DEF Supervisor
<1>4. CASE Host
  BY <1>4, HostHearsKept, EmitsKept, FinishesKept, HostExitsKept, CommandsKept,
     SelfDestructsKept DEF Host
<1>5. CASE ParentDies
  BY <1>5, ParentDiesKept
<1> QED
  BY <1>1, <1>2, <1>3, <1>4, <1>5 DEF Next, Over

\* The inductive invariant holds in every reachable state, whatever the
\* termination boundary and however many events a turn emits.
THEOREM Invariance == Spec => []IInv
BY InitIInv, StepIInv, PTL DEF Spec

\* What is settled is reaped, what is confirmed stopped is stopped, and no host
\* of a signalled attempt runs on untold: processOwnedProviderHost.ts forks
\* behind the signal, reaps the group before it settles, and the runtime confirms
\* only on a settlement.
THEOREM NothingRunsOn == Spec => []HostAccounted
<1>1. ASSUME IInv PROVE HostAccounted
  <2> USE DEF IInv
  <2>1. SettledIsReaped
    BY <1>1 DEF SettledIsReaped, Forked, TypeOK
  <2>2. ConfirmedIsOver
    BY <1>1 DEF ConfirmedIsOver, Forked, Verdicts, TypeOK
  <2>3. NoUntoldHost
    <3>1. ASSUME signalled, host = "up", Alive, ~told, turn # "finished", reap = "none"
          PROVE  \E i \in DOMAIN down : down[i] = "cancel"
      <4>1. down \in {One("cancel"), Two("start", "cancel"), Two("ack", "cancel"),
                      Two("cancel", "ack")}
        BY <1>1, <3>1 DEF Told
      <4>2. \A x : DOMAIN One(x) = 1..1 /\ One(x)[1] = x
        BY DEF One
      <4>3. \A x, y : DOMAIN Two(x, y) = 1..2 /\ Two(x, y)[1] = x /\ Two(x, y)[2] = y
        BY DEF Two
      <4>4. CASE down \in {One("cancel"), Two("cancel", "ack")}
        <5>1. 1 \in DOMAIN down /\ down[1] = "cancel"
          BY <4>2, <4>3, <4>4
        <5> QED
          BY <5>1
      <4>5. CASE down \in {Two("start", "cancel"), Two("ack", "cancel")}
        <5>1. 2 \in DOMAIN down /\ down[2] = "cancel"
          BY <4>3, <4>5
        <5> QED
          BY <5>1
      <4> QED
        BY <4>1, <4>4, <4>5
    <3> QED
      BY <3>1 DEF NoUntoldHost
  <2> QED
    BY <1>1, <2>1, <2>2, <2>3 DEF HostAccounted
<1> QED
  BY Invariance, <1>1, PTL

\* Whatever order a turn reports its activity in, every event the runtime appends
\* is one reduceWorkflowEvent accepts, and the monitor knows the start it logged.
THEOREM LogStaysReadable == Spec => []ActivityFollowed
<1>1. ASSUME IInv PROVE ActivityFollowed
  <2>1. shown # "rejected"
    BY <1>1 DEF IInv, Delivery
  <2>2. ASSUME shown = "running", known = "activity.started", ~undelivered, ~open
        PROVE  drafts # <<>> /\ Head(drafts) = "activity.completed"
    <3>1. drafts \in {One("activity.completed"), Two("activity.started", "activity.completed")}
      BY <1>1, <2>2 DEF IInv, Delivery
    <3>2. drafts # Two("activity.started", "activity.completed")
      BY <1>1, <2>2 DEF IInv, Delivery
    <3> QED
      BY <3>1, <3>2, Ones
  <2> QED
    BY <2>1, <2>2 DEF ActivityFollowed
<1> QED
  BY Invariance, <1>1, PTL

\* An event is handed to the log only while its attempt listens: with an outcome
\* it has settled, behind its deliveries, unless its host could not be killed.
THEOREM NothingLate == Spec => NothingRecordedLate
<1> DEFINE Late == drafts = <<>> /\ drafts' # <<>> => outcome = "none" \/ reap = "failed"
<1>1. ASSUME IInv, Next PROVE Late
  <2>1. SUFFICES ASSUME drafts = <<>>, drafts' # <<>>, outcome # "none" PROVE reap = "failed"
    OBVIOUS
  <2>2. Delivers
    <3>1. CASE Runtime
      BY <2>1, <3>1 DEF Runtime, Timeout, RunAborts, RaceSettles, GraceEnds, HardEnds, Confirms
    <3>2. CASE Host \/ ParentDies \/ Over
      BY <2>1, <3>2 DEF Host, HostHears, Emits, Finishes, HostExits, Commands, SelfDestructs,
                        ParentDies, Over
    <3>3. CASE Prepares \/ Hears \/ Drops \/ DeliversOn \/ SeesExit \/ Reaps \/ Closes \/ Settles
      BY <2>1, <3>3 DEF Prepares, Hears, Drops, DeliversOn, SeesExit, Reaps, Closes, Settles
    <3>4. ~Records
      BY <1>1, <2>1 DEF Records, IInv, Delivery
    <3> QED
      BY <1>1, <3>1, <3>2, <3>3, <3>4 DEF Next, Supervisor
  <2>3. accepts /\ chain # <<>>
    BY <2>2 DEF Delivers
  <2>4. promise # "pending" /\ host # "none"
    BY <1>1, <2>1, <2>3 DEF IInv, Verdicts, Forked
  <2> QED
    BY <1>1, <2>3, <2>4 DEF IInv, Forked
<1>2. IInv /\ [Next]_vars => [Late]_vars
  BY <1>1
<1> QED
  BY Invariance, <1>2, PTL DEF Spec, NothingRecordedLate
===============================================================================
