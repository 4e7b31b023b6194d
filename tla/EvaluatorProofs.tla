---------------------------- MODULE EvaluatorProofs ----------------------------
(***************************************************************************)
(* Safety of one evaluation for any number of calls, timers, messages and   *)
(* heartbeats.                                                             *)
(***************************************************************************)
EXTENDS Evaluator, FiniteSetTheorems, SequenceTheorems, TLAPS

Msgs == Beat \cup Request \cup Plain

\* Everything the worker sent and the parent has yet to handle, oldest first.
stream == tail \o up

IsRequest(m, c) == m.type = "request" /\ m.call = c
IsAnswer(m, c) == m.type = "answer" /\ m.call = c
IsQuiet(m) == m.type = "heartbeat" /\ ~m.pending
IsEnd(m) == m.type \in {"complete", "failed"}

\* What the proof has to know of the stream and of the channel back.
Asked == {c \in Calls : \E i \in DOMAIN stream : IsRequest(stream[i], c)}
AskedOnce ==
  \A i, j \in DOMAIN stream :
    stream[i].type = "request" /\ stream[j] = stream[i] => i = j
HasQuiet == \E i \in DOMAIN stream : IsQuiet(stream[i])
HasExit == \E i \in DOMAIN stream : stream[i].type = "exit"
HasEnd == \E i \in DOMAIN stream : IsEnd(stream[i])
EndHeard == \E i \in DOMAIN tail : IsEnd(tail[i])
Ordered ==
  \A i, j \in DOMAIN stream : i < j =>
    stream[i].type # "exit" /\ (IsEnd(stream[i]) => stream[j].type = "exit")
Answered == {c \in Calls : \E i \in DOMAIN down : IsAnswer(down[i], c)}
AnsweredOnce ==
  \A i, j \in DOMAIN down : down[i].type = "answer" /\ down[j] = down[i] => i = j
HasCancel == \E i \in DOMAIN down : down[i].type = "cancel"

\* The code has control only in a running worker, and leaves nothing behind.
Control ==
  /\ turn => worker = "running"
  /\ worker # "running" => open = {} /\ timers = 0
  /\ worker \in {"starting", "waiting"} => made = {}
  /\ worker = "gone" => down = <<>>
  /\ timers <= timed /\ open \subseteq made /\ tasks = marked
  /\ cancelled \/ HasCancel => aborted

\* A worker's last words are its terminal message and its exit.
LastWords ==
  /\ Ordered
  /\ HasExit => worker = "gone"
  /\ HasEnd => worker \in {"terminal", "gone"}

\* A call is in one place at a time, and the code that made it waits for it.
Placed ==
  /\ AskedOnce /\ AnsweredOnce
  /\ Asked \cap tasks = {} /\ Asked \cap Answered = {} /\ tasks \cap Answered = {}
  /\ Asked \subseteq made /\ tasks \subseteq made /\ Answered \subseteq made
  /\ worker = "running" /\ ~cancelled =>
       Asked \subseteq open /\ tasks \subseteq open /\ Answered \subseteq open

\* A heartbeat without anything pending was sent by code that never runs again.
Dead == ~turn /\ open = {} /\ timers = 0 /\ worker \notin {"starting", "waiting"}

QuietIsDead ==
  idle \/ outcome = "idle" \/ HasQuiet =>
    Dead /\ (~aborted => tasks = {} /\ Asked = {})

\* What was heard of the end is handled before the exit is.
Heard ==
  /\ heard /\ Pending => EndHeard
  /\ outcome = "exit" => ~heard
  /\ writing => tail # <<>>
  /\ writing /\ Comes("complete") => tasks = {}
  /\ outcome = "completed" => worker \in {"terminal", "gone"} /\ tasks = {} /\ Asked = {}

\* A call the code waits for is somewhere.
Carried == Pending => open \subseteq Asked \cup tasks \cup Answered

IInv == TypeOK /\ Control /\ LastWords /\ Placed /\ QuietIsDead /\ Heard /\ Carried

\* The steps of the stream and of the channel back.
StreamStays ==
  /\ Asked' = Asked /\ (AskedOnce => AskedOnce') /\ (Ordered => Ordered')
  /\ (HasQuiet' => HasQuiet) /\ (HasExit' => HasExit) /\ (HasEnd' => HasEnd)

StreamGains(m) ==
  /\ Asked' = Asked \cup {c \in Calls : IsRequest(m, c)}
  /\ AskedOnce /\ (\A c \in Asked : ~IsRequest(m, c)) => AskedOnce'
  /\ Ordered /\ ~HasExit /\ (HasEnd => m.type = "exit") => Ordered'
  /\ HasQuiet' => HasQuiet \/ IsQuiet(m)
  /\ HasExit' => HasExit \/ m.type = "exit"
  /\ HasEnd' => HasEnd \/ IsEnd(m)
  /\ EndHeard => EndHeard'

StreamLoses(m) ==
  /\ AskedOnce => AskedOnce' /\ Asked' = Asked \ {c \in Calls : IsRequest(m, c)}
  /\ Ordered => /\ Ordered'
                /\ IsEnd(m) => Asked' = {}
                /\ m.type = "exit" => ~EndHeard
  /\ \A c \in Calls : IsRequest(m, c) => c \in Asked
  /\ (HasQuiet' \/ IsQuiet(m) => HasQuiet) /\ (HasExit' => HasExit) /\ (HasEnd' => HasEnd)
  /\ EndHeard => EndHeard' \/ IsEnd(m)

BackStays ==
  Answered' = Answered /\ (AnsweredOnce => AnsweredOnce') /\ (HasCancel' => HasCancel)

BackGains(m) ==
  /\ IF worker = "gone" THEN down' = down /\ Answered' = Answered
     ELSE Answered' = Answered \cup {c \in Calls : IsAnswer(m, c)}
  /\ AnsweredOnce /\ (\A c \in Answered : ~IsAnswer(m, c)) => AnsweredOnce'
  /\ HasCancel' => HasCancel \/ m.type = "cancel"

BackLoses(m) ==
  /\ AnsweredOnce => AnsweredOnce' /\ Answered' = Answered \ {c \in Calls : IsAnswer(m, c)}
  /\ \A c \in Calls : IsAnswer(m, c) => c \in Answered
  /\ HasCancel' \/ m.type = "cancel" => HasCancel

BackEmptied == Answered' = {} /\ AnsweredOnce' /\ ~HasCancel'

-------------------------------------------------------------------------------
(* The messages on their way.                                               *)

\* What the messages on their way are made of.
LEMMA Kinds ==
  /\ \A m \in Msgs : m.type = "request" => m.call \in Calls
  /\ \A m \in Msgs : \A c : IsRequest(m, c) <=> m = [type |-> "request", call |-> c]
  /\ \A m \in FromParent : \A c : IsAnswer(m, c) <=> m = [type |-> "answer", call |-> c]
<1> USE DEF Msgs, Beat, Request, Plain, FromParent
<1>1. \A m \in Msgs : m.type = "request" => m.call \in Calls
  OBVIOUS
<1>2. \A m \in Msgs : \A c : IsRequest(m, c) <=> m = [type |-> "request", call |-> c]
  BY DEF IsRequest
<1>3. \A m \in FromParent : \A c : IsAnswer(m, c) <=> m = [type |-> "answer", call |-> c]
  BY DEF IsAnswer
<1> QED
  BY <1>1, <1>2, <1>3

\* The stream is the tail and then the channel.
LEMMA StreamIs ==
  ASSUME TypeOK
  PROVE  /\ stream \in Seq(Msgs) /\ Len(stream) = Len(tail) + Len(up)
         /\ \A i \in DOMAIN tail : i \in DOMAIN stream /\ stream[i] = tail[i]
         /\ \A i \in DOMAIN up : Len(tail) + i \in DOMAIN stream /\ stream[Len(tail) + i] = up[i]
         /\ \A i \in DOMAIN stream : i \in DOMAIN tail \/ i - Len(tail) \in DOMAIN up
<1>1. tail \in Seq(Msgs) /\ up \in Seq(Msgs)
  BY DEF TypeOK, Msgs
<1> QED
  BY <1>1 DEF stream

\* A message is posted.
LEMMA Posted ==
  ASSUME TypeOK, TypeOK', NEW m, up' = Append(up, m), UNCHANGED tail
  PROVE  /\ Len(stream') = Len(stream) + 1 /\ stream'[Len(stream) + 1] = m
         /\ \A i \in 1..Len(stream) : stream'[i] = stream[i]
<1>1. /\ tail \in Seq(Msgs) /\ up \in Seq(Msgs) /\ up' \in Seq(Msgs)
      /\ Len(up') = Len(up) + 1 /\ up'[Len(up) + 1] = m /\ \A i \in 1..Len(up) : up'[i] = up[i]
  BY DEF TypeOK, Msgs
<1> QED
  BY <1>1 DEF stream

\* A message leaves the channel for the tail: the stream stays as it is.
LEMMA Passed ==
  ASSUME TypeOK, TypeOK', up # <<>>, up' = Tail(up), tail' = Append(tail, Head(up))
  PROVE  stream' = stream
<1>1. tail \in Seq(Msgs) /\ up \in Seq(Msgs) /\ tail' \in Seq(Msgs) /\ up' \in Seq(Msgs)
  BY DEF TypeOK, Msgs
<1>2. /\ Len(tail') = Len(tail) + 1 /\ tail'[Len(tail) + 1] = up[1]
      /\ \A i \in 1..Len(tail) : tail'[i] = tail[i]
  BY <1>1
<1>3. Len(up) > 0 /\ Len(up') = Len(up) - 1 /\ \A i \in 1..Len(up') : up'[i] = up[i + 1]
  BY <1>1
<1>4. /\ stream \in Seq(Msgs) /\ Len(stream) = Len(tail) + Len(up)
      /\ \A i \in 1..Len(tail) : stream[i] = tail[i]
      /\ \A i \in 1..Len(up) : stream[Len(tail) + i] = up[i]
  BY <1>1 DEF stream
<1>5. /\ stream' \in Seq(Msgs) /\ Len(stream') = Len(tail') + Len(up')
      /\ \A i \in 1..Len(tail') : stream'[i] = tail'[i]
      /\ \A i \in 1..Len(up') : stream'[Len(tail') + i] = up'[i]
  BY <1>1 DEF stream
<1>6. ASSUME NEW i \in 1..Len(stream) PROVE stream'[i] = stream[i]
  <2>1. CASE i <= Len(tail)
    BY <1>1, <1>2, <1>4, <1>5, <2>1
  <2>2. CASE i = Len(tail) + 1
    <3>1. stream'[i] = tail'[i] /\ tail'[i] = up[1]
      BY <1>1, <1>2, <1>5, <2>2
    <3>2. stream[Len(tail) + 1] = up[1]
      BY <1>1, <1>3, <1>4
    <3> QED
      BY <2>2, <3>1, <3>2
  <2>3. CASE i > Len(tail) + 1
    <3>1. i - (Len(tail) + 1) \in 1..Len(up')
      BY <1>1, <1>3, <1>4, <2>3
    <3> DEFINE j == i - (Len(tail) + 1)
    <3>2. Len(tail') + j = i /\ Len(tail) + (j + 1) = i
      BY <1>1, <1>2
    <3>3. j \in 1..Len(up') /\ j + 1 \in 1..Len(up)
      BY <1>1, <1>3, <3>1
    <3> HIDE DEF j
    <3>4. stream'[Len(tail') + j] = up'[j] /\ up'[j] = up[j + 1]
      BY <1>3, <1>5, <3>3
    <3>5. stream[Len(tail) + (j + 1)] = up[j + 1]
      BY <1>4, <3>3
    <3> QED
      BY <3>2, <3>4, <3>5
  <2> QED
    BY <1>1, <2>1, <2>2, <2>3
<1> QED
  BY <1>1, <1>2, <1>3, <1>4, <1>5, <1>6, SeqEqual

\* The head of the tail is done with.
LEMMA Popped ==
  ASSUME TypeOK, TypeOK', tail # <<>>, tail' = Tail(tail), UNCHANGED up
  PROVE  /\ Len(stream) > 0 /\ Len(stream') = Len(stream) - 1 /\ stream[1] = Head(tail)
         /\ \A i \in 1..Len(stream') : stream'[i] = stream[i + 1]
<1>1. tail \in Seq(Msgs) /\ up \in Seq(Msgs) /\ tail' \in Seq(Msgs)
  BY DEF TypeOK, Msgs
<1>2. Len(tail) > 0 /\ Len(tail') = Len(tail) - 1 /\ \A i \in 1..Len(tail') : tail'[i] = tail[i + 1]
  BY <1>1
<1>3. /\ Len(stream) = Len(tail) + Len(up) /\ stream[1] = Head(tail)
      /\ \A i \in 1..Len(tail) : stream[i] = tail[i]
      /\ \A i \in 1..Len(up) : stream[Len(tail) + i] = up[i]
  BY <1>1, <1>2 DEF stream
<1>4. /\ Len(stream') = Len(tail') + Len(up)
      /\ \A i \in 1..Len(tail') : stream'[i] = tail'[i]
      /\ \A i \in 1..Len(up) : stream'[Len(tail') + i] = up[i]
  BY <1>1 DEF stream
<1>5. ASSUME NEW i \in 1..Len(stream') PROVE stream'[i] = stream[i + 1]
  <2>1. CASE i <= Len(tail')
    BY <1>1, <1>2, <1>3, <1>4, <2>1
  <2>2. CASE i > Len(tail')
    <3> DEFINE j == i - Len(tail')
    <3>1. j \in 1..Len(up)
      BY <1>1, <1>4, <2>2
    <3>2. stream'[Len(tail') + j] = up[j] /\ stream[Len(tail) + j] = up[j]
      BY <1>3, <1>4, <3>1
    <3> QED
      BY <1>1, <1>2, <3>2
  <2> QED
    BY <1>1, <2>1, <2>2
<1> QED
  BY <1>1, <1>2, <1>3, <1>4, <1>5

\* The parent sends a message to the worker.
LEMMA Sent ==
  ASSUME TypeOK, NEW m \in FromParent, Sends(<<m>>)
  PROVE  /\ down' \in Seq(FromParent)
         /\ \/ worker = "gone" /\ down' = down
            \/ /\ worker # "gone" /\ Len(down') = Len(down) + 1 /\ down'[Len(down) + 1] = m
               /\ \A i \in 1..Len(down) : down'[i] = down[i]
<1>1. down \in Seq(FromParent) /\ <<m>> \in Seq(FromParent) /\ Len(<<m>>) = 1 /\ <<m>>[1] = m
  BY DEF TypeOK
<1> QED
  BY <1>1 DEF Sends

\* The worker takes one.
LEMMA Taken ==
  ASSUME TypeOK, down # <<>>, down' = Tail(down)
  PROVE  /\ down' \in Seq(FromParent) /\ Head(down) \in FromParent /\ down[1] = Head(down)
         /\ Len(down) > 0 /\ Len(down') = Len(down) - 1
         /\ \A i \in 1..Len(down') : down'[i] = down[i + 1]
<1>1. down \in Seq(FromParent)
  BY DEF TypeOK
<1> QED
  BY <1>1

\* Nothing moved.
LEMMA Stays ==
  ASSUME UNCHANGED <<up, tail>>
  PROVE  StreamStays /\ (EndHeard => EndHeard')
<1>1. stream' = stream
  BY DEF stream
<1> QED
  BY <1>1 DEF StreamStays, Asked, AskedOnce, Ordered, HasQuiet, HasExit, HasEnd, EndHeard

\* A message moved from the channel to the tail.
LEMMA Moves ==
  ASSUME TypeOK, TypeOK', up # <<>>, up' = Tail(up), tail' = Append(tail, Head(up))
  PROVE  /\ StreamStays /\ (EndHeard \/ IsEnd(Head(up)) => EndHeard')
         /\ tail # <<>> => tail' # <<>> /\ Head(tail') = Head(tail)
<1>1. stream' = stream
  BY Passed
<1>2. /\ Len(tail') = Len(tail) + 1 /\ tail'[Len(tail) + 1] = Head(up) /\ Len(tail) \in Nat
      /\ \A i \in 1..Len(tail) : tail'[i] = tail[i]
      /\ DOMAIN tail' = 1..Len(tail') /\ DOMAIN tail = 1..Len(tail)
  <2>1. tail \in Seq(Msgs) /\ up \in Seq(Msgs)
    BY DEF TypeOK, Msgs
  <2> QED
    BY <2>1
<1>3. EndHeard \/ IsEnd(Head(up)) => EndHeard'
  BY <1>2 DEF EndHeard
<1>4. tail # <<>> => tail' # <<>> /\ Head(tail') = Head(tail)
  <2>1. tail \in Seq(Msgs) /\ up \in Seq(Msgs)
    BY DEF TypeOK, Msgs
  <2> QED
    BY <2>1
<1>5. StreamStays
  BY <1>1 DEF StreamStays, Asked, AskedOnce, Ordered, HasQuiet, HasExit, HasEnd
<1> QED
  BY <1>3, <1>4, <1>5

\* A message is added to the stream.
LEMMA Gains ==
  ASSUME TypeOK, TypeOK', NEW m, up' = Append(up, m), UNCHANGED tail
  PROVE  StreamGains(m)
<1> DEFINE n == Len(stream)
<1>1. /\ n \in Nat /\ DOMAIN stream = 1..n /\ DOMAIN stream' = 1..(n + 1)
      /\ stream'[n + 1] = m /\ \A i \in 1..n : stream'[i] = stream[i]
  <2>1. stream \in Seq(Msgs) /\ stream' \in Seq(Msgs)
    BY DEF TypeOK, stream, Msgs
  <2> QED
    BY <2>1, Posted
<1> HIDE DEF n
<1>2. \A i \in DOMAIN stream' : i = n + 1 \/ i \in DOMAIN stream
  BY <1>1
<1>3. \A i \in DOMAIN stream : i \in DOMAIN stream' /\ stream'[i] = stream[i] /\ i < n + 1
  BY <1>1
<1>4. n + 1 \in DOMAIN stream' /\ n + 1 \notin DOMAIN stream
  BY <1>1
<1>5. Asked' = Asked \cup {c \in Calls : IsRequest(m, c)}
  BY <1>1, <1>2, <1>3, <1>4 DEF Asked
<1>6. ASSUME AskedOnce, \A c \in Asked : ~IsRequest(m, c) PROVE AskedOnce'
  <2> SUFFICES ASSUME NEW i \in DOMAIN stream', NEW j \in DOMAIN stream',
                      stream'[i].type = "request", stream'[j] = stream'[i]
               PROVE  i = j
    BY DEF AskedOnce
  <2>1. ASSUME NEW k \in DOMAIN stream, stream[k].type = "request" PROVE stream[k] # m
    <3>1. stream[k] \in Msgs
      BY <1>1, StreamIs
    <3>2. stream[k].call \in Asked
      BY <2>1, <3>1, Kinds DEF Asked, IsRequest
    <3> QED
      BY <1>6, <2>1, <3>2 DEF IsRequest
  <2> QED
    BY <1>1, <1>2, <1>3, <1>6, <2>1 DEF AskedOnce
<1>7. ASSUME Ordered, ~HasExit, HasEnd => m.type = "exit" PROVE Ordered'
  <2> SUFFICES ASSUME NEW i \in DOMAIN stream', NEW j \in DOMAIN stream', i < j
               PROVE  stream'[i].type # "exit" /\ (IsEnd(stream'[i]) => stream'[j].type = "exit")
    BY DEF Ordered
  <2>1. i \in DOMAIN stream
    BY <1>1
  <2>2. CASE j \in DOMAIN stream
    BY <1>3, <1>7, <2>1, <2>2 DEF Ordered
  <2>3. CASE j = n + 1
    BY <1>1, <1>3, <1>7, <2>1, <2>3 DEF HasExit, HasEnd
  <2> QED
    BY <1>2, <2>2, <2>3
<1>8. /\ HasQuiet' => HasQuiet \/ IsQuiet(m)
      /\ HasExit' => HasExit \/ m.type = "exit"
      /\ HasEnd' => HasEnd \/ IsEnd(m)
  BY <1>1, <1>2, <1>3 DEF HasQuiet, HasExit, HasEnd
<1>9. EndHeard => EndHeard'
  BY DEF EndHeard
<1> QED
  BY <1>5, <1>6, <1>7, <1>8, <1>9 DEF StreamGains

\* The head of the tail leaves the stream.
LEMMA Loses ==
  ASSUME TypeOK, TypeOK', tail # <<>>, tail' = Tail(tail), UNCHANGED up
  PROVE  StreamLoses(Head(tail))
<1> DEFINE n == Len(stream)
           m == Head(tail)
<1>1. /\ n \in Nat \ {0} /\ DOMAIN stream = 1..n /\ DOMAIN stream' = 1..(n - 1)
      /\ stream[1] = m /\ \A i \in 1..(n - 1) : stream'[i] = stream[i + 1]
  <2>1. stream \in Seq(Msgs) /\ stream' \in Seq(Msgs)
    BY DEF TypeOK, stream, Msgs
  <2> QED
    BY <2>1, Popped
<1>2. /\ DOMAIN tail \subseteq DOMAIN stream /\ \A i \in DOMAIN tail : stream[i] = tail[i]
      /\ 1 \in DOMAIN tail /\ tail[1] = m
      /\ \A i \in DOMAIN tail : i # 1 => i - 1 \in DOMAIN tail' /\ tail'[i - 1] = tail[i]
  <2>1. tail \in Seq(Msgs)
    BY DEF TypeOK, Msgs
  <2> QED
    BY <2>1, StreamIs
<1> HIDE DEF n, m
<1>3. \A i \in DOMAIN stream' : i + 1 \in DOMAIN stream /\ stream'[i] = stream[i + 1]
  BY <1>1
<1>4. \A i \in DOMAIN stream : i = 1 \/ (i - 1 \in DOMAIN stream' /\ stream'[i - 1] = stream[i])
  BY <1>1
<1>5. 1 \in DOMAIN stream
  BY <1>1
<1>6. AskedOnce => AskedOnce' /\ Asked' = Asked \ {c \in Calls : IsRequest(m, c)}
  <2> SUFFICES ASSUME AskedOnce
               PROVE  AskedOnce' /\ Asked' = Asked \ {c \in Calls : IsRequest(m, c)}
    OBVIOUS
  <2>1. AskedOnce'
    BY <1>1, <1>3 DEF AskedOnce
  <2>2. ASSUME NEW c \in Asked' PROVE c \in Asked /\ ~IsRequest(m, c)
    <3>1. PICK i \in DOMAIN stream' : IsRequest(stream'[i], c)
      BY <2>2 DEF Asked
    <3>2. i + 1 \in DOMAIN stream /\ IsRequest(stream[i + 1], c)
      BY <1>3, <3>1
    <3>3. stream[i + 1] \in Msgs /\ stream[1] \in Msgs
      BY <1>5, <3>2, StreamIs
    <3>4. IsRequest(m, c) => stream[i + 1] = stream[1]
      BY <1>1, <3>2, <3>3, Kinds
    <3>5. IsRequest(m, c) => i + 1 = 1
      BY <1>1, <1>5, <3>2, <3>4 DEF AskedOnce, IsRequest
    <3>6. i + 1 # 1
      BY <1>1, <3>1
    <3> QED
      BY <2>2, <3>2, <3>5, <3>6 DEF Asked
  <2>3. ASSUME NEW c \in Asked, ~IsRequest(m, c) PROVE c \in Asked'
    BY <1>1, <1>4, <2>3 DEF Asked
  <2>4. Asked \subseteq Calls /\ Asked' \subseteq Calls
    BY DEF Asked
  <2> QED
    BY <2>1, <2>2, <2>3, <2>4
<1>7. Ordered => Ordered'
  BY <1>1, <1>3 DEF Ordered
<1>8. Ordered /\ IsEnd(m) => Asked' = {}
  <2> SUFFICES ASSUME Ordered, IsEnd(m), NEW i \in DOMAIN stream' PROVE stream'[i].type = "exit"
    BY DEF Asked, IsRequest
  <2>1. i + 1 \in DOMAIN stream /\ 1 < i + 1 /\ stream'[i] = stream[i + 1]
    BY <1>1, <1>3
  <2> QED
    BY <1>1, <1>5, <2>1 DEF Ordered
<1>9. Ordered /\ m.type = "exit" => ~EndHeard
  <2> SUFFICES ASSUME Ordered, m.type = "exit", NEW i \in DOMAIN tail PROVE ~IsEnd(tail[i])
    BY DEF EndHeard
  <2>1. i = 1
    BY <1>1, <1>2, <1>5 DEF Ordered
  <2> QED
    BY <1>2, <2>1 DEF IsEnd
<1>10. \A c \in Calls : IsRequest(m, c) => c \in Asked
  BY <1>1, <1>5 DEF Asked
<1>11. /\ HasQuiet' \/ IsQuiet(m) => HasQuiet
       /\ HasExit' => HasExit
       /\ HasEnd' => HasEnd
  BY <1>1, <1>3, <1>5 DEF HasQuiet, HasExit, HasEnd
<1>12. EndHeard => EndHeard' \/ IsEnd(m)
  BY <1>2 DEF EndHeard
<1> QED
  BY <1>6, <1>7, <1>8, <1>9, <1>10, <1>11, <1>12 DEF StreamLoses, m

\* The channel back stays as it is.
LEMMA BackKept ==
  ASSUME UNCHANGED down
  PROVE  BackStays
BY DEF BackStays, Answered, AnsweredOnce, HasCancel

\* A message is sent back.
LEMMA BackGained ==
  ASSUME TypeOK, NEW m \in FromParent, Sends(<<m>>)
  PROVE  BackGains(m)
<1>1. CASE worker = "gone"
  <2>1. down' = down
    BY <1>1, Sent
  <2> QED
    BY <1>1, <2>1 DEF BackGains, Answered, AnsweredOnce, HasCancel
<1>2. CASE worker # "gone"
  <2> DEFINE n == Len(down)
  <2>1. /\ n \in Nat /\ DOMAIN down = 1..n /\ DOMAIN down' = 1..(n + 1) /\ down \in Seq(FromParent)
        /\ down'[n + 1] = m /\ \A i \in 1..n : down'[i] = down[i]
    BY <1>2, Sent DEF TypeOK
  <2> HIDE DEF n
  <2>2. /\ \A i \in DOMAIN down' : i = n + 1 \/ i \in DOMAIN down
        /\ \A i \in DOMAIN down : i \in DOMAIN down' /\ down'[i] = down[i]
        /\ n + 1 \in DOMAIN down'
    BY <2>1
  <2>3. Answered' = Answered \cup {c \in Calls : IsAnswer(m, c)}
    BY <2>1, <2>2 DEF Answered
  <2>4. ASSUME AnsweredOnce, \A c \in Answered : ~IsAnswer(m, c) PROVE AnsweredOnce'
    <3>1. ASSUME NEW k \in DOMAIN down, down[k].type = "answer" PROVE down[k] # m
      <4>1. down[k] \in FromParent
        BY <2>1
      <4>2. down[k].call \in Answered
        BY <3>1, <4>1 DEF Answered, IsAnswer, FromParent
      <4> QED
        BY <2>4, <3>1, <4>2 DEF IsAnswer
    <3> QED
      BY <2>1, <2>2, <2>4, <3>1 DEF AnsweredOnce
  <2>5. HasCancel' => HasCancel \/ m.type = "cancel"
    BY <2>1, <2>2 DEF HasCancel
  <2> QED
    BY <1>2, <2>3, <2>4, <2>5 DEF BackGains
<1> QED
  BY <1>1, <1>2

\* The worker takes a message.
LEMMA BackLost ==
  ASSUME TypeOK, down # <<>>, down' = Tail(down)
  PROVE  BackLoses(Head(down))
<1> DEFINE n == Len(down)
           m == Head(down)
<1>1. /\ n \in Nat \ {0} /\ DOMAIN down = 1..n /\ DOMAIN down' = 1..(n - 1)
      /\ down \in Seq(FromParent)
      /\ down[1] = m /\ \A i \in 1..(n - 1) : down'[i] = down[i + 1]
  BY Taken DEF TypeOK
<1> HIDE DEF n, m
<1>2. \A i \in DOMAIN down' : i + 1 \in DOMAIN down /\ down'[i] = down[i + 1]
  BY <1>1
<1>3. \A i \in DOMAIN down : i = 1 \/ (i - 1 \in DOMAIN down' /\ down'[i - 1] = down[i])
  BY <1>1
<1>4. 1 \in DOMAIN down
  BY <1>1
<1>5. AnsweredOnce => AnsweredOnce' /\ Answered' = Answered \ {c \in Calls : IsAnswer(m, c)}
  <2> SUFFICES ASSUME AnsweredOnce
               PROVE  AnsweredOnce' /\ Answered' = Answered \ {c \in Calls : IsAnswer(m, c)}
    OBVIOUS
  <2>1. AnsweredOnce'
    BY <1>1, <1>2 DEF AnsweredOnce
  <2>2. ASSUME NEW c \in Answered' PROVE c \in Answered /\ ~IsAnswer(m, c)
    <3>1. PICK i \in DOMAIN down' : IsAnswer(down'[i], c)
      BY <2>2 DEF Answered
    <3>2. i + 1 \in DOMAIN down /\ IsAnswer(down[i + 1], c)
      BY <1>2, <3>1
    <3>3. down[i + 1] \in FromParent /\ down[1] \in FromParent
      BY <1>1, <1>4, <3>2
    <3>4. IsAnswer(m, c) => down[i + 1] = down[1]
      BY <1>1, <3>2, <3>3, Kinds
    <3>5. IsAnswer(m, c) => i + 1 = 1
      BY <1>1, <1>4, <3>2, <3>4 DEF AnsweredOnce, IsAnswer
    <3>6. i + 1 # 1
      BY <1>1, <3>1
    <3> QED
      BY <2>2, <3>2, <3>5, <3>6 DEF Answered
  <2>3. ASSUME NEW c \in Answered, ~IsAnswer(m, c) PROVE c \in Answered'
    BY <1>1, <1>3, <2>3 DEF Answered
  <2>4. Answered \subseteq Calls /\ Answered' \subseteq Calls
    BY DEF Answered
  <2> QED
    BY <2>1, <2>2, <2>3, <2>4
<1>6. \A c \in Calls : IsAnswer(m, c) => c \in Answered
  BY <1>1, <1>4 DEF Answered
<1>7. HasCancel' \/ m.type = "cancel" => HasCancel
  BY <1>1, <1>2, <1>4 DEF HasCancel
<1> QED
  BY <1>5, <1>6, <1>7 DEF BackLoses, m

\* The channel back is closed.
LEMMA BackClosed ==
  ASSUME down' = <<>>
  PROVE  BackEmptied
BY DEF BackEmptied, Answered, AnsweredOnce, HasCancel

-------------------------------------------------------------------------------
(* Every action keeps the invariant.                                        *)

USE DEF vars, workerVars, codeVars, parentVars, Pending, IsRequest, IsAnswer, IsQuiet, IsEnd,
        Dead, Comes

\* The worker announces itself once.
LEMMA BootsKept == ASSUME IInv, Boots PROVE IInv'
<1> USE DEF IInv, Boots, Posts, Message
<1>1. TypeOK'
  <2>1. worker' \in {"starting", "waiting", "running", "terminal", "gone"}
    OBVIOUS
  <2>2. up' \in Seq(Beat \cup Request \cup Plain)
    <3>1. [type |-> "ready"] \in Beat \cup Request \cup Plain
      BY DEF Beat, Request, Plain
    <3>2. up \in Seq(Beat \cup Request \cup Plain)
      BY DEF TypeOK
    <3> QED
      BY <3>1, <3>2
  <2>3. UNCHANGED <<cancelled, codeVars, down, parentVars>>
    OBVIOUS
  <2> HIDE DEF Boots
  <2> QED
    BY <2>1, <2>2, <2>3 DEF TypeOK
<1>s. StreamGains([type |-> "ready"]) /\ BackStays
  <2>1. up' = Append(up, [type |-> "ready"]) /\ UNCHANGED <<tail, down>>
    OBVIOUS
  <2> HIDE DEF Boots
  <2> QED
    BY <1>1, <2>1, Gains, BackKept
<1>2. Control'
  BY <1>1, <1>s DEF TypeOK, Control, StreamGains, BackStays
<1>3. LastWords'
  BY <1>1, <1>s DEF TypeOK, LastWords, StreamGains, BackStays
<1>4. Placed'
  BY <1>1, <1>s DEF TypeOK, Placed, StreamGains, BackStays
<1>5. QuietIsDead'
  BY <1>1, <1>s DEF TypeOK, QuietIsDead, StreamGains, BackStays
<1>6. Heard'
  BY <1>1, <1>s DEF TypeOK, Heard, StreamGains, BackStays
<1>7. Carried'
  BY <1>1, <1>s DEF TypeOK, Carried, StreamGains, BackStays
<1> QED
  BY <1>1, <1>2, <1>3, <1>4, <1>5, <1>6, <1>7 DEF IInv

\* A call is posted by the code that will wait for it.
LEMMA CallKept == ASSUME IInv, Call PROVE IInv'
<1> USE DEF IInv, Call, Posts, MayCall
<1>c. PICK c \in Calls \ made :
        /\ made' = made \cup {c} /\ open' = open \cup {c}
        /\ up' = Append(up, [type |-> "request", call |-> c])
  OBVIOUS
<1>1. TypeOK'
  <2>1. made' \subseteq Calls /\ open' \subseteq Calls
    BY <1>c DEF TypeOK
  <2>2. up' \in Seq(Beat \cup Request \cup Plain)
    <3>1. [type |-> "request", call |-> c] \in Beat \cup Request \cup Plain
      BY DEF Beat, Request, Plain
    <3>2. up \in Seq(Beat \cup Request \cup Plain)
      BY DEF TypeOK
    <3> QED
      BY <1>c, <3>1, <3>2
  <2>3. UNCHANGED <<worker, turn, cancelled, timers, timed, logged, down, parentVars>>
    OBVIOUS
  <2> HIDE DEF Call
  <2> QED
    BY <2>1, <2>2, <2>3 DEF TypeOK
<1>s. StreamGains([type |-> "request", call |-> c]) /\ BackStays
  <2>1. up' = Append(up, [type |-> "request", call |-> c]) /\ UNCHANGED <<tail, down>>
    BY <1>c
  <2> HIDE DEF Call
  <2> QED
    BY <1>1, <2>1, Gains, BackKept
<1>2. Control'
  BY <1>1, <1>s, <1>c DEF TypeOK, Control, StreamGains, BackStays
<1>3. LastWords'
  BY <1>1, <1>s, <1>c DEF TypeOK, LastWords, StreamGains, BackStays
<1>4. Placed'
  BY <1>1, <1>s, <1>c DEF TypeOK, Placed, StreamGains, BackStays
<1>5. QuietIsDead'
  BY <1>1, <1>s, <1>c DEF TypeOK, QuietIsDead, StreamGains, BackStays
<1>6. Heard'
  BY <1>1, <1>s, <1>c DEF TypeOK, Heard, StreamGains, BackStays
<1>7. Carried'
  BY <1>1, <1>s, <1>c DEF TypeOK, Carried, StreamGains, BackStays
<1> QED
  BY <1>1, <1>2, <1>3, <1>4, <1>5, <1>6, <1>7 DEF IInv

\* A log message is no request and no last word.
LEMMA LogKept == ASSUME IInv, Log PROVE IInv'
<1> USE DEF IInv, Log, Posts, MayCall, Message
<1>1. TypeOK'
  <2>1. logged' \in 0..MaxLogs
    BY EvaluatorAssumption DEF TypeOK
  <2>2. up' \in Seq(Beat \cup Request \cup Plain)
    <3>1. [type |-> "log"] \in Beat \cup Request \cup Plain
      BY DEF Beat, Request, Plain
    <3>2. up \in Seq(Beat \cup Request \cup Plain)
      BY DEF TypeOK
    <3> QED
      BY <3>1, <3>2
  <2>3. UNCHANGED <<worker, turn, cancelled, open, made, timers, timed, down, parentVars>>
    OBVIOUS
  <2> HIDE DEF Log
  <2> QED
    BY <2>1, <2>2, <2>3 DEF TypeOK
<1>s. StreamGains([type |-> "log"]) /\ BackStays
  <2>1. up' = Append(up, [type |-> "log"]) /\ UNCHANGED <<tail, down>>
    OBVIOUS
  <2> HIDE DEF Log
  <2> QED
    BY <1>1, <2>1, Gains, BackKept
<1>2. Control'
  BY <1>1, <1>s DEF TypeOK, Control, StreamGains, BackStays
<1>3. LastWords'
  BY <1>1, <1>s DEF TypeOK, LastWords, StreamGains, BackStays
<1>4. Placed'
  BY <1>1, <1>s DEF TypeOK, Placed, StreamGains, BackStays
<1>5. QuietIsDead'
  BY <1>1, <1>s DEF TypeOK, QuietIsDead, StreamGains, BackStays
<1>6. Heard'
  BY <1>1, <1>s DEF TypeOK, Heard, StreamGains, BackStays
<1>7. Carried'
  BY <1>1, <1>s DEF TypeOK, Carried, StreamGains, BackStays
<1> QED
  BY <1>1, <1>2, <1>3, <1>4, <1>5, <1>6, <1>7 DEF IInv

\* A timer is set by code that has control.
LEMMA SetTimerKept == ASSUME IInv, SetTimer PROVE IInv'
<1> USE DEF IInv, SetTimer, MayCall
<1>1. TypeOK'
  <2>1. timed' \in 0..MaxTimers /\ timers' \in 0..MaxTimers
    BY EvaluatorAssumption DEF TypeOK, Control
  <2>2. UNCHANGED <<worker, turn, cancelled, open, made, logged, up, down, parentVars>>
    OBVIOUS
  <2> HIDE DEF SetTimer
  <2> QED
    BY <2>1, <2>2 DEF TypeOK
<1>s. StreamStays /\ (EndHeard => EndHeard') /\ BackStays
  BY Stays, BackKept
<1>2. Control'
  BY <1>1, <1>s DEF TypeOK, Control, StreamStays, BackStays
<1>3. LastWords'
  BY <1>1, <1>s DEF TypeOK, LastWords, StreamStays, BackStays
<1>4. Placed'
  BY <1>1, <1>s DEF TypeOK, Placed, StreamStays, BackStays
<1>5. QuietIsDead'
  BY <1>1, <1>s DEF TypeOK, QuietIsDead, StreamStays, BackStays
<1>6. Heard'
  BY <1>1, <1>s DEF TypeOK, Heard, StreamStays, BackStays
<1>7. Carried'
  BY <1>1, <1>s DEF TypeOK, Carried, StreamStays, BackStays
<1> QED
  BY <1>1, <1>2, <1>3, <1>4, <1>5, <1>6, <1>7 DEF IInv

\* The code gives control back.
LEMMA AwaitsKept == ASSUME IInv, Awaits PROVE IInv'
<1> USE DEF IInv, Awaits
<1>1. TypeOK'
  BY DEF TypeOK
<1>s. StreamStays /\ (EndHeard => EndHeard') /\ BackStays
  BY Stays, BackKept
<1>2. Control'
  BY <1>1, <1>s DEF TypeOK, Control, StreamStays, BackStays
<1>3. LastWords'
  BY <1>1, <1>s DEF TypeOK, LastWords, StreamStays, BackStays
<1>4. Placed'
  BY <1>1, <1>s DEF TypeOK, Placed, StreamStays, BackStays
<1>5. QuietIsDead'
  BY <1>1, <1>s DEF TypeOK, QuietIsDead, StreamStays, BackStays
<1>6. Heard'
  BY <1>1, <1>s DEF TypeOK, Heard, StreamStays, BackStays
<1>7. Carried'
  BY <1>1, <1>s DEF TypeOK, Carried, StreamStays, BackStays
<1> QED
  BY <1>1, <1>2, <1>3, <1>4, <1>5, <1>6, <1>7 DEF IInv

\* The terminal message is the last the code causes.
LEMMA FinishKept == ASSUME IInv, Finish PROVE IInv'
<1> USE DEF IInv, Finish, Posts, Message
<1>c. PICK t \in {"complete", "failed"} : up' = Append(up, [type |-> t])
  OBVIOUS
<1>1. TypeOK'
  <2>1. worker' = "terminal" /\ turn' \in BOOLEAN /\ open' \subseteq Calls
    OBVIOUS
  <2>2. timers' \in 0..MaxTimers
    BY EvaluatorAssumption
  <2>3. up' \in Seq(Beat \cup Request \cup Plain)
    <3>1. [type |-> t] \in Beat \cup Request \cup Plain
      BY DEF Beat, Request, Plain
    <3>2. up \in Seq(Beat \cup Request \cup Plain)
      BY DEF TypeOK
    <3> QED
      BY <1>c, <3>1, <3>2
  <2>4. UNCHANGED <<cancelled, made, timed, logged, down, parentVars>>
    OBVIOUS
  <2> HIDE DEF Finish
  <2> QED
    BY <2>1, <2>2, <2>3, <2>4 DEF TypeOK
<1>s. StreamGains([type |-> t]) /\ BackStays
  <2>1. up' = Append(up, [type |-> t]) /\ UNCHANGED <<tail, down>>
    BY <1>c
  <2> HIDE DEF Finish
  <2> QED
    BY <1>1, <2>1, Gains, BackKept
<1>2. Control'
  BY <1>1, <1>s, <1>c DEF TypeOK, Control, StreamGains, BackStays
<1>3. LastWords'
  BY <1>1, <1>s, <1>c DEF TypeOK, LastWords, StreamGains, BackStays
<1>4. Placed'
  BY <1>1, <1>s, <1>c DEF TypeOK, Placed, StreamGains, BackStays
<1>5. QuietIsDead'
  BY <1>1, <1>s, <1>c DEF TypeOK, QuietIsDead, StreamGains, BackStays
<1>6. Heard'
  BY <1>1, <1>s, <1>c DEF TypeOK, Heard, StreamGains, BackStays
<1>7. Carried'
  BY <1>1, <1>s, <1>c DEF TypeOK, Carried, StreamGains, BackStays
<1> QED
  BY <1>1, <1>2, <1>3, <1>4, <1>5, <1>6, <1>7 DEF IInv

\* A timer gives control back to code that had one.
LEMMA TimerFiresKept == ASSUME IInv, TimerFires PROVE IInv'
<1> USE DEF IInv, TimerFires
<1>1. TypeOK'
  <2>1. timers' \in 0..MaxTimers
    BY EvaluatorAssumption DEF TypeOK
  <2>2. turn' \in BOOLEAN
    OBVIOUS
  <2>3. UNCHANGED <<worker, cancelled, open, made, timed, logged, up, down, parentVars>>
    OBVIOUS
  <2> HIDE DEF TimerFires
  <2> QED
    BY <2>1, <2>2, <2>3 DEF TypeOK
<1>s. StreamStays /\ (EndHeard => EndHeard') /\ BackStays
  BY Stays, BackKept
<1>2. Control'
  BY <1>1, <1>s DEF TypeOK, Control, StreamStays, BackStays
<1>3. LastWords'
  BY <1>1, <1>s DEF TypeOK, LastWords, StreamStays, BackStays
<1>4. Placed'
  BY <1>1, <1>s DEF TypeOK, Placed, StreamStays, BackStays
<1>5. QuietIsDead'
  BY <1>1, <1>s DEF TypeOK, QuietIsDead, StreamStays, BackStays
<1>6. Heard'
  BY <1>1, <1>s DEF TypeOK, Heard, StreamStays, BackStays
<1>7. Carried'
  BY <1>1, <1>s DEF TypeOK, Carried, StreamStays, BackStays
<1> QED
  BY <1>1, <1>2, <1>3, <1>4, <1>5, <1>6, <1>7 DEF IInv

\* A heartbeat tells the truth of the moment it is sent.
LEMMA HeartbeatKept == ASSUME IInv, Heartbeat PROVE IInv'
<1> USE DEF IInv, Heartbeat, Posts, Occupied
<1>1. TypeOK'
  <2>1. up' \in Seq(Beat \cup Request \cup Plain)
    <3>1. [type |-> "heartbeat", pending |-> Occupied] \in Beat \cup Request \cup Plain
      BY DEF Beat, Request, Plain
    <3>2. up \in Seq(Beat \cup Request \cup Plain)
      BY DEF TypeOK
    <3> QED
      BY <3>1, <3>2
  <2>2. UNCHANGED <<workerVars, down, parentVars>>
    OBVIOUS
  <2> HIDE DEF Heartbeat
  <2> QED
    BY <2>1, <2>2 DEF TypeOK
<1>s. StreamGains([type |-> "heartbeat", pending |-> Occupied]) /\ BackStays
  <2>1. up' = Append(up, [type |-> "heartbeat", pending |-> Occupied]) /\ UNCHANGED <<tail, down>>
    OBVIOUS
  <2> HIDE DEF Heartbeat
  <2> QED
    BY <1>1, <2>1, Gains, BackKept
<1>2. Control'
  BY <1>1, <1>s DEF TypeOK, Control, StreamGains, BackStays
<1>3. LastWords'
  BY <1>1, <1>s DEF TypeOK, LastWords, StreamGains, BackStays
<1>4. Placed'
  BY <1>1, <1>s DEF TypeOK, Placed, StreamGains, BackStays
<1>5. QuietIsDead'
  <2>1. IsQuiet([type |-> "heartbeat", pending |-> Occupied]) => open = {} /\ timers = 0
    <3>1. timers \in Nat
      BY DEF TypeOK
    <3>2. IsQuiet([type |-> "heartbeat", pending |-> Occupied]) => ~Occupied
      <4> HIDE DEF Occupied
      <4> QED
        OBVIOUS
    <3>3. ~Occupied => open = {} /\ timers = 0
      BY <3>1
    <3> QED
      BY <3>2, <3>3
  <2>2. ~aborted => Asked \subseteq open /\ tasks \subseteq open
    BY DEF Control, Placed
  <2>3. /\ Asked' = Asked
        /\ HasQuiet' => HasQuiet \/ IsQuiet([type |-> "heartbeat", pending |-> Occupied])
    BY <1>s DEF StreamGains
  <2> QED
    BY <2>1, <2>2, <2>3 DEF QuietIsDead
<1>6. Heard'
  BY <1>1, <1>s DEF TypeOK, Heard, StreamGains, BackStays
<1>7. Carried'
  BY <1>1, <1>s DEF TypeOK, Carried, StreamGains, BackStays
<1> QED
  BY <1>1, <1>2, <1>3, <1>4, <1>5, <1>6, <1>7 DEF IInv

\* What the worker receives settles or drops what it waits for.
LEMMA ReceiveKept == ASSUME IInv, Receive PROVE IInv'
<1> USE DEF IInv, Receive
<1>1. TypeOK'
  <2>1. worker' \in {"starting", "waiting", "running", "terminal", "gone"}
    BY DEF TypeOK
  <2>2. turn' \in BOOLEAN
    BY DEF TypeOK
  <2>3. cancelled' \in BOOLEAN
    BY DEF TypeOK
  <2>4. open' \subseteq Calls
    BY DEF TypeOK
  <2>5. timers' \in 0..MaxTimers
    BY EvaluatorAssumption DEF TypeOK
  <2>6. down' \in Seq(FromParent)
    BY Taken
  <2>7. UNCHANGED <<made, timed, logged, up, parentVars>>
    OBVIOUS
  <2> HIDE DEF Receive
  <2> QED
    BY <2>1, <2>2, <2>3, <2>4, <2>5, <2>6, <2>7 DEF TypeOK
<1>s. StreamStays /\ (EndHeard => EndHeard') /\ BackLoses(Head(down)) /\ Head(down) \in FromParent
  BY <1>1, Stays, BackLost, Taken
<1>2. Control'
  BY <1>1, <1>s DEF TypeOK, Control, StreamStays, BackLoses
<1>3. LastWords'
  BY <1>1, <1>s DEF TypeOK, LastWords, StreamStays, BackLoses
<1>4. Placed'
  BY <1>1, <1>s DEF TypeOK, Placed, StreamStays, BackLoses, Control, LastWords
<1>5. QuietIsDead'
  BY <1>1, <1>s DEF TypeOK, QuietIsDead, StreamStays, BackLoses
<1>6. Heard'
  BY <1>1, <1>s DEF TypeOK, Heard, StreamStays, BackLoses
<1>7. Carried'
  BY <1>1, <1>s DEF TypeOK, Carried, StreamStays, BackLoses, Control, LastWords, Placed
<1> QED
  BY <1>1, <1>2, <1>3, <1>4, <1>5, <1>6, <1>7 DEF IInv

\* The exit is the last message of a worker.
LEMMA ExitKept == ASSUME IInv, Exit PROVE IInv'
<1> USE DEF IInv, Exit, Posts, Leaves, Message
<1>1. TypeOK'
  <2>1. worker' = "gone" /\ turn' = FALSE /\ open' = {}  /\ down' \in Seq(FromParent)
    OBVIOUS
  <2>2. timers' \in 0..MaxTimers
    BY EvaluatorAssumption
  <2>3. up' \in Seq(Beat \cup Request \cup Plain)
    <3>1. [type |-> "exit"] \in Beat \cup Request \cup Plain
      BY DEF Beat, Request, Plain
    <3>2. up \in Seq(Beat \cup Request \cup Plain)
      BY DEF TypeOK
    <3> QED
      BY <3>1, <3>2
  <2>4. UNCHANGED <<cancelled, made, timed, logged, parentVars>>
    OBVIOUS
  <2> HIDE DEF Exit
  <2> QED
    BY <2>1, <2>2, <2>3, <2>4 DEF TypeOK
<1>s. StreamGains([type |-> "exit"]) /\ BackEmptied
  BY <1>1, Gains, BackClosed
<1>2. Control'
  BY <1>1, <1>s DEF TypeOK, Control, StreamGains, BackEmptied
<1>3. LastWords'
  BY <1>1, <1>s DEF TypeOK, LastWords, StreamGains, BackEmptied
<1>4. Placed'
  BY <1>1, <1>s DEF TypeOK, Placed, StreamGains, BackEmptied
<1>5. QuietIsDead'
  BY <1>1, <1>s DEF TypeOK, QuietIsDead, StreamGains, BackEmptied
<1>6. Heard'
  BY <1>1, <1>s DEF TypeOK, Heard, StreamGains, BackEmptied
<1>7. Carried'
  BY <1>1, <1>s DEF TypeOK, Carried, StreamGains, BackEmptied
<1> QED
  BY <1>1, <1>2, <1>3, <1>4, <1>5, <1>6, <1>7 DEF IInv

\* A message moves on and ends an idle spell.
LEMMA HearsKept == ASSUME IInv, Hears PROVE IInv'
<1> USE DEF IInv, Hears, KeepsIdle
<1>1. TypeOK'
  <2>1. up' \in Seq(Beat \cup Request \cup Plain) /\ tail' \in Seq(Beat \cup Request \cup Plain)
    <3>1. /\ up \in Seq(Beat \cup Request \cup Plain) /\ up # <<>>
          /\ tail \in Seq(Beat \cup Request \cup Plain)
      BY DEF TypeOK
    <3>2. Head(up) \in Beat \cup Request \cup Plain
      BY <3>1
    <3> QED
      BY <3>1, <3>2
  <2>2. idle' \in BOOLEAN /\ heard' \in BOOLEAN
    BY DEF TypeOK
  <2>3. UNCHANGED <<workerVars, down, writing, ready, marked, tasks, aborted, outcome>>
    OBVIOUS
  <2> HIDE DEF Hears
  <2> QED
    BY <2>1, <2>2, <2>3 DEF TypeOK
<1>s. /\ StreamStays /\ (EndHeard \/ IsEnd(Head(up)) => EndHeard') /\ BackStays
      /\ tail # <<>> => tail' # <<>> /\ Head(tail') = Head(tail)
  BY <1>1, Moves, BackKept
<1>2. Control'
  BY <1>1, <1>s DEF TypeOK, Control, StreamStays, BackStays
<1>3. LastWords'
  BY <1>1, <1>s DEF TypeOK, LastWords, StreamStays, BackStays
<1>4. Placed'
  BY <1>1, <1>s DEF TypeOK, Placed, StreamStays, BackStays
<1>5. QuietIsDead'
  BY <1>1, <1>s DEF TypeOK, QuietIsDead, StreamStays, BackStays
<1>6. Heard'
  BY <1>1, <1>s DEF TypeOK, Heard, StreamStays, BackStays
<1>7. Carried'
  BY <1>1, <1>s DEF TypeOK, Carried, StreamStays, BackStays
<1> QED
  BY <1>1, <1>2, <1>3, <1>4, <1>5, <1>6, <1>7 DEF IInv

\* The head of the tail is handled or begins to be.
LEMMA HandleKept == ASSUME IInv, Handle PROVE IInv'
<1> USE DEF IInv, Handle, Comes, Message, Settles
<1>1. TypeOK'
  <2>1. tail' \in Seq(Beat \cup Request \cup Plain)
    <3>1. tail \in Seq(Beat \cup Request \cup Plain)
      BY DEF TypeOK
    <3> QED
      BY <3>1
  <2>2. outcome' \in {"none", "completed", "failed", "detached", "unlogged",
                      "startup", "heartbeat", "idle", "exit"}
    BY DEF TypeOK
  <2>3. writing' \in BOOLEAN /\ ready' \in BOOLEAN
    BY DEF TypeOK
  <2>4. idle' \in BOOLEAN
    BY DEF TypeOK
  <2>5. down' \in Seq(FromParent)
    <3>1. [type |-> "start"] \in FromParent
      BY DEF FromParent
    <3>2. down \in Seq(FromParent)
      BY DEF TypeOK
    <3>3. Sends(<<[type |-> "start"]>>) => down' \in Seq(FromParent)
      BY <3>1, Sent
    <3> QED
      BY <3>2, <3>3
  <2>6. UNCHANGED <<workerVars, up, marked, tasks, aborted, heard>>
    OBVIOUS
  <2> HIDE DEF Handle
  <2> QED
    BY <2>1, <2>2, <2>3, <2>4, <2>5, <2>6 DEF TypeOK
<1>s. \/ Comes("log") /\ StreamStays /\ (EndHeard => EndHeard') /\ BackStays
      \/ Comes("heartbeat") /\ StreamLoses(Head(tail)) /\ BackStays
      \/ Comes("failed") /\ StreamLoses(Head(tail)) /\ BackStays
      \/ Comes("ready") /\ StreamLoses(Head(tail)) /\ BackGains([type |-> "start"])
  <2>1. [type |-> "start"] \in FromParent
    BY DEF FromParent
  <2> QED
    BY <1>1, <2>1, Loses, Stays, BackKept, BackGained
<1>2. Control'
  BY <1>1, <1>s DEF TypeOK, Control, StreamLoses, StreamStays, BackStays, BackGains
<1>3. LastWords'
  BY <1>1, <1>s DEF TypeOK, LastWords, StreamLoses, StreamStays, BackStays, BackGains
<1>4. Placed'
  BY <1>1, <1>s DEF TypeOK, Placed, StreamLoses, StreamStays, BackStays, BackGains
<1>5. QuietIsDead'
  BY <1>1, <1>s
     DEF TypeOK, QuietIsDead, StreamLoses, StreamStays, BackStays, BackGains, Control,
         LastWords, Placed
<1>6. Heard'
  BY <1>1, <1>s
     DEF TypeOK, Heard, StreamLoses, StreamStays, BackStays, BackGains, Control, LastWords, Placed
<1>7. Carried'
  BY <1>1, <1>s
     DEF TypeOK, Carried, StreamLoses, StreamStays, BackStays, BackGains, Control, LastWords, Placed
<1> QED
  BY <1>1, <1>2, <1>3, <1>4, <1>5, <1>6, <1>7 DEF IInv

\* The exit is handled behind everything else.
LEMMA ExitsKept == ASSUME IInv, Exits PROVE IInv'
<1> USE DEF IInv, Exits, TailDrained, Comes, Settles
<1>1. TypeOK'
  <2>1. tail' \in Seq(Beat \cup Request \cup Plain)
    <3>1. tail \in Seq(Beat \cup Request \cup Plain)
      BY DEF TypeOK
    <3> QED
      BY <3>1
  <2>2. outcome' \in {"none", "completed", "failed", "detached", "unlogged",
                      "startup", "heartbeat", "idle", "exit"}
    BY DEF TypeOK
  <2>3. UNCHANGED <<workerVars, up, down, writing, ready, idle, marked, tasks, aborted, heard>>
    OBVIOUS
  <2> HIDE DEF Exits
  <2> QED
    BY <2>1, <2>2, <2>3 DEF TypeOK
<1>s. StreamLoses(Head(tail)) /\ BackStays
  BY <1>1, Loses, BackKept
<1>2. Control'
  BY <1>1, <1>s DEF TypeOK, Control, StreamLoses, BackStays
<1>3. LastWords'
  BY <1>1, <1>s DEF TypeOK, LastWords, StreamLoses, BackStays
<1>4. Placed'
  BY <1>1, <1>s DEF TypeOK, Placed, StreamLoses, BackStays
<1>5. QuietIsDead'
  BY <1>1, <1>s DEF TypeOK, QuietIsDead, StreamLoses, BackStays, Control, LastWords, Placed
<1>6. Heard'
  BY <1>1, <1>s DEF TypeOK, Heard, StreamLoses, BackStays, Control, LastWords, Placed
<1>7. Carried'
  BY <1>1, <1>s DEF TypeOK, Carried, StreamLoses, BackStays
<1> QED
  BY <1>1, <1>2, <1>3, <1>4, <1>5, <1>6, <1>7 DEF IInv

\* A request becomes a task or an answer.
LEMMA HandleRequestKept == ASSUME IInv, HandleRequest PROVE IInv'
<1> USE DEF IInv, HandleRequest, Comes, Refuse, Answer
<1> DEFINE c == Head(tail).call
<1>c. tail # <<>> /\ c \in Calls /\ [type |-> "answer", call |-> c] \in FromParent
  <2>1. Head(tail) \in Msgs /\ tail # <<>>
    BY DEF TypeOK, Msgs
  <2>2. c \in Calls
    BY <2>1, Kinds
  <2> QED
    BY <2>1, <2>2 DEF FromParent
<1>d. \/ /\ Sends(<<[type |-> "answer", call |-> c]>>) /\ tail' = Tail(tail)
         /\ UNCHANGED <<writing, marked, tasks>>
      \/ writing' = TRUE /\ UNCHANGED <<down, tail, marked, tasks>>
      \/ /\ marked' = marked \cup {c} /\ tasks' = tasks \cup {c} /\ tail' = Tail(tail)
         /\ UNCHANGED <<down, writing>>
  OBVIOUS
<1>e. /\ {x \in Calls : IsRequest(Head(tail), x)} = {c}
      /\ {x \in Calls : IsAnswer([type |-> "answer", call |-> c], x)} = {c}
  BY <1>c
<1> HIDE DEF c
<1>1. TypeOK'
  <2>1. tail' \in Seq(Beat \cup Request \cup Plain)
    <3>1. tail \in Seq(Beat \cup Request \cup Plain)
      BY DEF TypeOK
    <3>2. Tail(tail) \in Seq(Beat \cup Request \cup Plain)
      BY <1>c, <3>1
    <3> QED
      BY <1>d, <3>1, <3>2
  <2>2. tasks' \subseteq Calls /\ marked' \subseteq Calls
    BY <1>c, <1>d DEF TypeOK
  <2>3. writing' \in BOOLEAN
    BY <1>d DEF TypeOK
  <2>4. down' \in Seq(FromParent)
    BY <1>c, <1>d, Sent DEF TypeOK
  <2>5. UNCHANGED <<workerVars, up, ready, idle, aborted, heard, outcome>>
    OBVIOUS
  <2> HIDE DEF HandleRequest
  <2> QED
    BY <2>1, <2>2, <2>3, <2>4, <2>5 DEF TypeOK
<1>s. \/ /\ StreamLoses(Head(tail)) /\ BackGains([type |-> "answer", call |-> c])
         /\ UNCHANGED <<writing, marked, tasks>>
      \/ StreamStays /\ (EndHeard => EndHeard') /\ BackStays /\ UNCHANGED <<tail, marked, tasks>>
      \/ /\ StreamLoses(Head(tail)) /\ BackStays
         /\ marked' = marked \cup {c} /\ tasks' = tasks \cup {c} /\ UNCHANGED writing
  BY <1>1, <1>c, <1>d, Loses, Stays, BackKept, BackGained
<1>t. \/ /\ c \in Asked /\ Asked' = Asked \ {c}
         /\ IF worker = "gone" THEN Answered' = Answered ELSE Answered' = Answered \cup {c}
         /\ UNCHANGED <<marked, tasks>>
      \/ Asked' = Asked /\ Answered' = Answered /\ UNCHANGED <<marked, tasks>>
      \/ /\ c \in Asked /\ Asked' = Asked \ {c} /\ Answered' = Answered
         /\ marked' = marked \cup {c} /\ tasks' = tasks \cup {c}
  <2> HIDE DEF HandleRequest
  <2> QED
    BY <1>c, <1>e, <1>s DEF Placed, StreamLoses, StreamStays, BackStays, BackGains
<1>u. AskedOnce' /\ AnsweredOnce'
  <2>1. \A x \in Answered : x # c \/ c \notin Asked
    BY DEF Placed
  <2> HIDE DEF HandleRequest
  <2> QED
    BY <1>c, <1>e, <1>s, <2>1 DEF Placed, StreamLoses, StreamStays, BackStays, BackGains
<1>2. Control'
  <2> HIDE DEF HandleRequest
  <2>1. UNCHANGED <<turn, worker, open, timers, made, timed, cancelled, aborted>>
    BY DEF HandleRequest
  <2>2. tasks' = marked'
    BY <1>t DEF Control
  <2>3. worker = "gone" => down' = <<>>
    BY <1>d DEF Control, Sends
  <2>4. HasCancel' => HasCancel
    BY <1>s DEF BackGains, BackStays
  <2> QED
    BY <2>1, <2>2, <2>3, <2>4 DEF Control
<1>3. LastWords'
  BY <1>1, <1>s, <1>c, <1>e, <1>t
     DEF TypeOK, LastWords, StreamLoses, StreamStays, BackStays, BackGains
<1>4. Placed'
  <2> HIDE DEF HandleRequest
  <2>1. UNCHANGED <<made, open, worker, cancelled>>
    BY DEF HandleRequest
  <2> QED
    BY <1>c, <1>t, <1>u, <2>1 DEF Placed
<1>5. QuietIsDead'
  BY <1>1, <1>s, <1>c, <1>e, <1>t
     DEF TypeOK, QuietIsDead, StreamLoses, StreamStays, BackStays, BackGains, Control,
         LastWords, Placed
<1>6. Heard'
  BY <1>1, <1>s, <1>c, <1>e, <1>t
     DEF TypeOK, Heard, StreamLoses, StreamStays, BackStays, BackGains, Control, LastWords, Placed
<1>7. Carried'
  <2> HIDE DEF HandleRequest
  <2>1. UNCHANGED <<open, outcome, worker>>
    BY DEF HandleRequest
  <2> QED
    BY <1>t, <2>1 DEF Carried, Control
<1> QED
  BY <1>1, <1>2, <1>3, <1>4, <1>5, <1>6, <1>7 DEF IInv

\* A value is refused while a call is carried out.
LEMMA CompleteKept == ASSUME IInv, Complete PROVE IInv'
<1> USE DEF IInv, Complete, Comes, Detached, Settles
<1>1. TypeOK'
  <2>1. tail' \in Seq(Beat \cup Request \cup Plain)
    <3>1. tail \in Seq(Beat \cup Request \cup Plain)
      BY DEF TypeOK
    <3> QED
      BY <3>1
  <2>2. outcome' \in {"none", "completed", "failed", "detached", "unlogged",
                      "startup", "heartbeat", "idle", "exit"}
    BY DEF TypeOK
  <2>3. writing' \in BOOLEAN
    BY DEF TypeOK
  <2>4. UNCHANGED <<workerVars, up, down, ready, idle, marked, tasks, aborted, heard>>
    OBVIOUS
  <2> HIDE DEF Complete
  <2> QED
    BY <2>1, <2>2, <2>3, <2>4 DEF TypeOK
<1>s. /\ \/ tail' = Tail(tail) /\ StreamLoses(Head(tail))
         \/ UNCHANGED tail /\ StreamStays /\ (EndHeard => EndHeard')
      /\ BackStays
  BY <1>1, Loses, Stays, BackKept
<1>2. Control'
  BY <1>1, <1>s DEF TypeOK, Control, StreamLoses, StreamStays, BackStays
<1>3. LastWords'
  BY <1>1, <1>s DEF TypeOK, LastWords, StreamLoses, StreamStays, BackStays
<1>4. Placed'
  BY <1>1, <1>s DEF TypeOK, Placed, StreamLoses, StreamStays, BackStays
<1>5. QuietIsDead'
  BY <1>1, <1>s
     DEF TypeOK, QuietIsDead, StreamLoses, StreamStays, BackStays, Control, LastWords, Placed
<1>6. Heard'
  BY <1>1, <1>s DEF TypeOK, Heard, StreamLoses, StreamStays, BackStays, Control, LastWords, Placed
<1>7. Carried'
  BY <1>1, <1>s DEF TypeOK, Carried, StreamLoses, StreamStays, BackStays
<1> QED
  BY <1>1, <1>2, <1>3, <1>4, <1>5, <1>6, <1>7 DEF IInv

\* The append the tail waited for has ended.
LEMMA WrittenKept == ASSUME IInv, Written PROVE IInv'
<1> USE DEF IInv, Written, Settles, Refuse, Answer
<1> DEFINE c == Head(tail).call
<1>b. writing /\ writing' = FALSE /\ tail' = Tail(tail) /\ tail # <<>> /\ Head(tail) \in Msgs
  <2>1. tail # <<>>
    BY DEF Heard
  <2> QED
    BY <2>1 DEF TypeOK, Msgs
<1>c. Head(tail).type = "request" => c \in Calls /\ [type |-> "answer", call |-> c] \in FromParent
  BY <1>b, Kinds DEF FromParent
<1>d. \/ Settles("unlogged") /\ UNCHANGED <<down, marked, tasks>>
      \/ Head(tail).type = "log" /\ UNCHANGED <<down, marked, tasks, outcome>>
      \/ /\ Head(tail).type = "complete" /\ Settles("completed")
         /\ UNCHANGED <<down, marked, tasks>>
      \/ /\ Head(tail).type = "request"
         /\ marked' = marked \cup {c} /\ tasks' = tasks \cup {c} /\ UNCHANGED <<down, outcome>>
      \/ /\ Head(tail).type = "request" /\ aborted
         /\ Sends(<<[type |-> "answer", call |-> c]>>) /\ UNCHANGED <<marked, tasks, outcome>>
  OBVIOUS
<1>e. Head(tail).type = "request" => {x \in Calls : IsRequest(Head(tail), x)} = {c}
  BY <1>c
<1> HIDE DEF c
<1>f. c \in Calls => {x \in Calls : IsAnswer([type |-> "answer", call |-> c], x)} = {c}
  OBVIOUS
<1>1. TypeOK'
  <2>1. tail' \in Seq(Beat \cup Request \cup Plain)
    <3>1. tail \in Seq(Beat \cup Request \cup Plain)
      BY DEF TypeOK
    <3> QED
      BY <1>b, <3>1
  <2>2. tasks' \subseteq Calls /\ marked' \subseteq Calls
    BY <1>c, <1>d DEF TypeOK
  <2>3. writing' \in BOOLEAN
    BY <1>b
  <2>4. outcome' \in {"none", "completed", "failed", "detached", "unlogged",
                      "startup", "heartbeat", "idle", "exit"}
    BY <1>d DEF TypeOK
  <2>5. down' \in Seq(FromParent)
    BY <1>c, <1>d, Sent DEF TypeOK
  <2>6. UNCHANGED <<workerVars, up, ready, idle, aborted, heard>>
    OBVIOUS
  <2> HIDE DEF Written
  <2> QED
    BY <2>1, <2>2, <2>3, <2>4, <2>5, <2>6 DEF TypeOK
<1>s. /\ StreamLoses(Head(tail))
      /\ BackStays \/ BackGains([type |-> "answer", call |-> c])
  BY <1>1, <1>b, <1>c, <1>d, Loses, BackKept, BackGained
<1>t. /\ Asked' \subseteq Asked
      /\ \/ /\ \/ Settles("unlogged")
               \/ Head(tail).type = "complete" /\ Settles("completed")
               \/ Head(tail).type = "log" /\ UNCHANGED outcome
            /\ Head(tail).type # "request" => Asked' = Asked
            /\ UNCHANGED <<marked, tasks, down>> /\ Answered' = Answered
         \/ /\ Head(tail).type = "request" /\ c \in Asked /\ Asked' = Asked \ {c}
            /\ UNCHANGED outcome
            /\ \/ /\ marked' = marked \cup {c} /\ tasks' = tasks \cup {c} /\ UNCHANGED down
                  /\ Answered' = Answered
               \/ /\ UNCHANGED <<marked, tasks>>
                  /\ IF worker = "gone" THEN down' = down /\ Answered' = Answered
                     ELSE Answered' = Answered \cup {c}
  <2> HIDE DEF Written
  <2>1. AskedOnce /\ AnsweredOnce
    BY DEF Placed
  <2>0. /\ UNCHANGED down => Answered' = Answered
        /\ Asked' = Asked \ {x \in Calls : IsRequest(Head(tail), x)}
        /\ Head(tail).type # "request" => Asked' = Asked
    <3>1. Asked' = Asked \ {x \in Calls : IsRequest(Head(tail), x)}
      BY <1>s, <2>1 DEF StreamLoses
    <3>2. Head(tail).type # "request" => Asked' = Asked
      BY <3>1
    <3> QED
      BY <3>1, <3>2 DEF Answered
  <2>2. CASE \/ Settles("unlogged") /\ UNCHANGED <<down, marked, tasks>>
             \/ Head(tail).type = "log" /\ UNCHANGED <<down, marked, tasks, outcome>>
             \/ /\ Head(tail).type = "complete" /\ Settles("completed")
                /\ UNCHANGED <<down, marked, tasks>>
    <3> HIDE DEF Settles
    <3> QED
      BY <2>0, <2>2
  <2>4. CASE /\ Head(tail).type = "request"
             /\ marked' = marked \cup {c} /\ tasks' = tasks \cup {c} /\ UNCHANGED <<down, outcome>>
    <3>1. c \in Asked
      BY <1>c, <1>s, <2>4, <1>e DEF StreamLoses
    <3>2. Asked' = Asked \ {c}
      BY <1>e, <2>0, <2>4
    <3> QED
      BY <2>0, <2>4, <3>1, <3>2
  <2>3. CASE Head(tail).type = "request" /\ Sends(<<[type |-> "answer", call |-> c]>>)
             /\ UNCHANGED <<marked, tasks, outcome>>
    <3>1. BackGains([type |-> "answer", call |-> c])
      BY <1>c, <2>3, BackGained
    <3> QED
      BY <1>c, <1>e, <1>f, <1>s, <2>1, <2>3, <3>1 DEF StreamLoses, BackGains
  <2> QED
    BY <1>d, <2>2, <2>3, <2>4
<1>u. AskedOnce' /\ AnsweredOnce'
  <2>1. \A x \in Answered : x # c \/ c \notin Asked
    BY DEF Placed
  <2> HIDE DEF Written
  <2>2. AskedOnce'
    BY <1>s DEF Placed, StreamLoses
  <2>3. CASE UNCHANGED down
    BY <2>2, <2>3, BackKept DEF Placed, BackStays
  <2>4. CASE Head(tail).type = "request" /\ Sends(<<[type |-> "answer", call |-> c]>>)
    <3>1. BackGains([type |-> "answer", call |-> c])
      BY <1>c, <2>4, BackGained
    <3>2. c \in Asked
      BY <1>c, <1>e, <1>f, <1>s, <2>4 DEF StreamLoses
    <3> QED
      BY <1>c, <2>1, <2>2, <3>1, <3>2 DEF Placed, BackGains
  <2> QED
    BY <1>d, <2>2, <2>3, <2>4
<1>2. Control'
  <2> HIDE DEF Written
  <2>1. UNCHANGED <<turn, worker, open, timers, made, timed, cancelled, aborted>>
    BY DEF Written
  <2>2. tasks' = marked'
    BY <1>t DEF Control
  <2>3. worker = "gone" => down' = <<>>
    BY <1>t DEF Control
  <2>4. HasCancel' => HasCancel
    BY <1>s DEF BackGains, BackStays
  <2> QED
    BY <2>1, <2>2, <2>3, <2>4 DEF Control
<1>3. LastWords'
  BY <1>1, <1>b, <1>s, <1>t DEF TypeOK, LastWords, StreamLoses, BackStays, BackGains
<1>4. Placed'
  <2> HIDE DEF Written
  <2>1. UNCHANGED <<made, open, worker, cancelled>>
    BY DEF Written
  <2> QED
    BY <1>c, <1>t, <1>u, <2>1 DEF Placed
<1>5. QuietIsDead'
  BY <1>1, <1>b, <1>s, <1>t
     DEF TypeOK, QuietIsDead, StreamLoses, BackStays, BackGains, Control, LastWords, Placed
<1>6. Heard'
  <2> HIDE DEF Written
  <2>1. UNCHANGED <<heard, worker>> /\ writing' = FALSE
    BY DEF Written
  <2>2. CASE UNCHANGED outcome /\ ~IsEnd(Head(tail))
    <3>1. EndHeard => EndHeard'
      BY <1>s, <2>2 DEF StreamLoses
    <3>2. outcome = "completed" => tasks' = {} /\ Asked' = {}
      BY <1>t, <2>2 DEF Heard
    <3> QED
      BY <2>1, <2>2, <3>1, <3>2 DEF Heard
  <2>3. CASE outcome = "none" /\ outcome' = "unlogged"
    BY <2>1, <2>3 DEF Heard
  <2>4. CASE outcome = "none" /\ outcome' = "completed" /\ Head(tail).type = "complete"
    <3>1. tasks' = {}
      BY <1>b, <1>t, <2>4 DEF Heard
    <3>2. Asked' = {} /\ HasEnd
      <4>1. Asked' = {}
        BY <1>s, <2>4 DEF StreamLoses, LastWords
      <4>2. HasEnd
        <5>1. 1 \in DOMAIN tail /\ tail[1] = Head(tail)
          BY <1>b DEF TypeOK
        <5> QED
          BY <2>4, <5>1, StreamIs DEF HasEnd
      <4> QED
        BY <4>1, <4>2
    <3> QED
      BY <2>1, <2>4, <3>1, <3>2 DEF Heard, LastWords
  <2>5. CASE outcome # "none" /\ UNCHANGED outcome
    <3>1. outcome = "completed" => tasks' = {} /\ Asked' = {}
      BY <1>t, <2>5 DEF Heard
    <3> QED
      BY <2>1, <2>5, <3>1 DEF Heard
  <2> QED
    BY <1>t, <2>1, <2>2, <2>3, <2>4, <2>5 DEF Settles
<1>7. Carried'
  <2> HIDE DEF Written
  <2>1. UNCHANGED <<open, worker>>
    BY DEF Written
  <2>2. CASE UNCHANGED outcome /\ Asked' = Asked /\ Answered' = Answered /\ UNCHANGED tasks
    BY <2>1, <2>2 DEF Carried
  <2>3. CASE outcome' # "none"
    BY <2>3 DEF Carried
  <2>4. CASE /\ UNCHANGED outcome /\ Asked' = Asked \ {c}
             /\ \/ tasks' = tasks \cup {c} /\ Answered' = Answered
                \/ tasks' = tasks /\ Answered' = Answered \cup {c}
    BY <2>1, <2>4 DEF Carried
  <2>5. CASE worker = "gone"
    BY <2>1, <2>5 DEF Carried, Control
  <2> QED
    BY <1>t, <2>1, <2>2, <2>3, <2>4, <2>5 DEF Settles
<1> QED
  BY <1>1, <1>2, <1>3, <1>4, <1>5, <1>6, <1>7 DEF IInv

\* A task that ends is answered.
LEMMA TaskEndsKept == ASSUME IInv, TaskEnds PROVE IInv'
<1> USE DEF IInv, TaskEnds, Answer
<1>c. PICK c \in tasks :
        /\ tasks' = tasks \ {c} /\ marked' = marked \ {c}
        /\ Sends(<<[type |-> "answer", call |-> c]>>)
  OBVIOUS
<1>d. c \in Calls /\ [type |-> "answer", call |-> c] \in FromParent
  BY DEF TypeOK, FromParent
<1>1. TypeOK'
  <2>1. tasks' \subseteq Calls /\ marked' \subseteq Calls
    BY <1>c DEF TypeOK
  <2>2. down' \in Seq(FromParent)
    BY <1>c, <1>d, Sent
  <2>3. UNCHANGED <<workerVars, up, tail, writing, ready, idle, aborted, heard, outcome>>
    OBVIOUS
  <2> HIDE DEF TaskEnds
  <2> QED
    BY <2>1, <2>2, <2>3 DEF TypeOK
<1>s. StreamStays /\ (EndHeard => EndHeard') /\ BackGains([type |-> "answer", call |-> c])
  BY <1>c, <1>d, Stays, BackGained
<1>2. Control'
  BY <1>1, <1>c, <1>d, <1>s DEF TypeOK, Control, StreamStays, BackGains
<1>3. LastWords'
  BY <1>1, <1>c, <1>d, <1>s DEF TypeOK, LastWords, StreamStays, BackGains
<1>4. Placed'
  BY <1>1, <1>c, <1>d, <1>s DEF TypeOK, Placed, StreamStays, BackGains
<1>5. QuietIsDead'
  BY <1>1, <1>c, <1>d, <1>s DEF TypeOK, QuietIsDead, StreamStays, BackGains
<1>6. Heard'
  BY <1>1, <1>c, <1>d, <1>s DEF TypeOK, Heard, StreamStays, BackGains
<1>7. Carried'
  BY <1>1, <1>c, <1>d, <1>s DEF TypeOK, Carried, StreamStays, BackGains, Control, LastWords, Placed
<1> QED
  BY <1>1, <1>2, <1>3, <1>4, <1>5, <1>6, <1>7 DEF IInv

\* Giving up a startup moves nothing.
LEMMA StartupExpiresKept == ASSUME IInv, StartupExpires PROVE IInv'
<1> USE DEF IInv, StartupExpires, Settles
<1>1. TypeOK'
  BY DEF TypeOK
<1>s. StreamStays /\ (EndHeard => EndHeard') /\ BackStays
  BY Stays, BackKept
<1>2. Control'
  BY <1>1, <1>s DEF TypeOK, Control, StreamStays, BackStays
<1>3. LastWords'
  BY <1>1, <1>s DEF TypeOK, LastWords, StreamStays, BackStays
<1>4. Placed'
  BY <1>1, <1>s DEF TypeOK, Placed, StreamStays, BackStays
<1>5. QuietIsDead'
  BY <1>1, <1>s DEF TypeOK, QuietIsDead, StreamStays, BackStays
<1>6. Heard'
  BY <1>1, <1>s DEF TypeOK, Heard, StreamStays, BackStays
<1>7. Carried'
  BY <1>1, <1>s DEF TypeOK, Carried, StreamStays, BackStays
<1> QED
  BY <1>1, <1>2, <1>3, <1>4, <1>5, <1>6, <1>7 DEF IInv

\* Giving up a silent worker moves nothing.
LEMMA HeartbeatExpiresKept == ASSUME IInv, HeartbeatExpires PROVE IInv'
<1> USE DEF IInv, HeartbeatExpires, Settles
<1>1. TypeOK'
  BY DEF TypeOK
<1>s. StreamStays /\ (EndHeard => EndHeard') /\ BackStays
  BY Stays, BackKept
<1>2. Control'
  BY <1>1, <1>s DEF TypeOK, Control, StreamStays, BackStays
<1>3. LastWords'
  BY <1>1, <1>s DEF TypeOK, LastWords, StreamStays, BackStays
<1>4. Placed'
  BY <1>1, <1>s DEF TypeOK, Placed, StreamStays, BackStays
<1>5. QuietIsDead'
  BY <1>1, <1>s DEF TypeOK, QuietIsDead, StreamStays, BackStays
<1>6. Heard'
  BY <1>1, <1>s DEF TypeOK, Heard, StreamStays, BackStays
<1>7. Carried'
  BY <1>1, <1>s DEF TypeOK, Carried, StreamStays, BackStays
<1> QED
  BY <1>1, <1>2, <1>3, <1>4, <1>5, <1>6, <1>7 DEF IInv

\* Giving up an idle worker moves nothing.
LEMMA IdleExpiresKept == ASSUME IInv, IdleExpires PROVE IInv'
<1> USE DEF IInv, IdleExpires, Settles
<1>1. TypeOK'
  BY DEF TypeOK
<1>s. StreamStays /\ (EndHeard => EndHeard') /\ BackStays
  BY Stays, BackKept
<1>2. Control'
  BY <1>1, <1>s DEF TypeOK, Control, StreamStays, BackStays
<1>3. LastWords'
  BY <1>1, <1>s DEF TypeOK, LastWords, StreamStays, BackStays
<1>4. Placed'
  BY <1>1, <1>s DEF TypeOK, Placed, StreamStays, BackStays
<1>5. QuietIsDead'
  BY <1>1, <1>s DEF TypeOK, QuietIsDead, StreamStays, BackStays
<1>6. Heard'
  BY <1>1, <1>s DEF TypeOK, Heard, StreamStays, BackStays
<1>7. Carried'
  BY <1>1, <1>s DEF TypeOK, Carried, StreamStays, BackStays
<1> QED
  BY <1>1, <1>2, <1>3, <1>4, <1>5, <1>6, <1>7 DEF IInv

\* The abort of the run is sent on.
LEMMA AbortKept == ASSUME IInv, Abort PROVE IInv'
<1> USE DEF IInv, Abort, Message
<1>1. TypeOK'
  <2>1. aborted' \in BOOLEAN
    OBVIOUS
  <2>2. down' \in Seq(FromParent)
    <3>1. [type |-> "cancel"] \in FromParent
      BY DEF FromParent
    <3>2. down \in Seq(FromParent)
      BY DEF TypeOK
    <3>3. Sends(<<[type |-> "cancel"]>>) => down' \in Seq(FromParent)
      BY <3>1, Sent
    <3> QED
      BY <3>2, <3>3
  <2>3. UNCHANGED <<workerVars, up, tail, writing, ready, idle, marked, tasks, heard, outcome>>
    OBVIOUS
  <2> HIDE DEF Abort
  <2> QED
    BY <2>1, <2>2, <2>3 DEF TypeOK
<1>s. StreamStays /\ (EndHeard => EndHeard') /\ BackGains([type |-> "cancel"])
  <2>1. [type |-> "cancel"] \in FromParent
    BY DEF FromParent
  <2> QED
    BY <2>1, Stays, BackGained
<1>2. Control'
  BY <1>1, <1>s DEF TypeOK, Control, StreamStays, BackGains
<1>3. LastWords'
  BY <1>1, <1>s DEF TypeOK, LastWords, StreamStays, BackGains
<1>4. Placed'
  BY <1>1, <1>s DEF TypeOK, Placed, StreamStays, BackGains
<1>5. QuietIsDead'
  BY <1>1, <1>s DEF TypeOK, QuietIsDead, StreamStays, BackGains
<1>6. Heard'
  BY <1>1, <1>s DEF TypeOK, Heard, StreamStays, BackGains
<1>7. Carried'
  BY <1>1, <1>s DEF TypeOK, Carried, StreamStays, BackGains
<1> QED
  BY <1>1, <1>2, <1>3, <1>4, <1>5, <1>6, <1>7 DEF IInv

\* A killed worker leaves nothing behind but its exit.
LEMMA KillKept == ASSUME IInv, Kill PROVE IInv'
<1> USE DEF IInv, Kill, Leaves, Posts, Message
<1>1. TypeOK'
  <2>1. worker' = "gone" /\ turn' = FALSE /\ open' = {}  /\ down' \in Seq(FromParent)
    OBVIOUS
  <2>2. timers' \in 0..MaxTimers
    BY EvaluatorAssumption
  <2>3. up' \in Seq(Beat \cup Request \cup Plain)
    <3>1. [type |-> "exit"] \in Beat \cup Request \cup Plain
      BY DEF Beat, Request, Plain
    <3>2. up \in Seq(Beat \cup Request \cup Plain)
      BY DEF TypeOK
    <3> QED
      BY <3>1, <3>2
  <2>4. UNCHANGED <<cancelled, made, timed, logged, parentVars>>
    OBVIOUS
  <2> HIDE DEF Kill
  <2> QED
    BY <2>1, <2>2, <2>3, <2>4 DEF TypeOK
<1>s. /\ StreamGains([type |-> "exit"]) \/ (StreamStays /\ (EndHeard => EndHeard'))
      /\ BackEmptied
  BY <1>1, Gains, Stays, BackClosed
<1>2. Control'
  BY <1>1, <1>s DEF TypeOK, Control, StreamGains, StreamStays, BackEmptied
<1>3. LastWords'
  BY <1>1, <1>s DEF TypeOK, LastWords, StreamGains, StreamStays, BackEmptied
<1>4. Placed'
  BY <1>1, <1>s DEF TypeOK, Placed, StreamGains, StreamStays, BackEmptied
<1>5. QuietIsDead'
  BY <1>1, <1>s DEF TypeOK, QuietIsDead, StreamGains, StreamStays, BackEmptied
<1>6. Heard'
  BY <1>1, <1>s DEF TypeOK, Heard, StreamGains, StreamStays, BackEmptied
<1>7. Carried'
  BY <1>1, <1>s DEF TypeOK, Carried, StreamGains, StreamStays, BackEmptied
<1> QED
  BY <1>1, <1>2, <1>3, <1>4, <1>5, <1>6, <1>7 DEF IInv

-------------------------------------------------------------------------------
\* An evaluation begins with nothing on its way.
LEMMA InitIInv == Init => IInv
<1> SUFFICES ASSUME Init PROVE IInv
  OBVIOUS
<1>1. TypeOK
  <2>1. /\ <<>> \in Seq(Beat \cup Request \cup Plain) /\ <<>> \in Seq(FromParent)
        /\ 0 \in 0..MaxTimers /\ 0 \in 0..MaxLogs
    BY EvaluatorAssumption
  <2>2. worker \in {"starting", "waiting", "running", "terminal", "gone"} /\ turn \in BOOLEAN
    BY DEF Init
  <2>3. /\ cancelled \in BOOLEAN /\ open \subseteq Calls /\ made \subseteq Calls
        /\ marked \subseteq Calls /\ tasks \subseteq Calls /\ writing \in BOOLEAN
        /\ ready \in BOOLEAN /\ idle \in BOOLEAN /\ aborted \in BOOLEAN /\ heard \in BOOLEAN
    BY DEF Init
  <2>4. /\ timers \in 0..MaxTimers /\ timed \in 0..MaxTimers /\ logged \in 0..MaxLogs
        /\ up \in Seq(Beat \cup Request \cup Plain) /\ tail \in Seq(Beat \cup Request \cup Plain)
        /\ down \in Seq(FromParent)
    BY <2>1 DEF Init
  <2>5. outcome \in {"none", "completed", "failed", "detached", "unlogged",
                     "startup", "heartbeat", "idle", "exit"}
    BY DEF Init
  <2> QED
    BY <2>2, <2>3, <2>4, <2>5 DEF TypeOK
<1>2. stream \in Seq(Msgs) /\ DOMAIN stream = {} /\ DOMAIN down = {}
  <2>1. stream \in Seq(Msgs) /\ Len(stream) = Len(tail) + Len(up)
    BY <1>1, StreamIs
  <2>2. Len(tail) = 0 /\ Len(up) = 0 /\ Len(down) = 0
    BY DEF Init
  <2> QED
    BY <2>1, <2>2 DEF Init
<1>3. Asked = {} /\ AskedOnce /\ Ordered /\ ~HasQuiet /\ ~HasExit /\ ~HasEnd
  BY <1>2 DEF Asked, AskedOnce, Ordered, HasQuiet, HasExit, HasEnd
<1>4. Answered = {} /\ AnsweredOnce /\ ~HasCancel
  BY <1>2 DEF Answered, AnsweredOnce, HasCancel
<1>5. Control
  BY <1>4 DEF Init, Control
<1>6. LastWords /\ Placed
  BY <1>3, <1>4 DEF Init, LastWords, Placed
<1>7. QuietIsDead /\ Heard /\ Carried
  BY <1>3 DEF Init, QuietIsDead, Heard, Carried
<1> QED
  BY <1>1, <1>5, <1>6, <1>7 DEF IInv

\* A step that changes no variable keeps the invariant.
LEMMA StutterKept == ASSUME IInv, UNCHANGED vars PROVE IInv'
<1>1. TypeOK'
  BY DEF IInv, TypeOK
<1>2. StreamStays /\ (EndHeard => EndHeard') /\ BackStays
  BY Stays, BackKept
<1>3. Control' /\ LastWords'
  BY <1>2 DEF IInv, Control, LastWords, StreamStays, BackStays
<1>4. Placed'
  BY <1>2 DEF IInv, Placed, StreamStays, BackStays
<1>5. QuietIsDead' /\ Heard' /\ Carried'
  BY <1>2 DEF IInv, QuietIsDead, Heard, Carried, StreamStays, BackStays
<1> QED
  BY <1>1, <1>3, <1>4, <1>5 DEF IInv

\* Every step of the worker, of its code and of the runtime keeps it.
LEMMA StepIInv == IInv /\ [Next]_vars => IInv'
<1> SUFFICES ASSUME IInv, [Next]_vars PROVE IInv'
  OBVIOUS
<1> HIDE DEF vars
<1>1. CASE UNCHANGED vars
  BY <1>1, StutterKept
<1>2. CASE Code
  BY <1>2, CallKept, LogKept, SetTimerKept, AwaitsKept, FinishKept DEF Code
<1>3. CASE Boots \/ TimerFires \/ Heartbeat \/ Receive \/ Exit
  BY <1>3, BootsKept, TimerFiresKept, HeartbeatKept, ReceiveKept, ExitKept
<1>4. CASE Parent
  BY <1>4, HearsKept, HandleKept, ExitsKept, HandleRequestKept, CompleteKept, WrittenKept
     DEF Parent
<1>5. CASE Watchdog
  BY <1>5, StartupExpiresKept, HeartbeatExpiresKept, IdleExpiresKept DEF Watchdog
<1>6. CASE TaskEnds \/ Abort \/ Kill
  BY <1>6, TaskEndsKept, AbortKept, KillKept
<1> QED
  BY <1>1, <1>2, <1>3, <1>4, <1>5, <1>6 DEF Next, Over

\* The inductive invariant holds in every reachable state, whatever the code does
\* and however many calls, timers and heartbeats there are.
THEOREM Invariance == Spec => []IInv
BY InitIInv, StepIInv, PTL DEF Spec

\* No request is on its way where none is asked.
LEMMA NoneAsked == ASSUME TypeOK, Asked = {} PROVE InFlight("request") = 0
<1>1. \A i \in DOMAIN stream : stream[i].type # "request"
  <2>1. ASSUME NEW i \in DOMAIN stream, stream[i].type = "request" PROVE FALSE
    <3>1. stream[i] \in Msgs
      BY StreamIs
    <3>2. stream[i].call \in Calls
      BY <2>1, <3>1, Kinds
    <3> QED
      BY <2>1, <3>2 DEF Asked, IsRequest
  <2> QED
    BY <2>1
<1>2. {i \in DOMAIN tail : tail[i].type = "request"} = {}
  BY <1>1, StreamIs
<1>3. {i \in DOMAIN up : up[i].type = "request"} = {}
  BY <1>1, StreamIs
<1>4. Cardinality({}) = 0
  BY FS_EmptySet
<1> QED
  BY <1>2, <1>3, <1>4 DEF InFlight

\* Code is given up as idle only when nothing could ever give it control again, a
\* value is accepted only when nothing still runs on its behalf, and an exit is
\* reported only of a worker that had said nothing final: #executeWorker of
\* runWorkflow.ts, in whatever order messages, heartbeats and the exit arrive.
THEOREM DeservedVerdicts == Spec => []VerdictsDeserved
<1>1. ASSUME IInv PROVE VerdictsDeserved
  <2> USE DEF IInv
  <2>1. IdleIsDead
    <3>1. Asked = {} => InFlight("request") = 0
      BY <1>1, NoneAsked
    <3> QED
      BY <1>1, <3>1 DEF IdleIsDead, QuietIsDead, Dead
  <2>2. NothingDetached
    BY <1>1 DEF NothingDetached, Heard, Control
  <2>3. ExitIsSilent
    BY <1>1 DEF ExitIsSilent, Heard
  <2> QED
    BY <1>1, <2>1, <2>2, <2>3 DEF VerdictsDeserved
<1> QED
  BY Invariance, <1>1, PTL

\* No call is lost between the worker, the two channels, the tail and the tasks:
\* while the evaluation lasts, a call the code waits for is in one of them.
THEOREM NoCallLost == Spec => []CallsCarried
<1>1. ASSUME IInv PROVE CallsCarried
  <2> SUFFICES ASSUME Pending, NEW c \in open
               PROVE  \/ \E i \in DOMAIN up : up[i] = [type |-> "request", call |-> c]
                      \/ \E i \in DOMAIN tail : tail[i] = [type |-> "request", call |-> c]
                      \/ c \in tasks
                      \/ \E i \in DOMAIN down : down[i] = [type |-> "answer", call |-> c]
    BY DEF CallsCarried
  <2>1. TypeOK /\ c \in Asked \cup tasks \cup Answered
    BY <1>1 DEF IInv, Carried
  <2>2. CASE c \in Asked
    <3>1. PICK i \in DOMAIN stream : IsRequest(stream[i], c)
      BY <2>2 DEF Asked
    <3>2. stream[i] = [type |-> "request", call |-> c]
      BY <2>1, <3>1, StreamIs, Kinds
    <3>3. CASE i \in DOMAIN tail
      BY <2>1, <3>2, <3>3, StreamIs
    <3>4. CASE i - Len(tail) \in DOMAIN up
      <4>1. tail \in Seq(Msgs) /\ up \in Seq(Msgs) /\ stream \in Seq(Msgs)
        BY <2>1, StreamIs DEF TypeOK, Msgs
      <4>2. stream[Len(tail) + (i - Len(tail))] = up[i - Len(tail)]
        BY <2>1, <3>4, StreamIs
      <4>3. Len(tail) + (i - Len(tail)) = i
        BY <4>1
      <4> QED
        BY <3>2, <3>4, <4>2, <4>3
    <3> QED
      BY <2>1, <3>3, <3>4, StreamIs
  <2>3. CASE c \in Answered
    <3>1. PICK i \in DOMAIN down : IsAnswer(down[i], c)
      BY <2>3 DEF Answered
    <3>2. down[i] \in FromParent
      BY <2>1 DEF TypeOK
    <3> QED
      BY <3>1, <3>2, Kinds
  <2> QED
    BY <2>1, <2>2, <2>3
<1> QED
  BY Invariance, <1>1, PTL

================================================================================
