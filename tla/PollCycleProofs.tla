--------------------------- MODULE PollCycleProofs ---------------------------
(***************************************************************************)
(* Proofs about PollCycle, for every number of calls and every tolerance.  *)
(***************************************************************************)
EXTENDS PollCycle, SequenceFacts

-----------------------------------------------------------------------------
(* The inductive invariant. *)

Requesting == {"data", "config", "sending", "readback"}

\* Whoever is in a queue is in it once and at a place that fits it.
QueueInv ==
    /\ \A i \in 1..Len(ioQueue) : pc[ioQueue[i]] \in Requesting
    /\ \A i, j \in 1..Len(ioQueue) : ioQueue[i] = ioQueue[j] => i = j
    /\ \A i \in 1..Len(pausing) : pc[pausing[i]] = "pausing"
    /\ \A i, j \in 1..Len(pausing) : pausing[i] = pausing[j] => i = j

\* The call that landed last comes last in the pause, and then last of the
\* readbacks; when it has committed, no other call is left to commit.
LastComesLast ==
    /\ \A i \in 1..Len(pausing) : pausing[i] = last => i = Len(pausing)
    /\ \A i \in 1..Len(ioQueue) :
        ioQueue[i] = last /\ pc[last] = "readback" =>
            /\ pausing = << >>
            /\ \A j \in 1..Len(ioQueue) : pc[ioQueue[j]] = "readback" => j <= i
    /\ settled =>
        /\ pausing = << >>
        /\ \A i \in 1..Len(ioQueue) : pc[ioQueue[i]] # "readback"

\* A poll that waits for its second request behind a readback got its frame
\* after that call had landed.
FrameIsFresh ==
    /\ pc[Poll] = "config" => \E j \in 1..Len(ioQueue) : ioQueue[j] = Poll
    /\ \A i, j \in 1..Len(ioQueue) :
        /\ i < j
        /\ ioQueue[j] = Poll
        /\ pc[Poll] = "config"
        /\ pc[ioQueue[i]] = "readback"
        => ioQueue[i] \notin unseen

\* What the frames and the histories say about the device.
Values ==
    /\ pc[Poll] = "config" /\ last \notin unseen => frame = backup
    /\ pc[Poll] = "config" /\ settled => last \notin unseen
    /\ last # Poll => want[last] = backup /\ pc[last] # "idle"
    /\ lastGood = shown
    /\ settled => last # Poll
    /\ ConfirmedBackupIsShown

Streaks ==
    /\ failures <= missed
    /\ BlipsAreTolerated

Inv == TypeOK /\ QueueInv /\ LastComesLast /\ FrameIsFresh /\ Values

-----------------------------------------------------------------------------
(* Leaving a queue. *)

\* r is q without t: it keeps the order of q, t is not in it any more.
Thins(q, r, t) ==
    \E g \in [1..Len(r) -> 1..Len(q)] :
        /\ \A i \in 1..Len(r) : r[i] = q[g[i]] /\ r[i] # t
        /\ \A i, j \in 1..Len(r) : i < j => g[i] < g[j]
        /\ \A n \in 1..Len(q) : q[n] # t => \E i \in 1..Len(r) : g[i] = n

\* The first of a queue leaves it.
LEMMA HeadLeaves ==
    ASSUME NEW S, NEW q \in Seq(S), q # << >>,
           \A i, j \in 1..Len(q) : q[i] = q[j] => i = j
    PROVE  /\ Tail(q) \in Seq(S)
           /\ Thins(q, Tail(q), Head(q))
  <1> DEFINE g == [i \in 1..Len(Tail(q)) |-> i + 1]
  <1>1. /\ Tail(q) \in Seq(S)
        /\ Len(q) \in Nat \ {0}
        /\ Len(Tail(q)) = Len(q) - 1
        /\ \A i \in 1..Len(Tail(q)) : Tail(q)[i] = q[i + 1]
        /\ Head(q) = q[1]
    BY TailFacts
  <1>2. g \in [1..Len(Tail(q)) -> 1..Len(q)]
    BY <1>1
  <1>3. \A i \in 1..Len(Tail(q)) : Tail(q)[i] = q[g[i]] /\ Tail(q)[i] # Head(q)
    BY <1>1
  <1>4. \A i, j \in 1..Len(Tail(q)) : i < j => g[i] < g[j]
    BY <1>1
  <1>5. ASSUME NEW n \in 1..Len(q), q[n] # Head(q)
        PROVE  \E i \in 1..Len(Tail(q)) : g[i] = n
    <2>1. n - 1 \in 1..Len(Tail(q))
      BY <1>1, <1>5
    <2>2. g[n - 1] = n
      BY <2>1
    <2> QED BY <2>1, <2>2
  <1> HIDE DEF g
  <1> QED BY <1>1, <1>2, <1>3, <1>4, <1>5 DEF Thins

\* A cancelled task leaves a queue from wherever it is.
LEMMA OneLeaves ==
    ASSUME NEW S, NEW q \in Seq(S), NEW t, NEW r, Without(q, t, r),
           \A i, j \in 1..Len(q) : q[i] = q[j] => i = j
    PROVE  /\ r \in Seq(S)
           /\ Thins(q, r, t)
  <1>1. PICK n \in 1..Len(q) : q[n] = t /\ r = RemoveAt(q, n)
    BY DEF Without
  <1> DEFINE g == [i \in 1..Len(r) |-> IF i < n THEN i ELSE i + 1]
  <1>2. /\ r \in Seq(S)
        /\ Len(q) \in Nat
        /\ Len(r) = Len(q) - 1
        /\ \A i \in 1..Len(r) : r[i] = IF i < n THEN q[i] ELSE q[i + 1]
    <2> DEFINE s == RemoveAt(q, n)
    <2>1. /\ s \in Seq(S)
          /\ Len(s) = Len(q) - 1
          /\ \A i \in 1..Len(q) - 1 : s[i] = IF i < n THEN q[i] ELSE q[i + 1]
      BY RemoveAtFacts
    <2>2. Len(q) \in Nat /\ r = s
      BY <1>1
    <2> HIDE DEF s
    <2>3. /\ r \in Seq(S)
          /\ Len(r) = Len(q) - 1
          /\ \A i \in 1..Len(q) - 1 : r[i] = IF i < n THEN q[i] ELSE q[i + 1]
      BY <2>1, <2>2, Zenon
    <2> QED BY <2>2, <2>3
  <1>3. g \in [1..Len(r) -> 1..Len(q)]
    BY <1>1, <1>2
  <1>4. \A i \in 1..Len(r) : r[i] = q[g[i]] /\ r[i] # t
    BY <1>1, <1>2
  <1>5. \A i, j \in 1..Len(r) : i < j => g[i] < g[j]
    BY <1>1, <1>2
  <1>6. ASSUME NEW m \in 1..Len(q), q[m] # t
        PROVE  \E i \in 1..Len(r) : g[i] = m
    <2>1. CASE m < n
      <3>1. m \in 1..Len(r) /\ g[m] = m
        BY <1>1, <1>2, <2>1
      <3> QED BY <3>1
    <2>2. CASE m > n
      <3>1. m - 1 \in 1..Len(r) /\ g[m - 1] = m
        BY <1>1, <1>2, <2>2
      <3> QED BY <3>1
    <2>3. m < n \/ m > n
      BY <1>1, <1>2, <1>6
    <2> QED BY <2>1, <2>2, <2>3
  <1> HIDE DEF g
  <1> QED BY <1>2, <1>3, <1>4, <1>5, <1>6 DEF Thins

-----------------------------------------------------------------------------
(* What the two queues and the places of the poll and of the last call say, *)
(* when a task joins or leaves the queue of the lock.                       *)

Places == QueueInv /\ LastComesLast /\ FrameIsFresh

\* A task joins, which is neither a readback nor the poll with its frame.
LEMMA JoiningKeepsPlaces ==
    ASSUME TypeOK, Places,
           NEW t \in Task, pc[t] \notin Requesting \cup {"pausing"},
           NEW where \in {"data", "sending"}, pc' = [pc EXCEPT ![t] = where],
           ioQueue' = Append(ioQueue, t),
           UNCHANGED <<pausing, last, settled, unseen>>
    PROVE  ioQueue' \in Seq(Task) /\ Places'
  <1>1. /\ ioQueue' \in Seq(Task)
        /\ Len(ioQueue) \in Nat
        /\ Len(ioQueue') = Len(ioQueue) + 1
        /\ \A i \in 1..Len(ioQueue) : ioQueue'[i] = ioQueue[i]
        /\ ioQueue'[Len(ioQueue) + 1] = t
    BY AppendFacts DEF TypeOK
  <1>2. /\ \A u \in Task : pc'[u] = IF u = t THEN where ELSE pc[u]
        /\ \A i \in 1..Len(ioQueue) : ioQueue[i] \in Task /\ ioQueue[i] # t
        /\ \A i \in 1..Len(pausing) : pausing[i] \in Task /\ pausing[i] # t
        /\ Poll \in Task /\ last \in Task
    BY DEF TypeOK, Places, QueueInv, Requesting, Task
  <1>3. QueueInv'
    BY <1>1, <1>2 DEF Places, QueueInv, Requesting
  <1>4. LastComesLast'
    BY <1>1, <1>2 DEF Places, LastComesLast
  <1>5. FrameIsFresh'
    BY <1>1, <1>2 DEF Places, FrameIsFresh
  <1> QED BY <1>1, <1>3, <1>4, <1>5 DEF Places

\* A task leaves; if it is a call, its write may just have landed, or have
\* been committed.
LEMMA LeavingKeepsPlaces ==
    ASSUME TypeOK, Places,
           NEW t \in Task, ioQueue' \in Seq(Task), Thins(ioQueue, ioQueue', t),
           NEW where \in PollPCs \cup CallPCs, where \notin Requesting \cup {"pausing"},
           pc' = [pc EXCEPT ![t] = where],
           pc[t] # "pausing",
           UNCHANGED pausing,
           \/ UNCHANGED <<last, settled, unseen>>
           \/ last' = t /\ settled' = FALSE /\ unseen' = unseen \cup {t}
           \/ /\ OnWire(t) /\ pc[t] = "readback"
              /\ last = t /\ settled' = TRUE
              /\ UNCHANGED <<last, unseen>>
    PROVE  Places'
  <1>1. PICK g \in [1..Len(ioQueue') -> 1..Len(ioQueue)] :
            /\ \A i \in 1..Len(ioQueue') : ioQueue'[i] = ioQueue[g[i]] /\ ioQueue'[i] # t
            /\ \A i, j \in 1..Len(ioQueue') : i < j => g[i] < g[j]
            /\ \A n \in 1..Len(ioQueue) :
                ioQueue[n] # t => \E i \in 1..Len(ioQueue') : g[i] = n
    BY DEF Thins
  <1>2. /\ \A u \in Task : pc'[u] = IF u = t THEN where ELSE pc[u]
        /\ \A i \in 1..Len(ioQueue') : ioQueue'[i] \in Task
        /\ \A i \in 1..Len(pausing) : pausing[i] \in Task /\ pausing[i] # t
        /\ Poll \in Task /\ last \in Task
    BY DEF TypeOK, Places, QueueInv, Requesting, Task
  <1>3. /\ \A i \in 1..Len(ioQueue') : g[i] \in 1..Len(ioQueue)
        /\ \A i, j \in 1..Len(ioQueue') : g[j] <= g[i] => j <= i
        /\ \A i, j \in 1..Len(ioQueue') : g[j] = g[i] => j = i
    <2>1. \A i \in 1..Len(ioQueue') : g[i] \in 1..Len(ioQueue)
      OBVIOUS
    <2>2. Len(ioQueue) \in Nat /\ Len(ioQueue') \in Nat
      BY DEF TypeOK
    <2>3. ASSUME NEW i \in 1..Len(ioQueue'), NEW j \in 1..Len(ioQueue')
          PROVE  (g[j] <= g[i] => j <= i) /\ (g[j] = g[i] => j = i)
      <3>1. i \in Int /\ j \in Int /\ g[i] \in Int /\ g[j] \in Int
        BY <2>1, <2>2
      <3>2. (i < j => g[i] < g[j]) /\ (j < i => g[j] < g[i])
        BY <1>1
      <3> HIDE <1>1
      <3> QED BY <3>1, <3>2
    <2> QED BY <2>1, <2>3
  <1>4. QueueInv'
    <2>1. \A i \in 1..Len(ioQueue') : pc'[ioQueue'[i]] \in Requesting
      BY <1>1, <1>2, <1>3 DEF Places, QueueInv
    <2>2. ASSUME NEW i \in 1..Len(ioQueue'), NEW j \in 1..Len(ioQueue'),
                 ioQueue'[i] = ioQueue'[j]
          PROVE  i = j
      <3>1. ioQueue[g[i]] = ioQueue[g[j]]
        BY <1>1, <2>2
      <3>2. g[i] = g[j]
        BY <1>3, <3>1 DEF Places, QueueInv
      <3> QED BY <1>3, <3>2
    <2>3. \A i \in 1..Len(pausing') : pc'[pausing'[i]] = "pausing"
      BY <1>2 DEF Places, QueueInv
    <2> QED BY <2>1, <2>2, <2>3 DEF Places, QueueInv
  <1>5. LastComesLast'
    <2>1. \A i \in 1..Len(ioQueue') : pc'[ioQueue'[i]] = pc[ioQueue[g[i]]]
      BY <1>1, <1>2
    <2>2. CASE UNCHANGED <<last, settled, unseen>>
      <3>1. ASSUME NEW i \in 1..Len(ioQueue'), ioQueue'[i] = last', pc'[last'] = "readback"
            PROVE  /\ pausing' = << >>
                   /\ \A j \in 1..Len(ioQueue') : pc'[ioQueue'[j]] = "readback" => j <= i
        <4>1. ioQueue[g[i]] = last /\ pc[last] = "readback"
          BY <1>1, <1>2, <2>2, <3>1
        <4> QED BY <1>3, <2>1, <3>1, <4>1 DEF Places, LastComesLast
      <3>2. settled' => /\ pausing' = << >>
                        /\ \A i \in 1..Len(ioQueue') : pc'[ioQueue'[i]] # "readback"
        BY <1>3, <2>1, <2>2 DEF Places, LastComesLast
      <3>3. \A i \in 1..Len(pausing') : pausing'[i] = last' => i = Len(pausing')
        BY <2>2 DEF Places, LastComesLast
      <3> QED BY <3>1, <3>2, <3>3 DEF LastComesLast
    <2>3. CASE last' = t /\ settled' = FALSE
      BY <1>1, <1>2, <2>3 DEF LastComesLast
    <2>4. CASE OnWire(t) /\ pc[t] = "readback" /\ last = t /\ UNCHANGED last
      <3>1. /\ 1 \in 1..Len(ioQueue) /\ ioQueue[1] = t
            /\ Len(ioQueue) \in Nat
        BY <2>4, TailFacts DEF TypeOK, OnWire
      <3>2. /\ pausing = << >>
            /\ \A j \in 1..Len(ioQueue) : pc[ioQueue[j]] = "readback" => j <= 1
        BY <2>4, <3>1 DEF Places, LastComesLast
      <3>3. ASSUME NEW i \in 1..Len(ioQueue'), pc'[ioQueue'[i]] = "readback"
            PROVE  FALSE
        <4>1. g[i] <= 1 /\ g[i] \in 1..Len(ioQueue)
          BY <1>3, <2>1, <3>2, <3>3
        <4>2. g[i] = 1
          BY <3>1, <4>1
        <4> QED BY <1>1, <3>1, <4>2
      <3>4. ASSUME NEW i \in 1..Len(ioQueue') PROVE ioQueue'[i] # last'
        BY <1>1, <2>4
      <3> QED BY <2>4, <3>2, <3>3, <3>4 DEF LastComesLast
    <2> QED BY <2>2, <2>3, <2>4
  <1>6. ASSUME pc'[Poll] = "config"
        PROVE  \E j \in 1..Len(ioQueue') : ioQueue'[j] = Poll
    <2>1. Poll # t /\ pc[Poll] = "config"
      BY <1>2, <1>6 DEF Requesting
    <2>2. PICK n \in 1..Len(ioQueue) : ioQueue[n] = Poll
      BY <2>1 DEF Places, FrameIsFresh
    <2>3. PICK j \in 1..Len(ioQueue') : g[j] = n
      BY <1>1, <2>1, <2>2
    <2>4. ioQueue'[j] = ioQueue[g[j]]
      BY <1>1
    <2> QED BY <2>2, <2>3, <2>4, Zenon
  <1>7. ASSUME NEW i \in 1..Len(ioQueue'), NEW j \in 1..Len(ioQueue'), i < j,
               ioQueue'[j] = Poll, pc'[Poll] = "config", pc'[ioQueue'[i]] = "readback"
        PROVE  ioQueue'[i] \notin unseen'
    <2>1. /\ g[i] < g[j]
          /\ ioQueue[g[j]] = Poll
          /\ pc[Poll] = "config"
          /\ pc[ioQueue[g[i]]] = "readback"
      BY <1>1, <1>2, <1>7
    <2>2. ioQueue[g[i]] \notin unseen
      BY <1>3, <2>1 DEF Places, FrameIsFresh
    <2> QED BY <1>1, <2>2
  <1>8. FrameIsFresh'
    BY <1>6, <1>7 DEF FrameIsFresh
  <1> QED BY <1>4, <1>5, <1>8 DEF Places

\* A call moves on outside both queues.
LEMMA MovingKeepsPlaces ==
    ASSUME TypeOK, Places,
           NEW t \in Calls, pc[t] \notin Requesting \cup {"pausing"},
           NEW where \in CallPCs, where \notin Requesting \cup {"pausing"},
           pc' = [pc EXCEPT ![t] = where],
           UNCHANGED <<ioQueue, pausing, last, settled, unseen>>
    PROVE  Places'
  <1>1. /\ \A u \in Task : pc'[u] = IF u = t THEN where ELSE pc[u]
        /\ \A i \in 1..Len(ioQueue) : ioQueue[i] \in Task /\ ioQueue[i] # t
        /\ \A i \in 1..Len(pausing) : pausing[i] \in Task /\ pausing[i] # t
        /\ Poll \in Task /\ last \in Task
    BY DEF TypeOK, Places, QueueInv, Requesting, Task
  <1>2. QueueInv'
    BY <1>1 DEF Places, QueueInv, Requesting
  <1>3. LastComesLast'
    BY <1>1 DEF Places, LastComesLast, Requesting
  <1>4. FrameIsFresh'
    BY <1>1 DEF Places, FrameIsFresh, Requesting, Calls
  <1> QED BY <1>2, <1>3, <1>4 DEF Places

\* A call leaves the pause and is cancelled.
LEMMA LeavingPauseKeepsPlaces ==
    ASSUME TypeOK, Places, NEW t \in Calls, Without(pausing, t, pausing'),
           pc' = [pc EXCEPT ![t] = "cancelled"],
           UNCHANGED <<ioQueue, last, settled, unseen>>
    PROVE  pausing' \in Seq(Calls) /\ Places'
  <1>1. PICK n \in 1..Len(pausing) : pausing[n] = t /\ pausing' = RemoveAt(pausing, n)
    BY DEF Without
  <1>2. /\ pausing' \in Seq(Calls)
        /\ Len(pausing) \in Nat
        /\ Len(pausing') = Len(pausing) - 1
        /\ \A i \in 1..Len(pausing') : pausing'[i] = IF i < n THEN pausing[i] ELSE pausing[i + 1]
    <2> DEFINE s == RemoveAt(pausing, n)
    <2>1. /\ s \in Seq(Calls)
          /\ Len(s) = Len(pausing) - 1
          /\ \A i \in 1..Len(pausing) - 1 :
                s[i] = IF i < n THEN pausing[i] ELSE pausing[i + 1]
      BY RemoveAtFacts DEF TypeOK
    <2>2. Len(pausing) \in Nat /\ pausing' = s
      BY <1>1 DEF TypeOK
    <2> HIDE DEF s
    <2>3. /\ pausing' \in Seq(Calls)
          /\ Len(pausing') = Len(pausing) - 1
          /\ \A i \in 1..Len(pausing) - 1 :
                pausing'[i] = IF i < n THEN pausing[i] ELSE pausing[i + 1]
      BY <2>1, <2>2, Zenon
    <2> QED BY <2>2, <2>3
  <1>3. pc[t] = "pausing" /\ pausing # << >>
    BY <1>1, <1>2 DEF Places, QueueInv, TypeOK
  <1>4. /\ \A u \in Task : pc'[u] = IF u = t THEN "cancelled" ELSE pc[u]
        /\ \A i \in 1..Len(ioQueue) : ioQueue[i] \in Task /\ ioQueue[i] # t
        /\ \A i \in 1..Len(pausing') : pausing'[i] \in Task /\ pausing'[i] # t
        /\ Poll \in Task /\ last \in Task
    <2>1. \A i \in 1..Len(pausing') : pausing'[i] \in Calls
      BY <1>2
    <2>2. \A i \in 1..Len(pausing') : pausing'[i] # t
      BY <1>1, <1>2 DEF Places, QueueInv
    <2>3. \A i \in 1..Len(ioQueue) : ioQueue[i] \in Task /\ ioQueue[i] # t
      <3>1. \A i \in 1..Len(ioQueue) : ioQueue[i] \in Task
        BY DEF TypeOK
      <3>2. \A i \in 1..Len(ioQueue) : pc[ioQueue[i]] # "pausing"
        BY DEF Places, QueueInv, Requesting
      <3> QED BY <1>3, <3>1, <3>2
    <2>4. \A u \in Task : pc'[u] = IF u = t THEN "cancelled" ELSE pc[u]
      BY DEF TypeOK
    <2> QED BY <2>1, <2>2, <2>3, <2>4 DEF TypeOK, Task
  <1>5. QueueInv'
    <2>1. \A i \in 1..Len(pausing') : pc'[pausing'[i]] = "pausing"
      <3>1. \A i \in 1..Len(pausing) : pc[pausing[i]] = "pausing"
        BY DEF Places, QueueInv
      <3>2. ASSUME NEW i \in 1..Len(pausing')
            PROVE  \E j \in 1..Len(pausing) : pausing'[i] = pausing[j]
        BY <1>2
      <3> QED BY <1>4, <3>1, <3>2
    <2>2. \A i, j \in 1..Len(pausing') : pausing'[i] = pausing'[j] => i = j
      <3>1. \A i, j \in 1..Len(pausing) : pausing[i] = pausing[j] => i = j
        BY DEF Places, QueueInv
      <3> QED BY <1>2, <3>1
    <2>3. \A i \in 1..Len(ioQueue) : pc'[ioQueue[i]] \in Requesting
      BY <1>4 DEF Places, QueueInv
    <2> QED BY <2>1, <2>2, <2>3 DEF Places, QueueInv
  <1>6. LastComesLast'
    <2>1. \A i \in 1..Len(pausing') : pausing'[i] = last => i = Len(pausing')
      BY <1>1, <1>2 DEF Places, LastComesLast
    <2> QED BY <1>3, <1>4, <2>1 DEF Places, LastComesLast
  <1>7. FrameIsFresh'
    BY <1>4 DEF Places, FrameIsFresh, Calls
  <1> QED BY <1>2, <1>5, <1>6, <1>7 DEF Places

\* The answered write of a call is followed by the pause.
LEMMA AnsweredKeepsPlaces ==
    ASSUME TypeOK, Places, NEW k \in Calls, Answered(k)
    PROVE  ioQueue' \in Seq(Task) /\ pausing' \in Seq(Calls) /\ Places'
  <1>1. /\ ioQueue' = Tail(ioQueue) /\ ioQueue # << >> /\ k = Head(ioQueue)
        /\ pausing' = Append(pausing, k)
        /\ pc' = [pc EXCEPT ![k] = "pausing"]
        /\ pc[k] = "sending"
        /\ last' = k /\ settled' = FALSE /\ unseen' = unseen \cup {k}
    BY DEF Answered, OnWire, Land
  <1>2. /\ ioQueue' \in Seq(Task)
        /\ Len(ioQueue) \in Nat \ {0}
        /\ Len(ioQueue') = Len(ioQueue) - 1
        /\ \A i \in 1..Len(ioQueue') : ioQueue'[i] = ioQueue[i + 1]
        /\ k = ioQueue[1]
    BY <1>1, TailFacts DEF TypeOK
  <1>3. /\ pausing' \in Seq(Calls)
        /\ Len(pausing) \in Nat
        /\ Len(pausing') = Len(pausing) + 1
        /\ \A i \in 1..Len(pausing) : pausing'[i] = pausing[i]
        /\ pausing'[Len(pausing) + 1] = k
    BY <1>1, AppendFacts DEF TypeOK
  <1>4. /\ \A u \in Task : pc'[u] = IF u = k THEN "pausing" ELSE pc[u]
        /\ Poll \in Task /\ k # Poll
    BY <1>1 DEF TypeOK, Task, Calls, Poll
  <1>5. \A i \in 1..Len(ioQueue') : ioQueue'[i] \in Task /\ ioQueue'[i] # k
    BY <1>2 DEF Places, QueueInv
  <1>6. \A i \in 1..Len(pausing) : pausing[i] \in Task /\ pausing[i] # k
    BY <1>1 DEF TypeOK, Places, QueueInv, Task
  <1>7. QueueInv'
    <2>1. \A i \in 1..Len(ioQueue') : pc'[ioQueue'[i]] \in Requesting
      BY <1>2, <1>4, <1>5 DEF Places, QueueInv
    <2>2. ASSUME NEW i \in 1..Len(ioQueue'), NEW j \in 1..Len(ioQueue'),
                 ioQueue'[i] = ioQueue'[j]
          PROVE  i = j
      <3>1. i + 1 \in 1..Len(ioQueue) /\ j + 1 \in 1..Len(ioQueue)
        BY <1>2
      <3>2. ioQueue[i + 1] = ioQueue[j + 1]
        BY <1>2, <2>2
      <3>3. i + 1 = j + 1
        BY <3>1, <3>2 DEF Places, QueueInv
      <3> QED BY <1>2, <3>3
    <2>3. \A i \in 1..Len(pausing') : pc'[pausing'[i]] = "pausing"
      BY <1>3, <1>4, <1>6 DEF Places, QueueInv, Task
    <2>4. \A i, j \in 1..Len(pausing') : pausing'[i] = pausing'[j] => i = j
      BY <1>3, <1>6 DEF Places, QueueInv
    <2> QED BY <2>1, <2>2, <2>3, <2>4 DEF QueueInv
  <1>8. LastComesLast'
    BY <1>1, <1>3, <1>5, <1>6 DEF LastComesLast
  <1>9. FrameIsFresh'
    <2>1. ASSUME pc'[Poll] = "config"
          PROVE  \E j \in 1..Len(ioQueue') : ioQueue'[j] = Poll
      <3>1. PICK n \in 1..Len(ioQueue) : ioQueue[n] = Poll
        BY <1>4, <2>1 DEF Places, FrameIsFresh
      <3>2. n - 1 \in 1..Len(ioQueue') /\ ioQueue'[n - 1] = Poll
        BY <1>2, <1>4, <3>1
      <3> QED BY <3>2
    <2>2. ASSUME NEW i \in 1..Len(ioQueue'), NEW j \in 1..Len(ioQueue'), i < j,
                 ioQueue'[j] = Poll, pc'[Poll] = "config", pc'[ioQueue'[i]] = "readback"
          PROVE  ioQueue'[i] \notin unseen'
      <3>1. i + 1 \in 1..Len(ioQueue) /\ j + 1 \in 1..Len(ioQueue) /\ i + 1 < j + 1
        BY <1>2, <2>2
      <3>2. /\ ioQueue[j + 1] = Poll /\ pc[Poll] = "config"
            /\ pc[ioQueue[i + 1]] = "readback"
        BY <1>2, <1>4, <1>5, <2>2
      <3>3. ioQueue[i + 1] \notin unseen
        BY <3>1, <3>2 DEF Places, FrameIsFresh
      <3> QED BY <1>1, <1>2, <1>5, <3>3
    <2> QED BY <2>1, <2>2 DEF FrameIsFresh
  <1> QED BY <1>2, <1>3, <1>7, <1>8, <1>9 DEF Places

\* The readback of a call queues behind all that wait for the lock.
LEMMA ReadbackKeepsPlaces ==
    ASSUME TypeOK, Places, NEW k \in Calls, Readback(k)
    PROVE  ioQueue' \in Seq(Task) /\ pausing' \in Seq(Calls) /\ Places'
  <1>1. /\ ioQueue' = Append(ioQueue, k)
        /\ pausing' = Tail(pausing) /\ pausing # << >> /\ k = Head(pausing)
        /\ pc' = [pc EXCEPT ![k] = "readback"]
        /\ UNCHANGED <<last, settled, unseen>>
    BY DEF Readback, landVars
  <1>2. /\ ioQueue' \in Seq(Task)
        /\ Len(ioQueue) \in Nat
        /\ Len(ioQueue') = Len(ioQueue) + 1
        /\ \A i \in 1..Len(ioQueue) : ioQueue'[i] = ioQueue[i]
        /\ ioQueue'[Len(ioQueue) + 1] = k
    BY <1>1, AppendFacts DEF TypeOK, Task
  <1>3. /\ pausing' \in Seq(Calls)
        /\ Len(pausing) \in Nat \ {0}
        /\ Len(pausing') = Len(pausing) - 1
        /\ \A i \in 1..Len(pausing') : pausing'[i] = pausing[i + 1]
        /\ k = pausing[1]
    BY <1>1, TailFacts DEF TypeOK
  <1>4. /\ \A u \in Task : pc'[u] = IF u = k THEN "readback" ELSE pc[u]
        /\ Poll \in Task /\ k # Poll /\ k \in Task
        /\ pc[k] = "pausing"
        /\ ~settled
    <2>1. pc[k] = "pausing"
      BY <1>3 DEF Places, QueueInv
    <2>2. ~settled
      BY <1>1 DEF Places, LastComesLast
    <2>3. Poll \in Task /\ k # Poll /\ k \in Task
      BY DEF Task, Calls, Poll
    <2>4. \A u \in Task : pc'[u] = IF u = k THEN "readback" ELSE pc[u]
      BY <1>1 DEF TypeOK
    <2> QED BY <2>1, <2>2, <2>3, <2>4
  <1>5. \A i \in 1..Len(ioQueue) : ioQueue[i] \in Task /\ ioQueue[i] # k
    BY <1>4 DEF TypeOK, Places, QueueInv, Requesting
  <1>6. \A i \in 1..Len(pausing') : pausing'[i] \in Task /\ pausing'[i] # k
    BY <1>3 DEF Places, QueueInv, Task
  <1>7. QueueInv'
    <2>1. \A i \in 1..Len(ioQueue') : pc'[ioQueue'[i]] \in Requesting
      BY <1>2, <1>4, <1>5 DEF Places, QueueInv, Requesting
    <2>2. \A i, j \in 1..Len(ioQueue') : ioQueue'[i] = ioQueue'[j] => i = j
      BY <1>2, <1>5 DEF Places, QueueInv
    <2>3. \A i \in 1..Len(pausing') : pc'[pausing'[i]] = "pausing"
      BY <1>3, <1>4, <1>6 DEF Places, QueueInv
    <2>4. \A i, j \in 1..Len(pausing') : pausing'[i] = pausing'[j] => i = j
      BY <1>3 DEF Places, QueueInv
    <2> QED BY <2>1, <2>2, <2>3, <2>4 DEF QueueInv
  <1>8. LastComesLast'
    <2>1. ASSUME NEW i \in 1..Len(pausing'), pausing'[i] = last'
          PROVE  i = Len(pausing')
      <3>1. i + 1 \in 1..Len(pausing) /\ pausing[i + 1] = last
        BY <1>1, <1>3, <2>1
      <3>2. i + 1 = Len(pausing)
        BY <3>1 DEF Places, LastComesLast
      <3> QED BY <1>3, <3>2
    <2>2. ASSUME NEW i \in 1..Len(ioQueue'), ioQueue'[i] = last', pc'[last'] = "readback"
          PROVE  /\ pausing' = << >>
                 /\ \A j \in 1..Len(ioQueue') : pc'[ioQueue'[j]] = "readback" => j <= i
      <3>1. CASE last = k
        <4>1. i = Len(ioQueue) + 1
          BY <1>1, <1>2, <1>5, <2>2, <3>1
        <4>2. 1 = Len(pausing)
          BY <1>3, <3>1 DEF Places, LastComesLast
        <4>3. pausing' = << >>
          <5>1. Len(pausing') = Len(pausing) - 1 /\ pausing' \in Seq(Calls)
            BY <1>3
          <5>2. Len(pausing') = 0
            BY <4>2, <5>1
          <5> QED BY <5>1, <5>2, EmptySeq
        <4> QED BY <1>2, <4>1, <4>3
      <3>2. CASE last # k
        <4>1. i \in 1..Len(ioQueue) /\ ioQueue[i] = last
          BY <1>1, <1>2, <2>2, <3>2
        <4>2. pc[last] = "readback"
          BY <1>1, <1>4, <2>2, <3>2, <4>1 DEF TypeOK
        <4> QED BY <1>1, <4>1, <4>2 DEF Places, LastComesLast
      <3> QED BY <3>1, <3>2
    <2> QED BY <1>1, <1>4, <2>1, <2>2 DEF LastComesLast
  <1>9. FrameIsFresh'
    <2>1. ASSUME pc'[Poll] = "config"
          PROVE  \E j \in 1..Len(ioQueue') : ioQueue'[j] = Poll
      BY <1>2, <1>4, <2>1 DEF Places, FrameIsFresh
    <2>2. ASSUME NEW i \in 1..Len(ioQueue'), NEW j \in 1..Len(ioQueue'), i < j,
                 ioQueue'[j] = Poll, pc'[Poll] = "config", pc'[ioQueue'[i]] = "readback"
          PROVE  ioQueue'[i] \notin unseen'
      <3>1. j \in 1..Len(ioQueue) /\ i \in 1..Len(ioQueue)
        BY <1>2, <1>4, <2>2
      <3> QED BY <1>1, <1>2, <1>4, <1>5, <2>2, <3>1 DEF Places, FrameIsFresh
    <2> QED BY <2>1, <2>2 DEF FrameIsFresh
  <1> QED BY <1>2, <1>3, <1>7, <1>8, <1>9 DEF Places

\* The poll takes its frame and queues again, for the second request.
LEMMA ReadingKeepsPlaces ==
    ASSUME TypeOK, Places, PollReads
    PROVE  ioQueue' \in Seq(Task) /\ Places'
  <1>1. /\ ioQueue' = Append(Tail(ioQueue), Poll) /\ ioQueue # << >> /\ Poll = Head(ioQueue)
        /\ pc' = [pc EXCEPT ![Poll] = "config"]
        /\ pc[Poll] = "data"
        /\ unseen' = {}
        /\ UNCHANGED <<pausing, last, settled>>
        /\ Poll \in Task
    BY DEF PollReads, OnWire, Task
  <1>2. /\ Tail(ioQueue) \in Seq(Task)
        /\ Len(ioQueue) \in Nat \ {0}
        /\ Len(Tail(ioQueue)) = Len(ioQueue) - 1
        /\ \A i \in 1..Len(Tail(ioQueue)) : Tail(ioQueue)[i] = ioQueue[i + 1]
        /\ Poll = ioQueue[1]
    BY <1>1, TailFacts DEF TypeOK
  <1>3. /\ ioQueue' \in Seq(Task)
        /\ Len(ioQueue') = Len(Tail(ioQueue)) + 1
        /\ \A i \in 1..Len(Tail(ioQueue)) : ioQueue'[i] = Tail(ioQueue)[i]
        /\ ioQueue'[Len(Tail(ioQueue)) + 1] = Poll
    BY <1>1, <1>2, AppendFacts
  <1>4. /\ Len(ioQueue') = Len(ioQueue)
        /\ \A i \in 1..Len(ioQueue) - 1 : ioQueue'[i] = ioQueue[i + 1]
        /\ ioQueue'[Len(ioQueue)] = Poll
    BY <1>2, <1>3
  <1>5. \A u \in Task : pc'[u] = IF u = Poll THEN "config" ELSE pc[u]
    BY <1>1 DEF TypeOK
  <1>6. \A i \in 1..Len(ioQueue) - 1 : ioQueue'[i] \in Task /\ ioQueue'[i] # Poll
    BY <1>2, <1>4 DEF TypeOK, Places, QueueInv
  <1>7. \A i \in 1..Len(pausing) : pausing[i] \in Task /\ pausing[i] # Poll
    BY <1>1 DEF TypeOK, Places, QueueInv, Task
  <1>8. /\ Len(ioQueue) \in Nat \ {0}
        /\ \A i \in 1..Len(ioQueue') : i \in 1..Len(ioQueue) - 1 \/ i = Len(ioQueue)
        /\ \A i \in 1..Len(ioQueue) - 1 : i + 1 \in 1..Len(ioQueue)
    <2>1. Len(ioQueue) \in Nat \ {0} /\ Len(ioQueue') = Len(ioQueue)
      BY <1>2, <1>4
    <2> QED BY <2>1
  <1>9. \A i \in 1..Len(ioQueue) - 1 : pc'[ioQueue'[i]] = pc[ioQueue[i + 1]]
    BY <1>4, <1>5, <1>6
  <1>10. QueueInv'
    <2>1. ASSUME NEW i \in 1..Len(ioQueue') PROVE pc'[ioQueue'[i]] \in Requesting
      <3>1. CASE i = Len(ioQueue)
        BY <1>1, <1>4, <1>5, <3>1 DEF Requesting
      <3>2. CASE i \in 1..Len(ioQueue) - 1
        BY <1>8, <1>9, <3>2 DEF Places, QueueInv
      <3> QED BY <1>8, <3>1, <3>2
    <2>2. ASSUME NEW i \in 1..Len(ioQueue'), NEW j \in 1..Len(ioQueue'),
                 ioQueue'[i] = ioQueue'[j]
          PROVE  i = j
      <3>1. CASE i \in 1..Len(ioQueue) - 1 /\ j \in 1..Len(ioQueue) - 1
        <4>1. i + 1 = j + 1
          BY <1>4, <1>8, <2>2, <3>1 DEF Places, QueueInv
        <4> QED BY <1>8, <3>1, <4>1
      <3>2. CASE i = Len(ioQueue) \/ j = Len(ioQueue)
        BY <1>4, <1>6, <1>8, <2>2, <3>2
      <3> QED BY <1>8, <3>1, <3>2
    <2>3. \A i \in 1..Len(pausing') : pc'[pausing'[i]] = "pausing"
      BY <1>1, <1>5, <1>7 DEF Places, QueueInv
    <2> QED BY <1>1, <2>1, <2>2, <2>3 DEF Places, QueueInv
  <1>11. LastComesLast'
    <2>1. ASSUME NEW i \in 1..Len(ioQueue'), pc'[ioQueue'[i]] = "readback"
          PROVE  i \in 1..Len(ioQueue) - 1 /\ pc[ioQueue[i + 1]] = "readback"
      <3>1. i # Len(ioQueue)
        <4>1. pc'[ioQueue'[Len(ioQueue)]] = "config"
          BY <1>1, <1>4, <1>5
        <4> QED BY <2>1, <4>1
      <3> QED BY <1>8, <1>9, <2>1, <3>1
    <2>2. ASSUME NEW i \in 1..Len(ioQueue'), ioQueue'[i] = last', pc'[last'] = "readback"
          PROVE  /\ pausing' = << >>
                 /\ \A j \in 1..Len(ioQueue') : pc'[ioQueue'[j]] = "readback" => j <= i
      <3>1. i \in 1..Len(ioQueue) - 1 /\ ioQueue[i + 1] = last /\ pc[last] = "readback"
        BY <1>1, <1>4, <2>1, <2>2
      <3>2. /\ pausing = << >>
            /\ \A j \in 1..Len(ioQueue) : pc[ioQueue[j]] = "readback" => j <= i + 1
        BY <1>8, <3>1 DEF Places, LastComesLast
      <3>3. ASSUME NEW j \in 1..Len(ioQueue'), pc'[ioQueue'[j]] = "readback" PROVE j <= i
        <4>1. j \in 1..Len(ioQueue) - 1 /\ j + 1 <= i + 1
          BY <1>8, <2>1, <3>2, <3>3
        <4> QED BY <1>8, <3>1, <4>1
      <3> QED BY <1>1, <3>2, <3>3
    <2>3. settled' => \A i \in 1..Len(ioQueue') : pc'[ioQueue'[i]] # "readback"
      <3>1. settled => \A i \in 1..Len(ioQueue) : pc[ioQueue[i]] # "readback"
        BY DEF Places, LastComesLast
      <3> QED BY <1>1, <1>8, <2>1, <3>1
    <2> QED BY <1>1, <2>2, <2>3 DEF Places, LastComesLast
  <1>12. FrameIsFresh'
    <2>1. Len(ioQueue) \in 1..Len(ioQueue')
      BY <1>4, <1>8
    <2> QED BY <1>1, <1>4, <2>1 DEF FrameIsFresh
  <1> QED BY <1>3, <1>10, <1>11, <1>12 DEF Places

-----------------------------------------------------------------------------
(* Type correctness. *)

\* A queue without one of its elements is a queue of the same type.
LEMMA WithoutIsTyped ==
    ASSUME NEW S, NEW q \in Seq(S), NEW t, NEW r, Without(q, t, r)
    PROVE  r \in Seq(S) /\ t \in S /\ q # << >>
  <1>1. PICK n \in 1..Len(q) : q[n] = t /\ r = RemoveAt(q, n)
    BY DEF Without
  <1>2. RemoveAt(q, n) \in Seq(S)
    BY <1>1, RemoveAtFacts
  <1>3. q[n] \in S /\ q # << >>
    OBVIOUS
  <1> QED BY <1>1, <1>2, <1>3

\* The initial state is typed.
LEMMA InitTyped == ASSUME Init PROVE TypeOK
  <1>1. \A S : << >> \in Seq(S)
    BY ShortSequences
  <1>2. Poll \in Task /\ Calls \subseteq Task /\ Poll \notin Calls
    BY DEF Poll, Task, Calls
  <1>3. 0 \in 0..FailureBound
    BY PollAssumption DEF FailureBound
  <1> QED BY <1>1, <1>2, <1>3 DEF Init, TypeOK, PollPCs, CallPCs

\* Every step of the poll keeps the types.
LEMMA PollingTyped ==
    ASSUME TypeOK, Polling
    PROVE  TypeOK'
  <1>1. Poll \in Task /\ Calls \subseteq Task /\ Poll \notin Calls
    BY DEF Poll, Task, Calls
  <1>2. Counted(missed) \in 0..FailureBound /\ Counted(failures) \in 0..FailureBound
    BY PollAssumption DEF TypeOK, Counted, FailureBound
  <1>3. CASE PollStarts
    BY <1>1, <1>3 DEF TypeOK, PollStarts, PollPCs, frameVars, pollVars, landVars
  <1>4. CASE PollReads
    <2>1. Append(Tail(ioQueue), Poll) \in Seq(Task)
      BY <1>1, <1>4, TailFacts DEF TypeOK, PollReads, OnWire
    <2> QED BY <1>1, <1>4, <2>1 DEF TypeOK, PollReads, PollPCs, pollVars
  <1>5. ASSUME OnWire(Poll) PROVE Tail(ioQueue) \in Seq(Task)
    BY <1>5, TailFacts DEF TypeOK, OnWire
  <1>6. CASE PollSucceeds
    BY <1>1, <1>5, <1>6, PollAssumption
       DEF TypeOK, PollSucceeds, PollPCs, landVars, FailureBound
  <1>7. CASE FailureTolerated
    BY <1>1, <1>2, <1>5, <1>7, PollAssumption
       DEF TypeOK, FailureTolerated, PollUnanswered, Tolerated, PollPCs, landVars, FailureBound
  <1>8. CASE FailureReported
    BY <1>1, <1>2, <1>5, <1>8 DEF TypeOK, FailureReported, PollUnanswered, PollPCs, landVars
  <1>9. CASE FirstRefreshFails
    BY <1>1, <1>2, <1>5, <1>9, PollAssumption
       DEF TypeOK, FirstRefreshFails, PollUnanswered, PollPCs, landVars, FailureBound
  <1> QED BY <1>3, <1>4, <1>6, <1>7, <1>8, <1>9 DEF Polling

\* Landing keeps the types of what it changes.
LEMMA LandTyped ==
    ASSUME TypeOK, NEW k \in Calls, Land(k) \/ UNCHANGED <<landVars, settled>>
    PROVE  /\ backup' \in {0, 1}
           /\ last' \in Task
           /\ settled' \in BOOLEAN
           /\ unseen' \subseteq Calls
  BY DEF TypeOK, Land, landVars, Task

\* Every step of a call keeps the types.
LEMMA CallTyped ==
    ASSUME TypeOK, NEW k \in Calls, Writing(k) \/ Calling(k)
    PROVE  TypeOK'
  <1>1. k \in Task /\ k # Poll
    BY DEF Poll, Task, Calls
  <1>2. ASSUME OnWire(k) PROVE Tail(ioQueue) \in Seq(Task)
    BY <1>2, TailFacts DEF TypeOK, OnWire
  <1>3. ASSUME writeQueue # << >> PROVE Tail(writeQueue) \in Seq(Calls)
    BY <1>3, TailFacts DEF TypeOK
  <1>4. CASE Acquire(k)
    BY <1>1, <1>4 DEF TypeOK, Acquire, CallPCs, frameVars, pollVars, landVars
  <1>5. CASE Answered(k)
    BY <1>1, <1>2, <1>3, <1>5, LandTyped
       DEF TypeOK, Answered, Owns, CallPCs, frameVars, pollVars
  <1>6. CASE Unanswered(k)
    <2>1. ioQueue' \in Seq(Task)
      BY <1>2, <1>6 DEF Unanswered
    <2>2. /\ backup' \in {0, 1} /\ last' \in Task
          /\ settled' \in BOOLEAN /\ unseen' \subseteq Calls
      BY <1>6, LandTyped DEF Unanswered
    <2>3. writeQueue' \in Seq(Calls)
      BY <1>3, <1>6 DEF TypeOK, Unanswered, Owns
    <2>4. pc' = [pc EXCEPT ![k] = "backoff"] \/ pc' = [pc EXCEPT ![k] = "failed"]
      BY <1>6 DEF Unanswered
    <2>5. UNCHANGED <<want, pausing, frameVars, pollVars>>
      BY <1>6 DEF Unanswered
    <2>6. /\ pc' \in [Task -> PollPCs \cup CallPCs]
          /\ pc'[Poll] \in PollPCs
          /\ \A c \in Calls : pc'[c] \in CallPCs
      <3>1. PICK where \in {"backoff", "failed"} : pc' = [pc EXCEPT ![k] = where]
        BY <2>4
      <3>2. where \in CallPCs
        BY <3>1 DEF CallPCs, Returned
      <3> QED BY <1>1, <3>1, <3>2 DEF TypeOK
    <2> QED BY <2>1, <2>2, <2>3, <2>5, <2>6 DEF TypeOK, frameVars, pollVars
  <1>7. CASE Resend(k)
    BY <1>1, <1>7 DEF TypeOK, Resend, CallPCs, frameVars, pollVars, landVars
  <1>8. CASE Readback(k)
    <2>1. Tail(pausing) \in Seq(Calls)
      BY <1>8, TailFacts DEF TypeOK, Readback
    <2> QED BY <1>1, <1>8, <2>1
            DEF TypeOK, Readback, CallPCs, frameVars, pollVars, landVars
  <1>9. CASE Commit(k)
    BY <1>1, <1>2, <1>9 DEF TypeOK, Commit, CallPCs, Returned, pollVars, landVars
  <1>10. CASE \E enabled \in {0, 1} : SetBackup(k, enabled)
    BY <1>1, <1>10 DEF TypeOK, SetBackup, CallPCs, frameVars, pollVars, landVars
  <1>11. CASE CancelWrite(k)
    <2>1. writeQueue' \in Seq(Calls)
      BY <1>11, WithoutIsTyped DEF TypeOK, CancelWrite
    <2>2. ioQueue' \in Seq(Task)
      BY <1>11, WithoutIsTyped DEF TypeOK, CancelWrite
    <2>3. Land(k) \/ UNCHANGED <<landVars, settled>>
      BY <1>11 DEF CancelWrite
    <2> QED BY <1>1, <1>11, <2>1, <2>2, <2>3, LandTyped
            DEF TypeOK, CancelWrite, CallPCs, Returned, frameVars, pollVars
  <1>12. CASE CancelReadback(k)
    <2>1. pausing' \in Seq(Calls)
      BY <1>12, WithoutIsTyped DEF TypeOK, CancelReadback
    <2>2. ioQueue' \in Seq(Task)
      BY <1>12, WithoutIsTyped DEF TypeOK, CancelReadback
    <2> QED BY <1>1, <1>12, <2>1, <2>2
            DEF TypeOK, CancelReadback, CallPCs, Returned, frameVars, pollVars, landVars
  <1> QED BY <1>4, <1>5, <1>6, <1>7, <1>8, <1>9, <1>10, <1>11, <1>12 DEF Writing, Calling

\* A step that changes nothing keeps the types.
LEMMA StutterTyped == ASSUME TypeOK, UNCHANGED vars PROVE TypeOK'
  BY DEF TypeOK, vars, queueVars, frameVars, pollVars, landVars

\* The types of PollCycle, for every number of calls and every tolerance.
THEOREM PollTypeCorrect == Spec => []TypeOK
  <1>1. Init => TypeOK
    BY InitTyped
  <1>2. TypeOK /\ [Next]_vars => TypeOK'
    BY PollingTyped, CallTyped, StutterTyped DEF Next
  <1> QED BY <1>1, <1>2, PTL DEF Spec

-----------------------------------------------------------------------------
(* What the switch shows. *)

\* A task whose request is under way leaves the queue of the lock.
LEMMA WireLeaves ==
    ASSUME TypeOK, QueueInv, NEW t \in Task, OnWire(t)
    PROVE  Tail(ioQueue) \in Seq(Task) /\ Thins(ioQueue, Tail(ioQueue), t)
  BY HeadLeaves DEF TypeOK, QueueInv, OnWire

\* A poll at its second request, and a readback that is under way: the poll
\* got its frame after that call had landed.
LEMMA FrameAfterCommit ==
    ASSUME TypeOK, Places, NEW k \in Calls, OnWire(k), pc[k] = "readback",
           pc[Poll] = "config"
    PROVE  k \notin unseen
  <1>1. Len(ioQueue) \in Nat \ {0} /\ ioQueue[1] = k
    BY TailFacts DEF TypeOK, OnWire
  <1>2. PICK j \in 1..Len(ioQueue) : ioQueue[j] = Poll
    BY DEF Places, FrameIsFresh
  <1>3. j # 1 /\ 1 \in 1..Len(ioQueue)
    BY <1>1, <1>2 DEF Calls, Poll
  <1>4. 1 < j
    BY <1>1, <1>3
  <1> QED BY <1>1, <1>2, <1>3, <1>4 DEF Places, FrameIsFresh

\* The initial state satisfies the invariant.
LEMMA InitInv == ASSUME Init PROVE Inv
  <1>1. ioQueue = << >> /\ pausing = << >>
    BY DEF Init
  <1>2. QueueInv
    BY <1>1 DEF QueueInv
  <1>3. LastComesLast
    BY <1>1 DEF Init, LastComesLast
  <1>4. pc[Poll] = "waiting"
    BY DEF Init, Poll, Task
  <1>5. FrameIsFresh
    BY <1>1, <1>4 DEF FrameIsFresh
  <1>6. Values
    BY <1>4 DEF Init, Values, ConfirmedBackupIsShown
  <1> QED BY <1>2, <1>3, <1>5, <1>6, InitTyped DEF Inv

\* Every step of the poll keeps the invariant.
LEMMA PollingInv ==
    ASSUME Inv, Polling
    PROVE  Places' /\ Values'
  <1>1. TypeOK /\ Places /\ Values /\ QueueInv
    BY DEF Inv, Places
  <1>2. Poll \in Task /\ last \in Task
    BY DEF Inv, TypeOK, Poll, Task
  <1>3. CASE PollStarts
    <2>1. Places'
      BY <1>1, <1>2, <1>3, JoiningKeepsPlaces DEF PollStarts, Requesting, landVars
    <2>2. Values'
      BY <1>1, <1>2, <1>3 DEF TypeOK, Values, ConfirmedBackupIsShown, PollStarts, landVars, frameVars
    <2> QED BY <2>1, <2>2
  <1>4. CASE PollReads
    <2>1. Places'
      BY <1>1, <1>4, ReadingKeepsPlaces
    <2>2. Values'
      BY <1>1, <1>2, <1>4 DEF TypeOK, Values, ConfirmedBackupIsShown, PollReads
    <2> QED BY <2>1, <2>2
  <1>5. ASSUME OnWire(Poll), ioQueue' = Tail(ioQueue), pc' = [pc EXCEPT ![Poll] = "waiting"],
               pc[Poll] # "pausing", UNCHANGED <<pausing, last, settled, unseen>>
        PROVE  Places'
    <2>1. ioQueue' \in Seq(Task) /\ Thins(ioQueue, ioQueue', Poll)
      BY <1>1, <1>2, <1>5, WireLeaves
    <2>2. "waiting" \in PollPCs \cup CallPCs /\ "waiting" \notin Requesting \cup {"pausing"}
      BY DEF PollPCs, Requesting
    <2> QED BY <1>1, <1>2, <1>5, <2>1, <2>2, LeavingKeepsPlaces
  <1>6. CASE PollSucceeds
    <2>1. Places'
      BY <1>5, <1>6 DEF PollSucceeds, landVars
    <2>2. Values'
      BY <1>1, <1>2, <1>6 DEF TypeOK, Values, ConfirmedBackupIsShown, PollSucceeds, landVars
    <2> QED BY <2>1, <2>2
  <1>7. CASE PollUnanswered /\ shown' \in {shown, lastGood} /\ lastGood' = lastGood
    <2>1. Places'
      BY <1>5, <1>7 DEF PollUnanswered, landVars
    <2>2. Values'
      BY <1>1, <1>2, <1>7 DEF TypeOK, Values, ConfirmedBackupIsShown, PollUnanswered, landVars
    <2> QED BY <2>1, <2>2
  <1>8. FailureTolerated \/ FailureReported \/ FirstRefreshFails =>
            PollUnanswered /\ shown' \in {shown, lastGood} /\ lastGood' = lastGood
    BY DEF FailureTolerated, FailureReported, FirstRefreshFails
  <1> QED BY <1>3, <1>4, <1>6, <1>7, <1>8 DEF Polling

\* Every step of a call keeps the invariant.
LEMMA CallInv ==
    ASSUME Inv, NEW k \in Calls, Writing(k) \/ Calling(k)
    PROVE  Places' /\ Values'
  <1>1. TypeOK /\ Places /\ Values /\ QueueInv
    BY DEF Inv, Places
  <1>2. k \in Task /\ Poll \in Task /\ k # Poll /\ last \in Task
    BY DEF Inv, TypeOK, Poll, Task, Calls
  <1>3. ASSUME NEW where \in CallPCs, where # "idle", pc' = [pc EXCEPT ![k] = where],
               UNCHANGED <<want, frameVars, landVars, settled>>
        PROVE  Values'
    BY <1>1, <1>2, <1>3 DEF TypeOK, Values, ConfirmedBackupIsShown, frameVars, landVars
  <1>4. ASSUME NEW where \in CallPCs, where # "idle", pc' = [pc EXCEPT ![k] = where],
               Land(k), UNCHANGED <<want, frameVars>>
        PROVE  Values'
    BY <1>1, <1>2, <1>4 DEF TypeOK, Values, ConfirmedBackupIsShown, frameVars, Land
  <1>5. ASSUME pc[k] \in {"idle", "queued", "backoff"}, pc' = [pc EXCEPT ![k] = "sending"],
               ioQueue' = Append(ioQueue, k), UNCHANGED <<pausing, landVars, settled>>
        PROVE  Places'
    BY <1>1, <1>2, <1>5, JoiningKeepsPlaces DEF Requesting, landVars
  <1>6. ASSUME NEW where \in {"queued", "cancelled"}, pc[k] \in {"idle", "queued", "backoff"},
               pc' = [pc EXCEPT ![k] = where], UNCHANGED <<ioQueue, pausing, landVars, settled>>
        PROVE  Places'
    <2>1. where \in CallPCs /\ where \notin Requesting \cup {"pausing"}
      BY <1>6 DEF CallPCs, Returned, Requesting
    <2>2. pc[k] \notin Requesting \cup {"pausing"}
      BY <1>6 DEF Requesting
    <2> QED BY <1>1, <1>6, <2>1, <2>2, MovingKeepsPlaces DEF landVars
  <1>7. ASSUME NEW where \in {"backoff"} \cup Returned, pc[k] \in {"sending", "readback"},
               pc' = [pc EXCEPT ![k] = where], UNCHANGED pausing,
               ioQueue' \in Seq(Task), Thins(ioQueue, ioQueue', k),
               \/ UNCHANGED <<last, settled, unseen>>
               \/ last' = k /\ settled' = FALSE /\ unseen' = unseen \cup {k}
               \/ /\ OnWire(k) /\ pc[k] = "readback"
                  /\ last = k /\ settled' = TRUE
                  /\ UNCHANGED <<last, unseen>>
        PROVE  Places'
    <2>1. where \in PollPCs \cup CallPCs /\ where \notin Requesting \cup {"pausing"}
      BY <1>7 DEF CallPCs, Returned, Requesting
    <2>2. pc[k] # "pausing"
      BY <1>7
    <2> QED BY <1>1, <1>2, <1>7, <2>1, <2>2, LeavingKeepsPlaces
  <1>8. {"queued", "sending", "backoff", "pausing", "readback"} \cup Returned \subseteq CallPCs
        /\ "idle" \notin Returned
    BY DEF CallPCs, Returned
  <1>9. CASE Acquire(k)
    BY <1>3, <1>5, <1>8, <1>9 DEF Acquire, landVars
  <1>10. CASE Resend(k)
    BY <1>3, <1>5, <1>8, <1>10 DEF Resend, landVars
  <1>11. CASE Answered(k)
    <2>1. Places'
      BY <1>1, <1>11, AnsweredKeepsPlaces
    <2> QED BY <1>4, <1>8, <1>11, <2>1 DEF Answered
  <1>12. CASE Unanswered(k)
    <2>1. ioQueue' \in Seq(Task) /\ Thins(ioQueue, ioQueue', k)
      BY <1>1, <1>2, <1>12, WireLeaves DEF Unanswered
    <2>2. PICK where \in {"backoff", "failed"} : pc' = [pc EXCEPT ![k] = where]
      BY <1>12 DEF Unanswered
    <2>3. where \in {"backoff"} \cup Returned /\ where \in CallPCs /\ where # "idle"
      BY <2>2 DEF Returned, CallPCs
    <2>4. pc[k] = "sending" /\ UNCHANGED <<want, pausing, frameVars>>
      BY <1>12 DEF Unanswered
    <2>5. CASE Land(k)
      BY <1>4, <1>7, <2>1, <2>2, <2>3, <2>4, <2>5 DEF Land
    <2>6. CASE UNCHANGED <<landVars, settled>>
      BY <1>3, <1>7, <2>1, <2>2, <2>3, <2>4, <2>6 DEF landVars
    <2> QED BY <1>12, <2>5, <2>6 DEF Unanswered
  <1>13. CASE Readback(k)
    <2>1. Places'
      BY <1>1, <1>13, ReadbackKeepsPlaces
    <2> QED BY <1>3, <1>8, <1>13, <2>1 DEF Readback
  <1>14. CASE Commit(k)
    <2>1. ioQueue' \in Seq(Task) /\ Thins(ioQueue, ioQueue', k)
      BY <1>1, <1>2, <1>14, WireLeaves DEF Commit
    <2>2. /\ pc[k] = "readback" /\ OnWire(k)
          /\ pc' = [pc EXCEPT ![k] = "ok"]
          /\ UNCHANGED <<pausing, last, unseen>>
          /\ settled' = (settled \/ last = k)
          /\ "ok" \in Returned
      BY <1>14 DEF Commit, landVars, Returned
    <2>3. ~settled
      <3>1. 1 \in 1..Len(ioQueue) /\ ioQueue[1] = k
        BY <2>2, TailFacts DEF Inv, TypeOK, OnWire
      <3> QED BY <2>2, <3>1 DEF Inv, LastComesLast
    <2>4. Places'
      <3>1. CASE last = k
        BY <1>7, <2>1, <2>2, <3>1
      <3>2. CASE last # k
        <4>1. settled' = settled
          BY <2>2, <2>3, <3>2 DEF Inv, TypeOK
        <4> QED BY <1>7, <2>1, <2>2, <4>1
      <3> QED BY <3>1, <3>2
    <2>5. pc[Poll] = "config" => k \notin unseen
      BY <1>1, <2>2, FrameAfterCommit
    <2>6. Values'
      BY <1>1, <1>2, <1>14, <2>2, <2>3, <2>5
         DEF TypeOK, Values, ConfirmedBackupIsShown, Commit, landVars
    <2> QED BY <2>4, <2>6
  <1>15. ASSUME NEW enabled \in {0, 1}, SetBackup(k, enabled)
         PROVE  Places' /\ Values'
    <2>1. Places'
      BY <1>5, <1>6, <1>15 DEF SetBackup
    <2>2. last # k
      BY <1>2, <1>15 DEF Inv, Values, SetBackup
    <2>3. Values'
      BY <1>1, <1>2, <1>15, <2>2
         DEF TypeOK, Values, ConfirmedBackupIsShown, SetBackup, landVars, frameVars
    <2> QED BY <2>1, <2>3
  <1>16. CASE CancelWrite(k)
    <2>1. pc' = [pc EXCEPT ![k] = "cancelled"] /\ UNCHANGED <<want, pausing, frameVars>>
      BY <1>16 DEF CancelWrite
    <2>2. "cancelled" \in Returned /\ "cancelled" \in CallPCs
      BY DEF Returned, CallPCs
    <2>3. CASE pc[k] = "sending" /\ Without(ioQueue, k, ioQueue')
      <3>1. ioQueue' \in Seq(Task) /\ Thins(ioQueue, ioQueue', k)
        BY <1>1, <2>3, OneLeaves DEF TypeOK, QueueInv
      <3>2. CASE Land(k)
        BY <1>4, <1>7, <2>1, <2>2, <2>3, <3>1, <3>2 DEF Land
      <3>3. CASE UNCHANGED <<landVars, settled>>
        BY <1>3, <1>7, <2>1, <2>2, <2>3, <3>1, <3>3 DEF landVars
      <3> QED BY <1>16, <2>3, <3>2, <3>3 DEF CancelWrite
    <2>4. CASE pc[k] \in {"queued", "backoff"} /\ UNCHANGED <<ioQueue, landVars, settled>>
      BY <1>3, <1>6, <2>1, <2>2, <2>4
    <2> QED BY <1>16, <2>3, <2>4 DEF CancelWrite
  <1>17. CASE CancelReadback(k)
    <2>1. pc' = [pc EXCEPT ![k] = "cancelled"] /\ UNCHANGED <<want, frameVars, landVars, settled>>
      BY <1>17 DEF CancelReadback
    <2>2. "cancelled" \in Returned /\ "cancelled" \in CallPCs
      BY DEF Returned, CallPCs
    <2>3. Values'
      BY <1>3, <2>1, <2>2
    <2>4. CASE Without(pausing, k, pausing') /\ UNCHANGED ioQueue
      BY <1>1, <2>1, <2>3, <2>4, LeavingPauseKeepsPlaces DEF landVars
    <2>5. CASE pc[k] = "readback" /\ Without(ioQueue, k, ioQueue') /\ UNCHANGED pausing
      <3>1. ioQueue' \in Seq(Task) /\ Thins(ioQueue, ioQueue', k)
        BY <1>1, <2>5, OneLeaves DEF TypeOK, QueueInv
      <3> QED BY <1>7, <2>1, <2>2, <2>3, <2>5, <3>1 DEF landVars
    <2> QED BY <1>17, <2>4, <2>5 DEF CancelReadback
  <1> QED BY <1>9, <1>10, <1>11, <1>12, <1>13, <1>14, <1>15, <1>16, <1>17 DEF Writing, Calling

\* A step that changes nothing keeps the invariant.
LEMMA StutterInv == ASSUME Inv, UNCHANGED vars PROVE Inv'
  BY DEF Inv, TypeOK, QueueInv, LastComesLast, FrameIsFresh, Values, ConfirmedBackupIsShown,
         vars, queueVars, frameVars, pollVars, landVars

\* The invariant holds in every state.
LEMMA Invariance == Spec => []Inv
  <1>1. Init => Inv
    BY InitInv
  <1>2. Inv /\ [Next]_vars => Inv'
    <2>1. ASSUME Inv, Next PROVE Inv'
      <3>1. TypeOK'
        BY <2>1, PollingTyped, CallTyped DEF Inv, Next
      <3>2. Places' /\ Values'
        BY <2>1, PollingInv, CallInv DEF Next
      <3> QED BY <3>1, <3>2 DEF Inv, Places
    <2> QED BY <2>1, StutterInv
  <1> QED BY <1>1, <1>2, PTL DEF Spec

\* Once the write that landed last is committed, the switch shows what the
\* device has, for every number of calls and every tolerance.
THEOREM ConfirmedStaysShown == Spec => []ConfirmedBackupIsShown
  <1>1. Inv => ConfirmedBackupIsShown
    BY DEF Inv, Values
  <1> QED BY <1>1, Invariance, PTL

-----------------------------------------------------------------------------
(* Tolerated failures. *)

\* The entities are unavailable only after more unanswered polls in a row than
\* are tolerated, for every tolerance.
THEOREM BlipsNeverFlap == Spec => []BlipsAreTolerated
  <1>1. Init => TypeOK /\ Streaks
    <2>1. Init => Streaks
      BY DEF Init, Streaks, BlipsAreTolerated
    <2> QED BY <2>1, InitTyped
  <1>2. TypeOK /\ Streaks /\ [Next]_vars => (TypeOK /\ Streaks)'
    <2> SUFFICES ASSUME TypeOK, Streaks, [Next]_vars PROVE TypeOK' /\ Streaks'
      OBVIOUS
    <2>1. TypeOK'
      BY PollingTyped, CallTyped, StutterTyped DEF Next
    <2>2. failures \in 0..FailureBound /\ missed \in 0..FailureBound /\ lastUpdateOk \in BOOLEAN
      BY DEF TypeOK
    <2>3. CASE UNCHANGED pollVars
      BY <2>1, <2>3 DEF Streaks, BlipsAreTolerated, pollVars
    <2>4. CASE PollSucceeds
      BY <2>1, <2>2, <2>4, PollAssumption DEF Streaks, BlipsAreTolerated, PollSucceeds
    <2>5. CASE FailureTolerated
      BY <2>1, <2>2, <2>5, PollAssumption
         DEF Streaks, BlipsAreTolerated, FailureTolerated, PollUnanswered, Tolerated, Counted, FailureBound
    <2>6. CASE FailureReported
      BY <2>1, <2>2, <2>6, PollAssumption
         DEF Streaks, BlipsAreTolerated, FailureReported, PollUnanswered, Tolerated, Counted, FailureBound
    <2>7. CASE FirstRefreshFails
      BY <2>1, <2>2, <2>7, PollAssumption
         DEF Streaks, BlipsAreTolerated, FirstRefreshFails, PollUnanswered, Counted, FailureBound
    <2>8. PollStarts \/ PollReads \/ UNCHANGED vars => UNCHANGED pollVars
      BY DEF PollStarts, PollReads, vars
    <2>9. ASSUME NEW k \in Calls, Writing(k) \/ Calling(k) PROVE UNCHANGED pollVars
      BY <2>9 DEF Writing, Calling, Acquire, Answered, Unanswered, Resend, Readback, Commit,
                  SetBackup, CancelWrite, CancelReadback
    <2> QED BY <2>1, <2>3, <2>4, <2>5, <2>6, <2>7, <2>8, <2>9 DEF Next, Polling
  <1>3. Streaks => BlipsAreTolerated
    BY DEF Streaks
  <1> QED BY <1>1, <1>2, <1>3, PTL DEF Spec

-----------------------------------------------------------------------------
(* PollCycle implements Writer: the write lock and the orders of the calls. *)

\* A call waits in the write lock until it is its turn; only the first has a
\* request on the wire or pauses between two attempts.
WriteInv ==
    /\ \A i \in 1..Len(writeQueue) :
        /\ pc[writeQueue[i]] \in {"queued", "sending", "backoff"}
        /\ i # 1 => pc[writeQueue[i]] = "queued"
    /\ \A i, j \in 1..Len(writeQueue) : writeQueue[i] = writeQueue[j] => i = j

\* Who moves is not in the lock, or owns it and makes another attempt.
LEMMA MovingKeepsWrites ==
    ASSUME TypeOK, WriteInv, NEW t \in Task, NEW where, pc' = [pc EXCEPT ![t] = where],
           UNCHANGED writeQueue,
           \/ \A i \in 1..Len(writeQueue) : writeQueue[i] # t
           \/ where \in {"sending", "backoff"} /\ writeQueue # << >> /\ writeQueue[1] = t
    PROVE  WriteInv'
  <1>1. \A i \in 1..Len(writeQueue) : writeQueue[i] \in Task
    BY DEF TypeOK, Task
  <1>2. \A u \in Task : pc'[u] = IF u = t THEN where ELSE pc[u]
    BY DEF TypeOK
  <1>3. writeQueue # << >> => 1 \in 1..Len(writeQueue)
    BY DEF TypeOK
  <1> QED BY <1>1, <1>2, <1>3 DEF WriteInv

\* A call joins behind the others, and owns the lock when it was free.
LEMMA JoiningKeepsWrites ==
    ASSUME TypeOK, WriteInv, NEW k \in Calls, pc[k] = "idle",
           writeQueue' = Append(writeQueue, k),
           pc' = [pc EXCEPT ![k] = IF writeQueue = << >> THEN "sending" ELSE "queued"]
    PROVE  WriteInv'
  <1>1. /\ Len(writeQueue) \in Nat
        /\ Len(writeQueue') = Len(writeQueue) + 1
        /\ \A i \in 1..Len(writeQueue) : writeQueue'[i] = writeQueue[i]
        /\ writeQueue'[Len(writeQueue) + 1] = k
    BY AppendFacts DEF TypeOK
  <1>2. \A i \in 1..Len(writeQueue) : writeQueue[i] \in Task /\ writeQueue[i] # k
    BY DEF TypeOK, Task, WriteInv
  <1>3. \A u \in Task :
            pc'[u] = IF u = k THEN IF writeQueue = << >> THEN "sending" ELSE "queued" ELSE pc[u]
    BY DEF TypeOK
  <1>4. k \in Task /\ (Len(writeQueue) = 0 <=> writeQueue = << >>)
    BY EmptySeq DEF TypeOK, Task
  <1>5. \A i \in 1..Len(writeQueue') : i \in 1..Len(writeQueue) \/ i = Len(writeQueue) + 1
    BY <1>1
  <1>6. ASSUME NEW i \in 1..Len(writeQueue')
        PROVE  /\ pc'[writeQueue'[i]] \in {"queued", "sending", "backoff"}
               /\ i # 1 => pc'[writeQueue'[i]] = "queued"
    <2>1. CASE i \in 1..Len(writeQueue)
      BY <1>1, <1>2, <1>3, <2>1 DEF WriteInv
    <2>2. CASE i = Len(writeQueue) + 1
      BY <1>1, <1>3, <1>4, <2>2
    <2> QED BY <1>5, <2>1, <2>2
  <1>7. \A i, j \in 1..Len(writeQueue') : writeQueue'[i] = writeQueue'[j] => i = j
    BY <1>1, <1>2, <1>5 DEF WriteInv
  <1> QED BY <1>6, <1>7 DEF WriteInv

\* A call leaves the lock, done, failed or cancelled.
LEMMA LeavingKeepsWrites ==
    ASSUME TypeOK, WriteInv, NEW n \in 1..Len(writeQueue),
           writeQueue' = RemoveAt(writeQueue, n),
           NEW where, pc' = [pc EXCEPT ![writeQueue[n]] = where]
    PROVE  WriteInv'
  <1>1. /\ Len(writeQueue) \in Nat
        /\ Len(writeQueue') = Len(writeQueue) - 1
        /\ \A i \in 1..Len(writeQueue) - 1 :
            writeQueue'[i] = IF i < n THEN writeQueue[i] ELSE writeQueue[i + 1]
    <2>1. writeQueue \in Seq(Calls)
      BY DEF TypeOK
    <2>2. \A r : r = RemoveAt(writeQueue, n) =>
            /\ Len(r) = Len(writeQueue) - 1
            /\ \A i \in 1..Len(writeQueue) - 1 :
                r[i] = IF i < n THEN writeQueue[i] ELSE writeQueue[i + 1]
      BY <2>1, RemoveAtFacts
    <2>3. Len(writeQueue) \in Nat
      BY <2>1
    <2> QED BY <2>2, <2>3, Zenon
  <1>2. ASSUME NEW i \in 1..Len(writeQueue')
        PROVE  \E j \in 1..Len(writeQueue) :
                /\ writeQueue'[i] = writeQueue[j]
                /\ j # n /\ (i # 1 => j # 1)
                /\ j = IF i < n THEN i ELSE i + 1
    BY <1>1
  <1>3. \A i \in 1..Len(writeQueue) : writeQueue[i] \in Task
    BY DEF TypeOK, Task
  <1>4. \A u \in Task : pc'[u] = IF u = writeQueue[n] THEN where ELSE pc[u]
    BY DEF TypeOK
  <1>5. ASSUME NEW i \in 1..Len(writeQueue')
        PROVE  /\ pc'[writeQueue'[i]] \in {"queued", "sending", "backoff"}
               /\ i # 1 => pc'[writeQueue'[i]] = "queued"
    <2>1. PICK j \in 1..Len(writeQueue) :
                writeQueue'[i] = writeQueue[j] /\ j # n /\ (i # 1 => j # 1)
      BY <1>2
    <2>2. writeQueue[j] # writeQueue[n]
      BY <2>1 DEF WriteInv
    <2>3. pc'[writeQueue[j]] = pc[writeQueue[j]]
      BY <1>3, <1>4, <2>2
    <2> QED BY <2>1, <2>3 DEF WriteInv
  <1>6. ASSUME NEW i \in 1..Len(writeQueue'), NEW j \in 1..Len(writeQueue'),
               writeQueue'[i] = writeQueue'[j]
        PROVE  i = j
    <2>1. PICK a \in 1..Len(writeQueue) :
                writeQueue'[i] = writeQueue[a] /\ a = IF i < n THEN i ELSE i + 1
      BY <1>2
    <2>2. PICK b \in 1..Len(writeQueue) :
                writeQueue'[j] = writeQueue[b] /\ b = IF j < n THEN j ELSE j + 1
      BY <1>2
    <2>3. a = b
      BY <1>6, <2>1, <2>2 DEF WriteInv
    <2> QED BY <1>1, <2>1, <2>2, <2>3
  <1> QED BY <1>5, <1>6 DEF WriteInv

\* A call that leaves as the first leaves by Tail.
LEMMA TailKeepsWrites ==
    ASSUME TypeOK, WriteInv, writeQueue # << >>, writeQueue' = Tail(writeQueue),
           NEW where, pc' = [pc EXCEPT ![writeQueue[1]] = where]
    PROVE  WriteInv'
  <1>1. 1 \in 1..Len(writeQueue) /\ writeQueue \in Seq(Calls)
    BY TailFacts DEF TypeOK
  <1>2. writeQueue' = RemoveAt(writeQueue, 1)
    BY <1>1, FirstLeaves
  <1> QED BY <1>1, <1>2, LeavingKeepsWrites

\* The owner is the first in the lock; only the first is past waiting.
LEMMA OwnerFirst ==
    ASSUME TypeOK, WriteInv
    PROVE  /\ \A k \in Calls : Owns(k) => writeQueue # << >> /\ writeQueue[1] = k
           /\ \A n \in 1..Len(writeQueue) :
                pc[writeQueue[n]] # "queued" => n = 1 /\ writeQueue # << >>
           /\ \A t \in Task : pc[t] \notin {"queued", "sending", "backoff"} =>
                \A i \in 1..Len(writeQueue) : writeQueue[i] # t
  BY TailFacts DEF TypeOK, WriteInv, Owns

\* A step that leaves the lock alone keeps what is said of it.
LEMMA PollingKeepsWrites == ASSUME Inv, WriteInv, Polling PROVE WriteInv'
  <1>1. TypeOK /\ Poll \in Task
    BY DEF Inv, Task
  <1>2. \A i \in 1..Len(writeQueue) : writeQueue[i] # Poll
    <2>1. \A i \in 1..Len(writeQueue) : writeQueue[i] \in Calls
      BY <1>1 DEF TypeOK
    <2> QED BY <2>1 DEF Calls, Poll
  <1>3. UNCHANGED writeQueue /\ \E where : pc' = [pc EXCEPT ![Poll] = where]
    BY DEF Polling, PollStarts, PollReads, PollSucceeds, PollUnanswered,
           FailureTolerated, FailureReported, FirstRefreshFails
  <1> QED BY <1>1, <1>2, <1>3, MovingKeepsWrites

\* Every step of a call keeps its place in the lock and that of the others.
LEMMA CallKeepsWrites ==
    ASSUME Inv, WriteInv, NEW k \in Calls, Writing(k) \/ Calling(k)
    PROVE  WriteInv'
  <1>1. TypeOK /\ k \in Task
    BY DEF Inv, Task
  <1>2. ASSUME NEW where, pc' = [pc EXCEPT ![k] = where], UNCHANGED writeQueue,
               pc[k] \in {"pausing", "readback"}
        PROVE  WriteInv'
    <2>1. \A i \in 1..Len(writeQueue) : writeQueue[i] # k
      BY <1>1, <1>2, OwnerFirst
    <2> QED BY <1>1, <1>2, <2>1, MovingKeepsWrites
  <1>3. ASSUME NEW where, pc' = [pc EXCEPT ![k] = where],
               Owns(k), writeQueue' = Tail(writeQueue)
        PROVE  WriteInv'
    <2>1. writeQueue # << >> /\ writeQueue[1] = k
      BY <1>1, <1>3, OwnerFirst
    <2> QED BY <1>1, <1>3, <2>1, TailKeepsWrites
  <1>4. ASSUME NEW where \in {"sending", "backoff"}, pc' = [pc EXCEPT ![k] = where],
               Owns(k), UNCHANGED writeQueue
        PROVE  WriteInv'
    <2>1. writeQueue # << >> /\ writeQueue[1] = k
      BY <1>1, <1>4, OwnerFirst
    <2> QED BY <1>1, <1>4, <2>1, MovingKeepsWrites
  <1>5. \A i \in 1..Len(pausing) : pc[pausing[i]] = "pausing"
    BY DEF Inv, QueueInv
  <1>6. CASE Acquire(k)
    BY <1>4, <1>6 DEF Acquire
  <1>7. CASE Answered(k)
    BY <1>3, <1>7 DEF Answered
  <1>8. CASE Unanswered(k)
    BY <1>3, <1>4, <1>8 DEF Unanswered
  <1>9. CASE Resend(k)
    <2>1. CASE \A i \in 1..Len(writeQueue) : writeQueue[i] # k
      BY <1>1, <1>9, <2>1, MovingKeepsWrites DEF Resend
    <2>2. CASE \E i \in 1..Len(writeQueue) : writeQueue[i] = k
      <3>1. writeQueue # << >> /\ writeQueue[1] = k
        BY <1>1, <1>9, <2>2, OwnerFirst DEF Resend
      <3> QED BY <1>1, <1>9, <3>1, MovingKeepsWrites DEF Resend
    <2> QED BY <2>1, <2>2
  <1>10. CASE Readback(k)
    <2>1. pc[k] = "pausing"
      BY <1>1, <1>5, <1>10, TailFacts DEF Readback, TypeOK
    <2> QED BY <1>2, <1>10, <2>1 DEF Readback
  <1>11. CASE Commit(k)
    BY <1>2, <1>11 DEF Commit
  <1>12. ASSUME NEW enabled \in {0, 1}, SetBackup(k, enabled) PROVE WriteInv'
    BY <1>1, <1>12, JoiningKeepsWrites DEF SetBackup
  <1>13. CASE CancelWrite(k)
    <2>1. PICK n \in 1..Len(writeQueue) :
                writeQueue[n] = k /\ writeQueue' = RemoveAt(writeQueue, n)
      BY <1>13 DEF CancelWrite, Without
    <2> QED BY <1>1, <1>13, <2>1, LeavingKeepsWrites DEF CancelWrite
  <1>14. CASE CancelReadback(k)
    <2>1. pc[k] \in {"pausing", "readback"}
      BY <1>5, <1>14 DEF CancelReadback, Without
    <2> QED BY <1>2, <1>14, <2>1 DEF CancelReadback
  <1> QED BY <1>6, <1>7, <1>8, <1>9, <1>10, <1>11, <1>12, <1>13, <1>14 DEF Writing, Calling

\* The lock is in order in every state.
LEMMA WritesInOrder == Spec => []WriteInv
  <1>1. Init => WriteInv
    BY DEF Init, WriteInv
  <1>2. Inv /\ WriteInv /\ [Next]_vars => WriteInv'
    <2>1. ASSUME WriteInv, UNCHANGED vars PROVE WriteInv'
      BY <2>1 DEF WriteInv, vars, queueVars
    <2> QED BY <2>1, PollingKeepsWrites, CallKeepsWrites DEF Next
  <1> QED BY <1>1, <1>2, Invariance, PTL DEF Spec

-----------------------------------------------------------------------------
(* The orders of the calls in the lock. *)

OrdersOf(q, w) ==
    [i \in 1..Len(q) |-> [task |-> q[i], kind |-> "backup", payload |-> w[q[i]]]]

OrderOf(w) == [k \in Calls |-> [task |-> k, kind |-> "backup", payload |-> w[k]]]

\* The orders of a queue are what its calls show.
LEMMA OrdersAreShown ==
    ASSUME NEW q \in Seq(Calls), NEW w
    PROVE  OrdersOf(q, w) = Mapped(q, OrderOf(w))
  <1>1. \A i \in 1..Len(q) : q[i] \in Calls
    OBVIOUS
  <1> QED BY <1>1 DEF OrdersOf, OrderOf, Mapped

\* They are as many as the calls, and typed.
LEMMA OrdersAreTyped ==
    ASSUME NEW q \in Seq(Calls), NEW w \in [Calls -> {0, 1}]
    PROVE  /\ OrdersOf(q, w) \in Seq(Writer!Orders)
           /\ Len(OrdersOf(q, w)) = Len(q)
           /\ \A i \in 1..Len(q) : OrdersOf(q, w)[i] = OrderOf(w)[q[i]]
  <1> DEFINE f == OrderOf(w)
  <1>1. \A k \in Calls : f[k] \in Writer!Orders
    BY DEF OrderOf, Writer!Orders
  <1> HIDE DEF f
  <1>2. /\ Mapped(q, f) \in Seq(Writer!Orders)
        /\ Len(Mapped(q, f)) = Len(q)
        /\ \A i \in 1..Len(q) : Mapped(q, f)[i] = f[q[i]]
    BY <1>1, MappedType, MappedFacts
  <1> QED BY <1>2, OrdersAreShown DEF f

\* A call that joins adds its order at the end.
LEMMA OrdersGrow ==
    ASSUME NEW q \in Seq(Calls), NEW k \in Calls, NEW w, NEW w2,
           \A i \in 1..Len(q) : w2[q[i]] = w[q[i]]
    PROVE  OrdersOf(Append(q, k), w2) = Append(OrdersOf(q, w), OrderOf(w2)[k])
  <1> DEFINE f == OrderOf(w2)
             r == Append(q, k)
  <1>1. r \in Seq(Calls)
    BY AppendFacts
  <1> HIDE DEF f, r
  <1>2. OrdersOf(r, w2) = Mapped(r, f) /\ OrdersOf(q, w2) = Mapped(q, f)
    BY <1>1, OrdersAreShown DEF f
  <1>3. Mapped(r, f) = Append(Mapped(q, f), f[k])
    BY MappedAppend DEF r
  <1>4. OrdersOf(q, w2) = OrdersOf(q, w)
    BY DEF OrdersOf
  <1> QED BY <1>2, <1>3, <1>4 DEF f, r

\* When a call leaves, so does its order.
LEMMA OrdersRemoved ==
    ASSUME NEW q \in Seq(Calls), NEW n \in 1..Len(q), NEW w
    PROVE  OrdersOf(RemoveAt(q, n), w) = RemoveAt(OrdersOf(q, w), n)
  <1> DEFINE f == OrderOf(w)
             r == RemoveAt(q, n)
  <1>1. r \in Seq(Calls)
    BY RemoveAtFacts
  <1> HIDE DEF f, r
  <1>2. OrdersOf(r, w) = Mapped(r, f) /\ OrdersOf(q, w) = Mapped(q, f)
    BY <1>1, OrdersAreShown DEF f
  <1>3. Mapped(r, f) = RemoveAt(Mapped(q, f), n)
    BY MappedRemoveAt DEF r
  <1> QED BY <1>2, <1>3 DEF r

\* The orders at hand are those of the calls in the lock.
LEMMA PendingFacts ==
    ASSUME TypeOK
    PROVE  /\ writeQueue \in Seq(Calls) /\ want \in [Calls -> {0, 1}]
           /\ Pending = OrdersOf(writeQueue, want)
           /\ Pending \in Seq(Writer!Orders)
           /\ Len(Pending) = Len(writeQueue)
           /\ \A i \in 1..Len(writeQueue) : Pending[i] = OrderOf(want)[writeQueue[i]]
  <1>1. Pending = OrdersOf(writeQueue, want)
    BY DEF Pending, OrdersOf
  <1>2. writeQueue \in Seq(Calls) /\ want \in [Calls -> {0, 1}]
    BY DEF TypeOK
  <1> QED BY <1>1, <1>2, OrdersAreTyped

-----------------------------------------------------------------------------
(* The steps of the writer. *)

\* A call of the switch places an order.
LEMMA JoinStep ==
    ASSUME TypeOK, WriteInv, NEW k \in Calls, NEW enabled \in {0, 1}, SetBackup(k, enabled)
    PROVE  Writer!Next
  <1> DEFINE o == [task |-> k, kind |-> "backup", payload |-> enabled]
  <1>1. /\ pc[k] = "idle" /\ writeQueue' = Append(writeQueue, k)
        /\ want' = [want EXCEPT ![k] = enabled] /\ backup' = backup
    BY DEF SetBackup, landVars
  <1>2. /\ writeQueue \in Seq(Calls)
        /\ \A i \in 1..Len(writeQueue) : writeQueue[i] \in Calls /\ writeQueue[i] # k
    <2>1. k \in Task /\ writeQueue \in Seq(Calls)
      BY DEF TypeOK, Task
    <2>2. \A i \in 1..Len(writeQueue) : writeQueue[i] # k
      BY <1>1, <2>1, OwnerFirst
    <2> QED BY <2>1, <2>2
  <1>3. \A i \in 1..Len(writeQueue) : want'[writeQueue[i]] = want[writeQueue[i]]
    BY <1>1, <1>2 DEF TypeOK
  <1>4. OrderOf(want')[k] = o
    BY <1>1 DEF OrderOf, TypeOK
  <1>5. OrdersOf(Append(writeQueue, k), want') = Append(OrdersOf(writeQueue, want), OrderOf(want')[k])
    <2>1. \A q \in Seq(Calls) : \A w, w2 :
            (\A i \in 1..Len(q) : w2[q[i]] = w[q[i]])
            => OrdersOf(Append(q, k), w2) = Append(OrdersOf(q, w), OrderOf(w2)[k])
      BY OrdersGrow, Zenon
    <2> QED BY <1>2, <1>3, <2>1, Zenon
  <1>6. Pending' = OrdersOf(Append(writeQueue, k), want')
    BY <1>1 DEF Pending, OrdersOf
  <1>7. Pending' = Append(Pending, o)
    BY <1>4, <1>5, <1>6, PendingFacts
  <1>8. o \in Writer!Orders
    BY DEF Writer!Orders
  <1>9. \A i \in 1..Len(Pending) : Pending[i].task # o.task
    <2>1. \A i \in 1..Len(writeQueue) : Pending[i].task = writeQueue[i]
      <3>1. \A i \in 1..Len(writeQueue) : Pending[i] = OrderOf(want)[writeQueue[i]]
        BY PendingFacts
      <3>2. \A c \in Calls : OrderOf(want)[c].task = c
        BY DEF OrderOf
      <3> QED BY <1>2, <3>1, <3>2
    <2> QED BY <1>2, <2>1, PendingFacts
  <1> HIDE DEF o
  <1>10. Writer!Join(o)
    BY <1>1, <1>7, <1>9 DEF Writer!Join
  <1> QED BY <1>8, <1>10 DEF Writer!Next

\* The device executes the order at the head of the lock.
LEMMA ExecuteStep ==
    ASSUME TypeOK, writeQueue # << >>, Land(writeQueue[1]), UNCHANGED want,
           writeQueue' \in {writeQueue, Tail(writeQueue)}
    PROVE  Writer!Next
  <1> DEFINE k == writeQueue[1]
  <1>1. 1 \in 1..Len(writeQueue) /\ writeQueue \in Seq(Calls) /\ k \in Calls
    BY TailFacts DEF TypeOK
  <1>2. Pending' = OrdersOf(writeQueue', want)
    BY DEF Pending, OrdersOf
  <1>3. Tail(writeQueue) = RemoveAt(writeQueue, 1)
    BY <1>1, FirstLeaves
  <1>4. Pending # << >> /\ Pending \in Seq(Writer!Orders)
    BY <1>1, PendingFacts
  <1>5. OrdersOf(Tail(writeQueue), want) = Tail(Pending)
    <2>1. OrdersOf(RemoveAt(writeQueue, 1), want) = RemoveAt(Pending, 1)
      BY <1>1, OrdersRemoved, PendingFacts
    <2>2. RemoveAt(Pending, 1) = Tail(Pending)
      BY <1>4, FirstLeaves
    <2> QED BY <1>3, <2>1, <2>2
  <1>6. Pending' \in {Pending, Tail(Pending)}
    BY <1>2, <1>5, PendingFacts
  <1>7. Head(Pending) = [task |-> k, kind |-> "backup", payload |-> want[k]]
    <2>1. Head(Pending) = Pending[1]
      BY <1>4, TailFacts
    <2>2. Pending[1] = OrderOf(want)[k]
      BY <1>1, PendingFacts
    <2>3. OrderOf(want)[k] = [task |-> k, kind |-> "backup", payload |-> want[k]]
      BY <1>1 DEF OrderOf
    <2> QED BY <2>1, <2>2, <2>3
  <1>8. backup' = want[k]
    BY DEF Land
  <1> HIDE DEF k
  <1>9. [held |-> None, short |-> FALSE, backup |-> backup']
          = Writer!Executed(Head(Pending))
    <2>1. Head(Pending).kind = "backup" /\ Head(Pending).payload = want[k]
      BY <1>7
    <2>2. Writer!Executed(Head(Pending))
            = [[held |-> None, short |-> FALSE, backup |-> backup]
                 EXCEPT !.backup = Head(Pending).payload]
      BY <2>1 DEF Writer!Executed
    <2>3. \A h, f, a, b : [held |-> h, short |-> f, backup |-> b]
                          = [[held |-> h, short |-> f, backup |-> a] EXCEPT !.backup = b]
      OBVIOUS
    <2> QED BY <1>8, <2>1, <2>2, <2>3, Zenon
  <1>10. Writer!Execute
    BY <1>4, <1>6, <1>9 DEF Writer!Execute
  <1> QED BY <1>10 DEF Writer!Next

\* A call is done with, or withdraws its order.
LEMMA LeaveStep ==
    ASSUME TypeOK, NEW n \in 1..Len(writeQueue), writeQueue' = RemoveAt(writeQueue, n),
           UNCHANGED <<want, backup>>
    PROVE  Writer!Next
  <1>1. Pending' = OrdersOf(writeQueue', want)
    BY DEF Pending, OrdersOf
  <1>2. OrdersOf(RemoveAt(writeQueue, n), want) = RemoveAt(Pending, n)
    BY OrdersRemoved, PendingFacts
  <1>3. Pending' = RemoveAt(Pending, n) /\ n \in 1..Len(Pending)
    BY <1>1, <1>2, PendingFacts
  <1>4. Writer!Leave
    BY <1>3 DEF Writer!Leave, Writer!RemoveAt, RemoveAt
  <1> QED BY <1>4 DEF Writer!Next

\* Whatever leaves the orders and the output alone is no step of the writer.
LEMMA StutterStep ==
    ASSUME UNCHANGED <<writeQueue, want, backup>>
    PROVE  UNCHANGED Writer!vars
  BY DEF Pending, Writer!vars

\* However an attempt of the owner ends, the device has executed the first
\* order or nothing.
LEMMA OwnerStep ==
    ASSUME TypeOK, writeQueue # << >>,
           Land(writeQueue[1]) \/ UNCHANGED backup,
           writeQueue' \in {writeQueue, Tail(writeQueue)}, UNCHANGED want
    PROVE  [Writer!Next]_(Writer!vars)
  <1>1. CASE Land(writeQueue[1])
    BY <1>1, ExecuteStep
  <1>2. CASE UNCHANGED backup /\ writeQueue' = Tail(writeQueue)
    <2>1. 1 \in 1..Len(writeQueue) /\ writeQueue' = RemoveAt(writeQueue, 1)
      BY <1>2, TailFacts, FirstLeaves DEF TypeOK
    <2> QED BY <1>2, <2>1, LeaveStep
  <1>3. CASE UNCHANGED backup /\ writeQueue' = writeQueue
    BY <1>3, StutterStep
  <1> QED BY <1>1, <1>2, <1>3

\* A cancelled call withdraws its order, or its request landed before.
LEMMA CancelStep ==
    ASSUME TypeOK, WriteInv, NEW k \in Calls, CancelWrite(k)
    PROVE  [Writer!Next]_(Writer!vars)
  <1>1. PICK n \in 1..Len(writeQueue) :
            writeQueue[n] = k /\ writeQueue' = RemoveAt(writeQueue, n)
    BY DEF CancelWrite, Without
  <1>2. UNCHANGED want
    BY DEF CancelWrite
  <1>3. CASE pc[k] = "sending" /\ Land(k)
    <2>1. n = 1 /\ writeQueue # << >>
      BY <1>1, <1>3, OwnerFirst
    <2>2. writeQueue' = Tail(writeQueue)
      BY <1>1, <2>1, FirstLeaves DEF TypeOK
    <2> QED BY <1>1, <1>2, <1>3, <2>1, <2>2, OwnerStep
  <1>4. CASE UNCHANGED backup
    BY <1>1, <1>2, <1>4, LeaveStep
  <1> QED BY <1>3, <1>4 DEF CancelWrite, landVars

\* The coordinator starts as a writer without orders.
LEMMA WriterInit == Init => Writer!Init
  <1> SUFFICES ASSUME Init PROVE Writer!Init
    OBVIOUS
  <1>1. Len(writeQueue) = 0 /\ backup \in {0, 1}
    BY DEF Init
  <1>2. Pending = << >>
    BY <1>1 DEF Pending
  <1> QED BY <1>1, <1>2 DEF Writer!Init

\* Every step of the poll cycle is a step of the writer, or changes neither
\* the orders nor the output.
LEMMA WriterNext == TypeOK /\ WriteInv /\ [Next]_vars => [Writer!Next]_(Writer!vars)
  <1> SUFFICES ASSUME TypeOK, WriteInv, [Next]_vars PROVE [Writer!Next]_(Writer!vars)
    OBVIOUS
  <1>1. CASE Polling \/ UNCHANGED vars
    BY <1>1, StutterStep
       DEF Polling, PollStarts, PollReads, PollSucceeds, PollUnanswered, FailureTolerated,
           FailureReported, FirstRefreshFails, vars, queueVars, landVars
  <1>2. ASSUME NEW k \in Calls, Acquire(k) \/ Resend(k) \/ Readback(k) \/ Commit(k)
                                \/ CancelReadback(k)
        PROVE  UNCHANGED Writer!vars
    BY <1>2, StutterStep DEF Acquire, Resend, Readback, Commit, CancelReadback, landVars
  <1>3. ASSUME NEW k \in Calls, Answered(k) \/ Unanswered(k)
        PROVE  [Writer!Next]_(Writer!vars)
    <2>1. writeQueue # << >> /\ writeQueue[1] = k
      BY <1>3, OwnerFirst DEF Answered, Unanswered
    <2>2. /\ Land(k) \/ UNCHANGED backup
          /\ writeQueue' \in {writeQueue, Tail(writeQueue)}
          /\ UNCHANGED want
      BY <1>3 DEF Answered, Unanswered, landVars
    <2> QED BY <2>1, <2>2, OwnerStep
  <1>4. ASSUME NEW k \in Calls, NEW enabled \in {0, 1}, SetBackup(k, enabled)
        PROVE  Writer!Next
    BY <1>4, JoinStep
  <1>5. ASSUME NEW k \in Calls, CancelWrite(k) PROVE [Writer!Next]_(Writer!vars)
    BY <1>5, CancelStep
  <1> QED BY <1>1, <1>2, <1>3, <1>4, <1>5 DEF Next, Writing, Calling

\* Polls and calls together are a writer: the backup output changes only by
\* the order at the head of the write lock, for every number of calls.
THEOREM PollImplementsWriter == Spec => ImplementsWriter
  <1>1. Inv => TypeOK
    BY DEF Inv
  <1> QED BY <1>1, WriterInit, WriterNext, Invariance, WritesInOrder, PTL
          DEF Spec, ImplementsWriter, Writer!Spec

=============================================================================
