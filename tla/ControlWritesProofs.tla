------------------------- MODULE ControlWritesProofs -------------------------
(***************************************************************************)
(* Proofs about ControlWrites, for every number of calls, every pair of    *)
(* power limits, every set of requests and every number of attempts.       *)
(***************************************************************************)
EXTENDS ControlWrites, SequenceFacts

-----------------------------------------------------------------------------
(* The inductive invariant. *)

\* What a task is, follows from its number and how far it has come.
Bookkeeping ==
    /\ kind[Poll] = "keepalive"
    /\ \A k \in Calls : kind[k] # "keepalive"
    /\ \A k \in Calls : k > issued => pc[k] = "idle"
    /\ \A t \in Task : kind[t] = "backup" => payload[t] \in {0, 1}
    /\ \A t \in Task : pc[t] = "backoff" => attempt[t] < Attempts
    /\ \A i \in 1..Len(verifying) : pc[verifying[i]] = "verifying"
    /\ \A i, j \in 1..Len(verifying) : verifying[i] = verifying[j] => i = j

\* The queue of _write_lock: its tasks are in it once, each is a waiter or
\* the owner, and only its first can be between its attempts.
LockInv ==
    /\ \A i \in 1..Len(writeQueue) : pc[writeQueue[i]] \in {"queued"} \cup Holding
    /\ \A i, j \in 1..Len(writeQueue) : writeQueue[i] = writeQueue[j] => i = j
    /\ \A t \in Task : pc[t] \in Holding => writeQueue # << >> /\ writeQueue[1] = t

Inv == TypeOK /\ Bookkeeping /\ LockInv /\ KeepaliveHasSetpoint

\* Calls keep their order on their way through the lock and the readback:
\* landed and committed calls come before those in readback, those before
\* the queued ones, and each of the two queues is ascending.
Order ==
    /\ landed <= issued
    /\ committed <= issued
    /\ \A i \in 1..Len(writeQueue) :
        writeQueue[i] # Poll =>
            landed <= writeQueue[i] /\ committed < writeQueue[i]
    /\ \A i, j \in 1..Len(writeQueue) :
        i < j /\ writeQueue[i] # Poll /\ writeQueue[j] # Poll
        => writeQueue[i] < writeQueue[j]
    /\ \A i \in 1..Len(verifying) : committed <= verifying[i]
    /\ \A i, j \in 1..Len(verifying) : i < j => verifying[i] < verifying[j]
    /\ \A i \in 1..Len(verifying), j \in 1..Len(writeQueue) :
        writeQueue[j] # Poll => verifying[i] < writeQueue[j]

-----------------------------------------------------------------------------
(* The limits. *)

\* async_set_power_setpoint writes a power within the two limits.
LEMMA ClampInLimits ==
    ASSUME NEW watts \in Int
    PROVE  Clamp(watts) \in Power
  BY ConstantsAssumption DEF Clamp, Power

-----------------------------------------------------------------------------
(* The lock. *)

\* A task that was idle joins the queue as its last element.
LEMMA EnterLock ==
    ASSUME TypeOK, LockInv, NEW t \in Task, pc[t] = "idle", Enter(t)
    PROVE  /\ writeQueue' \in Seq(Task)
           /\ pc' \in [Task -> PCs]
           /\ attempt' \in [Task -> 0..Attempts]
           /\ LockInv'
  <1>1. /\ writeQueue' \in Seq(Task)
        /\ Len(writeQueue') = Len(writeQueue) + 1
        /\ \A i \in 1..Len(writeQueue) : writeQueue'[i] = writeQueue[i]
        /\ writeQueue'[Len(writeQueue) + 1] = t
        /\ Len(writeQueue) \in Nat
    BY AppendFacts DEF TypeOK, Enter
  <1>2. \A i \in 1..Len(writeQueue) : writeQueue[i] \in Task /\ writeQueue[i] # t
    BY DEF TypeOK, LockInv, Holding
  <1>3. pc' \in [Task -> PCs] /\ attempt' \in [Task -> 0..Attempts]
    BY ConstantsAssumption DEF TypeOK, Enter, PCs, Holding
  <1>4. \A u \in Task : u # t => pc'[u] = pc[u]
    BY DEF TypeOK, Enter
  <1>5. /\ pc'[t] \in {"queued", "sending"}
        /\ pc'[t] = "sending" => writeQueue = << >>
    BY DEF TypeOK, Enter
  <1>6. \A i \in 1..Len(writeQueue') : pc'[writeQueue'[i]] \in {"queued"} \cup Holding
    BY <1>1, <1>2, <1>4, <1>5 DEF LockInv, Holding
  <1>7. \A i, j \in 1..Len(writeQueue') : writeQueue'[i] = writeQueue'[j] => i = j
    BY <1>1, <1>2 DEF LockInv
  <1>8. ASSUME NEW u \in Task, pc'[u] \in Holding
        PROVE  writeQueue' # << >> /\ writeQueue'[1] = u
    <2>1. CASE u = t
      BY <1>1, <1>5, <1>8, <2>1 DEF Holding
    <2>2. CASE u # t
      <3>1. writeQueue # << >> /\ writeQueue[1] = u
        BY <1>4, <1>8, <2>2 DEF LockInv
      <3>2. Len(writeQueue) >= 1
        BY <3>1 DEF TypeOK
      <3> QED BY <1>1, <3>1, <3>2
    <2> QED BY <2>1, <2>2
  <1> QED BY <1>1, <1>3, <1>6, <1>7, <1>8 DEF LockInv

\* The owner leaves the queue; what follows it moves up.
LEMMA LeaveLock ==
    ASSUME TypeOK, LockInv, NEW t \in Task, writeQueue # << >>, writeQueue[1] = t,
           NEW where \in PCs \ ({"queued"} \cup Holding), Leave(t, where)
    PROVE  /\ writeQueue' \in Seq(Task)
           /\ pc' \in [Task -> PCs]
           /\ LockInv'
  <1>1. /\ writeQueue' \in Seq(Task)
        /\ Len(writeQueue) \in Nat \ {0}
        /\ Len(writeQueue') = Len(writeQueue) - 1
        /\ \A i \in 1..Len(writeQueue') : writeQueue'[i] = writeQueue[i + 1]
    BY TailFacts DEF TypeOK, Leave
  <1>2. pc' \in [Task -> PCs]
    BY DEF TypeOK, Leave
  <1>3. pc' = [pc EXCEPT ![t] = where]
    BY DEF Leave
  <1>4. \A i \in 1..Len(writeQueue') : writeQueue'[i] \in Task /\ writeQueue'[i] # t
    BY <1>1 DEF LockInv
  <1>5. \A u \in Task : u # t => pc'[u] = pc[u] /\ pc[u] \notin Holding
    BY <1>3 DEF TypeOK, LockInv
  <1>6. pc'[t] \notin Holding
    BY <1>3 DEF TypeOK
  <1>7. \A i \in 1..Len(writeQueue') : pc'[writeQueue'[i]] \in {"queued"} \cup Holding
    BY <1>1, <1>4, <1>5 DEF LockInv
  <1>8. \A i, j \in 1..Len(writeQueue') : writeQueue'[i] = writeQueue'[j] => i = j
    BY <1>1 DEF LockInv
  <1> QED BY <1>1, <1>2, <1>5, <1>6, <1>7, <1>8 DEF LockInv

\* A cancelled task leaves the queue from wherever it is in it.
LEMMA LeaveQueueLock ==
    ASSUME TypeOK, LockInv, NEW t \in Task, LeaveQueue(t),
           pc' = [pc EXCEPT ![t] = "cancelled"]
    PROVE  /\ writeQueue' \in Seq(Task)
           /\ pc' \in [Task -> PCs]
           /\ LockInv'
  <1>1. PICK n \in 1..Len(writeQueue) :
            writeQueue[n] = t /\ writeQueue' = RemoveAt(writeQueue, n)
    BY DEF LeaveQueue
  <1>2. /\ writeQueue' \in Seq(Task)
        /\ Len(writeQueue) \in Nat
        /\ Len(writeQueue') = Len(writeQueue) - 1
        /\ \A i \in 1..Len(writeQueue') :
            writeQueue'[i] = IF i < n THEN writeQueue[i] ELSE writeQueue[i + 1]
    <2>1. writeQueue \in Seq(Task)
      BY DEF TypeOK
    <2>2. /\ RemoveAt(writeQueue, n) \in Seq(Task)
          /\ Len(RemoveAt(writeQueue, n)) = Len(writeQueue) - 1
          /\ \A i \in 1..Len(writeQueue) - 1 : RemoveAt(writeQueue, n)[i] =
                IF i < n THEN writeQueue[i] ELSE writeQueue[i + 1]
      BY <2>1, RemoveAtFacts
    <2> QED BY <1>1, <2>1, <2>2
  <1>3. pc' \in [Task -> PCs]
    BY DEF TypeOK, PCs, Returned
  <1>4. \A i \in 1..Len(writeQueue') : writeQueue'[i] \in Task /\ writeQueue'[i] # t
    BY <1>1, <1>2 DEF LockInv
  <1>5. \A u \in Task : u # t => pc'[u] = pc[u]
    BY DEF TypeOK
  <1>6. pc'[t] \notin Holding
    BY DEF TypeOK, Holding
  <1>7. \A i \in 1..Len(writeQueue') : pc'[writeQueue'[i]] \in {"queued"} \cup Holding
    BY <1>2, <1>4, <1>5 DEF LockInv
  <1>8. \A i, j \in 1..Len(writeQueue') : writeQueue'[i] = writeQueue'[j] => i = j
    BY <1>2 DEF LockInv
  <1>9. ASSUME NEW u \in Task, pc'[u] \in Holding
        PROVE  writeQueue' # << >> /\ writeQueue'[1] = u
    <2>1. u # t /\ writeQueue[1] = u
      BY <1>5, <1>6, <1>9 DEF LockInv
    <2>2. n > 1 /\ Len(writeQueue') >= 1
      BY <1>1, <1>2, <2>1
    <2> QED BY <1>2, <2>1, <2>2
  <1> QED BY <1>2, <1>3, <1>7, <1>8, <1>9 DEF LockInv

\* The owner moves on between its attempts and stays the owner.
LEMMA StayLock ==
    ASSUME TypeOK, LockInv, NEW t \in Task, writeQueue # << >>, writeQueue[1] = t,
           NEW where \in Holding, pc' = [pc EXCEPT ![t] = where], UNCHANGED writeQueue
    PROVE  pc' \in [Task -> PCs] /\ LockInv'
  <1>1. pc' \in [Task -> PCs]
    BY DEF TypeOK, PCs
  <1>2. \A u \in Task : pc'[u] = IF u = t THEN where ELSE pc[u]
    BY DEF TypeOK
  <1>3. \A k \in 1..Len(writeQueue) : writeQueue[k] \in Task
    BY DEF TypeOK
  <1> QED BY <1>1, <1>2, <1>3 DEF LockInv

-----------------------------------------------------------------------------
(* Every step preserves the inductive invariant. *)

\* No task has started: the invariant holds.
LEMMA InvInit == Init => Inv
  <1> SUFFICES ASSUME Init PROVE Inv
    OBVIOUS
  <1>1. 0 \in Power /\ 0 \in 0..MaxCalls /\ 0 \in 0..Attempts
    BY ConstantsAssumption DEF Power
  <1>2. TypeOK
    <2>1. /\ kind \in [Task -> Kinds]
          /\ payload \in [Task -> Power \cup {0, 1}]
          /\ \A t \in Task : payload[t] \in Power
          /\ pc \in [Task -> PCs]
          /\ attempt \in [Task -> 0..Attempts]
      BY <1>1 DEF Init, Kinds, PCs
    <2>2. writeQueue \in Seq(Task) /\ verifying \in Seq(Calls)
      BY DEF Init
    <2>3. commanded \in Power \cup {None} /\ held \in Power \cup {None}
      BY DEF Init
    <2>4. /\ issued \in 0..MaxCalls /\ landed \in 0..MaxCalls /\ committed \in 0..MaxCalls
          /\ shownBackup \in {0, 1} /\ backup \in {0, 1}
          /\ due \in BOOLEAN /\ lastUpdateOk \in BOOLEAN /\ short \in BOOLEAN
      BY <1>1 DEF Init
    <2> QED BY <2>1, <2>2, <2>3, <2>4 DEF TypeOK
  <1>3. Bookkeeping
    BY ConstantsAssumption DEF Init, Bookkeeping, Poll, Calls, Task
  <1>4. LockInv /\ KeepaliveHasSetpoint
    BY DEF Init, LockInv, KeepaliveHasSetpoint, Holding, Task
  <1> QED BY <1>2, <1>3, <1>4 DEF Inv

\* A call that writes: it is a new task and enters the queue of the lock.
LEMMA CallInv ==
    ASSUME Inv, NEW k \in {"set", "backup", "release"}, NEW value,
           IF k = "backup" THEN value \in {0, 1} ELSE value \in Power,
           Call(k, value), Enter(NextCall)
    PROVE  Inv'
  <1> USE DEF Inv
  <1>1. NextCall \in Calls /\ NextCall \in Task /\ NextCall # Poll
    BY ConstantsAssumption DEF Call, NextCall, Calls, Task, Poll, TypeOK
  <1>2. pc[NextCall] = "idle"
    BY <1>1 DEF Bookkeeping, NextCall, TypeOK
  <1>3. /\ writeQueue' \in Seq(Task)
        /\ pc' \in [Task -> PCs]
        /\ attempt' \in [Task -> 0..Attempts]
        /\ LockInv'
    BY <1>1, <1>2, EnterLock
  <1>4. /\ issued' \in 0..MaxCalls
        /\ issued' = NextCall
        /\ kind' \in [Task -> Kinds]
        /\ payload' \in [Task -> Power \cup {0, 1}]
        /\ \A t \in Task : kind'[t] = IF t = NextCall THEN k ELSE kind[t]
        /\ \A t \in Task : payload'[t] = IF t = NextCall THEN value ELSE payload[t]
    BY <1>1, ConstantsAssumption DEF TypeOK, Call, Kinds, NextCall
  <1>5. TypeOK'
    BY <1>3, <1>4 DEF TypeOK, Call, coordVars, deviceVars
  <1>6. \A t \in Task : t # NextCall => pc'[t] = pc[t]
    BY <1>1 DEF TypeOK, Enter
  <1>7. pc'[NextCall] # "backoff"
    BY <1>1 DEF TypeOK, Enter
  <1>8. \A t \in Task : t # NextCall => attempt'[t] = attempt[t]
    BY <1>1 DEF TypeOK, Enter
  <1>9. \A n \in 1..Len(verifying) : verifying[n] \in Task /\ verifying[n] # NextCall
    BY <1>2 DEF TypeOK, Bookkeeping, Task
  <1>10. Bookkeeping'
    <2>1. kind'[Poll] = "keepalive" /\ \A c \in Calls : kind'[c] # "keepalive"
      BY <1>1, <1>4 DEF Bookkeeping, Task
    <2>2. \A c \in Calls : c > issued' => pc'[c] = "idle"
      <3> SUFFICES ASSUME NEW c \in Calls, c > issued' PROVE pc'[c] = "idle"
        OBVIOUS
      <3>1. c > issued /\ c # NextCall /\ c \in Task
        BY <1>4 DEF NextCall, Calls, Task, TypeOK
      <3> QED BY <1>6, <3>1 DEF Bookkeeping
    <2>3. \A t \in Task : kind'[t] = "backup" => payload'[t] \in {0, 1}
      BY <1>4 DEF Bookkeeping
    <2>4. \A t \in Task : pc'[t] = "backoff" => attempt'[t] < Attempts
      BY <1>6, <1>7, <1>8 DEF Bookkeeping
    <2>5. verifying' = verifying
      BY DEF Call
    <2>6. \A n \in 1..Len(verifying) : pc'[verifying[n]] = "verifying"
      BY <1>6, <1>9 DEF Bookkeeping
    <2> QED BY <2>1, <2>2, <2>3, <2>4, <2>5, <2>6 DEF Bookkeeping
  <1>11. KeepaliveHasSetpoint'
    BY <1>1, <1>6 DEF KeepaliveHasSetpoint, Call, coordVars, Task
  <1> QED BY <1>3, <1>5, <1>10, <1>11

\* Steps that leave the tasks alone.
LEMMA QuietInv ==
    ASSUME Inv, UNCHANGED taskVars,
           commanded' = commanded,
           due' \in BOOLEAN, shownBackup' \in {0, 1}, lastUpdateOk' \in BOOLEAN,
           held' \in Power \cup {None}, short' \in BOOLEAN, backup' \in {0, 1},
           UNCHANGED <<landed, committed>>
    PROVE  Inv'
  <1> USE DEF Inv, taskVars
  <1>1. TypeOK'
    BY DEF TypeOK
  <1>2. Bookkeeping' /\ LockInv'
    BY DEF Bookkeeping, LockInv
  <1>3. KeepaliveHasSetpoint'
    BY DEF KeepaliveHasSetpoint
  <1> QED BY <1>1, <1>2, <1>3

\* A release that finds nothing commanded ends before the lock.
LEMMA ReleaseNothingInv == ASSUME Inv, ReleaseNothing PROVE Inv'
  <1> USE DEF Inv, ReleaseNothing
  <1>1. NextCall \in Calls /\ NextCall \in Task /\ NextCall # Poll
    BY ConstantsAssumption DEF Call, NextCall, Calls, Task, Poll, TypeOK
  <1>2. pc[NextCall] = "idle"
    BY <1>1 DEF Bookkeeping, NextCall, TypeOK
  <1>3. \A t \in Task : pc'[t] = IF t = NextCall THEN "noop" ELSE pc[t]
    BY <1>1 DEF TypeOK
  <1>4. 0 \in Power
    BY ConstantsAssumption DEF Power
  <1>5. /\ issued' \in 0..MaxCalls
        /\ issued' = NextCall
        /\ kind' \in [Task -> Kinds]
        /\ payload' \in [Task -> Power \cup {0, 1}]
        /\ pc' \in [Task -> PCs]
        /\ \A t \in Task : kind'[t] = IF t = NextCall THEN "release" ELSE kind[t]
        /\ \A t \in Task : payload'[t] = IF t = NextCall THEN 0 ELSE payload[t]
    BY <1>1, ConstantsAssumption DEF TypeOK, Call, Kinds, NextCall, PCs, Returned
  <1>6. TypeOK'
    BY <1>4, <1>5 DEF TypeOK, Call, coordVars, deviceVars
  <1>7. \A n \in 1..Len(verifying) : verifying[n] \in Task /\ verifying[n] # NextCall
    BY <1>2 DEF TypeOK, Bookkeeping, Task
  <1>8. \A n \in 1..Len(writeQueue) : writeQueue[n] \in Task /\ writeQueue[n] # NextCall
    BY <1>2 DEF TypeOK, LockInv, Holding
  <1>9. Bookkeeping'
    <2>1. kind'[Poll] = "keepalive" /\ \A c \in Calls : kind'[c] # "keepalive"
      BY <1>1, <1>5 DEF Bookkeeping, Task
    <2>2. ASSUME NEW c \in Calls, c > issued' PROVE pc'[c] = "idle"
      <3>1. c > issued /\ c # NextCall /\ c \in Task
        BY <1>5, <2>2 DEF NextCall, Calls, Task, TypeOK
      <3> QED BY <1>3, <3>1 DEF Bookkeeping
    <2>3. \A t \in Task : kind'[t] = "backup" => payload'[t] \in {0, 1}
      BY <1>5 DEF Bookkeeping
    <2>4. \A t \in Task : pc'[t] = "backoff" => attempt'[t] < Attempts
      BY <1>3 DEF Bookkeeping
    <2>5. verifying' = verifying
      BY DEF Call
    <2>6. \A n \in 1..Len(verifying) : pc'[verifying[n]] = "verifying"
      BY <1>3, <1>7 DEF Bookkeeping
    <2> QED BY <2>1, <2>2, <2>3, <2>4, <2>5, <2>6 DEF Bookkeeping
  <1>10. LockInv'
    BY <1>3, <1>8 DEF LockInv, Holding
  <1>11. KeepaliveHasSetpoint'
    BY <1>1, <1>3 DEF KeepaliveHasSetpoint, Call, coordVars, Task
  <1> QED BY <1>6, <1>9, <1>10, <1>11

\* The poll finds a keepalive due and enters the queue of the lock.
LEMMA KeepaliveStartInv == ASSUME Inv, KeepaliveStart PROVE Inv'
  <1> USE DEF Inv, KeepaliveStart
  <1>1. Poll \in Task /\ Poll \notin Calls
    BY DEF Task, Poll, Calls
  <1>2. /\ writeQueue' \in Seq(Task)
        /\ pc' \in [Task -> PCs]
        /\ attempt' \in [Task -> 0..Attempts]
        /\ LockInv'
    BY <1>1, EnterLock
  <1>3. commanded \in Power
    BY DEF TypeOK
  <1>4. /\ payload' \in [Task -> Power \cup {0, 1}]
        /\ \A t \in Task : payload'[t] = IF t = Poll THEN commanded ELSE payload[t]
    BY <1>1, <1>3 DEF TypeOK, Evaluate
  <1>5. TypeOK'
    BY <1>2, <1>3, <1>4 DEF TypeOK, coordVars, deviceVars
  <1>6. \A t \in Task : t # Poll => pc'[t] = pc[t] /\ attempt'[t] = attempt[t]
    BY <1>1 DEF TypeOK, Enter
  <1>7. pc'[Poll] # "backoff"
    BY <1>1 DEF TypeOK, Enter
  <1>8. \A n \in 1..Len(verifying) : verifying[n] \in Calls
    BY DEF TypeOK
  <1>9. Bookkeeping'
    BY <1>1, <1>4, <1>6, <1>7, <1>8 DEF Bookkeeping, Task
  <1>10. KeepaliveHasSetpoint'
    BY DEF KeepaliveHasSetpoint, coordVars
  <1> QED BY <1>2, <1>5, <1>9, <1>10

\* A task that holds the lock is the first of the queue.
LEMMA OwnerIsFirst ==
    ASSUME Inv, NEW t \in Task, pc[t] \in Holding
    PROVE  writeQueue # << >> /\ writeQueue[1] = t /\ Head(writeQueue) = t
  BY DEF Inv, LockInv, TypeOK

\* What the device holds after it executed a request is in its range.
LEMMA LandType ==
    ASSUME Inv, NEW t \in Task, Land(t)
    PROVE  /\ held' \in Power \cup {None} /\ short' \in BOOLEAN /\ backup' \in {0, 1}
           /\ landed' \in 0..MaxCalls
  <1>1. t # Poll => t \in 0..MaxCalls
    BY ConstantsAssumption DEF Task, Calls
  <1>2. landed' \in 0..MaxCalls
    BY <1>1 DEF Inv, TypeOK, Land
  <1>3. CASE kind[t] = "backup"
    BY <1>2, <1>3 DEF Inv, TypeOK, Bookkeeping, Land
  <1>4. CASE kind[t] # "backup"
    BY <1>2, <1>4 DEF Inv, TypeOK, Land
  <1> QED BY <1>3, <1>4

\* A started task outside the readback moves on, or is dropped by its caller.
LEMMA MoveBookkeeping ==
    ASSUME Inv, NEW t \in Task, pc[t] \in {"queued"} \cup Holding, NEW where,
           pc' = [pc EXCEPT ![t] = where],
           where = "backoff" => attempt'[t] < Attempts,
           \A u \in Task : u # t => attempt'[u] = attempt[u],
           \A u \in Task : kind[u] = "backup" => payload'[u] = payload[u],
           UNCHANGED <<issued, kind, verifying>>
    PROVE  Bookkeeping'
  <1> USE DEF Inv
  <1>1. \A u \in Task : pc'[u] = IF u = t THEN where ELSE pc[u]
    BY DEF TypeOK
  <1>2. \A n \in 1..Len(verifying) : verifying[n] \in Task /\ verifying[n] # t
    BY DEF TypeOK, Bookkeeping, Task, Holding
  <1>3. \A c \in Calls : c > issued => c # t
    BY DEF Bookkeeping, Holding
  <1>4. \A c \in Calls : c > issued' => pc'[c] = "idle"
    BY <1>1, <1>3 DEF Bookkeeping, Task
  <1>5. \A u \in Task : pc'[u] = "backoff" => attempt'[u] < Attempts
    BY <1>1 DEF Bookkeeping
  <1>6. \A n \in 1..Len(verifying) : pc'[verifying[n]] = "verifying"
    BY <1>1, <1>2 DEF Bookkeeping
  <1> QED BY <1>4, <1>5, <1>6 DEF Bookkeeping

\* The keepalive's lambda reads a setpoint; the others keep their value.
LEMMA EvaluateType ==
    ASSUME Inv, NEW t \in Task, t = Poll => commanded # None, Evaluate(t)
    PROVE  /\ payload' \in [Task -> Power \cup {0, 1}]
           /\ \A u \in Task : kind[u] # "backup" => payload'[u] \in Power
           /\ \A u \in Task : kind[u] = "backup" => payload'[u] = payload[u]
  <1>1. t = Poll => commanded \in Power
    BY DEF Inv, TypeOK
  <1>2. kind[Poll] # "backup"
    BY DEF Inv, Bookkeeping
  <1>3. CASE t = Poll
    BY <1>1, <1>2, <1>3 DEF Inv, TypeOK, Evaluate
  <1>4. CASE t # Poll
    BY <1>4 DEF Inv, TypeOK, Evaluate
  <1> QED BY <1>3, <1>4

\* A waiter becomes the owner as the head of the queue; a keepalive
\* only with a setpoint to send.
LEMMA AcquireInv == ASSUME Inv, NEW t \in Task, Acquire(t) PROVE Inv'
  <1> USE DEF Inv, Acquire
  <1>1. writeQueue # << >> /\ writeQueue[1] = t
    BY TailFacts DEF TypeOK
  <1>2. pc' \in [Task -> PCs] /\ LockInv'
    BY <1>1, StayLock DEF Holding
  <1>3. /\ payload' \in [Task -> Power \cup {0, 1}]
        /\ \A u \in Task : kind[u] # "backup" => payload'[u] \in Power
        /\ \A u \in Task : kind[u] = "backup" => payload'[u] = payload[u]
    BY EvaluateType
  <1>4. attempt' \in [Task -> 0..Attempts] /\ \A u \in Task : u # t => attempt'[u] = attempt[u]
    BY ConstantsAssumption DEF TypeOK
  <1>5. TypeOK'
    BY <1>2, <1>3, <1>4 DEF TypeOK, coordVars, deviceVars
  <1>6. Bookkeeping'
    BY <1>3, <1>4, MoveBookkeeping DEF Holding
  <1>7. KeepaliveHasSetpoint'
    BY DEF KeepaliveHasSetpoint, TypeOK, coordVars, Task
  <1> QED BY <1>2, <1>5, <1>6, <1>7

\* A re-send leaves the lock where it is.
LEMMA ResendInv == ASSUME Inv, NEW t \in Task, Resend(t) PROVE Inv'
  <1> USE DEF Inv, Resend
  <1>1. writeQueue # << >> /\ writeQueue[1] = t
    BY OwnerIsFirst DEF Holding
  <1>2. pc' \in [Task -> PCs] /\ LockInv'
    BY <1>1, StayLock DEF Holding
  <1>3. t = Poll => commanded # None
    BY DEF KeepaliveHasSetpoint, Holding
  <1>4. /\ payload' \in [Task -> Power \cup {0, 1}]
        /\ \A u \in Task : kind[u] # "backup" => payload'[u] \in Power
        /\ \A u \in Task : kind[u] = "backup" => payload'[u] = payload[u]
    BY <1>3, EvaluateType
  <1>5. attempt' \in [Task -> 0..Attempts] /\ \A u \in Task : u # t => attempt'[u] = attempt[u]
    BY ConstantsAssumption DEF TypeOK, Bookkeeping
  <1>6. TypeOK'
    BY <1>2, <1>4, <1>5 DEF TypeOK, coordVars, deviceVars
  <1>7. Bookkeeping'
    BY <1>4, <1>5, MoveBookkeeping DEF Holding
  <1>8. KeepaliveHasSetpoint'
    BY <1>3 DEF KeepaliveHasSetpoint, TypeOK, coordVars, Task
  <1> QED BY <1>2, <1>6, <1>7, <1>8

\* A keepalive that raises gives the lock up.
LEMMA KeepaliveRaisesInv == ASSUME Inv, KeepaliveRaises PROVE Inv'
  <1> USE DEF Inv, KeepaliveRaises
  <1>1. Poll \in Task
    BY DEF Task
  <1>2. writeQueue[1] = Poll
    BY TailFacts DEF TypeOK
  <1>3. writeQueue' \in Seq(Task) /\ pc' \in [Task -> PCs] /\ LockInv'
    BY <1>1, <1>2, LeaveLock DEF PCs, Holding
  <1>4. TypeOK'
    BY <1>3 DEF TypeOK, deviceVars
  <1>5. Bookkeeping'
    BY <1>1, MoveBookkeeping DEF Leave
  <1>6. KeepaliveHasSetpoint'
    BY <1>1 DEF KeepaliveHasSetpoint, TypeOK, Leave, Holding
  <1> QED BY <1>3, <1>4, <1>5, <1>6

\* An attempt without a reply, whether or not the device executed it.
LEMMA UnconfirmedInv ==
    ASSUME Inv, NEW t \in Task, OnWire(t), Unconfirmed(t),
           Land(t) \/ UNCHANGED <<deviceVars, landed>>
    PROVE  Inv'
  <1> USE DEF Inv
  <1>1. pc[t] \in Holding
    BY DEF OnWire, Holding
  <1>2. writeQueue # << >> /\ writeQueue[1] = t
    BY <1>1, OwnerIsFirst
  <1>3. /\ held' \in Power \cup {None} /\ short' \in BOOLEAN /\ backup' \in {0, 1}
        /\ landed' \in 0..MaxCalls
    <2>1. CASE Land(t)
      BY <2>1, LandType
    <2>2. CASE UNCHANGED <<deviceVars, landed>>
      BY <2>2 DEF TypeOK, deviceVars
    <2> QED BY <2>1, <2>2
  <1>4. CASE /\ attempt[t] < Attempts
             /\ pc' = [pc EXCEPT ![t] = "backoff"]
             /\ UNCHANGED <<writeQueue, lastUpdateOk>>
    <2>1. pc' \in [Task -> PCs] /\ LockInv'
      BY <1>2, <1>4, StayLock DEF Holding
    <2>2. TypeOK'
      BY <1>3, <1>4, <2>1 DEF TypeOK, Unconfirmed
    <2>3. Bookkeeping'
      BY <1>1, <1>4, MoveBookkeeping DEF Unconfirmed
    <2>4. KeepaliveHasSetpoint'
      BY <1>1, <1>4 DEF KeepaliveHasSetpoint, TypeOK, Unconfirmed, Task
    <2> QED BY <2>1, <2>2, <2>3, <2>4
  <1>5. CASE /\ Leave(t, IF t = Poll THEN "idle" ELSE "failed")
             /\ lastUpdateOk' = (lastUpdateOk \/ t = Poll)
    <2> DEFINE where == IF t = Poll THEN "idle" ELSE "failed"
    <2>1. where \in PCs \ ({"queued"} \cup Holding) /\ where # "backoff"
      BY DEF PCs, Holding, Returned
    <2>2. Leave(t, where) /\ pc' = [pc EXCEPT ![t] = where]
      BY <1>5 DEF Leave
    <2> HIDE DEF where
    <2>3. writeQueue' \in Seq(Task) /\ pc' \in [Task -> PCs] /\ LockInv'
      BY <1>2, <2>1, <2>2, LeaveLock
    <2>4. lastUpdateOk' \in BOOLEAN
      BY <1>5
    <2>5. TypeOK'
      BY <1>3, <2>3, <2>4 DEF TypeOK, Unconfirmed
    <2>6. Bookkeeping'
      BY <1>1, <2>1, <2>2, MoveBookkeeping DEF Unconfirmed
    <2>7. KeepaliveHasSetpoint'
      BY <2>1, <2>2 DEF KeepaliveHasSetpoint, TypeOK, Unconfirmed, Task
    <2> QED BY <2>3, <2>5, <2>6, <2>7
  <1> QED BY <1>4, <1>5 DEF Unconfirmed

\* A confirmed set or backup gives the lock up and joins the readbacks.
LEMMA ConfirmAndVerifyInv == ASSUME Inv, NEW t \in Task, ConfirmAndVerify(t) PROVE Inv'
  <1> USE DEF Inv, ConfirmAndVerify
  <1>1. pc[t] \in Holding /\ t \in Calls
    BY DEF OnWire, Holding, Bookkeeping, Task
  <1>2. writeQueue # << >> /\ writeQueue[1] = t
    BY <1>1, OwnerIsFirst
  <1>3. writeQueue' \in Seq(Task) /\ pc' \in [Task -> PCs] /\ LockInv'
    BY <1>2, LeaveLock DEF PCs, Holding
  <1>4. /\ verifying' \in Seq(Calls)
        /\ Len(verifying) \in Nat
        /\ Len(verifying') = Len(verifying) + 1
        /\ \A n \in 1..Len(verifying) : verifying'[n] = verifying[n]
        /\ verifying'[Len(verifying) + 1] = t
    BY <1>1, AppendFacts DEF TypeOK
  <1>5. /\ held' \in Power \cup {None} /\ short' \in BOOLEAN /\ backup' \in {0, 1}
        /\ landed' \in 0..MaxCalls
    BY LandType
  <1>6. TypeOK'
    BY <1>3, <1>4, <1>5 DEF TypeOK, coordVars
  <1>7. \A u \in Task : pc'[u] = IF u = t THEN "verifying" ELSE pc[u]
    BY DEF TypeOK, Leave
  <1>8. \A n \in 1..Len(verifying) : verifying[n] \in Task /\ verifying[n] # t
    BY <1>1 DEF TypeOK, Bookkeeping, Task, Holding
  <1>9. Bookkeeping'
    <2>1. \A c \in Calls : c > issued' => pc'[c] = "idle"
      BY <1>1, <1>7 DEF Bookkeeping, Task, Holding
    <2>2. \A u \in Task : pc'[u] = "backoff" => attempt'[u] < Attempts
      BY <1>7 DEF Bookkeeping
    <2>3. \A n \in 1..Len(verifying') : pc'[verifying'[n]] = "verifying"
      BY <1>4, <1>7, <1>8 DEF Bookkeeping
    <2>4. \A m, n \in 1..Len(verifying') : verifying'[m] = verifying'[n] => m = n
      BY <1>4, <1>8 DEF Bookkeeping
    <2> QED BY <2>1, <2>2, <2>3, <2>4 DEF Bookkeeping
  <1>10. KeepaliveHasSetpoint'
    BY <1>7 DEF KeepaliveHasSetpoint, Holding, coordVars, Task
  <1> QED BY <1>3, <1>6, <1>9, <1>10

\* A release commits while it still owns the lock, so that no keepalive
\* can be between its attempts.
LEMMA ConfirmReleaseInv == ASSUME Inv, NEW t \in Task, ConfirmRelease(t) PROVE Inv'
  <1> USE DEF Inv, ConfirmRelease
  <1>1. pc[t] \in Holding /\ t # Poll
    BY DEF OnWire, Holding, Bookkeeping
  <1>2. writeQueue # << >> /\ writeQueue[1] = t
    BY <1>1, OwnerIsFirst
  <1>3. writeQueue' \in Seq(Task) /\ pc' \in [Task -> PCs] /\ LockInv'
    BY <1>2, LeaveLock DEF PCs, Holding, Returned
  <1>4. /\ held' \in Power \cup {None} /\ short' \in BOOLEAN /\ backup' \in {0, 1}
        /\ landed' \in 0..MaxCalls
    BY LandType
  <1>5. TypeOK'
    BY <1>3, <1>4 DEF TypeOK
  <1>6. Bookkeeping'
    BY <1>1, MoveBookkeeping DEF Leave
  <1>7. pc'[Poll] \notin Holding
    BY <1>1, <1>2 DEF LockInv, TypeOK, Leave, Task
  <1> QED BY <1>3, <1>5, <1>6, <1>7 DEF KeepaliveHasSetpoint

\* A confirmed keepalive gives the lock up.
LEMMA ConfirmKeepaliveInv == ASSUME Inv, ConfirmKeepalive PROVE Inv'
  <1> USE DEF Inv, ConfirmKeepalive
  <1>1. pc[Poll] \in Holding /\ Poll \in Task
    BY DEF OnWire, Holding, Task
  <1>2. writeQueue # << >> /\ writeQueue[1] = Poll
    BY <1>1, OwnerIsFirst
  <1>3. writeQueue' \in Seq(Task) /\ pc' \in [Task -> PCs] /\ LockInv'
    BY <1>1, <1>2, LeaveLock DEF PCs, Holding
  <1>4. /\ held' \in Power \cup {None} /\ short' \in BOOLEAN /\ backup' \in {0, 1}
        /\ landed' \in 0..MaxCalls
    BY <1>1, LandType
  <1>5. TypeOK'
    BY <1>3, <1>4 DEF TypeOK
  <1>6. Bookkeeping'
    BY <1>1, MoveBookkeeping DEF Leave
  <1>7. KeepaliveHasSetpoint'
    BY <1>1 DEF KeepaliveHasSetpoint, TypeOK, Leave, Holding
  <1> QED BY <1>3, <1>5, <1>6, <1>7

\* A task leaves the readback: the other tasks in it and the lock stay.
LEMMA LeaveVerify ==
    ASSUME Inv, NEW t \in Calls, NEW n \in 1..Len(verifying), verifying[n] = t,
           verifying' \in Seq(Calls), Len(verifying') = Len(verifying) - 1,
           \A m \in 1..Len(verifying) - 1 :
              verifying'[m] = IF m < n THEN verifying[m] ELSE verifying[m + 1],
           NEW where \in Returned, pc' = [pc EXCEPT ![t] = where],
           UNCHANGED <<issued, kind, payload, attempt, writeQueue>>
    PROVE  /\ pc' \in [Task -> PCs] /\ Bookkeeping' /\ LockInv'
           /\ pc'[Poll] = pc[Poll] /\ pc[t] = "verifying"
  <1> USE DEF Inv
  <1>1. t \in Task /\ Poll \in Task /\ t # Poll
    BY DEF Task, Calls, Poll
  <1>2. pc[t] = "verifying"
    BY DEF Bookkeeping
  <1>3. pc' \in [Task -> PCs] /\ \A u \in Task : pc'[u] = IF u = t THEN where ELSE pc[u]
    BY DEF TypeOK, PCs
  <1>4. \A m \in 1..Len(writeQueue) : writeQueue[m] \in Task /\ writeQueue[m] # t
    <2>1. \A m \in 1..Len(writeQueue) : writeQueue[m] \in Task
      BY DEF TypeOK
    <2>2. \A m \in 1..Len(writeQueue) : pc[writeQueue[m]] # "verifying"
      BY DEF LockInv, Holding
    <2> QED BY <1>2, <2>1, <2>2
  <1>5. where \notin {"queued"} \cup Holding /\ where # "idle"
    BY DEF Holding, Returned
  <1>6. LockInv'
    BY <1>3, <1>4, <1>5 DEF LockInv
  <1>7. Bookkeeping'
    <2>1. \A c \in Calls : c > issued' => pc'[c] = "idle"
      BY <1>2, <1>3 DEF Bookkeeping, Task
    <2>2. \A u \in Task : pc'[u] = "backoff" => attempt'[u] < Attempts
      BY <1>3, <1>5 DEF Bookkeeping, Holding
    <2>3. Len(verifying) \in Nat
      BY DEF TypeOK
    <2>4. \A m \in 1..Len(verifying') : verifying'[m] \in Task /\ verifying'[m] # t
      <3> SUFFICES ASSUME NEW m \in 1..Len(verifying')
                   PROVE  verifying'[m] \in Task /\ verifying'[m] # t
        OBVIOUS
      <3>1. PICK o \in 1..Len(verifying) : o # n /\ verifying'[m] = verifying[o]
        <4>1. CASE m < n
          BY <2>3, <4>1
        <4>2. CASE m >= n
          BY <2>3, <4>2
        <4> QED BY <2>3, <4>1, <4>2
      <3>2. verifying[o] \in Task
        BY DEF TypeOK, Task
      <3> QED BY <3>1, <3>2 DEF Bookkeeping
    <2>5. \A m \in 1..Len(verifying') : pc[verifying'[m]] = "verifying"
      BY <2>3 DEF Bookkeeping
    <2>6. \A m \in 1..Len(verifying') : pc'[verifying'[m]] = "verifying"
      BY <1>3, <2>4, <2>5
    <2>7. \A m, o \in 1..Len(verifying') : verifying'[m] = verifying'[o] => m = o
      BY <2>3 DEF Bookkeeping
    <2> QED BY <2>1, <2>2, <2>6, <2>7 DEF Bookkeeping
  <1> QED BY <1>1, <1>2, <1>3, <1>6, <1>7

\* A commit only adds a setpoint, never takes one from a keepalive.
LEMMA CommitInv == ASSUME Inv, NEW t \in Calls, Commit(t) PROVE Inv'
  <1> USE DEF Inv
  <1>1. Verified(t)
    BY DEF Commit, CommitSetpoint, CommitBackup
  <1>2. verifying \in Seq(Calls) /\ verifying # << >>
    BY <1>1 DEF TypeOK, Verified
  <1>3. /\ verifying' \in Seq(Calls)
        /\ Len(verifying) \in Nat \ {0}
        /\ Len(verifying') = Len(verifying) - 1
        /\ \A m \in 1..Len(verifying') : verifying'[m] = verifying[m + 1]
        /\ verifying[1] = t
    BY <1>1, <1>2, TailFacts DEF Verified
  <1>4. pc' \in [Task -> PCs] /\ Bookkeeping' /\ LockInv' /\ pc'[Poll] = pc[Poll]
    <2>1. \A m \in 1..Len(verifying) - 1 :
              verifying'[m] = IF m < 1 THEN verifying[m] ELSE verifying[m + 1]
      BY <1>3
    <2>2. 1 \in 1..Len(verifying) /\ "ok" \in Returned
      BY <1>3 DEF Returned
    <2>3. /\ pc' = [pc EXCEPT ![t] = "ok"]
          /\ UNCHANGED <<issued, kind, payload, attempt, writeQueue>>
      BY <1>1 DEF Verified
    <2> QED BY <1>3, <2>1, <2>2, <2>3, LeaveVerify
  <1>5. t \in Task /\ t \in 0..MaxCalls
    BY ConstantsAssumption DEF Task, Calls
  <1>6. CASE CommitSetpoint(t)
    <2>1. payload[t] \in Power
      BY <1>5, <1>6 DEF TypeOK, CommitSetpoint
    <2>2. TypeOK'
      BY <1>3, <1>4, <1>5, <1>6, <2>1 DEF TypeOK, CommitSetpoint, Verified, deviceVars
    <2>3. commanded' # None
      BY <1>6, <2>1, ConstantsAssumption DEF CommitSetpoint, Power
    <2> QED BY <1>4, <2>2, <2>3 DEF KeepaliveHasSetpoint
  <1>7. CASE CommitBackup(t)
    <2>1. payload[t] \in {0, 1}
      BY <1>5, <1>7 DEF Bookkeeping, CommitBackup
    <2>2. TypeOK'
      BY <1>3, <1>4, <1>7, <2>1 DEF TypeOK, CommitBackup, Verified, deviceVars
    <2>3. KeepaliveHasSetpoint'
      BY <1>4, <1>7 DEF KeepaliveHasSetpoint, CommitBackup
    <2> QED BY <1>4, <2>2, <2>3
  <1> QED BY <1>6, <1>7 DEF Commit

\* A caller cancelled in the queue, between or during attempts.
LEMMA CancelInQueueInv ==
    ASSUME Inv, NEW t \in Calls, pc[t] \in {"queued"} \cup Holding,
           CancelTask(t), LeaveQueue(t), UNCHANGED verifying,
           Land(t) \/ UNCHANGED <<deviceVars, landed>>
    PROVE  Inv'
  <1> USE DEF Inv, CancelTask
  <1>1. t \in Task /\ t # Poll
    BY DEF Task, Calls, Poll
  <1>2. writeQueue' \in Seq(Task) /\ pc' \in [Task -> PCs] /\ LockInv'
    BY <1>1, LeaveQueueLock
  <1>3. /\ held' \in Power \cup {None} /\ short' \in BOOLEAN /\ backup' \in {0, 1}
        /\ landed' \in 0..MaxCalls
    <2>1. CASE Land(t)
      BY <1>1, <2>1, LandType
    <2>2. CASE UNCHANGED <<deviceVars, landed>>
      BY <2>2 DEF TypeOK, deviceVars
    <2> QED BY <2>1, <2>2
  <1>4. TypeOK'
    BY <1>2, <1>3 DEF TypeOK, coordVars
  <1>5. Bookkeeping'
    BY <1>1, MoveBookkeeping
  <1>6. KeepaliveHasSetpoint'
    BY <1>1 DEF KeepaliveHasSetpoint, TypeOK, coordVars
  <1> QED BY <1>2, <1>4, <1>5, <1>6

\* A cancelled readback is removed wherever it is.
LEMMA CancelVerifyInv == ASSUME Inv, NEW t \in Calls, CancelVerify(t) PROVE Inv'
  <1> USE DEF Inv, CancelVerify, CancelTask
  <1>1. PICK n \in 1..Len(verifying) :
            verifying[n] = t /\ verifying' = RemoveAt(verifying, n)
    OBVIOUS
  <1>2. verifying \in Seq(Calls)
    BY DEF TypeOK
  <1>3. /\ verifying' \in Seq(Calls)
        /\ Len(verifying') = Len(verifying) - 1
        /\ \A m \in 1..Len(verifying) - 1 :
            verifying'[m] = IF m < n THEN verifying[m] ELSE verifying[m + 1]
    <2>1. /\ RemoveAt(verifying, n) \in Seq(Calls)
          /\ Len(RemoveAt(verifying, n)) = Len(verifying) - 1
          /\ \A m \in 1..Len(verifying) - 1 : RemoveAt(verifying, n)[m] =
                IF m < n THEN verifying[m] ELSE verifying[m + 1]
      BY <1>2, RemoveAtFacts
    <2> QED BY <1>1, <2>1
  <1>4. pc' \in [Task -> PCs] /\ Bookkeeping' /\ LockInv' /\ pc'[Poll] = pc[Poll]
    <2>1. "cancelled" \in Returned
      BY DEF Returned
    <2> QED BY <1>1, <1>3, <2>1, LeaveVerify
  <1>5. TypeOK'
    BY <1>3, <1>4 DEF TypeOK, coordVars, deviceVars
  <1>6. KeepaliveHasSetpoint'
    BY <1>4 DEF KeepaliveHasSetpoint, coordVars
  <1> QED BY <1>4, <1>5, <1>6

\* The calls of the entities, taken together.
LEMMA EntityInv == ASSUME Inv, Entity PROVE Inv'
  <1>1. ASSUME NEW watts \in Requests, SetSetpoint(watts) PROVE Inv'
    <2>1. Clamp(watts) \in Power
      BY ConstantsAssumption, ClampInLimits
    <2> QED BY <1>1, <2>1, CallInv DEF SetSetpoint
  <1>2. ASSUME NEW enabled \in {0, 1}, SetBackup(enabled) PROVE Inv'
    BY <1>2, CallInv DEF SetBackup
  <1>3. CASE Release
    <2>1. 0 \in Power
      BY ConstantsAssumption DEF Power
    <2> QED BY <1>3, <2>1, CallInv DEF Release
  <1>4. CASE ReleaseNothing
    BY <1>4, ReleaseNothingInv
  <1> QED BY <1>1, <1>2, <1>3, <1>4 DEF Entity

\* Every step preserves the invariant.
LEMMA InvNext == Inv /\ [Next]_vars => Inv'
  <1> SUFFICES ASSUME Inv, [Next]_vars PROVE Inv'
    OBVIOUS
  <1>1. CASE Entity
    BY <1>1, EntityInv
  <1>2. CASE IntervalElapses
    BY <1>2, QuietInv DEF IntervalElapses, Inv, TypeOK, deviceVars
  <1>3. CASE KeepaliveStart
    BY <1>3, KeepaliveStartInv
  <1>4. CASE PollWithoutKeepalive
    BY <1>4, QuietInv DEF PollWithoutKeepalive, Inv, TypeOK, deviceVars
  <1>5. CASE KeepaliveRaises
    BY <1>5, KeepaliveRaisesInv
  <1>6. ASSUME NEW t \in Task, Acquire(t) PROVE Inv'
    BY <1>6, AcquireInv
  <1>7. ASSUME NEW t \in Task, ReplyLost(t) PROVE Inv'
    BY <1>7, UnconfirmedInv DEF ReplyLost
  <1>8. ASSUME NEW t \in Task, RequestLost(t) PROVE Inv'
    BY <1>8, UnconfirmedInv DEF RequestLost
  <1>9. ASSUME NEW t \in Task, ConfirmAndVerify(t) PROVE Inv'
    BY <1>9, ConfirmAndVerifyInv
  <1>10. ASSUME NEW t \in Task, ConfirmRelease(t) PROVE Inv'
    BY <1>10, ConfirmReleaseInv
  <1>11. CASE ConfirmKeepalive
    BY <1>11, ConfirmKeepaliveInv
  <1>12. ASSUME NEW t \in Task, Resend(t) PROVE Inv'
    BY <1>12, ResendInv
  <1>13. ASSUME NEW t \in Calls, Commit(t) PROVE Inv'
    BY <1>13, CommitInv
  <1>14. ASSUME NEW t \in Calls, Cancel(t) PROVE Inv'
    <2>1. CASE CancelWrite(t)
      BY <2>1, CancelInQueueInv DEF CancelWrite
    <2>2. CASE CancelAfterLanding(t)
      BY <2>2, CancelInQueueInv DEF CancelAfterLanding, OnWire, Holding
    <2>3. CASE CancelVerify(t)
      BY <2>3, CancelVerifyInv
    <2> QED BY <1>14, <2>1, <2>2, <2>3 DEF Cancel
  <1>15. CASE WatchdogExpires
    BY <1>15, QuietInv DEF WatchdogExpires, Inv, TypeOK, coordVars
  <1>16. CASE UNCHANGED vars
    BY <1>16, QuietInv DEF vars, Inv, TypeOK, coordVars, deviceVars
  <1> QED BY <1>1, <1>2, <1>3, <1>4, <1>5, <1>6, <1>7, <1>8, <1>9, <1>10, <1>11,
             <1>12, <1>13, <1>14, <1>15, <1>16
          DEF Next, Polling, Attempted

-----------------------------------------------------------------------------
(* Theorems. *)

\* The invariant holds in every reachable state.
LEMMA Invariance == Spec => []Inv
  BY InvInit, InvNext, PTL DEF Spec

\* All state keeps its type; no attempt ever carries None as its power, and
\* every power sent, committed or held lies within the configured limits.
THEOREM TypeCorrect == Spec => []TypeOK
  <1>1. Inv => TypeOK
    BY DEF Inv
  <1> QED BY <1>1, Invariance, PTL

\* The lock spans all attempts of a write: two tasks are never both between
\* their first and last attempt.
THEOREM SequencesExclude == Spec => []OneSequenceAtATime
  <1>1. Inv => OneSequenceAtATime
    BY DEF Inv, LockInv, OneSequenceAtATime
  <1> QED BY <1>1, Invariance, PTL

\* No release is confirmed while a keepalive is between its attempts.
THEOREM KeepaliveNeverOutlivesRelease == Spec => []KeepaliveHasSetpoint
  <1>1. Inv => KeepaliveHasSetpoint
    BY DEF Inv
  <1> QED BY <1>1, Invariance, PTL

-----------------------------------------------------------------------------
(* Calls keep their order. *)

\* r is q with some elements left out.
Thins(r, q) ==
    /\ \A i \in 1..Len(r) : \E m \in 1..Len(q) : r[i] = q[m]
    /\ \A i, j \in 1..Len(r) :
        i < j => \E m, n \in 1..Len(q) : m < n /\ r[i] = q[m] /\ r[j] = q[n]

\* The owner of a queue leaves: what remains is the queue, thinned out.
LEMMA TailThins ==
    ASSUME NEW S, NEW q \in Seq(S), q # << >>
    PROVE  Thins(Tail(q), q)
  <1>1. /\ Len(q) \in Nat \ {0}
        /\ Len(Tail(q)) = Len(q) - 1
        /\ \A i \in 1..Len(Tail(q)) : Tail(q)[i] = q[i + 1]
    BY TailFacts
  <1>2. ASSUME NEW i \in 1..Len(Tail(q))
        PROVE  i + 1 \in 1..Len(q) /\ Tail(q)[i] = q[i + 1]
    BY <1>1
  <1>3. ASSUME NEW i \in 1..Len(Tail(q)), NEW j \in 1..Len(Tail(q)), i < j
        PROVE  \E m, n \in 1..Len(q) : m < n /\ Tail(q)[i] = q[m] /\ Tail(q)[j] = q[n]
    <2>1. i + 1 < j + 1
      BY <1>3
    <2> QED BY <1>2, <2>1
  <1> QED BY <1>2, <1>3 DEF Thins

\* A cancelled task leaves: what remains is the queue, thinned out.
LEMMA RemoveAtThins ==
    ASSUME NEW S, NEW q \in Seq(S), NEW k \in 1..Len(q)
    PROVE  Thins(RemoveAt(q, k), q)
  <1> DEFINE r == RemoveAt(q, k)
             at(i) == IF i < k THEN i ELSE i + 1
  <1>1. /\ Len(q) \in Nat
        /\ Len(r) = Len(q) - 1
        /\ \A i \in 1..Len(q) - 1 : r[i] = IF i < k THEN q[i] ELSE q[i + 1]
    BY RemoveAtFacts
  <1> HIDE DEF r
  <1>2. ASSUME NEW i \in 1..Len(r)
        PROVE  at(i) \in 1..Len(q) /\ r[i] = q[at(i)]
    BY <1>1
  <1>3. ASSUME NEW i \in 1..Len(r), NEW j \in 1..Len(r), i < j
        PROVE  at(i) < at(j)
    BY <1>1, <1>3
  <1> HIDE DEF at
  <1>4. Thins(r, q)
    BY <1>2, <1>3 DEF Thins
  <1> QED BY <1>4 DEF r

\* A queue that nobody leaves is thinned out by nothing.
LEMMA ThinsSelf ==
    ASSUME NEW q
    PROVE  Thins(q, q)
  BY DEF Thins

\* What Order says is typed: numbers in the two queues.
LEMMA QueueTypes ==
    ASSUME Inv
    PROVE  /\ writeQueue \in Seq(Task) /\ verifying \in Seq(Calls)
           /\ Len(writeQueue) \in Nat /\ Len(verifying) \in Nat
           /\ landed \in Int /\ committed \in Int /\ issued \in Int
           /\ \A i \in 1..Len(writeQueue) : writeQueue[i] \in Int
           /\ \A i \in 1..Len(verifying) : verifying[i] \in Int
  <1>1. writeQueue \in Seq(Task) /\ verifying \in Seq(Calls)
    BY DEF Inv, TypeOK
  <1>2. landed \in Int /\ committed \in Int /\ issued \in Int
    BY ConstantsAssumption DEF Inv, TypeOK
  <1>3. Task \subseteq Int /\ Calls \subseteq Int
    BY DEF Task, Calls, Poll
  <1>4. /\ \A i \in 1..Len(writeQueue) : writeQueue[i] \in Task
        /\ \A i \in 1..Len(verifying) : verifying[i] \in Calls
    BY <1>1
  <1>5. Len(writeQueue) \in Nat /\ Len(verifying) \in Nat
    BY <1>1
  <1>6. /\ \A i \in 1..Len(writeQueue) : writeQueue[i] \in Int
        /\ \A i \in 1..Len(verifying) : verifying[i] \in Int
    BY <1>3, <1>4
  <1> QED BY <1>1, <1>2, <1>5, <1>6

\* Every task in a queue was called before.
LEMMA QueuedAreIssued ==
    ASSUME Inv
    PROVE  /\ \A i \in 1..Len(writeQueue) : writeQueue[i] # Poll => writeQueue[i] <= issued
           /\ \A i \in 1..Len(verifying) : verifying[i] <= issued
  <1>1. \A c \in Calls : pc[c] # "idle" => c <= issued
    BY ConstantsAssumption DEF Inv, Bookkeeping, TypeOK, Calls
  <1>2. \A i \in 1..Len(writeQueue) : writeQueue[i] \in Task /\ pc[writeQueue[i]] # "idle"
    BY DEF Inv, LockInv, TypeOK, Holding
  <1>3. \A i \in 1..Len(verifying) : verifying[i] \in Calls /\ pc[verifying[i]] # "idle"
    BY DEF Inv, Bookkeeping, TypeOK
  <1> QED BY <1>1, <1>2, <1>3 DEF Task

\* Steps that only take tasks out of the two queues, and may land the first.
LEMMA ThinOrder ==
    ASSUME Inv, Order, UNCHANGED <<issued, committed>>,
           Thins(writeQueue', writeQueue), Thins(verifying', verifying),
           \/ landed' = landed
           \/ /\ writeQueue # << >>
              /\ writeQueue[1] \in Calls
              /\ landed' = writeQueue[1]
              /\ landed' <= issued
    PROVE  Order' /\ landed' >= landed
  <1> USE DEF Inv
  <1>1. /\ writeQueue \in Seq(Task) /\ verifying \in Seq(Calls)
        /\ Len(writeQueue) \in Nat /\ Len(verifying) \in Nat
        /\ landed \in Int /\ committed \in Int /\ issued \in Int
        /\ \A i \in 1..Len(writeQueue) : writeQueue[i] \in Int
        /\ \A i \in 1..Len(verifying) : verifying[i] \in Int
    BY QueueTypes
  <1>2. /\ landed' >= landed
        /\ landed' <= issued'
        /\ \A i \in 1..Len(writeQueue) :
            writeQueue[i] # Poll => landed' <= writeQueue[i]
    <2>1. CASE landed' = landed
      BY <1>1, <2>1 DEF Order
    <2>2. CASE /\ writeQueue # << >>
               /\ writeQueue[1] \in Calls
               /\ landed' = writeQueue[1]
               /\ landed' <= issued
      <3>1. 1 \in 1..Len(writeQueue) /\ writeQueue[1] # Poll
        BY <1>1, <2>2 DEF Calls, Poll
      <3>2. \A i \in 1..Len(writeQueue) : i = 1 \/ 1 < i
        BY <1>1
      <3> QED BY <1>1, <2>2, <3>1, <3>2 DEF Order
    <2> QED BY <2>1, <2>2
  <1>3. \A i \in 1..Len(writeQueue') : writeQueue'[i] # Poll =>
            landed' <= writeQueue'[i] /\ committed' < writeQueue'[i]
    BY <1>2 DEF Order, Thins
  <1>4. \A i, j \in 1..Len(writeQueue') :
            i < j /\ writeQueue'[i] # Poll /\ writeQueue'[j] # Poll
            => writeQueue'[i] < writeQueue'[j]
    <2> SUFFICES ASSUME NEW i \in 1..Len(writeQueue'), NEW j \in 1..Len(writeQueue'),
                        i < j, writeQueue'[i] # Poll, writeQueue'[j] # Poll
                 PROVE  writeQueue'[i] < writeQueue'[j]
      OBVIOUS
    <2>1. PICK m, n \in 1..Len(writeQueue) :
              m < n /\ writeQueue'[i] = writeQueue[m] /\ writeQueue'[j] = writeQueue[n]
      BY DEF Thins
    <2> QED BY <2>1 DEF Order
  <1>5. \A i \in 1..Len(verifying') : committed' <= verifying'[i]
    BY DEF Order, Thins
  <1>6. \A i, j \in 1..Len(verifying') : i < j => verifying'[i] < verifying'[j]
    BY DEF Order, Thins
  <1>7. \A i \in 1..Len(verifying'), j \in 1..Len(writeQueue') :
            writeQueue'[j] # Poll => verifying'[i] < writeQueue'[j]
    BY DEF Order, Thins
  <1>8. committed' <= issued'
    BY DEF Order
  <1> QED BY <1>2, <1>3, <1>4, <1>5, <1>6, <1>7, <1>8 DEF Order

\* A new call is greater than all calls before it, wherever they are.
LEMMA CallOrder ==
    ASSUME Inv, Order, issued' = issued + 1, UNCHANGED <<verifying, landed, committed>>,
           \/ writeQueue' = writeQueue
           \/ writeQueue' = Append(writeQueue, issued + 1)
    PROVE  Order'
  <1>1. /\ writeQueue \in Seq(Task) /\ verifying \in Seq(Calls)
        /\ Len(writeQueue) \in Nat /\ Len(verifying) \in Nat
        /\ landed \in Int /\ committed \in Int /\ issued \in Int
        /\ \A i \in 1..Len(writeQueue) : writeQueue[i] \in Int
        /\ \A i \in 1..Len(verifying) : verifying[i] \in Int
    BY QueueTypes
  <1>2. /\ \A i \in 1..Len(writeQueue) : writeQueue[i] # Poll => writeQueue[i] < issued + 1
        /\ \A i \in 1..Len(verifying) : verifying[i] < issued + 1
        /\ landed < issued + 1 /\ committed < issued + 1
    BY <1>1, QueuedAreIssued DEF Order
  <1>3. CASE writeQueue' = writeQueue
    BY <1>1, <1>3 DEF Order
  <1>4. CASE writeQueue' = Append(writeQueue, issued + 1)
    <2>1. /\ Len(writeQueue') = Len(writeQueue) + 1
          /\ \A i \in 1..Len(writeQueue) : writeQueue'[i] = writeQueue[i]
          /\ writeQueue'[Len(writeQueue) + 1] = issued + 1
      BY <1>1, <1>4
    <2>2. \A i \in 1..Len(writeQueue') :
              \/ i \in 1..Len(writeQueue) /\ writeQueue'[i] = writeQueue[i]
              \/ i = Len(writeQueue) + 1 /\ writeQueue'[i] = issued + 1
      BY <1>1, <2>1
    <2>3. \A i \in 1..Len(writeQueue') : writeQueue'[i] # Poll =>
              landed' <= writeQueue'[i] /\ committed' < writeQueue'[i]
      BY <1>1, <1>2, <2>2 DEF Order
    <2>4. ASSUME NEW i \in 1..Len(writeQueue'), NEW j \in 1..Len(writeQueue'),
                 i < j, writeQueue'[i] # Poll, writeQueue'[j] # Poll
          PROVE  writeQueue'[i] < writeQueue'[j]
      <3>1. i \in 1..Len(writeQueue) /\ writeQueue'[i] = writeQueue[i]
        BY <1>1, <2>1, <2>4
      <3> QED BY <1>1, <1>2, <2>2, <2>4, <3>1 DEF Order
    <2>5. \A i \in 1..Len(verifying'), j \in 1..Len(writeQueue') :
              writeQueue'[j] # Poll => verifying'[i] < writeQueue'[j]
      BY <1>1, <1>2, <2>2 DEF Order
    <2> QED BY <1>1, <1>2, <2>3, <2>4, <2>5 DEF Order
  <1> QED BY <1>3, <1>4

\* The keepalive is not a call and may queue anywhere.
LEMMA KeepaliveOrder ==
    ASSUME Inv, Order, writeQueue' = Append(writeQueue, Poll),
           UNCHANGED <<issued, verifying, landed, committed>>
    PROVE  Order'
  <1>1. writeQueue \in Seq(Task) /\ Len(writeQueue) \in Nat
    BY QueueTypes
  <1>2. /\ Len(writeQueue') = Len(writeQueue) + 1
        /\ \A i \in 1..Len(writeQueue) : writeQueue'[i] = writeQueue[i]
        /\ writeQueue'[Len(writeQueue) + 1] = Poll
    BY <1>1
  <1>3. \A i \in 1..Len(writeQueue') : writeQueue'[i] # Poll =>
            i \in 1..Len(writeQueue) /\ writeQueue'[i] = writeQueue[i]
    BY <1>1, <1>2
  <1> QED BY <1>3 DEF Order

\* A confirmed write moves from the lock to the readback and lands.
LEMMA ConfirmAndVerifyOrder ==
    ASSUME Inv, Order, NEW t \in Task, ConfirmAndVerify(t)
    PROVE  Order' /\ landed' >= landed
  <1> USE DEF ConfirmAndVerify
  <1>1. /\ writeQueue \in Seq(Task) /\ verifying \in Seq(Calls)
        /\ Len(writeQueue) \in Nat /\ Len(verifying) \in Nat
        /\ landed \in Int /\ committed \in Int /\ issued \in Int
        /\ \A i \in 1..Len(writeQueue) : writeQueue[i] \in Int
        /\ \A i \in 1..Len(verifying) : verifying[i] \in Int
    BY QueueTypes
  <1>2. t \in Calls /\ t # Poll /\ writeQueue # << >> /\ writeQueue[1] = t
    BY OwnerIsFirst DEF Inv, Bookkeeping, OnWire, Holding, Task
  <1>3. landed' = t
    BY <1>2 DEF Land
  <1>4. t <= issued
    BY <1>1, <1>2, QueuedAreIssued
  <1>5. Thins(writeQueue', writeQueue)
    BY <1>1, <1>2, TailThins DEF Leave
  <1>6. UNCHANGED <<issued, committed>>
    OBVIOUS
  <1>7. 1 \in 1..Len(writeQueue)
    BY <1>1, <1>2
  <1>8. landed <= t /\ committed < t /\ \A i \in 1..Len(verifying) : verifying[i] < t
    BY <1>2, <1>7 DEF Order
  <1>9. /\ Len(writeQueue') = Len(writeQueue) - 1
        /\ \A j \in 1..Len(writeQueue') : writeQueue'[j] = writeQueue[j + 1]
    BY <1>1, <1>2, TailFacts DEF Leave
  <1>10. \A j \in 1..Len(writeQueue') : writeQueue'[j] # Poll => t < writeQueue'[j]
    <2> SUFFICES ASSUME NEW j \in 1..Len(writeQueue'), writeQueue'[j] # Poll
                 PROVE  t < writeQueue'[j]
      OBVIOUS
    <2>1. j + 1 \in 1..Len(writeQueue) /\ 1 < j + 1 /\ writeQueue'[j] = writeQueue[j + 1]
      BY <1>1, <1>9
    <2> QED BY <1>2, <1>7, <2>1 DEF Order
  <1>11. \A i, j \in 1..Len(writeQueue') :
            i < j /\ writeQueue'[i] # Poll /\ writeQueue'[j] # Poll
            => writeQueue'[i] < writeQueue'[j]
    <2> SUFFICES ASSUME NEW i \in 1..Len(writeQueue'), NEW j \in 1..Len(writeQueue'),
                        i < j, writeQueue'[i] # Poll, writeQueue'[j] # Poll
                 PROVE  writeQueue'[i] < writeQueue'[j]
      OBVIOUS
    <2>1. PICK m, n \in 1..Len(writeQueue) :
              m < n /\ writeQueue'[i] = writeQueue[m] /\ writeQueue'[j] = writeQueue[n]
      BY <1>5 DEF Thins
    <2> QED BY <2>1 DEF Order
  <1>12. /\ Len(verifying') = Len(verifying) + 1
         /\ \A i \in 1..Len(verifying) : verifying'[i] = verifying[i]
         /\ verifying'[Len(verifying) + 1] = t
    BY <1>1, <1>2
  <1>13. \A i \in 1..Len(verifying') :
            \/ i \in 1..Len(verifying) /\ verifying'[i] = verifying[i]
            \/ i = Len(verifying) + 1 /\ verifying'[i] = t
    BY <1>1, <1>12
  <1>14. \A i \in 1..Len(verifying') : committed' <= verifying'[i] /\ verifying'[i] <= t
    BY <1>1, <1>2, <1>6, <1>8, <1>13 DEF Order, Calls
  <1>15. ASSUME NEW i \in 1..Len(verifying'), NEW j \in 1..Len(verifying'), i < j
         PROVE  verifying'[i] < verifying'[j]
    <2>1. i \in 1..Len(verifying) /\ verifying'[i] = verifying[i]
      BY <1>1, <1>12, <1>15
    <2> QED BY <1>8, <1>13, <1>15, <2>1 DEF Order
  <1>16. ASSUME NEW i \in 1..Len(verifying'), NEW j \in 1..Len(writeQueue'),
                writeQueue'[j] # Poll
         PROVE  verifying'[i] < writeQueue'[j]
    <2>1. verifying'[i] \in Int /\ writeQueue'[j] \in Int /\ t \in Int
      <3>1. t \in Int
        BY <1>2 DEF Calls
      <3>2. verifying'[i] \in Int
        BY <1>1, <1>13, <3>1
      <3>3. writeQueue'[j] \in Int
        BY <1>1, <1>5 DEF Thins
      <3> QED BY <3>1, <3>2, <3>3
    <2> QED BY <1>10, <1>14, <1>16, <2>1
  <1>17. \A j \in 1..Len(writeQueue') : writeQueue'[j] # Poll =>
            landed' <= writeQueue'[j] /\ committed' < writeQueue'[j]
    <2> SUFFICES ASSUME NEW j \in 1..Len(writeQueue'), writeQueue'[j] # Poll
                 PROVE  landed' <= writeQueue'[j] /\ committed' < writeQueue'[j]
      OBVIOUS
    <2>1. writeQueue'[j] \in Int /\ t \in Int
      BY <1>1, <1>2, <1>5 DEF Calls, Thins
    <2> QED BY <1>1, <1>3, <1>6, <1>8, <1>10, <2>1
  <1>18. landed' >= landed /\ landed' <= issued' /\ committed' <= issued'
    BY <1>1, <1>2, <1>3, <1>4, <1>6, <1>8 DEF Order, Calls
  <1> QED BY <1>11, <1>14, <1>15, <1>16, <1>17, <1>18 DEF Order

\* A commit takes the first of the readback; what follows was called later.
LEMMA CommitOrder ==
    ASSUME Inv, Order, NEW t \in Calls, Commit(t)
    PROVE  Order' /\ committed' >= committed /\ landed' = landed
  <1>1. /\ writeQueue \in Seq(Task) /\ verifying \in Seq(Calls)
        /\ Len(writeQueue) \in Nat /\ Len(verifying) \in Nat
        /\ landed \in Int /\ committed \in Int /\ issued \in Int
        /\ \A i \in 1..Len(writeQueue) : writeQueue[i] \in Int
        /\ \A i \in 1..Len(verifying) : verifying[i] \in Int
    BY QueueTypes
  <1>2. /\ Verified(t)
        /\ committed' = committed \/ committed' = t
    BY DEF Commit, CommitSetpoint, CommitBackup
  <1>3. /\ verifying # << >> /\ verifying' = Tail(verifying)
        /\ t = Head(verifying)
        /\ UNCHANGED <<issued, writeQueue, landed>>
    BY <1>2 DEF Verified
  <1>4. /\ t = verifying[1]
        /\ 1 \in 1..Len(verifying)
        /\ Len(verifying') = Len(verifying) - 1
        /\ \A i \in 1..Len(verifying') : verifying'[i] = verifying[i + 1]
    BY <1>1, <1>3, TailFacts
  <1>5. Thins(verifying', verifying)
    BY <1>1, <1>3, TailThins
  <1>6. t \in Int /\ committed <= t /\ t <= issued
    BY <1>4, QueuedAreIssued DEF Order, Calls
  <1>7. committed' >= committed /\ committed' <= t /\ committed' <= issued' /\ committed' \in Int
    BY <1>1, <1>2, <1>3, <1>6
  <1>8. ASSUME NEW i \in 1..Len(verifying')
        PROVE  committed' <= verifying'[i]
    <2>1. i + 1 \in 1..Len(verifying) /\ 1 < i + 1 /\ verifying'[i] = verifying[i + 1]
      BY <1>1, <1>4
    <2>2. t < verifying'[i] /\ verifying'[i] \in Int
      BY <1>1, <1>4, <2>1 DEF Order
    <2> QED BY <1>6, <1>7, <2>2
  <1>9. ASSUME NEW i \in 1..Len(writeQueue), writeQueue[i] # Poll
        PROVE  landed' <= writeQueue[i] /\ committed' < writeQueue[i]
    <2>1. t < writeQueue[i]
      BY <1>4, <1>9 DEF Order
    <2> QED BY <1>1, <1>3, <1>6, <1>7, <1>9, <2>1 DEF Order
  <1>10. \A i, j \in 1..Len(verifying') : i < j => verifying'[i] < verifying'[j]
    BY <1>5 DEF Order, Thins
  <1>11. \A i \in 1..Len(verifying'), j \in 1..Len(writeQueue) :
            writeQueue[j] # Poll => verifying'[i] < writeQueue[j]
    BY <1>5 DEF Order, Thins
  <1>12. landed' <= issued' /\ landed' = landed
    BY <1>3 DEF Order
  <1> QED BY <1>3, <1>7, <1>8, <1>9, <1>10, <1>11, <1>12 DEF Order

\* The owner's request may land; the queues stay or lose tasks.
LEMMA OwnerOrder ==
    ASSUME Inv, Order, NEW t \in Task, pc[t] \in Holding,
           Land(t) \/ landed' = landed,
           Thins(writeQueue', writeQueue),
           UNCHANGED <<issued, verifying, committed>>
    PROVE  Order' /\ landed' >= landed
  <1>1. writeQueue # << >> /\ writeQueue[1] = t
    BY OwnerIsFirst
  <1>2. Thins(verifying', verifying)
    BY ThinsSelf
  <1>3. \/ landed' = landed
        \/ t \in Calls /\ landed' = t /\ landed' <= issued
    <2>1. CASE Land(t) /\ t # Poll
      <3>1. 1 \in 1..Len(writeQueue)
        BY <1>1, QueueTypes
      <3> QED BY <1>1, <2>1, <3>1, QueuedAreIssued DEF Land, Task
    <2>2. CASE Land(t) /\ t = Poll
      BY <2>2 DEF Land
    <2> QED BY <2>1, <2>2
  <1> QED BY <1>1, <1>2, <1>3, ThinOrder

\* Nothing is queued: the order holds.
LEMMA OrderInit == Init => Order
  BY ConstantsAssumption DEF Init, Order

\* Every step preserves the order, and moves both histories forward.
LEMMA OrderNext ==
    ASSUME Inv, Order, [Next]_vars
    PROVE  Order' /\ landed' >= landed /\ committed' >= committed
  <1> DEFINE Goal == Order' /\ landed' >= landed /\ committed' >= committed
  <1>1. landed \in Int /\ committed \in Int /\ writeQueue \in Seq(Task) /\ verifying \in Seq(Calls)
    BY QueueTypes
  <1>2. landed' = landed => landed' >= landed
    BY <1>1
  <1>3. committed' = committed => committed' >= committed
    BY <1>1
  <1> SUFFICES Goal
    OBVIOUS
  <1> HIDE DEF Goal
  <1>4. CASE Entity
    <2>1. /\ issued' = issued + 1
          /\ UNCHANGED <<verifying, landed, committed>>
          /\ writeQueue' \in {writeQueue, Append(writeQueue, issued + 1)}
      BY <1>4 DEF Entity, SetSetpoint, SetBackup, Release, ReleaseNothing, Call, Enter, NextCall
    <2> QED BY <1>2, <1>3, <2>1, CallOrder DEF Goal
  <1>5. CASE IntervalElapses \/ PollWithoutKeepalive \/ WatchdogExpires \/ UNCHANGED vars
    <2>1. UNCHANGED <<issued, writeQueue, verifying, landed, committed>>
      BY <1>5 DEF IntervalElapses, PollWithoutKeepalive, WatchdogExpires, vars, taskVars
    <2> QED BY <1>2, <1>3, <2>1 DEF Goal, Order
  <1>6. CASE KeepaliveStart
    BY <1>2, <1>3, <1>6, KeepaliveOrder DEF Goal, KeepaliveStart, Enter
  <1>7. CASE KeepaliveRaises
    <2>1. /\ Thins(writeQueue', writeQueue) /\ Thins(verifying', verifying)
          /\ UNCHANGED <<issued, landed, committed>>
      BY <1>1, <1>7, TailThins, ThinsSelf DEF KeepaliveRaises, Leave
    <2> QED BY <1>3, <2>1, ThinOrder DEF Goal
  <1>8. ASSUME NEW t \in Task, Acquire(t) \/ Resend(t) PROVE Goal
    <2>1. UNCHANGED <<issued, writeQueue, verifying, landed, committed>>
      BY <1>8 DEF Acquire, Resend
    <2> QED BY <1>2, <1>3, <2>1 DEF Goal, Order
  <1>9. ASSUME NEW t \in Task, ReplyLost(t) \/ RequestLost(t) PROVE Goal
    <2>1. /\ pc[t] \in Holding /\ Unconfirmed(t)
          /\ Land(t) \/ landed' = landed
      BY <1>9 DEF ReplyLost, RequestLost, OnWire, Holding
    <2>2. writeQueue # << >>
      BY <2>1, OwnerIsFirst
    <2>3. Thins(writeQueue', writeQueue)
      BY <1>1, <2>1, <2>2, TailThins, ThinsSelf DEF Unconfirmed, Leave
    <2> QED BY <1>3, <2>1, <2>3, OwnerOrder DEF Goal, Unconfirmed
  <1>10. ASSUME NEW t \in Task, ConfirmAndVerify(t) PROVE Goal
    BY <1>3, <1>10, ConfirmAndVerifyOrder DEF Goal, ConfirmAndVerify
  <1>11. ASSUME NEW t \in Task, ConfirmRelease(t) \/ (t = Poll /\ ConfirmKeepalive) PROVE Goal
    <2>1. /\ pc[t] \in Holding /\ Land(t)
          /\ writeQueue' = Tail(writeQueue)
          /\ UNCHANGED <<issued, verifying, committed>>
      BY <1>11 DEF ConfirmRelease, ConfirmKeepalive, OnWire, Holding, Leave
    <2>2. Thins(writeQueue', writeQueue)
      BY <1>1, <2>1, OwnerIsFirst, TailThins
    <2> QED BY <1>3, <2>1, <2>2, OwnerOrder DEF Goal
  <1>12. ASSUME NEW t \in Calls, Commit(t) PROVE Goal
    BY <1>2, <1>12, CommitOrder DEF Goal
  <1>13. ASSUME NEW t \in Calls, Cancel(t) PROVE Goal
    <2>1. t \in Task /\ UNCHANGED <<issued, committed>>
      BY <1>13 DEF Cancel, CancelWrite, CancelAfterLanding, CancelVerify, CancelTask, Task
    <2>2. CASE CancelWrite(t)
      <3>1. Thins(writeQueue', writeQueue) /\ Thins(verifying', verifying)
        BY <1>1, <2>2, RemoveAtThins, ThinsSelf DEF CancelWrite, LeaveQueue
      <3> QED BY <1>3, <2>1, <2>2, <3>1, ThinOrder DEF Goal, CancelWrite
    <2>3. CASE CancelAfterLanding(t)
      <3>1. Thins(writeQueue', writeQueue)
        BY <1>1, <2>3, RemoveAtThins DEF CancelAfterLanding, LeaveQueue
      <3>2. pc[t] \in Holding /\ Land(t) /\ UNCHANGED verifying
        BY <2>3 DEF CancelAfterLanding, OnWire, Holding
      <3> QED BY <1>3, <2>1, <3>1, <3>2, OwnerOrder DEF Goal
    <2>4. CASE CancelVerify(t)
      <3>1. Thins(writeQueue', writeQueue) /\ Thins(verifying', verifying)
        BY <1>1, <2>4, RemoveAtThins, ThinsSelf DEF CancelVerify
      <3> QED BY <1>3, <2>1, <2>4, <3>1, ThinOrder DEF Goal, CancelVerify
    <2> QED BY <1>13, <2>2, <2>3, <2>4 DEF Cancel
  <1>14. ASSUME NEW t \in Task, Attempted(t) PROVE Goal
    BY <1>9, <1>10, <1>11, <1>14 DEF Attempted
  <1>15. CASE Polling
    BY <1>5, <1>6, <1>7, <1>15 DEF Polling
  <1>16. CASE Next
    <2>1. CASE \E t \in Task : Acquire(t) \/ Attempted(t) \/ Resend(t)
      BY <1>8, <1>14, <2>1
    <2>2. CASE \E t \in Calls : Commit(t) \/ Cancel(t)
      BY <1>12, <1>13, <2>2
    <2> QED BY <1>4, <1>5, <1>15, <1>16, <2>1, <2>2 DEF Next
  <1> QED BY <1>5, <1>16

\* A re-sent payload never lands after the write of a newer call.
THEOREM StaleResendImpossible == Spec => WritesLandInIssueOrder
  <1>1. Inv /\ Order /\ [Next]_vars => Order' /\ [landed' >= landed]_vars
    BY OrderNext
  <1> QED BY <1>1, Invariance, OrderInit, PTL DEF Spec, WritesLandInIssueOrder

\* Setpoints are committed in the order of their calls.
THEOREM CommitsOrdered == Spec => CommitsInIssueOrder
  <1>1. Inv /\ Order /\ [Next]_vars => Order' /\ [committed' >= committed]_vars
    BY OrderNext
  <1> QED BY <1>1, Invariance, OrderInit, PTL DEF Spec, CommitsInIssueOrder

=============================================================================
