---------------------------- MODULE WriterProofs ----------------------------
(***************************************************************************)
(* ControlWrites implements Writer, for every number of calls, every pair  *)
(* of power limits, every set of requests and every number of attempts.    *)
(***************************************************************************)
EXTENDS ControlWritesProofs

-----------------------------------------------------------------------------
(* The orders of a queue of tasks. *)

Order1(t, k, p) == [task |-> t, kind |-> k[t], payload |-> p[t]]

OrdersOf(q, k, p) == [i \in 1..Len(q) |-> Order1(q[i], k, p)]

Values == Power \cup {0, 1}

FirstGiven(orders, v) == [orders EXCEPT ![1].payload = v]

OrderOf(k, p) == [t \in Task |-> Order1(t, k, p)]

\* The orders of a queue are what its tasks show.
LEMMA OrdersAreShown ==
    ASSUME NEW q \in Seq(Task), NEW k, NEW p
    PROVE  OrdersOf(q, k, p) = Mapped(q, OrderOf(k, p))
  <1>1. \A i \in 1..Len(q) : q[i] \in Task
    OBVIOUS
  <1> QED BY <1>1 DEF OrdersOf, OrderOf, Mapped

\* The orders of a queue are as many as its tasks.
LEMMA OrdersAreTyped ==
    ASSUME NEW q \in Seq(Task), NEW k \in [Task -> Kinds], NEW p \in [Task -> Values]
    PROVE  /\ OrdersOf(q, k, p) \in Seq(Writer!Orders)
           /\ Len(OrdersOf(q, k, p)) = Len(q)
           /\ \A i \in 1..Len(q) : OrdersOf(q, k, p)[i] = Order1(q[i], k, p)
  <1> DEFINE f == OrderOf(k, p)
  <1>1. \A t \in Task : f[t] \in Writer!Orders
    BY DEF OrderOf, Order1, Writer!Orders, Values
  <1> HIDE DEF f
  <1>2. Mapped(q, f) \in Seq(Writer!Orders) /\ Len(Mapped(q, f)) = Len(q)
    BY <1>1, MappedType, MappedFacts
  <1> QED BY <1>2, OrdersAreShown DEF OrdersOf, f

\* A task that joins adds its order at the end.
LEMMA OrdersGrow ==
    ASSUME NEW q \in Seq(Task), NEW t \in Task,
           NEW k \in [Task -> Kinds], NEW p \in [Task -> Values],
           NEW k2 \in [Task -> Kinds], NEW p2 \in [Task -> Values],
           \A i \in 1..Len(q) : k2[q[i]] = k[q[i]] /\ p2[q[i]] = p[q[i]]
    PROVE  OrdersOf(Append(q, t), k2, p2) = Append(OrdersOf(q, k, p), Order1(t, k2, p2))
  <1> DEFINE f == OrderOf(k2, p2)
             r == Append(q, t)
  <1>1. r \in Seq(Task)
    BY AppendFacts
  <1> HIDE DEF r
  <1>2. OrdersOf(r, k2, p2) = Mapped(r, f)
    BY <1>1, OrdersAreShown
  <1>3. Mapped(r, f) = Append(Mapped(q, f), f[t])
    BY MappedAppend DEF r
  <1>4. Mapped(q, f) = OrdersOf(q, k2, p2)
    BY OrdersAreShown
  <1>5. OrdersOf(q, k2, p2) = OrdersOf(q, k, p)
    BY DEF OrdersOf, Order1
  <1>6. f[t] = Order1(t, k2, p2)
    BY DEF OrderOf
  <1> QED BY <1>2, <1>3, <1>4, <1>5, <1>6 DEF r

\* When a task in the middle leaves, so does its order.
LEMMA OrdersRemoved ==
    ASSUME NEW q \in Seq(Task), NEW n \in 1..Len(q), NEW k, NEW p
    PROVE  OrdersOf(RemoveAt(q, n), k, p) = RemoveAt(OrdersOf(q, k, p), n)
  <1> DEFINE f == OrderOf(k, p)
             r == RemoveAt(q, n)
  <1>1. r \in Seq(Task)
    BY RemoveAtFacts
  <1> HIDE DEF r
  <1>2. OrdersOf(r, k, p) = Mapped(r, f) /\ OrdersOf(q, k, p) = Mapped(q, f)
    BY <1>1, OrdersAreShown
  <1>3. Mapped(r, f) = RemoveAt(Mapped(q, f), n)
    BY MappedRemoveAt DEF r
  <1> QED BY <1>2, <1>3 DEF r

\* When the first task leaves, so does its order.
LEMMA OrdersTail ==
    ASSUME NEW q \in Seq(Task), q # << >>,
           NEW k \in [Task -> Kinds], NEW p \in [Task -> Values]
    PROVE  OrdersOf(Tail(q), k, p) = Tail(OrdersOf(q, k, p))
  <1> DEFINE b == OrdersOf(q, k, p)
  <1>1. Len(q) \in Nat \ {0} /\ 1 \in 1..Len(q)
    BY TailFacts
  <1>2. b \in Seq(Writer!Orders) /\ Len(b) = Len(q)
    BY OrdersAreTyped
  <1>3. OrdersOf(RemoveAt(q, 1), k, p) = RemoveAt(b, 1)
    BY <1>1, OrdersRemoved
  <1> HIDE DEF b
  <1>4. b # << >>
    BY <1>1, <1>2
  <1>5. RemoveAt(b, 1) = Tail(b) /\ RemoveAt(q, 1) = Tail(q)
    BY <1>2, <1>4, FirstLeaves
  <1> QED BY <1>3, <1>5 DEF b

\* The first order is given another payload.
LEMMA OrdersPrepared ==
    ASSUME NEW q \in Seq(Task), q # << >>, NEW k \in [Task -> Kinds],
           NEW p \in [Task -> Values], NEW p2 \in [Task -> Values],
           \A i \in 1..Len(q) : i # 1 => p2[q[i]] = p[q[i]]
    PROVE  OrdersOf(q, k, p2) = FirstGiven(OrdersOf(q, k, p), p2[q[1]])
  <1>1. Len(q) \in Nat \ {0} /\ 1 \in 1..Len(q)
    BY TailFacts
  <1>2. \A i \in 1..Len(q) :
            Order1(q[i], k, p2) = IF i = 1 THEN [Order1(q[i], k, p) EXCEPT !.payload = p2[q[1]]]
                                  ELSE Order1(q[i], k, p)
    BY DEF Order1
  <1> QED BY <1>1, <1>2 DEF OrdersOf, FirstGiven

-----------------------------------------------------------------------------
(* The steps of the writer. *)

Device == [held |-> held, short |-> short, backup |-> backup]

\* The orders are those of the tasks in the queue.
LEMMA PendingFacts ==
    ASSUME TypeOK
    PROVE  /\ Pending = OrdersOf(writeQueue, kind, payload)
           /\ Pending \in Seq(Writer!Orders)
           /\ Len(Pending) = Len(writeQueue)
           /\ \A i \in 1..Len(writeQueue) : Pending[i] = Order1(writeQueue[i], kind, payload)
  <1>1. Pending = OrdersOf(writeQueue, kind, payload)
    BY DEF Pending, OrdersOf, Order1
  <1>2. writeQueue \in Seq(Task) /\ kind \in [Task -> Kinds] /\ payload \in [Task -> Values]
    BY DEF TypeOK, Values
  <1> QED BY <1>1, <1>2, OrdersAreTyped

LEMMA JoinStep ==
    ASSUME Inv, TypeOK', NEW t \in Task, pc[t] = "idle",
           writeQueue' = Append(writeQueue, t),
           \A u \in Task : u # t => kind'[u] = kind[u] /\ payload'[u] = payload[u],
           UNCHANGED deviceVars
    PROVE  Writer!Next
  <1> DEFINE o == Order1(t, kind', payload')
  <1>1. /\ kind \in [Task -> Kinds] /\ payload \in [Task -> Values]
        /\ kind' \in [Task -> Kinds] /\ payload' \in [Task -> Values]
        /\ writeQueue \in Seq(Task)
    BY DEF Inv, TypeOK, Values
  <1>2. \A i \in 1..Len(writeQueue) : writeQueue[i] \in Task /\ writeQueue[i] # t
    <2>1. \A i \in 1..Len(writeQueue) : writeQueue[i] \in Task
      BY <1>1
    <2>2. \A i \in 1..Len(writeQueue) : pc[writeQueue[i]] # "idle"
      BY DEF Inv, LockInv, Holding
    <2> QED BY <2>1, <2>2
  <1>3. Pending' = OrdersOf(writeQueue', kind', payload')
    BY DEF Pending, OrdersOf, Order1
  <1>4. OrdersOf(Append(writeQueue, t), kind', payload')
          = Append(OrdersOf(writeQueue, kind, payload), o)
    <2>1. \A q \in Seq(Task), u \in Task,
             k \in [Task -> Kinds], p \in [Task -> Values],
             k2 \in [Task -> Kinds], p2 \in [Task -> Values] :
             (\A i \in 1..Len(q) : k2[q[i]] = k[q[i]] /\ p2[q[i]] = p[q[i]])
             => OrdersOf(Append(q, u), k2, p2) = Append(OrdersOf(q, k, p), Order1(u, k2, p2))
      BY OrdersGrow, Zenon
    <2>2. \A i \in 1..Len(writeQueue) :
              /\ kind'[writeQueue[i]] = kind[writeQueue[i]]
              /\ payload'[writeQueue[i]] = payload[writeQueue[i]]
      BY <1>2
    <2> QED BY <1>1, <2>1, <2>2, Zenon
  <1>5. Pending' = Append(Pending, o)
    BY <1>3, <1>4, PendingFacts DEF Inv
  <1>6. o \in Writer!Orders
    BY <1>1 DEF Order1, Writer!Orders, Values
  <1>7. \A i \in 1..Len(Pending) : Pending[i].task # o.task
    <2>1. \A i \in 1..Len(Pending) : Pending[i].task = writeQueue[i]
      <3>1. \A i \in 1..Len(Pending) : Pending[i] = Order1(writeQueue[i], kind, payload)
        BY PendingFacts DEF Inv
      <3>2. \A u : Order1(u, kind, payload).task = u
        BY DEF Order1
      <3> QED BY <3>1, <3>2
    <2>2. o.task = t
      BY DEF Order1
    <2>3. Len(Pending) = Len(writeQueue)
      BY PendingFacts DEF Inv
    <2> HIDE DEF o
    <2> QED BY <1>2, <2>1, <2>2, <2>3
  <1>8. UNCHANGED Device
    BY DEF Device, deviceVars
  <1> HIDE DEF o
  <1>9. Writer!Join(o)
    BY <1>5, <1>7, <1>8 DEF Writer!Join, Device
  <1> QED BY <1>6, <1>9 DEF Writer!Next

LEMMA PrepareStep ==
    ASSUME Inv, writeQueue # << >>, NEW v \in Values,
           payload' = [payload EXCEPT ![writeQueue[1]] = v],
           UNCHANGED <<writeQueue, kind, deviceVars>>
    PROVE  Writer!Next
  <1>1. /\ kind \in [Task -> Kinds] /\ payload \in [Task -> Values]
        /\ writeQueue \in Seq(Task)
        /\ \A i, j \in 1..Len(writeQueue) : writeQueue[i] = writeQueue[j] => i = j
    BY DEF Inv, TypeOK, Values, LockInv
  <1>2. Pending' = OrdersOf(writeQueue, kind, payload')
    BY DEF Pending, OrdersOf, Order1
  <1>8. Len(writeQueue) \in Nat \ {0} /\ 1 \in 1..Len(writeQueue)
    BY <1>1, TailFacts
  <1>9. /\ payload' \in [Task -> Values] /\ payload'[writeQueue[1]] = v
        /\ \A i \in 1..Len(writeQueue) :
              i # 1 => payload'[writeQueue[i]] = payload[writeQueue[i]]
    BY <1>1, <1>8
  <1>3. OrdersOf(writeQueue, kind, payload')
          = FirstGiven(OrdersOf(writeQueue, kind, payload), payload'[writeQueue[1]])
    <2>1. \A q \in Seq(Task), k \in [Task -> Kinds],
             p \in [Task -> Values], p2 \in [Task -> Values] :
             q # << >> /\ (\A i \in 1..Len(q) : i # 1 => p2[q[i]] = p[q[i]])
             => OrdersOf(q, k, p2) = FirstGiven(OrdersOf(q, k, p), p2[q[1]])
      BY OrdersPrepared, Zenon
    <2>2. \A p2 \in [Task -> Values] :
             (\A i \in 1..Len(writeQueue) : i # 1 => p2[writeQueue[i]] = payload[writeQueue[i]])
             => OrdersOf(writeQueue, kind, p2)
                  = FirstGiven(OrdersOf(writeQueue, kind, payload), p2[writeQueue[1]])
      BY <1>1, <2>1, Zenon
    <2> QED BY <1>9, <2>2, Zenon
  <1>4. Pending' = [Pending EXCEPT ![1].payload = v]
    BY <1>2, <1>3, <1>9, PendingFacts DEF Inv, FirstGiven
  <1>5. Pending # << >>
    <2>1. Len(writeQueue) # 0
      BY <1>1, EmptySeq
    <2> QED BY <2>1, PendingFacts DEF Inv
  <1>6. UNCHANGED Device
    BY DEF Device, deviceVars
  <1>7. Writer!Prepare(v)
    BY <1>4, <1>5, <1>6 DEF Writer!Prepare, Device
  <1> QED BY <1>7 DEF Writer!Next, Values

LEMMA ExecuteStep ==
    ASSUME Inv, writeQueue # << >>, Land(writeQueue[1]),
           writeQueue' \in {writeQueue, Tail(writeQueue)},
           UNCHANGED <<kind, payload>>
    PROVE  Writer!Next
  <1> DEFINE t == writeQueue[1]
  <1>1. /\ kind \in [Task -> Kinds] /\ payload \in [Task -> Values]
        /\ writeQueue \in Seq(Task)
        /\ Len(writeQueue) \in Nat \ {0}
    BY TailFacts DEF Inv, TypeOK, Values
  <1>2. Pending' = OrdersOf(writeQueue', kind, payload)
    BY DEF Pending, OrdersOf, Order1
  <1>3. OrdersOf(Tail(writeQueue), kind, payload) = Tail(OrdersOf(writeQueue, kind, payload))
    BY <1>1, OrdersTail
  <1>4. Pending' \in {Pending, Tail(Pending)}
    BY <1>2, <1>3, PendingFacts DEF Inv
  <1>5. /\ Pending # << >> /\ Head(Pending) = Order1(t, kind, payload)
    BY <1>1, PendingFacts DEF Inv
  <1>6. Device' = IF kind[t] = "backup" THEN [Device EXCEPT !.backup = payload[t]]
                  ELSE [Device EXCEPT !.held = payload[t], !.short = (kind[t] = "release")]
    BY DEF Land, Device
  <1> HIDE DEF t
  <1>7. Device' = Writer!Executed(Head(Pending))
    <2>1. Head(Pending).kind = kind[t] /\ Head(Pending).payload = payload[t]
      BY <1>5 DEF Order1
    <2>2. Writer!Executed(Head(Pending)) =
            IF Head(Pending).kind = "backup" THEN [Device EXCEPT !.backup = Head(Pending).payload]
            ELSE [Device EXCEPT !.held = Head(Pending).payload,
                                !.short = (Head(Pending).kind = "release")]
      BY DEF Writer!Executed, Device
    <2> HIDE DEF Device
    <2> QED BY <1>6, <2>1, <2>2
  <1>8. Writer!Execute
    BY <1>4, <1>5, <1>7 DEF Writer!Execute, Device
  <1> QED BY <1>8 DEF Writer!Next

LEMMA LeaveStep ==
    ASSUME Inv, NEW n \in 1..Len(writeQueue), writeQueue' = RemoveAt(writeQueue, n),
           UNCHANGED <<kind, payload, deviceVars>>
    PROVE  Writer!Next
  <1>1. /\ kind \in [Task -> Kinds] /\ payload \in [Task -> Values]
        /\ writeQueue \in Seq(Task)
    BY DEF Inv, TypeOK, Values
  <1>2. Pending' = OrdersOf(writeQueue', kind, payload)
    BY DEF Pending, OrdersOf, Order1
  <1>3. OrdersOf(RemoveAt(writeQueue, n), kind, payload)
          = RemoveAt(OrdersOf(writeQueue, kind, payload), n)
    BY <1>1, OrdersRemoved
  <1>4. Pending' = RemoveAt(Pending, n) /\ n \in 1..Len(Pending)
    BY <1>2, <1>3, PendingFacts DEF Inv
  <1>5. UNCHANGED Device
    BY DEF Device, deviceVars
  <1>6. Writer!Leave
    BY <1>4, <1>5 DEF Writer!Leave, Writer!RemoveAt, RemoveAt, Device
  <1> QED BY <1>6 DEF Writer!Next

LEMMA StutterStep ==
    ASSUME UNCHANGED <<writeQueue, deviceVars>>,
           \A i \in 1..Len(writeQueue) : /\ kind'[writeQueue[i]] = kind[writeQueue[i]]
                                         /\ payload'[writeQueue[i]] = payload[writeQueue[i]]
    PROVE  UNCHANGED Writer!vars
  <1>1. UNCHANGED Pending
    BY DEF Pending
  <1>2. UNCHANGED Device
    BY DEF Device, deviceVars
  <1> QED BY <1>1, <1>2 DEF Writer!vars, Device

\* A call that enters the lock places an order; one that finds nothing to
\* release changes nothing the writer knows of.
LEMMA EntityWriter == ASSUME Inv, TypeOK', Entity PROVE [Writer!Next]_(Writer!vars)
  <1> DEFINE t == NextCall
  <1>1. ASSUME NEW k \in Kinds, NEW value, Call(k, value)
        PROVE  /\ t \in Task /\ pc[t] = "idle"
               /\ \A u \in Task : u # t => kind'[u] = kind[u] /\ payload'[u] = payload[u]
               /\ UNCHANGED deviceVars
    <2>1. t \in Calls /\ t \in Task
      BY <1>1, ConstantsAssumption DEF Call, NextCall, Calls, Task, Inv, TypeOK
    <2>2. pc[t] = "idle"
      BY <2>1 DEF Inv, Bookkeeping, NextCall, TypeOK
    <2>3. \A u \in Task : u # t => kind'[u] = kind[u] /\ payload'[u] = payload[u]
      BY <1>1, <2>1 DEF Call, Inv, TypeOK
    <2> QED BY <1>1, <2>1, <2>2, <2>3 DEF Call
  <1>2. ASSUME NEW k \in Kinds, NEW value, Call(k, value), Enter(t) PROVE Writer!Next
    <2>1. writeQueue' = Append(writeQueue, t)
      BY <1>2 DEF Enter
    <2> HIDE DEF t
    <2> QED BY <1>1, <1>2, <2>1, JoinStep
  <1>3. CASE ReleaseNothing
    <2>1. /\ pc[t] = "idle" /\ UNCHANGED <<writeQueue, deviceVars>>
          /\ \A u \in Task : u # t => kind'[u] = kind[u] /\ payload'[u] = payload[u]
      BY <1>1, <1>3 DEF ReleaseNothing, Kinds
    <2>2. \A i \in 1..Len(writeQueue) : writeQueue[i] \in Task
      BY DEF Inv, TypeOK
    <2>3. \A i \in 1..Len(writeQueue) : pc[writeQueue[i]] # "idle"
      BY DEF Inv, LockInv, Holding
    <2> HIDE DEF t
    <2> QED BY <2>1, <2>2, <2>3, StutterStep
  <1>4. CASE \E watts \in Requests : SetSetpoint(watts)
    BY <1>2, <1>4 DEF SetSetpoint, Kinds
  <1>5. CASE \E enabled \in {0, 1} : SetBackup(enabled)
    BY <1>2, <1>5 DEF SetBackup, Kinds
  <1>6. CASE Release
    BY <1>2, <1>6 DEF Release, Kinds
  <1> QED BY <1>3, <1>4, <1>5, <1>6 DEF Entity

\* A keepalive places its order like any call.
LEMMA KeepaliveWriter == ASSUME Inv, TypeOK', KeepaliveStart PROVE Writer!Next
  <1>1. Poll \in Task /\ pc[Poll] = "idle"
    BY DEF KeepaliveStart, Task
  <1>2. writeQueue' = Append(writeQueue, Poll) /\ UNCHANGED <<kind, deviceVars>>
    BY DEF KeepaliveStart, Enter
  <1>3. \A u \in Task : u # Poll => payload'[u] = payload[u]
    BY DEF KeepaliveStart, Evaluate, Inv, TypeOK
  <1> QED BY <1>1, <1>2, <1>3, JoinStep

\* Each attempt begins by giving the order at the head its payload.
LEMMA AttemptWriter ==
    ASSUME Inv, NEW t \in Task, Acquire(t) \/ Resend(t)
    PROVE  Writer!Next
  <1>1. writeQueue # << >> /\ writeQueue[1] = t
    BY OwnerIsFirst DEF Acquire, Resend, Holding, Inv, TypeOK
  <1>2. Evaluate(t) /\ (t = Poll => commanded # None)
    BY DEF Acquire, Resend, Holding, Inv, KeepaliveHasSetpoint
  <1>3. payload' \in [Task -> Values]
    BY <1>2, EvaluateType DEF Values
  <1>4. PICK v \in Values : payload' = [payload EXCEPT ![writeQueue[1]] = v]
    BY <1>1, <1>2, <1>3 DEF Evaluate, Inv, TypeOK, Values
  <1>5. UNCHANGED <<writeQueue, kind, deviceVars>>
    BY DEF Acquire, Resend
  <1> QED BY <1>1, <1>4, <1>5, PrepareStep

\* The first task leaves the queue without a trace on the device.
LEMMA FirstLeavesWriter ==
    ASSUME Inv, writeQueue # << >>, writeQueue' = Tail(writeQueue),
           UNCHANGED <<kind, payload, deviceVars>>
    PROVE  Writer!Next
  <1>1. 1 \in 1..Len(writeQueue) /\ writeQueue \in Seq(Task)
    BY TailFacts DEF Inv, TypeOK
  <1>2. writeQueue' = RemoveAt(writeQueue, 1)
    BY <1>1, FirstLeaves
  <1> QED BY <1>1, <1>2, LeaveStep

\* However the attempt of an owner ends, the device has executed the order at
\* the head of the queue or nothing.
LEMMA OwnerWriter ==
    ASSUME Inv, NEW t \in Task, OnWire(t),
           Land(t) \/ UNCHANGED deviceVars,
           writeQueue' \in {writeQueue, Tail(writeQueue)},
           UNCHANGED <<kind, payload>>
    PROVE  [Writer!Next]_(Writer!vars)
  <1>1. writeQueue # << >> /\ writeQueue[1] = t
    BY OwnerIsFirst DEF OnWire, Holding
  <1>2. CASE Land(t)
    BY <1>1, <1>2, ExecuteStep
  <1>3. CASE UNCHANGED deviceVars /\ writeQueue' = Tail(writeQueue)
    BY <1>1, <1>3, FirstLeavesWriter
  <1>4. CASE UNCHANGED deviceVars /\ writeQueue' = writeQueue
    BY <1>4, StutterStep
  <1> QED BY <1>2, <1>3, <1>4

\* A cancelled call withdraws its order, or its request landed before.
LEMMA CancelWriter ==
    ASSUME Inv, NEW t \in Calls, Cancel(t)
    PROVE  [Writer!Next]_(Writer!vars)
  <1>1. UNCHANGED <<kind, payload>> /\ t \in Task
    BY DEF Cancel, CancelWrite, CancelAfterLanding, CancelVerify, CancelTask, Task
  <1>2. CASE CancelWrite(t)
    <2>1. PICK n \in 1..Len(writeQueue) : writeQueue' = RemoveAt(writeQueue, n)
      BY <1>2 DEF CancelWrite, LeaveQueue
    <2>2. UNCHANGED deviceVars
      BY <1>2 DEF CancelWrite
    <2> QED BY <1>1, <2>1, <2>2, LeaveStep
  <1>3. CASE CancelAfterLanding(t)
    <2>1. OnWire(t) /\ Land(t)
      BY <1>3 DEF CancelAfterLanding
    <2>2. writeQueue # << >> /\ writeQueue[1] = t /\ writeQueue \in Seq(Task)
      BY <1>1, <2>1, OwnerIsFirst DEF OnWire, Holding, Inv, TypeOK
    <2>3. PICK n \in 1..Len(writeQueue) :
              writeQueue[n] = t /\ writeQueue' = RemoveAt(writeQueue, n)
      BY <1>3 DEF CancelAfterLanding, LeaveQueue
    <2>4. n = 1
      BY <2>2, <2>3, TailFacts DEF Inv, LockInv
    <2>5. writeQueue' = Tail(writeQueue)
      BY <2>2, <2>3, <2>4, FirstLeaves
    <2> QED BY <1>1, <2>1, <2>5, OwnerWriter
  <1>4. CASE CancelVerify(t)
    BY <1>1, <1>4, StutterStep DEF CancelVerify
  <1> QED BY <1>2, <1>3, <1>4 DEF Cancel

-----------------------------------------------------------------------------
(* The refinement. *)

\* The coordinator starts as a writer without orders.
LEMMA WriterInit == Init => Writer!Init
  <1> SUFFICES ASSUME Init PROVE Writer!Init
    OBVIOUS
  <1>1. Len(writeQueue) = 0
    BY DEF Init
  <1>2. Pending = << >>
    BY <1>1 DEF Pending
  <1> QED BY <1>2 DEF Init, Writer!Init

\* Every step of the coordinator is a step of the writer, or changes neither
\* the orders nor the device.
LEMMA WriterNext == Inv /\ TypeOK' /\ [Next]_vars => [Writer!Next]_(Writer!vars)
  <1> SUFFICES ASSUME Inv, TypeOK', [Next]_vars PROVE [Writer!Next]_(Writer!vars)
    OBVIOUS
  <1>1. CASE Entity
    BY <1>1, EntityWriter
  <1>2. CASE IntervalElapses \/ PollWithoutKeepalive \/ UNCHANGED vars
    BY <1>2, StutterStep DEF IntervalElapses, PollWithoutKeepalive, vars, taskVars
  <1>3. CASE KeepaliveStart
    BY <1>3, KeepaliveWriter
  <1>4. CASE KeepaliveRaises
    BY <1>4, FirstLeavesWriter DEF KeepaliveRaises, Leave
  <1>5. ASSUME NEW t \in Task, Acquire(t) \/ Resend(t) PROVE Writer!Next
    BY <1>5, AttemptWriter
  <1>6. ASSUME NEW t \in Task, ReplyLost(t) \/ RequestLost(t)
        PROVE  [Writer!Next]_(Writer!vars)
    BY <1>6, OwnerWriter DEF ReplyLost, RequestLost, Unconfirmed, Leave
  <1>7. ASSUME NEW t \in Task, ConfirmAndVerify(t) \/ ConfirmRelease(t)
        PROVE  [Writer!Next]_(Writer!vars)
    BY <1>7, OwnerWriter DEF ConfirmAndVerify, ConfirmRelease, Leave
  <1>8. CASE ConfirmKeepalive
    BY <1>8, OwnerWriter DEF ConfirmKeepalive, Leave, Task
  <1>9. ASSUME NEW t \in Calls, Commit(t) PROVE UNCHANGED Writer!vars
    BY <1>9, StutterStep DEF Commit, CommitSetpoint, CommitBackup, Verified
  <1>10. ASSUME NEW t \in Calls, Cancel(t) PROVE [Writer!Next]_(Writer!vars)
    BY <1>10, CancelWriter
  <1>11. CASE WatchdogExpires
    <2>1. UNCHANGED Pending
      BY <1>11 DEF WatchdogExpires, taskVars, Pending
    <2>2. held' = None /\ short' = FALSE /\ backup' = backup
      BY <1>11 DEF WatchdogExpires
    <2>3. Writer!Expire
      BY <2>1, <2>2 DEF Writer!Expire
    <2> QED BY <2>3 DEF Writer!Next
  <1> QED BY <1>1, <1>2, <1>3, <1>4, <1>5, <1>6, <1>7, <1>8, <1>9, <1>10, <1>11
          DEF Next, Polling, Attempted

\* The coordinator, with its lock, attempts, pauses, readbacks and cancelled
\* callers, is a writer that executes one order at a time in the order they
\* were placed: the device changes only by the order at the head of the queue.
THEOREM WriterImplemented == Spec => ImplementsWriter
  <1>1. Inv => TypeOK
    BY DEF Inv
  <1>2. Inv /\ Inv' /\ [Next]_vars => [Writer!Next]_(Writer!vars)
    BY <1>1, WriterNext DEF Inv
  <1> QED BY <1>2, WriterInit, Invariance, PTL DEF Spec, ImplementsWriter, Writer!Spec

=============================================================================
