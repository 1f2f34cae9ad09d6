--------------------------- MODULE TcpClientProofs ---------------------------
(***************************************************************************)
(* Proofs about TcpClient, for every set of tasks, every threshold, every  *)
(* cooldown and any number of faults.                                      *)
(***************************************************************************)
EXTENDS TcpClient, SequenceFacts, FiniteSetTheorems

-----------------------------------------------------------------------------
(* The inductive invariant. *)

\* The queue of _io_lock: its tasks are in it once, none of them is idle, and
\* only its first is past the lock.
LockInv ==
    /\ \A i \in 1..Len(ioQueue) : pc[ioQueue[i]] # "idle"
    /\ \A i, j \in 1..Len(ioQueue) : ioQueue[i] = ioQueue[j] => i = j
    /\ \A t \in Tasks : pc[t] \in Owning => ioQueue # << >> /\ ioQueue[1] = t

\* A msgId names one request among all that are around, if no two share a
\* millisecond; then the answers are right.
MsgIdsDiffer ==
    ~SharedMillisecond =>
        /\ \A t, u \in Tasks :
            pc[t] # "idle" /\ pc[u] # "idle" /\ msgId[t] = msgId[u] => t = u
        /\ \A t \in Tasks : pc[t] # "idle" =>
            \A f \in Sent : f.msgId = msgId[t] => f.by = t

AnswersRight == ~SharedMillisecond => OwnAnswer

Inv == TypeOK /\ LockInv /\ MsgIdsDiffer /\ AnswersRight

\* The invariant by the parts of the state that one step of the code changes.
TaskInv ==
    /\ pc \in [Tasks -> PCs]
    /\ msgId \in [Tasks -> MsgIds]
    /\ outcome \in [Tasks -> Outcomes]
    /\ ioQueue \in Seq(Tasks)
    /\ LockInv
    /\ AnswersRight

ClientInv == buffer \in {"empty", "half", "torn"} /\ streak \in 0..SuspectAfter

BackoffInv == failures \in 0..FailureBound /\ cooldown <= MaxCooldown

WireInv == conn \in Conns /\ asked \in Seq(Frames) /\ line \in Seq(Frames)

WorldInv == device \in DeviceModes /\ faults \in 0..MaxFaults

\* The parts make the whole.
LEMMA Parts ==
    Inv <=> TaskInv /\ ClientInv /\ BackoffInv /\ WireInv /\ WorldInv /\ MsgIdsDiffer
  BY DEF Inv, TypeOK, TaskInv, ClientInv, BackoffInv, WireInv, WorldInv

\* The same for the next state.
LEMMA PartsNext ==
    ASSUME TaskInv', ClientInv', BackoffInv', WireInv', WorldInv', MsgIdsDiffer'
    PROVE  Inv'
  BY DEF Inv, TypeOK, TaskInv, ClientInv, BackoffInv, WireInv, WorldInv

\* No request is on the wire twice.
Single ==
    /\ IsInjective(asked)
    /\ IsInjective(line)
    /\ ToSet(asked) \cap ToSet(line) = {}

\* How a request may end without breaking AnswersRight.
RightOutcomes == {o \in Outcomes : SharedMillisecond \/ o # "other answer"}

\* No request is made.
NoneMade ==
    /\ msgId' = msgId
    /\ \A t \in Tasks : pc'[t] # "idle" => pc[t] # "idle"

\* msgIds differ still, if no request was made and nothing was sent.
LEMMA MsgIdsKept ==
    ASSUME Inv, NoneMade, Sent' \subseteq Sent
    PROVE  MsgIdsDiffer'
  BY DEF Inv, MsgIdsDiffer, NoneMade

\* A step that leaves the tasks alone keeps what holds of them.
LEMMA TasksKept ==
    ASSUME Inv, UNCHANGED taskVars
    PROVE  TaskInv' /\ NoneMade
  BY Parts DEF TaskInv, LockInv, AnswersRight, OwnAnswer, NoneMade, taskVars

\* The types of what the queue and its tasks are.
LEMMA TaskTypes ==
    ASSUME Inv
    PROVE  /\ pc \in [Tasks -> PCs]
           /\ msgId \in [Tasks -> MsgIds]
           /\ outcome \in [Tasks -> Outcomes]
           /\ ioQueue \in Seq(Tasks)
           /\ Len(ioQueue) \in Nat
           /\ \A i \in 1..Len(ioQueue) : ioQueue[i] \in Tasks
  <1>1. ioQueue \in Seq(Tasks)
    BY DEF Inv, TypeOK
  <1>2. Len(ioQueue) \in Nat /\ \A i \in 1..Len(ioQueue) : ioQueue[i] \in Tasks
    BY <1>1
  <1> QED BY <1>1, <1>2 DEF Inv, TypeOK

-----------------------------------------------------------------------------
(* The lock. *)

\* A task is where Leave finds it in the queue; without it, whoever was first
\* among the others is first still.
LEMMA LeaveKeeps ==
    ASSUME Inv, NEW t \in Tasks, NEW r \in RightOutcomes, Leave(t, r)
    PROVE  TaskInv' /\ NoneMade
  <1>1. PICK n \in 1..Len(ioQueue) : ioQueue[n] = t /\ ioQueue' = RemoveAt(ioQueue, n)
    BY DEF Leave
  <1>2. ioQueue \in Seq(Tasks) /\ Len(ioQueue) \in Nat
    BY TaskTypes
  <1>0. Len(ioQueue) \in Nat /\ n \in Nat /\ 1 <= n /\ n <= Len(ioQueue)
    BY <1>2
  <1>3. /\ ioQueue' \in Seq(Tasks)
        /\ Len(ioQueue') = Len(ioQueue) - 1
        /\ \A i \in 1..Len(ioQueue) - 1 :
            ioQueue'[i] = IF i < n THEN ioQueue[i] ELSE ioQueue[i + 1]
    BY <1>1, <1>2, RemoveAtFacts
  <1>4. /\ pc' = [pc EXCEPT ![t] = "idle"]
        /\ pc' \in [Tasks -> PCs]
        /\ outcome' \in [Tasks -> Outcomes]
        /\ msgId' = msgId /\ msgId \in [Tasks -> MsgIds]
    BY TaskTypes DEF Leave, PCs, RightOutcomes
  <1>5. AnswersRight'
    BY TaskTypes DEF Leave, Inv, AnswersRight, OwnAnswer, RightOutcomes
  <1>6. ASSUME NEW i \in 1..Len(ioQueue')
        PROVE  \E j \in 1..Len(ioQueue) :
                /\ j # n /\ ioQueue'[i] = ioQueue[j]
                /\ j = IF i < n THEN i ELSE i + 1
    <2>1. i \in 1..Len(ioQueue) - 1
      BY <1>3
    <2>2. CASE i < n
      <3>1. i \in 1..Len(ioQueue) /\ i # n
        BY <1>0, <2>1, <2>2
      <3> QED BY <1>3, <2>1, <2>2, <3>1
    <2>3. CASE ~(i < n)
      <3>1. i + 1 \in 1..Len(ioQueue) /\ i + 1 # n
        BY <1>0, <2>1, <2>3
      <3> QED BY <1>3, <2>1, <2>3, <3>1
    <2> QED BY <2>2, <2>3
  <1>7. LockInv'
    <2>1. ASSUME NEW i \in 1..Len(ioQueue') PROVE pc'[ioQueue'[i]] # "idle"
      <3>1. PICK j \in 1..Len(ioQueue) : j # n /\ ioQueue'[i] = ioQueue[j]
        BY <1>6
      <3>2. ioQueue[j] # t /\ ioQueue[j] \in Tasks /\ pc[ioQueue[j]] # "idle"
        BY <1>1, TaskTypes, <3>1 DEF Inv, LockInv
      <3> QED BY <1>4, <3>1, <3>2 DEF Inv, TypeOK
    <2>2. ASSUME NEW i \in 1..Len(ioQueue'), NEW k \in 1..Len(ioQueue'),
                 ioQueue'[i] = ioQueue'[k]
          PROVE  i = k
      <3>1. PICK j \in 1..Len(ioQueue) :
                ioQueue'[i] = ioQueue[j] /\ j = IF i < n THEN i ELSE i + 1
        BY <1>6
      <3>2. PICK l \in 1..Len(ioQueue) :
                ioQueue'[k] = ioQueue[l] /\ l = IF k < n THEN k ELSE k + 1
        BY <1>6
      <3>3. j = l
        BY <2>2, <3>1, <3>2 DEF Inv, LockInv
      <3>4. i \in 1..Len(ioQueue) - 1 /\ k \in 1..Len(ioQueue) - 1
        BY <1>3
      <3> QED BY <1>0, <3>1, <3>2, <3>3, <3>4
    <2>3. ASSUME NEW u \in Tasks, pc'[u] \in Owning
          PROVE  ioQueue' # << >> /\ ioQueue'[1] = u
      <3>1. u # t /\ pc[u] = pc'[u]
        BY <1>4, <2>3 DEF Owning, Inv, TypeOK
      <3>2. ioQueue # << >> /\ ioQueue[1] = u
        BY <2>3, <3>1 DEF Inv, LockInv
      <3>3. n # 1
        BY <1>1, <3>1, <3>2
      <3>4. 1 \in 1..Len(ioQueue) - 1 /\ 1 < n
        BY <1>0, <3>3
      <3>5. ioQueue'[1] = u
        BY <1>3, <3>2, <3>4
      <3>6. Len(ioQueue') # 0
        BY <1>0, <1>3, <3>4
      <3> QED BY <1>3, <3>5, <3>6
    <2> QED BY <2>1, <2>2, <2>3 DEF LockInv
  <1>8. NoneMade
    BY <1>4 DEF NoneMade, Inv, TypeOK
  <1> QED BY <1>3, <1>4, <1>5, <1>7, <1>8 DEF TaskInv

\* The first of the queue goes on with its request.
LEMMA GotoKeeps ==
    ASSUME Inv, NEW t \in Tasks, NEW where \in Owning, Goto(t, where),
           ioQueue # << >>, ioQueue[1] = t
    PROVE  TaskInv' /\ NoneMade
  <1>1. /\ ioQueue \in Seq(Tasks) /\ Len(ioQueue) \in Nat \ {0}
        /\ pc \in [Tasks -> PCs]
        /\ 1 \in 1..Len(ioQueue)
    <2>1. ioQueue \in Seq(Tasks) /\ Len(ioQueue) \in Nat /\ pc \in [Tasks -> PCs]
      BY TaskTypes
    <2>2. Len(ioQueue) # 0
      BY <2>1
    <2> QED BY <2>1, <2>2
  <1>2. pc[t] # "idle"
    BY <1>1 DEF Inv, LockInv
  <1>3. /\ pc' = [pc EXCEPT ![t] = where]
        /\ UNCHANGED <<msgId, outcome, ioQueue>>
        /\ where # "idle"
    BY DEF Goto, Owning
  <1>4. pc' \in [Tasks -> PCs]
    BY <1>1, <1>3 DEF PCs
  <1>5. \A u \in Tasks : pc'[u] \in Owning => u = t \/ pc[u] \in Owning
    BY <1>1, <1>3
  <1>6. LockInv'
    <2>1. \A i \in 1..Len(ioQueue) : ioQueue[i] \in Tasks
      BY <1>1
    <2> QED BY <1>1, <1>3, <1>5, <2>1 DEF Inv, LockInv
  <1>7. NoneMade
    BY <1>1, <1>2, <1>3 DEF NoneMade
  <1> QED BY <1>3, <1>4, <1>6, <1>7 DEF TaskInv, Inv, TypeOK, AnswersRight, OwnAnswer

\* A request queues behind all others, with a msgId of its own.
LEMMA RequestKeeps ==
    ASSUME Inv, NEW t \in Tasks, Request(t)
    PROVE  Inv'
  <1>1. PICK n \in MsgIds : 
            /\ ~SharedMillisecond => IsNext(n)
            /\ msgId' = [msgId EXCEPT ![t] = n]
    BY DEF Request, IsSame
  <1>2. /\ pc[t] = "idle"
        /\ pc' = [pc EXCEPT ![t] = "queued"]
        /\ outcome' = [outcome EXCEPT ![t] = "pending"]
        /\ ioQueue' = Append(ioQueue, t)
        /\ UNCHANGED <<clientVars, backoff, wire, world>>
    BY DEF Request
  <1>3. /\ pc \in [Tasks -> PCs] /\ msgId \in [Tasks -> MsgIds]
        /\ outcome \in [Tasks -> Outcomes]
        /\ ioQueue \in Seq(Tasks) /\ Len(ioQueue) \in Nat
    BY TaskTypes
  <1>4. /\ ioQueue' \in Seq(Tasks)
        /\ Len(ioQueue') = Len(ioQueue) + 1
        /\ \A i \in 1..Len(ioQueue) : ioQueue'[i] = ioQueue[i]
        /\ ioQueue'[Len(ioQueue) + 1] = t
    BY <1>2, <1>3, AppendFacts
  <1>5. \A i \in 1..Len(ioQueue) : ioQueue[i] \in Tasks /\ ioQueue[i] # t
    BY <1>2, <1>3 DEF Inv, LockInv
  <1>6. \A i \in 1..Len(ioQueue') : i \in 1..Len(ioQueue) \/ i = Len(ioQueue) + 1
    BY <1>3, <1>4
  <1>7. LockInv'
    <2>1. \A i \in 1..Len(ioQueue') : pc'[ioQueue'[i]] # "idle"
      BY <1>2, <1>3, <1>4, <1>5, <1>6 DEF Inv, LockInv
    <2>2. \A i, j \in 1..Len(ioQueue') : ioQueue'[i] = ioQueue'[j] => i = j
      BY <1>4, <1>5, <1>6 DEF Inv, LockInv
    <2>3. ASSUME NEW u \in Tasks, pc'[u] \in Owning
          PROVE  ioQueue' # << >> /\ ioQueue'[1] = u
      <3>1. pc[u] \in Owning
        BY <1>2, <1>3, <2>3 DEF Owning
      <3>2. ioQueue # << >> /\ ioQueue[1] = u
        BY <3>1 DEF Inv, LockInv
      <3>3. 1 \in 1..Len(ioQueue)
        BY <1>3, <3>2
      <3>4. ioQueue'[1] = u /\ Len(ioQueue') # 0
        BY <1>3, <1>4, <3>2, <3>3
      <3> QED BY <1>4, <3>4
    <2> QED BY <2>1, <2>2, <2>3 DEF LockInv
  <1>8. MsgIdsDiffer'
    <2> SUFFICES ASSUME ~SharedMillisecond PROVE MsgIdsDiffer'
      BY DEF MsgIdsDiffer
    <2>1. Sent' = Sent
      BY <1>2 DEF Sent, wire
    <2>2. n \notin Around
      BY <1>1 DEF IsNext
    <2>3. \A u \in Tasks : pc[u] # "idle" => msgId[u] # n
      BY <2>2 DEF Around
    <2>4. \A f \in Sent : f.msgId # n
      BY <2>2 DEF Around, Sent
    <2>5. /\ \A u \in Tasks : u # t => msgId'[u] = msgId[u] /\ pc'[u] = pc[u]
          /\ msgId'[t] = n
      BY <1>1, <1>2, <1>3
    <2> QED BY <2>1, <2>3, <2>4, <2>5 DEF MsgIdsDiffer, Inv
  <1>9. TaskInv'
    <2>1. /\ pc' \in [Tasks -> PCs] /\ msgId' \in [Tasks -> MsgIds]
          /\ outcome' \in [Tasks -> Outcomes]
      BY <1>1, <1>2, <1>3 DEF PCs, Outcomes
    <2>2. AnswersRight'
      BY <1>2, <1>3 DEF AnswersRight, OwnAnswer, Inv
    <2> QED BY <1>4, <1>7, <2>1, <2>2 DEF TaskInv
  <1>10. ClientInv' /\ BackoffInv' /\ WireInv' /\ WorldInv'
    BY <1>2, Parts DEF ClientInv, BackoffInv, WireInv, WorldInv, clientVars, backoff, wire, world
  <1> QED BY <1>8, <1>9, <1>10, PartsNext

-----------------------------------------------------------------------------
(* The socket and the failures. *)

\* Nothing is under way on a socket that is gone, or on a new one.
LEMMA CutKeeps ==
    ASSUME NEW to \in Conns, Cut(to)
    PROVE  WireInv' /\ Sent' \subseteq Sent
  <1>1. conn' \in Conns /\ asked' = << >> /\ line' = << >>
    BY DEF Cut
  <1>2. asked' \in Seq(Frames) /\ line' \in Seq(Frames)
    BY <1>1
  <1>3. Sent' = {}
    BY <1>1, ToSetFacts DEF Sent, ToSet
  <1> QED BY <1>1, <1>2, <1>3 DEF WireInv

\* A half-read frame is torn or was none.
LEMMA TornKept ==
    ASSUME ClientInv
    PROVE  Torn \in {"empty", "half", "torn"}
  BY DEF ClientInv, Torn

\* The task that owns the lock is the first of the queue.
LEMMA OwnerIsFirst ==
    ASSUME Inv, NEW t \in Tasks, pc[t] \in Owning
    PROVE  ioQueue # << >> /\ ioQueue[1] = t
  BY DEF Inv, LockInv

\* No cooldown exceeds its maximum.
LEMMA CooldownIsCapped ==
    ASSUME NEW n
    PROVE  CooldownFor(n) <= MaxCooldown
  <1>1. MaxCooldown <= MaxCooldown
    BY ClientAssumption
  <1> QED BY <1>1 DEF CooldownFor

\* A connection error waits or raises.
LEMMA ConnectionErrorKeeps ==
    ASSUME Inv, NEW t \in Tasks, pc[t] \in Owning, ConnectionError(t)
    PROVE  TaskInv' /\ NoneMade /\ ClientInv' /\ BackoffInv'
  <1>1. ClientInv'
    BY Parts DEF ConnectionError, ClientInv
  <1>2. CASE failures > MaxExponent
    <2>1. Leave(t, "raised") /\ UNCHANGED backoff
      BY <1>2 DEF ConnectionError
    <2>2. "raised" \in RightOutcomes
      BY DEF RightOutcomes, Outcomes
    <2>3. TaskInv' /\ NoneMade
      BY <2>1, <2>2, LeaveKeeps
    <2>4. BackoffInv'
      BY <2>1, Parts DEF BackoffInv, backoff
    <2> QED BY <1>1, <2>3, <2>4
  <1>3. CASE ~(failures > MaxExponent)
    <2>1. Goto(t, "cooldown") /\ NoteFailure /\ cooldown' = CooldownFor(failures)
      BY <1>3 DEF ConnectionError
    <2>2. "cooldown" \in Owning
      BY DEF Owning
    <2>3. TaskInv' /\ NoneMade
      BY <2>1, <2>2, GotoKeeps, OwnerIsFirst
    <2>4. failures' \in 0..FailureBound
      BY <2>1, ClientAssumption, Parts DEF BackoffInv, NoteFailure
    <2>5. cooldown' <= MaxCooldown
      BY <2>1, CooldownIsCapped
    <2> QED BY <1>1, <2>3, <2>4, <2>5 DEF BackoffInv
  <1> QED BY <1>2, <1>3

\* The end of a recycling.
LEMMA RecycledKeeps ==
    ASSUME Inv, NEW t \in Tasks, Recycled(t)
    PROVE  TaskInv' /\ NoneMade /\ ClientInv'
  <1>1. "none" \in RightOutcomes
    BY DEF RightOutcomes, Outcomes
  <1>2. TaskInv' /\ NoneMade
    BY <1>1, LeaveKeeps DEF Recycled
  <1>3. ClientInv'
    BY ClientAssumption DEF Recycled, ClientInv
  <1> QED BY <1>2, <1>3

\* A read timeout gives up, closes the socket, or finds it closed.
LEMMA ReadTimeoutKeeps ==
    ASSUME Inv, NEW t \in Tasks, pc[t] \in Owning, ReadTimeout(t)
    PROVE  TaskInv' /\ NoneMade /\ ClientInv' /\ BackoffInv' /\ WireInv' /\ Sent' \subseteq Sent
  <1>1. BackoffInv'
    BY Parts DEF ReadTimeout, BackoffInv, backoff
  <1>2. CASE /\ streak + 1 < SuspectAfter
             /\ streak' = streak + 1
             /\ Leave(t, "none")
             /\ UNCHANGED <<buffer, wire>>
    <2>1. "none" \in RightOutcomes
      BY DEF RightOutcomes, Outcomes
    <2>2. TaskInv' /\ NoneMade
      BY <1>2, <2>1, LeaveKeeps
    <2>3. streak' \in 0..SuspectAfter
      BY <1>2, ClientAssumption, Parts DEF ClientInv
    <2>4. ClientInv'
      BY <1>2, <2>3, Parts DEF ClientInv
    <2>5. WireInv' /\ Sent' \subseteq Sent
      BY <1>2, Parts DEF WireInv, Sent, wire
    <2> QED BY <1>1, <2>2, <2>4, <2>5
  <1>3. CASE /\ streak + 1 >= SuspectAfter
             /\ conn \in Usable
             /\ streak' = SuspectAfter
             /\ Goto(t, "closing")
             /\ Cut("lost")
             /\ buffer' = Torn
    <2>1. "closing" \in Owning /\ "lost" \in Conns
      BY DEF Owning, Conns
    <2>2. TaskInv' /\ NoneMade
      BY <1>3, <2>1, GotoKeeps, OwnerIsFirst
    <2>3. streak' \in 0..SuspectAfter
      BY <1>3, ClientAssumption
    <2>4. ClientInv'
      BY <1>3, <2>3, Parts, TornKept DEF ClientInv
    <2>5. WireInv' /\ Sent' \subseteq Sent
      BY <1>3, <2>1, CutKeeps
    <2> QED BY <1>1, <2>2, <2>4, <2>5
  <1>4. CASE Cut("none") /\ Recycled(t)
    <2>1. "none" \in Conns
      BY DEF Conns
    <2> QED BY <1>1, <1>4, <2>1, CutKeeps, RecycledKeeps
  <1> QED BY <1>2, <1>3, <1>4 DEF ReadTimeout

\* A fault is counted up to the bound.
LEMMA FaultKeeps ==
    ASSUME Inv, Fault \/ UNCHANGED faults, UNCHANGED device
    PROVE  WorldInv'
  BY Parts, ClientAssumption DEF WorldInv, Fault

\* A read takes frames off the line and adds none.
LEMMA ReadKeeps ==
    ASSUME Inv, NEW n \in 0..Len(line), NEW half \in BOOLEAN,
           line' = SubSeq(line, n + 1, Len(line)), buffer' = Rest(half),
           UNCHANGED <<conn, asked>>
    PROVE  WireInv' /\ Sent' \subseteq Sent /\ buffer' \in {"empty", "half", "torn"}
  <1>1. line \in Seq(Frames)
    BY Parts DEF WireInv
  <1>2. line' \in Seq(Frames) /\ ToSet(line') \subseteq ToSet(line)
    BY <1>1, CutFacts
  <1>3. WireInv'
    BY <1>2, Parts DEF WireInv
  <1>4. Sent' \subseteq Sent
    BY <1>2 DEF Sent
  <1>5. buffer' \in {"empty", "half", "torn"}
    BY DEF Rest
  <1> QED BY <1>3, <1>4, <1>5

\* An answer that carries the msgId of a request is the answer to it.
LEMMA MatchIsOwn ==
    ASSUME Inv, NEW t \in Tasks, pc[t] # "idle",
           NEW n \in 0..Len(line), NEW k \in 1..Len(Framed(n)), Matches(line[k], t)
    PROVE  ~SharedMillisecond => line[k] = Frame(t)
  <1> SUFFICES ASSUME ~SharedMillisecond PROVE line[k] = Frame(t)
    OBVIOUS
  <1>1. line \in Seq(Frames) /\ Len(line) \in Nat
    <2>1. line \in Seq(Frames)
      BY Parts DEF WireInv
    <2> QED BY <2>1
  <1>2. k \in 1..Len(line)
    <2>1. CASE buffer = "torn"
      BY <2>1 DEF Framed
    <2>2. CASE buffer # "torn"
      <3>1. Len(Framed(n)) = n
        BY <1>1, <2>2, CutFacts DEF Framed
      <3> QED BY <1>1, <3>1
    <2> QED BY <2>1, <2>2
  <1>3. line[k] \in Frames /\ line[k] \in Sent
    BY <1>1, <1>2, ToSetFacts DEF Sent
  <1>4. line[k].by = t /\ line[k].msgId = msgId[t]
    BY <1>3 DEF Inv, MsgIdsDiffer, Matches
  <1> QED BY <1>3, <1>4 DEF Frames, Frame

-----------------------------------------------------------------------------
(* The steps. *)

\* Every name of a place in request() that a step goes to is one.
LEMMA Places ==
    /\ {"connecting", "reading", "closing", "cooldown", "reconnecting"} \subseteq Owning
    /\ {"own answer", "none", "raised", "cancelled"} \subseteq RightOutcomes
    /\ {"none", "open", "mute", "eof", "lost", "expired"} \subseteq Conns
  BY DEF Owning, RightOutcomes, Outcomes, Conns

\* A new stream carries the request that was sent on it, or nothing.
LEMMA ConnectedKeeps ==
    ASSUME Inv, NEW t \in Tasks, NEW requests \in {<< >>, <<Frame(t)>>}, Connected(requests)
    PROVE  WireInv' /\ Sent' \subseteq {Frame(t)}
  <1>1. Frame(t) \in Frames
    BY TaskTypes DEF Frame, Frames
  <1>2. /\ conn' \in Conns
        /\ asked' \in {<< >>, <<Frame(t)>>}
        /\ line' = << >>
    BY Places DEF Connected
  <1>3. asked' \in Seq(Frames) /\ line' \in Seq(Frames)
    BY <1>1, <1>2, ShortSequences
  <1>4. ToSet(line') = {} /\ ToSet(asked') \subseteq {Frame(t)}
    BY <1>2, ShortSequences
  <1> QED BY <1>2, <1>3, <1>4 DEF WireInv, Sent

\* Whoever may send is the first of the queue.
LEMMA SenderIsFirst ==
    ASSUME Inv, NEW t \in Tasks, Owner(t)
    PROVE  ioQueue # << >> /\ ioQueue[1] = t
  <1>1. ioQueue \in Seq(Tasks) /\ ioQueue # << >>
    BY TaskTypes DEF Owner
  <1> QED BY <1>1, TailFacts DEF Owner

\* What is sent is the frame of a request that owns the lock.
LEMMA SendKeepsIds ==
    ASSUME Inv, NEW t \in Tasks, pc[t] # "idle", NoneMade, Sent' \subseteq Sent \cup {Frame(t)}
    PROVE  MsgIdsDiffer'
  BY DEF Inv, MsgIdsDiffer, NoneMade, Frame

\* Every step of a request preserves the invariant.
LEMMA StepKeeps ==
    ASSUME Inv, NEW t \in Tasks, Step(t)
    PROVE  Inv'
  <1>1. CASE Send(t)
    <2>1. ioQueue # << >> /\ ioQueue[1] = t /\ pc[t] = "queued" /\ Goto(t, "reading")
      BY <1>1, SenderIsFirst DEF Send
    <2>2. TaskInv' /\ NoneMade
      BY <2>1, GotoKeeps, Places
    <2>3. ClientInv' /\ BackoffInv' /\ WorldInv'
      BY <1>1, Parts DEF Send, ClientInv, BackoffInv, WorldInv, clientVars, backoff, world
    <2>4. asked \in Seq(Frames) /\ line \in Seq(Frames) /\ conn \in Conns
      BY Parts DEF WireInv
    <2>5. Frame(t) \in Frames
      BY TaskTypes DEF Frame, Frames
    <2>6. asked' \in {asked, Append(asked, Frame(t))} /\ line' = line /\ conn' = conn
      BY <1>1 DEF Send
    <2>7. asked' \in Seq(Frames) /\ ToSet(asked') \subseteq ToSet(asked) \cup {Frame(t)}
      <3>1. Append(asked, Frame(t)) \in Seq(Frames)
        BY <2>4, <2>5, AppendFacts
      <3>2. ToSet(Append(asked, Frame(t))) = ToSet(asked) \cup {Frame(t)}
        BY <2>4, <2>5, ToSetFacts
      <3> QED BY <2>4, <2>6, <3>1, <3>2
    <2>8. WireInv' /\ Sent' \subseteq Sent \cup {Frame(t)}
      BY <2>4, <2>6, <2>7 DEF WireInv, Sent
    <2>9. MsgIdsDiffer'
      BY <2>1, <2>2, <2>8, SendKeepsIds
    <2> QED BY <2>2, <2>3, <2>8, <2>9, PartsNext
  <1>2. CASE ConnectLazily(t)
    <2>1. ioQueue # << >> /\ ioQueue[1] = t /\ Goto(t, "connecting")
      BY <1>2, SenderIsFirst DEF ConnectLazily
    <2>2. TaskInv' /\ NoneMade
      BY <2>1, GotoKeeps, Places
    <2>3. ClientInv' /\ BackoffInv' /\ WorldInv' /\ WireInv' /\ Sent' = Sent
      BY <1>2, Parts DEF ConnectLazily, ClientInv, BackoffInv, WorldInv, WireInv, Sent,
                         clientVars, backoff, world, wire
    <2> QED BY <2>2, <2>3, MsgIdsKept, PartsNext
  <1>3. CASE ConnectAndSend(t)
    <2>1. pc[t] \in Owning /\ pc[t] # "idle" /\ Goto(t, "reading") /\ Connected(<<Frame(t)>>)
      BY <1>3, Places DEF ConnectAndSend
    <2>2. TaskInv' /\ NoneMade
      BY <2>1, GotoKeeps, OwnerIsFirst, Places
    <2>3. ClientInv' /\ BackoffInv' /\ WorldInv'
      BY <1>3, Parts DEF ConnectAndSend, ClientInv, BackoffInv, WorldInv, clientVars, backoff, world
    <2>4. WireInv' /\ Sent' \subseteq Sent \cup {Frame(t)}
      BY <2>1, ConnectedKeeps
    <2> QED BY <2>1, <2>2, <2>3, <2>4, SendKeepsIds, PartsNext
  <1>4. CASE ConnectFails(t)
    <2>1. /\ pc[t] \in Owning /\ ConnectionError(t)
          /\ Fault \/ UNCHANGED faults
          /\ UNCHANGED device
          /\ UNCHANGED wire
      BY <1>4, Places DEF ConnectFails, NotConnected
    <2>2. TaskInv' /\ NoneMade /\ ClientInv' /\ BackoffInv' /\ WorldInv'
      BY <2>1, ConnectionErrorKeeps, FaultKeeps
    <2>3. WireInv' /\ Sent' = Sent
      BY <2>1, Parts DEF WireInv, Sent, wire
    <2> QED BY <2>2, <2>3, MsgIdsKept, PartsNext
  <1>5. CASE ReadAnswer(t)
    <2>1. pc[t] # "idle"
      BY <1>5 DEF ReadAnswer
    <2>2. PICK n \in 0..Len(line), half \in BOOLEAN :
            /\ \E k \in 1..Len(Framed(n)) :
                 /\ Matches(line[k], t)
                 /\ Leave(t, IF line[k] = Frame(t) THEN "own answer" ELSE "other answer")
            /\ line' = SubSeq(line, n + 1, Len(line))
            /\ buffer' = Rest(half)
      BY <1>5 DEF ReadAnswer
    <2>3. PICK o \in RightOutcomes : Leave(t, o)
      BY <2>1, <2>2, MatchIsOwn DEF RightOutcomes, Outcomes
    <2>4. TaskInv' /\ NoneMade
      BY <2>3, LeaveKeeps
    <2>5. WireInv' /\ Sent' \subseteq Sent /\ buffer' \in {"empty", "half", "torn"}
      BY <1>5, <2>2, ReadKeeps DEF ReadAnswer
    <2>6. ClientInv' /\ BackoffInv'
      <3>1. streak' = 0 /\ failures' = 0 /\ cooldown' = 0
        BY <1>5 DEF ReadAnswer, NoteSuccess
      <3>2. 0 \in 0..SuspectAfter /\ 0 \in 0..FailureBound /\ 0 <= MaxCooldown
        BY ClientAssumption
      <3> QED BY <2>5, <3>1, <3>2 DEF ClientInv, BackoffInv
    <2>7. WorldInv'
      BY <1>5, Parts DEF ReadAnswer, WorldInv, world
    <2> QED BY <2>4, <2>5, <2>6, <2>7, MsgIdsKept, PartsNext
  <1>6. CASE ReadOn(t)
    <2>1. PICK n \in 0..Len(line), half \in BOOLEAN :
            /\ line' = SubSeq(line, n + 1, Len(line))
            /\ buffer' = Rest(half)
      BY <1>6 DEF ReadOn
    <2>2. WireInv' /\ Sent' \subseteq Sent /\ buffer' \in {"empty", "half", "torn"}
      BY <1>6, <2>1, ReadKeeps DEF ReadOn
    <2>3. TaskInv' /\ NoneMade
      BY <1>6, TasksKept DEF ReadOn
    <2>4. ClientInv' /\ BackoffInv' /\ WorldInv'
      BY <1>6, <2>2, Parts DEF ReadOn, ClientInv, BackoffInv, WorldInv, backoff, world
    <2> QED BY <2>2, <2>3, <2>4, MsgIdsKept, PartsNext
  <1>7. CASE ReadFails(t)
    <2>1. pc[t] \in Owning /\ ConnectionError(t) /\ UNCHANGED <<wire, world>>
      BY <1>7, Places DEF ReadFails
    <2>2. TaskInv' /\ NoneMade /\ ClientInv' /\ BackoffInv'
      BY <2>1, ConnectionErrorKeeps
    <2>3. WireInv' /\ WorldInv' /\ Sent' = Sent
      BY <2>1, Parts DEF WireInv, WorldInv, Sent, wire, world
    <2> QED BY <2>2, <2>3, MsgIdsKept, PartsNext
  <1>8. CASE ReadTimesOut(t)
    <2>1. pc[t] \in Owning /\ ReadTimeout(t) /\ UNCHANGED world
      BY <1>8, Places DEF ReadTimesOut
    <2>2. WorldInv'
      BY <2>1, Parts DEF WorldInv, world
    <2> QED BY <2>1, <2>2, ReadTimeoutKeeps, MsgIdsKept, PartsNext
  <1>9. CASE CloseEnds(t)
    <2>1. Cut("none") /\ Recycled(t) /\ UNCHANGED <<backoff, world>>
      BY <1>9 DEF CloseEnds
    <2>2. BackoffInv' /\ WorldInv'
      BY <2>1, Parts DEF BackoffInv, WorldInv, backoff, world
    <2> QED BY <2>1, <2>2, CutKeeps, RecycledKeeps, MsgIdsKept, PartsNext, Places
  <1>10. CASE CooldownEnds(t)
    <2>1. /\ pc[t] \in Owning /\ Goto(t, "reconnecting") /\ Cut("none")
          /\ UNCHANGED <<clientVars, backoff, world>>
      BY <1>10, Places DEF CooldownEnds
    <2>2. TaskInv' /\ NoneMade
      BY <2>1, GotoKeeps, OwnerIsFirst, Places
    <2>3. ClientInv' /\ BackoffInv' /\ WorldInv'
      BY <2>1, Parts DEF ClientInv, BackoffInv, WorldInv, clientVars, backoff, world
    <2> QED BY <2>1, <2>2, <2>3, CutKeeps, MsgIdsKept, PartsNext, Places
  <1>11. CASE Reconnects(t)
    <2>1. /\ pc[t] # "idle" /\ Connected(<< >>) /\ Leave(t, "none")
          /\ UNCHANGED <<clientVars, backoff, world>>
      BY <1>11 DEF Reconnects
    <2>2. TaskInv' /\ NoneMade
      BY <2>1, LeaveKeeps, Places
    <2>3. ClientInv' /\ BackoffInv' /\ WorldInv'
      BY <2>1, Parts DEF ClientInv, BackoffInv, WorldInv, clientVars, backoff, world
    <2>4. WireInv' /\ Sent' \subseteq Sent \cup {Frame(t)}
      BY <2>1, ConnectedKeeps
    <2> QED BY <2>1, <2>2, <2>3, <2>4, SendKeepsIds, PartsNext
  <1>12. CASE ReconnectFails(t)
    <2>1. /\ Leave(t, "none")
          /\ Fault \/ UNCHANGED faults
          /\ UNCHANGED device
          /\ UNCHANGED <<clientVars, backoff, wire>>
      BY <1>12 DEF ReconnectFails, NotConnected
    <2>2. TaskInv' /\ NoneMade /\ WorldInv'
      BY <2>1, LeaveKeeps, FaultKeeps, Places
    <2>3. ClientInv' /\ BackoffInv' /\ WireInv' /\ Sent' = Sent
      BY <2>1, Parts DEF ClientInv, BackoffInv, WireInv, Sent, clientVars, backoff, wire
    <2> QED BY <2>2, <2>3, MsgIdsKept, PartsNext
  <1> QED BY <1>1, <1>2, <1>3, <1>4, <1>5, <1>6, <1>7, <1>8, <1>9, <1>10, <1>11, <1>12 DEF Step

\* Every step of device and network preserves the invariant.
LEMMA EnvironmentKeeps ==
    ASSUME Inv, Environment
    PROVE  Inv'
  <1>1. asked \in Seq(Frames) /\ line \in Seq(Frames) /\ conn \in Conns
    BY Parts DEF WireInv
  <1>2. TaskInv' /\ NoneMade
    BY TasksKept DEF Environment, DeviceAnswers, DeviceIgnores, SocketBreaks, DeviceCloses,
                     DeadSocketEnds, DeviceGoes, DeviceReturns
  <1>3. BackoffInv'
    BY Parts DEF BackoffInv, backoff, Environment, DeviceAnswers, DeviceIgnores, SocketBreaks,
                 DeviceCloses, DeadSocketEnds, DeviceGoes, DeviceReturns
  <1>4. ClientInv'
    BY Parts, TornKept
    DEF ClientInv, clientVars, Environment, DeviceAnswers, DeviceIgnores, SocketBreaks,
        DeviceCloses, DeadSocketEnds, DeviceGoes, DeviceReturns
  <1>5. WorldInv'
    <2>1. device' \in DeviceModes
      BY Parts DEF WorldInv, world, DeviceModes, Environment, DeviceAnswers, DeviceIgnores,
                   SocketBreaks, DeviceCloses, DeadSocketEnds, DeviceGoes, DeviceReturns
    <2>2. Fault \/ UNCHANGED faults
      BY DEF world, Environment, DeviceAnswers, DeviceIgnores, SocketBreaks, DeviceCloses,
             DeadSocketEnds, DeviceGoes, DeviceReturns
    <2>3. faults' \in 0..MaxFaults
      BY <2>2, Parts, ClientAssumption DEF WorldInv, Fault
    <2> QED BY <2>1, <2>3 DEF WorldInv
  <1>6. WireInv' /\ Sent' \subseteq Sent
    <2>1. CASE DeviceAnswers
      <3>1. /\ asked # << >>
            /\ line' = Append(line, Head(asked))
            /\ asked' = Tail(asked)
            /\ conn' = conn
        BY <2>1 DEF DeviceAnswers
      <3>2. Head(asked) \in Frames /\ asked' \in Seq(Frames)
        BY <1>1, <3>1, TailFacts
      <3>3. /\ ToSet(asked') \subseteq ToSet(asked)
            /\ Head(asked) \in ToSet(asked)
            /\ ToSet(line') = ToSet(line) \cup {Head(asked)}
        BY <1>1, <3>1, <3>2, ToSetFacts
      <3>4. line' \in Seq(Frames)
        BY <1>1, <3>1, <3>2, AppendFacts
      <3> QED BY <1>1, <3>1, <3>2, <3>3, <3>4 DEF WireInv, Sent
    <2>2. CASE DeviceIgnores
      <3>1. asked # << >> /\ asked' = Tail(asked) /\ line' = line /\ conn' = conn
        BY <2>2 DEF DeviceIgnores
      <3> QED BY <1>1, <3>1, TailFacts, ToSetFacts DEF WireInv, Sent
    <2>3. CASE SocketBreaks
      BY <2>3, CutKeeps, Places DEF SocketBreaks
    <2>4. CASE DeviceCloses
      <3>1. PICK n \in 0..Len(line) : line' = SubSeq(line, 1, n)
        BY <2>4 DEF DeviceCloses
      <3>2. conn' = "eof" /\ asked' = << >>
        BY <2>4 DEF DeviceCloses
      <3>3. line' \in Seq(Frames) /\ ToSet(line') \subseteq ToSet(line)
        BY <1>1, <3>1, CutFacts
      <3>4. asked' \in Seq(Frames) /\ ToSet(asked') = {}
        BY <3>2, ShortSequences
      <3> QED BY <3>2, <3>3, <3>4, Places DEF WireInv, Sent
    <2>5. CASE DeadSocketEnds
      <3>1. conn' \in Conns /\ line' = << >> /\ asked' = asked
        BY <2>5, Places DEF DeadSocketEnds
      <3>2. line' \in Seq(Frames) /\ ToSet(line') = {}
        BY <3>1, ShortSequences
      <3> QED BY <1>1, <3>1, <3>2 DEF WireInv, Sent
    <2>6. CASE DeviceGoes
      <3>1. Cut("mute") \/ UNCHANGED wire
        BY <2>6 DEF DeviceGoes
      <3>2. CASE Cut("mute")
        BY <3>2, CutKeeps, Places
      <3>3. CASE UNCHANGED wire
        BY <1>1, <3>3 DEF WireInv, Sent, wire
      <3> QED BY <3>1, <3>2, <3>3
    <2>7. CASE DeviceReturns
      BY <1>1, <2>7 DEF DeviceReturns, WireInv, Sent, wire
    <2> QED BY <2>1, <2>2, <2>3, <2>4, <2>5, <2>6, <2>7 DEF Environment
  <1> QED BY <1>2, <1>3, <1>4, <1>5, <1>6, MsgIdsKept, PartsNext

\* A new stream that no request is sent on has nothing under way.
LEMMA AsyncConnectKeeps ==
    ASSUME AsyncConnect
    PROVE  WireInv' /\ BackoffInv' /\ Sent' = {} /\ Single'
  <1>1. /\ conn' \in Conns
        /\ asked' = << >> /\ line' = << >>
        /\ failures' = 0 /\ cooldown' = 0
    BY Places DEF AsyncConnect, Connected, NoteSuccess
  <1>2. /\ asked' \in Seq(Frames) /\ line' \in Seq(Frames)
        /\ ToSet(asked') = {} /\ ToSet(line') = {}
        /\ IsInjective(asked') /\ IsInjective(line')
    BY <1>1, ShortSequences, DifferentShort
  <1>3. 0 \in 0..FailureBound /\ 0 <= MaxCooldown
    BY ClientAssumption
  <1> QED BY <1>1, <1>2, <1>3 DEF WireInv, BackoffInv, Sent, Single

\* What other clients do to the manager preserves the invariant.
LEMMA OthersKeep ==
    ASSUME Inv, OtherClients
    PROVE  Inv'
  <1>1. TaskInv' /\ NoneMade
    BY TasksKept DEF OtherClients, SetUpAgain, ProbeConnects, ProbeCloses
  <1>2. ClientInv'
    <2>1. 0 \in 0..SuspectAfter
      BY ClientAssumption
    <2> QED BY <2>1, Parts, TornKept
            DEF ClientInv, OtherClients, SetUpAgain, ProbeConnects, ProbeCloses
  <1>3. WorldInv'
    <2>1. UNCHANGED device /\ (Fault \/ UNCHANGED faults)
      BY DEF world, OtherClients, SetUpAgain, ProbeConnects, ProbeCloses
    <2> QED BY <2>1, FaultKeeps
  <1>4. BackoffInv' /\ WireInv' /\ Sent' \subseteq Sent
    <2>1. CASE AsyncConnect
      BY <2>1, AsyncConnectKeeps
    <2>2. CASE Cut("none") /\ UNCHANGED backoff
      <3>1. BackoffInv'
        BY <2>2, Parts DEF BackoffInv, backoff
      <3> QED BY <2>2, <3>1, CutKeeps, Places
    <2>3. AsyncConnect \/ (Cut("none") /\ UNCHANGED backoff)
      BY DEF OtherClients, SetUpAgain, ProbeConnects, ProbeCloses
    <2> QED BY <2>1, <2>2, <2>3
  <1> QED BY <1>1, <1>2, <1>3, <1>4, MsgIdsKept, PartsNext

\* At setup nothing was requested.
LEMMA InitInv == Init => Inv
  <1> SUFFICES ASSUME Init PROVE Inv
    OBVIOUS
  <1>1. PICK i \in MsgIds : msgId = [t \in Tasks |-> i]
    BY ClientAssumption DEF Init
  <1>2. /\ pc = [t \in Tasks |-> "idle"]
        /\ outcome = [t \in Tasks |-> "pending"]
        /\ ioQueue = << >> /\ asked = << >> /\ line = << >>
    BY DEF Init
  <1>3. /\ ioQueue \in Seq(Tasks) /\ asked \in Seq(Frames) /\ line \in Seq(Frames)
        /\ Len(ioQueue) = 0
    BY <1>2, ShortSequences
  <1>4. LockInv
    <2>1. 1..Len(ioQueue) = {}
      BY <1>3
    <2> QED BY <1>2, <2>1 DEF LockInv, Owning
  <1>5. AnswersRight /\ MsgIdsDiffer
    BY <1>2 DEF AnswersRight, OwnAnswer, MsgIdsDiffer
  <1>6. TaskInv
    BY <1>1, <1>2, <1>3, <1>4, <1>5 DEF TaskInv, PCs, Outcomes
  <1>7. 0 \in 0..SuspectAfter /\ 0 \in 0..FailureBound /\ 0 \in 0..MaxFaults /\ 0 <= MaxCooldown
    BY ClientAssumption
  <1>8. ClientInv /\ BackoffInv /\ WireInv /\ WorldInv
    BY <1>3, <1>7 DEF Init, ClientInv, BackoffInv, WireInv, WorldInv, Conns, DeviceModes
  <1> QED BY <1>5, <1>6, <1>8, Parts

\* Every step preserves the invariant.
LEMMA NextInv == Inv /\ [Next]_vars => Inv'
  <1> SUFFICES ASSUME Inv, [Next]_vars PROVE Inv'
    OBVIOUS
  <1>1. ASSUME NEW t \in Tasks, Request(t) PROVE Inv'
    BY <1>1, RequestKeeps
  <1>2. ASSUME NEW t \in Tasks, Step(t) PROVE Inv'
    BY <1>2, StepKeeps
  <1>3. ASSUME NEW t \in Tasks, AnswerIsLate(t) PROVE Inv'
    <2>1. pc[t] \in Owning /\ ReadTimeout(t) /\ Fault /\ UNCHANGED device
      BY <1>3, Places DEF AnswerIsLate
    <2> QED BY <2>1, ReadTimeoutKeeps, FaultKeeps, MsgIdsKept, PartsNext
  <1>4. ASSUME NEW t \in Tasks, Cancel(t) PROVE Inv'
    <2>1. Leave(t, "cancelled") /\ UNCHANGED <<clientVars, backoff, wire, world>>
      BY <1>4 DEF Cancel
    <2>2. TaskInv' /\ NoneMade
      BY <2>1, LeaveKeeps, Places
    <2>3. ClientInv' /\ BackoffInv' /\ WireInv' /\ WorldInv' /\ Sent' = Sent
      BY <2>1, Parts DEF ClientInv, BackoffInv, WireInv, WorldInv, Sent,
                         clientVars, backoff, wire, world
    <2> QED BY <2>2, <2>3, MsgIdsKept, PartsNext
  <1>5. CASE Environment
    BY <1>5, EnvironmentKeeps
  <1>6. CASE UNCHANGED vars
    <2>1. TaskInv' /\ NoneMade
      BY <1>6, TasksKept DEF vars
    <2>2. ClientInv' /\ BackoffInv' /\ WireInv' /\ WorldInv' /\ Sent' = Sent
      BY <1>6, Parts DEF ClientInv, BackoffInv, WireInv, WorldInv, Sent,
                         vars, clientVars, backoff, wire, world
    <2> QED BY <2>1, <2>2, MsgIdsKept, PartsNext
  <1>7. CASE OtherClients
    BY <1>7, OthersKeep
  <1> QED BY <1>1, <1>2, <1>3, <1>4, <1>5, <1>6, <1>7 DEF Next

\* The invariant holds in every reachable state.
LEMMA Invariance == Spec => []Inv
  BY InitInv, NextInv, PTL DEF Spec

\* One request at a time owns the stream.
LEMMA Excludes == Inv => OneRequestAtATime
  BY DEF Inv, LockInv, OneRequestAtATime

-----------------------------------------------------------------------------
(* The backoff. *)

\* Powers of two grow: 2^n subsets of 1..n are among the 2^(n+1) of 1..(n+1).
LEMMA PowersGrow ==
    ASSUME NEW n \in Nat
    PROVE  2^n \in Nat /\ n <= 2^n /\ 2^(n + 1) \in Nat /\ 2^n <= 2^(n + 1)
  <1> DEFINE A == 1..n
             B == 1..(n + 1)
  <1>1. IsFiniteSet(A) /\ Cardinality(A) = n
    BY FS_Interval
  <1>2. IsFiniteSet(B) /\ Cardinality(B) = n + 1
    BY FS_Interval
  <1>3. A \subseteq B
    OBVIOUS
  <1> HIDE DEF A, B
  <1>4. IsFiniteSet(SUBSET A) /\ Cardinality(SUBSET A) = 2^n
    BY <1>1, FS_SUBSET
  <1>5. IsFiniteSet(SUBSET B) /\ Cardinality(SUBSET B) = 2^(n + 1)
    BY <1>2, FS_SUBSET
  <1>6. (SUBSET A) \in SUBSET (SUBSET B)
    BY <1>3
  <1>7. Cardinality(SUBSET A) <= Cardinality(SUBSET B)
    BY <1>5, <1>6, FS_Subset
  <1>8. Cardinality(SUBSET A) \in Nat /\ Cardinality(SUBSET B) \in Nat
    BY <1>4, <1>5, FS_CardinalityType
  <1>9. n <= Cardinality(SUBSET A)
    <2> DEFINE f == [x \in A |-> {x}]
    <2>1. f \in Injection(A, SUBSET A)
      BY DEF Injection, IsInjective
    <2> QED BY <1>1, <1>4, <2>1, FS_Injection
  <1> QED BY <1>4, <1>5, <1>7, <1>8, <1>9

\* Some doubling reaches the maximum, and no more than MaxCooldown of them.
LEMMA SaturationType == Saturation \in 0..MaxCooldown
  <1>1. BaseCooldown \in Nat \ {0} /\ MaxCooldown \in Nat
    BY ClientAssumption
  <1> DEFINE p == 2^MaxCooldown
  <1>2. p \in Nat /\ MaxCooldown <= p
    BY <1>1, PowersGrow
  <1>3. MaxCooldown \in 0..MaxCooldown
    BY <1>1
  <1> HIDE DEF p
  <1>4. BaseCooldown * p >= MaxCooldown
    <2>1. BaseCooldown * p >= p
      BY <1>1, <1>2
    <2>2. BaseCooldown * p \in Nat
      BY <1>1, <1>2
    <2> QED BY <1>1, <1>2, <2>1, <2>2
  <1>5. \E k \in 0..MaxCooldown : BaseCooldown * 2^k >= MaxCooldown
    BY <1>3, <1>4, Zenon DEF p
  <1> QED BY <1>5, Zenon DEF Saturation

\* A longer streak of failures waits no less.
LEMMA CooldownsGrow ==
    ASSUME NEW n \in Nat
    PROVE  /\ CooldownFor(n) \in Nat
           /\ CooldownFor(n) <= CooldownFor(n + 1)
  <1> DEFINE p == 2^n
             q == 2^(n + 1)
  <1>1. p \in Nat /\ q \in Nat /\ p <= q
    BY PowersGrow
  <1>2. /\ BaseCooldown \in Nat /\ MaxCooldown \in Nat
    BY ClientAssumption
  <1>3. n + 1 < Saturation => n < Saturation
    BY SaturationType
  <1>4. /\ CooldownFor(n) = IF n < Saturation /\ BaseCooldown * p <= MaxCooldown
                            THEN BaseCooldown * p ELSE MaxCooldown
        /\ CooldownFor(n + 1) = IF n + 1 < Saturation /\ BaseCooldown * q <= MaxCooldown
                                THEN BaseCooldown * q ELSE MaxCooldown
    BY DEF CooldownFor
  <1> HIDE DEF p, q
  <1>5. BaseCooldown * p \in Nat /\ BaseCooldown * q \in Nat /\ BaseCooldown * p <= BaseCooldown * q
    BY <1>1, <1>2
  <1> QED BY <1>2, <1>3, <1>4, <1>5

\* The last wait is one that a streak of this length may have had, or shorter.
Escalating == cooldown \in Nat /\ cooldown <= CooldownFor(failures)

\* What may end a backoff: an answer, or a connect that another client made.
MayEnd == (\E t \in Tasks : Answered(t)) \/ SetUpAgain \/ ProbeConnects

\* All that a step does to the backoff: nothing, or what may end it does, or
\* one more failure waits.
LEMMA BackoffSteps ==
    ASSUME Inv, [Next]_vars
    PROVE  \/ UNCHANGED backoff
           \/ NoteSuccess /\ MayEnd
           \/ NoteFailure /\ cooldown' = CooldownFor(failures)
  <1>1. ASSUME NEW t \in Tasks, ConnectionError(t)
        PROVE  UNCHANGED backoff \/ (NoteFailure /\ cooldown' = CooldownFor(failures))
    BY <1>1 DEF ConnectionError
  <1>2. ASSUME NEW t \in Tasks, ReadAnswer(t)
        PROVE  NoteSuccess /\ Answered(t)
    <2>1. PICK o \in {"own answer", "other answer"} : Leave(t, o)
      BY <1>2 DEF ReadAnswer
    <2>2. outcome' = [outcome EXCEPT ![t] = o] /\ pc' = [pc EXCEPT ![t] = "idle"]
      BY <2>1 DEF Leave
    <2>3. outcome'[t] = o /\ pc'[t] = "idle"
      BY <2>2, TaskTypes
    <2> QED BY <1>2, <2>3 DEF ReadAnswer, Answered
  <1>3. ASSUME NEW t \in Tasks, ConnectFails(t) \/ ReadFails(t)
        PROVE  ConnectionError(t)
    BY <1>3 DEF ConnectFails, ReadFails
  <1>4. ASSUME NEW t \in Tasks, Step(t)
        PROVE  UNCHANGED backoff \/ ReadAnswer(t) \/ ConnectionError(t)
    BY <1>3, <1>4
    DEF Step, Send, ConnectLazily, ConnectAndSend, ReadOn, ReadTimesOut, ReadTimeout, CloseEnds,
        CooldownEnds, Reconnects, ReconnectFails
  <1>5. ASSUME NEW t \in Tasks, Request(t) \/ AnswerIsLate(t) \/ Cancel(t)
        PROVE  UNCHANGED backoff
    BY <1>5 DEF Request, AnswerIsLate, ReadTimeout, Cancel
  <1>6. ASSUME Environment PROVE UNCHANGED backoff
    BY <1>6 DEF Environment, DeviceAnswers, DeviceIgnores, SocketBreaks, DeviceCloses,
                DeadSocketEnds, DeviceGoes, DeviceReturns
  <1>7. ASSUME UNCHANGED vars PROVE UNCHANGED backoff
    BY <1>7 DEF vars
  <1>8. ASSUME OtherClients PROVE UNCHANGED backoff \/ (NoteSuccess /\ MayEnd)
    BY <1>8 DEF OtherClients, SetUpAgain, ProbeConnects, ProbeCloses, AsyncConnect, MayEnd
  <1>9. (\E t \in Tasks : Answered(t)) => MayEnd
    BY DEF MayEnd
  <1> QED BY <1>1, <1>2, <1>4, <1>5, <1>6, <1>7, <1>8, <1>9 DEF Next

\* The wait grows with the streak, step by step.
LEMMA BackoffKeeps ==
    ASSUME Inv, Escalating, [Next]_vars
    PROVE  /\ Escalating'
           /\ cooldown' < cooldown => MayEnd
  <1>1. failures \in Nat
    BY Parts, ClientAssumption DEF BackoffInv
  <1>2. CASE UNCHANGED backoff
    <2>1. cooldown' = cooldown /\ failures' = failures
      BY <1>2 DEF backoff
    <2>2. Escalating'
      BY <2>1 DEF Escalating, CooldownFor
    <2>3. ~(cooldown' < cooldown)
      BY <2>1 DEF Escalating
    <2> QED BY <2>2, <2>3
  <1>3. CASE NoteSuccess /\ MayEnd
    <2>1. cooldown' = 0 /\ failures' = 0
      BY <1>3 DEF NoteSuccess
    <2>2. CooldownFor(0) \in Nat
      BY CooldownsGrow
    <2>3. 0 <= CooldownFor(0) /\ 0 \in Nat
      BY <2>2
    <2>4. CooldownFor(failures)' = CooldownFor(0)
      BY <2>1 DEF CooldownFor
    <2> QED BY <1>3, <2>1, <2>3, <2>4 DEF Escalating
  <1>4. CASE NoteFailure /\ cooldown' = CooldownFor(failures)
    <2>1. failures' \in {failures, failures + 1}
      BY <1>4 DEF NoteFailure
    <2>2. /\ CooldownFor(failures) \in Nat
          /\ CooldownFor(failures + 1) \in Nat
          /\ CooldownFor(failures) <= CooldownFor(failures + 1)
      BY <1>1, CooldownsGrow
    <2>3. CooldownFor(failures') \in {CooldownFor(failures), CooldownFor(failures + 1)}
      BY <2>1
    <2>4. CooldownFor(failures)' = CooldownFor(failures')
      BY DEF CooldownFor
    <2>5. cooldown' \in Nat /\ cooldown' <= CooldownFor(failures')
      BY <1>4, <2>2, <2>3
    <2>6. ~(cooldown' < cooldown)
      BY <1>4, <2>2 DEF Escalating
    <2> QED BY <2>4, <2>5, <2>6 DEF Escalating
  <1> QED BY <1>2, <1>3, <1>4, BackoffSteps

\* At setup nothing has failed.
LEMMA EscalatesFirst == Init => Escalating
  <1>1. CooldownFor(0) \in Nat
    BY CooldownsGrow
  <1>2. 0 <= CooldownFor(0) /\ 0 \in Nat
    BY <1>1
  <1> QED BY <1>2 DEF Init, Escalating

-----------------------------------------------------------------------------
(* The requests on the wire, if no two share a millisecond. *)

Waits(t) == pc[t] \in {"queued", "connecting"}

\* No request is on the wire before its turn.
Unsent == \A t \in Tasks : Waits(t) => Frame(t) \notin Sent

\* No request is made, and none that had its turn waits again.
NoneWaits == msgId' = msgId /\ \A t \in Tasks : Waits(t)' => Waits(t)

\* Frames of different tasks differ.
LEMMA FramesDiffer ==
    ASSUME NEW t \in Tasks, NEW u \in Tasks, Frame(t) = Frame(u)
    PROVE  t = u
  <1>1. Frame(t).by = t /\ Frame(u).by = u
    BY DEF Frame
  <1> QED BY <1>1

\* A step that sends nothing but what had its turn sends nothing before its turn.
LEMMA UnsentKept ==
    ASSUME Unsent, NoneWaits,
           \/ Sent' \subseteq Sent
           \/ \E t \in Tasks : Sent' \subseteq Sent \cup {Frame(t)} /\ ~Waits(t)'
    PROVE  Unsent'
  <1> SUFFICES ASSUME NEW u \in Tasks, Waits(u)', Frame(u)' \in Sent' PROVE FALSE
    BY DEF Unsent
  <1>1. Frame(u)' = Frame(u) /\ Waits(u)
    BY DEF NoneWaits, Frame
  <1>2. Frame(u) \notin Sent
    BY <1>1 DEF Unsent
  <1>3. PICK t \in Tasks : Sent' \subseteq Sent \cup {Frame(t)} /\ ~Waits(t)'
    BY <1>1, <1>2
  <1>4. Frame(u) = Frame(t)
    BY <1>1, <1>2, <1>3
  <1>5. u = t
    BY <1>4, FramesDiffer
  <1> QED BY <1>3, <1>5

LEMMA LeaverWaitsNot ==
    ASSUME Inv, NEW t \in Tasks, NEW r, Leave(t, r)
    PROVE  NoneWaits
  BY TaskTypes DEF Leave, NoneWaits, Waits

LEMMA GoerWaitsNot ==
    ASSUME Inv, NEW t \in Tasks, NEW where \in Owning, Goto(t, where),
           where = "connecting" => pc[t] = "queued"
    PROVE  NoneWaits /\ (where # "connecting" => ~Waits(t)')
  <1>1. /\ pc' = [pc EXCEPT ![t] = where] /\ msgId' = msgId
        /\ pc \in [Tasks -> PCs]
        /\ where # "queued"
    BY TaskTypes DEF Goto, Owning
  <1> QED BY <1>1 DEF NoneWaits, Waits

\* An empty wire.
LEMMA CutIsSingle ==
    ASSUME NEW to, Cut(to)
    PROVE  Single' /\ Sent' = {}
  <1>1. asked' = << >> /\ line' = << >>
    BY DEF Cut
  <1>2. Sent' = {}
    BY <1>1, ShortSequences DEF Sent
  <1>3. Single'
    BY <1>1, ShortSequences, DifferentShort DEF Single
  <1> QED BY <1>2, <1>3

\* A new stream has the request that was sent on it, or nothing.
LEMMA ConnectedIsSingle ==
    ASSUME NEW t \in Tasks, NEW requests \in {<< >>, <<Frame(t)>>}, Connected(requests)
    PROVE  /\ Single'
           /\ Sent' \subseteq {Frame(t)}
           /\ requests = << >> => Sent' = {}
  <1>1. asked' \in {<< >>, requests} /\ line' = << >>
    BY DEF Connected
  <1>2. /\ ToSet(line') = {}
        /\ ToSet(asked') \subseteq {Frame(t)}
        /\ requests = << >> => ToSet(asked') = {}
    BY <1>1, ShortSequences
  <1>3. IsInjective(line') /\ IsInjective(asked')
    BY <1>1, DifferentShort
  <1> QED BY <1>2, <1>3 DEF Single, Sent

\* A read takes a prefix off the line, and with it all of its frames.
LEMMA ReadIsSingle ==
    ASSUME Inv, Single, NEW n \in 0..Len(line),
           line' = SubSeq(line, n + 1, Len(line)), asked' = asked
    PROVE  /\ Single'
           /\ Sent' \subseteq Sent
           /\ \A k \in 1..n : line[k] \notin Sent'
  <1>1. line \in Seq(Frames) /\ IsInjective(line)
    BY Parts DEF WireInv, Single
  <1>2. /\ IsInjective(line')
        /\ \A k \in 1..n : line[k] \notin ToSet(line')
    BY <1>1, DifferentCuts
  <1>3. ToSet(line') \subseteq ToSet(line)
    BY <1>1, CutFacts
  <1>4. \A k \in 1..n : line[k] \in ToSet(line)
    <2>1. \A k \in 1..n : k \in 1..Len(line)
      BY <1>1
    <2> QED BY <1>1, <2>1, ToSetFacts
  <1> QED BY <1>2, <1>3, <1>4 DEF Single, Sent

-----------------------------------------------------------------------------
(* The client implements RequestChannel. *)

FrameOf == [t \in Tasks |-> Frame(t)]

\* The requests that wait are those of the tasks in the queue.
LEMMA WaitingFacts ==
    ASSUME Inv
    PROVE  /\ FrameOf \in [Tasks -> Frames]
           /\ Waiting = Mapped(ioQueue, FrameOf)
           /\ Waiting \in Seq(Frames)
           /\ Len(Waiting) = Len(ioQueue)
           /\ \A i \in 1..Len(ioQueue) : Waiting[i] = Frame(ioQueue[i])
  <1>1. /\ ioQueue \in Seq(Tasks)
        /\ Len(ioQueue) \in Nat
        /\ \A i \in 1..Len(ioQueue) : ioQueue[i] \in Tasks
    BY TaskTypes
  <1>2. FrameOf \in [Tasks -> Frames]
    BY TaskTypes DEF FrameOf, Frame, Frames
  <1>3. Waiting = Mapped(ioQueue, FrameOf)
    BY <1>1 DEF Waiting, Mapped, FrameOf
  <1>4. Mapped(ioQueue, FrameOf) \in Seq(Frames) /\ Len(Mapped(ioQueue, FrameOf)) = Len(ioQueue)
    <2>1. \A t \in Tasks : FrameOf[t] \in Frames
      BY <1>2
    <2> QED BY <1>1, <2>1, MappedFacts, MappedType
  <1> QED BY <1>1, <1>2, <1>3, <1>4 DEF Waiting

\* The task that owns the lock has the first request.
LEMMA FirstWaits ==
    ASSUME Inv, NEW t \in Tasks, ioQueue # << >>, ioQueue[1] = t
    PROVE  /\ Waiting # << >> /\ Head(Waiting) = Frame(t)
           /\ Head(ioQueue) = t
           /\ 1 \in 1..Len(ioQueue)
           /\ Spent <=> pc[t] \in {"reading", "closing", "cooldown", "reconnecting"}
  <1>1. ioQueue \in Seq(Tasks) /\ Len(ioQueue) \in Nat \ {0} /\ Head(ioQueue) = t
    BY TaskTypes, TailFacts
  <1>2. /\ Waiting \in Seq(Frames)
        /\ Len(Waiting) = Len(ioQueue)
        /\ 1 \in 1..Len(ioQueue)
        /\ Waiting[1] = Frame(t)
    BY <1>1, WaitingFacts
  <1>3. Waiting # << >>
    BY <1>1, <1>2
  <1>4. Head(Waiting) = Frame(t)
    BY <1>2, <1>3, TailFacts
  <1>5. Spent <=> pc[t] \in {"reading", "closing", "cooldown", "reconnecting"}
    BY <1>1 DEF Spent
  <1> QED BY <1>1, <1>2, <1>3, <1>4, <1>5

\* A step that leaves the tasks alone leaves the queue of requests alone.
LEMMA SameRequests ==
    ASSUME UNCHANGED taskVars
    PROVE  Waiting' = Waiting /\ Spent' = Spent /\ outcome' = outcome /\ NoneWaits
  BY DEF taskVars, Waiting, Frame, Spent, NoneWaits, Waits

\* A task that goes on keeps its place; what it goes on to tells whether its
\* request has had its chance.
LEMMA GotoGoesOn ==
    ASSUME Inv, NEW t \in Tasks, NEW where \in Owning, Goto(t, where),
           ioQueue # << >>, ioQueue[1] = t
    PROVE  /\ Waiting' = Waiting
           /\ outcome' = outcome
           /\ Spent' = (where # "connecting")
  <1>1. pc' = [pc EXCEPT ![t] = where] /\ UNCHANGED <<msgId, outcome, ioQueue>>
    BY DEF Goto
  <1>2. Waiting' = Waiting
    BY <1>1 DEF Waiting, Frame
  <1>3. pc'[t] = where /\ Head(ioQueue) = t
    BY <1>1, TaskTypes, FirstWaits
  <1>4. Spent' = (where # "connecting")
    BY <1>1, <1>3 DEF Spent, Owning
  <1> QED BY <1>1, <1>2, <1>4

\* A task that leaves returns its request, the first one if it owned the lock;
\* the next has its chance still before it.
LEMMA LeaveReturns ==
    ASSUME Inv, NEW t \in Tasks, NEW r \in RightOutcomes, Leave(t, r)
    PROVE  \E n \in 1..Len(Waiting) :
                /\ Channel!Returns(n, r)
                /\ pc[t] \in Owning => n = 1
  <1>1. PICK n \in 1..Len(ioQueue) : ioQueue[n] = t /\ ioQueue' = RemoveAt(ioQueue, n)
    BY DEF Leave
  <1>2. /\ pc' = [pc EXCEPT ![t] = "idle"]
        /\ outcome' = [outcome EXCEPT ![t] = r]
        /\ msgId' = msgId
        /\ pc \in [Tasks -> PCs]
    BY TaskTypes DEF Leave
  <1>3. /\ ioQueue \in Seq(Tasks)
        /\ Len(ioQueue) \in Nat /\ n \in Nat /\ 1 <= n /\ n <= Len(ioQueue)
        /\ \A i \in 1..Len(ioQueue) : ioQueue[i] \in Tasks
    BY TaskTypes
  <1>4. /\ ioQueue' \in Seq(Tasks)
        /\ Len(ioQueue') = Len(ioQueue) - 1
        /\ \A i \in 1..Len(ioQueue) - 1 :
            ioQueue'[i] = IF i < n THEN ioQueue[i] ELSE ioQueue[i + 1]
    BY <1>1, <1>3, RemoveAtFacts
  <1>5. Waiting' = RemoveAt(Waiting, n)
    <2>1. Waiting' = Mapped(RemoveAt(ioQueue, n), FrameOf)
      <3>1. \A i \in 1..Len(ioQueue') : ioQueue'[i] \in Tasks
        BY <1>4
      <3>2. Waiting' = [i \in 1..Len(ioQueue') |-> Frame(ioQueue'[i])]
        BY <1>2 DEF Waiting, Frame
      <3> QED BY <1>1, <3>1, <3>2 DEF Mapped, FrameOf
    <2>2. Mapped(RemoveAt(ioQueue, n), FrameOf) = RemoveAt(Mapped(ioQueue, FrameOf), n)
      BY <1>3, MappedRemoveAt
    <2> QED BY <2>1, <2>2, WaitingFacts
  <1>6. Waiting[n].by = t
    <2>1. Waiting[n] = Frame(t)
      BY <1>1, WaitingFacts
    <2> QED BY <2>1 DEF Frame
  <1>7. pc[t] \in Owning => n = 1
    <2> SUFFICES ASSUME pc[t] \in Owning PROVE n = 1
      OBVIOUS
    <2>1. ioQueue[1] = t /\ 1 \in 1..Len(ioQueue)
      BY <1>3, OwnerIsFirst
    <2> QED BY <1>1, <2>1 DEF Inv, LockInv
  <1>8. Spent' = (Spent /\ n # 1)
    <2>1. CASE n = 1
      <3>1. ~Spent'
        <4> SUFFICES ASSUME Spent' PROVE FALSE
          OBVIOUS
        <4>1. ioQueue' # << >> /\ Head(ioQueue') = ioQueue'[1] /\ Len(ioQueue') \in Nat \ {0}
          BY <1>4, TailFacts DEF Spent
        <4>2. 2 \in 1..Len(ioQueue) /\ ioQueue'[1] = ioQueue[2]
          BY <1>3, <1>4, <2>1, <4>1
        <4>3. ioQueue[2] # t /\ ioQueue[2] # ioQueue[1] /\ ioQueue[2] \in Tasks
          BY <1>1, <1>3, <2>1, <4>2 DEF Inv, LockInv
        <4>4. pc[ioQueue[2]] \in Owning
          BY <1>2, <4>1, <4>2, <4>3 DEF Spent, Owning
        <4> QED BY <4>3, <4>4, OwnerIsFirst
      <3> QED BY <2>1, <3>1 DEF Spent
    <2>2. CASE n # 1
      <3>1. 1 \in 1..Len(ioQueue) - 1 /\ 1 < n /\ 1 \in 1..Len(ioQueue)
        BY <1>3, <2>2
      <3>2. ioQueue # << >> /\ ioQueue' # << >> /\ ioQueue'[1] = ioQueue[1]
        BY <1>3, <1>4, <3>1
      <3>3. Head(ioQueue') = ioQueue[1] /\ Head(ioQueue) = ioQueue[1]
        BY <1>3, <1>4, <3>2, TailFacts
      <3>4. ioQueue[1] # t /\ ioQueue[1] \in Tasks
        BY <1>1, <1>3, <2>2, <3>1 DEF Inv, LockInv
      <3>5. pc'[ioQueue[1]] = pc[ioQueue[1]]
        BY <1>2, <3>4
      <3> QED BY <2>2, <3>2, <3>3, <3>5 DEF Spent
    <2> QED BY <2>1, <2>2
  <1>9. Channel!Returns(n, r)
    BY <1>2, <1>5, <1>6, <1>8 DEF Channel!Returns, Channel!RemoveAt, RemoveAt
  <1>10. n \in 1..Len(Waiting)
    BY WaitingFacts
  <1> QED BY <1>7, <1>9, <1>10

\* Whoever owned the lock and leaves without an answer gives up.
LEMMA GiveUpStep ==
    ASSUME Inv, NEW t \in Tasks, pc[t] \in Owning,
           NEW r \in {"none", "raised"}, Leave(t, r), Sent' \subseteq Sent
    PROVE  Channel!GiveUp
  <1>1. r \in RightOutcomes
    BY DEF RightOutcomes, Outcomes
  <1>2. Channel!Returns(1, r)
    BY <1>1, LeaveReturns
  <1>3. Waiting # << >>
    BY FirstWaits, OwnerIsFirst
  <1>4. Sent' \in SUBSET Sent
    OBVIOUS
  <1> QED BY <1>2, <1>3, <1>4 DEF Channel!GiveUp

\* Nothing happens but that requests and answers get lost.
LEMMA LoseStep ==
    ASSUME Waiting' = Waiting, Spent' = Spent, outcome' = outcome, Sent' \subseteq Sent
    PROVE  Channel!Lose
  <1>1. Sent' \in SUBSET Sent
    OBVIOUS
  <1> QED BY <1>1 DEF Channel!Lose

\* The first request has its chance, and is sent or not.
LEMMA SendStep ==
    ASSUME Inv, NEW t \in Tasks, ioQueue # << >>, ioQueue[1] = t, Waits(t),
           NEW where \in Owning \ {"connecting"}, Goto(t, where),
           Sent' \subseteq Sent \cup {Frame(t)}
    PROVE  Channel!Send
  <1>1. Waiting # << >> /\ Head(Waiting) = Frame(t) /\ ~Spent
    BY FirstWaits DEF Waits
  <1>2. Waiting' = Waiting /\ outcome' = outcome /\ Spent' = TRUE
    BY GotoGoesOn
  <1>3. Sent' \in SUBSET (Sent \cup {Head(Waiting)})
    BY <1>1
  <1> QED BY <1>1, <1>2, <1>3 DEF Channel!Send

\* What a step of the client must show.
Shown == (Channel!Next \/ UNCHANGED <<Waiting, Spent, Sent, outcome>>) /\ Unsent' /\ Single'

\* A connection error of a request that owns the lock.
LEMMA ConnectionErrorShown ==
    ASSUME Inv, Unsent, Single, NEW t \in Tasks, pc[t] \in Owning,
           ConnectionError(t), UNCHANGED wire
    PROVE  Shown
  <1>0. ioQueue # << >> /\ ioQueue[1] = t
    BY OwnerIsFirst
  <1>1. Sent' = Sent /\ Single'
    BY DEF Sent, Single, wire
  <1>2. CASE Leave(t, "raised")
    <2>1. Channel!GiveUp
      BY <1>1, <1>2, GiveUpStep
    <2>2. NoneWaits
      BY <1>2, LeaverWaitsNot
    <2>3. Unsent'
      BY <1>1, <2>2, UnsentKept
    <2> QED BY <1>1, <2>1, <2>3 DEF Shown, Channel!Next
  <1>3. CASE Goto(t, "cooldown")
    <2>1. "cooldown" \in Owning \ {"connecting"}
      BY DEF Owning
    <2>2. NoneWaits
      BY <1>3, <2>1, GoerWaitsNot
    <2>3. Unsent'
      BY <1>1, <2>2, UnsentKept
    <2>4. CASE Waits(t)
      <3>1. Channel!Send
        BY <1>0, <1>1, <1>3, <2>1, <2>4, SendStep
      <3> QED BY <1>1, <2>3, <3>1 DEF Shown, Channel!Next
    <2>5. CASE ~Waits(t)
      <3>1. Spent
        BY <1>0, <2>5, FirstWaits DEF Waits, Owning
      <3>2. Waiting' = Waiting /\ outcome' = outcome /\ Spent' = TRUE
        BY <1>0, <1>3, <2>1, GotoGoesOn
      <3>3. Spent' = Spent
        BY <3>1, <3>2 DEF Spent
      <3> QED BY <1>1, <2>3, <3>2, <3>3 DEF Shown
    <2> QED BY <2>4, <2>5
  <1> QED BY <1>2, <1>3 DEF ConnectionError

\* A read timeout of a request that was sent.
LEMMA ReadTimeoutShown ==
    ASSUME Inv, Unsent, Single, NEW t \in Tasks, pc[t] = "reading", ReadTimeout(t)
    PROVE  Shown
  <1>0. pc[t] \in Owning /\ ioQueue # << >> /\ ioQueue[1] = t
    BY Places, OwnerIsFirst
  <1>1. Sent' \subseteq Sent /\ Single'
    <2>1. CASE UNCHANGED wire
      BY <2>1 DEF Sent, Single, wire
    <2>2. CASE \E to : Cut(to)
      BY <2>2, CutIsSingle
    <2> QED BY <2>1, <2>2 DEF ReadTimeout
  <1>2. CASE Leave(t, "none")
    <2>1. Channel!GiveUp
      BY <1>0, <1>1, <1>2, GiveUpStep
    <2>2. NoneWaits
      BY <1>2, LeaverWaitsNot
    <2>3. Unsent'
      BY <1>1, <2>2, UnsentKept
    <2> QED BY <1>1, <2>1, <2>3 DEF Shown, Channel!Next
  <1>3. CASE Goto(t, "closing")
    <2>1. "closing" \in Owning \ {"connecting"}
      BY DEF Owning
    <2>2. NoneWaits
      BY <1>3, <2>1, GoerWaitsNot
    <2>3. Unsent'
      BY <1>1, <2>2, UnsentKept
    <2>4. Waiting' = Waiting /\ outcome' = outcome /\ Spent' = TRUE
      BY <1>0, <1>3, <2>1, GotoGoesOn
    <2>5. Spent
      BY <1>0, FirstWaits
    <2>6. Spent' = Spent
      BY <2>4, <2>5 DEF Spent
    <2>7. Channel!Lose
      BY <1>1, <2>4, <2>6, LoseStep
    <2> QED BY <1>1, <2>3, <2>7 DEF Shown, Channel!Next
  <1> QED BY <1>2, <1>3 DEF ReadTimeout, Recycled

\* A new request joins the queue of requests and is unlike all on the wire.
LEMMA RequestShown ==
    ASSUME ~SharedMillisecond, Inv, Unsent, Single, NEW t \in Tasks, Request(t)
    PROVE  Shown
  <1>1. PICK n \in MsgIds : n \notin Around /\ msgId' = [msgId EXCEPT ![t] = n]
    BY DEF Request, IsNext, IsSame
  <1>2. /\ pc[t] = "idle"
        /\ pc' = [pc EXCEPT ![t] = "queued"]
        /\ outcome' = [outcome EXCEPT ![t] = "pending"]
        /\ ioQueue' = Append(ioQueue, t)
        /\ asked' = asked /\ line' = line
    BY DEF Request, wire
  <1>3. /\ pc \in [Tasks -> PCs] /\ msgId \in [Tasks -> MsgIds]
        /\ ioQueue \in Seq(Tasks) /\ Len(ioQueue) \in Nat
        /\ \A i \in 1..Len(ioQueue) : ioQueue[i] \in Tasks
    BY TaskTypes
  <1>4. /\ ioQueue' \in Seq(Tasks)
        /\ Len(ioQueue') = Len(ioQueue) + 1
        /\ \A i \in 1..Len(ioQueue) : ioQueue'[i] = ioQueue[i]
    BY <1>2, <1>3, AppendFacts
  <1>5. \A i \in 1..Len(ioQueue) : ioQueue[i] # t
    BY <1>2 DEF Inv, LockInv
  <1>6. Sent' = Sent /\ Single'
    BY <1>2 DEF Sent, Single
  <1>7. /\ msgId'[t] = n
        /\ \A u \in Tasks : u # t => msgId'[u] = msgId[u] /\ pc'[u] = pc[u]
    BY <1>1, <1>2, <1>3
  <1> DEFINE f == [by |-> t, msgId |-> n]
             g == [u \in Tasks |-> [by |-> u, msgId |-> msgId'[u]]]
  <1>8. f \notin Sent
    <2>1. \A h \in Sent : h.msgId # n
      BY <1>1 DEF Around, Sent
    <2> QED BY <2>1
  <1>9. Unsent'
    <2> SUFFICES ASSUME NEW u \in Tasks, Waits(u)' PROVE Frame(u)' \notin Sent'
      BY DEF Unsent
    <2>1. CASE u = t
      <3>1. Frame(u)' = f
        BY <1>7, <2>1 DEF Frame
      <3> QED BY <1>6, <1>8, <3>1
    <2>2. CASE u # t
      <3>1. Waits(u) /\ Frame(u)' = Frame(u)
        BY <1>7, <2>2 DEF Waits, Frame
      <3> QED BY <1>6, <3>1 DEF Unsent
    <2> QED BY <2>1, <2>2
  <1>10. Waiting' = Append(Waiting, f)
    <2>1. \A i \in 1..Len(ioQueue') : ioQueue'[i] \in Tasks
      BY <1>4
    <2>2. Waiting' = Mapped(ioQueue', g)
      BY <2>1 DEF Waiting, Frame, Mapped
    <2>3. \A i \in 1..Len(ioQueue) : g[ioQueue[i]] = FrameOf[ioQueue[i]]
      BY <1>3, <1>5, <1>7 DEF FrameOf, Frame
    <2>4. g[t] = f
      BY <1>7
    <2> HIDE DEF g
    <2>5. Mapped(Append(ioQueue, t), g) = Append(Mapped(ioQueue, g), g[t])
      BY <1>3, MappedAppend
    <2>6. Mapped(ioQueue, g) = Mapped(ioQueue, FrameOf)
      BY <2>3 DEF Mapped
    <2> QED BY <1>2, <2>2, <2>4, <2>5, <2>6, WaitingFacts
  <1>11. Spent' = Spent
    <2>1. CASE ioQueue = << >>
      <3>1. ioQueue' = <<t>>
        BY <1>2, <2>1
      <3>2. Head(ioQueue') = t
        BY <3>1
      <3>3. pc'[t] = "queued"
        BY <1>2, <1>3
      <3> QED BY <2>1, <3>2, <3>3 DEF Spent
    <2>2. CASE ioQueue # << >>
      <3>1. 1 \in 1..Len(ioQueue) /\ ioQueue' # << >>
        BY <1>3, <1>4, <2>2
      <3>2. Head(ioQueue') = ioQueue[1] /\ Head(ioQueue) = ioQueue[1]
        BY <1>3, <1>4, <2>2, <3>1, TailFacts
      <3>3. pc'[ioQueue[1]] = pc[ioQueue[1]]
        BY <1>3, <1>5, <1>7, <3>1
      <3> QED BY <2>2, <3>1, <3>2, <3>3 DEF Spent
    <2> QED BY <2>1, <2>2
  <1>12. \A i \in 1..Len(Waiting) : Waiting[i].by # t
    <2> SUFFICES ASSUME NEW i \in 1..Len(ioQueue) PROVE Waiting[i].by # t
      BY WaitingFacts
    <2>1. Waiting[i] = Frame(ioQueue[i])
      BY WaitingFacts
    <2> QED BY <1>5, <2>1 DEF Frame
  <1>13. f \in Channel!Requests /\ f.by = t
    BY DEF Channel!Requests
  <1> HIDE DEF f
  <1>14. Channel!Ask(f)
    BY <1>2, <1>6, <1>8, <1>10, <1>11, <1>12, <1>13 DEF Channel!Ask
  <1> QED BY <1>6, <1>9, <1>13, <1>14 DEF Shown, Channel!Next

\* The answer that a request returns is taken off the wire.
LEMMA ReadAnswerShown ==
    ASSUME ~SharedMillisecond, Inv, Unsent, Single, NEW t \in Tasks, ReadAnswer(t)
    PROVE  Shown
  <1>0. /\ pc[t] = "reading" /\ pc[t] # "idle" /\ pc[t] \in Owning
        /\ ioQueue # << >> /\ ioQueue[1] = t
    BY Places, OwnerIsFirst DEF ReadAnswer
  <1>1. PICK n \in 0..Len(line) :
          /\ \E k \in 1..Len(Framed(n)) :
               /\ Matches(line[k], t)
               /\ Leave(t, IF line[k] = Frame(t) THEN "own answer" ELSE "other answer")
          /\ line' = SubSeq(line, n + 1, Len(line))
          /\ asked' = asked
    BY DEF ReadAnswer
  <1>2. PICK k \in 1..Len(Framed(n)) :
          /\ Matches(line[k], t)
          /\ Leave(t, IF line[k] = Frame(t) THEN "own answer" ELSE "other answer")
    BY <1>1
  <1>3. line[k] = Frame(t) /\ Leave(t, "own answer")
    BY <1>0, <1>2, MatchIsOwn
  <1>4. line \in Seq(Frames) /\ Len(line) \in Nat
    <2>1. line \in Seq(Frames)
      BY Parts DEF WireInv
    <2> QED BY <2>1
  <1>5. k \in 1..n /\ k \in 1..Len(line)
    <2>1. CASE buffer = "torn"
      BY <2>1 DEF Framed
    <2>2. CASE buffer # "torn"
      <3>1. Len(Framed(n)) = n
        BY <1>4, <2>2, CutFacts DEF Framed
      <3> QED BY <1>4, <3>1
    <2> QED BY <2>1, <2>2
  <1>6. Frame(t) \in Sent
    <2>1. line[k] \in ToSet(line)
      BY <1>4, <1>5, ToSetFacts
    <2> QED BY <1>3, <2>1 DEF Sent
  <1>7. Single' /\ Sent' \subseteq Sent /\ Frame(t) \notin Sent'
    BY <1>1, <1>3, <1>5, ReadIsSingle
  <1>8. Unsent'
    BY <1>3, <1>7, LeaverWaitsNot, UnsentKept
  <1>9. Channel!Returns(1, "own answer")
    BY <1>0, <1>3, LeaveReturns, Places
  <1>10. Waiting # << >> /\ Head(Waiting) = Frame(t) /\ Spent
    BY <1>0, FirstWaits
  <1>11. Sent' \in SUBSET (Sent \ {Head(Waiting)})
    BY <1>7, <1>10
  <1>12. Channel!Answer
    BY <1>6, <1>9, <1>10, <1>11 DEF Channel!Answer
  <1> QED BY <1>7, <1>8, <1>12 DEF Shown, Channel!Next

\* Every step of a request is one of the channel.
LEMMA StepShown ==
    ASSUME ~SharedMillisecond, Inv, Unsent, Single, NEW t \in Tasks, Step(t)
    PROVE  Shown
  <1>1. CASE Send(t)
    <2>1. /\ ioQueue # << >> /\ ioQueue[1] = t /\ Waits(t) /\ Goto(t, "reading")
          /\ "reading" \in Owning \ {"connecting"}
      BY <1>1, SenderIsFirst, Places DEF Send, Waits
    <2>2. asked' \in {asked, Append(asked, Frame(t))} /\ line' = line
      BY <1>1 DEF Send
    <2>3. asked \in Seq(Frames) /\ Frame(t) \in Frames /\ Frame(t) \notin Sent
      BY <2>1, TaskTypes, Parts DEF WireInv, Unsent, Frame, Frames
    <2>4. /\ ToSet(Append(asked, Frame(t))) = ToSet(asked) \cup {Frame(t)}
          /\ IsInjective(Append(asked, Frame(t)))
      BY <2>3, ToSetFacts, DifferentFacts DEF Single, Sent
    <2>5. Single' /\ Sent' \subseteq Sent \cup {Frame(t)}
      BY <2>2, <2>3, <2>4 DEF Single, Sent
    <2>6. NoneWaits /\ ~Waits(t)'
      BY <2>1, GoerWaitsNot
    <2>7. Unsent'
      BY <2>5, <2>6, UnsentKept
    <2>8. Channel!Send
      BY <2>1, <2>5, SendStep
    <2> QED BY <2>5, <2>7, <2>8 DEF Shown, Channel!Next
  <1>2. CASE ConnectLazily(t)
    <2>1. /\ ioQueue # << >> /\ ioQueue[1] = t /\ pc[t] = "queued"
          /\ Goto(t, "connecting") /\ "connecting" \in Owning
      BY <1>2, SenderIsFirst, Places DEF ConnectLazily
    <2>2. Waiting' = Waiting /\ outcome' = outcome /\ Spent' = FALSE
      BY <2>1, GotoGoesOn
    <2>3. ~Spent
      BY <2>1, FirstWaits
    <2>4. Spent' = Spent
      BY <2>2, <2>3 DEF Spent
    <2>5. Sent' = Sent /\ Single'
      BY <1>2 DEF ConnectLazily, Sent, Single, wire
    <2>6. NoneWaits
      BY <2>1, GoerWaitsNot
    <2>7. Unsent'
      BY <2>5, <2>6, UnsentKept
    <2> QED BY <2>2, <2>4, <2>5, <2>7 DEF Shown
  <1>3. CASE ConnectAndSend(t)
    <2>1. /\ ioQueue # << >> /\ ioQueue[1] = t /\ Waits(t) /\ Goto(t, "reading")
          /\ "reading" \in Owning \ {"connecting"}
          /\ Connected(<<Frame(t)>>)
      BY <1>3, OwnerIsFirst, Places DEF ConnectAndSend, Waits
    <2>2. Single' /\ Sent' \subseteq Sent \cup {Frame(t)}
      BY <2>1, ConnectedIsSingle
    <2>3. NoneWaits /\ ~Waits(t)'
      BY <2>1, GoerWaitsNot
    <2>4. Unsent'
      BY <2>2, <2>3, UnsentKept
    <2>5. Channel!Send
      BY <2>1, <2>2, SendStep
    <2> QED BY <2>2, <2>4, <2>5 DEF Shown, Channel!Next
  <1>4. CASE ConnectFails(t)
    BY <1>4, ConnectionErrorShown, Places DEF ConnectFails
  <1>5. CASE ReadAnswer(t)
    BY <1>5, ReadAnswerShown
  <1>6. CASE ReadOn(t)
    <2>1. Waiting' = Waiting /\ Spent' = Spent /\ outcome' = outcome /\ NoneWaits
      BY <1>6, SameRequests DEF ReadOn
    <2>2. PICK n \in 0..Len(line) : line' = SubSeq(line, n + 1, Len(line)) /\ asked' = asked
      BY <1>6 DEF ReadOn
    <2>3. Single' /\ Sent' \subseteq Sent
      BY <2>2, ReadIsSingle
    <2>4. Unsent'
      BY <2>1, <2>3, UnsentKept
    <2>5. Channel!Lose
      BY <2>1, <2>3, LoseStep
    <2> QED BY <2>3, <2>4, <2>5 DEF Shown, Channel!Next
  <1>7. CASE ReadFails(t)
    BY <1>7, ConnectionErrorShown, Places DEF ReadFails
  <1>8. CASE ReadTimesOut(t)
    BY <1>8, ReadTimeoutShown DEF ReadTimesOut
  <1>9. ASSUME pc[t] \in Owning, Leave(t, "none"), Single', Sent' = {}
        PROVE  Shown
    <2>1. Channel!GiveUp
      BY <1>9, GiveUpStep
    <2>2. NoneWaits
      BY <1>9, LeaverWaitsNot
    <2>3. Unsent'
      BY <1>9, <2>2, UnsentKept
    <2> QED BY <1>9, <2>1, <2>3 DEF Shown, Channel!Next
  <1>10. CASE CloseEnds(t)
    <2>1. pc[t] \in Owning /\ Leave(t, "none") /\ Cut("none")
      BY <1>10, Places DEF CloseEnds, Recycled
    <2> QED BY <1>9, <2>1, CutIsSingle
  <1>11. CASE CooldownEnds(t)
    <2>1. /\ pc[t] = "cooldown" /\ pc[t] \in Owning
          /\ ioQueue # << >> /\ ioQueue[1] = t
          /\ Goto(t, "reconnecting") /\ "reconnecting" \in Owning \ {"connecting"}
          /\ Cut("none")
      BY <1>11, OwnerIsFirst, Places DEF CooldownEnds
    <2>2. Waiting' = Waiting /\ outcome' = outcome /\ Spent' = TRUE
      BY <2>1, GotoGoesOn
    <2>3. Spent
      BY <2>1, FirstWaits
    <2>4. Spent' = Spent
      BY <2>2, <2>3 DEF Spent
    <2>5. Single' /\ Sent' = {}
      BY <2>1, CutIsSingle
    <2>6. NoneWaits
      BY <2>1, GoerWaitsNot
    <2>7. Unsent'
      BY <2>5, <2>6, UnsentKept
    <2>8. Channel!Lose
      BY <2>2, <2>4, <2>5, LoseStep
    <2> QED BY <2>5, <2>7, <2>8 DEF Shown, Channel!Next
  <1>12. CASE Reconnects(t)
    <2>1. pc[t] \in Owning /\ Leave(t, "none") /\ Connected(<< >>)
      BY <1>12, Places DEF Reconnects
    <2>2. Single' /\ Sent' = {}
      BY <2>1, ConnectedIsSingle
    <2> QED BY <1>9, <2>1, <2>2
  <1>13. CASE ReconnectFails(t)
    <2>1. pc[t] \in Owning /\ Leave(t, "none") /\ UNCHANGED wire
      BY <1>13, Places DEF ReconnectFails
    <2>2. Sent' = Sent /\ Single'
      BY <2>1 DEF Sent, Single, wire
    <2>3. Channel!GiveUp
      BY <2>1, <2>2, GiveUpStep
    <2>4. NoneWaits
      BY <2>1, LeaverWaitsNot
    <2>5. Unsent'
      BY <2>2, <2>4, UnsentKept
    <2> QED BY <2>2, <2>3, <2>5 DEF Shown, Channel!Next
  <1> QED BY <1>1, <1>2, <1>3, <1>4, <1>5, <1>6, <1>7, <1>8, <1>10, <1>11, <1>12, <1>13 DEF Step

\* What device and network do to the wire: answers are given, or things get lost.
LEMMA EnvironmentShown ==
    ASSUME Inv, Unsent, Single, Environment
    PROVE  Shown
  <1>1. Waiting' = Waiting /\ Spent' = Spent /\ outcome' = outcome /\ NoneWaits
    BY SameRequests DEF Environment, DeviceAnswers, DeviceIgnores, SocketBreaks, DeviceCloses,
                        DeadSocketEnds, DeviceGoes, DeviceReturns
  <1>2. /\ asked \in Seq(Frames) /\ line \in Seq(Frames)
        /\ IsInjective(asked) /\ IsInjective(line)
    BY Parts DEF WireInv, Single
  <1>3. Single' /\ Sent' \subseteq Sent
    <2>1. CASE asked # << >> /\ asked' = Tail(asked) /\ line' \in {line, Append(line, Head(asked))}
      <3>1. /\ IsInjective(asked')
            /\ Head(asked) \notin ToSet(asked')
            /\ ToSet(asked') \subseteq ToSet(asked)
            /\ Head(asked) \in ToSet(asked)
        BY <1>2, <2>1, DifferentFacts, ToSetFacts
      <3>2. Head(asked) \in Frames /\ Head(asked) \notin ToSet(line)
        BY <1>2, <2>1, <3>1, TailFacts DEF Single
      <3>3. /\ ToSet(Append(line, Head(asked))) = ToSet(line) \cup {Head(asked)}
            /\ IsInjective(Append(line, Head(asked)))
        BY <1>2, <3>2, DifferentFacts, ToSetFacts
      <3> QED BY <1>2, <2>1, <3>1, <3>2, <3>3 DEF Single, Sent
    <2>2. CASE \E to : Cut(to)
      BY <2>2, CutIsSingle
    <2>3. CASE UNCHANGED wire
      BY <2>3 DEF Single, Sent, wire
    <2>4. CASE asked' = << >> /\ \E n \in 0..Len(line) : line' = SubSeq(line, 1, n)
      <3>1. IsInjective(line') /\ ToSet(line') \subseteq ToSet(line)
        BY <1>2, <2>4, DifferentCuts, CutFacts
      <3>2. IsInjective(asked') /\ ToSet(asked') = {}
        BY <2>4, DifferentShort, ShortSequences
      <3> QED BY <3>1, <3>2 DEF Single, Sent
    <2>5. CASE asked' = asked /\ line' = << >>
      <3>1. IsInjective(line') /\ ToSet(line') = {}
        BY <2>5, DifferentShort, ShortSequences
      <3> QED BY <2>5, <3>1 DEF Single, Sent
    <2>6. \/ DeviceAnswers \/ DeviceIgnores \/ SocketBreaks \/ DeviceCloses
          \/ DeadSocketEnds \/ DeviceGoes \/ DeviceReturns
      BY DEF Environment
    <2> QED BY <2>1, <2>2, <2>3, <2>4, <2>5, <2>6
            DEF DeviceAnswers, DeviceIgnores, SocketBreaks, DeviceCloses, DeadSocketEnds,
                DeviceGoes, DeviceReturns
  <1>4. Unsent'
    BY <1>1, <1>3, UnsentKept
  <1>5. Channel!Lose
    BY <1>1, <1>3, LoseStep
  <1> QED BY <1>3, <1>4, <1>5 DEF Shown, Channel!Next

\* What other clients do to the wire: things get lost.
LEMMA OthersShown ==
    ASSUME Inv, Unsent, Single, OtherClients
    PROVE  Shown
  <1>1. Waiting' = Waiting /\ Spent' = Spent /\ outcome' = outcome /\ NoneWaits
    BY SameRequests DEF OtherClients, SetUpAgain, ProbeConnects, ProbeCloses
  <1>2. Single' /\ Sent' = {}
    BY AsyncConnectKeeps, CutIsSingle DEF OtherClients, SetUpAgain, ProbeConnects, ProbeCloses
  <1>3. Unsent'
    BY <1>1, <1>2, UnsentKept
  <1>4. Channel!Lose
    BY <1>1, <1>2, LoseStep
  <1> QED BY <1>2, <1>3, <1>4 DEF Shown, Channel!Next

\* Every step of the client is one of the channel, or shows nothing of it.
LEMMA NextShown ==
    ASSUME ~SharedMillisecond, Inv, Unsent, Single, [Next]_vars
    PROVE  Shown
  <1>1. ASSUME NEW t \in Tasks, AnswerIsLate(t) PROVE Shown
    BY <1>1, ReadTimeoutShown DEF AnswerIsLate
  <1>2. ASSUME NEW t \in Tasks, Cancel(t) PROVE Shown
    <2>1. Leave(t, "cancelled") /\ UNCHANGED wire
      BY <1>2 DEF Cancel
    <2>2. Sent' = Sent /\ Single'
      BY <2>1 DEF Sent, Single, wire
    <2>3. NoneWaits
      BY <2>1, LeaverWaitsNot
    <2>4. Unsent'
      BY <2>2, <2>3, UnsentKept
    <2>5. PICK n \in 1..Len(Waiting) : Channel!Returns(n, "cancelled")
      BY <2>1, LeaveReturns, Places
    <2>6. Channel!Withdraw
      BY <2>2, <2>5 DEF Channel!Withdraw
    <2> QED BY <2>2, <2>4, <2>6 DEF Shown, Channel!Next
  <1>3. CASE UNCHANGED vars
    <2>1. Waiting' = Waiting /\ Spent' = Spent /\ outcome' = outcome /\ NoneWaits
      BY <1>3, SameRequests DEF vars
    <2>2. Sent' = Sent /\ Single'
      BY <1>3 DEF vars, wire, Sent, Single
    <2>3. Unsent'
      BY <2>1, <2>2, UnsentKept
    <2> QED BY <2>1, <2>2, <2>3 DEF Shown
  <1> QED BY <1>1, <1>2, <1>3, RequestShown, StepShown, EnvironmentShown, OthersShown DEF Next

\* At setup there are no requests.
LEMMA InitShown == Init => Channel!Init /\ Unsent /\ Single
  <1> SUFFICES ASSUME Init PROVE Channel!Init /\ Unsent /\ Single
    OBVIOUS
  <1>1. ioQueue = << >> /\ asked = << >> /\ line = << >> /\ outcome = [t \in Tasks |-> "pending"]
    BY DEF Init
  <1>2. Sent = {} /\ Single
    BY <1>1, ShortSequences, DifferentShort DEF Sent, Single
  <1>3. Waiting = << >>
    BY <1>1 DEF Waiting
  <1>4. Spent = FALSE
    BY <1>1 DEF Spent
  <1> QED BY <1>1, <1>2, <1>3, <1>4 DEF Channel!Init, Unsent

-----------------------------------------------------------------------------
(* The theorems. *)

\* The client's variables keep their types, and no cooldown exceeds max_cooldown.
THEOREM ClientTypeCorrect == Spec => []TypeOK
  <1>1. Inv => TypeOK
    BY DEF Inv
  <1> QED BY <1>1, Invariance, PTL

\* No two tasks use the stream of the one socket at once, however requests
\* end, time out or are cancelled.
THEOREM RequestsExclude == Spec => []OneRequestAtATime
  BY Excludes, Invariance, PTL

\* Every answer that request() returns is the answer to that very request,
\* unless two requests share a millisecond and with it a msgId.
THEOREM AnswersAreOwn ==
    ASSUME ~SharedMillisecond
    PROVE  Spec => []OwnAnswer
  <1>1. Inv => OwnAnswer
    BY DEF Inv, AnswersRight
  <1> QED BY <1>1, Invariance, PTL

\* Without an answer, a setup or a probe between them no wait is shorter than the
\* one before, whatever the streak, the base and the maximum: reconnecting alone
\* restarts nothing.
THEOREM BackoffEscalates == Spec => BackoffOnlyEscalates
  <1>1. Init => Inv /\ Escalating
    BY InitInv, EscalatesFirst
  <1>2. Inv /\ Escalating /\ [Next]_vars => (Inv /\ Escalating)'
    BY NextInv, BackoffKeeps
  <1>3. Inv /\ Escalating /\ [Next]_vars =>
            [cooldown' < cooldown =>
                (\E t \in Tasks : Answered(t)) \/ SetUpAgain \/ ProbeConnects]_vars
    BY BackoffKeeps DEF MayEnd
  <1> QED BY <1>1, <1>2, <1>3, PTL DEF Spec, BackoffOnlyEscalates

\* The client is a channel that takes requests in turn, sends each at most once
\* and gives each its own answer or none, whatever device and network do,
\* unless two requests share a millisecond.
THEOREM ClientImplementsChannel ==
    ASSUME ~SharedMillisecond
    PROVE  Spec => ImplementsChannel
  <1> DEFINE CInv == Inv /\ Unsent /\ Single
  <1>1. Init => CInv /\ Channel!Init
    BY InitInv, InitShown
  <1>2. CInv /\ [Next]_vars => CInv' /\ [Channel!Next]_(Channel!vars)
    BY NextInv, NextShown DEF Shown, Channel!vars
  <1> QED BY <1>1, <1>2, PTL DEF Spec, ImplementsChannel, Channel!Spec

=============================================================================
