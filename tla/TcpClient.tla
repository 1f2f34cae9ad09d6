------------------------------ MODULE TcpClient ------------------------------
(***************************************************************************)
(* The request channel to the battery (tcp_client.py over tcp_manager.py): *)
(* requests queue for the io_lock, are written to the one socket, and are  *)
(* matched with their answers on msgId.  Late answers, half-read frames,   *)
(* dead sockets and refused connections are what it must get over.  Each   *)
(* step is the code between two awaits.  The device is external.           *)
(***************************************************************************)
EXTENDS Integers, Sequences, SequencesExt

CONSTANTS
    Tasks,          \* tasks of the event loop that make requests
    Poll,           \* the one of them that never stops making them
    MsgIds,         \* as many msgIds as can be around at once
    SharedMillisecond,  \* two requests may be built in the same millisecond
    SuspectAfter,   \* READ_TIMEOUT_SUSPECT_THRESHOLD
    BaseCooldown,   \* base_cooldown in seconds
    MaxCooldown,    \* max_cooldown in seconds
    MaxExponent,    \* largest power of two that converts to a float (1023)
    FailureBound,   \* bound on the failure streak, where it stops counting
    MaxFaults,      \* bound on the faults of network and device, and on probes
    MaxAbandoned    \* bound on requests still at the device when one is cancelled

ASSUME ClientAssumption ==
    /\ Poll \in Tasks
    /\ MsgIds \subseteq Nat /\ MsgIds # {}
    /\ SharedMillisecond \in BOOLEAN
    /\ SuspectAfter \in Nat \ {0}
    /\ BaseCooldown \in Nat \ {0}
    /\ MaxCooldown \in Nat /\ MaxCooldown >= BaseCooldown
    /\ MaxExponent \in Nat
    /\ FailureBound \in Nat
    /\ MaxFaults \in Nat
    /\ MaxAbandoned \in Nat

VARIABLES
    pc,             \* where each task is in request()
    msgId,          \* the msgId of its latest request
    outcome,        \* history: how its latest request ended
    ioQueue,        \* owner, then waiters, of _io_lock
    buffer,         \* _buffer: "empty", "half" a frame, or "torn": a half without an end
    streak,         \* _read_timeout_streak
    failures,       \* _consecutive_failures of the manager
    cooldown,       \* history: the last cooldown since the last note_success, or 0
    conn,           \* the socket of the manager
    asked,          \* requests the device has and may still answer
    line,           \* answers under way; of the first, half may be in buffer
    device,         \* what the device does with a new connection
    faults          \* faults so far

taskVars   == <<pc, msgId, outcome, ioQueue>>
clientVars == <<buffer, streak>>
backoff    == <<failures, cooldown>>
wire       == <<conn, asked, line>>
world      == <<device, faults>>
vars       == <<taskVars, clientVars, backoff, wire, world>>

Owning   == {"connecting", "reading", "closing", "cooldown", "reconnecting"}
PCs      == {"idle", "queued"} \cup Owning
Outcomes == {"pending", "own answer", "other answer", "none", "raised", "cancelled"}

\* "mute": nothing comes any more.  "eof": the device has closed its side.
\* The writer is closing in the last two: after a reset, or after ETIMEDOUT.
Conns      == {"none", "open", "mute", "eof", "lost", "expired"}
Usable     == {"open", "mute", "eof"}
DeviceModes == {"serving", "starving", "off"}

Frame(t) == [by |-> t, msgId |-> msgId[t]]
Frames   == [by : Tasks, msgId : MsgIds]

Init ==
    /\ pc = [t \in Tasks |-> "idle"]
    /\ msgId = [t \in Tasks |-> CHOOSE i \in MsgIds : TRUE]     \* none yet
    /\ outcome = [t \in Tasks |-> "pending"]
    /\ ioQueue = <<>>
    /\ buffer = "empty"
    /\ streak = 0
    /\ failures = 0
    /\ cooldown = 0
    /\ conn = "open"                    \* async_connect, at setup
    /\ asked = <<>>
    /\ line = <<>>
    /\ device = "serving"
    /\ faults = 0

-----------------------------------------------------------------------------
(* The io_lock: asyncio wakes its waiters first in, first out.             *)

\* Mutant: without the lock every waiter goes on at once.
AnyWaiter(t) == t \in ToSet(ioQueue)

Owner(t) == ioQueue # <<>> /\ Head(ioQueue) = t

\* The task leaves `async with self._io_lock`, as owner or as waiter.
Leave(t, result) ==
    /\ pc' = [pc EXCEPT ![t] = "idle"]
    /\ outcome' = [outcome EXCEPT ![t] = result]
    /\ \E i \in 1..Len(ioQueue) : ioQueue[i] = t /\ ioQueue' = RemoveAt(ioQueue, i)
    /\ UNCHANGED msgId

Goto(t, where) ==
    /\ pc' = [pc EXCEPT ![t] = where]
    /\ UNCHANGED <<msgId, outcome, ioQueue>>

(* A msgId is the millisecond in which its request was built: a new one,   *)
(* unlike all that are around in waiting requests and in answers that may  *)
(* yet come, or the one of the request built just before it.               *)
Around ==
    {msgId[t] : t \in {u \in Tasks : pc[u] # "idle"}}
        \cup {f.msgId : f \in ToSet(asked) \cup ToSet(line)}

IsNext(i) == i \in MsgIds \ Around /\ \A k \in MsgIds \ Around : i <= k

IsSame(i) ==
    /\ SharedMillisecond
    /\ ioQueue # <<>>
    /\ pc[Last(ioQueue)] = "queued" /\ msgId[Last(ioQueue)] = i

\* request() up to the lock: the message is built before it waits.
Request(t) ==
    /\ pc[t] = "idle"
    /\ \E i \in {k \in MsgIds : IsNext(k) \/ IsSame(k)} : msgId' = [msgId EXCEPT ![t] = i]
    /\ pc' = [pc EXCEPT ![t] = "queued"]
    /\ outcome' = [outcome EXCEPT ![t] = "pending"]
    /\ ioQueue' = Append(ioQueue, t)
    /\ UNCHANGED <<clientVars, backoff, wire, world>>

-----------------------------------------------------------------------------
(* The socket.                                                             *)

\* What is left of the buffer when the stream it came from is gone.
Torn == IF buffer = "half" THEN "torn" ELSE buffer

\* The socket goes: nothing that was under way will come.
Cut(to) ==
    /\ conn' = to
    /\ asked' = <<>>
    /\ line' = <<>>

\* open_connection() gives a new stream, and the device takes it or starves it.
Connected(requests) ==
    /\ device # "off"
    /\ conn' = IF device = "serving" THEN "open" ELSE "mute"
    /\ asked' = IF device = "serving" THEN requests ELSE <<>>
    /\ line' = <<>>

\* A fault is what network or device do of themselves, and not for ever.
Fault == faults < MaxFaults /\ faults' = faults + 1

\* The connect fails or times out: the device is off, or the network has a fault.
NotConnected ==
    \/ device = "off" /\ UNCHANGED faults
    \/ device # "off" /\ Fault

-----------------------------------------------------------------------------
(* Failure handling.                                                       *)

Saturation == CHOOSE k \in 0..MaxCooldown : BaseCooldown * 2^k >= MaxCooldown

\* Mutant: the cooldown is not capped.
UncappedCooldown(n) == BaseCooldown * 2^n

\* _cooldown_for: min(base * 2**n, max), with no power computed beyond Saturation
CooldownFor(n) ==
    IF n < Saturation /\ BaseCooldown * 2^n <= MaxCooldown
      THEN BaseCooldown * 2^n
      ELSE MaxCooldown

\* note_failure
NoteFailure == failures' = IF failures < FailureBound THEN failures + 1 ELSE failures

\* note_success
NoteSuccess == failures' = 0 /\ cooldown' = 0

\* _handle_connection_error up to its sleep; the cooldown is computed first,
\* and a power of two that no float holds raises out of request().
ConnectionError(t) ==
    /\ buffer' = "empty"
    /\ UNCHANGED streak
    /\ IF failures > MaxExponent
         THEN Leave(t, "raised") /\ UNCHANGED backoff
         ELSE Goto(t, "cooldown") /\ NoteFailure /\ cooldown' = CooldownFor(failures)

\* Mutant: recycling keeps the buffer.
RecycledWithBuffer(t) ==
    /\ Leave(t, "none")
    /\ streak' = 0
    /\ UNCHANGED buffer

\* The end of a recycling: close() is over, the buffer and the streak start anew.
Recycled(t) ==
    /\ Leave(t, "none")
    /\ buffer' = "empty"
    /\ streak' = 0

\* _handle_read_timeout up to the end of close(), which awaits only if the
\* writer was not closing before.
ReadTimeout(t) ==
    /\ UNCHANGED backoff
    /\ \/ /\ streak + 1 < SuspectAfter
          /\ streak' = streak + 1
          /\ Leave(t, "none")
          /\ UNCHANGED <<buffer, wire>>
       \/ /\ streak + 1 >= SuspectAfter
          /\ conn \in Usable
          /\ streak' = SuspectAfter        \* it may be above after a cancelled close()
          /\ Goto(t, "closing")
          /\ Cut("lost")
          /\ buffer' = Torn
       \/ /\ streak + 1 >= SuspectAfter
          /\ conn \notin Usable
          /\ Cut("none")
          /\ Recycled(t)

-----------------------------------------------------------------------------
(* The steps of a request that owns the lock.                              *)

\* get_reader_writer, then write and drain
Send(t) ==
    /\ pc[t] = "queued" /\ Owner(t)
    /\ conn \in Usable
    /\ asked' = IF conn = "open" THEN Append(asked, Frame(t)) ELSE asked
    /\ Goto(t, "reading")
    /\ UNCHANGED <<clientVars, backoff, conn, line, world>>

\* get_reader_writer finds no writer, or one that is closing
ConnectLazily(t) ==
    /\ pc[t] = "queued" /\ Owner(t)
    /\ conn \notin Usable
    /\ Goto(t, "connecting")
    /\ UNCHANGED <<clientVars, backoff, wire, world>>

ConnectAndSend(t) ==
    /\ pc[t] = "connecting"
    /\ Connected(<<Frame(t)>>)
    /\ Goto(t, "reading")
    /\ UNCHANGED <<clientVars, backoff, world>>

ConnectFails(t) ==
    /\ pc[t] = "connecting"
    /\ NotConnected
    /\ ConnectionError(t)
    /\ UNCHANGED <<wire, device>>

\* Mutant: the first frame is taken for the answer.
AnyFrame(f, t) == TRUE

Matches(f, t) == f.msgId = msgId[t]

\* A chunk brings n whole frames, the first of them perhaps begun in the
\* buffer, and perhaps half of another.
Chunk(n, half) ==
    /\ n \in 0..Len(line)
    /\ half => n < Len(line)
    /\ n > 0 \/ (half /\ buffer = "empty")

\* extract_frames: braces of a frame that never ends swallow all that follows.
Framed(n) == IF buffer = "torn" THEN <<>> ELSE SubSeq(line, 1, n)

Rest(half) ==
    CASE buffer = "torn" -> "torn"
      [] buffer # "torn" /\ half  -> "half"
      [] OTHER -> "empty"

\* _read_response returns the first frame with its msgId; what else was read
\* with it is dropped.
ReadAnswer(t) ==
    /\ pc[t] = "reading"
    /\ \E n \in 0..Len(line), half \in BOOLEAN :
         /\ Chunk(n, half)
         /\ \E k \in 1..Len(Framed(n)) :
              /\ Matches(line[k], t)
              /\ \A j \in 1..(k - 1) : ~Matches(line[j], t)
              /\ Leave(t, IF line[k] = Frame(t) THEN "own answer" ELSE "other answer")
         /\ line' = SubSeq(line, n + 1, Len(line))
         /\ buffer' = Rest(half)
    /\ NoteSuccess
    /\ streak' = 0
    /\ UNCHANGED <<conn, asked, world>>

\* It reads on while none of the frames is its answer.
ReadOn(t) ==
    /\ pc[t] = "reading"
    /\ \E n \in 0..Len(line), half \in BOOLEAN :
         /\ Chunk(n, half)
         /\ \A k \in 1..Len(Framed(n)) : ~Matches(line[k], t)
         /\ line' = SubSeq(line, n + 1, Len(line))
         /\ buffer' = Rest(half)
    /\ UNCHANGED <<taskVars, streak, backoff, conn, asked, world>>

\* read() returns b"", as it does after close(), or raises the error of a reset.
ReadFails(t) ==
    /\ pc[t] = "reading"
    /\ \/ conn = "eof" /\ line = <<>>
       \/ conn \in {"lost", "none"}
    /\ ConnectionError(t)
    /\ UNCHANGED <<wire, world>>

\* Mutant: a read has no timeout of its own.
OnlySocketTimesOut(t) ==
    /\ pc[t] = "reading"
    /\ conn = "expired"
    /\ ReadTimeout(t)
    /\ UNCHANGED world

\* The timeout ends a read for which nothing more comes.  ETIMEDOUT of the
\* socket is a TimeoutError as well and ends it at once.
ReadTimesOut(t) ==
    /\ pc[t] = "reading"
    /\ \/ conn \in {"open", "mute"} /\ asked = <<>> /\ line = <<>>
       \/ conn = "expired"
    /\ ReadTimeout(t)
    /\ UNCHANGED world

\* An answer is so late that the timeout ends the read before it comes.
AnswerIsLate(t) ==
    /\ pc[t] = "reading" /\ conn = "open"
    /\ asked \o line # <<>>
    /\ Fault
    /\ ReadTimeout(t)
    /\ UNCHANGED device

CloseEnds(t) ==
    /\ pc[t] = "closing"
    /\ Cut("none")
    /\ Recycled(t)
    /\ UNCHANGED <<backoff, world>>

\* reconnect() closes what is there, before it connects.
CooldownEnds(t) ==
    /\ pc[t] = "cooldown"
    /\ Goto(t, "reconnecting")
    /\ Cut("none")
    /\ UNCHANGED <<clientVars, backoff, world>>

\* Mutant: a reconnect that succeeds starts the backoff anew.
ReconnectsAfresh(t) ==
    /\ pc[t] = "reconnecting"
    /\ Connected(<<>>)
    /\ Leave(t, "none")
    /\ failures' = 0
    /\ UNCHANGED <<clientVars, cooldown, world>>

\* Mutant: a request that failed is sent once more on the new stream.
ReconnectsResending(t) ==
    /\ pc[t] = "reconnecting"
    /\ Connected(<<Frame(t)>>)
    /\ Goto(t, "reading")
    /\ UNCHANGED <<clientVars, backoff, world>>

Reconnects(t) ==
    /\ pc[t] = "reconnecting"
    /\ Connected(<<>>)
    /\ Leave(t, "none")
    /\ UNCHANGED <<clientVars, backoff, world>>

ReconnectFails(t) ==
    /\ pc[t] = "reconnecting"
    /\ NotConnected
    /\ Leave(t, "none")
    /\ UNCHANGED <<clientVars, backoff, wire, device>>

\* The task of a service call may be cancelled wherever it waits.
Cancel(t) ==
    /\ t # Poll
    /\ pc[t] # "idle"
    /\ pc[t] = "reading" => Len(asked) + Len(line) <= MaxAbandoned
    /\ Leave(t, "cancelled")
    /\ UNCHANGED <<clientVars, backoff, wire, world>>

-----------------------------------------------------------------------------
(* The device and the network.                                             *)

DeviceAnswers ==
    /\ conn = "open" /\ asked # <<>>
    /\ line' = Append(line, Head(asked))
    /\ asked' = Tail(asked)
    /\ UNCHANGED <<taskVars, clientVars, backoff, conn, world>>

DeviceIgnores ==
    /\ conn = "open" /\ asked # <<>>
    /\ asked' = Tail(asked)
    /\ Fault
    /\ UNCHANGED <<taskVars, clientVars, backoff, conn, line, device>>

\* The socket stays but nothing comes any more, or it is reset.
SocketBreaks ==
    /\ conn = "open"
    /\ \E to \in {"mute", "lost"} : Cut(to)
    /\ buffer' = Torn
    /\ Fault
    /\ UNCHANGED <<taskVars, streak, backoff, device>>

\* The device closes its side; what it sent before may still arrive.
DeviceCloses ==
    /\ conn = "open"
    /\ conn' = "eof"
    /\ asked' = <<>>
    /\ \E n \in 0..Len(line) :
         /\ line' = SubSeq(line, 1, n)
         /\ buffer' = IF n = 0 THEN Torn ELSE buffer
    /\ Fault
    /\ UNCHANGED <<taskVars, streak, backoff, device>>

\* A mute socket is given up by the kernel (ETIMEDOUT) or reset by the device,
\* one that was closed is reset when it is written to.
DeadSocketEnds ==
    /\ \/ conn = "mute" /\ conn' \in {"lost", "expired"}
       \/ conn = "eof" /\ conn' = "lost"
    /\ line' = <<>>
    /\ buffer' = Torn
    /\ UNCHANGED <<taskVars, streak, backoff, asked, world>>

DeviceGoes ==
    /\ device = "serving"
    /\ \/ /\ device' = "starving"       \* another client has its one connection
          /\ conn # "open"
          /\ UNCHANGED <<buffer, wire>>
       \/ /\ device' = "off"
          /\ IF conn = "open" THEN Cut("mute") /\ buffer' = Torn
                              ELSE UNCHANGED <<buffer, wire>>
    /\ Fault
    /\ UNCHANGED <<taskVars, streak, backoff>>

DeviceReturns ==
    /\ device # "serving"
    /\ device' = "serving"
    /\ UNCHANGED <<taskVars, clientVars, backoff, wire, faults>>

-----------------------------------------------------------------------------
(* Other clients of the manager, which all clients of one address share.   *)

\* async_connect: a new stream in the place of the old, and no failure counts.
AsyncConnect == Connected(<<>>) /\ NoteSuccess

\* A setup that is retried after its first refresh failed has a new client,
\* with a buffer and a streak of its own, over the same manager.
SetUpAgain ==
    /\ ioQueue = <<>> /\ outcome[Poll] \in {"none", "raised"}
    /\ AsyncConnect
    /\ buffer' = "empty"
    /\ streak' = 0
    /\ UNCHANGED <<taskVars, world>>

\* The probe of a config flow connects, while no task reads the older stream.
ProbeConnects ==
    /\ \A t \in Tasks : pc[t] # "reading"
    /\ AsyncConnect
    /\ buffer' = Torn
    /\ Fault
    /\ UNCHANGED <<taskVars, streak, device>>

\* It disconnects, and this also if its connect had failed.
ProbeCloses ==
    /\ Cut("none")
    /\ buffer' = Torn
    /\ Fault
    /\ UNCHANGED <<taskVars, streak, backoff, device>>

-----------------------------------------------------------------------------
\* What the event loop does for a request once it waits: it goes on by itself.
Step(t) ==
    \/ Send(t)
    \/ ConnectLazily(t)
    \/ ConnectAndSend(t)
    \/ ConnectFails(t)
    \/ ReadAnswer(t)
    \/ ReadOn(t)
    \/ ReadFails(t)
    \/ ReadTimesOut(t)
    \/ CloseEnds(t)
    \/ CooldownEnds(t)
    \/ Reconnects(t)
    \/ ReconnectFails(t)

Environment ==
    \/ DeviceAnswers
    \/ DeviceIgnores
    \/ SocketBreaks
    \/ DeviceCloses
    \/ DeadSocketEnds
    \/ DeviceGoes
    \/ DeviceReturns

OtherClients == SetUpAgain \/ ProbeConnects \/ ProbeCloses

Next ==
    \/ \E t \in Tasks :
         \/ Request(t)
         \/ Step(t)
         \/ AnswerIsLate(t)
         \/ Cancel(t)
    \/ Environment
    \/ OtherClients

Spec == Init /\ [][Next]_vars

\* Timers fire and the event loop resumes what is ready; the poll goes on; a
\* device that has a request answers it, and one that went comes back.
Fairness ==
    /\ \A t \in Tasks : WF_vars(Step(t))
    /\ WF_vars(Request(Poll))
    /\ WF_vars(DeviceAnswers)
    /\ WF_vars(DeviceReturns)

LiveSpec == Spec /\ Fairness

-----------------------------------------------------------------------------
(* Refinement: the client implements RequestChannel.                       *)

\* The request that owns the lock has been sent, or its connect has failed.
Spent ==
    /\ ioQueue # <<>>
    /\ pc[Head(ioQueue)] \in {"reading", "closing", "cooldown", "reconnecting"}

Waiting == [i \in 1..Len(ioQueue) |-> Frame(ioQueue[i])]

\* Requests that the device may still answer, and answers that may still come.
Sent == ToSet(asked) \cup ToSet(line)

Channel == INSTANCE RequestChannel WITH
    Users   <- Tasks,
    Ids     <- MsgIds,
    queue   <- Waiting,
    spent   <- Spent,
    transit <- Sent,
    result  <- outcome

-----------------------------------------------------------------------------
(* Properties.                                                             *)

\* The variables have their types; no cooldown exceeds its maximum.
TypeOK ==
    /\ pc \in [Tasks -> PCs]
    /\ msgId \in [Tasks -> MsgIds]
    /\ outcome \in [Tasks -> Outcomes]
    /\ ioQueue \in Seq(Tasks)
    /\ buffer \in {"empty", "half", "torn"}
    /\ streak \in 0..SuspectAfter
    /\ failures \in 0..FailureBound
    /\ cooldown <= MaxCooldown
    /\ conn \in Conns
    /\ asked \in Seq(Frames)
    /\ line \in Seq(Frames)
    /\ device \in DeviceModes
    /\ faults \in 0..MaxFaults

\* One task at a time uses the stream, however requests end or are cancelled:
\* two reads of one StreamReader would fail and mix up the frames.
OneRequestAtATime ==
    \A t, u \in Tasks : pc[t] \in Owning /\ pc[u] \in Owning => t = u

\* What request() returns is the answer to that very request, whatever late
\* answers, half frames and new connections came between; given that no two
\* requests share a millisecond.
OwnAnswer == \A t \in Tasks : outcome[t] # "other answer"

\* Turns are taken in order, each puts its request on the wire at most once - a
\* reconnect re-sends nothing - and an answer goes, once, to the request it
\* answers; given again that no two requests share a millisecond.
ImplementsChannel == Channel!Spec

\* No request raises: every failure ends in None and in the client's own recovery.
ErrorsNeverPropagate == \A t \in Tasks : outcome[t] # "raised"

\* A reading task gets its answer in this step.
Answered(t) ==
    /\ pc[t] = "reading" /\ pc'[t] = "idle"
    /\ outcome'[t] \in {"own answer", "other answer"}

\* Each wait is at least as long as the one before, unless a request was
\* answered between them or another client came: a reconnect that merely
\* succeeds does not start the backoff anew, the async_connect of a setup or
\* of a probe does.
BackoffOnlyEscalates ==
    [][cooldown' < cooldown =>
        (\E t \in Tasks : Answered(t)) \/ SetUpAgain \/ ProbeConnects]_vars

\* Every request returns, and so the tasks behind it in the queue get their turn.
EveryRequestReturns == \A t \in Tasks : pc[t] # "idle" ~> pc[t] = "idle"

\* After the last fault the client gets over whatever is left of it - a mute
\* or half-open socket, a torn frame in the buffer - and every poll is answered.
ServiceResumes == <>[](outcome[Poll] \in {"pending", "own answer"})

=============================================================================
