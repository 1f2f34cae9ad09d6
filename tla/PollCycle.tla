------------------------------ MODULE PollCycle ------------------------------
(***************************************************************************)
(* The poll cycle of the coordinator and the backup output it shows        *)
(* (coordinator.py): a poll reads 22600 and then 22046, a tolerated        *)
(* failure serves the last good frame again, and a call that switched the  *)
(* backup output commits its value to that frame after a readback.  Polls  *)
(* and calls share the lock of the client.  One step is the code between   *)
(* two awaits; a request is one step, taken when it ends.                   *)
(***************************************************************************)
EXTENDS Integers, Sequences, SequencesExt

CONSTANTS
    MaxCalls,       \* bound on the backup calls of one behaviour
    Tolerance,      \* _failure_tolerance
    None            \* no frame yet

ASSUME PollAssumption ==
    /\ MaxCalls \in Nat
    /\ Tolerance \in Nat
    /\ None \notin {0, 1}

VARIABLES
    pc,             \* where the poll and each call are
    want,           \* what each call writes
    writeQueue,     \* owner, then waiters, of _write_lock
    ioQueue,        \* owner, then waiters, of the client's _io_lock
    pausing,        \* calls in the pause before their readback
    frame,          \* the backup value in the answer the poll got to 22600
    shown,          \* data["backup_enabled"]
    lastGood,       \* _last_good_data["backup_enabled"]
    failures,       \* _consecutive_failures
    lastUpdateOk,   \* last_update_success
    backup,         \* the device's backup output
    last,           \* history: the call whose write reached the device last
    settled,        \* history: that write has been committed
    unseen,         \* history: calls that landed since the poll got its frame
    missed          \* history: bad polls since the last good one

queueVars == <<writeQueue, ioQueue, pausing>>
frameVars == <<frame, shown, lastGood>>
pollVars  == <<failures, lastUpdateOk, missed>>
landVars  == <<backup, last, unseen>>
vars      == <<pc, want, queueVars, frameVars, pollVars, landVars, settled>>

Poll  == 0
Calls == 1..MaxCalls
Task  == {Poll} \cup Calls

Returned == {"ok", "failed", "cancelled"}
PollPCs  == {"waiting", "data", "config"}
CallPCs  == {"idle", "queued", "sending", "backoff", "pausing", "readback"} \cup Returned

FailureBound == Tolerance + 1     \* streaks are told apart up to here

TypeOK ==
    /\ pc \in [Task -> PollPCs \cup CallPCs]
    /\ pc[Poll] \in PollPCs
    /\ \A k \in Calls : pc[k] \in CallPCs
    /\ want \in [Calls -> {0, 1}]
    /\ writeQueue \in Seq(Calls)
    /\ ioQueue \in Seq(Task)
    /\ pausing \in Seq(Calls)
    /\ frame \in {0, 1}
    /\ shown \in {0, 1, None}
    /\ lastGood \in {0, 1, None}
    /\ failures \in 0..FailureBound
    /\ lastUpdateOk \in BOOLEAN
    /\ backup \in {0, 1}
    /\ last \in Task
    /\ settled \in BOOLEAN
    /\ unseen \subseteq Calls
    /\ missed \in 0..FailureBound

Init ==
    /\ pc = [t \in Task |-> IF t = Poll THEN "waiting" ELSE "idle"]
    /\ want = [k \in Calls |-> 0]
    /\ writeQueue = << >>
    /\ ioQueue = << >>
    /\ pausing = << >>
    /\ frame = 0
    /\ shown = None
    /\ lastGood = None
    /\ failures = 0
    /\ lastUpdateOk = TRUE
    /\ backup \in {0, 1}
    /\ last = Poll
    /\ settled = FALSE
    /\ unseen = {}
    /\ missed = 0

Counted(n) == IF n < FailureBound THEN n + 1 ELSE n

-----------------------------------------------------------------------------
(* The two locks: a request is under way when its task is first of ioQueue. *)

OnWire(t) == ioQueue # << >> /\ t = Head(ioQueue)

\* Mutant: the lock does not keep the others waiting.
AnyOwner(k) == k \in ToSet(writeQueue)

Owns(k) == writeQueue # << >> /\ k = Head(writeQueue)

Without(queue, t, rest) ==
    \E i \in 1..Len(queue) : queue[i] = t /\ rest = RemoveAt(queue, i)

-----------------------------------------------------------------------------
(* The poll. *)

PollStarts ==
    /\ pc[Poll] = "waiting"
    /\ pc' = [pc EXCEPT ![Poll] = "data"]
    /\ ioQueue' = Append(ioQueue, Poll)
    /\ UNCHANGED <<want, writeQueue, pausing, frameVars, pollVars, landVars, settled>>

\* The frame is there; the poll queues for its second request at once.
PollReads ==
    /\ pc[Poll] = "data"
    /\ OnWire(Poll)
    /\ pc' = [pc EXCEPT ![Poll] = "config"]
    /\ ioQueue' = Append(Tail(ioQueue), Poll)
    /\ frame' = backup
    /\ unseen' = {}
    /\ UNCHANGED <<want, writeQueue, pausing, shown, lastGood, pollVars, backup, last, settled>>

\* Mutant: the streak of failures survives a good poll.
PollSucceedsKeepingStreak ==
    /\ pc[Poll] = "config"
    /\ OnWire(Poll)
    /\ pc' = [pc EXCEPT ![Poll] = "waiting"]
    /\ ioQueue' = Tail(ioQueue)
    /\ shown' = frame
    /\ lastGood' = frame
    /\ missed' = 0
    /\ lastUpdateOk' = TRUE
    /\ UNCHANGED <<want, writeQueue, pausing, frame, failures, landVars, settled>>

\* Mutant: the frame is not kept as the last good one, but for the first.
PollSucceedsKeepingFirst ==
    /\ pc[Poll] = "config"
    /\ OnWire(Poll)
    /\ pc' = [pc EXCEPT ![Poll] = "waiting"]
    /\ ioQueue' = Tail(ioQueue)
    /\ shown' = frame
    /\ lastGood' = IF lastGood = None THEN frame ELSE lastGood
    /\ failures' = 0
    /\ missed' = 0
    /\ lastUpdateOk' = TRUE
    /\ UNCHANGED <<want, writeQueue, pausing, frame, landVars, settled>>

\* Whether 22046 was answered makes no difference to the frame's telemetry.
PollSucceeds ==
    /\ pc[Poll] = "config"
    /\ OnWire(Poll)
    /\ pc' = [pc EXCEPT ![Poll] = "waiting"]
    /\ ioQueue' = Tail(ioQueue)
    /\ shown' = frame
    /\ lastGood' = frame
    /\ failures' = 0
    /\ missed' = 0
    /\ lastUpdateOk' = TRUE
    /\ UNCHANGED <<want, writeQueue, pausing, frame, landVars, settled>>

\* 22600 was not answered.
PollUnanswered ==
    /\ pc[Poll] = "data"
    /\ OnWire(Poll)
    /\ pc' = [pc EXCEPT ![Poll] = "waiting"]
    /\ ioQueue' = Tail(ioQueue)
    /\ missed' = Counted(missed)
    /\ UNCHANGED <<want, writeQueue, pausing, frame, landVars, settled>>

\* Mutant: the last good frame is served for ever.
ToleratedForEver == lastGood # None

Tolerated == lastGood # None /\ failures < Tolerance

\* The last good frame becomes the data again.
FailureTolerated ==
    /\ PollUnanswered
    /\ Tolerated
    /\ failures' = failures + 1
    /\ shown' = lastGood
    /\ lastUpdateOk' = TRUE
    /\ UNCHANGED lastGood

\* UpdateFailed: the data stays, the entities become unavailable.
FailureReported ==
    /\ PollUnanswered
    /\ ~Tolerated
    /\ lastGood # None
    /\ failures' = Counted(failures)
    /\ lastUpdateOk' = FALSE
    /\ UNCHANGED <<shown, lastGood>>

\* The first refresh fails: setup is tried again with a new coordinator.
FirstRefreshFails ==
    /\ PollUnanswered
    /\ lastGood = None
    /\ failures' = 0
    /\ UNCHANGED <<shown, lastGood, lastUpdateOk>>

-----------------------------------------------------------------------------
(* A call of the switch.  Its entity exists after the first good poll and  *)
(* is available while the last poll succeeded; calls are numbered as made.  *)

SetBackup(k, enabled) ==
    /\ pc[k] = "idle"
    /\ \A j \in 1..(k - 1) : pc[j] # "idle"
    /\ shown # None
    /\ lastUpdateOk
    /\ want' = [want EXCEPT ![k] = enabled]
    /\ writeQueue' = Append(writeQueue, k)
    /\ pc' = [pc EXCEPT ![k] = IF writeQueue = << >> THEN "sending" ELSE "queued"]
    /\ ioQueue' = IF writeQueue = << >> THEN Append(ioQueue, k) ELSE ioQueue
    /\ UNCHANGED <<pausing, frameVars, pollVars, landVars, settled>>

Acquire(k) ==
    /\ pc[k] = "queued"
    /\ Owns(k)
    /\ pc' = [pc EXCEPT ![k] = "sending"]
    /\ ioQueue' = Append(ioQueue, k)
    /\ UNCHANGED <<want, writeQueue, pausing, frameVars, pollVars, landVars, settled>>

\* The device executes the write of call k.
Land(k) ==
    /\ backup' = want[k]
    /\ last' = k
    /\ settled' = FALSE
    /\ unseen' = unseen \cup {k}

Answered(k) ==
    /\ pc[k] = "sending"
    /\ Owns(k) /\ OnWire(k)
    /\ Land(k)
    /\ writeQueue' = Tail(writeQueue)
    /\ ioQueue' = Tail(ioQueue)
    /\ pc' = [pc EXCEPT ![k] = "pausing"]
    /\ pausing' = Append(pausing, k)
    /\ UNCHANGED <<want, frameVars, pollVars>>

\* The request or its answer is lost.  The write is re-sent after a pause
\* with the lock held, or the call gives up.
Unanswered(k) ==
    /\ pc[k] = "sending"
    /\ Owns(k) /\ OnWire(k)
    /\ Land(k) \/ UNCHANGED <<landVars, settled>>
    /\ ioQueue' = Tail(ioQueue)
    /\ \/ /\ pc' = [pc EXCEPT ![k] = "backoff"]
          /\ UNCHANGED writeQueue
       \/ /\ pc' = [pc EXCEPT ![k] = "failed"]
          /\ writeQueue' = Tail(writeQueue)
    /\ UNCHANGED <<want, pausing, frameVars, pollVars>>

Resend(k) ==
    /\ pc[k] = "backoff"
    /\ pc' = [pc EXCEPT ![k] = "sending"]
    /\ ioQueue' = Append(ioQueue, k)
    /\ UNCHANGED <<want, writeQueue, pausing, frameVars, pollVars, landVars, settled>>

\* The pause is equally long for all, so it ends in the order it began.
Readback(k) ==
    /\ pausing # << >>
    /\ k = Head(pausing)
    /\ pc' = [pc EXCEPT ![k] = "readback"]
    /\ pausing' = Tail(pausing)
    /\ ioQueue' = Append(ioQueue, k)
    /\ UNCHANGED <<want, writeQueue, frameVars, pollVars, landVars, settled>>

\* Mutant: the value goes into a copy of the last good frame.
CommitToCopy(k) ==
    /\ pc[k] = "readback"
    /\ OnWire(k)
    /\ pc' = [pc EXCEPT ![k] = "ok"]
    /\ ioQueue' = Tail(ioQueue)
    /\ shown' = want[k]
    /\ settled' = (settled \/ last = k)
    /\ UNCHANGED <<want, writeQueue, pausing, frame, lastGood, pollVars, landVars>>

\* The readback ended, answered or not: it only warns.  The value is put into
\* self.data, which is the same dictionary as the last good frame.
Commit(k) ==
    /\ pc[k] = "readback"
    /\ OnWire(k)
    /\ pc' = [pc EXCEPT ![k] = "ok"]
    /\ ioQueue' = Tail(ioQueue)
    /\ shown' = want[k]
    /\ lastGood' = want[k]
    /\ settled' = (settled \/ last = k)
    /\ UNCHANGED <<want, writeQueue, pausing, frame, pollVars, landVars>>

-----------------------------------------------------------------------------
(* The caller is cancelled; a request on the wire may have landed. *)

CancelWrite(k) ==
    /\ Without(writeQueue, k, writeQueue')
    /\ \/ /\ pc[k] = "sending"
          /\ Without(ioQueue, k, ioQueue')
          /\ \/ OnWire(k) /\ Land(k)
             \/ UNCHANGED <<landVars, settled>>
       \/ /\ pc[k] \in {"queued", "backoff"}
          /\ UNCHANGED <<ioQueue, landVars, settled>>
    /\ pc' = [pc EXCEPT ![k] = "cancelled"]
    /\ UNCHANGED <<want, pausing, frameVars, pollVars>>

CancelReadback(k) ==
    /\ \/ Without(pausing, k, pausing') /\ UNCHANGED ioQueue
       \/ /\ pc[k] = "readback"
          /\ Without(ioQueue, k, ioQueue')
          /\ UNCHANGED pausing
    /\ pc' = [pc EXCEPT ![k] = "cancelled"]
    /\ UNCHANGED <<want, writeQueue, frameVars, pollVars, landVars, settled>>

-----------------------------------------------------------------------------
Polling ==
    \/ PollStarts
    \/ PollReads
    \/ PollSucceeds
    \/ FailureTolerated
    \/ FailureReported
    \/ FirstRefreshFails

Writing(k) == Acquire(k) \/ Answered(k) \/ Unanswered(k) \/ Resend(k) \/ Readback(k) \/ Commit(k)

Calling(k) == (\E enabled \in {0, 1} : SetBackup(k, enabled)) \/ CancelWrite(k) \/ CancelReadback(k)

Next == Polling \/ \E k \in Calls : Writing(k) \/ Calling(k)

(* Polls go on, requests end, pauses end; not every poll fails. *)
Fairness ==
    /\ WF_vars(Polling)
    /\ SF_vars(PollReads)
    /\ \A k \in Calls : WF_vars(Writing(k))

Spec == Init /\ [][Next]_vars /\ Fairness

-----------------------------------------------------------------------------
(* Refinement: the orders placed, for the abstract writer. *)

Pending ==
    [i \in 1..Len(writeQueue) |->
        [task |-> writeQueue[i], kind |-> "backup", payload |-> want[writeQueue[i]]]]

Writer == INSTANCE Writer WITH
    Writers <- Calls, Kinds <- {"backup"}, Payloads <- {0, 1}, queue <- Pending,
    device <- [held |-> None, short |-> FALSE, backup |-> backup]

-----------------------------------------------------------------------------
(* Properties *)

\* Polls, readbacks and lost answers never reach the device: its backup output
\* changes only by the order at the head of the write lock, and a call that
\* gave up, was cancelled or has begun its readback writes nothing any more.
ImplementsWriter == Writer!Spec

\* Once the write that landed last has been committed, the switch shows what
\* the device has: no poll that got its frame before the write, no tolerated
\* failure and no readback of an earlier call turns the switch back.
ConfirmedBackupIsShown == settled => shown = backup

\* "One blip must not flap 15+ entities": they are unavailable only when more
\* polls in a row than tolerated went unanswered, however good and bad polls
\* alternated before.
BlipsAreTolerated == ~lastUpdateOk => missed > Tolerance

\* Whatever is lost, re-sent, cancelled or reported as failed, the switch in
\* the end shows what the device has, and it stays so through later failures.
DeviceStateIsShown == \A v \in {0, 1} : <>[](backup = v) => <>[](shown = v)

=============================================================================
