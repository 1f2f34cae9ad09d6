---------------------------- MODULE ControlWrites ----------------------------
(***************************************************************************)
(* The control writes of the coordinator (coordinator.py): the calls that  *)
(* the number, switch and button entities make, the keepalive at the top   *)
(* of every poll, the lock that serializes whole write sequences, their    *)
(* retries, the readback after the lock is released, and the commit of the *)
(* result.  Each step below is the code between two awaits of one task of  *)
(* the event loop.  The device, with its watchdog, is external.            *)
(***************************************************************************)
EXTENDS Integers, Sequences, SequencesExt

CONSTANTS
    MaxCalls,       \* bound on the entity calls of one behaviour
    Requests,       \* watts a caller may ask for
    MaxCharge,      \* max_charge_power option
    MaxDischarge,   \* max_discharge_power option
    Attempts,       \* 1 + _WRITE_RETRY_ATTEMPTS
    None            \* not controlling / self-managed

ASSUME ConstantsAssumption ==
    /\ MaxCalls \in Nat
    /\ Requests \subseteq Int
    /\ MaxCharge \in Nat
    /\ MaxDischarge \in Nat
    /\ Attempts \in Nat \ {0}
    /\ None \notin Int

VARIABLES
    issued,         \* entity calls made so far; a call is named by its number
    kind,           \* what each task writes
    payload,        \* the value its current attempt carries
    pc,             \* where each task is
    attempt,        \* entry["attempts"] of its write
    writeQueue,     \* owner, then waiters, of _write_lock
    verifying,      \* tasks inside verify(), in the order they entered it
    commanded,      \* _commanded_setpoint
    due,            \* keepalive_interval has passed since _last_keepalive
    shownBackup,    \* data["backup_enabled"]
    lastUpdateOk,   \* last_update_success of the update coordinator
    held,           \* the setpoint the device holds
    short,          \* it was written with RELEASE_TIMEOUT_S
    backup,         \* the device's backup output
    landed,         \* history: the latest call whose write reached the device
    committed       \* history: the latest call committed as the setpoint

deviceVars == <<held, short, backup>>
coordVars  == <<commanded, due, shownBackup, lastUpdateOk>>
taskVars   == <<issued, kind, payload, pc, attempt, writeQueue, verifying>>
vars       == <<taskVars, coordVars, deviceVars, landed, committed>>

Poll  == 0                  \* the single poll task, which sends keepalives
Calls == 1..MaxCalls
Task  == {Poll} \cup Calls
Power == (-MaxCharge)..MaxDischarge
Kinds == {"none", "set", "backup", "release", "keepalive"}

Returned == {"ok", "noop", "failed", "cancelled"}
Holding  == {"sending", "backoff"}
PCs      == {"idle", "queued", "verifying"} \cup Holding \cup Returned

TypeOK ==
    /\ issued \in 0..MaxCalls
    /\ kind \in [Task -> Kinds]
    /\ payload \in [Task -> Power \cup {0, 1}]
    /\ \A t \in Task : kind[t] # "backup" => payload[t] \in Power
    /\ pc \in [Task -> PCs]
    /\ attempt \in [Task -> 0..Attempts]
    /\ writeQueue \in Seq(Task)
    /\ verifying \in Seq(Calls)
    /\ commanded \in Power \cup {None}
    /\ due \in BOOLEAN
    /\ shownBackup \in {0, 1}
    /\ lastUpdateOk \in BOOLEAN
    /\ held \in Power \cup {None}
    /\ short \in BOOLEAN
    /\ backup \in {0, 1}
    /\ landed \in 0..MaxCalls
    /\ committed \in 0..MaxCalls

Init ==
    /\ issued = 0
    /\ kind = [t \in Task |-> IF t = Poll THEN "keepalive" ELSE "none"]
    /\ payload = [t \in Task |-> 0]
    /\ pc = [t \in Task |-> "idle"]
    /\ attempt = [t \in Task |-> 0]
    /\ writeQueue = << >>
    /\ verifying = << >>
    /\ commanded = None
    /\ due = FALSE
    /\ shownBackup = 0
    /\ lastUpdateOk = TRUE
    /\ held = None
    /\ short = FALSE
    /\ backup = 0
    /\ landed = 0
    /\ committed = 0

-----------------------------------------------------------------------------
(* Entering and leaving _write_lock.  A free lock is taken at once and the  *)
(* first attempt starts in the same step; a task that finds it taken queues *)
(* behind every earlier waiter (an asyncio.Lock is first in, first out).    *)

Enter(t) ==
    /\ writeQueue' = Append(writeQueue, t)
    /\ pc' = [pc EXCEPT ![t] = IF writeQueue = << >> THEN "sending" ELSE "queued"]
    /\ attempt' = [attempt EXCEPT ![t] = IF writeQueue = << >> THEN 1 ELSE 0]

Leave(t, where) ==
    /\ writeQueue' = Tail(writeQueue)
    /\ pc' = [pc EXCEPT ![t] = where]

\* Mutant: the keepalive sends what it was created with.
EvaluateNothing(t) == UNCHANGED payload

\* send() evaluates its lambda now: only the keepalive's reads state.
Evaluate(t) ==
    payload' = [payload EXCEPT ![t] = IF t = Poll THEN commanded ELSE @]

\* Mutant: only the discharge limit is applied.
ClampDischargeOnly(watts) == IF watts > MaxDischarge THEN MaxDischarge ELSE watts

Clamp(watts) ==
    IF watts > MaxDischarge THEN MaxDischarge
    ELSE IF watts < -MaxCharge THEN -MaxCharge ELSE watts

-----------------------------------------------------------------------------
(* The calls of the entities.  Home Assistant skips unavailable entities,  *)
(* and these are available while the last poll succeeded.                   *)

NextCall == issued + 1

Call(k, value) ==
    /\ issued < MaxCalls
    /\ lastUpdateOk
    /\ issued' = NextCall
    /\ kind' = [kind EXCEPT ![NextCall] = k]
    /\ payload' = [payload EXCEPT ![NextCall] = value]
    /\ UNCHANGED <<verifying, coordVars, deviceVars, landed, committed>>

SetSetpoint(watts) == Call("set", Clamp(watts)) /\ Enter(NextCall)

SetBackup(enabled) == Call("backup", enabled) /\ Enter(NextCall)

\* Mutant: a release goes before the waiters and the owner of the lock.
ReleaseAtOnce ==
    /\ commanded # None
    /\ Call("release", 0)
    /\ writeQueue' = <<NextCall>> \o writeQueue
    /\ pc' = [pc EXCEPT ![NextCall] = "sending"]
    /\ attempt' = [attempt EXCEPT ![NextCall] = 1]

Release == commanded # None /\ Call("release", 0) /\ Enter(NextCall)

\* Nothing is commanded (yet): the call returns True without writing.
ReleaseNothing ==
    /\ commanded = None
    /\ Call("release", 0)
    /\ pc' = [pc EXCEPT ![NextCall] = "noop"]
    /\ UNCHANGED <<attempt, writeQueue>>

-----------------------------------------------------------------------------
(* The keepalive at the top of a poll. *)

IntervalElapses ==
    /\ commanded # None
    /\ ~due
    /\ due' = TRUE
    /\ UNCHANGED <<taskVars, commanded, shownBackup, lastUpdateOk, deviceVars,
                   landed, committed>>

\* Mutant: every poll sends the last setpoint again, commanded or not.
KeepaliveStartAlways ==
    /\ pc[Poll] = "idle"
    /\ Enter(Poll)
    /\ UNCHANGED <<issued, kind, payload, verifying, coordVars, deviceVars,
                   landed, committed>>

KeepaliveStart ==
    /\ pc[Poll] = "idle"
    /\ commanded # None
    /\ due
    /\ Enter(Poll)
    /\ Evaluate(Poll)
    /\ UNCHANGED <<issued, kind, verifying, coordVars, deviceVars, landed, committed>>

\* A poll that needs no keepalive succeeds and makes the entities available.
PollWithoutKeepalive ==
    /\ pc[Poll] = "idle"
    /\ ~(commanded # None /\ due)
    /\ lastUpdateOk' = TRUE
    /\ UNCHANGED <<taskVars, commanded, due, shownBackup, deviceVars, landed, committed>>

-----------------------------------------------------------------------------
(* The attempt loop, run while holding the lock. *)

\* Mutant: a waiter starts although another task is the owner.
AcquireUnlocked(t) ==
    /\ pc[t] = "queued"
    /\ t = Poll => commanded # None
    /\ pc' = [pc EXCEPT ![t] = "sending"]
    /\ attempt' = [attempt EXCEPT ![t] = 1]
    /\ Evaluate(t)
    /\ UNCHANGED <<issued, kind, writeQueue, verifying, coordVars, deviceVars,
                   landed, committed>>

Acquire(t) ==
    /\ writeQueue # << >>
    /\ t = Head(writeQueue)
    /\ pc[t] = "queued"
    /\ t = Poll => commanded # None
    /\ pc' = [pc EXCEPT ![t] = "sending"]
    /\ attempt' = [attempt EXCEPT ![t] = 1]
    /\ Evaluate(t)
    /\ UNCHANGED <<issued, kind, writeQueue, verifying, coordVars, deviceVars,
                   landed, committed>>

\* The keepalive waited behind a release: int(None) raises, the poll fails.
KeepaliveRaises ==
    /\ writeQueue # << >>
    /\ Poll = Head(writeQueue)
    /\ pc[Poll] = "queued"
    /\ commanded = None
    /\ Leave(Poll, "idle")
    /\ lastUpdateOk' = FALSE
    /\ UNCHANGED <<issued, kind, payload, attempt, verifying, commanded, due,
                   shownBackup, deviceVars, landed, committed>>

\* A re-send follows a pause longer than the readback's and queues behind the
\* readback's request, so it is on the wire only when no readback is pending.
OnWire(t) ==
    /\ pc[t] = "sending"
    /\ attempt[t] > 1 => verifying = << >>

\* The device executes the request of task t.
Land(t) ==
    /\ IF kind[t] = "backup"
       THEN backup' = payload[t] /\ UNCHANGED <<held, short>>
       ELSE /\ held' = payload[t]
            /\ short' = (kind[t] = "release")
            /\ UNCHANGED backup
    /\ landed' = IF t = Poll THEN landed ELSE t

\* Mutant: the pause before a re-send is outside the lock, which the re-send
\* enters again.
UnconfirmedUnlocking(t) ==
    /\ \/ /\ attempt[t] < Attempts
          /\ pc' = [pc EXCEPT ![t] = "queued"]
          /\ writeQueue' = Append(Tail(writeQueue), t)
          /\ UNCHANGED lastUpdateOk
       \/ /\ Leave(t, IF t = Poll THEN "idle" ELSE "failed")
          /\ lastUpdateOk' = (lastUpdateOk \/ t = Poll)
    /\ UNCHANGED <<issued, kind, payload, attempt, verifying, commanded, due,
                   shownBackup, committed>>

\* After the last attempt, or in an outage, the write fails; before, it is
\* re-sent after a pause during which the lock stays held.
Unconfirmed(t) ==
    /\ \/ /\ attempt[t] < Attempts
          /\ pc' = [pc EXCEPT ![t] = "backoff"]
          /\ UNCHANGED <<writeQueue, lastUpdateOk>>
       \/ /\ Leave(t, IF t = Poll THEN "idle" ELSE "failed")
          /\ lastUpdateOk' = (lastUpdateOk \/ t = Poll)
    /\ UNCHANGED <<issued, kind, payload, attempt, verifying, commanded, due,
                   shownBackup, committed>>

ReplyLost(t) == OnWire(t) /\ Land(t) /\ Unconfirmed(t)

RequestLost(t) == OnWire(t) /\ Unconfirmed(t) /\ UNCHANGED <<deviceVars, landed>>

\* Mutant: attempts are not counted.
ResendForever(t) ==
    /\ pc[t] = "backoff"
    /\ pc' = [pc EXCEPT ![t] = "sending"]
    /\ Evaluate(t)
    /\ UNCHANGED <<issued, kind, attempt, writeQueue, verifying, coordVars,
                   deviceVars, landed, committed>>

Resend(t) ==
    /\ pc[t] = "backoff"
    /\ pc' = [pc EXCEPT ![t] = "sending"]
    /\ attempt' = [attempt EXCEPT ![t] = @ + 1]
    /\ Evaluate(t)
    /\ UNCHANGED <<issued, kind, writeQueue, verifying, coordVars, deviceVars,
                   landed, committed>>

-----------------------------------------------------------------------------
(* A confirmed write.  Setpoint and backup are read back after the lock is  *)
(* released and committed then; release and keepalive commit at once.       *)

ConfirmAndVerify(t) ==
    /\ OnWire(t)
    /\ kind[t] \in {"set", "backup"}
    /\ Land(t)
    /\ Leave(t, "verifying")
    /\ verifying' = Append(verifying, t)
    /\ UNCHANGED <<issued, kind, payload, attempt, coordVars, committed>>

ConfirmRelease(t) ==
    /\ OnWire(t)
    /\ kind[t] = "release"
    /\ Land(t)
    /\ Leave(t, "ok")
    /\ commanded' = None
    /\ UNCHANGED <<issued, kind, payload, attempt, verifying, due, shownBackup,
                   lastUpdateOk, committed>>

ConfirmKeepalive ==
    /\ OnWire(Poll)
    /\ Land(Poll)
    /\ Leave(Poll, "idle")
    /\ due' = FALSE
    /\ lastUpdateOk' = TRUE
    /\ UNCHANGED <<issued, kind, payload, attempt, verifying, commanded,
                   shownBackup, committed>>

\* Mutant: readbacks take as long as they like.
VerifiedInAnyOrder(t) ==
    /\ \E i \in 1..Len(verifying) :
        verifying[i] = t /\ verifying' = RemoveAt(verifying, i)
    /\ pc' = [pc EXCEPT ![t] = "ok"]
    /\ UNCHANGED <<issued, kind, payload, attempt, writeQueue, lastUpdateOk,
                   deviceVars, landed>>

\* All readbacks wait equally long and share the client's first-in-first-out
\* lock, so they end in the order they began.
Verified(t) ==
    /\ verifying # << >>
    /\ t = Head(verifying)
    /\ verifying' = Tail(verifying)
    /\ pc' = [pc EXCEPT ![t] = "ok"]
    /\ UNCHANGED <<issued, kind, payload, attempt, writeQueue, lastUpdateOk,
                   deviceVars, landed>>

CommitSetpoint(t) ==
    /\ Verified(t)
    /\ kind[t] = "set"
    /\ commanded' = payload[t]
    /\ due' = FALSE
    /\ committed' = t
    /\ UNCHANGED shownBackup

CommitBackup(t) ==
    /\ Verified(t)
    /\ kind[t] = "backup"
    /\ shownBackup' = payload[t]
    /\ UNCHANGED <<commanded, due, committed>>

-----------------------------------------------------------------------------
(* The caller is cancelled (a script that is stopped or restarted): the     *)
(* lock is released or the waiter removed, nothing is committed.            *)

CancelTask(t) ==
    /\ pc' = [pc EXCEPT ![t] = "cancelled"]
    /\ UNCHANGED <<issued, kind, payload, attempt, coordVars, committed>>

LeaveQueue(t) ==
    \E i \in 1..Len(writeQueue) :
        writeQueue[i] = t /\ writeQueue' = RemoveAt(writeQueue, i)

CancelWrite(t) ==
    /\ pc[t] \in {"queued"} \cup Holding
    /\ CancelTask(t)
    /\ LeaveQueue(t)
    /\ UNCHANGED <<verifying, deviceVars, landed>>

CancelAfterLanding(t) ==
    /\ OnWire(t)
    /\ Land(t)
    /\ CancelTask(t)
    /\ LeaveQueue(t)
    /\ UNCHANGED verifying

CancelVerify(t) ==
    /\ CancelTask(t)
    /\ \E i \in 1..Len(verifying) :
        verifying[i] = t /\ verifying' = RemoveAt(verifying, i)
    /\ UNCHANGED <<writeQueue, deviceVars, landed>>

Cancel(t) == CancelWrite(t) \/ CancelAfterLanding(t) \/ CancelVerify(t)

-----------------------------------------------------------------------------
(* The device frees itself when its watchdog expires. *)

WatchdogExpires ==
    /\ held # None
    /\ held' = None
    /\ short' = FALSE
    /\ UNCHANGED <<taskVars, coordVars, backup, landed, committed>>

-----------------------------------------------------------------------------
Entity ==
    \/ \E watts \in Requests : SetSetpoint(watts)
    \/ \E enabled \in {0, 1} : SetBackup(enabled)
    \/ Release
    \/ ReleaseNothing

Polling == IntervalElapses \/ KeepaliveStart \/ PollWithoutKeepalive \/ KeepaliveRaises

Attempted(t) ==
    \/ ReplyLost(t)
    \/ RequestLost(t)
    \/ ConfirmAndVerify(t)
    \/ ConfirmRelease(t)
    \/ t = Poll /\ ConfirmKeepalive

Commit(t) == CommitSetpoint(t) \/ CommitBackup(t)

Next ==
    \/ Entity
    \/ Polling
    \/ \E t \in Task : Acquire(t) \/ Attempted(t) \/ Resend(t)
    \/ \E t \in Calls : Commit(t) \/ Cancel(t)
    \/ WatchdogExpires

(* Timers fire, every awaited request ends (the read timeout and the retry  *)
(* bound see to it), a ready task is resumed, the watchdog expires; and a    *)
(* keepalive that is sent again and again is answered at last.              *)
Fairness ==
    /\ WF_vars(IntervalElapses)
    /\ WF_vars(KeepaliveStart)
    /\ WF_vars(KeepaliveRaises)
    /\ WF_vars(PollWithoutKeepalive)
    /\ WF_vars(WatchdogExpires)
    /\ \A t \in Task :
        /\ WF_vars(Acquire(t))
        /\ WF_vars(Attempted(t))
        /\ WF_vars(Resend(t))
    /\ \A t \in Calls : WF_vars(Commit(t))
    /\ SF_vars(ConfirmKeepalive)

Spec     == Init /\ [][Next]_vars
LiveSpec == Spec /\ Fairness

-----------------------------------------------------------------------------
(* Safety *)

\* At most one task is between its first and its last attempt: the lock spans
\* the retries and the pauses between them, so no other write comes between.
OneSequenceAtATime ==
    \A s, t \in Task : pc[s] \in Holding /\ pc[t] \in Holding => s = t

\* A re-sent payload never reaches the device after the write of a newer call
\* (the comment on _write_lock), whatever is lost, re-sent or cancelled.
WritesLandInIssueOrder == [][landed' >= landed]_vars

\* Setpoints are committed in the order they were called, although each is
\* committed after a readback that runs without the lock.
CommitsInIssueOrder == [][committed' >= committed]_vars

\* A keepalive that holds the lock has a setpoint to refresh: no release can
\* be confirmed between two of its attempts.
KeepaliveHasSetpoint == pc[Poll] \in Holding => commanded # None

-----------------------------------------------------------------------------
(* Refinement *)

Pending ==
    [i \in 1..Len(writeQueue) |->
        [task    |-> writeQueue[i],
         kind    |-> kind[writeQueue[i]],
         payload |-> payload[writeQueue[i]]]]

Writer == INSTANCE Writer WITH
    Writers  <- Task,
    Payloads <- Power \cup {0, 1},
    queue    <- Pending,
    device   <- [held |-> held, short |-> short, backup |-> backup]

\* With its lock, attempts, pauses and cancellations the coordinator is a
\* writer that executes one order at a time, in the order they were placed:
\* the device changes only by the order at the head of the queue.
ImplementsWriter == Writer!Spec

-----------------------------------------------------------------------------
(* Liveness *)

\* Every entity call returns: the lock is always handed on, retries end.
EveryCallReturns == \A k \in Calls : issued >= k ~> pc[k] \in Returned

\* A setpoint that stays commanded is put back on the device again and again,
\* whatever lost replies, failed calls or stale keepalives overwrote it.
CommandedIsRestored ==
    \A watts \in Power : <>[](commanded = watts) => []<>(held = watts)

\* When nothing is commanded any more the device ends up self-managed, also
\* after a set that reached the device but was reported as failed.
UncontrolledIsFreed == <>[](commanded = None) => <>[](held = None)

-----------------------------------------------------------------------------
(* What comments of the code promise and the interleavings break. *)

Settled == \A k \in 1..issued : pc[k] \in Returned

\* "Then the keepalive stops": once all calls returned, a release that was
\* confirmed and was the last call about the setpoint leaves nothing commanded.
ConfirmedReleaseSticks ==
    \A k \in 1..issued :
        /\ Settled
        /\ kind[k] = "release" /\ pc[k] = "ok"
        /\ \A j \in (k + 1)..issued : kind[j] = "backup"
        => commanded = None

\* A setpoint the device confirmed is replaced by a newer call or by the
\* watchdog, never by the keepalive of the setpoint before it.
ConfirmedSetpointStays ==
    [][\A k \in Calls :
          pc[k] = "verifying" /\ landed = k /\ held = payload[k]
          => held' \in {held, None} \/ landed' # landed]_vars

\* "A failed keepalive is only logged": it never fails the poll.
PollSurvivesKeepalive == lastUpdateOk

=============================================================================
