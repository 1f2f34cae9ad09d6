# Verification of the SAMDUO battery integration

TLA+ models, TLC runs and TLAPS proofs for the Home Assistant integration in
`src/custom_components/samduo_battery/`: a program that polls one battery over TCP and
writes power setpoints to it. It is asynchronous Python on one event loop, so the
interesting behaviour is in the interleavings at its `await`s, in what gets lost between
it and the device, and in the timers of both sides.

## 1. Inventory

| component | state | operations | hard behaviour | what makes it correct |
|---|---|---|---|---|
| control writes (`coordinator.py` 291–524; `number.py`, `switch.py`, `button.py`) | `_commanded_setpoint`, `_last_keepalive`, `_write_lock`, the optimistic backup value; the task of every call | set, backup, release, keepalive; retries, readback, commit; cancellation of a caller | overlapping calls, commits after an unlocked readback, lost replies, stale reads after a wait | sequences exclude each other, writes land and commit in call order, calls return, device and coordinator agree in the end |
| keepalive timing (`coordinator.py` 388–414, `__init__.py` 38–60) | `_last_keepalive`, `update_interval`, the watchdog of the device | keepalive at the top of a poll, option repair | the keepalive runs late by up to a poll, its retries and a readback | the watchdog does not expire while control is held |
| tracking detector (`coordinator.py` 214–287, 329–343) | streak, two clocks, `_control_blocked` and its repair issue | evaluation at each good poll, note of a setpoint change, clear | trims and reversals during lag, suppressed and missed polls | no alarm for a battery that follows, an alarm for one that refuses, none that outlives control |
| poll cycle (`coordinator.py` 170–206) | `_last_good_data`, `_consecutive_failures`, `last_update_success` | poll, tolerated failure, failed poll | two reads per poll with writes between them | one blip does not make entities unavailable; what is shown is not older than what was confirmed |
| TCP client (`tcp_client.py`) | `_io_lock`, `_buffer`, read-timeout streak | request, read timeout, connection error | late replies, a silent device, a half-open socket | a caller gets the answer to its own request or none |
| connection manager (`tcp_manager.py`) | registry per (host, port), socket, failure streak | get, connect, close, reconnect, backoff | two clients on one manager, reconnect races, escalating cooldown | clients of one device share a manager, those of different setups do not |
| setup, reload, unload (`__init__.py`) | the entry's state and address, `hass.data`, issues | setup, its retries, reload on an options change, unload | calls in flight while the entry is unloaded, failed first refreshes, an address that changes meanwhile | nothing is left behind, a loaded entry is served |
| config flow (`config_flow.py`) | flow steps, the probe's connection | user, zeroconf and options steps | the probe shares the manager of a configured device | a flow leaves live entries alone |
| protocol codec (`protocol.py`) | none | build, frame, parse, scale | frames split and merged anywhere in the stream | framing inverts concatenation |
| sensors, binary sensors, diagnostics | none | projections of the last frame | – | – |

How they interact: the entities call the coordinator, each call in a task of its own
(`PARALLEL_UPDATES` is not set, so calls to one entity overlap). The update coordinator of
Home Assistant runs one poll at a time; the poll sends the keepalive, reads two services and
runs the detector. Every write goes through `_write_lock`, every request of writes, readbacks
and polls through the `io_lock` of the client, and that through the connection manager. The
device executes requests and frees itself when `timeoutS` passes without a new one.

Everything here that a test would hardly reach is listed under `hazards` in `PROJECT.json`,
with the properties that would catch it.

## 2. Plan

1. `ControlWrites` – the core: calls, lock, retries, readback, commit, keepalive. *(done, safety proved)*
2. `KeepaliveTiming` – real time of the keepalive against the watchdog. *(done, proved)*
3. `TrackingDetector` – the alarm. *(done, safety proved)*
4. `TcpClient` – one connection: io_lock, msgId matching, persistent buffer, timeouts, reconnect and backoff. *(done, safety proved)*
5. `PollCycle` – the two reads of a poll, tolerated failures, the optimistic backup value. *(done, safety proved)*
6. `ConnectionLifecycle` – registry, setup, reload, unload and the config flow's probe, with every request
   that goes through them. *(done, safety proved)*
7. `Writer` – the abstract first-in-first-out writer, implemented by `ControlWrites` and by `PollCycle`. *(done, both
   refinements proved)*
8. `RequestChannel` – what the client promises of its one stream, implemented by `TcpClient`. *(done, refinement proved)*

What would come next: `ControlWrites` over reloads of the entry, to state what becomes of a held
setpoint; an answer taken for that of another request of the same millisecond (`SharedMillisecond`, below), as a
run of its own.

## 3. Modules

### ControlWrites (`MCControlWrites`, `ControlWritesProofs`)

One step is the code between two `await`s of one task. Tasks are the poll (`Poll`, 0) and the
entity calls, numbered in the order they are made.

| model | code |
|---|---|
| `commanded`, `due` | `_commanded_setpoint`; `monotonic() - _last_keepalive >= keepalive_interval` |
| `writeQueue` | owner and waiters of `_write_lock`, which `asyncio` wakes first in, first out |
| `pc`, `attempt`, `payload` | where a task is in `_logged_write`, `entry["attempts"]`, what its lambda evaluated to |
| `verifying` | readbacks in progress (`verify()` after the lock was released) |
| `shownBackup`, `lastUpdateOk` | `data["backup_enabled"]`; `last_update_success`, which makes the entities available |
| `held`, `short`, `backup` | the device, which is external |
| `landed`, `committed` | history: latest call whose write reached the device, and that was committed |
| `SetSetpoint`, `SetBackup`, `Release`, `ReleaseNothing` | the calls up to their first suspension |
| `KeepaliveStart`, `KeepaliveRaises`, `IntervalElapses`, `PollWithoutKeepalive` | `_async_maybe_keepalive` and the poll around it |
| `Acquire`, `ReplyLost`, `RequestLost`, `Resend` | the attempt loop |
| `ConfirmAndVerify`, `ConfirmRelease`, `ConfirmKeepalive`, `CommitSetpoint`, `CommitBackup` | what follows a confirmed write |
| `CancelWrite`, `CancelAfterLanding`, `CancelVerify` | the caller's task is cancelled at its `await` |

Abstractions. An answer that comes after the read timeout is the same as a lost one, because
the client discards it. An error answer is a request that was not executed. Whether retries
stop early (an outage) is a free choice, so that every failure streak is covered. Readbacks
end in the order they began: they all wait half a second and then queue for one FIFO lock; a
re-send waits a second and so queues behind them (`OnWire`). The poll's reads are not in this
module; a poll without keepalive is one step that may always succeed. `WatchdogExpires` may
happen at any time, which covers every timeout.

**Writer** (`WriterProofs`) is what the comment on `_write_lock` promises, without attempts, pauses, readbacks or
what the coordinator remembers: a queue of orders and a device that changes only by executing the first of them,
once or several times, or by its watchdog. The refinement mapping is at the end of `ControlWrites`: the queue is
`Pending`, the tasks of `writeQueue` with what they write; acquiring the lock and every re-send give the first
order its payload (the keepalive's is evaluated only then), an attempt that lands executes it, and a
task that gives up or is cancelled leaves. `PollCycle` implements the same writer with backup orders only: there it
says that polls, readbacks and late answers never reach the device's output.

### KeepaliveTiming (`KeepaliveTimingProofs`)

The poll task with clocks in seconds: it waits `PollInterval`, sends the keepalive if `age`
(since `_last_keepalive`) has reached the interval, retries after a pause, reads, and waits
again; `left` is the device's countdown. `ControlTimeout` is `resolve_control_options`. It
starts where a set was just committed, up to `Verify` after it landed. Two times are told apart: `Response`, the
longest an answer takes that comes, is the device's; `ResponseTimeout`, 8 s, is how long the client waits for one that
does not come, and so how long a failed attempt of a keepalive lasts. Every read, and the last attempt of every
keepalive, is answered; no connection is recycled or lost, and no other call holds the locks. Home Assistant rounds the
start of polls to its own second; `LongestGap` does not include that rounding. The options flow accepts any
timeout of at least 30 s, and `resolve_control_options` repairs only one that does not exceed the interval: with a
timeout of 31 s against an interval of 30 s the watchdog expires between refreshes that all succeed.

### TrackingDetector (`MCTrackingDetector`, `TrackingDetectorProofs`)

The detector over a battery that follows what it holds within `Settle`, saturates when full or
empty, is limited by its app, or ignores the setpoint while the HEMS manages it. Clocks are ages,
capped where the code stops telling them apart. `Disturbances` names what an instance may
add: polls that fail, and writes that overtake a readback (release, stale keepalive, a set whose
caller gave up). At most one set is read back at a time. The comment of the code says that suppressed polls count
"neither way"; in the code and in the model the divergence clock is a point in time, so a suppressed stretch
does count towards the minimum divergence time once polls are no longer suppressed.
`AlarmTakesPatience` measures from the last material change of the setpoint and so does not forbid it.

### TcpClient (`MCTcpClient`, `TcpClientProofs`)

`request()` of every task over one socket, one step from `await` to `await`.

| model | code |
|---|---|
| `pc`, `ioQueue` | where a task is in `request()`; owner and waiters of `_io_lock` |
| `msgId`, `outcome` | `req.msg_id`; history: how the latest request of the task ended |
| `buffer`, `streak` | `_buffer`, `_read_timeout_streak` |
| `failures`, `cooldown` | `_consecutive_failures`; history: the last wait of `_handle_connection_error` |
| `conn` | `writer`: none, usable (the device serves it, is mute, or has closed its side), or closing |
| `asked`, `line`, `device` | requests the device has, answers under way, and what it does with a new connection: external |
| `Request`, `Send`, `ConnectLazily`, `ConnectAndSend`, `ConnectFails` | `request()` up to the read, with `get_reader_writer` |
| `SetUpAgain`, `ProbeConnects`, `ProbeCloses`, `AsyncConnect` | `async_setup_entry` and `_probe_device`, as far as their clients change the shared manager: `async_connect`, with its `note_success`, and `async_disconnect` |
| `ReadAnswer`, `ReadOn`, `ReadFails`, `ReadTimesOut`, `AnswerIsLate` | `_read_response` by what a chunk brings, and its timeout |
| `ReadTimeout`, `Recycled`, `CloseEnds` | `_handle_read_timeout` with `close()` |
| `ConnectionError`, `CooldownEnds`, `Reconnects`, `ReconnectFails` | `_handle_connection_error` with `reconnect()` |
| `Cancel` | the task of a service call is cancelled at any of its `await`s |

Abstractions. A chunk brings some whole frames and perhaps half of the next. A half frame whose
stream is gone is `torn`: its braces never balance, so `extract_frames` keeps it and whatever follows it in
the buffer. A msgId is a millisecond; only whether two are equal matters, so a request takes the least one
that no waiting request and no outstanding answer has (time does not repeat), or, if
`SharedMillisecond`, that of the request built just before it. The device answers in the order of the
requests. The writer of a dead socket is closing: after a reset (`lost`) the read raises; after `ETIMEDOUT`
(`expired`) it raises `TimeoutError`, which `_read_response` takes for its own timeout and which therefore
keeps the buffer. The manager's own lock is not in this module: with one client, `io_lock` already
serializes all that takes it; `ConnectionLifecycle` has it. Of other clients of the manager `TcpClient` has what resets the
backoff or takes the stream away: a setup that is tried again after a failed first refresh (any number of times), and
the connects and disconnects of a probe (they count as faults, so that they are finitely many). The stream that a new one replaces is taken to be
closed at once. A probe that connects while a request reads leaves it on its older stream, and what the probe itself requests may be read
at the same time; both are left to `ConnectionLifecycle`. What an answer says (`ok`, the serial number) is left out.

**RequestChannel** is what the docstring of `tcp_client.py` promises, without sockets, buffers, timeouts, cooldowns and
reconnects: requests take turns first in, first out; a turn puts its request on the wire at most once, and ends with
the answer to that very request, which is used up, or with none; what was answered too late is never heard of.
The mapping is at the end of `TcpClient`: the queue is `Waiting`, `ioQueue` with msgIds; `transit` is `Sent`, what
the device may still answer and the answers under way; a turn is `Spent` once the request has been sent or its
connect has failed, so a reconnect may re-send nothing. Requests of one millisecond cannot be told apart, hence the
cfg, and the hypothesis of the theorem, exclude them.

### PollCycle (`PollCycleProofs`)

The poll reads 22600, which carries the backup value, and then 22046; between the two, and while it waits for
the client's lock, backup calls write, re-send, read back and commit. A request is one step, taken when it ends
and its task is first in `ioQueue`.

| model | code |
|---|---|
| `writeQueue`, `ioQueue`, `pausing` | `_write_lock`, `_io_lock`, and the calls asleep in `_verify_backup` |
| `frame` | `device_data["backup_enabled"]`, a local variable of the poll |
| `shown`, `lastGood` | `data["backup_enabled"]`, `_last_good_data["backup_enabled"]`: one dictionary after a good poll, hence `Commit` writes both |
| `failures`, `lastUpdateOk` | `_consecutive_failures`, `last_update_success` |
| `last`, `settled`, `unseen`, `missed` | history: whose write reached the device last, whether it has been committed, which landed since the poll got its frame, bad polls in a row |
| `PollStarts`, `PollReads`, `PollSucceeds` | `_async_update_data` |
| `FailureTolerated`, `FailureReported`, `FirstRefreshFails` | `_handle_failed_poll`, and what setup makes of it |
| `SetBackup`, `Acquire`, `Answered`, `Unanswered`, `Resend`, `Readback`, `Commit`, `CancelWrite`, `CancelReadback` | `async_set_backup` with `_logged_write` and `_verify_backup` |

Only the writes of the integration change the backup output here: a user who switches it in the app is shown the
old value until the next poll, which no program could avoid. Set and release calls, whose writes share both
locks, are left out: they do not touch the frame. The first-in-first-out order of `ioQueue` is
essential: a readback queues after a poll's second request, so a commit never comes
between a poll's stale frame and its publication. `BlipsAreTolerated` is about the failures that `_handle_failed_poll`
counts: the keepalive at the top of a poll (`coordinator.py` 171) is not in this module, and what it raises fails the poll
with no tolerance at all, as `keepalive_error` shows with `ControlWrites`. An *intermediate* value may show: with two quick calls the commit of the
first puts back the older value until the second commits, which `settled` excludes.

### ConnectionLifecycle (`ConnectionLifecycleProofs`)

One config entry, every client and manager ever created for it or for a probe, and every open connection.

| model | code |
|---|---|
| `phase`, `address` | the entry's state (Home Assistant's, refined by where setup and unload wait); `entry.data` |
| `setups` | the setups so far; clients `1..MaxSetups` are theirs, one coordinator each, the others those of the probes |
| `home`, `manager`, `registry` | `host`, `port` and `_manager` of a client; `TCPClientManager._connections` |
| `writer` | `reader` and `writer` of a manager: its connection |
| `pc`, `of`, `sock` | where a poll, call or probe is, the client it uses, the reader it got |
| `accepted` | the open connections of a device, oldest first; it answers the first only (`tcp_manager.py` 3–7) |
| `left` | history: addresses whose manager no unload removed |
| `Add`, `Retry`, `SetUpConnected`, `SetUpFails` | `async_setup_entry` up to each `await`, and the setup Home Assistant tries again |
| `Update` | the options flow, or a discovery, changes the address |
| `Disconnect`, `UnloadEnds`, `RemoveFailed` | `async_unload_entry`; the removal of an entry that is not loaded |
| `ProbeStarts`, `ProbeConnected`, `ProbeFails`, `ProbeCloses`, `ProbeEnds` | `_probe_device` |
| `CallStarts` | a service call of an entity, or a download of the diagnostics |
| `Begin`, `BeginReading`, `Connected`, `ConnectFails`, `Answered`, `Silent`, `EndOfStream`, `Reconnect`, `Reconnected`, `ReconnectFails` | `request()` with `get_reader_writer`, `_connect`, `reconnect` and the two failure handlers |
| `DeviceCloses`, `Collect` | the device closes a connection; one that nothing refers to any more is closed by the garbage collector |

Abstractions. A poll is its requests one after the other, so it is one request that may be repeated; retries of
a write are repeated requests as well. `close()` is one step. How long a cooldown lasts, and after how many
silent reads a connection is recycled, is left open: any read timeout may recycle. A reload is an unload followed by `Add`. The
two locks are modelled by who may not take them (`LockFree`, `IoLockFree`); their order is left open, and the
fairness below stands for it. Cancelled calls are in `ControlWrites` and `TcpClient`; here only the unload
cancels, namely the poll. Where `read()` finds another reader it raises (`BeginReading`), as asyncio does. A connection whose peer is gone may have a writer that is closing, which `get_reader_writer`
replaces (`Begin`), or one that is not, whose reader then finds the end of the stream (`BeginReading`).

`StreamsAreSeparate` is `ErrorsStayInside` as far as it holds: that one is violated by a probe
(`probe_shares_stream`), so addresses that a probe has used are excepted. So are those in `left`: with two
addresses TLC finds an entry that moves away and back while a call of its first generation is in flight, and that then finds the
old manager, which no unload removed.

Known behaviour the model shows and no property forbids: the unload removes the manager of the address
the entry has by then, so an entry that moved, and one removed while its setup was being retried, leave a manager
and its connection behind (`left`); an address changed while the first refresh runs is not used before
the next reload; a probe of a configured device opens a second connection, which the device does
not serve, or takes over the first, and closes it under the running poll, which reconnects after its cooldown.

## 4. Runs

| run | checks | shows |
|---|---|---|
| `control_writes` | `TypeOK`, `OneSequenceAtATime`, `KeepaliveHasSetpoint`, `WritesLandInIssueOrder`, `CommitsInIssueOrder`, `ImplementsWriter`, `EveryCallReturns`, `CommandedIsRestored`, `UncontrolledIsFreed` | two overlapping calls, each cancelled, lost or re-sent anywhere, with keepalives and watchdog: order, exclusion, the refinement, and that device and coordinator agree in the end |
| `confirmed_release` | `ConfirmedReleaseSticks` (violated) | a set that commits after a confirmed release takes control again |
| `stale_keepalive` | `ConfirmedSetpointStays` (violated) | a keepalive during a readback writes the older setpoint over the newer |
| `keepalive_error` | `PollSurvivesKeepalive` (violated) | a keepalive that waited behind a release raises and fails the poll |
| `keepalive_defaults` | `TypeOK`, `WatchdogNeverExpires` | the default options have room for answers that take 7 s, although two attempts of every keepalive are given up after 8 s; they have none for answers of 8 s (below) |
| `tracking_alarm` | `TypeOK`, `AlarmOnlyWhileControlling`, `AlarmTakesPatience`, `RefusalIsReported`, `AlarmEnds` | the alarm and its end, under everything that can disturb it |
| `tracking_honest` | `NoFalseAlarm` | a battery that settles within the grace is never reported |
| `tcp_client` | `TypeOK`, `OneRequestAtATime`, `OwnAnswer`, `BackoffOnlyEscalates`, `ImplementsChannel`, `EveryRequestReturns`, `ServiceResumes` | a poll and an overlapping call get their own answers or none, return, and are served again after the last fault; each is sent at most once, in its turn; only answers, setups and probes restart the backoff |
| `backoff_overflow` | `ErrorsNeverPropagate` (violated) | after 1024 failures in a row the backoff raises out of `request()` |
| `poll_cycle` | `TypeOK`, `ConfirmedBackupIsShown`, `BlipsAreTolerated`, `ImplementsWriter`, `DeviceStateIsShown` | polls and overlapping backup calls with everything lost, re-sent or cancelled: the switch never turns back from a confirmed value, entities bear blips, the device's value is shown in the end, and it changes only by the first order |
| `connection_lifecycle` | `TypeOK`, `IsolatedGenerations`, `NothingLeftBehind`, `StreamsAreSeparate`, `RequestsEnd`, `LoadedIsServed` | setup, reload and unload with a poll, a call and a probe in flight and a fault anywhere |
| `probe_shares_stream` | `ErrorsStayInside` (violated) | a probe and the poll of a configured device read one stream, and one of them raises |

The violated ones state what a docstring or comment says; `findings` in `PROJECT.json` quotes it.

**Bounds.** `ControlWrites`: two calls and the keepalive are enough for an owner, a waiter and a
third in readback; the proofs cover any number of calls. With `Attempts = 2` a first attempt and a
re-send differ (the code has 3, and the proofs cover any number); the requests `{-3, 1}` include one that is
clamped. `KeepaliveTiming` runs with the default options and the code's timeout and pause. What is assumed of the
device is the time its answers take: with 7 s (and `Verify` 15: an answer, half a second and the answer of the
readback) `LongestGap` is 88, below the timeout of 90; with 8 s, the time the client waits (`Response = 8`, `Verify = 17` in the cfg), it is 93 and TLC violates
`WatchdogNeverExpires`: a set is committed 17 s after it landed, the next two polls read for 16 s each, the second
of them begins a little too early for the keepalive, two attempts of the first keepalive are given up, and the watchdog
expires while the third is on its way. So at the code's own limit the default options do not keep what the
docstring of `_async_maybe_keepalive` says ("Refresh the active setpoint before the device watchdog expires"). In
practice answers are far from it: the docstring of `tcp_client.py` has them come within about 0.2 s.
`TrackingDetector`: `tracking_alarm` shrinks the clocks (grace 2, minimum 2, three polls one tick
apart) and keeps their order; `tracking_honest` has one tick for 2.5 s, hence the real grace (10 s), minimum
(10 s) and poll (5 s), a battery that may take the whole grace to settle, and readbacks shorter than
a poll; its cfg meets the hypothesis `Honest` of the theorem. With a slower battery (15 s), with readbacks of a whole poll and a battery that takes the
whole grace, or with trims that add up to more than the tolerance between two polls, TLC finds a false alarm:
these are the limits of the detector's thresholds, not of the model. `TcpClient`: a poll and a call are an owner
and a waiter; two faults (`MaxFaults`) are enough for a late answer followed by a reset, or for half a frame that a new
connection tears, and both are reached; a probe's connect and disconnect take one each. `FailureBound` 6 is past the
failure at which the backoff saturates (the fifth), in `backoff_overflow` it is one past the largest
exponent a float has; streaks stop counting there. `MaxAbandoned` bounds what cancelled requests may leave at the device, and eight msgIds suffice for all
that is around.

`PollCycle`: three calls are an owner, a waiter and one in readback around one poll; a tolerance of 2 (the code has 5)
tells the first failure from the last tolerated one. `ConnectionLifecycle`: two setups are one generation and the next, with one
probe and one call that may outlive the first, one fault, and one address, because everything that
goes wrong goes wrong between clients of one device; with two addresses (and, for `StreamsAreSeparate`, three setups and two calls) the safety invariants were
checked as well and the proofs hold for any number. `MaxSockets = 6` is never exhausted.
Deadlock is not checked there: an entry that was removed, with all calls and probes made, really stops.

**Requests of one millisecond.** `OwnAnswer` holds as long as no two requests are built in the same
millisecond. With `SharedMillisecond = TRUE` TLC violates it: poll and call are built together, the poll's
read times out, and its late answer is taken for that of the call.

**Fairness.** Timers fire, an awaited request ends (the read timeout bounds it) and a ready task is
resumed: weak fairness of every internal step. The entities need not be called, callers need not
cancel, and nothing forces the device to answer, with one exception: a keepalive that is sent again and again
is answered at last (strong fairness of `ConfirmKeepalive`), without which no program could keep a device in
line. The watchdog expires (weak fairness of `WatchdogExpires`); while keepalives land it may expire between
them, which the property `[]<>` allows. In `TrackingDetector` time passes, readbacks end, the battery settles,
and of infinitely many polls not all fail. In `TcpClient` the poll goes on, a device that serves and has a request answers it,
one that went comes back, and faults are finitely many: `ServiceResumes` is about what follows the last of them.
A cancelled call need not be repeated and a call need not be made. In `PollCycle` polls go on, requests and
pauses end, and of infinitely many polls not all fail. In `ConnectionLifecycle` the locks are first in, first out
and connecting and reading time out: strong fairness of every request stands for both, since a waiter that
finds its turn again and again gets it; setup and unload go on, and the garbage collector runs. Retries, reloads
and removals are never forced.

## 5. Proofs

All proofs hold for every value of the constants that their named assumptions admit.

- `TypeCorrect`, `SequencesExclude`, `KeepaliveNeverOutlivesRelease`: the inductive invariant is `TypeOK`,
  `Bookkeeping` and `LockInv`. Mutual exclusion alone is not inductive: what is needed is that tasks are in the
  queue once, that whoever is in it waits or owns, and that only its first is between attempts. A release
  clears the setpoint while it owns the lock; hence no keepalive can be between its attempts then.
- `StaleResendImpossible`, `CommitsOrdered`: from the invariant `Order`. Calls keep their order through two
  queues: what has landed or committed is before what is in readback, that is before what is queued, and both
  queues ascend; the keepalive is left out of the order. Leaving a queue, by turn or by
  cancellation, thins it out and keeps it ascending (`ThinOrder`).
- `WriterImplemented`: the refinement, from the invariant of `TypeCorrect`. `OrdersGrow`, `OrdersTail`, `OrdersRemoved`
  and `OrdersPrepared` say how `Pending` follows `writeQueue` and `payload`; then each action is a step
  of `Writer` (`JoinStep`, `PrepareStep`, `ExecuteStep`, `LeaveStep`) or a stutter. That a task is in the queue
  once is needed for a new payload to change one order only, and for a cancelled owner to be the first.
- `PollImplementsWriter`: the same refinement for the backup calls between polls. Its invariant `WriteInv` says
  that callers are in the queue once and that whoever writes is the first of it; the value of an order never changes, so only
  joining, executing and leaving remain.
- `ConfirmedStaysShown`: a poll that has its frame holds a value that is older than the device's only while
  the calls that landed since (`unseen`) have not been committed, because their readbacks queue for the client's lock
  behind the poll's second request. `BlipsNeverFlap`: `failures` never exceeds the number of bad polls in a row
  (`Streaks`).
- `GenerationsIsolated`, `NothingLeft`: every manager in use was created for the address of its clients, what is
  registered is used by the current setup or a running probe, or was left, and an unloaded generation's
  manager is no longer registered (`Sharing`); so a later client at the same address creates a new one.
- `StreamsStaySeparate`: on top of that invariant, `Streams`: a connection belongs to one manager and its reader to a client
  of that manager (`StreamOwners`), and calls of different generations have different managers (`CallsApart`, which
  `IsolatedGenerations` implies for the current one only). Whoever shares a manager then shares a client, whose lock
  keeps the second one out. `Rewired` says the two things a step may do to connections: drop some, or give
  one manager one that nobody uses.
- `WatchdogIsOutrun`: if `ControlTimeout > LongestGap`, the watchdog never expires. `LongestGap` adds a readback, an interval
  missed by one second, a poll, two attempts that are given up and the answer to the third; TLC finds the bound tight
  (for 7 s answers a timeout of 89 s holds and 88 s do not).
  The invariant bounds `age` by phase and attempt, and `left` by the timeout less `age` less the readback.
- `AlarmIsConfined`, `AlarmIsPatient`: a divergence is counted only after the grace, so the clock of the
  setpoint is always a whole grace ahead of the clock of the divergence (`Patient`).
- `HonestIsNeverReported`: `NoFalseAlarm` for every instance that is `Honest`: no HEMS, faults or interference, a charge
  between the thresholds, `Settle <= Grace`, `VerifyTicks < PollTicks`, at least three polls, and trims that add up to a trim.
  What the battery delivers fits the commanded setpoint, or the battery has been out of line since the last material
  change at least (`CatchingUp`), so one poll counts before time waits for it; a readback of the next setpoint
  has room for one more (`Harmless`).
- `RequestsExclude`: as for the write lock, tasks are in `ioQueue` once, whoever is in it is not idle, and
  only its first is past the lock (`LockInv`).
- `AnswersAreOwn`, for requests that share no millisecond: two requests that wait, or a request that waits and a frame that is around, have the same msgId only if
  they are of the same task (`MsgIdsDiffer`). It is inductive because a new msgId differs from all that is
  around, and no other step brings a frame that was not there or that its own task is not waiting for.
- `ClientImplementsChannel`, under the same hypothesis: from `LockInv`, `MsgIdsDiffer`, and that a request that has not been sent yet
  is nowhere on the wire (`Unsent`) and one that has been is there at most once (`Single`), so its answer is used up when it is read. Reading
  a chunk, losing a frame or a connection only takes away from `Sent`; everything inside a turn is a stutter.
- `BackoffEscalates`: every step leaves the backoff alone, adds a failure and waits for it, or is an answer, a setup or a
  probe (`BackoffSteps`). Powers of two grow (`PowersGrow`), hence `CooldownFor` grows with the failures and is flat from
  `Saturation` on (`CooldownsGrow`); and the last wait is never above what the present count of failures gives (`Escalating`). That powers grow needs
  induction, which is taken from the library: the number of subsets of a set with n elements is 2^n
  (`FS_SUBSET`), and it grows with n. The library's proof of `FS_SUBSET` in turn leaves the step
  2^(n+1) = 2^n + 2^n to arithmetic it does not check.
- `TimingTypeCorrect`, `TrackingTypeCorrect`, `ClientTypeCorrect`, `PollTypeCorrect` and `LifecycleTypeCorrect` are parts of
  those invariants.

`SequenceFacts` holds what the proofs about queues need of `Append`, `Tail`, `RemoveAt`, of cut sequences, and of queues
whose entries are shown as records (`Mapped`), which the refinements share.

Only model-checked: liveness (`EveryCallReturns`, `CommandedIsRestored`, `UncontrolledIsFreed`, `RefusalIsReported`, `AlarmEnds`,
`EveryRequestReturns`, `ServiceResumes`, `DeviceStateIsShown`, `RequestsEnd`, `LoadedIsServed`): it needs fairness and
`ENABLED`, beyond the prover. Every invariant, action property and refinement the runs check is also proved.

## 6. Not modelled

- Sensors and binary sensors, translations, manifest: projections and data, which keep no state.
- The brace counting of `extract_frames`, scaling, key stripping: functions without state. `TcpClient` relies on
  what `extract_frames` keeps and cuts.
- The forms of the flows, and the diagnostics' snapshot with its redaction.
- The audit trail (its last 20 entries): it changes no decision.
- The repair issue about a corrected timeout; that of the HEMS conflict lives and dies with `blocked`.
- A reload of the entry under a held setpoint. The new coordinator commands nothing, so the device frees itself
  when its watchdog expires, although the repository's README (line 110) promises that a setpoint is held until it is released
  or Home Assistant restarts.
- Logging and error texts.
