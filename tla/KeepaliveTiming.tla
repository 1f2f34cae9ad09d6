--------------------------- MODULE KeepaliveTiming ---------------------------
(***************************************************************************)
(* When the keepalive refreshes the device's watchdog.  The keepalive runs *)
(* only at the top of a poll, polls start poll_interval after the one      *)
(* before ended, and the interval is measured from the confirmation of the *)
(* last write, which is later than the moment the device executed it.      *)
(* Time is in seconds.  The device answers every request of the reads and  *)
(* the last attempt of every keepalive; other calls do not compete.  How   *)
(* long an answer takes is the device's, how long the client waits for one *)
(* that does not come is the code's.                                       *)
(***************************************************************************)
EXTENDS Integers

CONSTANTS
    PollOption,         \* poll_interval option
    KeepaliveOption,    \* keepalive_interval option
    TimeoutOption,      \* control_timeout option
    Response,           \* longest time to an answer that comes
    Verify              \* longest time from the landing of a set to its commit

MinPoll == 2            \* MIN_POLL_INTERVAL
ResponseTimeout == 8    \* RESPONSE_TIMEOUT
Pause   == 1            \* _WRITE_RETRY_DELAY_SECONDS
LastAttempt == 3        \* 1 + _WRITE_RETRY_ATTEMPTS

ASSUME TimingAssumption ==
    /\ PollOption \in Nat
    /\ KeepaliveOption \in Nat \ {0}
    /\ TimeoutOption \in Nat
    /\ Response \in 0..ResponseTimeout
    /\ Verify \in Nat /\ Verify >= Response

\* update_interval of the coordinator.
PollInterval == IF PollOption < MinPoll THEN MinPoll ELSE PollOption

\* resolve_control_options: a timeout the keepalive cannot meet is replaced.
ControlTimeout ==
    IF TimeoutOption <= KeepaliveOption THEN 3 * KeepaliveOption ELSE TimeoutOption

VARIABLES
    phase,      \* what the poll task is doing
    timer,      \* for how long
    attempt,    \* attempt of the keepalive being sent
    age,        \* time since _last_keepalive
    left        \* control_time_left of the device; 0: it freed itself

vars == <<phase, timer, attempt, age, left>>

Phases == {"waiting", "sending", "answering", "pausing", "reading"}

\* A poll reads two services, a keepalive waits for one answer at a time; the
\* last attempt is answered, the others are given up at the timeout.
Limit(p) ==
    CASE p = "waiting" -> PollInterval
      [] p = "reading" -> 2 * Response
      [] p = "pausing" -> Pause
      [] OTHER -> IF attempt < LastAttempt THEN ResponseTimeout ELSE Response

TypeOK ==
    /\ phase \in Phases
    /\ timer \in 0..Limit(phase)
    /\ attempt \in 1..LastAttempt
    /\ age \in Nat
    /\ left \in 0..ControlTimeout

\* A setpoint has just been committed, somewhere between two keepalives; the
\* device executed it up to Verify before.
Init ==
    /\ phase \in {"waiting", "reading"}
    /\ timer \in 0..Limit(phase)
    /\ attempt = 1
    /\ age = 0
    /\ left \in 0..ControlTimeout
    /\ left >= ControlTimeout - Verify

Tick ==
    /\ timer < Limit(phase)
    /\ timer' = timer + 1
    /\ age' = age + 1
    /\ left' = IF left > 0 THEN left - 1 ELSE 0
    /\ UNCHANGED <<phase, attempt>>

Enter(p) == phase' = p /\ timer' = 0

\* Mutant: the keepalive waits for the timeout, not for its interval.
PollStartsAtTimeout ==
    /\ phase = "waiting"
    /\ timer = PollInterval
    /\ Enter(IF age >= ControlTimeout THEN "sending" ELSE "reading")
    /\ attempt' = 1
    /\ UNCHANGED <<age, left>>

\* The top of a poll: a keepalive that is not due is skipped.
PollStarts ==
    /\ phase = "waiting"
    /\ timer = PollInterval
    /\ Enter(IF age >= KeepaliveOption THEN "sending" ELSE "reading")
    /\ attempt' = 1
    /\ UNCHANGED <<age, left>>

\* The device executes the keepalive and starts its watchdog again.
Lands ==
    /\ phase = "sending"
    /\ phase' = "answering"
    /\ left' = ControlTimeout
    /\ UNCHANGED <<timer, attempt, age>>

Confirmed ==
    /\ phase = "answering"
    /\ timer <= Response
    /\ Enter("reading")
    /\ age' = 0
    /\ UNCHANGED <<attempt, left>>

\* Mutant: one attempt too many.
UnansweredOnceMore ==
    /\ phase \in {"sending", "answering"}
    /\ timer = Limit(phase)
    /\ attempt <= LastAttempt
    /\ Enter("pausing")
    /\ UNCHANGED <<attempt, age, left>>

\* No answer in time, whether or not the request was executed.
Unanswered ==
    /\ phase \in {"sending", "answering"}
    /\ timer = Limit(phase)
    /\ attempt < LastAttempt
    /\ Enter("pausing")
    /\ UNCHANGED <<attempt, age, left>>

Resend ==
    /\ phase = "pausing"
    /\ timer = Pause
    /\ Enter("sending")
    /\ attempt' = attempt + 1
    /\ UNCHANGED <<age, left>>

PollEnds ==
    /\ phase = "reading"
    /\ Enter("waiting")
    /\ UNCHANGED <<attempt, age, left>>

Next == Tick \/ PollStarts \/ Lands \/ Confirmed \/ Unanswered \/ Resend \/ PollEnds

Spec == Init /\ [][Next]_vars

-----------------------------------------------------------------------------
\* The longest time between two landings that can follow each other: a set is
\* committed Verify after it landed, one second too early for a poll, which
\* reads and waits before the next, whose last attempt is the one that lands.
LongestGap ==
    Verify + (KeepaliveOption - 1) + 2 * Response + PollInterval
    + (LastAttempt - 1) * (ResponseTimeout + Pause) + Response

\* "Refresh the active setpoint before the device watchdog expires": the
\* device never frees itself while its setpoint is being kept alive.
WatchdogNeverExpires == left > 0

=============================================================================
