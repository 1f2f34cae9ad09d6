--------------------------- MODULE TrackingDetector --------------------------
(***************************************************************************)
(* The HEMS-conflict detector of the coordinator: it compares the power    *)
(* the battery delivers with the commanded setpoint at every good poll and *)
(* raises the alarm (control_blocked and its repair issue) when they stay  *)
(* apart.  The battery is external: it follows the setpoint within Settle, *)
(* or ignores it while the HEMS manages it.  Time counts in ticks, and at  *)
(* most one set is being read back at a time.                              *)
(***************************************************************************)
EXTENDS Integers

CONSTANTS
    Setpoints,      \* watts that are commanded, after the clamp
    OwnPowers,      \* what the battery delivers when it manages itself
    AppLimit,       \* largest power the app's own limit lets it deliver
    HemsModes,      \* values the app's 'HEMS Managed' switch may take
    Charges,        \* states of charge: "empty", "mid", "full"
    Faults,         \* whether inverter_state is a fault
    Grace,          \* _TRACK_SETTLE_GRACE_SECONDS, in ticks
    MinTicks,       \* _TRACK_MIN_SECONDS
    MinPolls,       \* _TRACK_MIN_POLLS
    PollTicks,      \* time between polls
    VerifyTicks,    \* longest readback between a landed set and its commit
    Settle,         \* longest time the battery takes to follow
    Disturbances,   \* what else may happen: "missed poll", "interference"
    None

ASSUME TrackingAssumption ==
    /\ Setpoints \subseteq Int
    /\ OwnPowers \subseteq Int
    /\ AppLimit \in Nat
    /\ HemsModes \subseteq BOOLEAN
    /\ Charges \subseteq {"empty", "mid", "full"}
    /\ Faults \subseteq BOOLEAN
    /\ Grace \in Nat /\ MinTicks \in Nat /\ MinPolls \in Nat
    /\ PollTicks \in Nat /\ VerifyTicks \in Nat /\ Settle \in Nat
    /\ Disturbances \subseteq {"missed poll", "interference"}
    /\ None \notin Int

VARIABLES
    commanded,      \* _commanded_setpoint
    pending,        \* a set that has landed and is being read back
    pendingAge,     \* for how long
    streak,         \* _track_streak up to MinPolls
    diverging,      \* time since _track_diverging_since, up to MinTicks
    changed,        \* time since _setpoint_changed_at, up to Patience
    blocked,        \* _control_blocked, and the repair issue with it
    held,           \* the setpoint the device holds
    output,         \* battery_power
    lag,            \* time the battery has been out of line with it
    hems,           \* 'HEMS Managed' is on
    charge,         \* battery_soc, against the two thresholds
    fault,          \* inverter_state reports a fault
    sincePoll       \* time since the last poll

coordVars   == <<commanded, pending, pendingAge, streak, diverging, changed, blocked>>
batteryVars == <<held, output, lag, hems, charge, fault>>
vars        == <<coordVars, batteryVars, sincePoll>>

Abs(n) == IF n < 0 THEN -n ELSE n
Least(m, n) == IF m < n THEN m ELSE n

Patience == Grace + MinTicks
Powers   == Setpoints \cup OwnPowers \cup {0, AppLimit, -AppLimit}

TypeOK ==
    /\ commanded \in Setpoints \cup {None}
    /\ pending \in Setpoints \cup {None}
    /\ pendingAge \in 0..VerifyTicks
    /\ streak \in 0..MinPolls
    /\ diverging \in (0..MinTicks) \cup {None}
    /\ changed \in 0..Patience
    /\ blocked \in BOOLEAN
    /\ held \in Setpoints \cup {None}
    /\ output \in Powers
    /\ lag \in 0..Settle
    /\ hems \in HemsModes
    /\ charge \in Charges
    /\ fault \in Faults
    /\ sincePoll \in 0..PollTicks

Init ==
    /\ commanded = None
    /\ pending = None
    /\ pendingAge = 0
    /\ streak = 0
    /\ diverging = None
    /\ changed = Patience
    /\ blocked = FALSE
    /\ held = None
    /\ output \in OwnPowers
    /\ lag = 0
    /\ hems \in HemsModes
    /\ charge \in Charges
    /\ fault \in Faults
    /\ sincePoll = 0

-----------------------------------------------------------------------------
(* The battery. *)

Saturated(watts) ==
    \/ charge = "full" /\ watts < 0
    \/ charge = "empty" /\ watts > 0

Limited(watts) ==
    IF watts > AppLimit THEN AppLimit
    ELSE IF watts < -AppLimit THEN -AppLimit ELSE watts

\* What the battery may deliver once it has settled.
Delivers(watts) ==
    \/ fault /\ watts = 0
    \/ ~fault /\ (hems \/ held = None) /\ watts \in OwnPowers
    \/ /\ ~fault /\ ~hems /\ held # None
       /\ watts = IF Saturated(held) THEN 0 ELSE Limited(held)

Settles ==
    /\ ~Delivers(output)
    /\ \E watts \in Powers : Delivers(watts) /\ output' = watts
    /\ lag' = 0
    /\ UNCHANGED <<coordVars, held, hems, charge, fault, sincePoll>>

\* The user, the sun or the inverter changes what the battery can do.
Surroundings ==
    /\ hems' \in HemsModes /\ charge' \in Charges /\ fault' \in Faults
    /\ UNCHANGED <<coordVars, held, output, lag, sincePoll>>

\* Mutant: no settle grace.
SuppressedWithoutGrace == Saturated(commanded) \/ fault

\* Polls that say nothing about the HEMS hold all state.
Suppressed == changed < Grace \/ Saturated(commanded) \/ fault

Later(age, bound) == IF age = None THEN None ELSE Least(age + 1, bound)

\* Mutant: a readback that waits for its answer without a timeout.
TickWithoutTimeout ==
    /\ sincePoll < PollTicks
    /\ ~Delivers(output) => lag < Settle
    /\ sincePoll' = sincePoll + 1
    /\ pendingAge' = IF pending = None THEN 0 ELSE pendingAge + 1
    /\ diverging' = Later(diverging, MinTicks)
    /\ changed' = Later(changed, Patience)
    /\ lag' = IF Delivers(output) THEN 0 ELSE lag + 1
    /\ UNCHANGED <<commanded, pending, streak, blocked, held, output, hems,
                   charge, fault>>

\* A poll is due after PollTicks, a readback ends within VerifyTicks, and the
\* battery settles within Settle: time waits for them.
Tick ==
    /\ sincePoll < PollTicks
    /\ pending # None => pendingAge < VerifyTicks
    /\ ~Delivers(output) => lag < Settle
    /\ sincePoll' = sincePoll + 1
    /\ pendingAge' = IF pending = None THEN 0 ELSE pendingAge + 1
    /\ diverging' = Later(diverging, MinTicks)
    /\ changed' = Later(changed, Patience)
    /\ lag' = IF Delivers(output) THEN 0 ELSE lag + 1
    /\ UNCHANGED <<commanded, pending, streak, blocked, held, output, hems,
                   charge, fault>>

-----------------------------------------------------------------------------
(* The coordinator. *)

\* A change inside the tolerance keeps the divergence streak going.
Material(watts) ==
    \/ commanded = None
    \/ (watts > 0) # (commanded > 0)
    \/ (watts < 0) # (commanded < 0)
    \/ Abs(watts - commanded) > 150 /\ 10 * Abs(watts - commanded) > Abs(watts)

\* Mutant: a material change restarts the grace and keeps the streak.
NoteSetpointChangeKeepingStreak(watts) ==
    IF Material(watts)
    THEN changed' = 0 /\ UNCHANGED <<streak, diverging>>
    ELSE UNCHANGED <<changed, streak, diverging>>

\* Mutant: every trim resets the streak.
NoteSetpointChangeResetting(watts) ==
    /\ changed' = IF Material(watts) THEN 0 ELSE changed
    /\ streak' = 0 /\ diverging' = None

NoteSetpointChange(watts) ==
    IF Material(watts)
    THEN changed' = 0 /\ streak' = 0 /\ diverging' = None
    ELSE UNCHANGED <<changed, streak, diverging>>

SetLands(watts) ==
    /\ pending = None
    /\ pending' = watts
    /\ pendingAge' = 0
    /\ held' = watts
    /\ UNCHANGED <<commanded, streak, diverging, changed, blocked, output, lag,
                   hems, charge, fault, sincePoll>>

SetCommits ==
    /\ pending # None
    /\ NoteSetpointChange(pending)
    /\ commanded' = pending
    /\ pending' = None
    /\ pendingAge' = 0
    /\ UNCHANGED <<blocked, batteryVars, sincePoll>>

\* Mutant: the streak ends, the alarm stays.
ClearTrackingKeepingAlarm ==
    streak' = 0 /\ diverging' = None /\ UNCHANGED blocked

ClearTracking == streak' = 0 /\ diverging' = None /\ blocked' = FALSE

\* The readback runs without the write lock: other writes may overtake it.
MayOvertake == pending = None \/ "interference" \in Disturbances

\* Mutant: a release ends the streak and leaves the alarm.
ReleaseKeepingAlarm ==
    /\ commanded # None
    /\ MayOvertake
    /\ commanded' = None
    /\ held' = None
    /\ streak' = 0 /\ diverging' = None
    /\ UNCHANGED <<pending, pendingAge, changed, blocked, output, lag, hems,
                   charge, fault, sincePoll>>

\* The 0 W hold of a release ends by itself.
ReleaseConfirmed ==
    /\ commanded # None
    /\ MayOvertake
    /\ commanded' = None
    /\ held' = None
    /\ ClearTracking
    /\ UNCHANGED <<pending, pendingAge, changed, output, lag, hems, charge, fault,
                   sincePoll>>

\* A keepalive sends the committed setpoint.
KeepaliveLands ==
    /\ commanded # None
    /\ held # commanded
    /\ MayOvertake
    /\ held' = commanded
    /\ UNCHANGED <<coordVars, output, lag, hems, charge, fault, sincePoll>>

\* A set whose reply was lost or whose caller was cancelled.
SetAbandoned ==
    /\ pending # None
    /\ "interference" \in Disturbances
    /\ pending' = None
    /\ pendingAge' = 0
    /\ UNCHANGED <<commanded, streak, diverging, changed, blocked, batteryVars,
                   sincePoll>>

Follows ==
    \/ Abs(output - commanded) <= 150
    \/ 10 * Abs(output - commanded) <= Abs(commanded)

\* Power in the commanded direction is an app limit, not a refusal.
InDirection == commanded # 0 /\ output * commanded > 0 /\ Abs(output) >= 100

CountDivergence ==
    /\ streak' = Least(streak + 1, MinPolls)
    /\ diverging' = IF diverging = None THEN 0 ELSE diverging
    /\ blocked' = (blocked \/ (streak' >= MinPolls /\ diverging' >= MinTicks))

EvaluateControlTracking ==
    \/ commanded = None /\ ClearTracking
    \/ commanded # None /\ Suppressed /\ UNCHANGED <<streak, diverging, blocked>>
    \/ commanded # None /\ ~Suppressed /\ (Follows \/ InDirection) /\ ClearTracking
    \/ commanded # None /\ ~Suppressed /\ ~Follows /\ ~InDirection /\ CountDivergence

GoodPoll ==
    /\ sincePoll = PollTicks
    /\ sincePoll' = 0
    /\ EvaluateControlTracking
    /\ UNCHANGED <<commanded, pending, pendingAge, changed, batteryVars>>

\* A failed poll, or a frame without battery_power.
PollWithoutPower ==
    /\ "missed poll" \in Disturbances
    /\ sincePoll = PollTicks
    /\ sincePoll' = 0
    /\ UNCHANGED <<coordVars, batteryVars>>

Next ==
    \/ Settles \/ Surroundings \/ Tick
    \/ \E watts \in Setpoints : SetLands(watts)
    \/ SetCommits \/ SetAbandoned \/ ReleaseConfirmed \/ KeepaliveLands
    \/ GoodPoll \/ PollWithoutPower

Spec     == Init /\ [][Next]_vars

(* Timers run, readbacks end, and of polls without end not all fail.       *)
LiveSpec ==
    /\ Spec
    /\ SF_vars(Tick) /\ WF_vars(SetCommits) /\ WF_vars(Settles)
    /\ WF_vars(GoodPoll \/ PollWithoutPower) /\ SF_vars(GoodPoll)

-----------------------------------------------------------------------------
\* The alarm and its repair issue exist only while a setpoint is held.
AlarmOnlyWhileControlling == blocked => commanded # None

\* The alarm takes the settle grace and the divergence time after the last
\* material change of the setpoint, whatever small trims come between.
AlarmTakesPatience == [][~blocked /\ blocked' => changed = Patience]_vars

\* A battery that follows within the settle grace is never reported, however
\* its setpoint is reversed or trimmed.  For instances without the HEMS, faults
\* and disturbances, with a steady charge, readbacks shorter than a poll
\* and trims that stay within the tolerance taken together.
NoFalseAlarm == ~blocked

\* A refusal that lasts is reported although trims keep coming.
Refused == commanded # None /\ ~Suppressed /\ ~Follows /\ ~InDirection

RefusalIsReported == <>[](Refused /\ changed = Patience) => <>[]blocked

\* The alarm ends when the battery follows again, or control is released.
AlarmEnds == <>[](commanded = None \/ (~Suppressed /\ Follows)) => <>[]~blocked

=============================================================================
