------------------------ MODULE TrackingDetectorProofs -----------------------
(***************************************************************************)
(* For every set of setpoints and all thresholds of the detector: the      *)
(* alarm is confined to control, and it takes the whole patience of the    *)
(* detector after the last material change.  A battery that follows within *)
(* the settle grace is never reported.                                     *)
(***************************************************************************)
EXTENDS TrackingDetector, TLAPS

\* The counters of TypeOK, and the rest of it.
Counters ==
    /\ pendingAge \in 0..VerifyTicks
    /\ streak \in 0..MinPolls
    /\ diverging \in (0..MinTicks) \cup {None}
    /\ changed \in 0..Patience
    /\ lag \in 0..Settle
    /\ sincePoll \in 0..PollTicks

Values ==
    /\ commanded \in Setpoints \cup {None}
    /\ pending \in Setpoints \cup {None}
    /\ blocked \in BOOLEAN
    /\ held \in Setpoints \cup {None}
    /\ output \in Powers
    /\ hems \in HemsModes
    /\ charge \in Charges
    /\ fault \in Faults

\* A divergence is only counted after the settle grace, and both clocks run
\* alike from then on; a material change stops the one and restarts the other.
Patient == diverging # None => changed >= Grace + diverging

Inv == Counters /\ Values /\ AlarmOnlyWhileControlling /\ Patient

\* The thresholds are numbers, and None is none.
Thresholds ==
    /\ Grace \in Nat /\ MinTicks \in Nat /\ MinPolls \in Nat /\ PollTicks \in Nat
    /\ VerifyTicks \in Nat /\ Settle \in Nat
    /\ Patience = Grace + MinTicks
    /\ None \notin Int

\* They are for every instance.
LEMMA ThresholdTypes == Thresholds
  <1>1. /\ Grace \in Nat /\ MinTicks \in Nat /\ MinPolls \in Nat /\ PollTicks \in Nat
        /\ VerifyTicks \in Nat /\ Settle \in Nat /\ None \notin Int
    BY TrackingAssumption
  <1> QED BY <1>1 DEF Patience, Thresholds

\* A setpoint is a number, so it is not None.
LEMMA SetpointsAreSome == \A w \in Setpoints : w # None
  BY TrackingAssumption, Zenon

\* A setpoint cut down to the app's limit is a power.
LEMMA LimitedIsPower == ASSUME NEW w \in Setpoints PROVE Limited(w) \in Powers
  BY Zenon DEF Limited, Powers

\* What the battery delivers once it has settled is a power.
LEMMA DeliversPower == ASSUME Values, NEW w, Delivers(w) PROVE w \in Powers
  <1>1. CASE w = 0
    BY <1>1, Zenon DEF Powers
  <1>2. CASE w \in OwnPowers
    BY <1>2, Zenon DEF Powers
  <1>3. CASE held # None /\ w = Limited(held)
    BY <1>3, LimitedIsPower, Zenon DEF Values
  <1> QED BY <1>1, <1>2, <1>3, Zenon DEF Delivers

\* The initial state satisfies the invariant.
LEMMA InvInit == Init => Inv
  <1> SUFFICES ASSUME Init PROVE Inv
    OBVIOUS
  <1>1. /\ pendingAge = 0 /\ streak = 0 /\ diverging = None /\ changed = Patience
        /\ lag = 0 /\ sincePoll = 0
    BY Zenon DEF Init
  <1>2. Counters /\ Patient
    BY <1>1, ThresholdTypes DEF Counters, Patient, Thresholds
  <1>3. Values /\ AlarmOnlyWhileControlling
    BY Zenon DEF Init, Values, AlarmOnlyWhileControlling, Powers
  <1> QED BY <1>2, <1>3, Zenon DEF Inv

\* A tick ages both clocks up to their bounds, which keeps them in order.
LEMMA TickInv == Inv /\ Tick => Inv'
  <1> SUFFICES ASSUME Inv, Tick PROVE Inv'
    OBVIOUS
  <1>1. Counters /\ Patient
    BY Zenon DEF Inv
  <1>2. /\ diverging' = Later(diverging, MinTicks) /\ changed' = Later(changed, Patience)
        /\ streak' = streak
    BY Zenon DEF Tick
  <1>3. /\ sincePoll < PollTicks /\ sincePoll' = sincePoll + 1
        /\ pendingAge' \in {0, pendingAge + 1} /\ lag' \in {0, lag + 1}
        /\ lag' = lag + 1 => lag < Settle \/ lag' = 0
        /\ pendingAge' = pendingAge + 1 => pendingAge < VerifyTicks \/ pendingAge' = 0
    BY Zenon DEF Tick
  <1>4. Counters' /\ Patient'
    BY <1>1, <1>2, <1>3, ThresholdTypes
    DEF Counters, Patient, Later, Least, Thresholds
  <1>5. Values' /\ AlarmOnlyWhileControlling'
    BY Zenon DEF Inv, Tick, Values, AlarmOnlyWhileControlling
  <1> QED BY <1>4, <1>5, Zenon DEF Inv

\* A commit names a setpoint, so that an alarm still has one, and restarts
\* the two clocks together or leaves both alone.
LEMMA SetCommitsInv == Inv /\ SetCommits => Inv'
  <1> SUFFICES ASSUME Inv, SetCommits PROVE Inv'
    OBVIOUS
  <1>1. /\ \/ changed' = 0 /\ streak' = 0 /\ diverging' = None
           \/ /\ changed' = changed /\ streak' = streak
              /\ diverging' = diverging
        /\ pendingAge' = 0 /\ lag' = lag /\ sincePoll' = sincePoll
    BY Zenon DEF SetCommits, NoteSetpointChange, batteryVars
  <1>2. Counters' /\ Patient'
    BY <1>1, ThresholdTypes DEF Inv, Counters, Patient, Thresholds
  <1>3. Values' /\ commanded' # None
    BY SetpointsAreSome, Zenon DEF Inv, Values, SetCommits, batteryVars
  <1> QED BY <1>2, <1>3, Zenon DEF Inv, AlarmOnlyWhileControlling

\* A poll that clears the tracking, or counts a divergence outside the grace.
LEMMA GoodPollInv == Inv /\ GoodPoll => Inv'
  <1> SUFFICES ASSUME Inv, GoodPoll PROVE Inv'
    OBVIOUS
  <1>1. /\ commanded' = commanded /\ pending' = pending /\ held' = held
        /\ output' = output /\ hems' = hems /\ charge' = charge /\ fault' = fault
        /\ pendingAge' = pendingAge /\ changed' = changed /\ lag' = lag /\ sincePoll' = 0
    BY Zenon DEF GoodPoll, batteryVars
  <1>2. CASE ClearTracking
    <2>1. Counters' /\ Patient'
      BY <1>1, <1>2, ThresholdTypes DEF ClearTracking, Inv, Counters, Patient, Thresholds
    <2> QED BY <1>1, <1>2, <2>1, Zenon
            DEF ClearTracking, Inv, Values, AlarmOnlyWhileControlling
  <1>3. CASE UNCHANGED <<streak, diverging, blocked>>
    <2>1. Counters' /\ Patient'
      BY <1>1, <1>3, ThresholdTypes DEF Inv, Counters, Patient, Thresholds
    <2> QED BY <1>1, <1>3, <2>1, Zenon DEF Inv, Values, AlarmOnlyWhileControlling
  <1>4. CASE commanded # None /\ ~Suppressed /\ CountDivergence
    <2>1. ~(changed < Grace)
      BY <1>4, Zenon DEF Suppressed
    <2>2. /\ streak' = Least(streak + 1, MinPolls)
          /\ diverging' = IF diverging = None THEN 0 ELSE diverging
      BY <1>4, Zenon DEF CountDivergence
    <2>3. Counters' /\ Patient'
      BY <1>1, <2>1, <2>2, ThresholdTypes DEF Inv, Counters, Patient, Least, Thresholds
    <2>4. blocked' \in BOOLEAN
      BY <1>4, Zenon DEF CountDivergence
    <2>5. Values' /\ AlarmOnlyWhileControlling'
      BY <1>1, <1>4, <2>4, Zenon DEF Inv, Values, AlarmOnlyWhileControlling
    <2> QED BY <2>3, <2>5, Zenon DEF Inv
  <1> QED BY <1>2, <1>3, <1>4, Zenon DEF GoodPoll, EvaluateControlTracking

\* Steps that leave the clocks and the alarm alone.
Aside ==
    /\ streak' = streak /\ diverging' = diverging /\ changed' = changed
    /\ blocked' = blocked
    /\ commanded' = commanded

\* A step aside keeps the invariant if it keeps the values in their sets.
LEMMA AsideInv ==
    ASSUME Inv, Aside, Values',
           pendingAge' \in {0, pendingAge}, lag' \in {0, lag}, sincePoll' \in {0, sincePoll}
    PROVE  Inv'
  <1>1. Counters' /\ Patient'
    BY ThresholdTypes DEF Inv, Aside, Counters, Patient, Thresholds
  <1>2. AlarmOnlyWhileControlling'
    BY Zenon DEF Inv, Aside, AlarmOnlyWhileControlling
  <1> QED BY <1>1, <1>2, Zenon DEF Inv

\* A release clears the alarm with the setpoint.
LEMMA ReleaseInv == Inv /\ ReleaseConfirmed => Inv'
  <1> SUFFICES ASSUME Inv, ReleaseConfirmed PROVE Inv'
    OBVIOUS
  <1>1. /\ streak' = 0 /\ diverging' = None /\ pendingAge' = pendingAge
        /\ changed' = changed /\ lag' = lag /\ sincePoll' = sincePoll
    BY Zenon DEF ReleaseConfirmed, ClearTracking
  <1>2. Counters' /\ Patient'
    BY <1>1, ThresholdTypes DEF Inv, Counters, Patient, Thresholds
  <1>3. Values' /\ AlarmOnlyWhileControlling'
    BY Zenon DEF Inv, Values, AlarmOnlyWhileControlling, ReleaseConfirmed, ClearTracking
  <1> QED BY <1>2, <1>3, Zenon DEF Inv

\* Every step keeps the invariant.
LEMMA InvNext == Inv /\ [Next]_vars => Inv'
  <1> SUFFICES ASSUME Inv, [Next]_vars PROVE Inv'
    OBVIOUS
  <1> USE DEF coordVars, batteryVars
  <1>1. CASE Settles
    <2>1. PICK w \in Powers : output' = w
      BY <1>1, Zenon DEF Settles
    <2>2. Values'
      BY <1>1, <2>1, Zenon DEF Settles, Inv, Values
    <2> QED BY <1>1, <2>2, AsideInv, Zenon DEF Settles, Aside
  <1>2. CASE Surroundings
    <2>1. Values'
      BY <1>2, Zenon DEF Surroundings, Inv, Values
    <2> QED BY <1>2, <2>1, AsideInv, Zenon DEF Surroundings, Aside
  <1>3. CASE Tick
    BY <1>3, TickInv
  <1>4. ASSUME NEW watts \in Setpoints, SetLands(watts) PROVE Inv'
    <2>1. Values'
      BY <1>4, Zenon DEF SetLands, Inv, Values
    <2> QED BY <1>4, <2>1, AsideInv, Zenon DEF SetLands, Aside
  <1>5. CASE SetCommits
    BY <1>5, SetCommitsInv
  <1>6. CASE SetAbandoned
    <2>1. Values'
      BY <1>6, Zenon DEF SetAbandoned, Inv, Values
    <2> QED BY <1>6, <2>1, AsideInv, Zenon DEF SetAbandoned, Aside
  <1>7. CASE ReleaseConfirmed
    BY <1>7, ReleaseInv
  <1>8. CASE KeepaliveLands
    <2>1. Values'
      BY <1>8, Zenon DEF KeepaliveLands, Inv, Values
    <2> QED BY <1>8, <2>1, AsideInv, Zenon DEF KeepaliveLands, Aside
  <1>9. CASE GoodPoll
    BY <1>9, GoodPollInv
  <1>10. CASE PollWithoutPower
    <2>1. Values'
      BY <1>10, Zenon DEF PollWithoutPower, Inv, Values
    <2> QED BY <1>10, <2>1, AsideInv, Zenon DEF PollWithoutPower, Aside
  <1>11. CASE UNCHANGED vars
    <2>1. Values'
      BY <1>11, Zenon DEF vars, Inv, Values
    <2> QED BY <1>11, <2>1, AsideInv, Zenon DEF vars, Aside
  <1> QED BY <1>1, <1>2, <1>3, <1>4, <1>5, <1>6, <1>7, <1>8, <1>9, <1>10, <1>11, Zenon
          DEF Next

\* The invariant holds in every reachable state.
LEMMA Invariance == Spec => []Inv
  BY InvInit, InvNext, PTL DEF Spec

\* The types of the detector's state, for every instance.
THEOREM TrackingTypeCorrect == Spec => []TypeOK
  <1>1. Inv => TypeOK
    BY Zenon DEF Inv, Counters, Values, TypeOK
  <1> QED BY <1>1, Invariance, PTL

\* The alarm never outlives control: every way out of control clears it.
THEOREM AlarmIsConfined == Spec => []AlarmOnlyWhileControlling
  <1>1. Inv => AlarmOnlyWhileControlling
    BY DEF Inv
  <1> QED BY <1>1, Invariance, PTL

\* No alarm is raised before the settle grace and the divergence time have
\* passed since the last material change.
THEOREM AlarmIsPatient == Spec => AlarmTakesPatience
  <1>1. Inv /\ [Next]_vars => [~blocked /\ blocked' => changed = Patience]_vars
    <2> SUFFICES ASSUME Inv, Next, ~blocked, blocked' PROVE changed = Patience
      BY Zenon
    <2>1. GoodPoll
      BY Zenon
      DEF Next, Settles, Surroundings, Tick, SetLands, SetCommits, SetAbandoned,
          ReleaseConfirmed, KeepaliveLands, PollWithoutPower, ClearTracking, coordVars
    <2>2. ~(changed < Grace) /\ CountDivergence
      BY <2>1, Zenon DEF GoodPoll, EvaluateControlTracking, ClearTracking, Suppressed
    <2>3. diverging' >= MinTicks /\ diverging' = IF diverging = None THEN 0 ELSE diverging
      BY <2>2, Zenon DEF CountDivergence
    <2> QED BY <2>2, <2>3, ThresholdTypes DEF Inv, Counters, Patient, Thresholds
  <1> QED BY <1>1, Invariance, PTL DEF Spec, AlarmTakesPatience

-----------------------------------------------------------------------------
(* An honest battery: nothing but setpoints moves it, it follows them      *)
(* within the settle grace, a readback is shorter than a poll, and being a *)
(* trim of each other is an equivalence of the commanded setpoints.        *)

\* The tolerance of _note_setpoint_change, from the setpoint a to b.
Trim(a, b) ==
    /\ (a > 0) <=> (b > 0)
    /\ (a < 0) <=> (b < 0)
    /\ ~(Abs(b - a) > 150 /\ 10 * Abs(b - a) > Abs(b))

Honest ==
    /\ Disturbances = {} /\ HemsModes = {FALSE} /\ Faults = {FALSE} /\ Charges = {"mid"}
    /\ Settle <= Grace /\ VerifyTicks < PollTicks
    /\ MinPolls >= 3 /\ AppLimit >= 100
    /\ \A a, b \in Setpoints : Trim(a, b) => Trim(b, a)
    /\ \A a, b, c \in Setpoints : Trim(a, b) /\ Trim(b, c) => Trim(a, c)

\* What a battery delivers that settled on a trim of the setpoint c.
Fits(watts, c) == \E s \in Setpoints : Trim(s, c) /\ watts = Limited(s)

\* The battery is told a setpoint that the detector does not judge by yet.
Ahead == commanded # None /\ pending # None /\ ~Trim(commanded, pending)

\* The battery has been out of line since the last material change at least;
\* once that has been counted, time waits for it before the next poll.
CatchingUp ==
    /\ output # Limited(held)
    /\ lag >= changed
    /\ streak = 1 => lag = Settle /\ sincePoll < PollTicks

\* At most one poll meets a battery that is still catching up, and at most one
\* more falls in the readback of the next setpoint: never MinPolls.
Harmless ==
    /\ held = IF pending # None THEN pending ELSE commanded
    /\ ~blocked
    /\ commanded = None => streak = 0
    /\ Ahead => streak <= 2 /\ (streak <= 1 \/ sincePoll <= pendingAge)
    /\ commanded # None /\ ~Ahead =>
           streak <= 1 /\ (Fits(output, commanded) \/ CatchingUp)

\* A setpoint is a trim of itself.
LEMMA TrimReflexive == \A a \in Setpoints : Trim(a, a)
  <1> TAKE a \in Setpoints
  <1>1. a \in Int
    BY TrackingAssumption, Zenon
  <1>2. Abs(a - a) = 0
    BY <1>1 DEF Abs
  <1>3. ~(Abs(a - a) > 150)
    BY <1>2
  <1> QED BY <1>3, Zenon DEF Trim

\* What is no trim is a material change, and the other way round.
LEMMA MaterialIsNoTrim ==
    ASSUME commanded \in Setpoints, NEW w \in Setpoints
    PROVE  Material(w) <=> ~Trim(commanded, w)
  <1>1. commanded \in Int /\ w \in Int /\ commanded # None
    BY TrackingAssumption
  <1> QED BY <1>1 DEF Material, Trim, Abs

\* Power that fits the commanded setpoint is never counted against it.
LEMMA FittingFollows ==
    ASSUME Honest, commanded \in Setpoints, Fits(output, commanded)
    PROVE  Follows \/ InDirection
  <1>1. PICK s \in Setpoints : Trim(s, commanded) /\ output = Limited(s)
    BY DEF Fits
  <1>2. s \in Int /\ commanded \in Int /\ AppLimit \in Nat /\ AppLimit >= 100
    BY TrackingAssumption DEF Honest
  <1>3. CASE s > AppLimit
    <2>1. output = AppLimit /\ commanded > 0
      BY <1>1, <1>2, <1>3 DEF Limited, Trim
    <2>2. output * commanded > 0
      BY <1>2, <2>1
    <2> QED BY <1>2, <2>1, <2>2 DEF InDirection, Abs
  <1>4. CASE s < -AppLimit
    <2>1. output = -AppLimit /\ commanded < 0
      BY <1>1, <1>2, <1>4 DEF Limited, Trim
    <2>2. output * commanded > 0
      BY <1>2, <2>1
    <2> QED BY <1>2, <2>1, <2>2 DEF InDirection, Abs
  <1>5. CASE ~(s > AppLimit) /\ ~(s < -AppLimit)
    <2>1. output = s
      BY <1>1, <1>5 DEF Limited
    <2> QED BY <1>1, <1>2, <2>1 DEF Follows, Trim, Abs
  <1> QED BY <1>3, <1>4, <1>5

\* The honest battery delivers what it is told, up to the app's limit.
LEMMA HonestDelivers ==
    ASSUME Honest, Values, held # None, NEW w
    PROVE  Delivers(w) <=> w = Limited(held)
  <1>1. ~hems /\ ~fault /\ charge = "mid"
    BY Zenon DEF Honest, Values
  <1>2. charge # "full" /\ charge # "empty"
    BY <1>1
  <1> QED BY <1>1, <1>2, Zenon DEF Delivers, Saturated

\* Initially nothing is commanded or held.
LEMMA HarmlessInit == Init => Harmless
  BY Zenon DEF Init, Harmless, Ahead

\* A settled battery fits what is commanded, except ahead of a commit.
LEMMA HarmlessSettles == Honest /\ Inv /\ Harmless /\ Settles => Harmless'
  <1> SUFFICES ASSUME Honest, Inv, Harmless, Settles PROVE Harmless'
    OBVIOUS
  <1>1. /\ commanded' = commanded /\ pending' = pending /\ pendingAge' = pendingAge
        /\ streak' = streak /\ blocked' = blocked /\ held' = held
        /\ sincePoll' = sincePoll
    BY Zenon DEF Settles, coordVars
  <1>2. ASSUME commanded # None, ~Ahead PROVE Fits(output', commanded)
    <2>1. held \in Setpoints /\ held # None /\ commanded \in Setpoints /\ Trim(commanded, held)
      BY <1>2, TrimReflexive, SetpointsAreSome, Zenon DEF Harmless, Ahead, Inv, Values
    <2>2. output' = Limited(held)
      BY <2>1, HonestDelivers, Zenon DEF Settles, Inv
    <2>3. Trim(held, commanded)
      BY <2>1, Zenon DEF Honest
    <2> QED BY <2>1, <2>2, <2>3, Zenon DEF Fits
  <1>3. Ahead' <=> Ahead
    BY <1>1, Zenon DEF Ahead
  <1> QED BY <1>1, <1>2, <1>3, Zenon DEF Harmless

\* Time does not pass for a battery that has used up its settling time.
LEMMA HarmlessTick == Honest /\ Inv /\ Harmless /\ Tick => Harmless'
  <1> SUFFICES ASSUME Honest, Inv, Harmless, Tick PROVE Harmless'
    OBVIOUS
  <1>1. /\ commanded' = commanded /\ pending' = pending /\ streak' = streak
        /\ blocked' = blocked /\ held' = held /\ output' = output
        /\ sincePoll' = sincePoll + 1 /\ sincePoll < PollTicks
        /\ changed' = Later(changed, Patience)
        /\ pending # None => pendingAge' = pendingAge + 1
    BY Zenon DEF Tick
  <1>2. Ahead' <=> Ahead
    BY <1>1, Zenon DEF Ahead
  <1>3. ASSUME Ahead PROVE streak' <= 2 /\ (streak' <= 1 \/ sincePoll' <= pendingAge')
    <2>1. pendingAge' = pendingAge + 1 /\ streak <= 2 /\ (streak <= 1 \/ sincePoll <= pendingAge)
      BY <1>1, <1>3, Zenon DEF Ahead, Harmless
    <2>2. pendingAge \in Nat /\ sincePoll \in Nat /\ streak \in Nat
      BY ThresholdTypes DEF Thresholds, Inv, Counters
    <2> QED BY <1>1, <2>1, <2>2
  <1>4. ASSUME commanded # None, ~Ahead, ~Fits(output, commanded) PROVE CatchingUp'
    <2>1. CatchingUp
      BY <1>4, Zenon DEF Harmless
    <2>2. held # None
      BY <1>4, SetpointsAreSome, Zenon DEF Harmless, Inv, Values
    <2>3. ~Delivers(output)
      BY <2>1, <2>2, HonestDelivers, Zenon DEF Inv, CatchingUp
    <2>4. lag < Settle /\ lag' = lag + 1
      BY <2>3, Zenon DEF Tick
    <2>5. lag \in Nat /\ Settle \in Nat /\ changed \in 0..Patience /\ Patience \in Nat
          /\ None \notin Int
      BY ThresholdTypes DEF Thresholds, Inv, Counters
    <2>6. lag # Settle /\ lag >= changed /\ changed # None
      BY <2>1, <2>4, <2>5 DEF CatchingUp
    <2>7. changed' <= changed + 1 /\ changed' \in Int
      BY <1>1, <2>5, <2>6 DEF Later, Least
    <2>8. lag' >= changed'
      BY <2>4, <2>5, <2>6, <2>7
    <2>9. streak # 1
      BY <2>1, <2>6, Zenon DEF CatchingUp
    <2> QED BY <1>1, <2>1, <2>8, <2>9, Zenon DEF CatchingUp
  <1>5. commanded # None /\ ~Ahead => streak <= 1
    BY Zenon DEF Harmless
  <1>6. Harmless => (held = IF pending # None THEN pending ELSE commanded)
                    /\ ~blocked /\ (commanded = None => streak = 0)
    BY Zenon DEF Harmless
  <1> QED BY <1>1, <1>2, <1>3, <1>4, <1>5, <1>6, Zenon DEF Harmless

\* A trim leaves the battery's power fitting, or the battery catching up; any
\* other setpoint is ahead of its commit.
LEMMA HarmlessSetLands ==
    ASSUME Honest, Inv, Harmless, NEW w \in Setpoints, SetLands(w)
    PROVE  Harmless'
  <1>1. /\ commanded' = commanded /\ pending = None /\ pending' = w /\ pendingAge' = 0
        /\ streak' = streak /\ blocked' = blocked /\ held' = w /\ output' = output
        /\ changed' = changed /\ lag' = lag /\ sincePoll' = sincePoll
    BY Zenon DEF SetLands
  <1>2. w # None /\ ~Ahead
    BY <1>1, SetpointsAreSome, Zenon DEF Ahead
  <1>3. commanded # None => streak <= 1 /\ (Fits(output, commanded) \/ CatchingUp)
    BY <1>2, Zenon DEF Harmless
  <1>4. streak <= 1 => streak <= 2
    BY ThresholdTypes DEF Thresholds, Inv, Counters
  <1>5. ASSUME commanded # None, ~Ahead', ~Fits(output, commanded) PROVE CatchingUp'
    <2>1. commanded \in Setpoints /\ Trim(commanded, w)
      BY <1>1, <1>2, <1>5, Zenon DEF Ahead, Inv, Values
    <2>2. Trim(w, commanded)
      BY <2>1, Zenon DEF Honest
    <2>3. output # Limited(w)
      BY <1>5, <2>2, Zenon DEF Fits
    <2> QED BY <1>1, <1>3, <1>5, <2>3, Zenon DEF CatchingUp
  <1>6. commanded' = None => streak' = 0
    BY <1>1, Zenon DEF Harmless
  <1>7. ~blocked'
    BY <1>1, Zenon DEF Harmless
  <1> QED BY <1>1, <1>2, <1>3, <1>4, <1>5, <1>6, <1>7, Zenon DEF Harmless, Ahead

\* A material commit starts a new grace with the battery perhaps out of line;
\* a trim changes nothing, since what fits one setpoint fits its trims.
LEMMA HarmlessSetCommits == Honest /\ Inv /\ Harmless /\ SetCommits => Harmless'
  <1> SUFFICES ASSUME Honest, Inv, Harmless, SetCommits PROVE Harmless'
    OBVIOUS
  <1>1. /\ pending # None /\ commanded' = pending /\ pending' = None /\ blocked' = blocked
        /\ held' = held /\ output' = output /\ lag' = lag /\ sincePoll' = sincePoll
    BY Zenon DEF SetCommits, batteryVars
  <1>2. pending \in Setpoints /\ held = pending /\ ~blocked
    BY <1>1, Zenon DEF Inv, Values, Harmless
  <1>3. ~Ahead'
    BY <1>1, Zenon DEF Ahead
  <1>4. ASSUME ~Fits(output, pending) PROVE output # Limited(held)
    BY <1>2, <1>4, TrimReflexive, Zenon DEF Fits
  <1>5. CASE Material(pending)
    <2>1. changed' = 0 /\ streak' = 0
      BY <1>5, Zenon DEF SetCommits, NoteSetpointChange
    <2>2. lag' >= changed' /\ streak' <= 1 /\ streak' # 1
      BY <1>1, <2>1, ThresholdTypes DEF Thresholds, Inv, Counters
    <2>3. ~Fits(output, pending) => CatchingUp'
      BY <1>1, <1>4, <2>2, Zenon DEF CatchingUp
    <2> QED BY <1>1, <1>2, <1>3, <2>1, <2>2, <2>3, Zenon DEF Harmless
  <1>6. CASE ~Material(pending)
    <2>1. changed' = changed /\ streak' = streak
      BY <1>6, Zenon DEF SetCommits, NoteSetpointChange
    <2>2. commanded # None
      BY <1>6, Zenon DEF Material
    <2>3. commanded \in Setpoints
      BY <2>2, Zenon DEF Inv, Values
    <2>4. Trim(commanded, pending)
      BY <1>2, <1>6, <2>3, MaterialIsNoTrim, Zenon
    <2>5. streak <= 1 /\ (Fits(output, commanded) \/ CatchingUp)
      BY <2>2, <2>4, Zenon DEF Harmless, Ahead
    <2>6. Fits(output, commanded) => Fits(output, pending)
      BY <1>2, <2>3, <2>4, Zenon DEF Fits, Honest
    <2>7. CatchingUp => CatchingUp'
      BY <1>1, <2>1, Zenon DEF CatchingUp
    <2> QED BY <1>1, <1>2, <1>3, <2>1, <2>5, <2>6, <2>7, Zenon DEF Harmless
  <1> QED BY <1>5, <1>6

\* A poll counts at most once against a battery that is catching up, and once
\* more ahead of a commit.
LEMMA HarmlessGoodPoll == Honest /\ Inv /\ Harmless /\ GoodPoll => Harmless'
  <1> SUFFICES ASSUME Honest, Inv, Harmless, GoodPoll PROVE Harmless'
    OBVIOUS
  <1>1. /\ commanded' = commanded /\ pending' = pending /\ pendingAge' = pendingAge
        /\ held' = held /\ output' = output /\ changed' = changed /\ lag' = lag
        /\ sincePoll = PollTicks /\ sincePoll' = 0
    BY Zenon DEF GoodPoll, batteryVars
  <1>2. Ahead' <=> Ahead
    BY <1>1, Zenon DEF Ahead
  <1>3. /\ held = IF pending # None THEN pending ELSE commanded
        /\ ~blocked
        /\ commanded = None => streak = 0
        /\ Ahead => streak <= 2 /\ (streak <= 1 \/ sincePoll <= pendingAge)
        /\ commanded # None /\ ~Ahead =>
               streak <= 1 /\ (Fits(output, commanded) \/ CatchingUp)
    BY Zenon DEF Harmless
  <1>4. /\ streak \in Nat /\ pendingAge \in Nat /\ pendingAge <= VerifyTicks
        /\ sincePoll \in Nat /\ changed \in Nat /\ lag \in Nat /\ lag <= Settle
        /\ VerifyTicks \in Nat /\ PollTicks \in Nat /\ Settle \in Nat /\ Grace \in Nat
        /\ MinPolls \in Nat
    BY ThresholdTypes DEF Thresholds, Inv, Counters
  <1>5. MinPolls >= 3 /\ VerifyTicks < PollTicks /\ Settle <= Grace
    BY DEF Honest
  <1>6. 0 < PollTicks /\ ~(sincePoll < PollTicks) /\ ~(sincePoll <= pendingAge)
        /\ 0 <= pendingAge
    BY <1>1, <1>4, <1>5
  <1>7. CASE ClearTracking
    <2>1. streak' = 0 /\ ~blocked'
      BY <1>7, Zenon DEF ClearTracking
    <2>2. streak' <= 2 /\ streak' <= 1 /\ streak' # 1
      BY <2>1
    <2>3. CatchingUp => CatchingUp'
      BY <1>1, <2>2, Zenon DEF CatchingUp
    <2> QED BY <1>1, <1>2, <1>3, <2>1, <2>2, <2>3, Zenon DEF Harmless
  <1>8. CASE UNCHANGED <<streak, diverging, blocked>>
    <2>1. CatchingUp => CatchingUp'
      BY <1>1, <1>6, <1>8, Zenon DEF CatchingUp
    <2>2. Ahead => streak <= 2 /\ (streak <= 1 \/ sincePoll' <= pendingAge')
      BY <1>1, <1>3, <1>6, Zenon
    <2> QED BY <1>1, <1>2, <1>3, <1>8, <2>1, <2>2, Zenon DEF Harmless
  <1>9. CASE commanded # None /\ ~Suppressed /\ ~Follows /\ ~InDirection /\ CountDivergence
    <2>1. commanded \in Setpoints
      BY <1>9, Zenon DEF Inv, Values
    <2>2. ~Fits(output, commanded)
      BY <1>9, <2>1, FittingFollows, Zenon
    <2>3. ~(changed < Grace)
      BY <1>9, Zenon DEF Suppressed
    <2>4. streak' = Least(streak + 1, MinPolls)
          /\ (blocked' => blocked \/ streak' >= MinPolls)
      BY <1>9, Zenon DEF CountDivergence
    <2>5. CASE Ahead
      <3>1. streak <= 1
        BY <1>3, <1>6, <2>5, Zenon
      <3>2. streak' <= 2 /\ ~(streak' >= MinPolls)
        BY <1>4, <1>5, <2>4, <3>1 DEF Least
      <3> QED BY <1>1, <1>2, <1>3, <1>6, <1>9, <2>4, <2>5, <3>2, Zenon DEF Harmless
    <2>6. CASE ~Ahead
      <3>1. CatchingUp /\ streak <= 1
        BY <1>3, <1>9, <2>2, <2>6, Zenon
      <3>2. streak # 1 /\ lag >= changed
        BY <1>6, <3>1, Zenon DEF CatchingUp
      <3>3. streak' = 1 /\ ~(streak' >= MinPolls) /\ streak' <= 1
        BY <1>4, <1>5, <2>4, <3>1, <3>2 DEF Least
      <3>4. lag = Settle
        BY <1>4, <1>5, <2>3, <3>2
      <3>5. CatchingUp'
        BY <1>1, <1>6, <3>1, <3>4, Zenon DEF CatchingUp
      <3> QED BY <1>1, <1>2, <1>3, <1>9, <2>4, <2>6, <3>3, <3>5, Zenon DEF Harmless
    <2> QED BY <2>5, <2>6
  <1> QED BY <1>7, <1>8, <1>9, Zenon DEF GoodPoll, EvaluateControlTracking

\* A release ends the control, and with it the streak.
LEMMA HarmlessRelease == Honest /\ Harmless /\ ReleaseConfirmed => Harmless'
  <1> SUFFICES ASSUME Honest, Harmless, ReleaseConfirmed PROVE Harmless'
    OBVIOUS
  <1>1. pending = None
    BY Zenon DEF ReleaseConfirmed, MayOvertake, Honest
  <1> QED BY <1>1, Zenon DEF ReleaseConfirmed, ClearTracking, Harmless, Ahead

\* Every step of the honest instance is harmless.
LEMMA HarmlessNext == Honest /\ Inv /\ Harmless /\ [Next]_vars => Harmless'
  <1> SUFFICES ASSUME Honest, Inv, Harmless, [Next]_vars PROVE Harmless'
    OBVIOUS
  <1>1. ASSUME UNCHANGED <<coordVars, held, output, lag, sincePoll>> PROVE Harmless'
    <2>1. UNCHANGED <<commanded, pending, pendingAge, streak, changed, blocked, held,
                      output, lag, sincePoll>>
      BY <1>1, Zenon DEF coordVars
    <2> QED BY <2>1, Zenon DEF Harmless, Ahead, CatchingUp
  <1>2. CASE Settles
    BY <1>2, HarmlessSettles
  <1>3. CASE Surroundings
    BY <1>1, <1>3, Zenon DEF Surroundings
  <1>4. CASE Tick
    BY <1>4, HarmlessTick
  <1>5. ASSUME NEW watts \in Setpoints, SetLands(watts) PROVE Harmless'
    BY <1>5, HarmlessSetLands
  <1>6. CASE SetCommits
    BY <1>6, HarmlessSetCommits
  <1>7. CASE SetAbandoned
    BY <1>7, Zenon DEF SetAbandoned, Honest
  <1>8. CASE ReleaseConfirmed
    BY <1>8, HarmlessRelease
  <1>9. CASE KeepaliveLands
    BY <1>9, Zenon DEF KeepaliveLands, MayOvertake, Honest, Harmless
  <1>10. CASE GoodPoll
    BY <1>10, HarmlessGoodPoll
  <1>11. CASE PollWithoutPower
    BY <1>11, Zenon DEF PollWithoutPower, Honest
  <1>12. CASE UNCHANGED vars
    BY <1>1, <1>12, Zenon DEF vars, batteryVars
  <1> QED BY <1>2, <1>3, <1>4, <1>5, <1>6, <1>7, <1>8, <1>9, <1>10, <1>11, <1>12, Zenon
          DEF Next

\* A battery that follows within the settle grace is never reported, whatever
\* reversals, trims and releases the user orders.
THEOREM HonestIsNeverReported == ASSUME Honest PROVE Spec => []NoFalseAlarm
  <1>1. Init => Inv /\ Harmless
    BY InvInit, HarmlessInit
  <1>2. Inv /\ Harmless /\ [Next]_vars => (Inv /\ Harmless)'
    BY InvNext, HarmlessNext
  <1>3. Inv /\ Harmless => NoFalseAlarm
    BY DEF Harmless, NoFalseAlarm
  <1> QED BY <1>1, <1>2, <1>3, PTL DEF Spec

=============================================================================
