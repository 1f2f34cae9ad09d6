------------------------ MODULE KeepaliveTimingProofs ------------------------
(***************************************************************************)
(* For every choice of options and response times: a control timeout above *)
(* LongestGap keeps the watchdog from expiring.                            *)
(***************************************************************************)
EXTENDS KeepaliveTiming, TLAPS

\* The longest age the last write can reach in each phase of a poll.
AgeBound ==
    LET due == (KeepaliveOption - 1) + 2 * Response + PollInterval
    IN  /\ phase = "reading" => age <= (KeepaliveOption - 1) + timer
        /\ phase = "waiting" => age <= (KeepaliveOption - 1) + 2 * Response + timer
        /\ phase \in {"sending", "answering"} =>
            /\ attempt = 1 => age <= due + timer
            /\ attempt = 2 => age <= due + ResponseTimeout + Pause + timer
            /\ attempt = 3 => age <= due + 2 * ResponseTimeout + 2 * Pause + timer
        /\ phase = "pausing" =>
            /\ attempt = 1 => age <= due + ResponseTimeout + timer
            /\ attempt = 2 => age <= due + 2 * ResponseTimeout + Pause + timer
            /\ attempt # 3

\* The watchdog was started Verify before the last commit at the earliest,
\* and within the present attempt when the device has executed it.
LeftBound ==
    /\ left >= ControlTimeout - Verify - age
    /\ phase = "answering" => left >= ControlTimeout - timer

Inv == TypeOK /\ AgeBound /\ LeftBound

\* The resolved options are numbers.
LEMMA OptionTypes == PollInterval \in Nat /\ ControlTimeout \in Nat
  BY TimingAssumption DEF PollInterval, MinPoll, ControlTimeout

\* A set that has just been committed satisfies the invariant.
LEMMA InvInit == Init => Inv
  BY TimingAssumption, OptionTypes
  DEF Init, Inv, TypeOK, AgeBound, LeftBound, Phases, Limit, LastAttempt, ResponseTimeout

\* Every step of the poll task and of the clock preserves the bounds.
LEMMA InvNext == Inv /\ [Next]_vars => Inv'
  <1> SUFFICES ASSUME Inv, [Next]_vars PROVE Inv'
    OBVIOUS
  <1> USE TimingAssumption, OptionTypes
      DEF Inv, TypeOK, AgeBound, LeftBound, Phases, Limit, LastAttempt, Pause, ResponseTimeout
  <1>1. CASE Tick
    BY <1>1 DEF Tick
  <1>2. CASE PollStarts
    BY <1>2 DEF PollStarts, Enter
  <1>3. CASE Lands
    BY <1>3 DEF Lands
  <1>4. CASE Confirmed
    BY <1>4 DEF Confirmed, Enter
  <1>5. CASE Unanswered
    BY <1>5 DEF Unanswered, Enter
  <1>6. CASE Resend
    BY <1>6 DEF Resend, Enter
  <1>7. CASE PollEnds
    BY <1>7 DEF PollEnds, Enter
  <1>8. CASE UNCHANGED vars
    BY <1>8 DEF vars
  <1> QED BY <1>1, <1>2, <1>3, <1>4, <1>5, <1>6, <1>7, <1>8 DEF Next

\* The bounds hold in every reachable state.
LEMMA Invariance == Spec => []Inv
  BY InvInit, InvNext, PTL DEF Spec

\* The types of the timers, for all options.
THEOREM TimingTypeCorrect == Spec => []TypeOK
  <1>1. Inv => TypeOK
    BY DEF Inv
  <1> QED BY <1>1, Invariance, PTL

\* With a timeout above the longest gap between two refreshes the device
\* never frees itself between them.
THEOREM WatchdogIsOutrun ==
    ASSUME ControlTimeout > LongestGap
    PROVE  Spec => []WatchdogNeverExpires
  <1>1. Inv => WatchdogNeverExpires
    <2> SUFFICES ASSUME Inv PROVE left > 0
      BY DEF WatchdogNeverExpires
    <2>1. age <= (KeepaliveOption - 1) + 2 * Response + PollInterval
                 + (LastAttempt - 1) * (ResponseTimeout + Pause) + Response
      BY TimingAssumption, OptionTypes
      DEF Inv, TypeOK, AgeBound, Phases, Limit, LastAttempt, Pause, ResponseTimeout
    <2> QED BY <2>1, TimingAssumption, OptionTypes
            DEF Inv, TypeOK, LeftBound, LongestGap, LastAttempt, Pause, ResponseTimeout
  <1> QED BY <1>1, Invariance, PTL

=============================================================================
