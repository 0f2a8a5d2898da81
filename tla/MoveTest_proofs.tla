-------------------------- MODULE MoveTest_proofs --------------------------
(***************************************************************************)
(* Proofs about MoveTest for every resolution of the angles, every length  *)
(* of the stops and of the turn, and every set of headings and avoid       *)
(* angles.                                                                 *)
(***************************************************************************)
EXTENDS MoveTest, TLAPS

(* What the counters say of the setpoints without speed in each state.      *)
CountsAgree ==
    /\ mpc \in {"control", "origin", "takeoff", "climb"} => state = 0 /\ stop_counter = 0
    /\ state \in {0, 1, 3} => turn_counter = 0
    /\ tookOff => state = 1
    /\ state = 0 => still >= stop_counter
    /\ state = 2 => still >= StopMax + turn_counter /\ stop_counter = 0
    /\ state = 3 => still >= StopMax + TurnMax + stop_counter - StopBefore

LastCycleAligned == state = 2 /\ turn_counter = TurnMax => delta_yaw < Tolerance

FlightInv == TypeOK /\ CountsAgree /\ PausesBeforeFlight /\ LastCycleAligned

-----------------------------------------------------------------------------
(* calc_angle_diff corrects by one turn at most, and that is enough for a   *)
(* difference of two angles: the result is within pi and the same direction.*)
THEOREM DiffIsSameDirection ==
    ASSUME NEW a \in Angle, NEW b \in Angle
    PROVE  /\ calc_angle_diff(a - b) \in Angle
           /\ \E k \in {-1, 0, 1} : calc_angle_diff(a - b) = (a - b) + 2 * H * k
<1>1. a - b \in -2 * H .. 2 * H /\ H \in Nat /\ a - b \in Int
  BY AngleAssumption DEF Angle
<1> DEFINE d == a - b
<1>2. CASE d < -H
  BY <1>1, <1>2 DEF Angle, calc_angle_diff
<1>3. CASE H < d
  <2>1. calc_angle_diff(d) = d + 2 * H * (-1)
    BY <1>1, <1>3 DEF calc_angle_diff
  <2> QED
    BY <1>1, <1>3, <2>1 DEF Angle
<1>4. CASE d \in Angle
  <2>1. calc_angle_diff(d) = d + 2 * H * 0
    BY <1>1, <1>4 DEF calc_angle_diff, Angle
  <2> QED
    BY <1>1, <1>4, <2>1 DEF calc_angle_diff, Angle
<1> QED
  BY <1>1, <1>2, <1>3, <1>4 DEF Angle

LEMMA Starts == Init => FlightInv
<1> SUFFICES ASSUME Init PROVE FlightInv
  OBVIOUS
<1> USE AngleAssumption, CounterAssumption DEF Init
<1>1. 0 \in Altitude
  BY DEF Altitude, Altitudes
<1>2. TypeOK
  <2>1. AllStill \in Nat /\ 0 \in Angle
    BY DEF AllStill, Angle
  <2>2. stop_counter \in 0 .. StopMax /\ turn_counter \in 0 .. TurnMax /\ still \in 0 .. AllStill
    BY <2>1
  <2>3. state \in 0 .. 3
    OBVIOUS
  <2>5. tookOff \in BOOLEAN
    OBVIOUS
  <2>4. /\ mpc \in {"control", "origin", "takeoff", "climb", "loop", "ended"}
        /\ flight_status \in {"none", "ground", "air"}
    OBVIOUS
  <2> QED
    BY <1>1, <2>1, <2>2, <2>3, <2>4, <2>5 DEF TypeOK
<1>3. CountsAgree /\ PausesBeforeFlight /\ LastCycleAligned
  BY DEF CountsAgree, PausesBeforeFlight, LastCycleAligned
<1> QED
  BY <1>2, <1>3 DEF FlightInv

LEMMA KeepsType ==
    ASSUME TypeOK, CountsAgree, [Next]_vars
    PROVE  TypeOK'
<1> USE CounterAssumption DEF TypeOK, sensors, counters, history
<1>1. CASE ObtainsControl \/ SetsLocalPosition \/ TakeoffCalled \/ LoopEnds
  BY <1>1 DEF ObtainsControl, SetsLocalPosition, TakeoffCalled, LoopEnds
<1>12. CASE ClimbEnds
  <2>1. start_yaw' \in {start_yaw, heading} /\ state' \in {state, 1}
    BY <1>12 DEF ClimbEnds
  <2>2. tookOff' \in BOOLEAN
    BY <1>12 DEF ClimbEnds
  <2> QED
    BY <1>12, <2>1, <2>2 DEF ClimbEnds
<1>2. CASE Fly
  BY <1>2, DiffIsSameDirection DEF Fly
<1>3. CASE Stop
  BY <1>3 DEF Stop, Hovers, AllStill
<1>4. CASE StopEnds
  BY <1>4 DEF StopEnds
<1>5. CASE Turn
  BY <1>5, DiffIsSameDirection DEF Turn, Hovers, AllStill
<1>6. CASE TurnEnds
  BY <1>6 DEF TurnEnds
<1>7. ASSUME NEW a \in Headings, AttitudeArrives(a) PROVE TypeOK'
  <2>1. a \in Angle
    BY AngleAssumption
  <2> QED
    BY <1>7, <2>1, DiffIsSameDirection DEF AttitudeArrives
<1>8. CASE GpsArrives
  BY <1>8 DEF GpsArrives, Altitude
<1>9. CASE FlightStatusArrives
  BY <1>9 DEF FlightStatusArrives
<1>10. ASSUME NEW d \in AvoidAngles, AvoidDirecArrives(d) PROVE TypeOK'
  <2>1. d \in Angle
    BY AngleAssumption
  <2> QED
    BY <1>10, <2>1, DiffIsSameDirection DEF AvoidDirecArrives
<1>11. CASE UNCHANGED vars
  BY <1>11 DEF vars
<1> QED
  BY <1>1, <1>2, <1>3, <1>4, <1>5, <1>6, <1>7, <1>8, <1>9, <1>10, <1>11, <1>12 DEF Next, Cycle, Callback

LEMMA KeepsCounts ==
    ASSUME FlightInv, [Next]_vars
    PROVE  CountsAgree' /\ PausesBeforeFlight' /\ LastCycleAligned'
<1> USE CounterAssumption DEF FlightInv, CountsAgree, PausesBeforeFlight, LastCycleAligned
<1>1. CASE ObtainsControl \/ SetsLocalPosition \/ TakeoffCalled \/ LoopEnds
  BY <1>1 DEF ObtainsControl, SetsLocalPosition, TakeoffCalled, LoopEnds, sensors, counters, history
<1>2. CASE ClimbEnds
  BY <1>2 DEF ClimbEnds, sensors, counters
<1>3. CASE Fly
  BY <1>3 DEF Fly, InLoop, sensors, counters, history
<1>4. CASE Stop
  BY <1>4 DEF Stop, InLoop, Hovers, AllStill, TypeOK
<1>5. CASE StopEnds
  BY <1>5 DEF StopEnds, InLoop, AllStill, TypeOK, history
<1>6. CASE Turn
  <2>1. /\ state = 2 /\ state' = 2 /\ mpc' = mpc /\ tookOff' = tookOff /\ mpc = "loop"
        /\ stop_counter' = stop_counter /\ turn_counter < TurnMax
    BY <1>6 DEF Turn, InLoop
  <2>2. \/ turn_counter' = turn_counter
        \/ turn_counter' = turn_counter + 1 /\ delta_yaw' < Tolerance
    BY <1>6 DEF Turn, Aligned
  <2>3. still' >= StopMax + turn_counter'
    BY <1>6, <2>1, <2>2 DEF Turn, Hovers, AllStill, TypeOK
  <2> QED
    BY <2>1, <2>2, <2>3 DEF TypeOK
<1>7. CASE TurnEnds
  BY <1>7 DEF TurnEnds, InLoop, TypeOK, history
<1>8. CASE Callback
  BY <1>8 DEF Callback, AttitudeArrives, GpsArrives, FlightStatusArrives, AvoidDirecArrives,
              counters, history
<1>9. CASE UNCHANGED vars
  BY <1>9 DEF vars, counters, history
<1> QED
  BY <1>1, <1>2, <1>3, <1>4, <1>5, <1>6, <1>7, <1>8, <1>9 DEF Next, Cycle

LEMMA Invariance == Spec => []FlightInv
<1>1. FlightInv /\ [Next]_vars => FlightInv'
  BY KeepsType, KeepsCounts DEF FlightInv
<1> QED
  BY <1>1, Starts, PTL DEF Spec

(* Type correctness: every angle stays in -pi .. pi, for all headings and   *)
(* avoid angles, and the counters stop at their limits.                     *)
THEOREM TypeCorrect == Spec => []TypeOK
<1>1. FlightInv => TypeOK
  BY DEF FlightInv
<1> QED
  BY <1>1, Invariance, PTL

(* After a take-off that was reported as failed the drone stands still for  *)
(* a whole stop, turn and stop before it flies.                             *)
THEOREM FlightIsPaused == Spec => []PausesBeforeFlight
<1>1. FlightInv => PausesBeforeFlight
  BY DEF FlightInv
<1> QED
  BY <1>1, Invariance, PTL

(* No turn is left with a difference of 2 degrees or more.                  *)
THEOREM TurnsDoEndAligned == Spec => TurnsEndAligned
<1>1. FlightInv /\ [Next]_vars => [state = 2 /\ state' = 3 => delta_yaw < Tolerance]_vars
  <2> SUFFICES ASSUME FlightInv, Next, state = 2, state' = 3
               PROVE  delta_yaw < Tolerance
    BY DEF vars
  <2>1. TurnEnds
    BY DEF Next, Cycle, Callback, ObtainsControl, SetsLocalPosition, TakeoffCalled, ClimbEnds,
           LoopEnds, Fly, Stop, StopEnds, Turn, AttitudeArrives, GpsArrives,
           FlightStatusArrives, AvoidDirecArrives
  <2> QED
    BY <2>1 DEF TurnEnds, FlightInv, LastCycleAligned
<1> QED
  BY <1>1, Invariance, PTL DEF Spec, TurnsEndAligned
=============================================================================
