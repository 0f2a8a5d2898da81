------------------------------ MODULE MoveTest ------------------------------
(***************************************************************************)
(* move_test.cpp: the earlier autopilot, in C++.  One thread: callbacks    *)
(* run inside ros::spinOnce, between two cycles of the loop, in any number *)
(* and order.  move_test_to_goal.cpp has the same main; its                *)
(* obs_info_callback never sets target_yaw, so it is AvoidAngles = {}.     *)
(*                                                                         *)
(* Angles are integers, H units to pi; an altitude is on the ground, in    *)
(* the air, or 0 while no GPS message has come.  Speed is zero or not.     *)
(*                                                                         *)
(*   mpc            main: control, origin, takeoff, climb, loop, ended     *)
(*   flight_status  last status; "none" is the 255 of the constructor      *)
(*   altitude, home current_gps.altitude and takeoff's home_altitude       *)
(*   heading        current_RPY.z                                          *)
(*   start_yaw, current_yaw, target_yaw, delta_yaw, state, stop_counter,   *)
(*   turn_counter   members of Drone, 0 in a global object                 *)
(*   tookOff, still history: takeoff() returned true; setpoints without    *)
(*                  speed, counted up to AllStill                          *)
(***************************************************************************)
EXTENDS Integers

CONSTANTS H,            \* units of angle in pi
          Tolerance,    \* 2 degrees
          StopMax,      \* cycles of a stop (30)
          TurnMax,      \* aligned cycles of a turn (20)
          StopBefore,   \* what the stop after a turn counts from (10)
          Headings,     \* bound: yaws the attitude topic reports
          AvoidAngles   \* bound: angles on the avoid_direc topic

Angle == -H .. H
Altitudes == [none |-> 0, ground |-> 50, air |-> 52]
Altitude == {Altitudes.none, Altitudes.ground, Altitudes.air}

ASSUME AngleAssumption ==
    /\ H \in Nat \ {0} /\ Tolerance \in Nat \ {0}
    /\ Headings \subseteq Angle /\ AvoidAngles \subseteq Angle
ASSUME CounterAssumption ==
    /\ StopMax \in Nat /\ TurnMax \in Nat \ {0} /\ StopBefore \in 0 .. StopMax

VARIABLES mpc, flight_status, altitude, home, heading, start_yaw, current_yaw,
          target_yaw, delta_yaw, state, stop_counter, turn_counter,
          tookOff, still

sensors  == <<flight_status, altitude, heading, current_yaw>>
counters == <<stop_counter, turn_counter>>
history  == <<tookOff, still>>
vars == <<mpc, sensors, home, start_yaw, target_yaw, delta_yaw, state, counters, history>>

AllStill == StopMax + TurnMax + StopMax - StopBefore

TypeOK ==
    /\ mpc \in {"control", "origin", "takeoff", "climb", "loop", "ended"}
    /\ flight_status \in {"none", "ground", "air"}
    /\ altitude \in Altitude /\ home \in Altitude
    /\ heading \in Angle /\ start_yaw \in Angle
    /\ current_yaw \in Angle /\ target_yaw \in Angle /\ delta_yaw \in Angle
    /\ state \in 0 .. 3
    /\ stop_counter \in 0 .. StopMax /\ turn_counter \in 0 .. TurnMax
    /\ tookOff \in BOOLEAN /\ still \in 0 .. AllStill

-----------------------------------------------------------------------------
(* Mutant of calc_angle_diff: one side only.                                *)
diffFromRight(d) == IF H < d THEN d - 2 * H ELSE d

calc_angle_diff(d) ==
    IF d < -H THEN d + 2 * H ELSE IF H < d THEN d - 2 * H ELSE d

Init ==
    /\ mpc = "control"
    /\ flight_status = "none" /\ altitude = 0 /\ home = 0
    /\ heading = 0 /\ start_yaw = 0 /\ current_yaw = 0
    /\ target_yaw = 0 /\ delta_yaw = 0
    /\ state = 0 /\ stop_counter = 0 /\ turn_counter = 0
    /\ tookOff = FALSE /\ still = 0

-----------------------------------------------------------------------------
(* The services: main ignores the answer to obtain_control, ends without a  *)
(* position reference, and goes on in state 0 when takeoff returns false.   *)
ObtainsControl ==
    /\ mpc = "control" /\ mpc' = "origin"
    /\ UNCHANGED <<sensors, home, start_yaw, target_yaw, delta_yaw, state, counters, history>>

SetsLocalPosition ==
    /\ mpc = "origin" /\ mpc' \in {"takeoff", "ended"}
    /\ UNCHANGED <<sensors, home, start_yaw, target_yaw, delta_yaw, state, counters, history>>

TakeoffCalled ==
    /\ mpc = "takeoff" /\ mpc' \in {"climb", "loop"}
    /\ home' = altitude
    /\ UNCHANGED <<sensors, start_yaw, target_yaw, delta_yaw, state, counters, history>>

(* After 10 s of spinOnce.                                                  *)
ClimbEnds ==
    /\ mpc = "climb" /\ mpc' = "loop"
    /\ IF flight_status = "air" /\ altitude - home >= 1
         THEN start_yaw' = heading /\ state' = 1 /\ tookOff' = TRUE
         ELSE UNCHANGED <<start_yaw, state, tookOff>>
    /\ UNCHANGED <<sensors, home, target_yaw, delta_yaw, counters, still>>

LoopEnds ==
    /\ mpc = "loop" /\ flight_status # "air"
    /\ mpc' = "ended"
    /\ UNCHANGED <<sensors, home, start_yaw, target_yaw, delta_yaw, state, counters, history>>

-----------------------------------------------------------------------------
InLoop == mpc = "loop" /\ flight_status = "air"

Hovers == still' = IF still < AllStill THEN still + 1 ELSE still

Fly ==
    /\ InLoop /\ state = 1
    /\ delta_yaw' = calc_angle_diff(target_yaw - current_yaw)
    /\ UNCHANGED <<mpc, sensors, home, start_yaw, target_yaw, state, counters, history>>

Stop ==
    /\ InLoop /\ state \in {0, 3} /\ stop_counter < StopMax
    /\ stop_counter' = stop_counter + 1
    /\ Hovers
    /\ UNCHANGED <<mpc, sensors, home, start_yaw, target_yaw, delta_yaw, state,
                   turn_counter, tookOff>>

(* Mutant of StopEnds: the turn is left out.                                *)
StopEndsInFlight ==
    /\ InLoop /\ state \in {0, 3} /\ stop_counter = StopMax
    /\ state' = 1 /\ stop_counter' = 0
    /\ UNCHANGED <<mpc, sensors, home, start_yaw, target_yaw, delta_yaw,
                   turn_counter, history>>

StopEnds ==
    /\ InLoop /\ state \in {0, 3} /\ stop_counter = StopMax
    /\ state' = IF state = 0 THEN 2 ELSE 1
    /\ stop_counter' = 0
    /\ UNCHANGED <<mpc, sensors, home, start_yaw, target_yaw, delta_yaw,
                   turn_counter, history>>

(* Mutants of Aligned: every cycle counts; a negative difference does not.  *)
AlignedAlways(d) == TRUE
AlignedFromRight(d) == d \in 0 .. Tolerance - 1

(* std::abs(drone.delta_yaw < 2.0 * deg2rad): the absolute value is that of *)
(* the comparison, so any negative difference counts as aligned.            *)
Aligned(d) == d < Tolerance

Turn ==
    /\ InLoop /\ state = 2 /\ turn_counter < TurnMax
    /\ delta_yaw' = calc_angle_diff(target_yaw - current_yaw)
    /\ turn_counter' = IF Aligned(delta_yaw') THEN turn_counter + 1 ELSE turn_counter
    /\ Hovers
    /\ UNCHANGED <<mpc, sensors, home, start_yaw, target_yaw, state, stop_counter,
                   tookOff>>

TurnEnds ==
    /\ InLoop /\ state = 2 /\ turn_counter = TurnMax
    /\ state' = 3 /\ turn_counter' = 0 /\ stop_counter' = StopBefore
    /\ UNCHANGED <<mpc, sensors, home, start_yaw, target_yaw, delta_yaw, history>>

-----------------------------------------------------------------------------
Spinning == mpc \in {"climb", "loop"}

AttitudeArrives(a) ==
    /\ Spinning
    /\ heading' = a /\ current_yaw' = calc_angle_diff(a - start_yaw)
    /\ UNCHANGED <<mpc, flight_status, altitude, home, start_yaw, target_yaw, delta_yaw,
                   state, counters, history>>

GpsArrives ==
    /\ Spinning
    /\ altitude' \in {Altitudes.ground, Altitudes.air}
    /\ UNCHANGED <<mpc, flight_status, heading, current_yaw, home, start_yaw, target_yaw,
                   delta_yaw, state, counters, history>>

FlightStatusArrives ==
    /\ Spinning
    /\ flight_status' \in {"ground", "air"}
    /\ UNCHANGED <<mpc, altitude, heading, current_yaw, home, start_yaw, target_yaw,
                   delta_yaw, state, counters, history>>

(* In flight only: a turn keeps its target.                                 *)
AvoidDirecArrives(d) ==
    /\ Spinning /\ state = 1
    /\ target_yaw' = calc_angle_diff(current_yaw - d)
    /\ UNCHANGED <<mpc, sensors, home, start_yaw, delta_yaw, state, counters, history>>

Cycle == Fly \/ Stop \/ StopEnds \/ Turn \/ TurnEnds

Callback == \/ \E a \in Headings : AttitudeArrives(a)
            \/ GpsArrives \/ FlightStatusArrives
            \/ \E d \in AvoidAngles : AvoidDirecArrives(d)

Next == \/ ObtainsControl \/ SetsLocalPosition \/ TakeoffCalled \/ ClimbEnds \/ LoopEnds
        \/ Cycle \/ Callback

Spec == Init /\ [][Next]_vars

(* The loop goes round while main is in it; no message need ever come.      *)
FairSpec == Spec /\ WF_vars(LoopEnds \/ Cycle)

-----------------------------------------------------------------------------
(* When takeoff() has reported a failure, the drone, if it is in the air,   *)
(* does not fly before a whole stop, a whole turn and the stop after it:    *)
(* no counter starts from what an earlier phase left.                       *)
PausesBeforeFlight == state = 1 => tookOff \/ still = AllStill

(* A turn is left with the difference of its last cycle below 2 degrees;    *)
(* cycles in between may have been off, and to the right there is no limit. *)
TurnsEndAligned ==
    [][state = 2 /\ state' = 3 => delta_yaw < Tolerance]_vars

(* A turn that keeps coming back to less than 2 degrees ends, although the  *)
(* aligned cycles need not follow one another.                              *)
TurnEndsOnceAligned ==
    []<>(delta_yaw < Tolerance) => ((state = 2) ~> (state # 2 \/ mpc = "ended"))
=============================================================================
