---------------------------- MODULE DroneControl ----------------------------
(***************************************************************************)
(* drone_python.py: the autopilot of the flight controller Pi.  rospy runs *)
(* each subscriber and each timer in a thread of its own, all on one Drone *)
(* object and without a lock; a step below is what a thread does between   *)
(* two accesses to an attribute that another thread writes; the two reads  *)
(* of one expression, target_yaw - RPY[2], are one step.  A local variable *)
(* of a callback that has returned is 0 here.                              *)
(*                                                                         *)
(* Angles are integers, H units to pi.  A position is abstracted to what   *)
(* flyCallback computes from it: is it 7.5 m or more from center_pos, and  *)
(* in which direction is the center.  Speed is abstracted to zero or not   *)
(* (calcFlyingSpeed never returns less than v_min = 0.05).                 *)
(*                                                                         *)
(*   mpc           main: authorize, origin, takeoff, sleep, fly, stopped   *)
(*   start_yaw, rotation_matrix, yaw, pos, target_yaw, U_turn_flg,         *)
(*   stop_count    attributes of Drone (yaw is RPY[2]; None: not yet set)  *)
(*   apc, att      thread of attitudeCallback and its local yaw            *)
(*   vpc, turnTo   thread of AvoidDirecCallback and the angle it computed  *)
(*   fpc, center, delta, toward   thread of flyCallback, its pos_diff, its *)
(*                 delta_yaw and the target that delta was computed from   *)
(*   cmd           the last published setpoint                             *)
(*   hovered, undisturbed, callbackError   history: zero-speed setpoints   *)
(*                 since the last full hover; no other thread wrote the    *)
(*                 target or the yaw during the cycle; a callback raised   *)
(***************************************************************************)
EXTENDS Integers

CONSTANTS H,              \* units of angle in pi
          StopMax,        \* stop_count_max, 500 cycles of 0.02 s in the code
          Headings,       \* bound: yaws the attitude topic reports
          AvoidAngles,    \* bound: angles on the avoid_direc topic
          Places,         \* bound: positions, records [far, direc]
          LogMayFail      \* may opening speed_log.txt raise?

Angle == -H .. H

ASSUME HAssumption == H \in Nat \ {0} /\ H % 4 = 0
ASSUME StopAssumption == StopMax \in Nat \ {0}
ASSUME InputAssumption ==
    /\ Headings \subseteq Angle /\ AvoidAngles \subseteq Int
    /\ Places \subseteq [far : BOOLEAN, direc : Angle]
    /\ LogMayFail \in BOOLEAN

VARIABLES mpc, start_yaw, rotation_matrix, yaw, pos, target_yaw, U_turn_flg, stop_count,
          apc, att, vpc, turnTo, fpc, center, delta, toward, cmd,
          hovered, undisturbed, callbackError

frame    == <<start_yaw, rotation_matrix>>
attitude == <<apc, att>>
avoid    == <<vpc, turnTo>>
turn     == <<U_turn_flg, stop_count>>
fly      == <<fpc, center, delta, toward, cmd>>
history  == <<hovered, undisturbed, callbackError>>
vars     == <<mpc, frame, yaw, pos, target_yaw, turn, attitude, avoid, fly, history>>

None == H + 1

(* self.pos starts at the take-off point, 7 m from center_pos.              *)
TakeOffPoint == [far |-> FALSE, direc |-> 0]

TypeOK ==
    /\ mpc \in {"authorize", "origin", "takeoff", "sleep", "fly", "stopped"}
    /\ start_yaw \in Angle \cup {None} /\ rotation_matrix \in BOOLEAN
    /\ yaw \in Angle /\ target_yaw \in Angle
    /\ pos \in Places \cup {TakeOffPoint} /\ center \in Places \cup {TakeOffPoint}
    /\ U_turn_flg \in {0, 1} /\ stop_count \in 0 .. StopMax - 1
    /\ apc \in {"idle", "matrix", "rpy"} /\ att \in Angle
    /\ vpc \in {"idle", "write"} /\ turnTo \in Angle
    /\ fpc \in {"idle", "retarget", "check", "delta", "publish", "dead"}
    /\ delta \in Angle /\ toward \in Angle
    /\ cmd \in [forward : BOOLEAN, yaw_rate : Angle]
    /\ hovered \in 0 .. StopMax - 1 /\ undisturbed \in BOOLEAN /\ callbackError \in BOOLEAN

-----------------------------------------------------------------------------
Wraps(d) == (d + 2 * H - 1) \div (2 * H)

(* Mutant of transAngleRange: the first of the two loops is missing.        *)
OneSidedRange(a) ==
    IF a > H THEN a - 2 * H * Wraps(a - H) ELSE a

transAngleRange(a) ==
    IF a < -H THEN a + 2 * H * Wraps(-H - a)
    ELSE IF a > H THEN a - 2 * H * Wraps(a - H)
    ELSE a

Magnitude(a) == IF a < 0 THEN -a ELSE a

(* A yaw difference that calls for a U-turn, more than pi/4.                *)
OffCourse(a) == Magnitude(a) > H \div 4

Init ==
    /\ mpc = "authorize"
    /\ start_yaw = None /\ rotation_matrix = FALSE
    /\ yaw = 0 /\ target_yaw = 0
    /\ pos = TakeOffPoint /\ center = TakeOffPoint
    /\ U_turn_flg = 0 /\ stop_count = 0
    /\ apc = "idle" /\ att = 0
    /\ vpc = "idle" /\ turnTo = 0
    /\ fpc = "idle" /\ delta = 0 /\ toward = 0
    /\ cmd = [forward |-> FALSE, yaw_rate |-> 0]
    /\ hovered = 0 /\ undisturbed = TRUE /\ callbackError = FALSE

-----------------------------------------------------------------------------
(* main, authorize, setOriginPos, takeoff, startFly: each service answers   *)
(* true, or it fails (false, an exception, a time-out) and the program ends.*)
ServiceSucceeds ==
    /\ \/ mpc = "authorize" /\ mpc' = "origin"
       \/ mpc = "origin" /\ mpc' = "takeoff"
       \/ mpc = "takeoff" /\ mpc' = "sleep"
    /\ UNCHANGED <<frame, yaw, pos, target_yaw, turn, attitude, avoid, fly, history>>

ServiceFails ==
    /\ mpc \in {"authorize", "origin", "takeoff"}
    /\ mpc' = "stopped"
    /\ UNCHANGED <<frame, yaw, pos, target_yaw, turn, attitude, avoid, fly, history>>

StartTimers ==
    /\ mpc = "sleep"
    /\ mpc' = "fly"
    /\ UNCHANGED <<frame, yaw, pos, target_yaw, turn, attitude, avoid, fly, history>>

Running == mpc # "stopped"

-----------------------------------------------------------------------------
(* attitudeCallback: the first message defines start_yaw and, one           *)
(* assignment later, rotation_matrix.                                       *)
AttitudeArrives(a) ==
    /\ Running /\ apc = "idle"
    /\ att' = a
    /\ IF start_yaw = None
         THEN start_yaw' = a /\ apc' = "matrix"
         ELSE UNCHANGED start_yaw /\ apc' = "rpy"
    /\ UNCHANGED <<mpc, rotation_matrix, yaw, pos, target_yaw, turn, avoid, fly, history>>

AttitudeSetsMatrix ==
    /\ Running /\ apc = "matrix"
    /\ rotation_matrix' = TRUE
    /\ apc' = "rpy"
    /\ UNCHANGED <<mpc, start_yaw, yaw, pos, target_yaw, turn, att, avoid, fly, history>>

AttitudeSetsYaw ==
    /\ Running /\ apc = "rpy"
    /\ yaw' = transAngleRange(att - start_yaw)
    /\ apc' = "idle" /\ att' = 0
    /\ undisturbed' = FALSE
    /\ UNCHANGED <<mpc, frame, pos, target_yaw, turn, avoid, fly, hovered, callbackError>>

(* localPositionCallback: nothing until start_yaw is set; np.dot raises     *)
(* while rotation_matrix is still None, and rospy drops the message.        *)
PositionArrives(p) ==
    /\ Running /\ start_yaw # None
    /\ IF rotation_matrix
         THEN pos' = p /\ UNCHANGED callbackError
         ELSE callbackError' = TRUE /\ UNCHANGED pos
    /\ UNCHANGED <<mpc, frame, yaw, target_yaw, turn, attitude, avoid, fly,
                   hovered, undisturbed>>

(* AvoidDirecCallback: the angle is relative to the yaw of this moment.     *)
AvoidDirecReads(d) ==
    /\ Running /\ vpc = "idle"
    /\ turnTo' = transAngleRange(d + yaw)
    /\ vpc' = "write"
    /\ UNCHANGED <<mpc, frame, yaw, pos, target_yaw, turn, attitude, fly, history>>

AvoidDirecWrites ==
    /\ Running /\ vpc = "write"
    /\ target_yaw' = turnTo
    /\ vpc' = "idle" /\ turnTo' = 0
    /\ undisturbed' = FALSE
    /\ UNCHANGED <<mpc, frame, yaw, pos, turn, attitude, fly, hovered, callbackError>>

-----------------------------------------------------------------------------
(* flyCallback, one cycle of the 50 Hz timer.                               *)
FlyReadsPosition ==
    /\ mpc = "fly" /\ fpc = "idle"
    /\ center' = pos
    /\ fpc' = IF pos.far THEN "retarget" ELSE "delta"
    /\ undisturbed' = TRUE
    /\ UNCHANGED <<mpc, frame, yaw, pos, target_yaw, turn, attitude, avoid,
                   delta, toward, cmd, hovered, callbackError>>

FlyRetargets ==
    /\ fpc = "retarget"
    /\ target_yaw' = center.direc
    /\ fpc' = "check"
    /\ UNCHANGED <<mpc, frame, yaw, pos, turn, attitude, avoid,
                   center, delta, toward, cmd, history>>

(* Mutant of FlyChecksTurn: no np.abs, so a turn to one side only counts.   *)
FlyChecksOneSide ==
    /\ fpc = "check"
    /\ U_turn_flg' = IF transAngleRange(target_yaw - yaw) > H \div 4
                       THEN 1 ELSE U_turn_flg
    /\ fpc' = "delta"
    /\ UNCHANGED <<mpc, frame, yaw, pos, target_yaw, stop_count, attitude, avoid,
                   center, delta, toward, cmd, history>>

FlyChecksTurn ==
    /\ fpc = "check"
    /\ U_turn_flg' = IF OffCourse(transAngleRange(target_yaw - yaw))
                       THEN 1 ELSE U_turn_flg
    /\ fpc' = "delta"
    /\ UNCHANGED <<mpc, frame, yaw, pos, target_yaw, stop_count, attitude, avoid,
                   center, delta, toward, cmd, history>>

FlyComputesDelta ==
    /\ fpc = "delta"
    /\ delta' = transAngleRange(target_yaw - yaw)
    /\ toward' = target_yaw
    /\ fpc' = "publish"
    /\ UNCHANGED <<mpc, frame, yaw, pos, target_yaw, turn, attitude, avoid,
                   center, cmd, history>>

(* Mutants of CountTurn: a turn is one cycle short (the test comes before   *)
(* the count); its end forgets to reset the flag.                           *)
CountTurnShort ==
    LET counted == stop_count + U_turn_flg IN
    IF counted >= StopMax - 1
      THEN stop_count' = 0 /\ U_turn_flg' = 0
      ELSE stop_count' = counted /\ UNCHANGED U_turn_flg

CountTurnKeepingFlag ==
    LET counted == stop_count + U_turn_flg IN
    /\ stop_count' = IF counted >= StopMax THEN 0 ELSE counted
    /\ UNCHANGED U_turn_flg

(* In a U-turn the cycle counts and hovers; a count of StopMax ends it.     *)
CountTurn ==
    LET counted == stop_count + U_turn_flg IN
    IF counted >= StopMax
      THEN stop_count' = 0 /\ U_turn_flg' = 0
      ELSE stop_count' = counted /\ UNCHANGED U_turn_flg

(* yaw_rate is 1.5 * delta: cmd keeps delta.                                *)
FlyPublishes ==
    /\ fpc = "publish"
    /\ CountTurn
    /\ cmd' = [forward |-> U_turn_flg = 0, yaw_rate |-> delta]
    /\ hovered' = IF cmd'.forward \/ hovered + 1 = StopMax THEN 0 ELSE hovered + 1
    /\ fpc' = "idle" /\ delta' = 0 /\ toward' = 0
    /\ UNCHANGED <<mpc, frame, yaw, pos, target_yaw, attitude, avoid,
                   center, undisturbed, callbackError>>

(* The log is opened after the count and before the publish.  An exception  *)
(* here leaves the timer's thread: no setpoint is ever published again.     *)
FlyLogFails ==
    /\ LogMayFail
    /\ fpc = "publish"
    /\ CountTurn
    /\ fpc' = "dead"
    /\ UNCHANGED <<mpc, frame, yaw, pos, target_yaw, attitude, avoid,
                   center, delta, toward, cmd, history>>

-----------------------------------------------------------------------------
Startup == ServiceSucceeds \/ ServiceFails \/ StartTimers

FlyStep == \/ FlyReadsPosition \/ FlyRetargets \/ FlyChecksTurn
           \/ FlyComputesDelta \/ FlyPublishes \/ FlyLogFails

CallbackStep == AttitudeSetsMatrix \/ AttitudeSetsYaw \/ AvoidDirecWrites

Arrival == \/ \E a \in Headings : AttitudeArrives(a)
           \/ \E p \in Places : PositionArrives(p)
           \/ \E d \in AvoidAngles : AvoidDirecReads(d)

Next == Startup \/ FlyStep \/ CallbackStep \/ Arrival

Spec == Init /\ [][Next]_vars

(* rospy.Timer keeps calling flyCallback, and a callback that has started   *)
(* goes on; no topic need ever carry a message.                             *)
FairSpec == Spec /\ WF_vars(FlyStep) /\ WF_vars(CallbackStep)

-----------------------------------------------------------------------------
(* A U-turn is never cut short: when a setpoint with forward speed follows  *)
(* zero-speed ones, those make up whole hovers of StopMax cycles, whatever  *)
(* the other threads did to the target meanwhile.                           *)
HoverIsWhole ==
    [][fpc = "publish" /\ fpc' = "idle" /\ cmd'.forward => hovered = 0]_vars

(* Outside the circle and with no other thread in between, a cycle of       *)
(* flyCallback that publishes forward speed heads within pi/4 of the        *)
(* center: a hover that just ended starts again when the turn is not done.  *)
OutsideMovesHomeward ==
    [][fpc = "publish" /\ fpc' = "idle" /\ center.far /\ undisturbed /\ cmd'.forward
         => /\ ~OffCourse(cmd'.yaw_rate)
            /\ toward = center.direc]_vars

(* A U-turn ends, whatever is on the topics: flyCallback's stop_count       *)
(* reaches its maximum although each cycle may set U_turn_flg again, unless *)
(* an exception has ended the timer's thread.                               *)
UTurnEnds == (U_turn_flg = 1) ~> (U_turn_flg = 0 \/ fpc = "dead")

(* README_JPN.md:206-207: localPositionCallback does nothing until the      *)
(* initial heading is defined, and then stores the converted position.  It  *)
(* tests start_yaw, which attitudeCallback sets before rotation_matrix.     *)
PositionAlwaysUsed == ~callbackError
=============================================================================
