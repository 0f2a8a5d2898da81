------------------------ MODULE DroneControl_proofs ------------------------
(***************************************************************************)
(* Proofs about the autopilot for every H and StopMax, every set of inputs *)
(* and every interleaving of its callbacks.  Only type correctness needs   *)
(* to know how transAngleRange computes: the proofs about the U-turn are   *)
(* about which thread wrote what between two steps of flyCallback.         *)
(***************************************************************************)
EXTENDS DroneControl, TLAPS

(* The count is below its maximum, it is zero outside a U-turn, and it is   *)
(* the number of zero-speed setpoints published since the last full hover,  *)
(* unless a cycle died between the count and the publication.               *)
CountInv ==
    /\ U_turn_flg \in {0, 1}
    /\ stop_count \in 0 .. StopMax - 1
    /\ U_turn_flg = 0 => stop_count = 0
    /\ fpc # "dead" => hovered = stop_count

(* What an undisturbed cycle that saw a far position knows at each step.    *)
CourseInv ==
    /\ fpc \in {"retarget", "check"} => center.far
    /\ (fpc \in {"check", "delta"} /\ center.far /\ undisturbed)
         => target_yaw = center.direc
    /\ (fpc = "delta" /\ center.far /\ undisturbed)
         => (OffCourse(transAngleRange(target_yaw - yaw)) => U_turn_flg = 1)
    /\ (fpc = "publish" /\ center.far /\ undisturbed)
         => /\ toward = center.direc
            /\ OffCourse(delta) => U_turn_flg = 1

-----------------------------------------------------------------------------
(* One cycle's count keeps the count in its range and zero outside a turn.  *)
LEMMA CountStep ==
    ASSUME CountInv, CountTurn
    PROVE  /\ U_turn_flg' \in {0, 1}
           /\ stop_count' \in 0 .. StopMax - 1
           /\ U_turn_flg' = 0 => stop_count' = 0
           /\ U_turn_flg = 0 => stop_count' = 0
           /\ U_turn_flg = 1 =>
                stop_count' = IF stop_count + 1 = StopMax THEN 0 ELSE stop_count + 1
<1>1. CASE U_turn_flg = 0
  BY <1>1, StopAssumption DEF CountInv, CountTurn
<1>2. CASE U_turn_flg = 1
  BY <1>2, StopAssumption DEF CountInv, CountTurn
<1> QED BY <1>1, <1>2 DEF CountInv

LEMMA CountInvOfNext == CountInv /\ [Next]_vars => CountInv'
<1> SUFFICES ASSUME CountInv, [Next]_vars PROVE CountInv'
  OBVIOUS
<1>1. CASE Startup
  BY <1>1 DEF CountInv, Startup, ServiceSucceeds, ServiceFails, StartTimers,
              turn, fly, history
<1>2. CASE FlyReadsPosition
  BY <1>2 DEF CountInv, FlyReadsPosition, turn
<1>3. CASE FlyRetargets
  BY <1>3 DEF CountInv, FlyRetargets, turn, history
<1>4. CASE FlyChecksTurn
  BY <1>4 DEF CountInv, FlyChecksTurn, history
<1>5. CASE FlyComputesDelta
  BY <1>5 DEF CountInv, FlyComputesDelta, turn, history
<1>6. CASE FlyPublishes
  <2>1. hovered = stop_count /\ CountTurn
    BY <1>6 DEF CountInv, FlyPublishes
  <2>2. cmd'.forward <=> U_turn_flg = 0
    BY <1>6 DEF FlyPublishes
  <2>3. hovered' = IF U_turn_flg = 0 \/ hovered + 1 = StopMax THEN 0 ELSE hovered + 1
    BY <1>6, <2>2 DEF FlyPublishes
  <2>4. hovered' = stop_count'
    BY <2>1, <2>3, CountStep DEF CountInv
  <2> QED BY <2>1, <2>4, CountStep DEF CountInv
<1>7. CASE FlyLogFails
  BY <1>7, CountStep DEF CountInv, FlyLogFails
<1>8. CASE CallbackStep
  BY <1>8 DEF CountInv, CallbackStep, AttitudeSetsMatrix, AttitudeSetsYaw,
              AvoidDirecWrites, turn, fly, history
<1>9. CASE Arrival
  BY <1>9 DEF CountInv, Arrival, AttitudeArrives, PositionArrives, AvoidDirecReads,
              turn, fly, history
<1>10. CASE UNCHANGED vars
  BY <1>10 DEF CountInv, vars, turn, fly, history
<1> QED
  BY <1>1, <1>2, <1>3, <1>4, <1>5, <1>6, <1>7, <1>8, <1>9, <1>10 DEF Next, FlyStep

(* The proof of the hover: U_turn_flg = 0 leaves a count, and with it a     *)
(* number of hovered cycles, of zero; so drone_python.py never publishes a  *)
(* forward setpoint in the middle of a stop of stop_count_max cycles.       *)
THEOREM HoversAreWhole == Spec => HoverIsWhole
<1>1. Init => CountInv
  BY StopAssumption DEF Init, CountInv
<1>2. CountInv /\ [Next]_vars =>
        [fpc = "publish" /\ fpc' = "idle" /\ cmd'.forward => hovered = 0]_vars
  <2> SUFFICES ASSUME CountInv, Next, fpc = "publish", fpc' = "idle", cmd'.forward
               PROVE  hovered = 0
    OBVIOUS
  <2>1. FlyPublishes
    BY DEF Next, Startup, ServiceSucceeds, ServiceFails, StartTimers, FlyStep,
           FlyReadsPosition, FlyRetargets, FlyChecksTurn, FlyComputesDelta, FlyLogFails,
           CallbackStep, AttitudeSetsMatrix, AttitudeSetsYaw, AvoidDirecWrites,
           Arrival, AttitudeArrives, PositionArrives, AvoidDirecReads, fly
  <2> QED BY <2>1 DEF CountInv, FlyPublishes
<1> QED BY <1>1, <1>2, CountInvOfNext, PTL DEF Spec, HoverIsWhole

-----------------------------------------------------------------------------
LEMMA CourseInvOfNext == CourseInv /\ [Next]_vars => CourseInv'
<1> SUFFICES ASSUME CourseInv, [Next]_vars PROVE CourseInv'
  OBVIOUS
<1>1. CASE Startup
  BY <1>1 DEF CourseInv, Startup, ServiceSucceeds, ServiceFails, StartTimers,
              turn, fly, history
<1>2. CASE FlyReadsPosition
  BY <1>2 DEF CourseInv, FlyReadsPosition
<1>3. CASE FlyRetargets
  BY <1>3 DEF CourseInv, FlyRetargets, history
<1>4. CASE FlyChecksTurn
  BY <1>4 DEF CourseInv, FlyChecksTurn, history
<1>5. CASE FlyComputesDelta
  BY <1>5 DEF CourseInv, FlyComputesDelta, turn, history
<1>6. CASE FlyPublishes \/ FlyLogFails
  BY <1>6 DEF CourseInv, FlyPublishes, FlyLogFails
<1>7. CASE CallbackStep
  <2>1. CASE AttitudeSetsMatrix
    BY <2>1 DEF CourseInv, AttitudeSetsMatrix, turn, fly, history
  <2>2. CASE AttitudeSetsYaw \/ AvoidDirecWrites
    BY <2>2 DEF CourseInv, AttitudeSetsYaw, AvoidDirecWrites, fly
  <2> QED BY <1>7, <2>1, <2>2 DEF CallbackStep
<1>8. CASE Arrival
  BY <1>8 DEF CourseInv, Arrival, AttitudeArrives, PositionArrives, AvoidDirecReads,
              turn, fly, history
<1>9. CASE UNCHANGED vars
  BY <1>9 DEF CourseInv, vars, turn, fly, history
<1> QED
  BY <1>1, <1>2, <1>3, <1>4, <1>5, <1>6, <1>7, <1>8, <1>9 DEF Next, FlyStep

(* Outside the circle, a cycle of flyCallback no other callback interfered  *)
(* with publishes forward speed only on a course within pi/4 of the center. *)
THEOREM OutsideIsHomeward == Spec => OutsideMovesHomeward
<1>1. Init => CourseInv
  BY DEF Init, CourseInv
<1>2. CourseInv /\ [Next]_vars =>
        [fpc = "publish" /\ fpc' = "idle" /\ center.far /\ undisturbed /\ cmd'.forward
           => ~OffCourse(cmd'.yaw_rate) /\ toward = center.direc]_vars
  <2> SUFFICES ASSUME CourseInv, Next, fpc = "publish", fpc' = "idle",
                      center.far, undisturbed, cmd'.forward
               PROVE  ~OffCourse(cmd'.yaw_rate) /\ toward = center.direc
    OBVIOUS
  <2>1. FlyPublishes
    BY DEF Next, Startup, ServiceSucceeds, ServiceFails, StartTimers, FlyStep,
           FlyReadsPosition, FlyRetargets, FlyChecksTurn, FlyComputesDelta, FlyLogFails,
           CallbackStep, AttitudeSetsMatrix, AttitudeSetsYaw, AvoidDirecWrites,
           Arrival, AttitudeArrives, PositionArrives, AvoidDirecReads, fly
  <2>2. U_turn_flg = 0 /\ cmd'.yaw_rate = delta
    BY <2>1 DEF FlyPublishes
  <2> QED BY <2>2 DEF CourseInv
<1> QED BY <1>1, <1>2, CourseInvOfNext, PTL DEF Spec, OutsideMovesHomeward
-----------------------------------------------------------------------------
(* Wraps(d) is the number of turns that the loops of transAngleRange take   *)
(* to cover d.                                                              *)
LEMMA WrapsCover ==
    ASSUME NEW d \in Nat \ {0}
    PROVE  /\ Wraps(d) \in Nat
           /\ 2 * H * Wraps(d) >= d /\ 2 * H * Wraps(d) < d + 2 * H
<1> DEFINE n == d + 2 * H - 1  t == 2 * H
<1>1. n \in Nat /\ t \in Nat \ {0}
  BY HAssumption
<1>2. n \div t \in Nat /\ t * (n \div t) <= n /\ n < t * (n \div t) + t
  <2> HIDE DEF n, t
  <2> QED
    BY <1>1, SMTT(30)
<1>3. Wraps(d) = n \div t
  BY DEF Wraps
<1>4. t * (n \div t) \in Nat
  BY <1>1, <1>2
<1> DEFINE k == t * (n \div t)
<1>5. k \in Nat /\ k <= d + 2 * H - 1 /\ d + 2 * H - 1 < k + 2 * H /\ H \in Nat
  BY <1>2, <1>4, HAssumption
<1>6. 2 * H * Wraps(d) = k
  BY <1>3
<1> HIDE DEF k, n, t
<1> QED
  BY <1>2, <1>3, <1>5, <1>6

(* transAngleRange returns the angle within pi that is the same direction,  *)
(* for every angle, however many turns it is out of range.                  *)
THEOREM RangeIsSameDirection ==
    ASSUME NEW a \in Int
    PROVE  /\ transAngleRange(a) \in Angle
           /\ \E k \in Int : transAngleRange(a) = a + 2 * H * k
<1>1. H \in Nat /\ H > 0
  BY HAssumption
<1>2. CASE a < -H
  <2>1. -H - a \in Nat \ {0}
    BY <1>1, <1>2
  <2> DEFINE w == Wraps(-H - a)
  <2>2. w \in Nat /\ 2 * H * w >= -H - a /\ 2 * H * w < -H - a + 2 * H
    BY <2>1, WrapsCover
  <2>3. transAngleRange(a) = a + 2 * H * w
    BY <1>2 DEF transAngleRange
  <2>4. 2 * H * w \in Int
    BY <1>1, <2>2
  <2> HIDE DEF w
  <2>5. transAngleRange(a) \in -H .. H
    BY <1>1, <2>2, <2>3, <2>4
  <2> QED
    BY <2>2, <2>3, <2>5 DEF Angle
<1>3. CASE a > H
  <2>1. a - H \in Nat \ {0}
    BY <1>1, <1>3
  <2> DEFINE w == Wraps(a - H)
  <2>2. w \in Nat /\ 2 * H * w >= a - H /\ 2 * H * w < a - H + 2 * H
    BY <2>1, WrapsCover
  <2>3. transAngleRange(a) = a - 2 * H * w
    BY <1>1, <1>3 DEF transAngleRange
  <2>4. 2 * H * w \in Int /\ -w \in Int /\ a - 2 * H * w = a + 2 * H * (-w)
    BY <1>1, <2>2
  <2> HIDE DEF w
  <2>5. transAngleRange(a) \in -H .. H
    BY <1>1, <2>2, <2>3, <2>4
  <2> QED
    BY <2>3, <2>4, <2>5 DEF Angle
<1>4. CASE ~(a < -H) /\ ~(a > H)
  <2>1. transAngleRange(a) = a /\ a = a + 2 * H * 0
    BY <1>1, <1>4 DEF transAngleRange
  <2> QED
    BY <1>1, <1>4, <2>1 DEF Angle
<1> QED
  BY <1>2, <1>3, <1>4

LEMMA DifferenceInRange ==
    ASSUME NEW a \in Int, NEW b \in Angle \cup {None}
    PROVE  /\ transAngleRange(a - b) \in Angle
           /\ b # None => transAngleRange(a + b) \in Angle
<1>1. a - b \in Int /\ a + b \in Int
  BY HAssumption DEF Angle, None
<1> QED
  BY <1>1, RangeIsSameDirection

LEMMA InputsAreAngles ==
    /\ Angle \subseteq Int /\ 0 \in Angle /\ None \notin Angle
    /\ \A p \in Places \cup {TakeOffPoint} : p.direc \in Angle /\ p.far \in BOOLEAN
<1>1. Angle \subseteq Int /\ 0 \in Angle /\ None \notin Angle
  BY HAssumption DEF Angle, None
<1>2. TakeOffPoint.direc = 0 /\ TakeOffPoint.far = FALSE
  BY DEF TakeOffPoint
<1>3. \A p \in Places : p \in [far : BOOLEAN, direc : Angle]
  BY InputAssumption
<1>4. \A p \in Places : p.direc \in Angle /\ p.far \in BOOLEAN
  BY <1>3
<1> QED
  BY <1>1, <1>2, <1>4

LEMMA TypeOfNext ==
    ASSUME TypeOK, CountInv, CountInv', [Next]_vars
    PROVE  TypeOK'
<1> USE InputsAreAngles DEF TypeOK, CountInv, frame, attitude, avoid, turn, fly, history
<1>1. CASE Startup
  BY <1>1 DEF Startup, ServiceSucceeds, ServiceFails, StartTimers
<1>2. CASE FlyReadsPosition
  BY <1>2 DEF FlyReadsPosition
<1>3. CASE FlyRetargets
  BY <1>3 DEF FlyRetargets
<1>4. CASE FlyChecksTurn
  BY <1>4 DEF FlyChecksTurn
<1>5. CASE FlyComputesDelta
  <2>1. transAngleRange(target_yaw - yaw) \in Angle
    BY DifferenceInRange
  <2> QED
    BY <1>5, <2>1 DEF FlyComputesDelta
<1>6. CASE FlyPublishes
  <2>1. hovered' \in 0 .. StopMax - 1
    BY <1>6, StopAssumption DEF FlyPublishes
  <2> QED
    BY <1>6, <2>1 DEF FlyPublishes
<1>7. CASE FlyLogFails
  BY <1>7 DEF FlyLogFails
<1>8. CASE AttitudeSetsMatrix
  BY <1>8 DEF AttitudeSetsMatrix
<1>14. CASE AvoidDirecWrites
  <2>1. undisturbed' \in BOOLEAN
    BY <1>14 DEF AvoidDirecWrites
  <2>2. target_yaw' \in Angle /\ vpc' \in {"idle", "write"} /\ turnTo' \in Angle
    BY <1>14 DEF AvoidDirecWrites
  <2>3. UNCHANGED <<mpc, frame, yaw, pos, turn, attitude, fly, hovered, callbackError>>
    BY <1>14 DEF AvoidDirecWrites
  <2> QED
    BY <2>1, <2>2, <2>3
<1>9. CASE AttitudeSetsYaw
  <2>1. transAngleRange(att - start_yaw) \in Angle
    BY DifferenceInRange
  <2>2. yaw' \in Angle /\ att' \in Angle /\ apc' = "idle"
    BY <1>9, <2>1 DEF AttitudeSetsYaw
  <2>3. undisturbed' \in BOOLEAN
    BY <1>9 DEF AttitudeSetsYaw
  <2>4. UNCHANGED <<mpc, frame, pos, target_yaw, turn, avoid, fly, hovered, callbackError>>
    BY <1>9 DEF AttitudeSetsYaw
  <2> QED
    BY <2>2, <2>3, <2>4
<1>10. ASSUME NEW a \in Headings, AttitudeArrives(a) PROVE TypeOK'
  <2>1. a \in Angle
    BY InputAssumption
  <2> QED
    BY <1>10, <2>1 DEF AttitudeArrives
<1>11. ASSUME NEW p \in Places, PositionArrives(p) PROVE TypeOK'
  <2>1. pos' = p \/ pos' = pos
    BY <1>11 DEF PositionArrives
  <2>2. callbackError' = TRUE \/ callbackError' = callbackError
    BY <1>11 DEF PositionArrives
  <2>3. callbackError' \in BOOLEAN
    BY <2>2
  <2>4. UNCHANGED <<mpc, frame, yaw, target_yaw, turn, attitude, avoid, fly, hovered, undisturbed>>
    BY <1>11 DEF PositionArrives
  <2> QED
    BY <2>1, <2>3, <2>4
<1>12. ASSUME NEW d \in AvoidAngles, AvoidDirecReads(d) PROVE TypeOK'
  <2>1. transAngleRange(d + yaw) \in Angle
    BY DifferenceInRange, InputAssumption
  <2> QED
    BY <1>12, <2>1 DEF AvoidDirecReads
<1>13. CASE UNCHANGED vars
  BY <1>13 DEF vars
<1> QED
  BY <1>1, <1>2, <1>3, <1>4, <1>5, <1>6, <1>7, <1>8, <1>9, <1>10, <1>11, <1>12, <1>13, <1>14
  DEF Next, FlyStep, CallbackStep, Arrival

(* Type correctness: whatever headings and avoid angles arrive in whatever  *)
(* order, every angle attitudeCallback, AvoidDirecCallback and flyCallback  *)
(* compute lies within pi, and the count and the hovered cycles stay below  *)
(* stop_count_max.                                                          *)
THEOREM TypeCorrect == Spec => []TypeOK
<1>1. Init => TypeOK /\ CountInv
  <2> SUFFICES ASSUME Init PROVE TypeOK /\ CountInv
    OBVIOUS
  <2>1. 0 \in 0 .. StopMax - 1
    BY StopAssumption
  <2>2. CountInv
    BY <2>1 DEF Init, CountInv
  <2>3. TypeOK
    BY <2>1, InputsAreAngles DEF Init, TypeOK
  <2> QED
    BY <2>2, <2>3
<1>2. TypeOK /\ CountInv /\ CountInv' /\ [Next]_vars => TypeOK'
  BY TypeOfNext
<1> QED
  BY <1>1, <1>2, CountInvOfNext, PTL DEF Spec
-----------------------------------------------------------------------------
(* The window of PositionAlwaysUsed: attitudeCallback has set start_yaw and *)
(* not yet rotation_matrix.                                                 *)
Window == start_yaw # None /\ ~rotation_matrix => apc = "matrix"

LostInWindow == [][callbackError' # callbackError => apc = "matrix"]_vars

(* localPositionCallback raises between two assignments of the very first   *)
(* attitudeCallback, and at no other time: from then on every position is   *)
(* stored, whatever arrives and however the threads interleave.             *)
THEOREM PositionsLostInWindowOnly == Spec => LostInWindow
<1>1. Init => Window
  BY DEF Init, Window
<1>2. TypeOK /\ Window /\ [Next]_vars =>
        Window' /\ [callbackError' # callbackError => apc = "matrix"]_vars
  <2> SUFFICES ASSUME TypeOK, Window, [Next]_vars
               PROVE  Window' /\ (callbackError' # callbackError => apc = "matrix")
    OBVIOUS
  <2> USE DEF Window, frame, attitude, history
  <2>1. CASE Startup
    BY <2>1 DEF Startup, ServiceSucceeds, ServiceFails, StartTimers
  <2>2. CASE FlyStep
    BY <2>2 DEF FlyStep, FlyReadsPosition, FlyRetargets, FlyChecksTurn, FlyComputesDelta,
                FlyPublishes, FlyLogFails
  <2>3. CASE AttitudeSetsMatrix \/ AttitudeSetsYaw \/ AvoidDirecWrites
    BY <2>3 DEF AttitudeSetsMatrix, AttitudeSetsYaw, AvoidDirecWrites, TypeOK
  <2>4. ASSUME NEW a \in Headings, AttitudeArrives(a)
        PROVE  Window' /\ (callbackError' # callbackError => apc = "matrix")
    BY <2>4 DEF AttitudeArrives
  <2>5. ASSUME NEW p \in Places, PositionArrives(p)
        PROVE  Window' /\ (callbackError' # callbackError => apc = "matrix")
    BY <2>5 DEF PositionArrives
  <2>6. ASSUME NEW d \in AvoidAngles, AvoidDirecReads(d)
        PROVE  Window' /\ (callbackError' # callbackError => apc = "matrix")
    BY <2>6 DEF AvoidDirecReads
  <2>7. CASE UNCHANGED vars
    BY <2>7 DEF vars
  <2> QED
    BY <2>1, <2>2, <2>3, <2>4, <2>5, <2>6, <2>7 DEF Next, CallbackStep, Arrival
<1> QED
  BY <1>1, <1>2, TypeCorrect, PTL DEF Spec, LostInWindow
=============================================================================
