----------------------- MODULE SensingHandoff_proofs -----------------------
(***************************************************************************)
(* Proofs about SensingHandoff for every number of pings, measurements,    *)
(* launches, host runs and swallowed errors, and every set of faults.      *)
(***************************************************************************)
EXTENDS SensingHandoff, SequenceTheorems, FiniteSetTheorems, TLAPS

-----------------------------------------------------------------------------
LEMMA AdvanceType ==
    ASSUME TypeOK, Advance
    PROVE  /\ loop_n' \in Ping
           /\ y' \in 0 .. MesNum - 1
           /\ spc' \in {"off", "measure", "openLog"}
BY NoPAssumption, MesNumAssumption DEF TypeOK, Advance, Ping

(* Type correctness: the values the three programs leave in the two files   *)
(* and in their own variables are the ones the comments of SensingHandoff   *)
(* list, in particular loop_n stays below pulse_n.                          *)
THEOREM TypeCorrect == Spec => []TypeOK
<1> USE NoPAssumption, MesNumAssumption, BoundsAssumption
<1>1. Init => TypeOK
  BY DEF Init, TypeOK, Flag, FlagBy, Message, NoText, Ping, Session
<1>2. TypeOK /\ [Next]_vars => TypeOK'
  <2> SUFFICES ASSUME TypeOK, [Next]_vars PROVE TypeOK'
    OBVIOUS
  <2> USE DEF TypeOK, files, launcher, sensor, host, history
  <2>1. CASE LauncherClosesFlg
    BY <2>1 DEF LauncherClosesFlg, Flag, FlagBy
  <2>2. CASE LauncherRunsSensor
    BY <2>2 DEF LauncherRunsSensor, Ping
  <2>3. CASE LauncherFinishes
    BY <2>3 DEF LauncherFinishes
  <2>4. CASE Measure
    BY <2>4 DEF Measure
  <2>5. CASE MeasureFails
    BY <2>5 DEF MeasureFails, Ping
  <2>6. CASE OpenLog
    BY <2>6 DEF OpenLog
  <2>7. CASE OpenLogFails
    BY <2>7 DEF OpenLogFails
  <2>8. CASE CloseLog
    BY <2>8 DEF CloseLog, Message, Ping
  <2>9. CASE OpenFlg
    BY <2>9 DEF OpenFlg
  <2>10. CASE OpenFlgFails
    BY <2>10, AdvanceType DEF OpenFlgFails
  <2>11. CASE CloseFlg
    BY <2>11, AdvanceType DEF CloseFlg, Flag, FlagBy, Ping
  <2>12. CASE HostConnects
    BY <2>12 DEF HostConnects
  <2>13. CASE HostOpensFlg
    BY <2>13 DEF HostOpensFlg
  <2>14. CASE HostOpenFlgFails
    BY <2>14 DEF HostOpenFlgFails
  <2>15. CASE HostClosesFlg
    BY <2>15 DEF HostClosesFlg, Flag, FlagBy
  <2>16. CASE HostPolls
    BY <2>16 DEF HostPolls, Flag, NoFlag
  <2>17. CASE HostReadsLog
    BY <2>17 DEF HostReadsLog
  <2>18. CASE HostSends
    BY <2>18 DEF HostSends, Entry
  <2>19. CASE HostSendFails
    BY <2>19 DEF HostSendFails
  <2>20. CASE LaunchSensing
    BY <2>20 DEF LaunchSensing, Session
  <2>21. CASE SensingAborted
    BY <2>21 DEF SensingAborted
  <2>25. CASE SensorExits
    BY <2>25 DEF SensorExits
  <2>22. CASE HostStarts
    BY <2>22 DEF HostStarts, Flag
  <2>23. CASE HostInterrupted
    BY <2>23 DEF HostInterrupted
  <2>24. CASE UNCHANGED vars
    BY <2>24 DEF vars
  <2> QED
    BY <2>1, <2>2, <2>3, <2>4, <2>5, <2>6, <2>7, <2>8, <2>9, <2>10, <2>11, <2>12, <2>13, <2>14, <2>15, <2>16, <2>17, <2>18, <2>19, <2>20, <2>21, <2>22, <2>23, <2>24, <2>25
    DEF Next, LauncherStep, SensorStep, HostStep, Operator
<1> QED BY <1>1, <1>2, PTL DEF Spec
-----------------------------------------------------------------------------
(* Why BoundedAge holds.  "Log, then flag" gives FlagCovered: the text that *)
(* is in det_log.txt is recent enough for the flag that is in flg.prm.  It  *)
(* stays recent enough for a flag the host has read, because the sensor     *)
(* only moves forward: no flag of the running session is ahead of loop_n,   *)
(* and no text or flag is of a session that was not launched.               *)

NotAhead(f) == /\ f.s <= session
               /\ (f.by = "sensor" /\ f.s = session /\ spc # "off") => f.val <= loop_n

(* The launcher has truncated flg.prm but not yet started the sensor.       *)
NewSession == lpc \in {"flgOpened", "flagged"} =>
                 /\ spc = "off"
                 /\ flg.by = "sensor" => flg.s < session
                 /\ flg_now.by = "sensor" => flg_now.s < session
                 /\ detLog # NoText => detLog.s < session

Idle == lpc = "idle" => spc = "off"

SamplesAge ==
    /\ spc = "measure" => loop_n - 1 - samples <= swallowed
    /\ spc \notin {"off", "measure"} => loop_n - samples <= swallowed

LogAge ==
    detLog # NoText =>
        /\ detLog.s <= session
        /\ spc \in {"measure", "openLog"} => Covers(detLog, FlagBy("sensor", loop_n - 1))
        /\ spc \in {"openFlg", "closeFlg"} => Covers(detLog, FlagBy("sensor", loop_n))

(* What is recent enough for f, where f was written by the sensor.          *)
Fits(m, f) == (f.by = "sensor" /\ m # NoText) => Covers(m, f)

FlagCovered == Fits(detLog, flg)

HostCovered ==
    /\ hpc = "readLog" => Fits(detLog, flg_now)
    /\ hpc = "send" => Fits(val, flg_now)

IInv == /\ TypeOK
        /\ NotAhead(flg) /\ NotAhead(flg_now)
        /\ NewSession /\ Idle
        /\ SamplesAge /\ LogAge
        /\ FlagCovered /\ HostCovered
        /\ BoundedAge

LEMMA Fields ==
    /\ \A m \in Message \cup {NoText} : m.s \in Int /\ m.n \in Int /\ m.data \in Int
    /\ \A f \in Flag \cup {NoFlag} : f.s \in Int /\ f.val \in Int
    /\ NoFlag.by = "none" /\ NoFlag.s = -1
    /\ \A m \in Message : m # NoText
BY NoPAssumption, BoundsAssumption DEF Message, NoText, Flag, NoFlag, Ping, Session

LEMMA NumberTypes ==
    ASSUME TypeOK
    PROVE  /\ swallowed \in Int /\ loop_n \in Int /\ samples \in Int /\ session \in Int
           /\ detLog \in Message \cup {NoText} /\ val \in Message \cup {NoText}
           /\ flg \in Flag \cup {NoFlag} /\ flg_now \in Flag
BY NoPAssumption, BoundsAssumption DEF TypeOK, Ping, Session

LEMMA FitsLonger ==
    ASSUME NEW m \in Message \cup {NoText}, NEW f \in Flag \cup {NoFlag},
           TypeOK, TypeOK', swallowed' >= swallowed, Fits(m, f)
    PROVE  (Fits(m, f))'
<1>1. swallowed \in Int /\ swallowed' \in Int
  BY BoundsAssumption DEF TypeOK
<1>2. m.s \in Int /\ m.data \in Int /\ f.s \in Int /\ f.val \in Int
  BY Fields
<1> QED BY <1>1, <1>2 DEF Fits, Covers

LEMMA AgeKept ==
    ASSUME TypeOK, TypeOK', BoundedAge, swallowed' >= swallowed, sent' = sent \/ sent' = <<>>
    PROVE  BoundedAge'
<1> SUFFICES ASSUME NEW i \in DOMAIN sent',
                    sent'[i].flag.by = "sensor", sent'[i].msg # NoText
             PROVE  Covers(sent[i].msg, sent[i].flag)'
  BY DEF BoundedAge
<1>1. sent' = sent
  OBVIOUS
<1>2. sent[i] \in Entry
  BY <1>1 DEF TypeOK
<1>3. Fits(sent[i].msg, sent[i].flag)
  BY <1>1 DEF BoundedAge, Fits
<1>4. sent[i].msg \in Message \cup {NoText} /\ sent[i].flag \in Flag
  BY <1>2 DEF Entry
<1> QED BY <1>1, <1>2, <1>3, <1>4, FitsLonger DEF Fits, Covers

LEMMA AgeOfNext ==
    ASSUME IInv, TypeOK', [Next]_vars
    PROVE  BoundedAge'
<1>1. CASE HostSends
  <2> SUFFICES ASSUME NEW i \in DOMAIN sent',
                      sent'[i].flag.by = "sensor", sent'[i].msg # NoText
               PROVE  Covers(sent'[i].msg, sent'[i].flag)
    BY <1>1 DEF BoundedAge, Covers, HostSends, history
  <2>1. /\ sent \in Seq(Entry) /\ [flag |-> flg_now, msg |-> val] \in Entry
        /\ sent' = Append(sent, [flag |-> flg_now, msg |-> val])
    BY <1>1 DEF IInv, TypeOK, HostSends, Entry
  <2>2. CASE i \in DOMAIN sent
    BY <2>1, <2>2 DEF IInv, BoundedAge
  <2>3. CASE i = Len(sent) + 1
    BY <1>1, <2>1, <2>3 DEF IInv, HostCovered, HostSends, Fits
  <2> QED BY <2>1, <2>2, <2>3
<1>2. CASE ~HostSends
  <2>1. sent' = sent \/ sent' = <<>>
    BY <1>2 DEF Next, vars, LauncherStep, SensorStep, HostStep, Operator, files, launcher,
       sensor, host, history, LauncherClosesFlg, LauncherRunsSensor, LauncherFinishes, Measure,
       MeasureFails, OpenLog, OpenLogFails, CloseLog, OpenFlg, OpenFlgFails, CloseFlg,
       HostConnects, HostOpensFlg, HostOpenFlgFails, HostClosesFlg, HostPolls, HostReadsLog,
       HostSendFails, LaunchSensing, SensingAborted, SensorExits, HostStarts, HostInterrupted
  <2>2. swallowed' >= swallowed
    BY <1>2, BoundsAssumption DEF IInv, TypeOK, Next, vars, LauncherStep, SensorStep, HostStep, Operator,
       files, launcher, sensor, host, history, LauncherClosesFlg, LauncherRunsSensor,
       LauncherFinishes, Measure, MeasureFails, OpenLog, OpenLogFails, CloseLog, OpenFlg,
       OpenFlgFails, CloseFlg, HostConnects, HostOpensFlg, HostOpenFlgFails, HostClosesFlg,
       HostPolls, HostReadsLog, HostSendFails, LaunchSensing, SensingAborted, SensorExits, HostStarts,
       HostInterrupted
  <2> QED BY <2>1, <2>2, AgeKept DEF IInv
<1> QED BY <1>1, <1>2

(* The parts of IInv about the processes and the flags, without the ages.   *)
LEMMA OrderOfNext ==
    ASSUME IInv, TypeOK', [Next]_vars
    PROVE  NotAhead(flg)' /\ NotAhead(flg_now)' /\ NewSession' /\ Idle'
<1> USE NoPAssumption, MesNumAssumption, BoundsAssumption
<1> USE DEF IInv, TypeOK, files, launcher, sensor, host, history,
            NotAhead, NewSession, Idle, FlagBy, Flag, NoFlag, Message, NoText, Ping, Session
<1>1. CASE LauncherClosesFlg
  BY <1>1 DEF LauncherClosesFlg
<1>2. CASE LauncherRunsSensor
  BY <1>2 DEF LauncherRunsSensor
<1>3. CASE LauncherFinishes
  BY <1>3 DEF LauncherFinishes
<1>4. CASE Measure
  BY <1>4 DEF Measure
<1>5. CASE MeasureFails
  BY <1>5 DEF MeasureFails
<1>6. CASE OpenLog
  BY <1>6 DEF OpenLog
<1>7. CASE OpenLogFails
  BY <1>7 DEF OpenLogFails
<1>8. CASE CloseLog
  BY <1>8 DEF CloseLog
<1>9. CASE OpenFlg
  BY <1>9 DEF OpenFlg
<1>10. CASE OpenFlgFails
  BY <1>10 DEF OpenFlgFails, Advance
<1>11. CASE CloseFlg
  BY <1>11 DEF CloseFlg, Advance
<1>12. CASE HostConnects
  BY <1>12 DEF HostConnects
<1>13. CASE HostOpensFlg
  BY <1>13 DEF HostOpensFlg
<1>14. CASE HostOpenFlgFails
  BY <1>14 DEF HostOpenFlgFails
<1>15. CASE HostClosesFlg
  BY <1>15 DEF HostClosesFlg
<1>16. CASE HostPolls
  BY <1>16 DEF HostPolls
<1>17. CASE HostReadsLog
  BY <1>17 DEF HostReadsLog
<1>18. CASE HostSends
  BY <1>18 DEF HostSends
<1>19. CASE HostSendFails
  BY <1>19 DEF HostSendFails
<1>20. CASE LaunchSensing
  <2>1. /\ spc = "off" /\ spc' = "off" /\ session' = session + 1 /\ flg' = NoFlag
        /\ flg_now' = flg_now /\ detLog' = detLog /\ lpc' = "flgOpened"
    BY <1>20 DEF LaunchSensing
  <2>2. flg_now.s <= session /\ (detLog # NoText => detLog.s <= session)
    BY DEF LogAge
  <2>3. session \in Nat /\ flg_now.s \in Int /\ detLog.s \in Int
    BY NumberTypes, Fields
  <2> HIDE DEF IInv, TypeOK, Message, NoText, Flag
  <2>4. NotAhead(flg)' /\ NotAhead(flg_now)'
    BY <2>1, <2>2, <2>3 DEF NotAhead, NoFlag
  <2>5. Idle'
    BY <2>1 DEF Idle
  <2> HIDE DEF NotAhead
  <2>6. NewSession'
    BY <2>1, <2>2, <2>3 DEF NewSession, NoFlag
  <2> QED BY <2>4, <2>5, <2>6
<1>21. CASE SensingAborted
  BY <1>21 DEF SensingAborted
<1>25. CASE SensorExits
  BY <1>25 DEF SensorExits
<1>22. CASE HostStarts
  BY <1>22 DEF HostStarts
<1>23. CASE HostInterrupted
  BY <1>23 DEF HostInterrupted
<1>24. CASE UNCHANGED vars
  BY <1>24 DEF vars
<1> QED
  BY <1>1, <1>2, <1>3, <1>4, <1>5, <1>6, <1>7, <1>8, <1>9, <1>10, <1>11, <1>12, <1>13, <1>14, <1>15, <1>16, <1>17, <1>18, <1>19, <1>20, <1>21, <1>22, <1>23, <1>24, <1>25
  DEF Next, LauncherStep, SensorStep, HostStep, Operator

(* An error that is only printed may leave everything one ping older.       *)
LEMMA AgesAfterError ==
    ASSUME IInv, TypeOK', MeasureFails \/ OpenLogFails
    PROVE  SamplesAge' /\ LogAge' /\ FlagCovered' /\ HostCovered'
<1>1. /\ swallowed' = swallowed + 1
      /\ UNCHANGED <<flg, detLog, session, loop_n, hpc, flg_now, val>>
  BY DEF MeasureFails, OpenLogFails, files, launcher, sensor, host, history
<1>2. TypeOK
  BY DEF IInv
<1>3. swallowed' >= swallowed
  BY <1>1, <1>2, NumberTypes
<1>4. FlagCovered'
  BY <1>1, <1>2, <1>3, NumberTypes, FitsLonger DEF IInv, FlagCovered, Fits, Covers
<1>5. HostCovered'
  <2>1. hpc = "readLog" => Fits(detLog, flg_now)'
    BY <1>1, <1>2, <1>3, NumberTypes, FitsLonger DEF IInv, HostCovered, Fits, Covers
  <2>2. hpc = "send" => Fits(val, flg_now)'
    BY <1>1, <1>2, <1>3, NumberTypes, FitsLonger DEF IInv, HostCovered, Fits, Covers
  <2> QED BY <1>1, <2>1, <2>2 DEF HostCovered
<1>6. CASE MeasureFails
  <2>1. /\ spc = "measure" /\ spc' = "openLog"
        /\ samples' \in Int /\ samples <= samples'
    BY <1>2, <1>6, NumberTypes DEF MeasureFails
  <2>2. SamplesAge'
    BY <1>1, <1>2, <2>1, NumberTypes DEF IInv, SamplesAge
  <2>3. detLog # NoText => Covers(detLog, FlagBy("sensor", loop_n - 1))
    BY <2>1 DEF IInv, LogAge
  <2>4. detLog # NoText => Covers(detLog, FlagBy("sensor", loop_n - 1))'
    BY <1>1, <1>2, <2>3, NumberTypes, Fields DEF Covers, FlagBy
  <2>5. LogAge'
    BY <1>1, <2>1, <2>4 DEF IInv, LogAge
  <2> QED BY <1>4, <1>5, <2>2, <2>5
<1>7. CASE OpenLogFails
  <2>1. spc = "openLog" /\ spc' = "openFlg" /\ samples' = samples
    BY <1>7 DEF OpenLogFails
  <2>2. SamplesAge'
    BY <1>1, <1>2, <2>1, NumberTypes DEF IInv, SamplesAge
  <2>3. detLog # NoText => Covers(detLog, FlagBy("sensor", loop_n - 1))
    BY <2>1 DEF IInv, LogAge
  <2>4. detLog # NoText => Covers(detLog, FlagBy("sensor", loop_n))'
    BY <1>1, <1>2, <2>3, NumberTypes, Fields DEF Covers, FlagBy
  <2>5. LogAge'
    BY <1>1, <2>1, <2>4 DEF IInv, LogAge
  <2> QED BY <1>4, <1>5, <2>2, <2>5
<1> QED BY <1>6, <1>7

(* A new text fits every flag there is, because no flag is ahead of loop_n. *)
LEMMA AgesAfterCloseLog ==
    ASSUME IInv, TypeOK', CloseLog
    PROVE  SamplesAge' /\ LogAge' /\ FlagCovered' /\ HostCovered'
<1>1. /\ spc = "closeLog" /\ spc' = "openFlg"
      /\ detLog' = [s |-> session, n |-> loop_n, data |-> samples]
      /\ UNCHANGED <<flg, session, loop_n, samples, hpc, flg_now, val, swallowed>>
  BY DEF CloseLog, launcher, host
<1>2. TypeOK
  BY DEF IInv
<1>3. loop_n - samples <= swallowed
  BY <1>1 DEF IInv, SamplesAge
<1>4. ASSUME NEW f \in Flag \cup {NoFlag}, NotAhead(f), f.by = "sensor"
      PROVE  Covers(detLog', f)
  BY <1>1, <1>2, <1>3, <1>4, NumberTypes, Fields DEF NotAhead, Covers
<1>5. FlagCovered'
  BY <1>1, <1>2, <1>4, NumberTypes DEF IInv, FlagCovered, Fits, Covers
<1>6. HostCovered'
  BY <1>1, <1>2, <1>4, NumberTypes DEF IInv, HostCovered, Fits, Covers
<1>7. LogAge'
  BY <1>1, <1>2, <1>3, NumberTypes DEF LogAge, Covers, FlagBy
<1> QED BY <1>1, <1>3, <1>5, <1>6, <1>7 DEF SamplesAge

(* The flag announces loop_n; the loop then moves on by one ping at most.   *)
LEMMA AgesAfterFlag ==
    ASSUME IInv, TypeOK', CloseFlg \/ OpenFlgFails
    PROVE  SamplesAge' /\ LogAge' /\ FlagCovered' /\ HostCovered'
<1>1. /\ spc \in {"openFlg", "closeFlg"}
      /\ Advance
      /\ flg' = flg \/ flg' = FlagBy("sensor", loop_n)
      /\ UNCHANGED <<detLog, session, samples, hpc, flg_now, val, swallowed>>
  BY DEF CloseFlg, OpenFlgFails, files, launcher, host, history
<1>2. TypeOK
  BY DEF IInv
<1>3. detLog # NoText => Covers(detLog, FlagBy("sensor", loop_n))
  BY <1>1 DEF IInv, LogAge
<1>4. \/ spc' = "off"
      \/ spc' = "openLog" /\ loop_n' = loop_n
      \/ spc' = "measure" /\ loop_n' = loop_n + 1
  BY <1>1 DEF Advance
<1>5. SamplesAge'
  BY <1>1, <1>2, <1>4, NumberTypes DEF IInv, SamplesAge
<1>6. LogAge'
  <2>1. spc' \in {"measure", "openLog"} /\ detLog # NoText
            => Covers(detLog, FlagBy("sensor", loop_n - 1))'
    BY <1>1, <1>2, <1>3, <1>4, NumberTypes, Fields DEF Covers, FlagBy
  <2> QED BY <1>1, <1>4, <2>1 DEF IInv, LogAge
<1>7. FlagCovered'
  BY <1>1, <1>3 DEF IInv, FlagCovered, Fits, Covers
<1>8. HostCovered'
  BY <1>1 DEF IInv, HostCovered, Fits, Covers
<1> QED BY <1>5, <1>6, <1>7, <1>8

(* A launch forgets the flag; every other age is of an earlier session.     *)
LEMMA AgesAfterLaunch ==
    ASSUME IInv, TypeOK', LaunchSensing
    PROVE  SamplesAge' /\ LogAge' /\ FlagCovered' /\ HostCovered'
<1>1. /\ spc = "off" /\ spc' = "off" /\ session' = session + 1 /\ flg' = NoFlag
      /\ UNCHANGED <<detLog, hpc, flg_now, val, swallowed>>
  BY DEF LaunchSensing, IInv, Idle, sensor, host, history
<1>2. TypeOK
  BY DEF IInv
<1>3. LogAge'
  BY <1>1, <1>2, NumberTypes, Fields DEF IInv, LogAge
<1> QED BY <1>1, <1>3, Fields DEF IInv, SamplesAge, FlagCovered, HostCovered, Fits, Covers

LEMMA AgesOfNext ==
    ASSUME IInv, TypeOK', [Next]_vars
    PROVE  SamplesAge' /\ LogAge' /\ FlagCovered' /\ HostCovered'
<1> USE NoPAssumption, MesNumAssumption, BoundsAssumption
<1> USE DEF IInv, TypeOK, files, launcher, sensor, host, history,
            NotAhead, NewSession, Idle, SamplesAge, LogAge, FlagCovered, HostCovered,
            Fits, Covers, FlagBy, Flag, NoFlag, Message, NoText, Ping, Session
<1>1. CASE LauncherClosesFlg
  BY <1>1 DEF LauncherClosesFlg
<1>2. CASE LauncherRunsSensor
  BY <1>2 DEF LauncherRunsSensor
<1>3. CASE LauncherFinishes
  BY <1>3 DEF LauncherFinishes
<1>4. CASE Measure
  BY <1>4 DEF Measure
<1>5. CASE MeasureFails
  BY <1>5, AgesAfterError
<1>6. CASE OpenLog
  BY <1>6 DEF OpenLog
<1>7. CASE OpenLogFails
  BY <1>7, AgesAfterError
<1>8. CASE CloseLog
  BY <1>8, AgesAfterCloseLog
<1>9. CASE OpenFlg
  BY <1>9 DEF OpenFlg
<1>10. CASE OpenFlgFails
  BY <1>10, AgesAfterFlag
<1>11. CASE CloseFlg
  BY <1>11, AgesAfterFlag
<1>12. CASE HostConnects
  BY <1>12 DEF HostConnects
<1>13. CASE HostOpensFlg
  BY <1>13 DEF HostOpensFlg
<1>14. CASE HostOpenFlgFails
  BY <1>14 DEF HostOpenFlgFails
<1>15. CASE HostClosesFlg
  BY <1>15 DEF HostClosesFlg
<1>16. CASE HostPolls
  BY <1>16 DEF HostPolls
<1>17. CASE HostReadsLog
  BY <1>17 DEF HostReadsLog
<1>18. CASE HostSends
  BY <1>18 DEF HostSends
<1>19. CASE HostSendFails
  BY <1>19 DEF HostSendFails
<1>20. CASE LaunchSensing
  BY <1>20, AgesAfterLaunch
<1>21. CASE SensingAborted
  BY <1>21 DEF SensingAborted
<1>25. CASE SensorExits
  BY <1>25 DEF SensorExits
<1>22. CASE HostStarts
  BY <1>22 DEF HostStarts
<1>23. CASE HostInterrupted
  BY <1>23 DEF HostInterrupted
<1>24. CASE UNCHANGED vars
  BY <1>24 DEF vars
<1> QED
  BY <1>1, <1>2, <1>3, <1>4, <1>5, <1>6, <1>7, <1>8, <1>9, <1>10, <1>11, <1>12, <1>13, <1>14, <1>15, <1>16, <1>17, <1>18, <1>19, <1>20, <1>21, <1>22, <1>23, <1>24, <1>25
  DEF Next, LauncherStep, SensorStep, HostStep, Operator

LEMMA IInvOfNext == IInv /\ TypeOK' /\ [Next]_vars => IInv'
BY AgeOfNext, OrderOfNext, AgesOfNext DEF IInv

(* BoundedAge for every constant: the host never forwards, for a flag of    *)
(* the sensor, echoes older than that flag's ping by more pings than the    *)
(* sensor swallowed errors.                                                 *)
THEOREM AgesAreBounded == Spec => []BoundedAge
<1>1. Init => IInv
  <2> SUFFICES ASSUME Init PROVE IInv
    OBVIOUS
  <2>1. TypeOK
    BY NoPAssumption, MesNumAssumption, BoundsAssumption
    DEF Init, TypeOK, Flag, FlagBy, Message, NoText, Ping, Session
  <2>2. NotAhead(flg) /\ NotAhead(flg_now) /\ NewSession /\ Idle /\ SamplesAge
    BY DEF Init, NotAhead, NewSession, Idle, SamplesAge, FlagBy
  <2>3. LogAge /\ FlagCovered
    BY <2>1, NumberTypes, BoundsAssumption
    DEF Init, LogAge, FlagCovered, Fits, Covers, FlagBy, Ping
  <2>4. HostCovered /\ BoundedAge
    BY DEF Init, HostCovered, BoundedAge
  <2> QED BY <2>1, <2>2, <2>3, <2>4 DEF IInv
<1>2. IInv /\ TypeOK' /\ [Next]_vars => IInv'
  BY IInvOfNext
<1>3. IInv => BoundedAge
  BY DEF IInv
<1> QED BY <1>1, <1>2, <1>3, TypeCorrect, PTL DEF Spec
-----------------------------------------------------------------------------
(* Why the files implement the feed.  Texts age in one direction: what was  *)
(* sent is not newer than what the host has just read, which is not newer   *)
(* than the file, which is not newer than the newest published ping; and    *)
(* the sensor's next text is not older than that.                           *)
Older(a, b) == a.s < b.s \/ (a.s = b.s /\ a.n <= b.n)

Launched == spc # "off" => lpc = "running"

LatestInv ==
    /\ latest.s <= session
    /\ lpc \in {"flgOpened", "flagged"} => latest.s < session
    /\ (spc # "off" /\ latest.s = session) => latest.n <= loop_n

InHand == hpc = "send" /\ val # NoText

TextOrder ==
    /\ \A i \in Texts : /\ Older(sent[i].msg, latest)
                        /\ detLog # NoText => Older(sent[i].msg, detLog)
                        /\ InHand => Older(sent[i].msg, val)
    /\ InHand => Older(val, latest) /\ (detLog # NoText => Older(val, detLog))
    /\ detLog # NoText => Older(detLog, latest)

HasNewest == Texts = {} \/ \E k \in Texts : \A j \in Texts : j <= k

FeedInv == TypeOK /\ Launched /\ LatestInv /\ TextOrder /\ HasNewest

LEMMA LatestType ==
    ASSUME TypeOK
    PROVE  /\ latest \in Feed!Stamp /\ latest.s \in Int /\ latest.n \in Int
           /\ session \in Int /\ loop_n \in Int
BY NoPAssumption, BoundsAssumption DEF TypeOK, Feed!Stamp, Session, Ping

LEMMA OlderTransitive ==
    ASSUME NEW a, NEW b, NEW c, a.s \in Int, a.n \in Int, b.s \in Int, b.n \in Int,
           c.s \in Int, c.n \in Int, Older(a, b), Older(b, c)
    PROVE  Older(a, c)
BY DEF Older

(* Only CloseLog publishes, and what it publishes is not older.             *)
LEMMA LatestOfNext ==
    ASSUME FeedInv, TypeOK', [Next]_vars
    PROVE  /\ Launched' /\ LatestInv'
           /\ CloseLog \/ latest' = latest
           /\ CloseLog => /\ latest' = [s |-> session, n |-> loop_n]
                          /\ Older(latest, latest')
<1> USE NoPAssumption, BoundsAssumption, LatestType DEF FeedInv, Launched, LatestInv
<1>1. CASE LauncherStep
  BY <1>1 DEF LauncherStep, LauncherClosesFlg, LauncherRunsSensor, LauncherFinishes, sensor,
              history, CloseLog, TypeOK
<1>2. CASE Measure \/ MeasureFails \/ OpenLog \/ OpenLogFails \/ OpenFlg \/ SensorExits
  BY <1>2 DEF Measure, MeasureFails, OpenLog, OpenLogFails, OpenFlg, SensorExits, launcher,
              history, CloseLog
<1>3. CASE CloseLog
  <2>1. /\ spc = "closeLog" /\ spc' = "openFlg" /\ latest' = [s |-> session, n |-> loop_n]
        /\ UNCHANGED <<lpc, session, loop_n>>
    BY <1>3 DEF CloseLog, launcher
  <2>2. lpc \notin {"flgOpened", "flagged"}
    BY <2>1
  <2>3. Older(latest, latest')
    BY <2>1 DEF Older
  <2> QED
    BY <1>3, <2>1, <2>2, <2>3
<1>4. CASE OpenFlgFails \/ CloseFlg
  <2>1. /\ UNCHANGED <<lpc, session, latest>> /\ Advance /\ spc # "off" /\ spc # "closeLog"
    BY <1>4 DEF OpenFlgFails, CloseFlg, launcher, history
  <2>2. loop_n' = loop_n \/ loop_n' = loop_n + 1
    BY <2>1 DEF Advance
  <2> QED
    BY <2>1, <2>2 DEF CloseLog
<1>5. CASE HostStep
  BY <1>5 DEF HostStep, HostConnects, HostOpensFlg, HostOpenFlgFails, HostClosesFlg, HostPolls,
              HostReadsLog, HostSends, HostSendFails, launcher, sensor, files, history, CloseLog
<1>6. CASE Operator
  BY <1>6 DEF Operator, LaunchSensing, SensingAborted, HostStarts, HostInterrupted, launcher,
              sensor, files, history, CloseLog
<1>7. CASE UNCHANGED vars
  BY <1>7 DEF vars, launcher, sensor, history, CloseLog
<1> QED
  BY <1>1, <1>2, <1>3, <1>4, <1>5, <1>6, <1>7 DEF Next, SensorStep

(* What a step that publishes nothing and touches no text leaves alone.     *)
LEMMA OrderKept ==
    ASSUME TextOrder, HasNewest, UNCHANGED <<sent, val, latest>>,
           detLog' = detLog \/ detLog' = NoText,
           hpc' = "send" => hpc = "send"
    PROVE  TextOrder' /\ HasNewest' /\ UNCHANGED Seen
<1>1. Texts' = Texts /\ UNCHANGED Seen
  BY DEF Texts, Seen
<1>2. (InHand' => InHand) /\ (detLog' # NoText => detLog' = detLog /\ detLog # NoText)
  BY DEF InHand
<1>4. \A i \in Texts' : /\ Older(sent'[i].msg, latest')
                        /\ detLog' # NoText => Older(sent'[i].msg, detLog')
                        /\ InHand' => Older(sent'[i].msg, val')
  BY <1>1, <1>2 DEF TextOrder
<1>5. /\ InHand' => Older(val', latest') /\ (detLog' # NoText => Older(val', detLog'))
      /\ detLog' # NoText => Older(detLog', latest')
  BY <1>2 DEF TextOrder
<1>6. TextOrder'
  BY <1>4, <1>5 DEF TextOrder
<1> QED
  BY <1>1, <1>6 DEF HasNewest

LEMMA TextType ==
    ASSUME TypeOK
    PROVE  /\ \A i \in Texts : sent[i].msg \in Message
           /\ detLog # NoText => detLog \in Message
           /\ val # NoText => val \in Message
           /\ \A m \in Message : m.s \in Int /\ m.n \in Int /\ [s |-> m.s, n |-> m.n] \in Feed!Stamp
<1>1. ASSUME NEW i \in Texts PROVE sent[i].msg \in Message
  <2>1. sent \in Seq(Entry) /\ i \in DOMAIN sent /\ sent[i].msg # NoText
    BY DEF TypeOK, Texts
  <2>2. sent[i] \in Entry
    BY <2>1
  <2> QED
    BY <2>1, <2>2 DEF Entry
<1>2. /\ detLog # NoText => detLog \in Message
      /\ val # NoText => val \in Message
  BY DEF TypeOK
<1>3. \A m \in Message : m.s \in Int /\ m.n \in Int /\ [s |-> m.s, n |-> m.n] \in Feed!Stamp
  BY NoPAssumption, BoundsAssumption DEF Message, Feed!Stamp, Session, Ping
<1> QED
  BY <1>1, <1>2, <1>3

LEMMA OrderAfterCloseLog ==
    ASSUME FeedInv, TypeOK', CloseLog
    PROVE  /\ TextOrder' /\ HasNewest' /\ UNCHANGED Seen
           /\ Feed!Publish(latest')
<1>1. /\ latest' = [s |-> session, n |-> loop_n] /\ Older(latest, latest')
      /\ detLog' = [s |-> session, n |-> loop_n, data |-> samples]
      /\ UNCHANGED <<sent, val, hpc>>
  BY LatestOfNext DEF CloseLog, host, Next, SensorStep
<1>2. Texts' = Texts /\ UNCHANGED Seen
  BY <1>1 DEF Texts, Seen
<1>3. ASSUME NEW m \in Message, Older(m, latest) PROVE Older(m, latest') /\ Older(m, detLog')
  <2>1. Older(m, latest')
    BY <1>1, <1>3, LatestType, TextType, OlderTransitive DEF FeedInv
  <2> QED
    BY <1>1, <2>1 DEF Older
<1>4. \A i \in Texts : Older(sent[i].msg, latest') /\ Older(sent[i].msg, detLog')
  BY <1>3, TextType DEF FeedInv, TextOrder
<1>5. InHand => Older(val, latest') /\ Older(val, detLog')
  BY <1>3, TextType DEF FeedInv, TextOrder, InHand
<1>6. Older(detLog', latest')
  BY <1>1, LatestType DEF Older, FeedInv
<1>7. TextOrder'
  BY <1>1, <1>2, <1>4, <1>5, <1>6 DEF FeedInv, TextOrder, InHand, Older
<1> QED
  BY <1>1, <1>2, <1>7 DEF FeedInv, HasNewest, Feed!Publish, Feed!AtMost, Older

LEMMA SeenIsText ==
    ASSUME FeedInv
    PROVE  Seen = Feed!Nothing \/ \E i \in Texts : Seen = [s |-> sent[i].msg.s, n |-> sent[i].msg.n]
<1>1. CASE Texts = {}
  BY <1>1 DEF Seen, Feed!Nothing
<1>2. CASE Texts # {}
  <2>1. PICK k \in Texts : \A j \in Texts : j <= k
    BY <1>2 DEF FeedInv, HasNewest
  <2>2. DEFINE i == CHOOSE q \in Texts : \A j \in Texts : j <= q
  <2>3. i \in Texts
    BY <2>1
  <2> QED
    BY <1>2, <2>3 DEF Seen
<1> QED
  BY <1>1, <1>2

(* Sending a text is the abstract Forward; sending an empty one is nothing. *)
LEMMA OrderAfterSend ==
    ASSUME FeedInv, TypeOK', HostSends
    PROVE  /\ TextOrder' /\ HasNewest'
           /\ \/ UNCHANGED <<latest, Seen>>
              \/ \E m \in Feed!Stamp : Feed!Forward(m)
<1> DEFINE last == Len(sent) + 1
<1>1. /\ hpc = "send" /\ hpc' # "send" /\ sent' = Append(sent, [flag |-> flg_now, msg |-> val])
      /\ UNCHANGED <<detLog, latest>> /\ sent \in Seq(Entry)
      /\ [flag |-> flg_now, msg |-> val] \in Entry
  BY DEF HostSends, files, history, FeedInv, TypeOK, Entry
<1>2. /\ DOMAIN sent = 1 .. Len(sent) /\ DOMAIN sent' = 1 .. last /\ Len(sent) \in Nat
      /\ \A i \in DOMAIN sent : sent'[i] = sent[i]
      /\ sent'[last].msg = val
  BY <1>1
<1>3. Texts \subseteq 1 .. Len(sent)
  BY <1>2 DEF Texts
<1>4. CASE val = NoText
  <2>1. Texts' = Texts
    BY <1>2, <1>4 DEF Texts
  <2>2. \A i \in Texts : sent'[i] = sent[i]
    BY <1>2, <1>3
  <2>3. TextOrder'
    BY <1>1, <2>1, <2>2 DEF FeedInv, TextOrder, InHand
  <2>4. UNCHANGED Seen
    <3>1. CASE Texts = {}
      BY <2>1, <3>1 DEF Seen
    <3>2. CASE Texts # {}
      <4>1. PICK k \in Texts : \A j \in Texts : j <= k
        BY <3>2 DEF FeedInv, HasNewest
      <4> DEFINE i == CHOOSE q \in Texts : \A j \in Texts : j <= q
      <4>2. i \in Texts
        BY <4>1
      <4>3. sent'[i] = sent[i]
        BY <2>2, <4>2
      <4>4. Seen = [s |-> sent[i].msg.s, n |-> sent[i].msg.n]
        BY <3>2 DEF Seen
      <4>5. Seen' = [s |-> sent'[i].msg.s, n |-> sent'[i].msg.n]
        BY <2>1, <3>2 DEF Seen
      <4> QED
        BY <4>3, <4>4, <4>5
    <3> QED
      BY <3>1, <3>2
  <2> QED
    BY <1>1, <2>1, <2>3, <2>4 DEF FeedInv, HasNewest
<1>5. CASE val # NoText
  <2>1. /\ Texts' = Texts \cup {last} /\ last \in Texts'
        /\ \A j \in Texts' : j \in Int /\ j <= last
    BY <1>2, <1>3, <1>5 DEF Texts
  <2>2. HasNewest'
    BY <2>1 DEF HasNewest
  <2>3. Seen' = [s |-> val.s, n |-> val.n]
    <3> DEFINE i == CHOOSE q \in Texts' : \A j \in Texts' : j <= q
    <3>1. i \in Texts' /\ \A j \in Texts' : j <= i
      BY <2>1
    <3>2. i = last
      BY <2>1, <3>1, <1>2
    <3>3. Texts' # {} /\ Seen' = [s |-> sent'[i].msg.s, n |-> sent'[i].msg.n]
      BY <2>1 DEF Seen
    <3> QED
      BY <1>2, <3>2, <3>3
  <2>4. /\ InHand /\ Older(val, latest) /\ (detLog # NoText => Older(val, detLog))
        /\ \A i \in Texts : Older(sent[i].msg, val)
    BY <1>1, <1>5 DEF FeedInv, TextOrder, InHand
  <2>5. TextOrder'
    <3>1. \A i \in Texts' : Older(sent'[i].msg, latest')
      BY <1>1, <1>2, <1>3, <2>1, <2>4 DEF FeedInv, TextOrder
    <3>2. detLog' # NoText => \A i \in Texts' : Older(sent'[i].msg, detLog')
      BY <1>1, <1>2, <1>3, <2>1, <2>4 DEF FeedInv, TextOrder
    <3>3. detLog' # NoText => Older(detLog', latest')
      BY <1>1 DEF FeedInv, TextOrder
    <3>4. ~InHand'
      BY <1>1 DEF InHand
    <3> QED
      BY <3>1, <3>2, <3>3, <3>4 DEF TextOrder
  <2>6. Feed!Forward([s |-> val.s, n |-> val.n]) /\ [s |-> val.s, n |-> val.n] \in Feed!Stamp
    <3>1. val \in Message /\ [s |-> val.s, n |-> val.n] \in Feed!Stamp /\ -1 < val.s
      BY <1>5, TextType, BoundsAssumption DEF FeedInv, Feed!Stamp
    <3>2. Feed!AtMost(Seen, [s |-> val.s, n |-> val.n])
      BY <2>4, <3>1, SeenIsText DEF Feed!AtMost, Feed!Nothing, Older
    <3>3. Feed!AtMost([s |-> val.s, n |-> val.n], latest)
      BY <2>4 DEF Feed!AtMost, Older
    <3> QED
      BY <1>1, <2>3, <3>1, <3>2, <3>3 DEF Feed!Forward
  <2> QED
    BY <2>2, <2>5, <2>6
<1> QED
  BY <1>4, <1>5

LEMMA FeedOfNext ==
    ASSUME FeedInv, TypeOK', [Next]_vars
    PROVE  FeedInv' /\ [Feed!Next]_(Feed!feedVars)
<1>1. Launched' /\ LatestInv'
  BY LatestOfNext
<1>2. CASE CloseLog
  <2>1. latest' \in Feed!Stamp
    BY LatestType DEF TypeOK, Feed!Stamp, Session, Ping
  <2> QED
    BY <1>1, <1>2, <2>1, OrderAfterCloseLog DEF FeedInv, Feed!Next
<1>3. CASE HostSends
  BY <1>1, <1>3, OrderAfterSend DEF FeedInv, Feed!Next, Feed!feedVars
<1>4. CASE HostReadsLog
  <2>1. /\ UNCHANGED <<detLog, sent, latest>> /\ val' = detLog
    BY <1>4 DEF HostReadsLog, files, history
  <2>2. UNCHANGED Seen /\ Texts' = Texts
    BY <2>1 DEF Seen, Texts
  <2>3. TextOrder' /\ HasNewest'
    <3>1. \A i \in Texts' : /\ Older(sent'[i].msg, latest')
                            /\ detLog' # NoText => Older(sent'[i].msg, detLog')
                            /\ InHand' => Older(sent'[i].msg, val')
      BY <2>1, <2>2 DEF FeedInv, TextOrder, InHand
    <3>2. InHand' => /\ Older(val', latest')
                     /\ detLog' # NoText => Older(val', detLog')
      <4> SUFFICES ASSUME InHand' PROVE Older(detLog, latest) /\ Older(detLog, detLog)
        BY <2>1
      <4>1. detLog # NoText
        BY <2>1 DEF InHand
      <4>2. detLog.s \in Int /\ detLog.n \in Int
        BY <4>1, TextType DEF FeedInv
      <4> QED
        BY <4>1, <4>2 DEF FeedInv, TextOrder, Older
    <3> QED
      BY <2>1, <2>2, <3>1, <3>2 DEF FeedInv, TextOrder, HasNewest
  <2> QED
    BY <1>1, <2>1, <2>2, <2>3 DEF FeedInv, Feed!feedVars
<1>5. CASE HostStarts
  <2>1. /\ UNCHANGED <<detLog, latest>> /\ sent' = <<>> /\ hpc' # "send"
    BY <1>5 DEF HostStarts, files, history
  <2>2. Texts' = {} /\ Seen' = Feed!Nothing
    BY <2>1 DEF Seen, Texts, Feed!Nothing
  <2>3. TextOrder' /\ HasNewest'
    BY <2>1, <2>2 DEF FeedInv, TextOrder, HasNewest, InHand
  <2> QED
    BY <1>1, <2>1, <2>2, <2>3 DEF FeedInv, Feed!Next, Feed!NewHost
<1>6. ASSUME ~CloseLog, ~HostSends, ~HostReadsLog, ~HostStarts
      PROVE  /\ UNCHANGED <<sent, val>>
             /\ detLog' = detLog \/ detLog' = NoText
             /\ hpc' = "send" => hpc = "send"
  BY <1>6 DEF Next, vars, LauncherStep, SensorStep, HostStep, Operator, files, launcher, sensor,
     host, history, LauncherClosesFlg, LauncherRunsSensor, LauncherFinishes, Measure,
     MeasureFails, OpenLog, OpenLogFails, OpenFlg, OpenFlgFails, CloseFlg,
     HostConnects, HostOpensFlg, HostOpenFlgFails, HostClosesFlg, HostPolls,
     HostSendFails, LaunchSensing, SensingAborted, SensorExits, HostInterrupted
<1>7. CASE ~CloseLog /\ ~HostSends /\ ~HostReadsLog /\ ~HostStarts
  <2>1. UNCHANGED latest
    BY <1>7, LatestOfNext
  <2>2. /\ UNCHANGED <<sent, val>>
        /\ detLog' = detLog \/ detLog' = NoText
        /\ hpc' = "send" => hpc = "send"
    BY <1>6, <1>7
  <2>3. TextOrder' /\ HasNewest' /\ UNCHANGED Seen
    BY <2>1, <2>2, OrderKept DEF FeedInv
  <2> QED
    BY <1>1, <2>1, <2>3 DEF FeedInv, Feed!feedVars
<1> QED
  BY <1>2, <1>3, <1>4, <1>5, <1>7

LEMMA FeedStarts == Init => FeedInv /\ Feed!Init
<1> SUFFICES ASSUME Init PROVE FeedInv /\ Feed!Init
  OBVIOUS
<1>1. TypeOK
  BY NoPAssumption, MesNumAssumption, BoundsAssumption
  DEF Init, TypeOK, Flag, FlagBy, Message, NoText, Ping, Session
<1>2. Texts = {} /\ Seen = Feed!Nothing
  BY DEF Init, Texts, Seen, Feed!Nothing
<1>3. Launched /\ LatestInv
  BY DEF Init, Launched, LatestInv
<1>4. TextOrder /\ HasNewest
  BY <1>2, NoPAssumption DEF Init, TextOrder, HasNewest, InHand, Older, Ping
<1>5. Feed!Init
  BY <1>2, NoPAssumption, BoundsAssumption DEF Init, Feed!Init, Feed!Stamp, Ping
<1> QED
  BY <1>1, <1>3, <1>4, <1>5 DEF FeedInv

LEMMA FeedIsInvariant == Spec => []FeedInv
<1>1. FeedInv /\ TypeOK' /\ [Next]_vars => FeedInv'
  BY FeedOfNext
<1> QED
  BY <1>1, FeedStarts, TypeCorrect, PTL DEF Spec

(* The files implement the feed for every constant and every fault: what    *)
(* the host forwards was published, and never goes back to an older ping,   *)
(* although the sensor truncates and rewrites det_log.txt at any time.      *)
THEOREM FilesImplementFeed == Spec => FeedSpec
<1>1. FeedInv /\ TypeOK' /\ [Next]_vars => [Feed!Next]_(Feed!feedVars)
  BY FeedOfNext
<1> QED
  BY <1>1, FeedStarts, FeedIsInvariant, TypeCorrect, PTL DEF Spec, FeedSpec, Feed!Spec
-----------------------------------------------------------------------------
(* Why the last ping is not lost.  With one measurement per ping the sensor *)
(* does not touch det_log.txt again once it has written the last flag, and  *)
(* the log is complete at that time, unless its open failed.                *)
Last(f) == f.by = "sensor" /\ f.val >= NoP - 1

(* A last flag of the running session: the sensor has ended behind it.      *)
Settled(f) == Last(f) => /\ f.s <= session
                         /\ f.s = session => /\ spc = "off" /\ detLog # NoText
                                             /\ lpc \notin {"flgOpened", "flagged"}

LogWritten == /\ spc \in {"openFlg", "closeFlg"} => detLog # NoText
              /\ spc # "off" => lpc = "running"

LastSent ==
    /\ (hpc = "send" /\ Last(flg_now) /\ flg_now.s = session) => val # NoText
    /\ (hpc = "spin" /\ Last(flg_now) /\ flg_now.s = session) => sent[Len(sent)].msg # NoText
    /\ hpc = "spin" => flg_now.val >= NoP - 1

LastInv == LogWritten /\ Settled(flg) /\ Settled(flg_now) /\ LastSent

LEMMA SettledOfNext ==
    ASSUME MesNum = 1, "logOpen" \notin Faults, TypeOK, TypeOK', LastInv, [Next]_vars
    PROVE  LogWritten' /\ Settled(flg)' /\ Settled(flg_now)'
<1> USE NoPAssumption, BoundsAssumption
    DEF LastInv, LogWritten, Settled, Last, files, launcher, sensor, host, history
<1>0. session \in Nat /\ NoFlag.by = "none"
  BY DEF TypeOK, Session, NoFlag
<1>1. CASE LauncherStep
  BY <1>1, <1>0 DEF LauncherStep, LauncherClosesFlg, LauncherRunsSensor, LauncherFinishes, FlagBy
<1>2. CASE Measure \/ MeasureFails \/ OpenLog \/ CloseLog \/ OpenFlg \/ SensorExits
  <2>1. CASE Measure \/ MeasureFails \/ SensorExits
    BY <2>1 DEF Measure, MeasureFails, SensorExits
  <2>2. CASE OpenLog
    BY <2>2 DEF OpenLog
  <2>3. CASE CloseLog
    BY <2>3 DEF CloseLog, NoText, TypeOK, Session
  <2>4. CASE OpenFlg
    BY <2>4, <1>0 DEF OpenFlg
  <2> QED
    BY <1>2, <2>1, <2>2, <2>3, <2>4
<1>3. CASE OpenLogFails
  BY <1>3 DEF OpenLogFails
<1>4. CASE OpenFlgFails \/ CloseFlg
  <2>1. /\ spc \in {"openFlg", "closeFlg"} /\ Advance /\ detLog # NoText
        /\ flg' = flg \/ flg' = FlagBy("sensor", loop_n)
        /\ UNCHANGED <<detLog, lpc, session, flg_now>>
    BY <1>4 DEF OpenFlgFails, CloseFlg
  <2>2. /\ spc' \in {"measure", "off"}
        /\ loop_n >= NoP - 1 => spc' = "off"
    BY <2>1 DEF Advance, TypeOK, Ping
  <2> QED
    BY <1>0, <2>1, <2>2 DEF FlagBy
<1>5. CASE HostStep
  BY <1>5, <1>0 DEF HostStep, HostConnects, HostOpensFlg, HostOpenFlgFails, HostClosesFlg,
              HostPolls, HostReadsLog, HostSends, HostSendFails, FlagBy
<1>6. CASE LaunchSensing
  <2>1. /\ session' = session + 1 /\ flg' = NoFlag /\ UNCHANGED <<detLog, spc, flg_now>>
        /\ lpc = "idle" /\ lpc' = "flgOpened"
    BY <1>6 DEF LaunchSensing
  <2>2. flg_now.s \in Int
    BY NumberTypes, Fields
  <2> QED
    BY <1>0, <2>1, <2>2
<1>7. CASE SensingAborted \/ HostStarts \/ HostInterrupted
  BY <1>7 DEF SensingAborted, HostStarts, HostInterrupted
<1>8. CASE UNCHANGED vars
  BY <1>8 DEF vars
<1> QED
  BY <1>1, <1>2, <1>3, <1>4, <1>5, <1>6, <1>7, <1>8 DEF Next, SensorStep, Operator

LEMMA LastSentOfNext ==
    ASSUME TypeOK, TypeOK', LastInv, [Next]_vars
    PROVE  LastSent'
<1> USE DEF LastInv, LastSent, host
<1>1. CASE HostReadsLog
  BY <1>1 DEF HostReadsLog, Settled, launcher, files
<1>2. CASE HostSends
  <2>1. /\ hpc = "send" /\ sent' = Append(sent, [flag |-> flg_now, msg |-> val])
        /\ hpc' = IF flg_now.val < NoP - 1 THEN "poll" ELSE "spin"
        /\ UNCHANGED <<session, flg_now, val>>
    BY <1>2 DEF HostSends, launcher
  <2>2. sent'[Len(sent')].msg = val
    BY <2>1 DEF TypeOK
  <2>3. hpc' = "spin" => flg_now.val >= NoP - 1
    BY <2>1, NumberTypes, Fields, NoPAssumption
  <2> QED
    BY <2>1, <2>2, <2>3 DEF Last
<1>3. CASE LaunchSensing
  <2>1. /\ session' = session + 1 /\ UNCHANGED <<hpc, flg_now, val, sent>>
    BY <1>3 DEF LaunchSensing
  <2>2. flg_now.s \in Int /\ session \in Int
    BY NumberTypes, Fields
  <2>3. Last(flg_now) => flg_now.s <= session
    BY DEF Settled
  <2> QED
    BY <2>1, <2>2, <2>3 DEF Last
<1>4. CASE HostConnects \/ HostOpensFlg \/ HostOpenFlgFails \/ HostClosesFlg \/ HostPolls
           \/ HostSendFails \/ HostStarts \/ HostInterrupted
  BY <1>4 DEF HostConnects, HostOpensFlg, HostOpenFlgFails, HostClosesFlg, HostPolls,
              HostSendFails, HostStarts, HostInterrupted
<1>5. CASE LauncherStep \/ SensorStep \/ SensingAborted \/ UNCHANGED vars
  <2>1. UNCHANGED <<session, hpc, flg_now, val, sent>>
    BY <1>5 DEF LauncherStep, LauncherClosesFlg, LauncherRunsSensor, LauncherFinishes, SensorStep,
       Measure, MeasureFails, OpenLog, OpenLogFails, CloseLog, OpenFlg, OpenFlgFails, CloseFlg,
       SensorExits, SensingAborted, vars, launcher
  <2> QED
    BY <2>1 DEF Last
<1> QED
  BY <1>1, <1>2, <1>3, <1>4, <1>5 DEF Next, HostStep, Operator

(* A host that has finished on a flag of the sensor has sent a text for it, *)
(* for every number of pings, launches and host runs, with errors, aborts   *)
(* and interrupts, as long as a ping is measured once and the sensor can    *)
(* open det_log.txt.                                                        *)
THEOREM FinalPingIsSent ==
    ASSUME MesNum = 1, "logOpen" \notin Faults
    PROVE  Spec => []FinalPingNotLost
<1>1. Init => LastInv
  BY NoPAssumption DEF Init, LastInv, LogWritten, Settled, LastSent, Last, FlagBy, NoText, Ping
<1>2. TypeOK /\ TypeOK' /\ LastInv /\ [Next]_vars => LastInv'
  BY SettledOfNext, LastSentOfNext DEF LastInv
<1>3. TypeOK /\ LastInv => FinalPingNotLost
  <2> SUFFICES ASSUME TypeOK, LastInv, hpc = "spin", flg_now.by = "sensor",
                      sent[Len(sent)].msg = NoText
               PROVE  session > flg_now.s
    BY DEF FinalPingNotLost
  <2>1. Last(flg_now) /\ flg_now.s <= session /\ flg_now.s # session
    BY DEF LastInv, LastSent, Settled, Last
  <2> QED
    BY <2>1, NumberTypes, Fields
<1> QED
  BY <1>1, <1>2, <1>3, TypeCorrect, PTL DEF Spec
-----------------------------------------------------------------------------
(* Why a result is sent at most three times.  While a text is in det_log.txt *)
(* flg.prm holds the flag before it, its own, or one of a launcher (0 or 1), *)
(* so the second and every later time it is sent is for one of these.       *)
Apt(f, m) == \/ f.val <= 1 /\ (f.s > m.s \/ m.n = 0)
             \/ f.s = m.s /\ f.val \in {m.n - 1, m.n}

Measuring == spc \in {"measure", "openLog", "closeLog"}

FlagInFile ==
    /\ flg.val >= 0 => flg.s = session
    /\ lpc = "flagged" => flg.val <= 1
    /\ (Measuring /\ flg.val >= 0) => flg.val = loop_n - 1 \/ (flg.val <= 1 /\ loop_n = 0)

LogInFile ==
    /\ (Measuring /\ latest.s = session) => latest.n < loop_n
    /\ spc \in {"openFlg", "closeFlg"} => detLog # NoText /\ detLog.s = session /\ detLog.n = loop_n
    /\ (detLog # NoText /\ flg.val >= 0) => Apt(flg, detLog)

Repeats(m) == \E i \in DOMAIN sent : sent[i].msg = m

Accepted == hpc \in {"readLog", "send"}

AptHeld ==
    /\ (hpc = "readLog" /\ detLog # NoText /\ Repeats(detLog)) => Apt(flg_now, detLog)
    /\ (hpc = "send" /\ val # NoText /\ Repeats(val)) => Apt(flg_now, val)

AptSent ==
    \A i, j \in DOMAIN sent :
        (i < j /\ sent[j].msg # NoText /\ sent[i].msg = sent[j].msg)
            => Apt(sent[j].flag, sent[j].msg)

Rising ==
    /\ \A i, j \in DOMAIN sent : i < j => /\ sent[i].flag.val < sent[j].flag.val
                                          /\ sent[i].flag.s <= sent[j].flag.s
    /\ \A j \in DOMAIN sent : /\ sent[j].flag.val \in 0 .. flg_now.val
                              /\ sent[j].flag.s <= flg_now.s
                              /\ Accepted => sent[j].flag.val < flg_now.val
    /\ Accepted => flg_now.val >= 0
    /\ flg_now.s <= session

RepeatInv == FlagInFile /\ LogInFile /\ AptHeld /\ AptSent /\ Rising

LEMMA RepeatTypes ==
    ASSUME TypeOK
    PROVE  /\ session \in Int /\ loop_n \in Int /\ loop_n >= 0 /\ latest.s \in Int /\ latest.n \in Int
           /\ flg.val \in Int /\ flg.s \in Int /\ flg_now.val \in Int /\ flg_now.s \in Int
           /\ flg_now.val >= -1
           /\ NoFlag.val = -2
           /\ detLog # NoText => detLog.s \in Int /\ detLog.n \in Int
           /\ \A i \in DOMAIN sent : /\ sent[i].flag.val \in Int /\ sent[i].flag.s \in Int
                                     /\ sent[i].msg # NoText => sent[i].msg.s \in Int /\ sent[i].msg.n \in Int
           /\ DOMAIN sent \subseteq Int
<1>1. \A i \in DOMAIN sent : sent[i] \in Entry
  BY DEF TypeOK
<1>2. DOMAIN sent = 1 .. Len(sent)
  BY DEF TypeOK
<1>3. \A f \in Flag : f.val >= -1
  BY NoPAssumption DEF Flag
<1>4. loop_n >= 0
  BY NoPAssumption DEF TypeOK, Ping
<1>5. latest.s \in Int /\ latest.n \in Int
  BY LatestType
<1> QED
  BY <1>1, <1>2, <1>3, <1>4, <1>5, NumberTypes, Fields DEF Entry, NoFlag

(* The flag in the file belongs to the text in the file: the sensor writes  *)
(* them in turn, and a launch makes the text one of an earlier session.     *)
LEMMA FilesOfNext ==
    ASSUME MesNum = 1, Faults \cap {"logOpen", "flgOpen"} = {},
           FeedInv, FeedInv', FlagInFile, LogInFile, [Next]_vars
    PROVE  FlagInFile' /\ LogInFile'
<1> USE RepeatTypes DEF FlagInFile, LogInFile, FeedInv, Launched, LatestInv, Measuring, Apt,
                        files, launcher, sensor, host, history
<1>1. CASE LauncherClosesFlg
  <2>1. /\ lpc = "flgOpened" /\ flg'.val \in {0, 1} /\ flg'.s = session
        /\ UNCHANGED <<detLog, session, spc, loop_n, latest>> /\ spc = "off"
    BY <1>1 DEF LauncherClosesFlg, FlagBy
  <2>2. detLog # NoText => detLog.s < session
    BY <2>1 DEF TextOrder, Older
  <2> QED
    BY <2>1, <2>2
<1>2. CASE LauncherRunsSensor
  <2>1. lpc = "flagged" /\ loop_n' = 0 /\ lpc' = "running" /\ spc' = "measure"
        /\ UNCHANGED <<flg, detLog, session, latest>>
    BY <1>2 DEF LauncherRunsSensor
  <2> QED
    BY <2>1
<1>3. CASE LauncherFinishes \/ Measure \/ MeasureFails \/ SensorExits \/ SensingAborted
  <2>1. /\ UNCHANGED <<flg, detLog, session, loop_n, latest>>
        /\ lpc' = "flagged" => lpc = "flagged"
        /\ Measuring' => Measuring
        /\ spc' \in {"openFlg", "closeFlg"} => spc = spc'
    BY <1>3 DEF LauncherFinishes, Measure, MeasureFails, SensorExits, SensingAborted
  <2> QED
    BY <2>1
<1>4. CASE OpenLog
  BY <1>4 DEF OpenLog
<1>5. CASE CloseLog
  <2>1. /\ spc = "closeLog" /\ spc' = "openFlg" /\ UNCHANGED <<flg, session, loop_n, lpc>>
        /\ detLog' = [s |-> session, n |-> loop_n, data |-> samples]
        /\ latest' = [s |-> session, n |-> loop_n]
    BY <1>5 DEF CloseLog
  <2>2. detLog' # NoText
    BY <2>1 DEF NoText, TypeOK, Session
  <2>3. flg'.val >= 0 => Apt(flg', detLog')
    BY <2>1
  <2> QED
    BY <2>1, <2>2, <2>3
<1>6. CASE OpenFlg
  BY <1>6 DEF OpenFlg
<1>7. CASE CloseFlg
  <2>1. /\ spc = "closeFlg" /\ Advance /\ flg'.val = loop_n /\ flg'.s = session
        /\ UNCHANGED <<detLog, session, lpc, latest>>
    BY <1>7 DEF CloseFlg, FlagBy
  <2>2. \/ spc' = "off" /\ loop_n' = loop_n
        \/ spc' = "measure" /\ loop_n' = loop_n + 1
    <3>1. ~(y + 1 < MesNum)
      BY DEF TypeOK
    <3> QED
      BY <2>1, <3>1 DEF Advance
  <2> QED
    BY <2>1, <2>2
<1>8. CASE HostStep \/ HostStarts \/ HostInterrupted
  <2>1. /\ UNCHANGED <<detLog, session, spc, loop_n, lpc, latest>>
        /\ flg' = flg \/ flg' = NoFlag \/ flg'.val = -1
    BY <1>8 DEF HostStep, HostConnects, HostOpensFlg, HostOpenFlgFails, HostClosesFlg, HostPolls,
       HostReadsLog, HostSends, HostSendFails, HostStarts, HostInterrupted, FlagBy
  <2> QED
    BY <2>1
<1>9. CASE LaunchSensing
  BY <1>9 DEF LaunchSensing
<1>10. CASE UNCHANGED vars
  BY <1>10 DEF vars
<1> QED
  BY <1>1, <1>2, <1>3, <1>4, <1>5, <1>6, <1>7, <1>8, <1>9, <1>10
  DEF Next, LauncherStep, SensorStep, Operator, OpenLogFails, OpenFlgFails

(* Steps that neither accept a flag nor read, send or write a text.         *)
LEMMA SentKept ==
    ASSUME AptHeld, AptSent, Rising, TypeOK, UNCHANGED <<sent, val, flg_now>>, session' >= session,
           session' \in Int, detLog' = detLog \/ detLog' = NoText,
           hpc' \in {"readLog", "send"} => hpc' = hpc
    PROVE  AptHeld' /\ AptSent' /\ Rising'
<1>1. AptHeld'
  BY DEF AptHeld, Repeats, Apt
<1>2. AptSent'
  BY DEF AptSent, Apt
<1>3. Rising'
  BY RepeatTypes DEF Rising, Accepted
<1> QED
  BY <1>1, <1>2, <1>3

LEMMA SentOfNext ==
    ASSUME RepeatInv, FeedInv, TypeOK', [Next]_vars
    PROVE  AptHeld' /\ AptSent' /\ Rising'
<1> USE DEF RepeatInv, FeedInv
<1>1. CASE CloseLog
  <2>1. /\ detLog' = [s |-> session, n |-> loop_n, data |-> samples] /\ Measuring
        /\ UNCHANGED <<hpc, flg_now, val, sent, session>>
    BY <1>1 DEF CloseLog, launcher, host, Measuring
  <2>2. ASSUME NEW i \in DOMAIN sent PROVE sent[i].msg # detLog'
    <3>1. CASE sent[i].msg = NoText
      BY <2>1, <3>1, RepeatTypes DEF NoText, TypeOK, Session, BoundsAssumption
    <3>2. CASE sent[i].msg # NoText
      <4>1. Older(sent[i].msg, latest) /\ latest.s <= session
            /\ (latest.s = session => latest.n < loop_n)
        BY <2>1, <3>2 DEF TextOrder, Texts, LatestInv, LogInFile
      <4>2. ~(sent[i].msg.s = session /\ sent[i].msg.n = loop_n)
        BY <3>2, <4>1, RepeatTypes DEF Older
      <4> QED
        BY <2>1, <4>2
    <3> QED
      BY <3>1, <3>2
  <2>3. AptHeld'
    BY <2>1, <2>2 DEF AptHeld, Repeats, Apt
  <2> QED
    BY <2>1, <2>3 DEF AptSent, Apt, Rising, Accepted
<1>2. CASE HostPolls
  <2>1. /\ hpc = "poll" /\ hpc' = "readLog" /\ flg.val > flg_now.val /\ flg_now' = flg
        /\ UNCHANGED <<detLog, session, val, sent>>
    BY <1>2 DEF HostPolls, files, launcher
  <2>2. flg.val >= 0 /\ flg.s = session
    BY <2>1, RepeatTypes DEF FlagInFile
  <2>3. AptHeld'
    BY <2>1, <2>2 DEF AptHeld, LogInFile, Apt
  <2>4. AptSent'
    BY <2>1 DEF AptSent, Apt
  <2>5. Rising'
    <3>1. \A j \in DOMAIN sent : sent[j].flag.val \in 0 .. flg.val /\ sent[j].flag.val < flg.val
                                 /\ sent[j].flag.s <= flg.s
      BY <2>1, <2>2, RepeatTypes DEF Rising
    <3> QED
      BY <2>1, <2>2, <3>1, RepeatTypes DEF Rising, Accepted
  <2> QED
    BY <2>3, <2>4, <2>5
<1>3. CASE HostReadsLog
  <2>1. /\ hpc = "readLog" /\ hpc' = "send" /\ val' = detLog
        /\ UNCHANGED <<detLog, session, flg_now, sent>>
    BY <1>3 DEF HostReadsLog, files, launcher
  <2> QED
    BY <2>1 DEF AptHeld, Repeats, Apt, AptSent, Rising, Accepted
<1>4. CASE HostSends
  <2> DEFINE last == Len(sent) + 1
  <2>1. /\ hpc = "send" /\ hpc' \notin {"readLog", "send"}
        /\ sent' = Append(sent, [flag |-> flg_now, msg |-> val])
        /\ UNCHANGED <<session, flg_now, val>> /\ sent \in Seq(Entry)
    BY <1>4 DEF HostSends, launcher, TypeOK
  <2>2. /\ DOMAIN sent = 1 .. Len(sent) /\ DOMAIN sent' = 1 .. last /\ Len(sent) \in Nat
        /\ \A i \in DOMAIN sent : sent'[i] = sent[i]
        /\ sent'[last] = [flag |-> flg_now, msg |-> val]
    BY <2>1
  <2>3. \A i, j \in DOMAIN sent' : i < j =>
           /\ i \in DOMAIN sent /\ sent'[i] = sent[i]
           /\ j = last \/ (j \in DOMAIN sent /\ sent'[j] = sent[j])
    BY <2>2
  <2>4. AptHeld'
    BY <2>1 DEF AptHeld
  <2>5. AptSent'
    <3> SUFFICES ASSUME NEW i \in DOMAIN sent', NEW j \in DOMAIN sent', i < j,
                        sent'[j].msg # NoText, sent'[i].msg = sent'[j].msg
                 PROVE  Apt(sent'[j].flag, sent'[j].msg)
      BY DEF AptSent, Apt
    <3>1. CASE j = last
      BY <2>1, <2>2, <2>3, <3>1 DEF AptHeld, Repeats
    <3>2. CASE j # last
      BY <2>3, <3>2 DEF AptSent
    <3> QED
      BY <3>1, <3>2
  <2>6. Rising'
    <3>1. \A i \in DOMAIN sent : /\ sent[i].flag.val < flg_now.val /\ sent[i].flag.s <= flg_now.s
                                 /\ sent[i].flag.val \in 0 .. flg_now.val
      BY <2>1 DEF Rising, Accepted
    <3>2. flg_now.val \in 0 .. flg_now.val /\ flg_now.s <= flg_now.s
      BY <2>1, RepeatTypes DEF Rising, Accepted
    <3>3. \A i, j \in DOMAIN sent' : i < j => /\ sent'[i].flag.val < sent'[j].flag.val
                                              /\ sent'[i].flag.s <= sent'[j].flag.s
      BY <2>2, <2>3, <3>1 DEF Rising
    <3>4. \A j \in DOMAIN sent' : j \in DOMAIN sent \/ j = last
      BY <2>2
    <3>5. \A j \in DOMAIN sent' : sent'[j].flag.val \in 0 .. flg_now.val /\ sent'[j].flag.s <= flg_now.s
      BY <2>2, <3>1, <3>2, <3>4
    <3> QED
      BY <2>1, <3>3, <3>5 DEF Rising, Accepted
  <2> QED
    BY <2>4, <2>5, <2>6
<1>5. CASE HostStarts
  <2>1. /\ sent' = <<>> /\ hpc' = "connect" /\ flg_now'.s = session /\ session' = session
    BY <1>5 DEF HostStarts, launcher
  <2> QED
    BY <2>1, RepeatTypes DEF AptHeld, AptSent, Rising, Accepted
<1>6. ASSUME ~CloseLog, ~HostPolls, ~HostReadsLog, ~HostSends, ~HostStarts
      PROVE  /\ UNCHANGED <<sent, val, flg_now>>
             /\ session' = session \/ session' = session + 1
             /\ detLog' = detLog \/ detLog' = NoText
             /\ hpc' \in {"readLog", "send"} => hpc' = hpc
  BY <1>6 DEF Next, vars, LauncherStep, SensorStep, HostStep, Operator, files, launcher, sensor,
     host, history, LauncherClosesFlg, LauncherRunsSensor, LauncherFinishes, Measure,
     MeasureFails, OpenLog, OpenLogFails, OpenFlg, OpenFlgFails, CloseFlg,
     HostConnects, HostOpensFlg, HostOpenFlgFails, HostClosesFlg,
     HostSendFails, LaunchSensing, SensingAborted, SensorExits, HostInterrupted
<1>7. CASE ~CloseLog /\ ~HostPolls /\ ~HostReadsLog /\ ~HostSends /\ ~HostStarts
  <2>1. session' \in Int /\ session' >= session
    BY <1>6, <1>7, RepeatTypes
  <2> QED
    BY <1>6, <1>7, <2>1, SentKept
<1> QED
  BY <1>1, <1>2, <1>3, <1>4, <1>5, <1>7

(* The flags for which a text is sent again are one of a launcher, or among *)
(* the two of the sensor.                                                   *)
LEMMA TwoRepeats ==
    ASSUME TypeOK, RepeatInv, NEW m \in Message, m # NoText
    PROVE  \E v, w \in Int : \A j \in DOMAIN sent :
              (sent[j].msg = m /\ \E i \in DOMAIN sent : i < j /\ sent[i].msg = m)
                  => sent[j].flag.val \in {v, w}
<1> DEFINE Again(j) == sent[j].msg = m /\ \E i \in DOMAIN sent : i < j /\ sent[i].msg = m
<1> USE RepeatTypes
<1>0. m.s \in Int /\ m.n \in Int /\ m.n >= 0
  BY Fields, NoPAssumption DEF Message, Ping
<1>1. ASSUME NEW j \in DOMAIN sent, Again(j)
      PROVE  /\ Apt(sent[j].flag, m) /\ sent[j].flag.val >= 1
  <2>1. PICK i \in DOMAIN sent : i < j /\ sent[i].msg = m
    BY <1>1
  <2>2. sent[i].flag.val >= 0 /\ sent[i].flag.val < sent[j].flag.val
    BY <2>1 DEF RepeatInv, Rising
  <2> QED
    BY <1>1, <2>1, <2>2 DEF RepeatInv, AptSent
<1>2. CASE \E j \in DOMAIN sent : Again(j) /\ sent[j].flag.val <= 1 /\ (sent[j].flag.s > m.s \/ m.n = 0)
  <2>1. PICK j \in DOMAIN sent : Again(j) /\ sent[j].flag.val = 1 /\ (sent[j].flag.s > m.s \/ m.n = 0)
    BY <1>1, <1>2
  <2>2. ASSUME NEW k \in DOMAIN sent, Again(k) PROVE sent[k].flag.val = 1
    <3>1. Apt(sent[k].flag, m) /\ sent[k].flag.val >= 1
      BY <1>1, <2>2
    <3>2. ASSUME sent[k].flag.s = m.s, sent[j].flag.s > m.s PROVE FALSE
      <4>1. k < j
        <5>1. ~(j < k)
          BY <3>2 DEF RepeatInv, Rising
        <5>2. j # k
          BY <3>2
        <5> QED
          BY <5>1, <5>2
      <4>2. sent[k].flag.val < 1
        BY <2>1, <4>1 DEF RepeatInv, Rising
      <4> QED
        BY <3>1, <4>2
    <3> QED
      BY <1>0, <2>1, <3>1, <3>2 DEF Apt
  <2>3. \A k \in DOMAIN sent : Again(k) => sent[k].flag.val \in {1, 1}
    BY <2>2
  <2> HIDE DEF Again
  <2>4. \E v, w \in Int : \A k \in DOMAIN sent : Again(k) => sent[k].flag.val \in {v, w}
    BY <2>3
  <2> QED
    BY <2>4 DEF Again
<1>3. CASE ~\E j \in DOMAIN sent : Again(j) /\ sent[j].flag.val <= 1 /\ (sent[j].flag.s > m.s \/ m.n = 0)
  <2>1. \A j \in DOMAIN sent : Again(j) => sent[j].flag.val \in {m.n - 1, m.n}
    BY <1>1, <1>3 DEF Apt
  <2>2. m.n - 1 \in Int /\ m.n \in Int
    BY <1>0
  <2> QED
    BY <2>1, <2>2
<1> QED
  BY <1>2, <1>3

LEMMA ThreeAtMost == \A a, b, c : IsFiniteSet({a, b, c}) /\ Cardinality({a, b, c}) <= 3
<1> SUFFICES ASSUME NEW a, NEW b, NEW c PROVE IsFiniteSet({a, b, c}) /\ Cardinality({a, b, c}) <= 3
  OBVIOUS
<1>1. IsFiniteSet({c}) /\ Cardinality({c}) = 1
  BY FS_Singleton
<1>2. /\ IsFiniteSet({c} \cup {b}) /\ Cardinality({c} \cup {b}) \in {1, 2}
  BY <1>1, FS_AddElement
<1>3. /\ IsFiniteSet(({c} \cup {b}) \cup {a}) /\ Cardinality(({c} \cup {b}) \cup {a}) \in {1, 2, 3}
  BY <1>2, FS_AddElement
<1>4. {a, b, c} = ({c} \cup {b}) \cup {a}
  OBVIOUS
<1> QED
  BY <1>3, <1>4

(* A host run sends one result at most three times, for every number of     *)
(* pings, launches and host runs, with aborts and interrupts at any step    *)
(* and read errors of the FPGA, as long as a ping is measured once and the  *)
(* sensor can open its two files.                                           *)
THEOREM NoResultIsSentFourTimes ==
    ASSUME MesNum = 1, Faults \cap {"logOpen", "flgOpen"} = {}
    PROVE  Spec => []AtMostThrice
<1>1. Init => RepeatInv
  BY NoPAssumption, BoundsAssumption DEF Init, RepeatInv, FlagInFile, LogInFile, AptHeld, AptSent,
     Rising, Apt, Measuring, Accepted, FlagBy, Ping
<1>2. FeedInv /\ FeedInv' /\ RepeatInv /\ [Next]_vars => RepeatInv'
  BY FilesOfNext, SentOfNext DEF RepeatInv, FeedInv
<1>3. TypeOK /\ RepeatInv => AtMostThrice
  <2> SUFFICES ASSUME TypeOK, RepeatInv, NEW i \in DOMAIN sent, sent[i].msg # NoText
               PROVE  Cardinality({j \in DOMAIN sent : sent[j].msg = sent[i].msg}) <= 3
    BY DEF AtMostThrice
  <2> DEFINE m == sent[i].msg
             D == {j \in DOMAIN sent : sent[j].msg = m}
             Again(j) == \E k \in DOMAIN sent : k < j /\ sent[k].msg = m
             Of(v) == CHOOSE j \in D : sent[j].flag.val = v
  <2>1. m \in Message
    <3>1. sent[i] \in Entry
      BY DEF TypeOK
    <3> QED
      BY <3>1 DEF Entry
  <2>2. PICK v, w \in Int : \A j \in D : Again(j) => sent[j].flag.val \in {v, w}
    BY <2>1, TwoRepeats
  <2>3. ASSUME NEW j \in D, NEW k \in D, sent[j].flag.val = sent[k].flag.val PROVE j = k
    <3>1. ~(j < k) /\ ~(k < j)
      BY <2>3, RepeatTypes DEF RepeatInv, Rising
    <3> QED
      BY <3>1, RepeatTypes
  <2>4. ASSUME NEW j \in D PROVE j = Of(sent[j].flag.val)
    <3>1. Of(sent[j].flag.val) \in D /\ sent[Of(sent[j].flag.val)].flag.val = sent[j].flag.val
      OBVIOUS
    <3> QED
      BY <2>3, <3>1
  <2>5. \E a : \A j \in D : ~Again(j) => j = a
    <3>1. \A j, k \in D : ~Again(j) /\ ~Again(k) => j = k
      BY RepeatTypes
    <3> QED
      BY <3>1
  <2>6. PICK a : \A j \in D : ~Again(j) => j = a
    BY <2>5
  <2>7. D \subseteq {a, Of(v), Of(w)}
    BY <2>2, <2>4, <2>6
  <2> HIDE DEF D, Of
  <2>8. Cardinality(D) <= Cardinality({a, Of(v), Of(w)}) /\ IsFiniteSet(D)
    BY <2>7, ThreeAtMost, FS_Subset
  <2>9. Cardinality(D) \in Nat /\ Cardinality({a, Of(v), Of(w)}) \in Nat
    BY <2>8, ThreeAtMost, FS_CardinalityType
  <2>10. Cardinality({a, Of(v), Of(w)}) <= 3
    BY ThreeAtMost
  <2>11. Cardinality(D) <= 3
    BY <2>8, <2>9, <2>10
  <2> QED
    BY <2>11 DEF D
<1> QED
  BY <1>1, <1>2, <1>3, TypeCorrect, FeedIsInvariant, PTL DEF Spec
-----------------------------------------------------------------------------
(* What NothingFromEarlierSession is violated by: the launcher's flag 0.    *)
FreshForSensor ==
    swallowed = 0 =>
        \A i \in DOMAIN sent :
            sent[i].flag.by = "sensor" /\ sent[i].msg # NoText => sent[i].msg.s >= sent[i].flag.s

(* The sensor's flags are numbers of pings.                                 *)
Numbered(f) == f.by = "sensor" => f.val >= 0

FlagsInv == /\ Numbered(flg) /\ Numbered(flg_now)
            /\ \A i \in 1 .. Len(sent) : Numbered(sent[i].flag)

LEMMA FlagsOfNext == TypeOK /\ FlagsInv /\ [Next]_vars => FlagsInv'
<1> SUFFICES ASSUME TypeOK, FlagsInv, [Next]_vars PROVE FlagsInv'
  OBVIOUS
<1> USE DEF FlagsInv, Numbered, files, launcher, sensor, host, history
<1>1. CASE LauncherStep
  BY <1>1 DEF LauncherStep, LauncherClosesFlg, LauncherRunsSensor, LauncherFinishes, FlagBy
<1>2. CASE SensorStep
  <2>1. loop_n >= 0
    BY DEF TypeOK, Ping
  <2> QED
    BY <1>2, <2>1 DEF SensorStep, Measure, MeasureFails, OpenLog, OpenLogFails, CloseLog, OpenFlg,
                      OpenFlgFails, CloseFlg, SensorExits, FlagBy, NoFlag
<1>3. CASE HostSends
  <2>1. /\ sent \in Seq(Entry) /\ sent' = Append(sent, [flag |-> flg_now, msg |-> val])
        /\ UNCHANGED <<flg, flg_now>>
    BY <1>3 DEF HostSends, TypeOK
  <2>2. /\ Len(sent') = Len(sent) + 1 /\ sent'[Len(sent) + 1].flag = flg_now
        /\ \A i \in 1 .. Len(sent) : sent'[i] = sent[i]
    BY <2>1
  <2> QED
    BY <2>1, <2>2, LenProperties
<1>4. CASE HostConnects \/ HostOpensFlg \/ HostOpenFlgFails \/ HostClosesFlg \/ HostPolls
           \/ HostReadsLog \/ HostSendFails
  BY <1>4 DEF HostConnects, HostOpensFlg, HostOpenFlgFails, HostClosesFlg, HostPolls,
              HostReadsLog, HostSendFails, FlagBy, NoFlag
<1>5. CASE Operator
  BY <1>5 DEF Operator, LaunchSensing, SensingAborted, HostStarts, HostInterrupted, NoFlag
<1>6. CASE UNCHANGED vars
  BY <1>6 DEF vars
<1> QED
  BY <1>1, <1>2, <1>3, <1>4, <1>5, <1>6 DEF Next, HostStep

(* "Log, then flag" does keep the leftovers of an earlier session back: as  *)
(* long as the sensor swallowed no error, a text of an earlier session is   *)
(* never sent for a flag the sensor wrote, whatever was aborted and however *)
(* the programs were started.  Only the launcher's 0 lets one through.      *)
THEOREM LeftoversOnlyForLauncher == Spec => []FreshForSensor
<1>1. Init => FlagsInv
  BY DEF Init, FlagsInv, Numbered, FlagBy, Ping
<1>2. TypeOK /\ FlagsInv /\ BoundedAge => FreshForSensor
  <2> SUFFICES ASSUME TypeOK, FlagsInv, BoundedAge, swallowed = 0, NEW i \in DOMAIN sent,
                      sent[i].flag.by = "sensor", sent[i].msg # NoText
               PROVE  sent[i].msg.s >= sent[i].flag.s
    BY DEF FreshForSensor
  <2>1. sent \in Seq(Entry) /\ i \in 1 .. Len(sent)
    BY LenProperties DEF TypeOK
  <2>2. sent[i] \in Entry
    BY <2>1, ElementOfSeq
  <2>3. Covers(sent[i].msg, sent[i].flag)
    BY DEF BoundedAge
  <2>4. sent[i].flag.val \in Int /\ sent[i].flag.val >= 0 /\ sent[i].flag.s \in Int
    BY <2>1, <2>2 DEF FlagsInv, Numbered, Entry, Flag, Session
  <2>5. sent[i].msg.s \in Int
    BY <2>2 DEF Entry, Message, NoText, Session
  <2> QED
    BY <2>3, <2>4, <2>5 DEF Covers
<1> QED
  BY <1>1, <1>2, FlagsOfNext, TypeCorrect, AgesAreBounded, PTL DEF Spec
=============================================================================
