--------------------------- MODULE SensingHandoff ---------------------------
(***************************************************************************)
(* The sensing Pi.  Three processes share two files:                       *)
(*                                                                         *)
(*   launcher  sensing_yy_C_based_LPM.py: sets flg.prm to 0, then runs     *)
(*   sensor    sensing_py.bin: per ping, measure, rewrite det_log.txt,     *)
(*             then rewrite flg.prm with the ping number                   *)
(*   host      pypysocket_host_real_v2_endress.py: sets flg.prm to -1,     *)
(*             polls it for a larger number, then sends det_log.txt        *)
(*                                                                         *)
(* There is no lock.  An open for writing truncates the file, the text     *)
(* arrives when the writer closes it, and a reader may run in between.     *)
(*                                                                         *)
(*   flg, detLog   the files; NoFlag and NoText are the truncated files    *)
(*   session       how often sensing was launched (0: before this history) *)
(*   lpc, spc, hpc where each process is; "off" or "idle": not running     *)
(*   loop_n, y, samples   the sensor's loop counters, and the ping the     *)
(*                 oldest part of its receive buffers was measured in      *)
(*   flg_now, val  the host's locals: last accepted flag, text read        *)
(*   sent          what the current host run gave to the socket            *)
(*   hostRuns, swallowed, latest   history: host starts, sensor errors the *)
(*                 code only prints, newest ping completely in det_log     *)
(***************************************************************************)
EXTENDS Integers, Sequences, FiniteSets

CONSTANTS NoP,           \* pulse_n.prm: pings of a session
          MesNum,        \* mes_num: measurements of a ping (sensing_fpga.prm)
          MaxSession,    \* bound: launches of the sensing program
          MaxHostRuns,   \* bound: starts of the host program
          MaxSwallowed,  \* bound: swallowed sensor errors
          Faults         \* the failures that may happen, a subset of FaultKinds

FaultKinds == {"acquire", "logOpen", "flgOpen", "hostFlgOpen",
               "exit", "send", "abort", "interrupt"}

ASSUME NoPAssumption == NoP \in Nat \ {0}
ASSUME MesNumAssumption == MesNum \in Nat \ {0}
ASSUME BoundsAssumption == MaxSession \in Nat /\ MaxHostRuns \in Nat /\ MaxSwallowed \in Nat
ASSUME FaultsAssumption == Faults \subseteq FaultKinds

VARIABLES flg, detLog, session, lpc, spc, loop_n, y, samples,
          hpc, flg_now, val, sent, hostRuns, swallowed, latest

files    == <<flg, detLog>>
launcher == <<lpc, session>>
sensor   == <<spc, loop_n, y, samples>>
host     == <<hpc, flg_now, val, sent, hostRuns>>
history  == <<swallowed, latest>>
vars     == <<files, launcher, sensor, host, history>>

Ping    == 0 .. NoP - 1
Session == 0 .. MaxSession

Message == [s : Session, n : Ping, data : {-1} \cup Ping]
NoText  == [s |-> -1, n |-> -1, data |-> -1]

Flag   == [val : -1 .. NoP, s : Session, by : {"sensor", "launcher", "host"}]
NoFlag == [val |-> -2, s |-> -1, by |-> "none"]

(* A message the host gave to the socket, and the flag it was sent for.     *)
Entry == [flag : Flag, msg : Message \cup {NoText}]

FlagBy(who, v) == [val |-> v, s |-> session, by |-> who]

TypeOK ==
    /\ flg \in Flag \cup {NoFlag}
    /\ detLog \in Message \cup {NoText}
    /\ session \in Session
    /\ lpc \in {"idle", "flgOpened", "flagged", "running"}
    /\ spc \in {"off", "measure", "openLog", "closeLog", "openFlg", "closeFlg"}
    /\ loop_n \in Ping
    /\ y \in 0 .. MesNum - 1
    /\ samples \in {-1} \cup Ping
    /\ hpc \in {"off", "connect", "openFlg", "closeFlg", "poll",
                "readLog", "send", "reconnect", "spin"}
    /\ flg_now \in Flag
    /\ val \in Message \cup {NoText}
    /\ sent \in Seq(Entry)
    /\ hostRuns \in 0 .. MaxHostRuns
    /\ swallowed \in 0 .. MaxSwallowed
    /\ latest \in [s : Session, n : Ping]

-----------------------------------------------------------------------------
(* The files hold what an earlier session left: the repository itself has a *)
(* det_log.txt and a flg.prm.                                               *)
Init ==
    /\ session = 0
    /\ \E k \in Ping : /\ flg = FlagBy("sensor", k)
                       /\ detLog = [s |-> 0, n |-> k, data |-> k]
                       /\ latest = [s |-> 0, n |-> k]
    /\ lpc = "idle"
    /\ spc = "off" /\ loop_n = 0 /\ y = 0 /\ samples = -1
    /\ hpc = "off" /\ flg_now = [val |-> -1, s |-> 0, by |-> "host"]
    /\ val = NoText /\ sent = <<>>
    /\ hostRuns = 0 /\ swallowed = 0

-----------------------------------------------------------------------------
(* The launcher.  flg_writer opens flg.prm (the file is empty from then),   *)
(* and the 0 reaches the file when the with-block closes it.  A failing     *)
(* open is retried until it succeeds.                                       *)
LaunchSensing ==
    /\ lpc = "idle" /\ session < MaxSession
    /\ session' = session + 1
    /\ flg' = NoFlag
    /\ lpc' = "flgOpened"
    /\ UNCHANGED <<detLog, sensor, host, history>>

(* The "0" goes to the start of the file.  A "-1" the host wrote since the  *)
(* open keeps its second byte: the file then reads 01, and int("01") = 1.   *)
LauncherClosesFlg ==
    /\ lpc = "flgOpened"
    /\ flg' = FlagBy("launcher", IF flg.by = "host" THEN 1 ELSE 0)
    /\ lpc' = "flagged"
    /\ UNCHANGED <<detLog, session, sensor, host, history>>

(* sensing_py.bin starts: the FPGA and USB set-up, then loop_n = 0, with    *)
(* receive buffers that hold no measurement.                                *)
LauncherRunsSensor ==
    /\ lpc = "flagged"
    /\ lpc' = "running"
    /\ spc' = "measure" /\ loop_n' = 0 /\ y' = 0 /\ samples' = -1
    /\ UNCHANGED <<files, session, host, history>>

LauncherFinishes ==
    /\ lpc = "running" /\ spc = "off"
    /\ lpc' = "idle"
    /\ UNCHANGED <<files, session, sensor, host, history>>

(* Ctrl-C in the terminal of the launcher ends both programs; what they had *)
(* not yet written is lost and a truncated file stays empty.                *)
SensingAborted ==
    /\ "abort" \in Faults /\ lpc # "idle"
    /\ lpc' = "idle" /\ spc' = "off"
    /\ UNCHANGED <<files, session, loop_n, y, samples, host, history>>

-----------------------------------------------------------------------------
(* Mutant of Measure: the buffers are read without joining thread2.         *)
MeasureWithoutJoin ==
    /\ spc = "measure"
    /\ samples' \in {samples, loop_n}
    /\ spc' = "openLog"
    /\ UNCHANGED <<files, launcher, loop_n, y, host, history>>

(* The sensor.  thread2 fills the receive buffers and is joined.            *)
Measure ==
    /\ spc = "measure"
    /\ samples' = loop_n
    /\ spc' = "openLog"
    /\ UNCHANGED <<files, launcher, loop_n, y, host, history>>

(* An error of FT_GetStatus, or an error or short count of an FT_Read, is   *)
(* printed at most: some quarter of the buffers keeps an earlier ping.      *)
MeasureFails ==
    /\ "acquire" \in Faults /\ swallowed < MaxSwallowed
    /\ spc = "measure"
    /\ samples' \in samples .. loop_n - 1
    /\ swallowed' = swallowed + 1
    /\ spc' = "openLog"
    /\ UNCHANGED <<files, launcher, loop_n, y, host, latest>>

(* sensing_py.bin gives up: a parameter or waveform file is missing before  *)
(* the first measurement, or make_rx cannot save what it received (exit 7). *)
SensorExits ==
    /\ "exit" \in Faults
    /\ spc = "openLog" \/ (spc = "measure" /\ loop_n = 0)
    /\ spc' = "off"
    /\ UNCHANGED <<files, launcher, loop_n, y, samples, host, history>>

OpenLog ==
    /\ spc = "openLog"
    /\ detLog' = NoText
    /\ spc' = "closeLog"
    /\ UNCHANGED <<flg, launcher, loop_n, y, samples, host, history>>

OpenLogFails ==
    /\ "logOpen" \in Faults /\ swallowed < MaxSwallowed
    /\ spc = "openLog"
    /\ swallowed' = swallowed + 1
    /\ spc' = "openFlg"
    /\ UNCHANGED <<files, launcher, loop_n, y, samples, host, latest>>

(* Mutant of CloseLog: no fclose, the text stays in the stdio buffer.       *)
CloseLogUnflushed ==
    /\ spc = "closeLog"
    /\ spc' = "openFlg"
    /\ UNCHANGED <<files, launcher, loop_n, y, samples, host, history>>

CloseLog ==
    /\ spc = "closeLog"
    /\ detLog' = [s |-> session, n |-> loop_n, data |-> samples]
    /\ latest' = [s |-> session, n |-> loop_n]
    /\ spc' = "openFlg"
    /\ UNCHANGED <<flg, launcher, loop_n, y, samples, host, swallowed>>

OpenFlg ==
    /\ spc = "openFlg"
    /\ flg' = NoFlag
    /\ spc' = "closeFlg"
    /\ UNCHANGED <<detLog, launcher, loop_n, y, samples, host, history>>

(* Mutants of Advance: one ping too many; pings restart instead of ending.  *)
AdvanceTooFar ==
    /\ y' = 0 /\ loop_n' = loop_n + 1
    /\ spc' = IF loop_n < NoP THEN "measure" ELSE "off"

AdvanceRestarting ==
    /\ y' = 0 /\ loop_n' = (loop_n + 1) % NoP
    /\ spc' = "measure"

(* The loop headers: next measurement, next ping, or the end of the run.    *)
Advance ==
    \/ /\ y + 1 < MesNum
       /\ y' = y + 1 /\ spc' = "openLog"
       /\ UNCHANGED loop_n
    \/ /\ y + 1 = MesNum /\ loop_n + 1 < NoP
       /\ y' = 0 /\ loop_n' = loop_n + 1 /\ spc' = "measure"
    \/ /\ y + 1 = MesNum /\ loop_n + 1 = NoP
       /\ spc' = "off"
       /\ UNCHANGED <<loop_n, y>>

OpenFlgFails ==
    /\ "flgOpen" \in Faults
    /\ spc = "openFlg"
    /\ Advance
    /\ UNCHANGED <<files, launcher, samples, host, history>>

CloseFlg ==
    /\ spc = "closeFlg"
    /\ flg' = FlagBy("sensor", loop_n)
    /\ Advance
    /\ UNCHANGED <<detLog, launcher, samples, host, history>>

-----------------------------------------------------------------------------
(* The host.                                                                *)
HostStarts ==
    /\ hpc = "off" /\ hostRuns < MaxHostRuns
    /\ hostRuns' = hostRuns + 1
    /\ hpc' = "connect"
    /\ sent' = <<>> /\ val' = NoText
    /\ flg_now' = [val |-> -1, s |-> session, by |-> "host"]
    /\ UNCHANGED <<files, launcher, sensor, history>>

HostConnects ==
    /\ hpc = "connect"
    /\ hpc' = "openFlg"
    /\ UNCHANGED <<files, launcher, sensor, flg_now, val, sent, hostRuns, history>>

HostOpensFlg ==
    /\ hpc = "openFlg"
    /\ flg' = NoFlag
    /\ hpc' = "closeFlg"
    /\ UNCHANGED <<detLog, launcher, sensor, flg_now, val, sent, hostRuns, history>>

HostOpenFlgFails ==
    /\ "hostFlgOpen" \in Faults
    /\ hpc = "openFlg"
    /\ hpc' = "poll"
    /\ UNCHANGED <<files, launcher, sensor, flg_now, val, sent, hostRuns, history>>

HostClosesFlg ==
    /\ hpc = "closeFlg"
    /\ flg' = FlagBy("host", -1)
    /\ hpc' = "poll"
    /\ UNCHANGED <<detLog, launcher, sensor, flg_now, val, sent, hostRuns, history>>

(* Mutants of HostPolls: the loop condition read_flg < Flg_now; waiting for  *)
(* the next number only.                                                    *)
HostPollsSameFlag ==
    /\ hpc = "poll"
    /\ flg.val >= flg_now.val /\ flg # NoFlag
    /\ flg_now' = flg
    /\ hpc' = "readLog"
    /\ UNCHANGED <<files, launcher, sensor, val, sent, hostRuns, history>>

HostPollsNextFlag ==
    /\ hpc = "poll"
    /\ flg.val = flg_now.val + 1
    /\ flg_now' = flg
    /\ hpc' = "readLog"
    /\ UNCHANGED <<files, launcher, sensor, val, sent, hostRuns, history>>

(* flg_read_checker leaves its loop when the file parses as an integer      *)
(* larger than flg_now; every other poll, and one of an empty file, is a    *)
(* stutter.                                                                 *)
HostPolls ==
    /\ hpc = "poll"
    /\ flg.val > flg_now.val
    /\ flg_now' = flg
    /\ hpc' = "readLog"
    /\ UNCHANGED <<files, launcher, sensor, val, sent, hostRuns, history>>

HostReadsLog ==
    /\ hpc = "readLog"
    /\ val' = detLog
    /\ hpc' = "send"
    /\ UNCHANGED <<files, launcher, sensor, flg_now, sent, hostRuns, history>>

(* The inner loop of main goes on while flg_now < max_pulse_n - 1; after it *)
(* the outer loop spins without doing anything.                             *)
HostSends ==
    /\ hpc = "send"
    /\ sent' = Append(sent, [flag |-> flg_now, msg |-> val])
    /\ hpc' = IF flg_now.val < NoP - 1 THEN "poll" ELSE "spin"
    /\ UNCHANGED <<files, launcher, sensor, flg_now, val, hostRuns, history>>

(* The text is not sent again; connect is retried on the same socket, which *)
(* answers that it is connected already (see SocketLink).                   *)
HostSendFails ==
    /\ "send" \in Faults
    /\ hpc = "send"
    /\ hpc' = "reconnect"
    /\ UNCHANGED <<files, launcher, sensor, flg_now, val, sent, hostRuns, history>>

HostInterrupted ==
    /\ "interrupt" \in Faults
    /\ hpc # "off"
    /\ hpc' = "off"
    /\ UNCHANGED <<files, launcher, sensor, flg_now, val, sent, hostRuns, history>>

-----------------------------------------------------------------------------
LauncherStep == LauncherClosesFlg \/ LauncherRunsSensor \/ LauncherFinishes

SensorStep == \/ Measure \/ MeasureFails
              \/ OpenLog \/ OpenLogFails \/ CloseLog
              \/ OpenFlg \/ OpenFlgFails \/ CloseFlg
              \/ SensorExits

HostStep == \/ HostConnects
            \/ HostOpensFlg \/ HostOpenFlgFails \/ HostClosesFlg
            \/ HostPolls \/ HostReadsLog
            \/ HostSends \/ HostSendFails

Operator == LaunchSensing \/ SensingAborted \/ HostStarts \/ HostInterrupted

Next == LauncherStep \/ SensorStep \/ HostStep \/ Operator

Spec == Init /\ [][Next]_vars

(* Three processes the kernel schedules; the operator owes nothing.         *)
Fairness == WF_vars(LauncherStep) /\ WF_vars(SensorStep) /\ WF_vars(HostStep)

FairSpec == Spec /\ Fairness

-----------------------------------------------------------------------------
(* m is recent enough to be sent for flag f: each swallowed error lets it   *)
(* be one ping older; a text of an earlier session counts as ping -1.       *)
Covers(m, f) ==
    \/ m.s > f.s
    \/ m.s = f.s /\ f.val - m.data <= swallowed
    \/ m.s < f.s /\ f.val + 1 <= swallowed

(* Whatever the host sends for a flag the sensor wrote was measured in that *)
(* ping or later, less one ping for every error the sensor swallowed: the   *)
(* order "log, then flag" of the sensor and "flag, then log" of the host    *)
(* makes it so, without a lock.                                             *)
BoundedAge ==
    \A i \in DOMAIN sent :
        LET e == sent[i] IN
        (e.flag.by = "sensor" /\ e.msg # NoText) => Covers(e.msg, e.flag)

(* The race that reads det_log.txt while it is truncated never costs the    *)
(* last ping: a host that has finished on a flag of the sensor sent a text, *)
(* unless a newer session had begun to rewrite the file.                    *)
FinalPingNotLost ==
    (hpc = "spin" /\ flg_now.by = "sensor" /\ sent[Len(sent)].msg = NoText)
        => session > flg_now.s

(* A host run sends the result of one ping at most three times: once for an *)
(* older flag it accepted before a delay, once for the flag before it and   *)
(* once for its own.  No error of the sensor, one measurement per ping.     *)
AtMostThrice ==
    \A i \in DOMAIN sent :
        sent[i].msg # NoText =>
            Cardinality({j \in DOMAIN sent : sent[j].msg = sent[i].msg}) <= 3

(* A host that polls while a sensing run is in progress finishes: the flag  *)
(* of the last ping stays in the file until the host has accepted it.  Only *)
(* the end of the host, or of the run before it wrote that flag, prevents it.*)
LastFlagWritten == flg.by = "sensor" /\ flg.val = NoP - 1

HostCatchesLastPing ==
    (hpc = "poll" /\ spc # "off")
        ~> (hpc \in {"spin", "off"} \/ (lpc = "idle" /\ ~LastFlagWritten))

(* What the comments "sending_data_log_writing" and "sending_flg_update" of *)
(* sensing_py.c say: the flag announces data written before it.  Nothing    *)
(* sent for a flag of a session is a leftover of an earlier session.        *)
NothingFromEarlierSession ==
    \A i \in DOMAIN sent :
        sent[i].msg # NoText => sent[i].msg.s >= sent[i].flag.s

Texts == {i \in DOMAIN sent : sent[i].msg # NoText}

(* The newest ping the host has forwarded.                                  *)
Seen == IF Texts = {} THEN [s |-> -1, n |-> -1]
        ELSE LET i == CHOOSE k \in Texts : \A j \in Texts : j <= k
             IN  [s |-> sent[i].msg.s, n |-> sent[i].msg.n]

Feed == INSTANCE PingFeed WITH seen <- Seen

(* The two files and three programs implement the abstract feed: the host   *)
(* forwards published pings only, and never an older one after a newer.     *)
FeedSpec == Feed!Spec
=============================================================================
