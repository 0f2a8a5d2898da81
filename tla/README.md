# Verification of the bat-inspired obstacle avoidance system (M100)

TLA+ models, TLC runs and TLAPS proofs for the programs that let the drone
listen to its own echoes and turn away from obstacles. Paths are relative to
the repository; `A/` stands for `auto_sensing_Pi/`, `D/` for
`Flight_controller_Pi/BatDrone/src/dji_sdk_demo/`, `O/` for
`Flight_controller_Pi/Onboard-SDK/osdk-core/`.

## 1. The system

Two Raspberry Pis, joined by an Ethernet cable.

```
 sensing Pi                                        flight controller Pi
 launcher --runs--> sensor --det_log.txt--> host ==TCP==> server --avoid_direc--> autopilot --> DJI node
        \--flg.prm=0-->  \--flg.prm=n--> polls            \--obs_info--> (move_test_to_goal)
```

| component | state it keeps | operations | talks to |
|---|---|---|---|
| launcher `A/sensing_yy_C_based_LPM.py` | none beyond its place in `main` | write flag 0, prepare waveforms, run the sensor, wait | `flg.prm`, the sensor process |
| sensor `A/sensing_py.c` | FPGA set-up, receive buffers, `loop_n`, `y` | measure (`thread2`), detect echoes, write `det_log.txt`, write `flg.prm` | FPGA over USB, the two files |
| host `A/pypysocket_host_real_v2_endress.py` | `flg_now`, a socket | write flag -1, poll the flag, read the log, send it, reconnect | the two files, TCP |
| server `D/scripts/pypysocket_server_v081_prottype_ros.py` | a thread per connection, the shared `obsmsg` | accept, receive, parse, compute the avoidance angle, publish | TCP, topics `obs_info`, `avoid_direc` |
| autopilot `D/scripts/drone_python.py` | heading, position, target yaw, U-turn flag and count | three callbacks, a 50 Hz timer | topics, `flight_control_setpoint_generic` |
| C++ autopilot `D/src/move_test/` | `state` 0..3, stop and turn counters | callbacks and a control loop in one thread | as above |
| DJI node `Flight_controller_Pi/BatDrone/src/dji_sdk/` | none that matters here | services (arm, tasks, control authority), setpoint callback, in four spinner threads | Onboard-SDK |
| Onboard-SDK `O/` | session table, memory table, `ackErrorCode`, callback ring | `send`, `sendPoll`, `appHandler`, `waitForACK`, `callbackPoll` in threads of their own | flight controller over a serial line |
| rosserial, libftd2xx, rest of the SDK | vendored | - | - |

What makes it hard:

* three processes share two files without a lock; opening for writing empties
  a file, and the text arrives when the writer closes it;
* the programs are started and aborted by hand in any order, and the files
  keep what the last session left (the repository contains such leftovers);
* errors are printed and ignored in most places, and an exception ends just
  one thread in others;
* TCP carries texts without framing, the server runs a thread per connection
  on one global message, and the connection times out after 60 s of silence;
* rospy calls every subscriber and timer in a thread of its own, on one
  `Drone` object without a lock;
* the SDK's sender, reader and callback threads share tables that they test
  before they lock, and hand answers over in one variable without a lock, while
  the serial line loses and repeats frames.

What correctness means, per component:

* hand-off: what is sent for ping n was measured in ping n (or as much earlier
  as the ignored errors explain), the last ping is not lost, results do not go
  backwards, a running session is followed to its end;
* echo detection: the peaks of an ear are separated and keep the strongest
  echo, an echo is paired once, the nearest detection reaches the text, and the
  text can be cut in the middle;
* link: an angle comes from one text, but for the digits of a clock that a recv
  has cut, in the order of sending; everything that arrived is answered; the
  link recovers from a lost connection;
* autopilot: a U-turn hovers its full time and ends, outside the circle the
  drone moves homeward, angles stay in range, no callback fails;
* C++ autopilot: no flight without a pause after a failed take-off, a turn ends
  and ends at its target;
* command path: sessions do not share memory, an answer belongs to its command,
  retries end, callbacks keep their order, no call hangs in its wait.

## 2. Modules

| module | models | runs |
|---|---|---|
| `PingFeed` | abstract specification of the hand-off: pings are published in order and forwarded in order | property `FeedSpec` |
| `SensingHandoff` | launcher, sensor, host and their two files | `handoff_*` |
| `SensingHandoff_proofs` | its invariants, that it implements `PingFeed`, and where leftovers come from | - |
| `SocketLink` | `SocketClient`, TCP, the server's threads, `acc` | `link_*` |
| `SocketLink_proofs` | its four invariants, and when `obs_info` is of one sensing | - |
| `EchoPeaks` | `extract_peaks`, the pairing of the ears, the numbers in `det_log.txt` and their halves in `acc` | `echo_measure` |
| `EchoPeaks_proofs` | its six invariants, and the capacity of the arrays | - |
| `DroneControl` | `drone_python.py` | `drone_*` |
| `MCDroneControl` | the angles, headings and places TLC uses | |
| `DroneControl_proofs` | type correctness, `HoverIsWhole`, `OutsideMovesHomeward`, `transAngleRange`, and when positions are lost | - |
| `MoveTest` | `move_test.cpp`, and `move_test_to_goal.cpp` as the case without avoid angles | `move_test` |
| `MCMoveTest` | its headings and angles for TLC | |
| `MoveTest_proofs` | type correctness, `PausesBeforeFlight`, `TurnsEndAligned`, `calc_angle_diff` | - |
| `CallbackBuffer` | the ring between the SDK's read and callback threads | part of `command_*` |
| `CallbackQueue` | abstract specification of the ring: a bounded queue | property `QueueSpec` |
| `CallbackBuffer_proofs` | lemmas on the ring and its queue | - |
| `CommandLink` | callers, sessions, retries, answers; EXTENDS `CallbackBuffer` | `command_*` |
| `CommandLink_proofs` | its safety invariants but `AnswerIsNewest`, and that the ring implements `CallbackQueue` | - |
| `CommandAnswer_proofs` | `AnswerIsNewest`, and when a call gets its own answer | - |

### SensingHandoff

State: `flg` and `detLog` are the files. A file opened for writing is `NoFlag`
or `NoText` until its writer closes it; `OpenLog`/`CloseLog`,
`OpenFlg`/`CloseFlg`, `LaunchSensing`/`LauncherClosesFlg` and
`HostOpensFlg`/`HostClosesFlg` are these pairs. A text is its session, its ping
and `data`, the ping its samples come from; a flag is its number, the session
in which it was written and its writer. `lpc`, `spc`, `hpc` are the places of
the three processes. `loop_n`, `y`, `flg_now`, `val` are the variables of the
code. `sent` is what the current host run gave to the socket. `swallowed` and
`latest` are history.

Faults are switched on by the constant `Faults`: an ignored USB error
(`MeasureFails`), files that cannot be opened (`OpenLogFails`, `OpenFlgFails`,
`HostOpenFlgFails`; the launcher retries, so its failure is a stutter), a
program that exits (`SensorExits`), an abort of launcher and sensor at any step
(`SensingAborted`), an end of the host at any step (`HostInterrupted`), a
failing send (`HostSendFails`).

One interleaving of two writers changes the bytes: the launcher's `0` written
over the host's `-1` leaves `01`, which is read as 1 (`LauncherClosesFlg`). Every
other pair of overlapping writes leaves the text of one of them.

Assumptions: a text is shorter than a stdio buffer, so it reaches the file by
one write when the file is closed, and a reader sees all or nothing of it;
`pulse_n.prm` is not changed while the programs run; `det_log.txt` exists.

### SocketLink

A text is `PartsOfText` parts; `wire[c]` holds the parts that were sent on
connection c and not received. `Receive` takes 1 to `DateSize` of them, in
order, and computes what `acc` makes of the chunk (`Parsed`): a whole text; the
fallback (empty lists, angle 0) if a clock is inside; wrong lists or the
fallback for anything else that is cut. A chunk that begins inside a clock is
the exception to the second: the digits left of the time are a number to
`float()`, the first of those of the next text, and shift the middle at which
the list is cut. `data` keeps the clock part for it. The five steps of `acc` that
touch `obsmsg` or a topic are separate, so that threads interleave between them.
`Close` is the `finally` clause of `conn_client`; `TimesOut`, `LogFails` and
`AvoidRaises` (the angle of wrong lists may be NaN, and `int()` raises) lead
there.

Assumptions: the kernel refuses to connect a socket that was connected before
(Linux answers EISCONN, also after a reset); the server process itself does not
end; the backlog does not fill up.

### EchoPeaks

What the sensor does with one envelope per ear. The envelope is its local
maxima above the threshold, in the order of the scan: any times that are not
neighbours, any heights. `Maximum` is the part of the loop body that is common
to its three outcomes `NewPeak`, `StrongerPeak` and `WeakerPeak`; `ScanEnds` is
the return of `extract_peaks` for one ear and the call for the other;
`PairNext` and `NextRight` are the nested loops, one step per pair; `WritesLog`
writes the numbers that the loops with their two increments reach, and
`OpenLogFails` is the printed error in its place; `NextMeasurement` clears the
arrays. A number in the text is the detection it was computed from and whether
it is a distance or a direction. `Half`, `dist_list` and `direc_list` are the
server's. `strongest` is history.

The times of the code are in us (`TMin` = 1000, `TMax` = 25000, `TWidth` = 700,
`MaxDelay` = 290). `DelayAssumption`, that twice the delay is at most the
window, holds of these values and is what keeps pairs from crossing.

### DroneControl

One step is what a thread does between two accesses to an attribute another
thread writes: `AttitudeArrives`, `AttitudeSetsMatrix`, `AttitudeSetsYaw` for
`attitudeCallback`; `AvoidDirecReads`, `AvoidDirecWrites` for
`AvoidDirecCallback`; `FlyReadsPosition`, `FlyRetargets`, `FlyChecksTurn`,
`FlyComputesDelta`, `FlyPublishes` (or `FlyLogFails`) for one cycle of
`flyCallback`. The two reads of `target_yaw - RPY[2]` are one step. Angles are
integers with `H` units to pi; a position is whether it is 7.5 m or more from
the center, and the direction of the center; a speed is zero or not.
`hovered`, `undisturbed` and `callbackError` are history.

### MoveTest

Everything runs in one thread, so a callback is one step and a cycle of the loop
is one step; `ros::spinOnce` between two cycles delivers any number of messages
in any order, or none. `state`, `stop_counter`, `turn_counter` and the yaws are
the members of `Drone`. `TakeoffCalled` and `ClimbEnds` are the two halves of
`takeoff`, before and after its 10 s of spinning; `Stop`, `StopEnds`, `Turn`,
`TurnEnds` and `Fly` are the branches of the loop. `Aligned` is the test with the
misplaced parenthesis. `obs_info_callback` of `move_test_to_goal` never sets
`target_yaw`: that program is `AvoidAngles = {}`. `tookOff` and `still` are
history. A setpoint is its forward speed, zero or not.

### CommandLink and CallbackBuffer

A caller is a service callback in one of the node's spinner threads: `Call` is
the call and `send` up to the lock, `sendInterface` the part under `m_memLock`,
`waitForACK` the start of the wait, `CopiesInfo` and `CopiesData` the copy of
`ackErrorCode` field by field, `Again` the recursion of the control authority
and `Responds` the answer of the service. `SetpointSends` is a setpoint in
session mode 0, which takes a memory entry and frees it under the same lock but
leaves its frame there. `PollDue`, `PollLocked` are `sendPoll` before and under
the lock; `AckArrives`, `ReaderLocks` the ACK branch of `appHandler` in the same
way; `DispatchesCallback` or `HandlesInfo`, `HandlesData`, `Notifies` are what
follows in the read thread; `CallsBack` is the callback thread. `line` keeps
every frame that was transmitted, and an ACK for any of them may arrive at any
time, any number of times or never: loss, delay, repetition and reordering.

`allocSession` and `allocMemory` take the first free session and the first free
entry of the MMU's table. The MMU is sure to have the bytes for a frame only
while no block is in use, so with any block in use `NoRoom` may happen, and
`send` then returns as if it had sent. The MMU lays a new block, and moves
blocks that are in use, over bytes that free entries still point to.
`sendPoll` and `appHandler` may hold such an entry, because they test before they
lock (`Left`); they then find the old frame, the frame of another block, or
garbage, which is `NoFrame`. `sends` counts the transmissions by the command
whose frame it is, and `late` by the command whose session made them after it
had ended. The bound on retries is therefore `Retry` for a command's own session
and one for every other command with a late transmission (`LateFor`): the code
does send a frame `Retry` + 1 times when it lies over a block that `sendPoll`
still holds. `DispatchesCallback` has the test for a null handler; `Registered`
says which commands pass it.

`CallbackQueue` is what the ring amounts to: a queue of `MaxLen` - 1 callbacks
whose push, when it is full, loses the new callback and moves the oldest to the
end. `Contents` is the refinement mapping: the cells from `tail` on, around the
end of the ring.

Assumptions: a sequence number is not used again while an old ACK for it is under
way; the condition variable has no spurious wake-ups; `WAIT_TIMEOUT` (10 s) is
longer than all retries (at most 3 times 1000 ms, for the activation), so a wait
times out only when its session has ended (`WaitTimesOut`). The mutant without
this assumption is the one that breaks `AnswerIsNewest`.

## 3. Runs

| run | bounds | shows |
|---|---|---|
| `handoff_races` | 4 pings, 2 launches, 2 host runs, aborts, fair | `TypeOK`; the last ping is never lost to the truncated file; no result is sent more than three times; a host that polls during a sensing run that is not aborted reaches its last ping |
| `handoff_faults` | 3 pings of 2 measurements, 1 launch, 2 host runs, 2 ignored errors, all faults | `BoundedAge`; the files implement `PingFeed` |
| `handoff_stale` | 3 pings, 1 launch, 1 host run | **violated**: a waiting host sends a leftover text |
| `link_texts` | 2 connections, 2 texts of 2 parts, recv of up to 3, time-outs, log failures, NaN, fair | `TypeOK`; of another text at most the end of its clock gets into an angle; order and no repetition within a connection; a paced host gets an angle from exactly one text; what arrived is received and answered, or its connection is closed |
| `link_mixed` | 2 connections | **violated**: `obs_info` mixes two sensings |
| `link_retry` | 2 connections, 3 texts, fair | **violated**: trying again never connects |
| `echo_measure` | 11 samples, `TWidth` 4, `MaxDelay` 2, 3 heights | `TypeOK`; peaks are separated, the strongest is kept; pairs do not cross; the nearest detection is in the text; the halves match |
| `drone_turns` | H = 4, hover of 2 cycles, 2 headings, 2 avoid angles, 2 places, log failures, fair | `TypeOK`; hovers are whole; outside the circle, homeward; every U-turn ends or the timer's thread has died |
| `drone_position` | the same | **violated**: a position during the first attitude callback raises |
| `command_link` | 1 caller, 2 sessions, 2 memory entries, 3 commands of 2 transmissions, a ring of 3 cells, fair | `TypeOK`; sessions own their memory; an answer is accepted once, for its command; transmissions of a frame are bounded; a session that has ended is sent from once more at most; callbacks keep their order and none is null; the ring implements `CallbackQueue`; without overlapping calls an answer is the newest; no call hangs: it returns or asks again |
| `command_answer` | the same with 2 commands and a ring of 2 cells | **violated**: a call returns the answer to an earlier command |
| `move_test` | H = 4, tolerance 1, stops of 3 (1 before flight), turns of 2 aligned cycles, 3 headings, 3 avoid angles, fair | `TypeOK`; a failed take-off is followed by a whole pause; a turn ends aligned or to the right; one that keeps coming back ends |

Why the bounds are enough: the hazards of the hand-off involve a flag, the flag
before it and an older one, so 4 pings show a host that is two flags behind and
one that has finished; two sessions show every leftover, a third adds nothing
that the second does not leave. `AtMostThrice` is tight: with 2 in its place TLC
finds a violation. In the link two connections give two threads, and two texts
of two parts with a recv of three let a chunk be a part of a text, a whole one,
one and the start of the next, or the end of one and the next; longer texts are
covered by the proofs. In `command_link` a command with a callback returns at
once, so one caller has several sessions in use: three commands make a session
end and be used again between the test and the lock of another thread, and lay a
third command's frame over the block `sendPoll` holds, so that a frame is sent
`Retry` + 1 times: `BoundedRetries` is tight. A ring of three cells holds two
callbacks, whose order matters, is full with them, and goes around its end. What
one caller does not show are overlapping calls; the safety properties of the run
are proved for any number of callers, `CallsReturnOrAskAgain` is checked for one
only (the state space of two callers with a ring that matters is too large).
Stops of 3, of which
1 is left out before flight, tell the two stops of `MoveTest` apart. H = 4 has
angles below, at and above pi/4 on both sides, and the wrap at pi; a hover of 2
cycles has a first and a last one. 11 samples with a window of 4 hold three
separated peaks per ear, or two and a chain of replacements, so up to three
detections, of which the second is left out; a delay of 2 is the largest the
assumption allows. The proofs below remove the bounds for the safety properties.

`echo_measure` has no deadlock. In the other runs it is not checked because the
programs stop: the launcher after its run, the host at its bound of starts, the
autopilots when a service refuses or the drone has landed, the callers at their
bound of commands.

Fairness: the three processes of the sensing Pi are scheduled by the kernel and
none waits for a lock, so each has weak fairness as a whole; this includes the
assumption that the FPGA delivers its samples (`thread2` has no time-out). In
the link the accept loop, each connection thread, `conect_setup` and the
kernel's reset are fair, but starting, sending and ending the host are not. In
the autopilot the timer and started callbacks are fair, message arrival is not.
In `MoveTest` the loop is fair while `main` is in it, messages are not. In the
command path the callers, the reader and `sendPoll` go on with what they began
(weak fairness: no thread holds `m_memLock` across a wait). `sendPoll` scans the
sessions over and over, and one that stays in use becomes overdue, so as long as
any is in use it resends or gives one up; which of several comes first is left
open, since each has a bounded number of retries. New calls and ACKs are not
fair. The operator is never fair.

## 4. Findings

1. `handoff_stale`: `main` of the launcher writes flag 0 before anything was
   measured. A host that waits with -1, which is the documented order of
   starting, takes it for ping 0, sends the old `det_log.txt`, and then
   ignores the real ping 0, because 0 is not larger than 0. In TLC's shortest
   trace the two writes overlap and the file reads 01; with the 0 alone, written
   after the host's -1, the same happens.
2. `link_mixed`: the threads of an old and a new connection fill one `obsmsg`.
   `obs_num` may then be larger than the lists, and `move_test_to_goal.cpp`
   indexes the lists up to `obs_num`.
3. `link_retry`: after a failed send, for instance because of the server's 60 s
   time-out, the host tries to connect the used socket for ever.
4. `drone_position`: a position between two assignments of the first attitude
   callback raises and is dropped.
5. `command_answer`: `waitForACK` does not look whether the answer has come, nor
   whether its wait timed out, and returns what `ackErrorCode` holds. If the
   answer to take-off is lost, the service reports the answer to the command
   before it, for instance the success of obtaining control.

Two smaller observations from the same reading: a full callback ring loses the
newest callback and moves the oldest to the end, although its comment says that
it discards the old one (`O/utility/src/dji_circular_buffer.cpp:74`; the ring has
5000 cells; `CallbackQueue` states what it does, and `CallbacksInOrder` is stated
for the time before it overflows); and the turn of
`move_test.cpp:130` counts any negative difference as aligned, so a turn to the
right may end anywhere (`TurnsEndAligned` has one side only).

## 5. Proofs

`SensingHandoff_proofs`, for all `NoP`, `MesNum` (positive), all bounds and all
sets of faults:

* `TypeCorrect`: `Spec => []TypeOK`, by induction on the steps.
* `AgesAreBounded`: `Spec => []BoundedAge`. `BoundedAge` speaks only of what was
  sent and is not inductive. `IInv` adds: no flag of the running session is ahead
  of `loop_n` (`NotAhead`); between truncating the flag and starting the sensor
  everything is of an earlier session (`NewSession`); the samples and the log are
  as recent as the sensor's place says (`SamplesAge`, `LogAge`); the log in the
  file is recent enough for the flag in the file (`FlagCovered`) and for the flag
  the host holds (`HostCovered`). The heart is `AgesAfterCloseLog`: a new log is
  recent enough for every flag there is, because none is ahead; so a host that
  accepted a flag may read the log at any later time.
* `FilesImplementFeed`: `Spec => FeedSpec`, initial states to initial states,
  every step to a step of `PingFeed` or a stutter. `FeedInv` orders the texts:
  what was sent is not newer than what the host holds, that not newer than the
  log in the file, that not newer than the last published ping, and the sensor's
  next text is not older (`LatestInv`). So `CloseLog` is a publication,
  `HostSends` of a text a forwarding, and every other step a stutter.
* `FinalPingIsSent`, if a ping is measured once and the log can be opened:
  `LastInv` says that behind a last flag of the running session the sensor has
  ended and the log is complete. Both assumptions are needed: a second
  measurement of the last ping truncates the log after its flag, and without the
  log there is nothing to send.
* `NoResultIsSentFourTimes`, if a ping is measured once and the sensor's files can
  be opened: `RepeatInv` says that while a text is in the log the flag in the
  file is the one before it, its own, or a launcher's 0 or 1 (`LogInFile`); the
  flags of a host run rise (`Rising`); so after the first time a text can be sent
  for two flags only (`TwoRepeats`).
* `LeftoversOnlyForLauncher`: as long as no error was swallowed, a text of an
  earlier session is never sent for a flag of the sensor (`FlagsInv` adds to
  `BoundedAge` which numbers a sensor's flag can have). So the violation of
  `handoff_stale` needs the launcher's 0, alone or as the 01 it becomes.

`DroneControl_proofs`, for all `H`, `StopMax`, inputs and interleavings:

* `RangeIsSameDirection`: `transAngleRange` returns the angle within pi that is
  the same direction, for every integer (`WrapsCover` says how many turns its
  loops take). `TypeCorrect` follows for every sum the code forms
  (`DifferenceInRange`), whatever angles the topic `avoid_direc` carries.
* `HoversAreWhole`: `CountInv` says that the count is zero outside a turn and
  equals the number of zero-speed setpoints since the last full hover.
* `OutsideIsHomeward`: `CourseInv` says what a cycle knows at each of its steps
  unless another thread wrote; it does not matter what `transAngleRange` computes.
* `PositionsLostInWindowOnly`: a position raises only between the two assignments
  of the first `attitudeCallback` (`Window`). So the violation of
  `drone_position` is the only way to lose one.

`EchoPeaks_proofs`, for all times, windows, delays and heights that meet the
assumptions:

* `IInv` is the conjunction of `TypeOK`, `ScanInv` (the window starts at the last
  peak and the scan is behind it), `Separated`, `HeightInv` (no peak is higher
  than the strongest maximum, and one is as high), `PairInv` (a detection is a
  pair of near peaks the loops have passed, and the k-th has indices of at least
  k) and `PairsAscend`. `TypeCorrect`, `PeaksAreSeparated`, `StrongestIsKept` and
  `PairsDoAscend` are its parts.
* The heart is `NearPairsAscend`: two peaks of one ear cannot both be near one
  peak of the other, since that would put them within twice the delay.
* `DetectionsDoFit`: there are no more detections than peaks of either ear,
  although the loops are nested, so `BOXNUM` places suffice.
* `NearestIsAlwaysWritten` and `HalvesDoMatch` add `TextInv`: the text is the one
  computed from the detections. The first is the nearest because the indices
  grow and the peaks of an ear are in the order of time.

`SocketLink_proofs`, for all numbers of connections and texts, all lengths of a
text and all sizes of a recv:

* `LinkInv` orders the parts of a connection: those published come before those a
  thread holds, which come before those in the kernel (`AvoidInv`, `DataInv`,
  `WireInv`), and between two parts of different texts lies a clock
  (`ClockBetween`). `SendFacts`, `CutFacts` and `ParsedFacts` are what sending,
  `recv` and the parsing of `acc` do to such a sequence. `PingsMixByClockOnly` and
  `PublishedInOrder` follow: a chunk with a clock inside is not published, unless
  it is the first part, cut (`Unmixed`).
* `PacedTextsAreExact` adds `PacedInv`: as long as nothing is blurred a connection
  holds one whole text or nothing.
* `ObsInfoIsOneIfApart`: `obs_info` is of one sensing in every behaviour in which
  no two threads fill `obsmsg` at the same time (`Apart`). `FieldsInv` says which
  fields the filling thread has written. `Apart` is a hypothesis, which every
  behaviour with one connection meets and the one of `link_mixed` does not; so
  that overlap is the only cause.

`MoveTest_proofs`, for all lengths of stops and turns: type correctness,
`DiffIsSameDirection` (the one correction of `calc_angle_diff` is enough),
`FlightIsPaused` (the number of still setpoints follows from the state and the
two counters) and `TurnsDoEndAligned` (a full turn counter was reached in a cycle
that was aligned).

`CommandLink_proofs`, for all callers, table sizes, retries and ring sizes:

* `Lockstep` is the heart: because every session and every entry is taken and
  freed under one lock and both tables are searched from the front, session s
  always has entry s - 1. So a session in use finds its own frame, whatever
  happened between the test and the lock. One that has ended may find another
  session's frame or a setpoint, but never one with its own session number and
  another command (`FramesFit`; `LaidFits` shows that overlaid bytes keep it), so
  an ACK is never taken for another command's.
* `FramesFit`, `FramesSent`, `Distinct`, `Numbered`, `Counted` and `Found` tie
  frames to sessions, and the transmissions of a command to `sent`. From them
  follow `SessionsDoOwnMemory`, `AnswersDoMatch` and `RetriesAreBounded`. For the
  last, a frame goes out from its own session, which counts in `sent`, or from
  another's that has ended; that one was not in the set `LateFor` of the frame's
  command before and is afterwards (`AlienAdds`), so sum and bound grow together.
* `LateResendsAreFew`: `LateFew` says that a session that `sendPoll` found and
  that has ended since was ended by its answer, and that nothing was sent from
  its memory after that. Since a found session is handled once, one transmission
  is all that this race can cost.
* `RingImplementsQueue`: only two actions touch the ring (`RingSteps`). A push
  that finds the ring full, which is when `Contents` has `MaxLen` - 1 callbacks
  (`FullCounts`), is `PushFull`; the other pushes and the calls are `Push` and
  `CallOldest` (`PushQueues`, `PollCallsOldest`), and every other step a stutter.
* `AnswersAreNewest` (in `CommandAnswer_proofs`): `ackErrorCode` has no lock; what
  protects a lone caller is that a blocking command whose session is in use, or
  whose answer is being handled, is still awaited (`NoneForgotten`). So while a
  caller copies, the reader writes nothing, and when the reader writes, nobody
  has copied anything yet. A notification that finds no thread waiting is lost,
  and the caller then leaves by the time-out, which comes after the answer.
* `OwnUnlessLost`: without overlapping calls a caller gets the answer to its own
  command if that answer was accepted. So the violation of `command_answer` needs
  an answer that was lost or came after its session had been given up.
* `NoNullIsCalled` and `CallbacksAreInOrder` follow from `RingInv` of
  `CallbackBuffer_proofs`: the filled cells hold, in order, what was pushed and
  not called.

The theorems assume only the named assumptions on the constants, and the two of
`SensingHandoff_proofs` that say so the settings above, which are those of
`handoff_races`, and `ObsInfoIsOneIfApart` its hypothesis. Every invariant that
a passing run checks is proved. Only model-checked: the liveness properties
(`HostCatchesLastPing` and those of the other `fair` runs), because the provers
cannot prove liveness under fairness.

## 6. Not modelled

* FFT, matched filter, thresholds, trigonometry: numeric. A measurement is the
  ping it was made in, an avoidance angle the text it was computed from. Two
  observations from reading: delays of 280 to 290 us, which the pairing accepts,
  make the argument of `asin` larger than 1 (`A/sensing_py.c:1017`), and the
  conversion of the result to `int` is undefined; and every other detection is
  left out of the text (`A/sensing_py.c:1033`), which the model follows.
* `droneInfoCallback` (reads only) and the log files, except that opening them
  may fail.
* The end of the server process; losses inside ROS queues; the listen backlog
  (`CLIENTNUM` is only that: the accept loop has no limit, and the thread of an
  ended host never ends).
* Of the command path: the byte parser and encryption, session mode 1 (nothing in
  the repository sends with it), missions and subscriptions, data pushed by a
  mobile device (for which `PushDataHandler` puts a handler into the same ring),
  the places of the blocks in the MMU's memory (their effect on other frames is
  modelled), the bytes of a frame. All senders encode into one buffer before they
  lock (`O/protocol/src/dji_open_protocol.cpp:216`), which the model cannot show
  because a command is a number there.
* FPGA set-up (`table_fpga_setting_*`, `conv_dec2bin`): tables and shifts
  without state of their own; `conv_dec2bin` has no bound on its index
  (`A/sensing_py.c:798`).
* The composition of hand-off, link and autopilot: the components meet in a text
  and an angle, which each module takes as any value at any time, so their
  properties hold whatever the other side does; what the composition adds is
  which angle belongs to which ping, and the server's fallback angle 0, about
  which the repository promises nothing.
* Most of the tree is vendored and not changed by this system: the rest of the
  Onboard-SDK with its STM32 libraries and samples, libftd2xx with libusb,
  rosserial, the GPU FFT. The tutorials, DJI's demos, older versions of the
  programs and the plotting scripts are not part of the running system.

## 7. Plan

Done: all modules of section 2 and the theorems of section 5. What is left, in
this order:

1. The MMU's placement and compaction: used blocks do not overlap, and an
   allocation succeeds whenever the free bytes suffice. `CommandLink` lets both
   come out in any way instead.
2. `AvoidancePipeline`: hand-off, link and autopilot through abstract channels:
   from which ping is the target the drone turns to.
