---------------------------- MODULE CommandLink ----------------------------
(***************************************************************************)
(* The way of a command from the ROS node dji_sdk to the flight controller *)
(* and of its answer back, in the Onboard-SDK:                             *)
(*                                                                         *)
(*   caller    a thread of the node's spinner in a service callback: send, *)
(*             then waitForACK (or no wait, for a command with a callback) *)
(*   setpoint  a spinner thread that sends a setpoint: session mode 0, one *)
(*             step under the lock                                         *)
(*   poll      sendPoll: sends overdue commands again, gives up after      *)
(*             Retry transmissions                                         *)
(*   reader    appHandler, processReceivedData, ACKHandler                 *)
(*   callback  callbackPoll (see CallbackBuffer)                           *)
(*                                                                         *)
(* m_memLock makes what runs under it one step.  sendPoll and appHandler   *)
(* test usageFlag before they lock; ackErrorCode is read and written       *)
(* without a lock.  A command stands for its sequence number too: 16 bits  *)
(* are as good as no bound here.  The line and the flight controller may   *)
(* lose, delay and repeat, and answer any transmission; the answer may be  *)
(* "progress" (obtain or release in progress).  A condition variable does  *)
(* not wake up without cause.                                              *)
(*                                                                         *)
(*   ncmd, kind      commands so far and what each is                      *)
(*   tab, mem        CMDSessionTab; the MMU's table with its memory        *)
(*   line            frames transmitted for commands                       *)
(*   cpc, cmd, got   per caller: place, command, the answer it has copied  *)
(*   ppc             session that sendPoll found overdue, or 0             *)
(*   rpc, rcv        reader, with the ACK it handles                       *)
(*   ackErrorCode    the shared answer: info and data of which command     *)
(*   sends           history per command: transmissions of its frame       *)
(*   late            history per command: transmissions by sendPoll, of    *)
(*                   whatever frame, for its session after it had ended    *)
(*   acked           history per command: accepted ACKs                    *)
(*   overlap         history: two calls have overlapped                    *)
(***************************************************************************)
EXTENDS CallbackBuffer, FiniteSets

CONSTANTS Caller,      \* service threads of the node's spinner
          LastSlot,    \* sessions of mode 2 are 2 .. LastSlot (31)
          LastEntry,   \* entries of the MMU's table are 1 .. LastEntry (30)
          Retry,       \* retry_time of a command
          MaxCmd,      \* bound: commands sent
          Registered   \* commands whose callback, if they have one, is not
                       \* null: all commands that the SDK's functions send

ASSUME SlotAssumption == LastSlot \in Nat /\ LastEntry \in Nat \ {0}
ASSUME RetryAssumption == Retry \in Nat \ {0}
ASSUME MaxCmdAssumption == MaxCmd \in Nat
ASSUME CallbackAssumption == Callback = 1 .. MaxCmd

VARIABLES ncmd, kind, tab, mem, line, cpc, cmd, got, ppc,
          rpc, rcv, ackErrorCode, sends, late, acked, overlap

calls  == <<ncmd, kind, cpc, cmd, got, overlap>>
table  == <<tab, mem>>
counts == <<line, sends, late>>
reader == <<rpc, rcv, acked>>
vars   == <<calls, table, counts, ppc, reader, ackErrorCode, cbVars>>

Cmd    == 1 .. MaxCmd
NoCmd  == 0
Slot   == 2 .. LastSlot
Entry  == 1 .. LastEntry
Answer == {"final", "progress"}
Frame  == [slot : {0} \cup Slot, cmd : {NoCmd} \cup Cmd]

NoFrame  == [slot |-> 0, cmd |-> NoCmd]
NoAck    == [slot |-> 0, cmd |-> NoCmd, own |-> NoCmd]
NoAnswer == [info |-> NoCmd, data |-> NoCmd, ans |-> "final"]

TypeOK ==
    /\ ncmd \in {NoCmd} \cup Cmd
    /\ kind \in [Cmd -> {"none", "blocking", "callback"}]
    /\ tab \in [Slot -> [used : BOOLEAN, cmd : {NoCmd} \cup Cmd,
                         sent : 0 .. Retry, entry : Entry]]
    /\ mem \in [Entry -> [used : BOOLEAN, frame : Frame]]
    /\ line \subseteq Frame
    /\ cpc \in [Caller -> {"idle", "encoded", "sent", "wait", "woken", "copying", "answered"}]
    /\ cmd \in [Caller -> {NoCmd} \cup Cmd]
    /\ got \in [Caller -> [info : {NoCmd} \cup Cmd, data : {NoCmd} \cup Cmd, ans : Answer]]
    /\ ppc \in {0} \cup Slot
    /\ rpc \in {"idle", "checked", "dispatch", "data", "notify"}
    /\ rcv \in [slot : {0} \cup Slot, cmd : {NoCmd} \cup Cmd, own : {NoCmd} \cup Cmd]
    /\ ackErrorCode \in [info : {NoCmd} \cup Cmd, data : {NoCmd} \cup Cmd, ans : Answer]
    /\ sends \in [{NoCmd} \cup Cmd -> Nat] /\ late \in [{NoCmd} \cup Cmd -> Nat]
    /\ acked \in [{NoCmd} \cup Cmd -> Nat]
    /\ overlap \in BOOLEAN
    /\ RingTypeOK

Init ==
    /\ RingInit
    /\ ncmd = 0 /\ kind = [c \in Cmd |-> "none"]
    /\ tab = [s \in Slot |-> [used |-> FALSE, cmd |-> NoCmd, sent |-> 0, entry |-> 1]]
    /\ mem = [e \in Entry |-> [used |-> FALSE, frame |-> NoFrame]]
    /\ line = {}
    /\ cpc = [t \in Caller |-> "idle"] /\ cmd = [t \in Caller |-> NoCmd]
    /\ got = [t \in Caller |-> NoAnswer]
    /\ ppc = 0
    /\ rpc = "idle" /\ rcv = NoAck
    /\ ackErrorCode = NoAnswer
    /\ sends = [c \in {NoCmd} \cup Cmd |-> 0] /\ late = sends /\ acked = sends
    /\ overlap = FALSE

-----------------------------------------------------------------------------
(* The callers.  send begins: a new command, with or without a callback.    *)
Encode(t, q) ==
    /\ ncmd < MaxCmd
    /\ ncmd' = ncmd + 1
    /\ kind' = [kind EXCEPT ![ncmd'] = q]
    /\ cmd' = [cmd EXCEPT ![t] = ncmd']
    /\ cpc' = [cpc EXCEPT ![t] = "encoded"]
    /\ got' = [got EXCEPT ![t] = NoAnswer]
    /\ UNCHANGED <<table, counts, ppc, reader, ackErrorCode, cbVars>>

Call(t) ==
    /\ cpc[t] = "idle"
    /\ overlap' = (overlap \/ \E u \in Caller : cpc[u] # "idle")
    /\ \E q \in {"blocking", "callback"} : Encode(t, q)

FreeSlots   == {s \in Slot : ~tab[s].used}
FreeEntries == {e \in Entry : ~mem[e].used}

(* The first free session, and none without bytes for its frame, which the  *)
(* MMU is sure to have only while no block is in use.                       *)
allocSession(s) == s \in FreeSlots /\ \A r \in FreeSlots : s <= r

NoRoom == FreeSlots = {} \/ FreeEntries # Entry

(* Free entries of the sessions that sendPoll or appHandler has found: no   *)
(* one reads another free entry before its memory is written anew.          *)
Left == {e \in FreeEntries : \E s \in Slot \cap {ppc, rcv.slot} : tab[s].entry = e}

(* The first free entry of the MMU's table.  Its block is laid, and blocks  *)
(* in use are moved, over bytes that other free entries still point to:     *)
(* such an entry then finds its old frame, that block's, or no frame.       *)
allocMemory(e, f, u) ==
    LET laid == {f, NoFrame} \cup {mem[r].frame : r \in Entry \ FreeEntries} IN
    /\ e \in FreeEntries /\ \A r \in FreeEntries : e <= r
    /\ \E over \in SUBSET (Left \ {e}) : \E g \in [over -> laid] :
         mem' = [r \in Entry |->
                   IF r = e THEN [used |-> u, frame |-> f]
                   ELSE IF r \in over THEN [used |-> FALSE, frame |-> g[r]] ELSE mem[r]]

Transmits(f) ==
    /\ line' = line \cup {f}
    /\ sends' = [sends EXCEPT ![f.cmd] = @ + 1]

AfterSend(t) == IF kind[cmd[t]] = "callback" THEN "idle" ELSE "sent"

(* Mode 2 of sendInterface, under m_memLock.  Without a session or memory   *)
(* nothing is sent; send returns void, and the caller waits all the same.   *)
sendInterface(t) ==
    /\ cpc[t] = "encoded"
    /\ cpc' = [cpc EXCEPT ![t] = AfterSend(t)]
    /\ cmd' = [cmd EXCEPT ![t] = IF AfterSend(t) = "idle" THEN NoCmd ELSE @]
    /\ \/ \E s \in Slot, e \in Entry :
            LET f == [slot |-> s, cmd |-> cmd[t]] IN
            /\ allocSession(s) /\ allocMemory(e, f, TRUE)
            /\ tab' = [tab EXCEPT ![s] = [used |-> TRUE, cmd |-> cmd[t], sent |-> 1, entry |-> e]]
            /\ Transmits(f) /\ UNCHANGED late
       \/ NoRoom /\ UNCHANGED <<table, counts>>
    /\ UNCHANGED <<ncmd, kind, got, overlap, ppc, reader, ackErrorCode, cbVars>>

Moves(t, from, to) ==
    /\ cpc[t] = from /\ cpc' = [cpc EXCEPT ![t] = to]
    /\ UNCHANGED <<ncmd, kind, overlap, table, counts, ppc, reader,
                   ackErrorCode, cbVars>>

(* waitForACK waits without looking whether the answer is there already.    *)
waitForACK(t) == Moves(t, "sent", "wait") /\ UNCHANGED <<cmd, got>>

InUse(c) == \E s \in Slot : tab[s].used /\ tab[s].cmd = c

(* Mutants of WaitTimesOut: a wait shorter than the retries; no time-out.   *)
WaitTimesOutEarly(t) == Moves(t, "wait", "woken") /\ UNCHANGED <<cmd, got>>

WaitsUntilNotified(t) ==
    /\ rpc = "notify"
    /\ Moves(t, "wait", "woken") /\ UNCHANGED <<cmd, got>>

(* WAIT_TIMEOUT is 10 s; no session of the node's commands is in use that   *)
(* long (at most 3 times 1 s), and the reader handles an ACK in less.       *)
WaitTimesOut(t) ==
    /\ ~InUse(cmd[t])
    /\ rpc # "idle" => rcv.cmd # cmd[t]
    /\ Moves(t, "wait", "woken") /\ UNCHANGED <<cmd, got>>

(* The answer is copied from ackErrorCode, field by field.                  *)
CopiesInfo(t) ==
    /\ Moves(t, "woken", "copying")
    /\ got' = [got EXCEPT ![t].info = ackErrorCode.info] /\ UNCHANGED cmd

CopiesData(t) ==
    /\ Moves(t, "copying", "answered")
    /\ got' = [got EXCEPT ![t].data = ackErrorCode.data, ![t].ans = ackErrorCode.ans]
    /\ UNCHANGED cmd

InProgress(t) == got[t].ans = "progress"

(* obtainCtrlAuthority and releaseCtrlAuthority ask again, by recursion.    *)
Again(t) ==
    /\ cpc[t] = "answered" /\ InProgress(t)
    /\ Encode(t, "blocking") /\ UNCHANGED overlap

Responds(t) ==
    /\ cpc[t] = "answered" /\ ~InProgress(t)
    /\ Moves(t, "answered", "idle")
    /\ cmd' = [cmd EXCEPT ![t] = NoCmd] /\ got' = [got EXCEPT ![t] = NoAnswer]

-----------------------------------------------------------------------------
(* A thread that publishes a setpoint: send in mode 0.  Its session 0 and   *)
(* its memory are free again when m_memLock is.                             *)
SetpointSends ==
    /\ \E e \in Entry : allocMemory(e, NoFrame, FALSE)
    /\ UNCHANGED <<calls, tab, counts, ppc, reader, ackErrorCode, cbVars>>

-----------------------------------------------------------------------------
(* Mutant of freeSession: usageFlag is not reset.                           *)
freeSessionKeepsUsage(s) ==
    /\ mem' = [mem EXCEPT ![tab[s].entry].used = FALSE]
    /\ UNCHANGED tab

freeSession(s) ==
    IF tab[s].used
      THEN /\ tab' = [tab EXCEPT ![s].used = FALSE]
           /\ mem' = [mem EXCEPT ![tab[s].entry].used = FALSE]
      ELSE UNCHANGED table

(* sendPoll finds a session in use and overdue, before it locks.            *)
PollDue(s) ==
    /\ ppc = 0 /\ tab[s].used
    /\ ppc' = s
    /\ UNCHANGED <<calls, table, counts, reader, ackErrorCode, cbVars>>

(* Mutant of Resend: sent is not counted.                                   *)
ResendUncounted(s) ==
    /\ Transmits(mem[tab[s].entry].frame)
    /\ UNCHANGED <<table, late>>

(* What the session's memory holds now: if the session has ended since, it  *)
(* may be another frame, even that of another session.                      *)
Resend(s) ==
    /\ Transmits(mem[tab[s].entry].frame)
    /\ late' = IF tab[s].used THEN late ELSE [late EXCEPT ![tab[s].cmd] = @ + 1]
    /\ tab' = [tab EXCEPT ![s].sent = @ + 1]
    /\ UNCHANGED mem

PollLocked ==
    /\ ppc # 0
    /\ IF tab[ppc].sent >= Retry
         THEN freeSession(ppc) /\ UNCHANGED counts
         ELSE Resend(ppc)
    /\ ppc' = 0
    /\ UNCHANGED <<calls, reader, ackErrorCode, cbVars>>

-----------------------------------------------------------------------------
(* The reader.  An ACK carries session and number of the frame it answers;  *)
(* appHandler looks whether that session is in use, before it locks.        *)
AckArrives(f) ==
    /\ rpc = "idle" /\ f.slot # 0 /\ tab[f.slot].used
    /\ rpc' = "checked"
    /\ rcv' = [slot |-> f.slot, cmd |-> f.cmd, own |-> NoCmd]
    /\ UNCHANGED <<calls, table, counts, ppc, acked, ackErrorCode, cbVars>>

(* Mutant of Matches: the number is not compared.                           *)
MatchesSlot(h) == h.slot = rcv.slot

Matches(h) == h.slot = rcv.slot /\ h.cmd = rcv.cmd

(* Mutant of ReaderLocks: the session is freed before it is compared.       *)
ReaderFreesFirst ==
    /\ rpc = "checked"
    /\ IF Matches(mem[tab[rcv.slot].entry].frame)
         THEN /\ rcv' = [rcv EXCEPT !.own = tab[rcv.slot].cmd]
              /\ acked' = [acked EXCEPT ![tab[rcv.slot].cmd] = @ + 1]
              /\ rpc' = "dispatch"
         ELSE rpc' = "idle" /\ rcv' = NoAck /\ UNCHANGED acked
    /\ freeSession(rcv.slot)
    /\ UNCHANGED <<calls, counts, ppc, ackErrorCode, cbVars>>

ReaderLocks ==
    /\ rpc = "checked"
    /\ LET own == tab[rcv.slot].cmd IN
       IF Matches(mem[tab[rcv.slot].entry].frame)
         THEN /\ rcv' = [rcv EXCEPT !.own = own]
              /\ acked' = [acked EXCEPT ![own] = @ + 1]
              /\ freeSession(rcv.slot)
              /\ rpc' = "dispatch"
         ELSE rpc' = "idle" /\ rcv' = NoAck /\ UNCHANGED <<acked, table>>
    /\ UNCHANGED <<calls, counts, ppc, ackErrorCode, cbVars>>

ReaderEnds == rpc' = "idle" /\ rcv' = NoAck /\ UNCHANGED acked

(* processReceivedData: to the ring, unless the handler is null, or to      *)
(* ackErrorCode and notify.                                                 *)
DispatchesCallback ==
    /\ rpc = "dispatch" /\ kind[rcv.own] = "callback"
    /\ IF rcv.own \in Registered THEN cbPush(rcv.own) ELSE UNCHANGED cbVars
    /\ ReaderEnds
    /\ UNCHANGED <<calls, table, counts, ppc, ackErrorCode>>

HandlesInfo ==
    /\ rpc = "dispatch" /\ kind[rcv.own] # "callback"
    /\ ackErrorCode' = [ackErrorCode EXCEPT !.info = rcv.own]
    /\ rpc' = "data"
    /\ UNCHANGED <<calls, table, counts, ppc, rcv, acked, cbVars>>

HandlesData ==
    /\ rpc = "data"
    /\ \E a \in Answer :
         ackErrorCode' = [ackErrorCode EXCEPT !.data = rcv.own, !.ans = a]
    /\ rpc' = "notify"
    /\ UNCHANGED <<calls, table, counts, ppc, rcv, acked, cbVars>>

Waiting == {t \in Caller : cpc[t] = "wait"}

(* One waiting thread wakes up; without one the notification is lost.       *)
Notifies ==
    /\ rpc = "notify"
    /\ \/ \E t \in Waiting : cpc' = [cpc EXCEPT ![t] = "woken"]
       \/ Waiting = {} /\ UNCHANGED cpc
    /\ ReaderEnds
    /\ UNCHANGED <<ncmd, kind, cmd, got, overlap, table, counts, ppc,
                   ackErrorCode, cbVars>>

CallsBack ==
    /\ callbackPoll
    /\ UNCHANGED <<calls, table, counts, ppc, reader, ackErrorCode>>

-----------------------------------------------------------------------------
CallerStep(t) == \/ sendInterface(t) \/ waitForACK(t) \/ WaitTimesOut(t)
                 \/ CopiesInfo(t) \/ CopiesData(t) \/ Again(t) \/ Responds(t)

PollStep == (\E s \in Slot : PollDue(s)) \/ PollLocked

ReaderStep == \/ ReaderLocks \/ DispatchesCallback
              \/ HandlesInfo \/ HandlesData \/ Notifies

Next == \/ \E t \in Caller : Call(t) \/ CallerStep(t)
        \/ SetpointSends
        \/ PollStep
        \/ \E f \in line : AckArrives(f)
        \/ ReaderStep \/ CallsBack

Spec == Init /\ [][Next]_vars

(* The SDK's threads go on with what they have begun: sendPoll scans the    *)
(* sessions over and over, and one in use becomes overdue.  No ACK need     *)
(* arrive, and of several overdue sessions any may come first.              *)
FairSpec ==
    /\ Spec
    /\ \A t \in Caller : WF_vars(CallerStep(t))
    /\ WF_vars(PollStep) /\ WF_vars(ReaderStep)

-----------------------------------------------------------------------------
(* A session in use holds its own memory entry with its own frame, and no   *)
(* two share one, although sendPoll and appHandler decide on a test made    *)
(* before they lock.                                                        *)
SessionsOwnMemory ==
    \A s \in Slot : tab[s].used =>
        LET e == tab[s].entry IN
        /\ mem[e].used /\ mem[e].frame.slot = s /\ mem[e].frame.cmd = tab[s].cmd
        /\ \A r \in Slot \ {s} : tab[r].used => tab[r].entry # e

(* An answer is accepted for the command it answers and at most once,       *)
(* however late, repeated or overtaken by a timeout it is.                  *)
AnswersMatch ==
    /\ rpc \in {"dispatch", "data", "notify"} => rcv.own = rcv.cmd
    /\ \A c \in Cmd : acked[c] <= 1

(* sendPoll stops: a command's frame is transmitted at most Retry times for *)
(* its own session, and beyond that once for each other command whose       *)
(* session ended after sendPoll had found it due and before it locked.      *)
LateFor(c) == {d \in Cmd \ {c} : late[d] > 0}

BoundedRetries == \A c \in Cmd : sends[c] <= Retry + Cardinality(LateFor(c))

(* The race between sendPoll and the reader costs at most one transmission: *)
(* once a session has ended, by its answer or its last retry, sendPoll      *)
(* sends from its memory at most once more, and only after an answer.       *)
LateResendOnce == \A c \in Cmd : late[c] <= acked[c]

Accepted == {c \in Cmd : acked[c] > 0 /\ kind[c] # "callback"}

(* While calls do not overlap an answer is never torn and never goes back:  *)
(* a caller gets the newest answer that was accepted, which is an earlier   *)
(* command's only if its own was lost.                                      *)
AnswerIsNewest ==
    \A t \in Caller : cpc[t] = "answered" /\ ~overlap =>
        /\ got[t].info = got[t].data
        /\ got[t].info \in Accepted \cup {NoCmd}
        /\ \A c \in Accepted : c <= got[t].info

(* No call is stuck, also if its notification came before the wait or       *)
(* nothing could be sent: it returns, unless the answer that it has, which  *)
(* may be an old one, makes it ask again.                                   *)
CallsReturnOrAskAgain ==
    \A t \in Caller :
        (cpc[t] # "idle") ~> (cpc[t] = "idle" \/ (cpc[t] = "answered" /\ InProgress(t)))

(* dji_control.hpp:349, of takeoff and the other commands: returns the      *)
(* acknowledgement from the flight controller.  While calls do not overlap, *)
(* a call never returns what was answered to another command.               *)
AnswerIsOwn ==
    \A t \in Caller : cpc[t] = "answered" /\ ~overlap => got[t].info \in {NoCmd, cmd[t]}
=============================================================================
