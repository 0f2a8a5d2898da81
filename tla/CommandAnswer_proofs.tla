------------------------ MODULE CommandAnswer_proofs ------------------------
(***************************************************************************)
(* A proof about the answers of CommandLink for every number of callers,   *)
(* sessions, entries, retries and commands: while calls do not overlap an  *)
(* answer is the newest there is and is never torn.  ackErrorCode has no   *)
(* lock; what protects a lone caller is that the reader can only be busy   *)
(* with the answer the caller still waits for.                             *)
(***************************************************************************)
EXTENDS CommandLink_proofs

Plain(c) == kind[c] # "callback"

Active(t) == cpc[t] # "idle"

Awaits(t) == cpc[t] \in {"sent", "wait"}

Awaited(c) == \E t \in Caller : cmd[t] = c /\ Awaits(t)

Busy == rpc \in {"dispatch", "data", "notify"}

(* The one caller in a call has the newest command.                         *)
Alone == \A t \in Caller : Active(t) =>
            /\ cmd[t] = ncmd
            /\ \A u \in Caller \ {t} : ~Active(u)

(* Who can still be answered, and by whom somebody is being answered.       *)
NoneForgotten ==
    /\ \A s \in Slot : tab[s].used /\ Plain(tab[s].cmd) => Awaited(tab[s].cmd)
    /\ rpc = "checked" /\ tab[rcv.slot].cmd = rcv.cmd /\ Plain(rcv.cmd) => Awaited(rcv.cmd)
    /\ Busy /\ Plain(rcv.own) => Awaited(rcv.own)

BusyFacts ==
    /\ Busy => acked[rcv.own] > 0
    /\ rpc \in {"data", "notify"} => Plain(rcv.own)

IsNewest(v) == v \in Accepted \cup {NoCmd} /\ \A c \in Accepted : c <= v

Handling == Busy /\ Plain(rcv.own)

SharedInv ==
    /\ ~Handling => ackErrorCode.info = ackErrorCode.data /\ IsNewest(ackErrorCode.info)
    /\ rpc \in {"data", "notify"} => ackErrorCode.info = rcv.own
    /\ rpc = "notify" => ackErrorCode.data = rcv.own

CopyInv ==
    \A t \in Caller :
        /\ cpc[t] = "copying" => got[t].info = ackErrorCode.info
        /\ cpc[t] = "answered" => got[t].info = got[t].data /\ IsNewest(got[t].info)

LoneInv == Alone /\ NoneForgotten /\ SharedInv /\ CopyInv

AnswerInv == BusyFacts /\ (~overlap => LoneInv)
-----------------------------------------------------------------------------
(* Commands that have a session or an answer were sent: their kind is fixed.*)
LEMMA Known ==
    ASSUME LinkInv
    PROVE  /\ ncmd \in Nat
           /\ \A c \in Cmd : acked[c] \in Nat /\ (acked[c] > 0 => c <= ncmd)
           /\ \A s \in Slot : tab[s].cmd # NoCmd => tab[s].cmd \in Cmd /\ tab[s].cmd <= ncmd
           /\ \A s \in Slot : tab[s].used => tab[s].cmd # NoCmd
           /\ rpc = "checked" => rcv.slot \in Slot /\ rcv.cmd # NoCmd /\ tab[rcv.slot].cmd # NoCmd
           /\ Busy => rcv.own \in Cmd
<1> USE Constants
<1>1. ncmd \in Nat /\ acked \in [{NoCmd} \cup Cmd -> Nat]
  BY DEF LinkInv, TypeOK
<1>2. \A c \in Cmd : c > ncmd => acked[c] = 0 /\ \A s \in Slot : tab[s].cmd # c
  BY DEF LinkInv, Numbered, Fresh
<1>3. \A s \in Slot : tab[s].cmd \in {NoCmd} \cup Cmd
  BY DEF LinkInv, TypeOK
<1>4. \A s \in Slot : tab[s].used => tab[s].cmd # NoCmd
  BY DEF LinkInv, Lockstep
<1>5. rpc = "checked" => rcv.slot \in Slot /\ rcv.cmd # NoCmd /\ tab[rcv.slot].cmd # NoCmd
  <2>1. rcv.slot \in {0} \cup Slot
    BY DEF LinkInv, TypeOK
  <2> QED
    BY <2>1 DEF LinkInv, Found
<1>6. Busy => rcv.own \in Cmd
  <2>1. rcv.own \in {NoCmd} \cup Cmd
    BY DEF LinkInv, TypeOK
  <2> QED
    BY <2>1 DEF LinkInv, Found, Busy
<1>7. ASSUME NEW c \in Cmd PROVE acked[c] \in Nat /\ (acked[c] > 0 => c <= ncmd)
  <2>1. acked[c] \in Nat /\ c \in Nat
    BY <1>1
  <2>2. c > ncmd => acked[c] = 0
    BY <1>2
  <2> QED
    BY <1>1, <2>1, <2>2
<1>8. ASSUME NEW s \in Slot, tab[s].cmd # NoCmd PROVE tab[s].cmd \in Cmd /\ tab[s].cmd <= ncmd
  <2>1. tab[s].cmd \in Cmd /\ tab[s].cmd \in Nat
    BY <1>3, <1>8
  <2>2. ~(tab[s].cmd > ncmd)
    BY <1>2, <2>1
  <2> QED
    BY <1>1, <2>1, <2>2
<1> QED
  BY <1>1, <1>4, <1>5, <1>6, <1>7, <1>8

(* The newest command is newer than every accepted one.                     *)
LEMMA OwnIsNewest ==
    ASSUME LinkInv, Alone, NEW c \in Cmd, Awaited(c), acked[c] > 0, Plain(c)
    PROVE  IsNewest(c)
<1>1. c = ncmd
  BY DEF Alone, Awaited, Awaits, Active
<1>2. \A d \in Accepted : d <= ncmd
  BY Known DEF Accepted
<1> QED
  BY <1>1, <1>2 DEF IsNewest, Accepted, Plain

(* A lone caller that has its answer, or begins a call: nobody else waits,  *)
(* so no blocking command is in use or being answered.                      *)
LEMMA NobodyWaits ==
    ASSUME NoneForgotten, \A u \in Caller : ~Awaits(u)
    PROVE  /\ \A s \in Slot : tab[s].used => ~Plain(tab[s].cmd)
           /\ (rpc = "checked" /\ tab[rcv.slot].cmd = rcv.cmd) => ~Plain(rcv.cmd)
           /\ ~Handling
BY DEF NoneForgotten, Awaited, Handling

(* Steps of sendPoll, of setpoints and of the callback thread.              *)
LEMMA QuietKeeps ==
    ASSUME LinkInv, AnswerInv, UNCHANGED <<calls, reader, ackErrorCode>>,
           \A s \in Slot : tab'[s].cmd = tab[s].cmd /\ (tab'[s].used => tab[s].used)
    PROVE  AnswerInv'
<1> USE DEF calls, reader
<1>1. BusyFacts'
  BY DEF AnswerInv, BusyFacts, Busy, Plain
<1>2. ASSUME ~overlap PROVE LoneInv'
  <2>1. LoneInv
    BY <1>2 DEF AnswerInv
  <2>2. Alone'
    BY <2>1 DEF LoneInv, Alone, Active
  <2>3. NoneForgotten'
    BY <2>1, Known DEF LoneInv, NoneForgotten, Awaited, Awaits, Plain, Busy
  <2>4. SharedInv' /\ CopyInv'
    BY <2>1 DEF LoneInv, SharedInv, CopyInv, IsNewest, Accepted, Handling, Busy, Plain
  <2> QED
    BY <2>2, <2>3, <2>4 DEF LoneInv
<1> QED
  BY <1>1, <1>2 DEF AnswerInv

LEMMA QuietSteps ==
    ASSUME LinkInv, AnswerInv,
           SetpointSends \/ (\E s \in Slot : PollDue(s)) \/ PollLocked \/ CallsBack \/ UNCHANGED vars
    PROVE  AnswerInv'
<1>1. UNCHANGED <<calls, reader, ackErrorCode>>
  BY DEF SetpointSends, PollDue, PollLocked, CallsBack, vars
<1>2. \A s \in Slot : tab'[s].cmd = tab[s].cmd
  BY CmdsStay DEF SetpointSends, PollDue, CallsBack, vars, table
<1>3. \A s \in Slot : tab'[s].used => tab[s].used
  <2>1. CASE PollLocked
    <3>1. ppc \in Slot /\ (freeSession(ppc) \/ Resend(ppc))
      BY <2>1 DEF PollLocked, LinkInv, TypeOK
    <3>2. tab \in [Slot -> [used : BOOLEAN, cmd : {NoCmd} \cup Cmd, sent : 0 .. Retry, entry : Entry]]
      BY DEF LinkInv, TypeOK
    <3>3. \/ tab' = tab \/ tab' = [tab EXCEPT ![ppc].used = FALSE]
          \/ tab' = [tab EXCEPT ![ppc].sent = @ + 1]
      BY <3>1 DEF freeSession, Resend, table
    <3> QED
      BY <3>1, <3>2, <3>3
  <2> QED
    BY <2>1 DEF SetpointSends, PollDue, CallsBack, vars, table
<1> QED
  BY <1>1, <1>2, <1>3, QuietKeeps

(* A call begins, or obtains and releases of control ask again: the command *)
(* is new, and nobody waited.                                               *)
LEMMA EncodeKeeps ==
    ASSUME LinkInv, LinkInv', AnswerInv, NEW t \in Caller, Call(t) \/ Again(t)
    PROVE  AnswerInv'
<1> USE Constants
<1>1. /\ \E q \in {"blocking", "callback"} : Encode(t, q)
      /\ cpc[t] \in {"idle", "answered"}
      /\ ~overlap' => /\ ~overlap
                      /\ cpc[t] = "idle" => \A u \in Caller : cpc[u] = "idle"
  <2>1. CASE Call(t)
    <3>1. /\ cpc[t] = "idle" /\ \E q \in {"blocking", "callback"} : Encode(t, q)
          /\ overlap' = (overlap \/ \E u \in Caller : cpc[u] # "idle")
      BY <2>1 DEF Call
    <3> QED
      BY <3>1, Zenon
  <2>2. CASE Again(t)
    <3>1. cpc[t] = "answered" /\ Encode(t, "blocking") /\ overlap' = overlap
      BY <2>2 DEF Again
    <3> QED
      BY <3>1
  <2> QED
    BY <2>1, <2>2
<1>2. /\ ncmd' = ncmd + 1 /\ ncmd' \in Cmd
      /\ \A c \in Cmd : c # ncmd' => kind'[c] = kind[c]
      /\ cmd'[t] = ncmd' /\ cpc'[t] = "encoded"
      /\ \A u \in Caller \ {t} : cmd'[u] = cmd[u] /\ cpc'[u] = cpc[u] /\ got'[u] = got[u]
      /\ UNCHANGED <<tab, rpc, rcv, acked, ackErrorCode>>
  <2>1. PICK q : Encode(t, q)
    BY <1>1
  <2>2. kind \in [Cmd -> {"none", "blocking", "callback"}] /\ ncmd \in {NoCmd} \cup Cmd
    BY DEF LinkInv, TypeOK
  <2>3. /\ cmd \in [Caller -> {NoCmd} \cup Cmd]
        /\ cpc \in [Caller -> {"idle", "encoded", "sent", "wait", "woken", "copying", "answered"}]
        /\ got \in [Caller -> [info : {NoCmd} \cup Cmd, data : {NoCmd} \cup Cmd, ans : Answer]]
    BY DEF LinkInv, TypeOK
  <2>4. ncmd' = ncmd + 1 /\ ncmd' \in Cmd
    BY <2>1, <2>2 DEF Encode, Cmd
  <2>5. \A c \in Cmd : c # ncmd' => kind'[c] = kind[c]
    BY <2>1, <2>2 DEF Encode
  <2>6. /\ cmd'[t] = ncmd' /\ cpc'[t] = "encoded"
        /\ \A u \in Caller \ {t} : cmd'[u] = cmd[u] /\ cpc'[u] = cpc[u] /\ got'[u] = got[u]
    BY <2>1, <2>3 DEF Encode
  <2> QED
    BY <2>1, <2>4, <2>5, <2>6 DEF Encode, table, reader
<1>3. /\ Busy => rcv.own \in Cmd /\ (acked[rcv.own] > 0 => rcv.own # ncmd')
      /\ \A s \in Slot : tab[s].cmd # NoCmd => tab[s].cmd \in Cmd /\ tab[s].cmd # ncmd'
      /\ acked[ncmd'] = 0
  BY <1>2, Known
<1>4. Accepted' = Accepted
  <2>1. ncmd' \notin Accepted /\ ncmd' \notin Accepted'
    BY <1>2, <1>3 DEF Accepted
  <2>2. \A c \in Cmd : c # ncmd' => (c \in Accepted' <=> c \in Accepted)
    BY <1>2 DEF Accepted
  <2>3. Accepted \subseteq Cmd /\ Accepted' \subseteq Cmd
    BY DEF Accepted, Cmd
  <2>4. \A c : c \in Accepted' <=> c \in Accepted
    BY <2>1, <2>2, <2>3, Zenon
  <2> QED
    BY <2>4, Zenon
<1>5. BusyFacts'
  BY <1>2, <1>3 DEF AnswerInv, BusyFacts, Busy, Plain
<1>6. ASSUME ~overlap' PROVE LoneInv'
  <2>1. LoneInv
    BY <1>1, <1>6 DEF AnswerInv
  <2>2. \A u \in Caller \ {t} : cpc[u] = "idle"
    BY <1>1, <1>6, <2>1 DEF LoneInv, Alone, Active
  <2>2a. \A u \in Caller : ~Awaits(u)
    BY <1>1, <2>2 DEF Awaits
  <2>3. /\ \A s \in Slot : tab[s].used => ~Plain(tab[s].cmd)
        /\ (rpc = "checked" /\ tab[rcv.slot].cmd = rcv.cmd) => ~Plain(rcv.cmd)
        /\ ~Handling
    BY <2>1, <2>2a, NobodyWaits DEF LoneInv
  <2>4. Alone'
    BY <1>2, <2>2 DEF Alone, Active
  <2>5. ~Handling'
    BY <1>2, <1>3, <2>3 DEF AnswerInv, BusyFacts, Handling, Busy, Plain
  <2>6. NoneForgotten'
    <3>1. \A c \in Cmd : c # ncmd' /\ ~Plain(c) => kind'[c] = "callback"
      BY <1>2 DEF Plain
    <3>2. \A s \in Slot : tab[s].used => tab[s].cmd # NoCmd
      BY DEF LinkInv, Lockstep
    <3>3. \A s \in Slot : tab[s].used => kind'[tab[s].cmd] = "callback"
      BY <1>3, <2>3, <3>1, <3>2
    <3>4. (rpc = "checked" /\ tab[rcv.slot].cmd = rcv.cmd) => kind'[rcv.cmd] = "callback"
      <4> SUFFICES ASSUME rpc = "checked", tab[rcv.slot].cmd = rcv.cmd
                   PROVE  kind'[rcv.cmd] = "callback"
        OBVIOUS
      <4>1. rcv.slot \in Slot /\ rcv.cmd # NoCmd
        BY DEF LinkInv, TypeOK, Found
      <4> QED
        BY <1>3, <2>3, <3>1, <4>1
    <3> QED
      BY <1>2, <2>5, <3>3, <3>4 DEF NoneForgotten, Plain, Handling, Busy
  <2>7. SharedInv'
    BY <1>2, <1>4, <2>1, <2>3, <2>5 DEF LoneInv, SharedInv, IsNewest
  <2>8. CopyInv'
    BY <1>2, <1>4, <2>1 DEF LoneInv, CopyInv, IsNewest
  <2> QED
    BY <2>4, <2>6, <2>7, <2>8 DEF LoneInv
<1> QED
  BY <1>5, <1>6 DEF AnswerInv

(* The command is sent, or dropped: if it expects an answer, the caller     *)
(* awaits it.                                                               *)
LEMMA SendKeeps ==
    ASSUME LinkInv, LinkInv', AnswerInv, NEW t \in Caller, sendInterface(t)
    PROVE  AnswerInv'
<1>1. /\ cpc[t] = "encoded" /\ cpc' = [cpc EXCEPT ![t] = AfterSend(t)]
      /\ AfterSend(t) = IF Plain(cmd[t]) THEN "sent" ELSE "idle"
      /\ Plain(cmd[t]) => cmd' = cmd
      /\ UNCHANGED <<ncmd, kind, got, overlap, rpc, rcv, acked, ackErrorCode>>
  <2>1. cmd \in [Caller -> {NoCmd} \cup Cmd]
    BY DEF LinkInv, TypeOK
  <2> QED
    BY <2>1 DEF sendInterface, AfterSend, Plain, reader
<1>2. \A s \in Slot : tab'[s] = tab[s] \/ tab'[s].cmd = cmd[t]
  <2>1. CASE UNCHANGED <<table, counts>>
    BY <2>1 DEF table
  <2>2. ASSUME NEW s \in Slot, NEW e \in Entry,
               tab' = [tab EXCEPT ![s] = [used |-> TRUE, cmd |-> cmd[t], sent |-> 1, entry |-> e]]
        PROVE  \A r \in Slot : tab'[r] = tab[r] \/ tab'[r].cmd = cmd[t]
    BY <2>2 DEF LinkInv, TypeOK
  <2> QED
    BY <2>1, <2>2 DEF sendInterface
<1>3. /\ cpc'[t] = AfterSend(t)
      /\ \A u \in Caller \ {t} : cpc'[u] = cpc[u]
  BY <1>1 DEF LinkInv, TypeOK
<1>4. BusyFacts'
  BY <1>1 DEF AnswerInv, BusyFacts, Busy, Plain
<1>5. ASSUME ~overlap' PROVE LoneInv'
  <2>1. LoneInv
    BY <1>1, <1>5 DEF AnswerInv
  <2>2. cmd[t] = ncmd /\ \A u \in Caller \ {t} : cpc[u] = "idle"
    BY <1>1, <2>1 DEF LoneInv, Alone, Active
  <2>3. \A u \in Caller : ~Awaits(u)
    BY <1>1, <2>2 DEF Awaits
  <2>4. /\ \A s \in Slot : tab[s].used => ~Plain(tab[s].cmd)
        /\ (rpc = "checked" /\ tab[rcv.slot].cmd = rcv.cmd) => ~Plain(rcv.cmd)
        /\ ~Handling
    BY <2>1, <2>3, NobodyWaits DEF LoneInv
  <2>5. Alone'
    BY <1>1, <1>3, <2>2 DEF Alone, Active
  <2>6. Plain(cmd[t]) => cmd'[t] = cmd[t] /\ cpc'[t] = "sent"
    BY <1>1, <1>3
  <2>7. NoneForgotten'
    <3>1. ASSUME NEW s \in Slot, tab'[s].used, Plain(tab'[s].cmd) PROVE Awaited(tab[s].cmd)'
      <4>1. tab'[s].cmd = cmd[t]
        BY <1>2, <2>4, <3>1
      <4> QED
        BY <2>6, <3>1, <4>1 DEF Awaited, Awaits
    <3>2. ASSUME rpc' = "checked", tab'[rcv'.slot].cmd = rcv'.cmd, Plain(rcv'.cmd) PROVE Awaited(rcv.cmd)'
      <4>1. rcv' = rcv /\ rcv.slot \in Slot /\ rpc = "checked"
        BY <1>1, <3>2, Known
      <4>2. tab'[rcv.slot].cmd = cmd[t]
        BY <1>2, <2>4, <3>2, <4>1
      <4> QED
        BY <2>6, <3>2, <4>1, <4>2 DEF Awaited, Awaits
    <3>3. ~(Busy /\ Plain(rcv.own))'
      BY <1>1, <2>4 DEF Handling, Busy, Plain
    <3> QED
      BY <1>1, <3>1, <3>2, <3>3 DEF NoneForgotten, Plain
  <2>8. SharedInv' /\ CopyInv'
    BY <1>1, <1>3, <2>1 DEF LoneInv, SharedInv, CopyInv, IsNewest, Accepted, Handling, Busy, Plain
  <2> QED
    BY <2>5, <2>7, <2>8 DEF LoneInv
<1> QED
  BY <1>4, <1>5 DEF AnswerInv

(* A caller goes on.  It leaves its wait only when its command is neither   *)
(* in use nor being answered, and copies what nobody writes meanwhile.      *)
LEMMA CallerKeeps ==
    ASSUME LinkInv, AnswerInv, NEW t \in Caller,
           waitForACK(t) \/ WaitTimesOut(t) \/ CopiesInfo(t) \/ CopiesData(t) \/ Responds(t)
    PROVE  AnswerInv'
<1>1. /\ UNCHANGED <<ncmd, kind, overlap, tab, rpc, rcv, acked, ackErrorCode>>
      /\ cpc[t] \in {"sent", "wait", "woken", "copying", "answered"}
      /\ \A u \in Caller \ {t} : cpc'[u] = cpc[u] /\ cmd'[u] = cmd[u] /\ got'[u] = got[u]
      /\ cpc'[t] = "idle" \/ cmd'[t] = cmd[t]
  <2>1. /\ cmd \in [Caller -> {NoCmd} \cup Cmd]
        /\ cpc \in [Caller -> {"idle", "encoded", "sent", "wait", "woken", "copying", "answered"}]
        /\ got \in [Caller -> [info : {NoCmd} \cup Cmd, data : {NoCmd} \cup Cmd, ans : Answer]]
    BY DEF LinkInv, TypeOK
  <2> QED
    BY <2>1 DEF waitForACK, WaitTimesOut, CopiesInfo, CopiesData, Responds, Moves, table, reader
<1>2. BusyFacts'
  BY <1>1 DEF AnswerInv, BusyFacts, Busy, Plain
<1>3. Accepted' = Accepted /\ (Handling' <=> Handling)
  BY <1>1 DEF Accepted, Handling, Busy, Plain
<1>4. ASSUME ~overlap' PROVE LoneInv'
  <2>1. LoneInv
    BY <1>1, <1>4 DEF AnswerInv
  <2>2. cmd[t] = ncmd /\ \A u \in Caller \ {t} : cpc[u] = "idle"
    BY <1>1, <2>1 DEF LoneInv, Alone, Active
  <2>3. Alone'
    BY <1>1, <2>2 DEF Alone, Active
  <2>4. SharedInv'
    BY <1>1, <1>3, <2>1 DEF LoneInv, SharedInv, IsNewest
  <2>5. \A c : Awaited(c) => c = cmd[t] /\ Awaits(t)
    BY <2>2 DEF Awaited, Awaits
  <2>6. NoneForgotten'
    <3>1. CASE waitForACK(t)
      <4>1. cpc'[t] = "wait" /\ cmd' = cmd
        BY <3>1 DEF waitForACK, Moves, LinkInv, TypeOK
      <4> QED
        BY <1>1, <2>1, <2>5, <4>1 DEF LoneInv, NoneForgotten, Awaited, Awaits, Plain, Busy
    <3>2. CASE WaitTimesOut(t)
      <4>1. ~InUse(cmd[t]) /\ (rpc # "idle" => rcv.cmd # cmd[t])
        BY <3>2 DEF WaitTimesOut
      <4>2. Busy => rcv.own = rcv.cmd /\ rpc # "idle"
        BY DEF LinkInv, Found, Busy
      <4> QED
        BY <1>1, <2>1, <2>5, <4>1, <4>2 DEF LoneInv, NoneForgotten, InUse, Plain, Busy
    <3>3. CASE cpc[t] \notin {"sent", "wait"}
      BY <1>1, <2>1, <2>5, <3>3 DEF LoneInv, NoneForgotten, Awaits, Plain, Busy
    <3> QED
      BY <3>1, <3>2, <3>3 DEF CopiesInfo, CopiesData, Responds, Moves
  <2>7. CopyInv'
    <3>1. cpc[t] \in {"woken", "copying", "answered"} => ~Handling
      BY <2>1, <2>5 DEF LoneInv, NoneForgotten, Handling, Awaits
    <3>2. /\ cpc'[t] = "copying" => got'[t].info = ackErrorCode.info
          /\ cpc'[t] = "answered" => got'[t].info = got'[t].data /\ IsNewest(got'[t].info)
      <4>1. CASE CopiesInfo(t)
        BY <4>1 DEF CopiesInfo, Moves, LinkInv, TypeOK
      <4>2. CASE CopiesData(t)
        <5>1. /\ cpc[t] = "copying" /\ got'[t].info = got[t].info /\ got'[t].data = ackErrorCode.data
              /\ cpc'[t] = "answered"
          BY <4>2 DEF CopiesData, Moves, LinkInv, TypeOK
        <5> QED
          BY <2>1, <3>1, <5>1 DEF LoneInv, SharedInv, CopyInv
      <4>3. CASE waitForACK(t) \/ WaitTimesOut(t) \/ Responds(t)
        BY <4>3 DEF waitForACK, WaitTimesOut, Responds, Moves, LinkInv, TypeOK
      <4> QED
        BY <4>1, <4>2, <4>3
    <3> QED
      BY <1>1, <1>3, <2>2, <3>2 DEF CopyInv, IsNewest
  <2> QED
    BY <2>3, <2>4, <2>6, <2>7 DEF LoneInv
<1> QED
  BY <1>2, <1>4 DEF AnswerInv

LEMMA ArrivalKeeps ==
    ASSUME LinkInv, AnswerInv, NEW f \in line, AckArrives(f)
    PROVE  AnswerInv'
<1>1. /\ rpc = "idle" /\ rpc' = "checked" /\ f.slot \in Slot /\ tab[f.slot].used
      /\ rcv'.slot = f.slot /\ rcv'.cmd = f.cmd
      /\ UNCHANGED <<calls, tab, acked, ackErrorCode>>
  <2>1. f \in Frame
    BY DEF LinkInv, TypeOK
  <2> QED
    BY <2>1 DEF AckArrives, Frame, table
<1>2. BusyFacts'
  BY <1>1 DEF BusyFacts, Busy
<1>3. ASSUME ~overlap' PROVE LoneInv'
  <2>1. LoneInv
    BY <1>1, <1>3 DEF AnswerInv, calls
  <2>2. Alone' /\ CopyInv'
    BY <1>1, <2>1 DEF LoneInv, Alone, Active, CopyInv, IsNewest, Accepted, calls
  <2>3. SharedInv'
    BY <1>1, <2>1 DEF LoneInv, SharedInv, IsNewest, Accepted, Handling, Busy, calls
  <2>4. NoneForgotten'
    BY <1>1, <2>1 DEF LoneInv, NoneForgotten, Awaited, Awaits, Plain, Busy, calls
  <2> QED
    BY <2>2, <2>3, <2>4 DEF LoneInv
<1> QED
  BY <1>2, <1>3 DEF AnswerInv

(* An answer that is accepted for a blocking command is awaited, so that no *)
(* caller holds an older one.                                               *)
LEMMA LockKeeps ==
    ASSUME LinkInv, AnswerInv, ReaderLocks
    PROVE  AnswerInv'
<1> DEFINE own == tab[rcv.slot].cmd
           h == mem[tab[rcv.slot].entry].frame
<1>1. /\ rpc = "checked" /\ rcv.slot \in Slot /\ own \in Cmd /\ own # NoCmd /\ rcv.slot # 0
      /\ UNCHANGED <<calls, ackErrorCode>>
  BY Known, Constants DEF ReaderLocks
<1>2. CASE ~Matches(h)
  <2>1. rpc' = "idle" /\ UNCHANGED <<acked, table>>
    BY <1>1, <1>2 DEF ReaderLocks
  <2>2. BusyFacts'
    BY <2>1 DEF BusyFacts, Busy
  <2>3. ASSUME ~overlap' PROVE LoneInv'
    <3>1. LoneInv
      BY <1>1, <2>3 DEF AnswerInv, calls
    <3>2. Alone' /\ CopyInv' /\ SharedInv'
      BY <1>1, <2>1, <3>1 DEF LoneInv, Alone, Active, CopyInv, SharedInv, IsNewest, Accepted,
                              Handling, Busy, calls
    <3>3. NoneForgotten'
      BY <1>1, <2>1, <3>1 DEF LoneInv, NoneForgotten, Awaited, Awaits, Plain, Busy, calls, table
    <3> QED
      BY <3>2, <3>3 DEF LoneInv
  <2> QED
    BY <2>2, <2>3 DEF AnswerInv
<1>3. CASE Matches(h)
  <2>1. own = rcv.cmd
    <3>1. h.slot = rcv.slot => h.cmd = own
      BY <1>1, EntryOf
    <3> QED
      BY <1>1, <1>3, <3>1 DEF Matches
  <2>2. /\ rpc' = "dispatch" /\ rcv'.own = own
        /\ acked' = [acked EXCEPT ![own] = @ + 1] /\ freeSession(rcv.slot)
    BY <1>1, <1>3 DEF ReaderLocks, LinkInv, TypeOK
  <2>3. /\ acked'[own] > 0
        /\ \A c \in Cmd \ {own} : acked'[c] = acked[c]
    BY <1>1, <2>2 DEF LinkInv, TypeOK
  <2>4. \A s \in Slot : tab'[s].cmd = tab[s].cmd /\ (tab'[s].used => tab[s].used)
    <3>1. tab' = tab \/ tab' = [tab EXCEPT ![rcv.slot].used = FALSE]
      BY <2>2 DEF freeSession, table
    <3>2. tab \in [Slot -> [used : BOOLEAN, cmd : {NoCmd} \cup Cmd, sent : 0 .. Retry, entry : Entry]]
      BY DEF LinkInv, TypeOK
    <3> QED
      BY <1>1, <3>1, <3>2
  <2> HIDE DEF own, h
  <2>5. BusyFacts'
    BY <2>2, <2>3 DEF BusyFacts, Busy
  <2>6. ASSUME ~overlap' PROVE LoneInv'
    <3>1. LoneInv
      BY <1>1, <2>6 DEF AnswerInv, calls
    <3>2. Plain(own) => Awaited(own)
      BY <1>1, <2>1, <3>1 DEF LoneInv, NoneForgotten, own
    <3>3. Alone'
      BY <1>1, <3>1 DEF LoneInv, Alone, Active, calls
    <3>4. NoneForgotten'
      BY <1>1, <2>2, <2>4, <3>1, <3>2 DEF LoneInv, NoneForgotten, Awaited, Awaits, Plain, Busy, calls
    <3>5. CASE Plain(own)
      <4>1. \A t \in Caller : cpc[t] \notin {"copying", "answered"}
        BY <3>1, <3>2, <3>5 DEF LoneInv, Alone, Active, Awaited, Awaits
      <4>2. CopyInv'
        BY <1>1, <4>1 DEF CopyInv, calls
      <4>3. Handling'
        BY <1>1, <2>2, <3>5 DEF Handling, Busy, Plain, calls
      <4>4. SharedInv'
        BY <2>2, <4>3 DEF SharedInv
      <4> QED
        BY <3>3, <3>4, <4>2, <4>4 DEF LoneInv
    <3>6. CASE ~Plain(own)
      <4>1. \A c : c \in Accepted' <=> c \in Accepted
        <5>1. own \notin Accepted /\ own \notin Accepted'
          BY <1>1, <3>6 DEF Accepted, Plain, calls
        <5>2. \A c \in Cmd : c # own => (c \in Accepted' <=> c \in Accepted)
          BY <1>1, <2>3 DEF Accepted, calls
        <5>3. Accepted \subseteq Cmd /\ Accepted' \subseteq Cmd
          BY DEF Accepted, Cmd
        <5> QED
          BY <5>1, <5>2, <5>3, Zenon
      <4>2. \A v : IsNewest(v) => IsNewest(v)'
        BY <4>1 DEF IsNewest
      <4>3. ~Handling /\ ~Handling'
        BY <1>1, <2>2, <3>6 DEF Handling, Busy, Plain, calls
      <4>4. SharedInv'
        <5>1. ackErrorCode' = ackErrorCode /\ IsNewest(ackErrorCode.info)
              /\ ackErrorCode.info = ackErrorCode.data
          BY <1>1, <3>1, <4>3 DEF LoneInv, SharedInv
        <5> QED
          BY <2>2, <4>1, <5>1 DEF SharedInv, IsNewest
      <4>5. CopyInv'
        BY <1>1, <3>1, <4>1 DEF LoneInv, CopyInv, IsNewest, calls
      <4> QED
        BY <3>3, <3>4, <4>4, <4>5 DEF LoneInv
    <3> QED
      BY <3>5, <3>6
  <2> QED
    BY <2>5, <2>6 DEF AnswerInv
<1> QED
  BY <1>2, <1>3

LEMMA CallbackKeeps ==
    ASSUME LinkInv, AnswerInv, DispatchesCallback
    PROVE  AnswerInv'
<1>1. /\ rpc = "dispatch" /\ ~Plain(rcv.own) /\ rpc' = "idle"
      /\ UNCHANGED <<calls, tab, acked, ackErrorCode>>
  BY DEF DispatchesCallback, ReaderEnds, Plain, table
<1>2. BusyFacts'
  BY <1>1 DEF BusyFacts, Busy
<1>3. ASSUME ~overlap' PROVE LoneInv'
  <2>1. LoneInv
    BY <1>1, <1>3 DEF AnswerInv, calls
  <2>2. Alone' /\ CopyInv' /\ SharedInv'
    BY <1>1, <2>1 DEF LoneInv, Alone, Active, CopyInv, SharedInv, IsNewest, Accepted,
                      Handling, Busy, calls
  <2>3. NoneForgotten'
    BY <1>1, <2>1 DEF LoneInv, NoneForgotten, Awaited, Awaits, Plain, Busy, calls
  <2> QED
    BY <2>2, <2>3 DEF LoneInv
<1> QED
  BY <1>2, <1>3 DEF AnswerInv

(* While a blocking command is answered, its caller has copied nothing.     *)
LEMMA NobodyCopies ==
    ASSUME LoneInv, Handling
    PROVE  \A t \in Caller : cpc[t] \notin {"copying", "answered"}
<1>1. PICK u \in Caller : Awaits(u)
  BY DEF LoneInv, NoneForgotten, Handling, Awaited
<1> QED
  BY <1>1 DEF LoneInv, Alone, Active, Awaits

LEMMA HandlesKeeps ==
    ASSUME LinkInv, AnswerInv, HandlesInfo \/ HandlesData
    PROVE  AnswerInv'
<1>1. /\ rpc \in {"dispatch", "data"} /\ Plain(rcv.own) /\ rpc' \in {"data", "notify"}
      /\ UNCHANGED <<calls, tab, rcv, acked>>
      /\ rpc' = "data" => ackErrorCode'.info = rcv.own
      /\ rpc' = "notify" => /\ rpc = "data" /\ ackErrorCode'.info = ackErrorCode.info
                            /\ ackErrorCode'.data = rcv.own
  BY DEF HandlesInfo, HandlesData, LinkInv, TypeOK, AnswerInv, BusyFacts, Plain, table
<1>2. BusyFacts'
  BY <1>1 DEF AnswerInv, BusyFacts, Busy, Plain, calls
<1>3. ASSUME ~overlap' PROVE LoneInv'
  <2>1. LoneInv
    BY <1>1, <1>3 DEF AnswerInv, calls
  <2>2. Handling /\ Handling'
    BY <1>1 DEF Handling, Busy, Plain, calls
  <2>3. Alone'
    BY <1>1, <2>1 DEF LoneInv, Alone, Active, calls
  <2>4. NoneForgotten'
    BY <1>1, <2>1 DEF LoneInv, NoneForgotten, Awaited, Awaits, Plain, Busy, calls
  <2>5. SharedInv'
    BY <1>1, <2>1, <2>2 DEF LoneInv, SharedInv
  <2>6. CopyInv'
    BY <1>1, <2>1, <2>2, NobodyCopies DEF CopyInv, calls
  <2> QED
    BY <2>3, <2>4, <2>5, <2>6 DEF LoneInv
<1> QED
  BY <1>2, <1>3 DEF AnswerInv

(* The answer is complete and the newest, and its session is not in use.    *)
LEMMA NotifyKeeps ==
    ASSUME LinkInv, AnswerInv, Notifies
    PROVE  AnswerInv'
<1>1. /\ rpc = "notify" /\ rpc' = "idle"
      /\ UNCHANGED <<ncmd, kind, cmd, got, overlap, tab, acked, ackErrorCode>>
      /\ \A t \in Caller : cpc'[t] = cpc[t] \/ (cpc[t] = "wait" /\ cpc'[t] = "woken")
  BY DEF Notifies, ReaderEnds, Waiting, table, LinkInv, TypeOK
<1>2. BusyFacts'
  BY <1>1 DEF BusyFacts, Busy
<1>3. ASSUME ~overlap' PROVE LoneInv'
  <2>1. LoneInv
    BY <1>1, <1>3 DEF AnswerInv
  <2>2. Busy /\ Plain(rcv.own) /\ acked[rcv.own] > 0 /\ Awaited(rcv.own)
    BY <1>1, <2>1 DEF AnswerInv, BusyFacts, Busy, LoneInv, NoneForgotten
  <2>3. rcv.own \in Cmd /\ IsNewest(rcv.own)
    BY <2>1, <2>2, Known, OwnIsNewest DEF LoneInv
  <2>4. Alone'
    BY <1>1, <2>1 DEF LoneInv, Alone, Active
  <2>5. \A c : Awaited(c) => c = rcv.own
    BY <2>1, <2>2 DEF LoneInv, Alone, Active, Awaited, Awaits
  <2>6. \A s \in Slot : tab[s].used => ~Plain(tab[s].cmd)
    <3>1. \A s \in Slot : tab[s].used => acked[tab[s].cmd] = 0
      BY DEF LinkInv, Counted
    <3> QED
      BY <2>1, <2>2, <2>5, <3>1 DEF LoneInv, NoneForgotten
  <2>7. NoneForgotten'
    BY <1>1, <2>6 DEF NoneForgotten, Plain, Busy
  <2>8. SharedInv'
    BY <1>1, <2>1, <2>3 DEF LoneInv, SharedInv, IsNewest, Accepted
  <2>9. CopyInv'
    BY <1>1, <2>1, <2>2, NobodyCopies DEF CopyInv, Handling
  <2> QED
    BY <2>4, <2>7, <2>8, <2>9 DEF LoneInv
<1> QED
  BY <1>2, <1>3 DEF AnswerInv
-----------------------------------------------------------------------------
LEMMA AnswerOfInit == Init => AnswerInv
<1> SUFFICES ASSUME Init PROVE AnswerInv
  OBVIOUS
<1>1. Accepted = {}
  <2>1. \A c \in Cmd : acked[c] = 0
    BY DEF Init
  <2> QED
    BY <2>1 DEF Accepted
<1>2. rpc = "idle" /\ ~Handling /\ \A t \in Caller : cpc[t] = "idle"
  BY DEF Init, Handling, Busy
<1>3. Alone /\ NoneForgotten /\ CopyInv
  BY <1>2 DEF Init, Alone, Active, NoneForgotten, Busy, CopyInv
<1>4. SharedInv
  BY <1>1, <1>2 DEF Init, SharedInv, NoAnswer, IsNewest
<1> QED
  BY <1>2, <1>3, <1>4 DEF AnswerInv, BusyFacts, Busy, LoneInv

LEMMA AnswerOfNext ==
    ASSUME LinkInv, LinkInv', AnswerInv, [Next]_vars
    PROVE  AnswerInv'
<1>1. ASSUME NEW t \in Caller, Call(t) \/ CallerStep(t) PROVE AnswerInv'
  BY <1>1, EncodeKeeps, SendKeeps, CallerKeeps DEF CallerStep
<1>2. ASSUME NEW f \in line, AckArrives(f) PROVE AnswerInv'
  BY <1>2, ArrivalKeeps
<1>3. CASE ReaderStep
  BY <1>3, LockKeeps, CallbackKeeps, HandlesKeeps, NotifyKeeps DEF ReaderStep
<1>4. CASE SetpointSends \/ (\E s \in Slot : PollDue(s)) \/ PollLocked \/ CallsBack \/ UNCHANGED vars
  BY <1>4, QuietSteps
<1> QED
  BY <1>1, <1>2, <1>3, <1>4 DEF Next, PollStep

(* While calls do not overlap, the answer a caller has copied from the      *)
(* unlocked ackErrorCode is one answer, not a mixture of two, and no        *)
(* accepted answer is newer: waitForACK may leave its wait by the time-out  *)
(* or too early, and the reader cannot be writing then.                     *)
THEOREM AnswersAreNewest == Spec => []AnswerIsNewest
<1>1. AnswerInv => AnswerIsNewest
  BY DEF AnswerInv, LoneInv, CopyInv, IsNewest, AnswerIsNewest
<1> QED
  BY <1>1, Invariance, AnswerOfInit, AnswerOfNext, PTL DEF Spec

(* The condition under which dji_control.hpp:349 is right, "ACK::ErrorCode  *)
(* struct with the acknowledgement from the FC": without overlapping calls  *)
(* a caller gets its own answer if that was accepted at all.                *)
OwnIfAccepted ==
    \A t \in Caller : cpc[t] = "answered" /\ ~overlap /\ cmd[t] \in Accepted => got[t].info = cmd[t]

THEOREM OwnUnlessLost == Spec => []OwnIfAccepted
<1>1. LinkInv /\ AnswerInv => OwnIfAccepted
  <2> SUFFICES ASSUME LinkInv, AnswerInv, NEW t \in Caller,
                      cpc[t] = "answered", ~overlap, cmd[t] \in Accepted
               PROVE  got[t].info = cmd[t]
    BY DEF OwnIfAccepted
  <2>1. cmd[t] = ncmd /\ IsNewest(got[t].info)
    BY DEF AnswerInv, LoneInv, Alone, Active, CopyInv
  <2>2. \A c \in Accepted : c <= ncmd
    BY Known DEF Accepted
  <2>3. cmd[t] <= got[t].info /\ got[t].info <= ncmd /\ got[t].info \in Nat /\ ncmd \in Nat
    BY <2>1, <2>2, Known, Constants DEF IsNewest, Accepted, Cmd, NoCmd
  <2> QED
    BY <2>1, <2>3
<1> QED
  BY <1>1, Invariance, AnswerOfInit, AnswerOfNext, PTL DEF Spec
=============================================================================
