------------------------- MODULE CommandLink_proofs -------------------------
(***************************************************************************)
(* Proofs about CommandLink for every number of callers, sessions, entries *)
(* of the MMU's table, retries and commands, and every size of the ring.   *)
(*                                                                         *)
(* The argument: sessions and memory entries are taken and freed together, *)
(* so that session s has entry s - 1.  Whatever happened between the test  *)
(* of usageFlag and the lock, a session in use finds its own frame in its  *)
(* entry; one that has ended may find another session's, but then not one  *)
(* that carries its own session number and another command.                *)
(***************************************************************************)
EXTENDS CommandLink, CallbackBuffer_proofs, FiniteSetTheorems

(* Where sessions, entries and frames point to each other.                  *)
Lockstep ==
    /\ \A e \in Entry : mem[e].used <=> (e + 1 \in Slot /\ tab[e + 1].used)
    /\ \A s \in Slot : /\ tab[s].used => tab[s].cmd # NoCmd
                       /\ tab[s].cmd # NoCmd => tab[s].entry = s - 1

FramesFit ==
    /\ \A e \in Entry : LET f == mem[e].frame IN
         /\ f.slot # 0 => f.cmd # NoCmd
         /\ f.slot = e + 1 => f.cmd = tab[e + 1].cmd
         /\ mem[e].used => f.slot = e + 1
    /\ \A f \in line : f.slot # 0 => f.cmd # NoCmd

(* A command without a session so far was never transmitted or answered.    *)
Fresh == {c \in Cmd : sends[c] = 0 /\ acked[c] = 0 /\ \A s \in Slot : tab[s].cmd # c}

Distinct ==
    \A s, r \in Slot : s # r /\ tab[s].cmd # NoCmd => tab[r].cmd # tab[s].cmd

Numbered ==
    /\ \A c \in Cmd : c > ncmd => c \in Fresh /\ \A t \in Caller : cmd[t] # c
    /\ \A t \in Caller : cpc[t] = "encoded" =>
         /\ cmd[t] \in Fresh
         /\ \A u \in Caller \ {t} : cpc[u] = "encoded" => cmd[u] # cmd[t]

(* Whatever frame sendPoll finds in a memory entry has been sent before.    *)
FramesSent ==
    \A e \in Entry : mem[e].frame.cmd \in Cmd => sends[mem[e].frame.cmd] > 0

(* A command's frame may be sent from the sessions of other commands, once  *)
(* from each.                                                               *)
Alien(l, c) == Cardinality({d \in Cmd \ {c} : l[d] > 0})

Counted ==
    /\ \A c \in Cmd : sends[c] <= Retry + Alien(late, c) /\ acked[c] <= 1
    /\ \A s \in Slot : tab[s].cmd # NoCmd =>
         sends[tab[s].cmd] <= tab[s].sent + Alien(late, tab[s].cmd)
    /\ \A s \in Slot : tab[s].used => acked[tab[s].cmd] = 0

Found ==
    /\ ppc # 0 => tab[ppc].cmd # NoCmd
    /\ rpc = "checked" => /\ rcv.slot # 0 /\ rcv.cmd # NoCmd
                          /\ tab[rcv.slot].cmd # NoCmd /\ acked[tab[rcv.slot].cmd] = 0
    /\ rpc \in {"dispatch", "data", "notify"} => rcv.own = rcv.cmd /\ rcv.own # NoCmd

(* A session that sendPoll has found and that has ended since was answered, *)
(* and sendPoll has not sent from its memory yet.                           *)
LateFew ==
    /\ \A c \in Cmd : late[c] <= acked[c]
    /\ ppc # 0 => /\ late[tab[ppc].cmd] = 0
                  /\ tab[ppc].used \/ acked[tab[ppc].cmd] > 0

LinkInv == TypeOK /\ RingInv /\ Lockstep /\ FramesFit /\ FramesSent /\ Distinct /\ Numbered
           /\ Counted /\ Found /\ LateFew

-----------------------------------------------------------------------------
LEMMA Constants ==
    /\ LastSlot \in Nat /\ LastEntry \in Nat \ {0} /\ Retry \in Nat \ {0} /\ MaxCmd \in Nat
    /\ Slot \subseteq Nat /\ Entry \subseteq Nat /\ Cmd \subseteq Nat
    /\ 0 \notin Slot /\ 0 \notin Cmd /\ NoCmd = 0 /\ NoCmd \notin Cmd
BY SlotAssumption, RetryAssumption, MaxCmdAssumption DEF Slot, Entry, Cmd, NoCmd

LEMMA AlienNat == ASSUME NEW l, NEW c PROVE Alien(l, c) \in Nat
<1>1. IsFiniteSet(Cmd)
  BY MaxCmdAssumption, FS_Interval DEF Cmd
<1>2. IsFiniteSet({d \in Cmd \ {c} : l[d] > 0})
  BY <1>1, FS_Subset
<1> QED
  BY <1>2, FS_CardinalityType DEF Alien

LEMMA AlienGrows ==
    ASSUME NEW l, NEW k, NEW c, \A d \in Cmd : l[d] > 0 => k[d] > 0
    PROVE  Alien(l, c) <= Alien(k, c)
<1> DEFINE L == {d \in Cmd \ {c} : l[d] > 0}
           K == {d \in Cmd \ {c} : k[d] > 0}
<1>1. IsFiniteSet(Cmd)
  BY MaxCmdAssumption, FS_Interval DEF Cmd
<1>2. IsFiniteSet(K)
  BY <1>1, FS_Subset
<1>3. L \in SUBSET K
  OBVIOUS
<1> HIDE DEF L, K
<1>4. Cardinality(L) <= Cardinality(K)
  BY <1>2, <1>3, FS_Subset
<1> QED
  BY <1>4 DEF Alien, L, K

LEMMA AlienAdds ==
    ASSUME NEW l, NEW k, NEW c, NEW d \in Cmd, c # d, l[d] = 0, k[d] = 1,
           \A a \in Cmd : a # d => k[a] = l[a]
    PROVE  Alien(k, c) = Alien(l, c) + 1
<1> DEFINE L == {a \in Cmd \ {c} : l[a] > 0}
<1>1. {a \in Cmd \ {c} : k[a] > 0} = L \cup {d} /\ d \notin L
  OBVIOUS
<1>2. IsFiniteSet(L)
  <2>1. IsFiniteSet(Cmd)
    BY MaxCmdAssumption, FS_Interval DEF Cmd
  <2> QED
    BY <2>1, FS_Subset
<1> HIDE DEF L
<1>3. Cardinality(L \cup {d}) = Cardinality(L) + 1
  BY <1>1, <1>2, FS_AddElement
<1> QED
  BY <1>1, <1>3 DEF Alien, L

Session == [used : BOOLEAN, cmd : {NoCmd} \cup Cmd, sent : 0 .. Retry, entry : Entry]

Memory == [used : BOOLEAN, frame : Frame]

TableOK == tab \in [Slot -> Session] /\ mem \in [Entry -> Memory]

LEMMA FreeType == ASSUME TableOK, NEW s \in Slot, freeSession(s) PROVE TableOK'
<1>1. CASE tab[s].used
  <2> DEFINE e == tab[s].entry
  <2>1. tab[s] \in Session /\ e \in Entry /\ mem[e] \in Memory
    BY DEF TableOK, Session
  <2>2. [tab[s] EXCEPT !.used = FALSE] \in Session
    BY <2>1 DEF Session
  <2>3. [mem[e] EXCEPT !.used = FALSE] \in Memory
    BY <2>1 DEF Memory
  <2>4. /\ tab' = [tab EXCEPT ![s] = [tab[s] EXCEPT !.used = FALSE]]
        /\ mem' = [mem EXCEPT ![e] = [mem[e] EXCEPT !.used = FALSE]]
    BY <1>1 DEF freeSession
  <2> QED
    BY <2>1, <2>2, <2>3, <2>4 DEF TableOK
<1>2. CASE ~tab[s].used
  BY <1>2 DEF TableOK, freeSession, table
<1> QED
  BY <1>1, <1>2

LEMMA FreeLeaves ==
    ASSUME tab \in [Slot -> Session], NEW s \in Slot, freeSession(s)
    PROVE  \A r \in Slot : /\ tab'[r].cmd = tab[r].cmd /\ tab'[r].sent = tab[r].sent
                           /\ tab'[r].used <=> (tab[r].used /\ r # s)
<1>1. CASE tab[s].used
  <2>1. tab' = [tab EXCEPT ![s].used = FALSE]
    BY <1>1 DEF freeSession
  <2> QED
    BY <2>1 DEF Session
<1>2. CASE ~tab[s].used
  BY <1>2 DEF freeSession, table
<1> QED
  BY <1>1, <1>2

LEMMA TransmitType ==
    ASSUME line \subseteq Frame, sends \in [{NoCmd} \cup Cmd -> Nat],
           NEW f \in Frame, Transmits(f)
    PROVE  line' \subseteq Frame /\ sends' \in [{NoCmd} \cup Cmd -> Nat]
BY DEF Transmits, Frame

(* What allocMemory does to the entries: those in use keep what they have.  *)
LEMMA Laid ==
    ASSUME mem \in [Entry -> Memory], NEW e \in Entry, NEW f \in Frame, NEW u \in BOOLEAN,
           allocMemory(e, f, u)
    PROVE  /\ mem' \in [Entry -> Memory]
           /\ ~mem[e].used /\ \A d \in FreeEntries : e <= d
           /\ mem'[e].used = u /\ mem'[e].frame = f
           /\ \A d \in Entry \ {e} :
                /\ mem'[d].used <=> mem[d].used
                /\ mem[d].used => mem'[d] = mem[d]
                /\ \/ mem'[d].frame \in {mem[d].frame, f, NoFrame}
                   \/ \E r \in Entry : mem[r].used /\ mem'[d].frame = mem[r].frame
<1> DEFINE laid == {f, NoFrame} \cup {mem[r].frame : r \in Entry \ FreeEntries}
<1>1. \E over \in SUBSET (Left \ {e}) : \E g \in [over -> laid] :
         mem' = [r \in Entry |->
                   IF r = e THEN [used |-> u, frame |-> f]
                   ELSE IF r \in over THEN [used |-> FALSE, frame |-> g[r]] ELSE mem[r]]
  BY DEF allocMemory
<1>1a. PICK over \in SUBSET (Left \ {e}) : \E g \in [over -> laid] :
         mem' = [r \in Entry |->
                   IF r = e THEN [used |-> u, frame |-> f]
                   ELSE IF r \in over THEN [used |-> FALSE, frame |-> g[r]] ELSE mem[r]]
  BY <1>1
<1>1b. PICK g \in [over -> laid] :
         mem' = [r \in Entry |->
                   IF r = e THEN [used |-> u, frame |-> f]
                   ELSE IF r \in over THEN [used |-> FALSE, frame |-> g[r]] ELSE mem[r]]
  BY <1>1a
<1>2. over \subseteq FreeEntries /\ e \in FreeEntries /\ \A d \in FreeEntries : e <= d
  BY DEF allocMemory, Left
<1>3. NoFrame \in Frame /\ \A r \in Entry : mem[r].frame \in Frame /\ mem[r].used \in BOOLEAN
  BY DEF NoFrame, Frame, Memory
<1>4. \A d \in over : /\ ~mem[d].used /\ g[d] \in Frame
                      /\ \/ g[d] \in {f, NoFrame}
                         \/ \E r \in Entry : mem[r].used /\ g[d] = mem[r].frame
  BY <1>2, <1>3 DEF FreeEntries
<1> HIDE DEF laid
<1>5. /\ mem'[e] = [used |-> u, frame |-> f]
      /\ \A d \in Entry \ {e} :
           mem'[d] = IF d \in over THEN [used |-> FALSE, frame |-> g[d]] ELSE mem[d]
  BY <1>1b
<1>6. mem' \in [Entry -> Memory]
  <2>1. \A d \in over : [used |-> FALSE, frame |-> g[d]] \in Memory
    BY <1>4 DEF Memory
  <2>2. [used |-> u, frame |-> f] \in Memory
    BY DEF Memory
  <2> QED
    BY <1>1b, <2>1, <2>2
<1>7. ASSUME NEW d \in Entry \ {e}
      PROVE  /\ mem'[d].used <=> mem[d].used
             /\ mem[d].used => mem'[d] = mem[d]
             /\ \/ mem'[d].frame \in {mem[d].frame, f, NoFrame}
                \/ \E r \in Entry : mem[r].used /\ mem'[d].frame = mem[r].frame
  <2>1. CASE d \in over
    <3>1. mem'[d] = [used |-> FALSE, frame |-> g[d]]
      BY <1>5, <2>1
    <3>2. ~mem'[d].used /\ mem'[d].frame = g[d]
      BY <3>1
    <3> QED
      BY <1>4, <2>1, <3>2
  <2>2. CASE d \notin over
    BY <1>5, <2>2
  <2> QED
    BY <2>1, <2>2
<1> QED
  BY <1>2, <1>5, <1>6, <1>7 DEF FreeEntries

LEMMA Starts == Init => LinkInv
<1> SUFFICES ASSUME Init PROVE LinkInv
  OBVIOUS
<1> USE Constants DEF Init
<1>1. RingInv
  BY RingStarts
<1>2. TypeOK
  <2>1. NoFrame \in Frame
    BY DEF NoFrame, Frame
  <2>2. 1 \in Entry /\ 0 \in 0 .. Retry
    BY DEF Entry
  <2>3. tab \in [Slot -> [used : BOOLEAN, cmd : {NoCmd} \cup Cmd,
                          sent : 0 .. Retry, entry : Entry]]
    BY <2>2
  <2>4. NoAnswer \in [info : {NoCmd} \cup Cmd, data : {NoCmd} \cup Cmd, ans : Answer]
    BY DEF NoAnswer, Answer
  <2> QED
    BY <1>1, <2>1, <2>3, <2>4 DEF RingInv, TypeOK, NoAck
<1>3. Lockstep /\ FramesFit
  BY DEF Lockstep, FramesFit, Entry, NoFrame
<1>4. FramesSent /\ Distinct /\ Numbered /\ Found /\ LateFew
  BY DEF FramesSent, NoFrame, Distinct, Numbered, Fresh, Found, LateFew
<1>5. Counted
  BY AlienNat DEF Counted
<1> QED
  BY <1>1, <1>2, <1>3, <1>4, <1>5 DEF LinkInv

(* The first free session and the first free entry belong together.         *)
LEMMA AllocatesTogether ==
    ASSUME LinkInv, NEW s \in Slot, NEW e \in Entry, allocSession(s),
           ~mem[e].used, \A d \in FreeEntries : e <= d
    PROVE  e = s - 1 /\ ~tab[s].used
<1> USE SlotAssumption DEF LinkInv, Lockstep, allocSession, FreeSlots, FreeEntries, Slot, Entry
<1>1. ~tab[s].used /\ ~mem[e].used
  OBVIOUS
<1>2. s <= e + 1
  <2>1. CASE e + 1 \in Slot
    BY <2>1, <1>1
  <2>2. CASE e + 1 \notin Slot
    BY <2>2
  <2> QED
    BY <2>1, <2>2
<1>3. s - 1 \in Entry /\ ~mem[s - 1].used
  <2>1. s - 1 \in Entry /\ (s - 1) + 1 = s
    BY <1>2
  <2> QED
    BY <2>1, <1>1
<1>4. e <= s - 1
  BY <1>3
<1> QED
  BY <1>1, <1>2, <1>4

-----------------------------------------------------------------------------
(* Only two steps use the ring.                                             *)
LEMMA RingSteps == [Next]_vars => DispatchesCallback \/ CallsBack \/ UNCHANGED cbVars
BY DEF Next, vars, CallerStep, PollStep, ReaderStep, Call, Encode, sendInterface, waitForACK, Moves,
       WaitTimesOut, CopiesInfo, CopiesData, Again, Responds, SetpointSends, PollDue,
       PollLocked, AckArrives, ReaderLocks, HandlesInfo, HandlesData, Notifies

(* Type correctness, action by action; the ring has its own lemmas.         *)
LEMMA KeepsRing == LinkInv /\ [Next]_vars => RingInv'
<1> SUFFICES ASSUME LinkInv, [Next]_vars PROVE RingInv'
  OBVIOUS
<1>1. CASE DispatchesCallback
  <2>1. rcv.own \in Callback
    BY <1>1, CallbackAssumption DEF DispatchesCallback, LinkInv, TypeOK, Found, Cmd
  <2>2. CASE rcv.own \in Registered
    BY <1>1, <2>1, <2>2, PushKeeps DEF DispatchesCallback, LinkInv
  <2>3. CASE rcv.own \notin Registered
    BY <1>1, <2>3, RingStutters DEF DispatchesCallback, LinkInv
  <2> QED
    BY <2>2, <2>3
<1>2. CASE CallsBack
  BY <1>2, PollKeeps DEF CallsBack, LinkInv
<1>3. CASE UNCHANGED cbVars
  BY <1>3, RingStutters DEF LinkInv
<1> QED
  BY <1>1, <1>2, <1>3, RingSteps

LEMMA KeepsType == LinkInv /\ [Next]_vars => TypeOK'
<1> SUFFICES ASSUME LinkInv, [Next]_vars PROVE TypeOK'
  OBVIOUS
<1>0. RingTypeOK'
  BY KeepsRing DEF RingInv
<1> USE Constants, <1>0 DEF LinkInv, TypeOK, calls, table, counts, reader
<1>1. ASSUME NEW t \in Caller, NEW q \in {"blocking", "callback"}, Encode(t, q),
             overlap' \in BOOLEAN
      PROVE  TypeOK'
  <2>1. ncmd' \in Cmd
    BY <1>1 DEF Encode, Cmd
  <2> QED
    BY <1>1, <2>1 DEF Encode, NoAnswer, Answer
<1>2. ASSUME NEW t \in Caller, Call(t) PROVE TypeOK'
  BY <1>1, <1>2 DEF Call
<1>3. ASSUME NEW t \in Caller, sendInterface(t) PROVE TypeOK'
  <2>1. cpc' \in [Caller -> {"idle", "encoded", "sent", "wait", "woken", "copying", "answered"}]
        /\ cmd' \in [Caller -> {NoCmd} \cup Cmd]
    BY <1>3 DEF sendInterface, AfterSend
  <2>2. ASSUME NEW s \in Slot, NEW e \in Entry,
               LET f == [slot |-> s, cmd |-> cmd[t]] IN
               /\ allocSession(s) /\ allocMemory(e, f, TRUE)
               /\ tab' = [tab EXCEPT ![s] = [used |-> TRUE, cmd |-> cmd[t], sent |-> 1, entry |-> e]]
               /\ Transmits(f) /\ UNCHANGED late
        PROVE  TypeOK'
    <3>1. cmd[t] \in {NoCmd} \cup Cmd /\ Retry >= 1
      OBVIOUS
    <3>2. tab' \in [Slot -> [used : BOOLEAN, cmd : {NoCmd} \cup Cmd,
                             sent : 0 .. Retry, entry : Entry]]
      BY <2>2, <3>1
    <3> DEFINE f == [slot |-> s, cmd |-> cmd[t]]
    <3>3. f \in Frame
      BY <3>1 DEF Frame
    <3>4. mem' \in [Entry -> [used : BOOLEAN, frame : Frame]]
      <4>1. mem \in [Entry -> Memory] /\ allocMemory(e, f, TRUE)
        BY <2>2 DEF Memory
      <4> QED
        BY <3>3, <4>1, Laid DEF Memory
    <3>5. line' \subseteq Frame /\ sends' \in [{NoCmd} \cup Cmd -> Nat]
      <4>1. Transmits(f)
        BY <2>2
      <4>2. line \subseteq Frame /\ sends \in [{NoCmd} \cup Cmd -> Nat]
        OBVIOUS
      <4> HIDE DEF f
      <4> QED
        BY <3>3, <4>1, <4>2, TransmitType
    <3> QED
      BY <1>3, <2>1, <2>2, <3>2, <3>4, <3>5 DEF sendInterface
  <2>3. CASE UNCHANGED <<table, counts>>
    BY <1>3, <2>1, <2>3 DEF sendInterface
  <2> QED
    BY <1>3, <2>2, <2>3 DEF sendInterface
<1>4. ASSUME NEW t \in Caller, waitForACK(t) \/ WaitTimesOut(t) PROVE TypeOK'
  BY <1>4 DEF waitForACK, WaitTimesOut, Moves
<1>5. ASSUME NEW t \in Caller, CopiesInfo(t) PROVE TypeOK'
  <2>1. got' \in [Caller -> [info : {NoCmd} \cup Cmd, data : {NoCmd} \cup Cmd, ans : Answer]]
    BY <1>5 DEF CopiesInfo
  <2> QED
    BY <1>5, <2>1 DEF CopiesInfo, Moves
<1>6. ASSUME NEW t \in Caller, CopiesData(t) PROVE TypeOK'
  <2>1. got' \in [Caller -> [info : {NoCmd} \cup Cmd, data : {NoCmd} \cup Cmd, ans : Answer]]
    BY <1>6 DEF CopiesData
  <2> QED
    BY <1>6, <2>1 DEF CopiesData, Moves
<1>7. ASSUME NEW t \in Caller, Again(t) PROVE TypeOK'
  BY <1>1, <1>7 DEF Again
<1>8. ASSUME NEW t \in Caller, Responds(t) PROVE TypeOK'
  BY <1>8 DEF Responds, Moves, NoAnswer, Answer
<1>9. CASE SetpointSends
  <2>1. NoFrame \in Frame /\ mem \in [Entry -> Memory]
    BY DEF NoFrame, Frame, Memory
  <2>2. mem' \in [Entry -> [used : BOOLEAN, frame : Frame]]
    BY <1>9, <2>1, Laid DEF SetpointSends, Memory
  <2> QED
    BY <1>9, <2>2 DEF SetpointSends
<1>10. ASSUME NEW s \in Slot, PollDue(s) PROVE TypeOK'
  BY <1>10 DEF PollDue
<1>11. CASE PollLocked
  <2>1. ppc \in Slot
    BY <1>11 DEF PollLocked
  <2>2. CASE tab[ppc].sent >= Retry
    <3>1. freeSession(ppc)
      BY <1>11, <2>2 DEF PollLocked
    <3>2. TableOK'
      BY <2>1, <3>1, FreeType DEF TableOK, Session, Memory
    <3> QED
      BY <1>11, <2>2, <3>2 DEF PollLocked, TableOK, Session, Memory
  <2>3. CASE ~(tab[ppc].sent >= Retry)
    <3>1. Resend(ppc)
      BY <1>11, <2>3 DEF PollLocked
    <3>2. tab[ppc].entry \in Entry /\ tab[ppc].sent \in 0 .. Retry
      BY <2>1
    <3>3. mem[tab[ppc].entry].frame \in Frame /\ tab[ppc].sent + 1 \in 0 .. Retry
      <4>1. mem[tab[ppc].entry] \in [used : BOOLEAN, frame : Frame]
        BY <3>2
      <4>2. mem[tab[ppc].entry].frame \in Frame
        BY <4>1
      <4> QED
        BY <2>3, <3>2, <4>2, RetryAssumption
    <3>4. tab' \in [Slot -> [used : BOOLEAN, cmd : {NoCmd} \cup Cmd,
                             sent : 0 .. Retry, entry : Entry]]
      <4>1. tab' = [tab EXCEPT ![ppc].sent = @ + 1]
        BY <3>1 DEF Resend
      <4>2. tab \in [Slot -> Session] /\ tab[ppc] \in Session /\ tab[ppc].sent + 1 \in 0 .. Retry
        BY <2>1, <3>3 DEF Session
      <4> HIDE DEF TypeOK
      <4>3. [tab[ppc] EXCEPT !.sent = @ + 1] \in Session
        BY <4>2 DEF Session
      <4>4. tab' \in [Slot -> Session]
        BY <2>1, <4>1, <4>2, <4>3
      <4> QED
        BY <4>4 DEF Session
    <3>5. line' \subseteq Frame /\ sends' \in [{NoCmd} \cup Cmd -> Nat]
      <4>1. Transmits(mem[tab[ppc].entry].frame)
        BY <3>1 DEF Resend
      <4>2. line \subseteq Frame /\ sends \in [{NoCmd} \cup Cmd -> Nat]
        OBVIOUS
      <4> QED
        BY <3>3, <4>1, <4>2, TransmitType
    <3>6. late' \in [{NoCmd} \cup Cmd -> Nat]
      <4>1. late' = late \/ late' = [late EXCEPT ![tab[ppc].cmd] = @ + 1]
        BY <3>1 DEF Resend
      <4> QED
        BY <2>1, <4>1
    <3> QED
      BY <1>11, <2>3, <3>1, <3>4, <3>5, <3>6 DEF PollLocked, Resend
  <2> QED
    BY <2>2, <2>3
<1>12. ASSUME NEW f \in line, AckArrives(f) PROVE TypeOK'
  BY <1>12 DEF AckArrives, Frame
<1>13. CASE ReaderLocks
  <2>1. rcv.slot \in Slot
    BY <1>13 DEF ReaderLocks, Found
  <2>2. TableOK'
    <3>1. CASE freeSession(rcv.slot)
      BY <2>1, <3>1, FreeType DEF TableOK, Session, Memory
    <3>2. CASE UNCHANGED table
      BY <3>2 DEF TableOK, Session, Memory
    <3> QED
      BY <1>13, <3>1, <3>2 DEF ReaderLocks
  <2>3. /\ rcv' \in [slot : {0} \cup Slot, cmd : {NoCmd} \cup Cmd, own : {NoCmd} \cup Cmd]
        /\ acked' \in [{NoCmd} \cup Cmd -> Nat]
        /\ rpc' \in {"idle", "dispatch"}
    <3>1. tab[rcv.slot].cmd \in {NoCmd} \cup Cmd
      BY <2>1
    <3>2. CASE Matches(mem[tab[rcv.slot].entry].frame)
      <4>1. /\ rcv' = [rcv EXCEPT !.own = tab[rcv.slot].cmd] /\ rpc' = "dispatch"
            /\ acked' = [acked EXCEPT ![tab[rcv.slot].cmd] = @ + 1]
        BY <1>13, <3>2 DEF ReaderLocks
      <4> QED
        BY <3>1, <4>1
    <3>3. CASE ~Matches(mem[tab[rcv.slot].entry].frame)
      BY <1>13, <3>3 DEF ReaderLocks, NoAck
    <3> QED
      BY <3>2, <3>3
  <2> QED
    BY <1>13, <2>2, <2>3 DEF ReaderLocks, TableOK, Session, Memory
<1>14. CASE DispatchesCallback
  BY <1>14 DEF DispatchesCallback, ReaderEnds, NoAck
<1>15. CASE HandlesInfo
  BY <1>15 DEF HandlesInfo, Answer
<1>16. CASE HandlesData
  BY <1>16 DEF HandlesData, Answer
<1>17. CASE Notifies
  BY <1>17 DEF Notifies, ReaderEnds, NoAck, Waiting
<1>18. CASE CallsBack
  BY <1>18 DEF CallsBack
<1>19. CASE UNCHANGED vars
  BY <1>19 DEF vars
<1> HIDE DEF LinkInv, TypeOK, calls, table, counts, reader
<1> QED
  BY <1>2, <1>3, <1>4, <1>5, <1>6, <1>7, <1>8, <1>9, <1>10, <1>11, <1>12, <1>13, <1>14,
     <1>15, <1>16, <1>17, <1>18, <1>19 DEF Next, CallerStep, PollStep, ReaderStep

-----------------------------------------------------------------------------
(* What the steps that do not touch sessions, memory or line leave alone.   *)
LEMMA TableSteps ==
    ASSUME [Next]_vars
    PROVE  \/ \E t \in Caller : sendInterface(t)
           \/ SetpointSends \/ PollLocked \/ ReaderLocks
           \/ UNCHANGED <<tab, mem, line, sends, late>>
BY DEF Next, vars, CallerStep, PollStep, ReaderStep, Call, Encode, waitForACK, Moves, WaitTimesOut,
       CopiesInfo, CopiesData, Again, Responds, PollDue, AckArrives, DispatchesCallback,
       HandlesInfo, HandlesData, Notifies, CallsBack, calls, table, counts, reader

(* A session is given another command only when it is allocated.            *)
LEMMA CmdsStay ==
    ASSUME LinkInv, SetpointSends \/ PollLocked \/ ReaderLocks \/ UNCHANGED tab
    PROVE  \A s \in Slot : tab'[s].cmd = tab[s].cmd
<1>1. ASSUME NEW s \in Slot, freeSession(s) \/ Resend(s) PROVE \A r \in Slot : tab'[r].cmd = tab[r].cmd
  <2>1. CASE UNCHANGED tab
    BY <2>1
  <2>2. CASE tab' = [tab EXCEPT ![s].used = FALSE]
    BY <2>2 DEF LinkInv, TypeOK
  <2>3. CASE tab' = [tab EXCEPT ![s].sent = @ + 1]
    BY <2>3 DEF LinkInv, TypeOK
  <2> QED
    BY <1>1, <2>1, <2>2, <2>3 DEF freeSession, Resend, table
<1>2. CASE PollLocked
  BY <1>1, <1>2 DEF PollLocked, LinkInv, TypeOK
<1>3. CASE ReaderLocks
  <2>1. rcv.slot \in Slot
    BY <1>3 DEF ReaderLocks, LinkInv, TypeOK, Found
  <2> QED
    BY <1>1, <1>3, <2>1 DEF ReaderLocks, table
<1> QED
  BY <1>2, <1>3 DEF SetpointSends

LEMMA EntryOf ==
    ASSUME LinkInv, NEW s \in Slot, tab[s].cmd # NoCmd
    PROVE  LET f == mem[tab[s].entry].frame IN
           /\ tab[s].entry = s - 1 /\ s - 1 \in Entry /\ f \in Frame
           /\ f.slot # 0 => f.cmd # NoCmd
           /\ f.slot = s => f.cmd = tab[s].cmd
           /\ tab[s].used => mem[tab[s].entry].used /\ f.slot = s
<1> DEFINE e == tab[s].entry
<1>1. e = s - 1 /\ e \in Entry /\ e + 1 = s
  BY Constants DEF LinkInv, TypeOK, Lockstep
<1>2. mem[e] \in [used : BOOLEAN, frame : Frame]
  BY <1>1 DEF LinkInv, TypeOK
<1>3. LET f == mem[e].frame IN
      /\ f.slot # 0 => f.cmd # NoCmd
      /\ f.slot = e + 1 => f.cmd = tab[e + 1].cmd
      /\ mem[e].used => f.slot = e + 1
  BY <1>1 DEF LinkInv, FramesFit
<1>4. tab[s].used => mem[e].used
  BY <1>1 DEF LinkInv, Lockstep
<1> HIDE DEF e
<1>5. LET f == mem[e].frame IN
      /\ f.slot # 0 => f.cmd # NoCmd
      /\ f.slot = s => f.cmd = tab[s].cmd
      /\ tab[s].used => mem[e].used /\ f.slot = s
  BY <1>1, <1>3, <1>4
<1> QED
  BY <1>1, <1>2, <1>5 DEF e

LEMMA FreeKeeps ==
    ASSUME LinkInv, NEW s \in Slot, freeSession(s), UNCHANGED line
    PROVE  Lockstep' /\ FramesFit'
<1>1. CASE ~tab[s].used
  BY <1>1 DEF freeSession, table, LinkInv, Lockstep, FramesFit
<1>2. CASE tab[s].used
  <2>1. /\ tab[s].entry = s - 1 /\ s - 1 \in Entry
    BY <1>2, EntryOf DEF LinkInv, Lockstep
  <2>2. /\ tab' = [tab EXCEPT ![s].used = FALSE]
        /\ mem' = [mem EXCEPT ![s - 1].used = FALSE]
    BY <1>2, <2>1 DEF freeSession
  <2>3. \A r \in Slot : /\ tab'[r].cmd = tab[r].cmd /\ tab'[r].entry = tab[r].entry
                        /\ tab'[r].used <=> (r # s /\ tab[r].used)
    BY <2>1, <2>2 DEF LinkInv, TypeOK
  <2>3a. \A e \in Entry : /\ mem'[e].frame = mem[e].frame
                          /\ mem'[e].used <=> (e # s - 1 /\ mem[e].used)
    BY <2>1, <2>2 DEF LinkInv, TypeOK
  <2>3b. \A e \in Entry : e = s - 1 <=> e + 1 = s
    BY Constants
  <2>4. Lockstep'
    BY <2>3, <2>3a, <2>3b DEF LinkInv, Lockstep
  <2>6. FramesFit'
    <3>1. \A e \in Entry : mem[e].frame.slot = e + 1 => e + 1 \in Slot
      BY Constants DEF LinkInv, TypeOK, Frame
    <3>2. \A e \in Entry : e + 1 \in Slot => tab'[e + 1].cmd = tab[e + 1].cmd
      BY <2>3
    <3> QED
      BY <2>3a, <3>1, <3>2 DEF LinkInv, FramesFit
  <2> QED
    BY <2>4, <2>6
<1> QED
  BY <1>1, <1>2

(* New frames and blocks that are moved never give an entry a frame of its  *)
(* own session, unless it is the session's that takes the entry.            *)
LEMMA LaidFits ==
    ASSUME LinkInv, NEW e \in Entry, NEW f \in Frame, NEW u \in BOOLEAN, allocMemory(e, f, u),
           f.slot # 0 => f.cmd # NoCmd /\ f.slot = e + 1, u => f.slot = e + 1,
           \A s \in Slot \ {e + 1} : tab'[s] = tab[s],
           e + 1 \in Slot /\ f.slot = e + 1 => tab'[e + 1].cmd = f.cmd
    PROVE  \A d \in Entry : LET h == mem'[d].frame IN
              /\ h.slot # 0 => h.cmd # NoCmd
              /\ h.slot = d + 1 => h.cmd = tab'[d + 1].cmd
              /\ mem'[d].used => h.slot = d + 1
<1>1. mem \in [Entry -> Memory]
  BY DEF LinkInv, TypeOK, Memory
<1>2. /\ mem'[e].used = u /\ mem'[e].frame = f
      /\ mem' \in [Entry -> Memory]
      /\ \A d \in Entry \ {e} :
           /\ mem'[d].used <=> mem[d].used
           /\ mem[d].used => mem'[d] = mem[d]
           /\ \/ mem'[d].frame \in {mem[d].frame, f, NoFrame}
              \/ \E r \in Entry : mem[r].used /\ mem'[d].frame = mem[r].frame
  BY <1>1, Laid
<1>3. \A d \in Entry : mem'[d].frame.slot = d + 1 => d + 1 \in Slot
  BY <1>2, Constants DEF Memory, Frame
<1>4. \A d, r \in Entry : d + 1 = r + 1 => d = r
  BY Constants
<1>5. \A d \in Entry : LET h == mem[d].frame IN
        /\ h.slot # 0 => h.cmd # NoCmd
        /\ h.slot = d + 1 => h.cmd = tab[d + 1].cmd
        /\ mem[d].used => h.slot = d + 1
  BY DEF LinkInv, FramesFit
<1> SUFFICES ASSUME NEW d \in Entry
             PROVE  LET h == mem'[d].frame IN
                    /\ h.slot # 0 => h.cmd # NoCmd
                    /\ h.slot = d + 1 => h.cmd = tab'[d + 1].cmd
                    /\ mem'[d].used => h.slot = d + 1
  OBVIOUS
<1>6. CASE d = e
  BY <1>2, <1>3, <1>6
<1>7. CASE d # e
  <2>1. d + 1 # e + 1 /\ d + 1 # 0
    BY <1>4, <1>7, Constants DEF Entry
  <2>2. d + 1 \in Slot => tab'[d + 1] = tab[d + 1]
    BY <2>1
  <2>3. CASE mem'[d].frame = mem[d].frame
    BY <1>2, <1>3, <1>5, <1>7, <2>2, <2>3
  <2>4. CASE mem'[d].frame # mem[d].frame
    <3>1. ~mem[d].used /\ ~mem'[d].used
      BY <1>2, <1>7, <2>4
    <3>2. CASE mem'[d].frame = f \/ mem'[d].frame = NoFrame
      BY <2>1, <3>1, <3>2 DEF NoFrame
    <3>3. ASSUME NEW r \in Entry, mem[r].used, mem'[d].frame = mem[r].frame
          PROVE  /\ mem[r].frame.slot # 0 => mem[r].frame.cmd # NoCmd
                 /\ mem[r].frame.slot # d + 1
      BY <1>4, <1>5, <3>1, <3>3
    <3> QED
      BY <1>2, <1>7, <2>4, <3>1, <3>2, <3>3
  <2> QED
    BY <2>3, <2>4
<1> QED
  BY <1>6, <1>7

LEMMA KeepsLockstep ==
    ASSUME LinkInv, [Next]_vars
    PROVE  Lockstep' /\ FramesFit'
<1>0. mem \in [Entry -> Memory] /\ NoFrame \in Frame /\ NoFrame.slot = 0
  BY DEF LinkInv, TypeOK, Memory, NoFrame, Frame
<1>1. ASSUME NEW t \in Caller, sendInterface(t) PROVE Lockstep' /\ FramesFit'
  <2>0. cmd[t] # NoCmd /\ cmd[t] \in Cmd
    BY <1>1 DEF sendInterface, LinkInv, Numbered, Fresh, NoCmd, Cmd
  <2>1. CASE UNCHANGED <<table, counts>>
    BY <2>1 DEF table, counts, LinkInv, Lockstep, FramesFit
  <2>2. ASSUME NEW s \in Slot, NEW e \in Entry, allocSession(s),
               allocMemory(e, [slot |-> s, cmd |-> cmd[t]], TRUE),
               tab' = [tab EXCEPT ![s] = [used |-> TRUE, cmd |-> cmd[t], sent |-> 1, entry |-> e]],
               Transmits([slot |-> s, cmd |-> cmd[t]])
        PROVE  Lockstep' /\ FramesFit'
    <3> DEFINE f == [slot |-> s, cmd |-> cmd[t]]
    <3>0. f \in Frame /\ f.slot = s /\ f.cmd = cmd[t] /\ allocMemory(e, f, TRUE)
          /\ Transmits(f)
      BY <2>0, <2>2 DEF Frame
    <3> HIDE DEF f
    <3>1. /\ ~mem[e].used /\ \A d \in FreeEntries : e <= d
          /\ mem'[e].used /\ \A d \in Entry \ {e} : mem'[d].used <=> mem[d].used
      BY <1>0, <3>0, Laid
    <3>2. e = s - 1 /\ s = e + 1 /\ s # 0
      BY <2>2, <3>1, AllocatesTogether, Constants
    <3>3. /\ \A r \in Slot \ {s} : tab'[r] = tab[r]
          /\ tab'[s].used /\ tab'[s].cmd = cmd[t] /\ tab'[s].entry = e
      BY <2>2 DEF LinkInv, TypeOK
    <3>4. \A d \in Entry : d + 1 = s <=> d = e
      BY <3>2, Constants
    <3>5. Lockstep'
      <4>1. ASSUME NEW d \in Entry PROVE mem'[d].used <=> (d + 1 \in Slot /\ tab'[d + 1].used)
        <5>1. CASE d = e
          BY <5>1, <3>1, <3>2, <3>3
        <5>2. CASE d # e
          BY <5>2, <3>1, <3>3, <3>4 DEF LinkInv, Lockstep
        <5> QED
          BY <5>1, <5>2
      <4>2. \A r \in Slot : /\ tab'[r].used => tab'[r].cmd # NoCmd
                            /\ tab'[r].cmd # NoCmd => tab'[r].entry = r - 1
        BY <2>0, <3>2, <3>3 DEF LinkInv, Lockstep
      <4> QED
        BY <4>1, <4>2 DEF Lockstep
    <3>6. \A d \in Entry : LET h == mem'[d].frame IN
            /\ h.slot # 0 => h.cmd # NoCmd
            /\ h.slot = d + 1 => h.cmd = tab'[d + 1].cmd
            /\ mem'[d].used => h.slot = d + 1
      BY <2>0, <3>0, <3>2, <3>3, LaidFits
    <3>7. \A h \in line' : h.slot # 0 => h.cmd # NoCmd
      BY <2>0, <3>0 DEF LinkInv, FramesFit, Transmits
    <3> QED
      BY <3>5, <3>6, <3>7 DEF FramesFit
  <2> QED
    BY <1>1, <2>1, <2>2 DEF sendInterface
<1>2. CASE SetpointSends
  <2>1. PICK e \in Entry : allocMemory(e, NoFrame, FALSE)
    BY <1>2 DEF SetpointSends
  <2>2. UNCHANGED <<tab, line>>
    BY <1>2 DEF SetpointSends, counts
  <2>3. \A d \in Entry : mem'[d].used <=> mem[d].used
    <3>1. ~mem[e].used /\ ~mem'[e].used
      BY <1>0, <2>1, Laid
    <3> QED
      BY <1>0, <2>1, <3>1, Laid
  <2>4. Lockstep'
    BY <2>2, <2>3 DEF LinkInv, Lockstep
  <2>5. \A d \in Entry : LET h == mem'[d].frame IN
          /\ h.slot # 0 => h.cmd # NoCmd
          /\ h.slot = d + 1 => h.cmd = tab'[d + 1].cmd
          /\ mem'[d].used => h.slot = d + 1
    <3>1. e + 1 # 0 /\ ~(NoFrame.slot = e + 1)
      BY <1>0, Constants DEF Entry
    <3> QED
      BY <1>0, <2>1, <2>2, <3>1, LaidFits
  <2>6. FramesFit'
    BY <2>2, <2>5 DEF LinkInv, FramesFit
  <2> QED
    BY <2>4, <2>6
<1>3. CASE PollLocked
  <2>1. ppc \in Slot /\ tab[ppc].cmd # NoCmd
    BY <1>3 DEF PollLocked, LinkInv, TypeOK, Found
  <2>2. CASE tab[ppc].sent >= Retry
    BY <1>3, <2>1, <2>2, FreeKeeps DEF PollLocked, counts
  <2>3. CASE ~(tab[ppc].sent >= Retry)
    <3>1. /\ UNCHANGED mem /\ line' = line \cup {mem[tab[ppc].entry].frame}
          /\ tab' = [tab EXCEPT ![ppc].sent = @ + 1]
      BY <1>3, <2>3 DEF PollLocked, Resend, Transmits
    <3>2. \A s \in Slot : /\ tab'[s].used = tab[s].used /\ tab'[s].cmd = tab[s].cmd
                          /\ tab'[s].entry = tab[s].entry
      BY <3>1 DEF LinkInv, TypeOK
    <3>3. mem[tab[ppc].entry].frame.slot # 0 => mem[tab[ppc].entry].frame.cmd # NoCmd
      BY <2>1, EntryOf
    <3>4. Lockstep'
      BY <3>1, <3>2 DEF LinkInv, Lockstep
    <3>5. \A e \in Entry : mem[e].frame.slot = e + 1 => e + 1 \in Slot
      BY <1>0, Constants DEF Memory, Frame
    <3>6. FramesFit'
      BY <3>1, <3>2, <3>3, <3>5 DEF LinkInv, FramesFit
    <3> QED
      BY <3>4, <3>6
  <2> QED
    BY <2>2, <2>3
<1>4. CASE ReaderLocks
  <2>1. rcv.slot \in Slot /\ UNCHANGED line
    BY <1>4 DEF ReaderLocks, LinkInv, TypeOK, Found, counts
  <2>2. freeSession(rcv.slot) \/ UNCHANGED table
    BY <1>4 DEF ReaderLocks
  <2>3. CASE UNCHANGED table
    BY <2>1, <2>3 DEF table, LinkInv, Lockstep, FramesFit
  <2> QED
    BY <2>1, <2>2, <2>3, FreeKeeps
<1>5. CASE UNCHANGED <<tab, mem, line, sends, late>>
  BY <1>5 DEF LinkInv, Lockstep, FramesFit
<1> QED
  BY <1>1, <1>2, <1>3, <1>4, <1>5, TableSteps

(* New frames are sent as they are laid, and the others were there before.  *)
LEMMA LaidSent ==
    ASSUME LinkInv, NEW e \in Entry, NEW f \in Frame, NEW u \in BOOLEAN, allocMemory(e, f, u),
           \A c \in Cmd : sends[c] > 0 => sends'[c] > 0, f.cmd \in Cmd => sends'[f.cmd] > 0
    PROVE  FramesSent'
<1>1. mem \in [Entry -> Memory]
  BY DEF LinkInv, TypeOK, Memory
<1>2. \A d \in Entry : \/ mem'[d].frame \in {f, NoFrame}
                        \/ \E r \in Entry : mem'[d].frame = mem[r].frame
  BY <1>1, Laid
<1>3. NoFrame.cmd \notin Cmd
  BY Constants DEF NoFrame
<1> QED
  BY <1>2, <1>3 DEF LinkInv, FramesSent

LEMMA KeepsSent ==
    ASSUME LinkInv, [Next]_vars
    PROVE  FramesSent'
<1>0. sends \in [{NoCmd} \cup Cmd -> Nat] /\ NoFrame \in Frame /\ NoFrame.cmd \notin Cmd
  BY Constants DEF LinkInv, TypeOK, NoFrame, Frame
<1>1. ASSUME NEW f \in Frame, Transmits(f)
      PROVE  /\ \A c \in Cmd : sends[c] > 0 => sends'[c] > 0
             /\ f.cmd \in Cmd => sends'[f.cmd] > 0
  BY <1>0, <1>1 DEF Transmits
<1>2. ASSUME UNCHANGED mem, \A c \in Cmd : sends[c] > 0 => sends'[c] > 0 PROVE FramesSent'
  BY <1>2 DEF LinkInv, FramesSent
<1>3. ASSUME NEW s \in Slot, freeSession(s), UNCHANGED sends PROVE FramesSent'
  <2>1. \A e \in Entry : mem'[e].frame = mem[e].frame
    BY <1>3 DEF freeSession, table, LinkInv, TypeOK
  <2> QED
    BY <1>3, <2>1 DEF LinkInv, FramesSent
<1>4. ASSUME NEW t \in Caller, sendInterface(t) PROVE FramesSent'
  <2>1. CASE UNCHANGED <<table, counts>>
    BY <1>2, <2>1 DEF table, counts
  <2>2. ASSUME NEW s \in Slot, NEW e \in Entry,
               allocMemory(e, [slot |-> s, cmd |-> cmd[t]], TRUE),
               Transmits([slot |-> s, cmd |-> cmd[t]])
        PROVE  FramesSent'
    <3> DEFINE f == [slot |-> s, cmd |-> cmd[t]]
    <3>1. f \in Frame /\ allocMemory(e, f, TRUE) /\ Transmits(f)
      BY <2>2 DEF LinkInv, TypeOK, Frame
    <3> HIDE DEF f
    <3> QED
      BY <1>1, <3>1, LaidSent
  <2> QED
    BY <1>4, <2>1, <2>2 DEF sendInterface
<1>5. CASE SetpointSends
  BY <1>0, <1>5, LaidSent DEF SetpointSends, counts
<1>6. CASE PollLocked
  <2>1. ppc \in Slot /\ tab[ppc].cmd # NoCmd
    BY <1>6 DEF PollLocked, LinkInv, TypeOK, Found
  <2>2. CASE tab[ppc].sent >= Retry
    BY <1>3, <1>6, <2>1, <2>2 DEF PollLocked, counts
  <2>3. CASE ~(tab[ppc].sent >= Retry)
    <3>1. Transmits(mem[tab[ppc].entry].frame) /\ UNCHANGED mem
      BY <1>6, <2>3 DEF PollLocked, Resend
    <3> QED
      BY <1>1, <1>2, <2>1, <3>1, EntryOf
  <2> QED
    BY <2>2, <2>3
<1>7. CASE ReaderLocks
  <2>1. rcv.slot \in Slot /\ UNCHANGED sends
    BY <1>7 DEF ReaderLocks, LinkInv, TypeOK, Found, counts
  <2>2. freeSession(rcv.slot) \/ UNCHANGED mem
    BY <1>7 DEF ReaderLocks, table
  <2> QED
    BY <1>2, <1>3, <2>1, <2>2
<1>8. CASE UNCHANGED <<tab, mem, line, sends, late>>
  BY <1>2, <1>8
<1> QED
  BY <1>4, <1>5, <1>6, <1>7, <1>8, TableSteps

-----------------------------------------------------------------------------
LEMMA KeepsDistinct ==
    ASSUME LinkInv, [Next]_vars
    PROVE  Distinct'
<1> USE Constants
<1>1. ASSUME NEW t \in Caller, sendInterface(t) PROVE Distinct'
  <2>1. CASE UNCHANGED <<table, counts>>
    BY <2>1 DEF table, LinkInv, Distinct
  <2>2. ASSUME NEW s \in Slot, NEW e \in Entry,
               tab' = [tab EXCEPT ![s] = [used |-> TRUE, cmd |-> cmd[t], sent |-> 1, entry |-> e]]
        PROVE  Distinct'
    <3>1. \A r \in Slot : tab'[r].cmd = IF r = s THEN cmd[t] ELSE tab[r].cmd
      BY <2>2 DEF LinkInv, TypeOK
    <3>2. \A r \in Slot : tab[r].cmd # cmd[t]
      BY <1>1 DEF sendInterface, LinkInv, Numbered, Fresh
    <3> QED
      BY <3>1, <3>2 DEF LinkInv, Distinct
  <2> QED
    BY <1>1, <2>1, <2>2 DEF sendInterface
<1>2. CASE \A s \in Slot : tab'[s].cmd = tab[s].cmd
  BY <1>2 DEF LinkInv, Distinct
<1> QED
  BY <1>1, <1>2, CmdsStay, TableSteps

(* A command ceases to be fresh only when send transmits its frame.         *)
LEMMA FreshStays ==
    ASSUME LinkInv, PollLocked \/ ReaderLocks
    PROVE  Fresh \subseteq Fresh' /\ UNCHANGED <<ncmd, cpc, cmd>>
<1> USE Constants
<1>1. CASE PollLocked
  <2>1. ppc \in Slot /\ tab[ppc].cmd # NoCmd /\ UNCHANGED <<ncmd, cpc, cmd, acked>>
    BY <1>1 DEF PollLocked, LinkInv, TypeOK, Found, calls, reader
  <2> DEFINE b == mem[tab[ppc].entry].frame.cmd
  <2>2. sends' = sends \/ sends' = [sends EXCEPT ![b] = @ + 1]
    BY <1>1 DEF PollLocked, Resend, Transmits, counts
  <2>3. b \in Cmd => sends[b] > 0
    BY <2>1 DEF LinkInv, TypeOK, FramesSent
  <2> HIDE DEF b
  <2>4. \A c \in Fresh : sends'[c] = sends[c]
    BY <2>2, <2>3 DEF Fresh, LinkInv, TypeOK
  <2> QED
    BY <1>1, <2>1, <2>4, CmdsStay DEF Fresh
<1>2. CASE ReaderLocks
  <2>1. rcv.slot \in Slot /\ UNCHANGED <<ncmd, cpc, cmd, sends>>
    BY <1>2 DEF ReaderLocks, LinkInv, TypeOK, Found, calls, counts
  <2>2. acked' = acked \/ acked' = [acked EXCEPT ![tab[rcv.slot].cmd] = @ + 1]
    BY <1>2 DEF ReaderLocks
  <2>3. \A c \in Fresh : acked'[c] = acked[c]
    BY <2>1, <2>2 DEF Fresh, LinkInv, TypeOK
  <2> QED
    BY <1>2, <2>1, <2>3, CmdsStay DEF Fresh
<1> QED
  BY <1>1, <1>2

LEMMA KeepsNumbered ==
    ASSUME LinkInv, [Next]_vars
    PROVE  Numbered'
<1> USE Constants
<1>1. ASSUME NEW t \in Caller, NEW q \in {"blocking", "callback"}, Encode(t, q)
      PROVE  Numbered'
  <2>1. /\ ncmd < MaxCmd /\ ncmd' = ncmd + 1 /\ UNCHANGED <<tab, sends, acked>>
        /\ cmd' = [cmd EXCEPT ![t] = ncmd'] /\ cpc' = [cpc EXCEPT ![t] = "encoded"]
    BY <1>1 DEF Encode, table, counts, reader
  <2>2. ncmd' \in Cmd /\ ncmd' > ncmd
    BY <2>1 DEF LinkInv, TypeOK, Cmd
  <2>3. /\ \A u \in Caller : /\ cmd'[u] = IF u = t THEN ncmd' ELSE cmd[u]
                            /\ cpc'[u] = IF u = t THEN "encoded" ELSE cpc[u]
    BY <2>1 DEF LinkInv, TypeOK
  <2>4. \A c \in Cmd : c > ncmd' => c > ncmd /\ c # ncmd'
    BY <2>1, <2>2 DEF LinkInv, TypeOK
  <2>5. Fresh' = Fresh
    BY <2>1 DEF Fresh
  <2>6. ncmd' \in Fresh /\ \A u \in Caller : cmd[u] # ncmd'
    BY <2>2 DEF LinkInv, Numbered
  <2> QED
    BY <2>1, <2>2, <2>3, <2>4, <2>5, <2>6 DEF LinkInv, Numbered
<1>2. ASSUME NEW t \in Caller, sendInterface(t) PROVE Numbered'
  <2>1. cpc[t] = "encoded" /\ UNCHANGED <<ncmd, acked>>
    BY <1>2 DEF sendInterface, reader
  <2>1a. cpc'[t] # "encoded" /\ cmd'[t] \in {NoCmd, cmd[t]}
    BY <1>2 DEF sendInterface, AfterSend, LinkInv, TypeOK
  <2>1b. \A u \in Caller \ {t} : cpc'[u] = cpc[u] /\ cmd'[u] = cmd[u]
    BY <1>2 DEF sendInterface, LinkInv, TypeOK
  <2>2. Fresh \ {cmd[t]} \subseteq Fresh'
    <3>1. CASE UNCHANGED <<table, counts>>
      BY <2>1, <3>1 DEF table, counts, Fresh
    <3>2. ASSUME NEW s \in Slot, NEW e \in Entry,
                 tab' = [tab EXCEPT ![s] = [used |-> TRUE, cmd |-> cmd[t], sent |-> 1, entry |-> e]],
                 Transmits([slot |-> s, cmd |-> cmd[t]])
          PROVE  Fresh \ {cmd[t]} \subseteq Fresh'
      <4>1. \A r \in Slot : tab'[r].cmd = IF r = s THEN cmd[t] ELSE tab[r].cmd
        BY <3>2 DEF LinkInv, TypeOK
      <4>2. \A c \in Cmd \ {cmd[t]} : sends'[c] = sends[c]
        BY <3>2 DEF Transmits, LinkInv, TypeOK
      <4> QED
        BY <2>1, <4>1, <4>2 DEF Fresh
    <3> QED
      BY <1>2, <3>1, <3>2 DEF sendInterface
  <2>3. \A c \in Cmd : c > ncmd' => c \in Fresh' /\ \A u \in Caller : cmd'[u] # c
    <3> SUFFICES ASSUME NEW c \in Cmd, c > ncmd
                 PROVE  c \in Fresh' /\ \A u \in Caller : cmd'[u] # c
      BY <2>1
    <3>1. c \in Fresh /\ \A u \in Caller : cmd[u] # c
      BY DEF LinkInv, Numbered
    <3>2. c # NoCmd
      OBVIOUS
    <3> QED
      BY <2>1a, <2>1b, <2>2, <3>1, <3>2
  <2>4. ASSUME NEW u \in Caller, cpc'[u] = "encoded"
        PROVE  /\ cmd'[u] \in Fresh'
               /\ \A v \in Caller \ {u} : cpc'[v] = "encoded" => cmd'[v] # cmd'[u]
    <3>1. u # t /\ cpc[u] = "encoded" /\ cmd'[u] = cmd[u]
      BY <2>1a, <2>1b, <2>4
    <3>2. /\ cmd[u] \in Fresh /\ cmd[u] # cmd[t]
          /\ \A v \in Caller \ {u} : cpc[v] = "encoded" => cmd[v] # cmd[u]
      BY <2>1, <3>1 DEF LinkInv, Numbered
    <3> QED
      BY <2>1a, <2>1b, <2>2, <3>1, <3>2
  <2> QED
    BY <2>3, <2>4 DEF Numbered
<1>3. CASE PollLocked \/ ReaderLocks
  BY <1>3, FreshStays DEF LinkInv, Numbered
<1>5. ASSUME UNCHANGED <<ncmd, tab, sends, acked>>,
             \A u \in Caller : cmd'[u] = NoCmd \/ cmd'[u] = cmd[u],
             \A u \in Caller : cpc'[u] = "encoded" => cpc[u] = "encoded" /\ cmd'[u] = cmd[u]
      PROVE  Numbered'
  <2>1. Fresh' = Fresh
    BY <1>5 DEF Fresh
  <2>2. \A c \in Cmd : c > ncmd' => c \in Fresh' /\ \A t \in Caller : cmd'[t] # c
    <3> SUFFICES ASSUME NEW c \in Cmd, c > ncmd
                 PROVE  c \in Fresh' /\ \A t \in Caller : cmd'[t] # c
      BY <1>5
    <3>1. c \in Fresh /\ \A t \in Caller : cmd[t] # c
      BY DEF LinkInv, Numbered
    <3>2. c # NoCmd
      OBVIOUS
    <3>3. \A t \in Caller : cmd'[t] = NoCmd \/ cmd'[t] = cmd[t]
      BY <1>5
    <3> QED
      BY <2>1, <3>1, <3>2, <3>3
  <2>3. ASSUME NEW t \in Caller, cpc'[t] = "encoded"
        PROVE  /\ cmd'[t] \in Fresh'
               /\ \A u \in Caller \ {t} : cpc'[u] = "encoded" => cmd'[u] # cmd'[t]
    <3>1. /\ cpc[t] = "encoded" /\ cmd'[t] = cmd[t]
          /\ \A u \in Caller : cpc'[u] = "encoded" => cpc[u] = "encoded" /\ cmd'[u] = cmd[u]
      BY <1>5, <2>3
    <3>2. /\ cmd[t] \in Fresh
          /\ \A u \in Caller \ {t} : cpc[u] = "encoded" => cmd[u] # cmd[t]
      BY <3>1 DEF LinkInv, Numbered
    <3> QED
      BY <2>1, <3>1, <3>2
  <2> QED
    BY <2>2, <2>3 DEF Numbered
<1>6. ASSUME NEW t \in Caller, NEW from, NEW to, Moves(t, from, to), to # "encoded",
             cmd' = cmd \/ cmd' = [cmd EXCEPT ![t] = NoCmd]
      PROVE  Numbered'
  <2>1. UNCHANGED <<ncmd, tab, sends, acked>>
    BY <1>6 DEF Moves, table, counts, reader
  <2>2. \A u \in Caller : cmd'[u] = NoCmd \/ cmd'[u] = cmd[u]
    BY <1>6 DEF Moves, LinkInv, TypeOK
  <2>3. \A u \in Caller : cpc'[u] = "encoded" => cpc[u] = "encoded" /\ cmd'[u] = cmd[u]
    BY <1>6 DEF Moves, LinkInv, TypeOK
  <2> QED
    BY <1>5, <2>1, <2>2, <2>3
<1>7. ASSUME NEW t \in Caller, waitForACK(t) \/ WaitTimesOut(t) \/ CopiesInfo(t)
                               \/ CopiesData(t) \/ Responds(t)
      PROVE  Numbered'
  BY <1>6, <1>7 DEF waitForACK, WaitTimesOut, CopiesInfo, CopiesData, Responds
<1>8. CASE Notifies
  <2>1. UNCHANGED <<ncmd, tab, sends, acked, cmd>>
    BY <1>8 DEF Notifies, ReaderEnds, table, counts
  <2>2. \A u \in Caller : cpc'[u] = "encoded" => cpc[u] = "encoded"
    BY <1>8 DEF Notifies, LinkInv, TypeOK
  <2> QED
    BY <1>5, <2>1, <2>2
<1>9. CASE UNCHANGED <<ncmd, tab, sends, acked, cmd, cpc>>
  BY <1>5, <1>9
<1>10. ASSUME NEW t \in Caller, Call(t) \/ Again(t) PROVE Numbered'
  BY <1>1, <1>10 DEF Call, Again
<1>11. ASSUME SetpointSends \/ (\E s \in Slot : PollDue(s)) \/ (\E f \in line : AckArrives(f))
              \/ DispatchesCallback \/ HandlesInfo \/ HandlesData \/ CallsBack \/ UNCHANGED vars
       PROVE  UNCHANGED <<ncmd, tab, sends, acked, cmd, cpc>>
  BY <1>11 DEF SetpointSends, PollDue, AckArrives, DispatchesCallback, HandlesInfo, HandlesData,
               CallsBack, ReaderEnds, vars, calls, table, counts, reader
<1> QED
  BY <1>2, <1>3, <1>7, <1>8, <1>9, <1>10, <1>11 DEF Next, CallerStep, PollStep, ReaderStep

LEMMA KeepsCounted ==
    ASSUME LinkInv, [Next]_vars
    PROVE  Counted'
<1> USE Constants
<1>1. ASSUME NEW t \in Caller, sendInterface(t) PROVE Counted'
  <2>1. UNCHANGED acked /\ cmd[t] \in Fresh /\ cmd[t] \in Cmd
    BY <1>1 DEF sendInterface, reader, LinkInv, Numbered, Fresh
  <2>2. CASE UNCHANGED <<table, counts>>
    BY <2>1, <2>2 DEF table, counts, LinkInv, Counted
  <2>2a. late' = late
    BY <1>1 DEF sendInterface, counts
  <2>3. ASSUME NEW s \in Slot, NEW e \in Entry,
               tab' = [tab EXCEPT ![s] = [used |-> TRUE, cmd |-> cmd[t], sent |-> 1, entry |-> e]],
               Transmits([slot |-> s, cmd |-> cmd[t]])
        PROVE  Counted'
    <3>1. /\ \A c \in Cmd : sends'[c] = IF c = cmd[t] THEN 1 ELSE sends[c]
          /\ acked[cmd[t]] = 0
      BY <2>1, <2>3 DEF Transmits, Fresh, LinkInv, TypeOK
    <3>2. /\ \A r \in Slot \ {s} : tab'[r] = tab[r] /\ tab[r].cmd # cmd[t]
          /\ tab'[s] = [used |-> TRUE, cmd |-> cmd[t], sent |-> 1, entry |-> e]
      BY <2>1, <2>3 DEF Fresh, LinkInv, TypeOK
    <3>3. \A c \in Cmd : sends'[c] <= Retry + Alien(late, c) /\ acked'[c] <= 1
      <4>1. \A c \in Cmd : 1 <= Retry + Alien(late, c)
        BY AlienNat
      <4>2. \A c \in Cmd : sends[c] <= Retry + Alien(late, c) /\ acked[c] <= 1
        BY DEF LinkInv, Counted
      <4> QED
        BY <2>1, <3>1, <4>1, <4>2
    <3>4. \A r \in Slot : tab[r].cmd # NoCmd => tab[r].cmd \in Cmd
      BY DEF LinkInv, TypeOK
    <3>5. \A r \in Slot : tab'[r].cmd # NoCmd =>
            sends'[tab'[r].cmd] <= tab'[r].sent + Alien(late, tab'[r].cmd)
      <4>1. tab'[s].cmd = cmd[t] /\ tab'[s].sent = 1 /\ sends'[cmd[t]] = 1
        <5>1. tab'[s].cmd = cmd[t] /\ tab'[s].sent = 1
          BY <3>2
        <5> QED
          BY <2>1, <3>1, <5>1
      <4>2. ASSUME NEW r \in Slot \ {s}, tab'[r].cmd # NoCmd
            PROVE  sends'[tab'[r].cmd] <= tab'[r].sent + Alien(late, tab'[r].cmd)
        <5>1. tab'[r] = tab[r] /\ tab[r].cmd # cmd[t] /\ tab[r].cmd \in Cmd
          BY <3>2, <3>4, <4>2
        <5>2. sends[tab[r].cmd] <= tab[r].sent + Alien(late, tab[r].cmd)
          BY <4>2, <5>1 DEF LinkInv, Counted
        <5> QED
          BY <3>1, <5>1, <5>2
      <4>3. 1 <= 1 + Alien(late, cmd[t])
        BY AlienNat
      <4> QED
        BY <4>1, <4>2, <4>3
    <3>6. \A r \in Slot : tab'[r].used => acked'[tab'[r].cmd] = 0
      <4>1. tab'[s].cmd = cmd[t]
        BY <3>2
      <4>2. ASSUME NEW r \in Slot \ {s}, tab'[r].used PROVE acked[tab'[r].cmd] = 0
        <5>1. tab'[r] = tab[r]
          BY <3>2
        <5> QED
          BY <4>2, <5>1 DEF LinkInv, Counted
      <4> QED
        BY <2>1, <3>1, <4>1, <4>2
    <3> QED
      BY <2>2a, <3>3, <3>5, <3>6 DEF Counted
  <2> QED
    BY <1>1, <2>2, <2>3 DEF sendInterface
<1>2. ASSUME NEW s \in Slot, freeSession(s), UNCHANGED <<sends, late, acked>> PROVE Counted'
  <2>1. \A r \in Slot : /\ tab'[r].cmd = tab[r].cmd /\ tab'[r].sent = tab[r].sent
                        /\ tab'[r].used => tab[r].used
    BY <1>2, FreeLeaves DEF LinkInv, TypeOK, Session
  <2> QED
    BY <1>2, <2>1 DEF LinkInv, Counted
<1>3. CASE PollLocked
  <2>1. ppc \in Slot /\ tab[ppc].cmd \in Cmd /\ UNCHANGED acked
    BY <1>3 DEF PollLocked, LinkInv, TypeOK, Found, reader
  <2>2. CASE tab[ppc].sent >= Retry
    BY <1>2, <1>3, <2>1, <2>2 DEF PollLocked, counts
  <2>3. CASE ~(tab[ppc].sent >= Retry)
    <3> DEFINE own == tab[ppc].cmd
               b == mem[tab[ppc].entry].frame.cmd
    <3>1. /\ sends' = [sends EXCEPT ![b] = @ + 1]
          /\ tab' = [tab EXCEPT ![ppc].sent = @ + 1]
          /\ late' = IF tab[ppc].used THEN late ELSE [late EXCEPT ![own] = @ + 1]
      BY <1>3, <2>3 DEF PollLocked, Resend, Transmits
    <3>2. /\ b \in {NoCmd} \cup Cmd /\ own \in Cmd /\ late[own] = 0
          /\ tab[ppc].used => b = own
      BY <2>1, EntryOf DEF LinkInv, LateFew, Frame
    <3>3. /\ \A r \in Slot : tab'[r].cmd = tab[r].cmd /\ (tab'[r].used <=> tab[r].used)
          /\ \A r \in Slot \ {ppc} : tab'[r].sent = tab[r].sent
          /\ tab'[ppc].sent = tab[ppc].sent + 1
      BY <2>1, <3>1 DEF LinkInv, TypeOK
    <3>4. /\ late \in [{NoCmd} \cup Cmd -> Nat] /\ sends \in [{NoCmd} \cup Cmd -> Nat]
          /\ tab[ppc].sent \in Nat /\ tab[ppc].sent < Retry
      BY <2>1, <2>3 DEF LinkInv, TypeOK
    <3>4a. \A r \in Slot \ {ppc} : tab[r].sent \in Nat
      BY DEF LinkInv, TypeOK
    <3>4b. \A c \in Cmd : /\ sends[c] \in Nat /\ sends'[c] \in Nat
                          /\ Alien(late, c) \in Nat /\ Alien(late', c) \in Nat
      BY <3>1, <3>2, <3>4, AlienNat
    <3> HIDE DEF own, b
    (* A frame goes out from its own session, or from another's that has      *)
    (* ended and not been sent from since.                                    *)
    <3>5. ASSUME NEW c \in Cmd, c # own
          PROVE  sends'[c] + Alien(late, c) <= sends[c] + Alien(late', c)
      <4>1. sends'[c] = IF b = c THEN sends[c] + 1 ELSE sends[c]
        BY <3>1, <3>4
      <4>2. CASE tab[ppc].used
        BY <3>1, <3>2, <3>4b, <3>5, <4>1, <4>2
      <4>3. CASE ~tab[ppc].used
        <5>1. /\ late[own] = 0 /\ late'[own] = 1
              /\ \A a \in Cmd : a # own => late'[a] = late[a]
          BY <3>1, <3>2, <3>4, <4>3
        <5>2. Alien(late', c) = Alien(late, c) + 1
          BY <3>2, <3>5, <5>1, AlienAdds
        <5> QED
          BY <3>4b, <4>1, <5>2
      <4> QED
        BY <4>2, <4>3
    <3>6. sends'[own] <= sends[own] + 1 /\ Alien(late, own) <= Alien(late', own)
      <4>1. sends'[own] = IF b = own THEN sends[own] + 1 ELSE sends[own]
        BY <3>1, <3>2, <3>4
      <4>2. \A d \in Cmd : late[d] > 0 => late'[d] > 0
        BY <3>1, <3>2, <3>4
      <4> QED
        BY <3>2, <3>4b, <4>1, <4>2, AlienGrows
    <3>7. /\ \A c \in Cmd : sends[c] <= Retry + Alien(late, c) /\ acked[c] <= 1
          /\ sends[own] <= tab[ppc].sent + Alien(late, own)
      BY <2>1 DEF LinkInv, Counted, own
    <3>8. \A c \in Cmd : sends'[c] <= Retry + Alien(late', c) /\ acked'[c] <= 1
      BY <2>1, <3>2, <3>4, <3>4b, <3>5, <3>6, <3>7
    <3>9. \A r \in Slot : tab'[r].cmd # NoCmd =>
            sends'[tab'[r].cmd] <= tab'[r].sent + Alien(late', tab'[r].cmd)
      <4>1. sends'[own] <= tab[ppc].sent + 1 + Alien(late', own)
        BY <3>2, <3>4, <3>4b, <3>6, <3>7
      <4>1a. tab'[ppc].sent = tab[ppc].sent + 1 /\ tab'[ppc].cmd = own
        BY <2>1, <3>3 DEF own
      <4>2. ASSUME NEW r \in Slot \ {ppc}, tab[r].cmd # NoCmd
            PROVE  sends'[tab[r].cmd] <= tab[r].sent + Alien(late', tab[r].cmd)
        <5>1. tab[r].cmd \in Cmd /\ tab[r].cmd # own
          BY <2>1, <4>2 DEF LinkInv, Distinct, TypeOK, own
        <5>2. sends[tab[r].cmd] <= tab[r].sent + Alien(late, tab[r].cmd)
          BY <4>2 DEF LinkInv, Counted
        <5> DEFINE c == tab[r].cmd
        <5>3. sends'[c] + Alien(late, c) <= sends[c] + Alien(late', c)
          BY <3>5, <5>1
        <5>4. /\ sends[c] \in Nat /\ sends'[c] \in Nat /\ tab[r].sent \in Nat
              /\ Alien(late, c) \in Nat /\ Alien(late', c) \in Nat
          BY <3>4a, <3>4b, <5>1
        <5> QED
          BY <5>2, <5>3, <5>4
      <4> QED
        BY <3>3, <4>1, <4>1a, <4>2
    <3>10. \A r \in Slot : tab'[r].used => acked'[tab'[r].cmd] = 0
      BY <2>1, <3>3 DEF LinkInv, Counted
    <3> QED
      BY <3>8, <3>9, <3>10 DEF Counted
  <2> QED
    BY <2>2, <2>3
<1>4. CASE ReaderLocks
  <2>1. rcv.slot \in Slot /\ UNCHANGED <<sends, late>>
    BY <1>4 DEF ReaderLocks, LinkInv, TypeOK, Found, counts
  <2> DEFINE own == tab[rcv.slot].cmd
  <2>2. own \in Cmd /\ acked[own] = 0
    BY <1>4, <2>1 DEF ReaderLocks, LinkInv, Found, TypeOK
  <2>3. CASE UNCHANGED <<acked, table>>
    BY <2>1, <2>3 DEF table, LinkInv, Counted
  <2>4. CASE freeSession(rcv.slot) /\ acked' = [acked EXCEPT ![own] = @ + 1]
    <3>1. \A r \in Slot : /\ tab'[r].cmd = tab[r].cmd /\ tab'[r].sent = tab[r].sent
                          /\ tab'[r].used => tab[r].used /\ r # rcv.slot
      <4>1. CASE tab[rcv.slot].used
        <5>1. tab' = [tab EXCEPT ![rcv.slot].used = FALSE]
          BY <2>4, <4>1 DEF freeSession
        <5> QED
          BY <2>1, <5>1 DEF LinkInv, TypeOK
      <4>2. CASE ~tab[rcv.slot].used
        BY <2>4, <4>2 DEF freeSession, table
      <4> QED
        BY <4>1, <4>2
    <3>2. /\ acked'[own] = 1
          /\ \A c \in Cmd \ {own} : acked'[c] = acked[c]
      BY <2>2, <2>4 DEF LinkInv, TypeOK
    <3>3. \A r \in Slot : tab[r].used /\ r # rcv.slot => tab[r].cmd \in Cmd \ {own}
      <4>1. \A r \in Slot : tab[r].used => tab[r].cmd # NoCmd
        BY DEF LinkInv, Lockstep
      <4>2. \A r \in Slot : tab[r].cmd # NoCmd => tab[r].cmd \in Cmd
        BY DEF LinkInv, TypeOK
      <4>3. \A r \in Slot : r # rcv.slot /\ tab[r].cmd # NoCmd => tab[r].cmd # own
        BY <2>1 DEF LinkInv, Distinct
      <4> QED
        BY <4>1, <4>2, <4>3
    <3> QED
      <4>1. \A c \in Cmd : sends'[c] <= Retry + Alien(late', c) /\ acked'[c] <= 1
        BY <2>1, <3>2 DEF LinkInv, Counted
      <4>2. \A r \in Slot : tab'[r].cmd # NoCmd =>
              sends'[tab'[r].cmd] <= tab'[r].sent + Alien(late', tab'[r].cmd)
        BY <2>1, <3>1 DEF LinkInv, Counted
      <4>3. ASSUME NEW r \in Slot, tab'[r].used PROVE acked'[tab'[r].cmd] = 0
        <5>1. tab'[r].cmd = tab[r].cmd /\ tab[r].used /\ tab[r].cmd \in Cmd \ {own}
          BY <3>1, <3>3, <4>3
        <5>2. acked[tab[r].cmd] = 0
          BY <5>1 DEF LinkInv, Counted
        <5> QED
          BY <3>2, <5>1, <5>2
      <4> QED
        BY <4>1, <4>2, <4>3 DEF Counted
  <2> QED
    BY <1>4, <2>3, <2>4 DEF ReaderLocks
<1>5. CASE UNCHANGED <<tab, sends, late, acked>>
  BY <1>5 DEF LinkInv, Counted
<1>6. CASE SetpointSends
  BY <1>5, <1>6 DEF SetpointSends, counts, reader
<1>7. CASE UNCHANGED <<tab, mem, line, sends, late>> /\ ~ReaderLocks
  <2>1. UNCHANGED acked
    BY <1>7 DEF Next, vars, CallerStep, PollStep, ReaderStep, Call, Encode, sendInterface, waitForACK, Moves,
         WaitTimesOut, CopiesInfo, CopiesData, Again, Responds, SetpointSends, PollDue, ReaderEnds,
         PollLocked, AckArrives, DispatchesCallback, HandlesInfo, HandlesData, Notifies, CallsBack,
         calls, table, counts, reader
  <2> QED
    BY <1>5, <1>7, <2>1
<1> QED
  BY <1>1, <1>3, <1>4, <1>6, <1>7, TableSteps

LEMMA KeepsFound ==
    ASSUME LinkInv, [Next]_vars
    PROVE  Found'
<1> USE Constants
(* sendPoll's and appHandler's finds stay sessions with a command.          *)
<1>1. ASSUME ppc' = ppc, ~(rpc' = "checked" /\ rpc # "checked"),
             rpc' = "checked" => UNCHANGED <<rcv, acked>>,
             rpc' \in {"dispatch", "data", "notify"} =>
               rpc \in {"dispatch", "data", "notify"} /\ UNCHANGED rcv,
             \A s \in Slot : tab'[s].cmd = tab[s].cmd \/ tab'[s].cmd \in Fresh
      PROVE  Found'
  <2>1. ppc # 0 => tab'[ppc].cmd # NoCmd
    <3> SUFFICES ASSUME ppc # 0 PROVE tab'[ppc].cmd # NoCmd
      OBVIOUS
    <3>1. ppc \in Slot /\ tab[ppc].cmd # NoCmd
      BY DEF LinkInv, TypeOK, Found
    <3>2. tab'[ppc].cmd = tab[ppc].cmd \/ tab'[ppc].cmd \in Cmd
      BY <1>1, <3>1 DEF Fresh
    <3> QED
      BY <3>1, <3>2 DEF Cmd, NoCmd
  <2>2. rpc' = "checked" => /\ rcv'.slot # 0 /\ rcv'.cmd # NoCmd
                            /\ tab'[rcv'.slot].cmd # NoCmd /\ acked'[tab'[rcv'.slot].cmd] = 0
    <3> SUFFICES ASSUME rpc' = "checked"
                 PROVE  /\ rcv.slot # 0 /\ rcv.cmd # NoCmd
                        /\ tab'[rcv.slot].cmd # NoCmd /\ acked[tab'[rcv.slot].cmd] = 0
      BY <1>1
    <3>1. /\ rcv.slot \in Slot /\ rcv.cmd # NoCmd
          /\ tab[rcv.slot].cmd # NoCmd /\ acked[tab[rcv.slot].cmd] = 0
      BY <1>1 DEF LinkInv, TypeOK, Found
    <3> QED
      BY <1>1, <3>1 DEF Fresh
  <2>3. rpc' \in {"dispatch", "data", "notify"} => rcv'.own = rcv'.cmd /\ rcv'.own # NoCmd
    BY <1>1 DEF LinkInv, Found
  <2> QED
    BY <1>1, <2>1, <2>2, <2>3 DEF Found
<1>2. ASSUME NEW t \in Caller, sendInterface(t) PROVE Found'
  <2>1. cmd[t] \in Fresh
    BY <1>2 DEF sendInterface, LinkInv, Numbered
  <2>2. \A s \in Slot : tab'[s].cmd = tab[s].cmd \/ tab'[s].cmd = cmd[t]
    <3>1. CASE UNCHANGED <<table, counts>>
      BY <3>1 DEF table
    <3>2. ASSUME NEW s \in Slot, NEW e \in Entry,
                 tab' = [tab EXCEPT ![s] = [used |-> TRUE, cmd |-> cmd[t], sent |-> 1, entry |-> e]]
          PROVE  \A r \in Slot : tab'[r].cmd = tab[r].cmd \/ tab'[r].cmd = cmd[t]
      BY <3>2 DEF LinkInv, TypeOK
    <3> QED
      BY <1>2, <3>1, <3>2 DEF sendInterface
  <2> QED
    BY <1>1, <1>2, <2>1, <2>2 DEF sendInterface, reader
<1>3. CASE PollLocked
  <2>1. ppc' = 0 /\ UNCHANGED <<rpc, rcv, acked>>
    BY <1>3 DEF PollLocked, reader
  <2> QED
    BY <1>3, <2>1, CmdsStay DEF LinkInv, TypeOK, Found
<1>4. CASE ReaderLocks
  <2>1. rcv.slot \in Slot /\ rpc = "checked" /\ ppc' = ppc
    BY <1>4 DEF ReaderLocks, LinkInv, TypeOK, Found
  <2>2. ppc' # 0 => tab'[ppc'].cmd # NoCmd
    BY <1>4, <2>1, CmdsStay DEF LinkInv, TypeOK, Found
  <2>3. CASE rpc' = "idle"
    BY <2>2, <2>3 DEF Found
  <2>4. CASE rpc' # "idle"
    <3> DEFINE f == mem[tab[rcv.slot].entry].frame
    <3>1. /\ Matches(f) /\ rpc' = "dispatch"
          /\ rcv' = [rcv EXCEPT !.own = tab[rcv.slot].cmd]
      BY <1>4, <2>4 DEF ReaderLocks
    <3>2. tab[rcv.slot].cmd # NoCmd
      BY <2>1 DEF LinkInv, Found
    <3>3. f.slot = rcv.slot => f.cmd = tab[rcv.slot].cmd
      BY <2>1, <3>2, EntryOf
    <3> HIDE DEF f
    <3>4. f.cmd = tab[rcv.slot].cmd /\ f.cmd = rcv.cmd
      BY <2>1, <3>1, <3>3 DEF Matches
    <3>5. rcv'.own = rcv'.cmd /\ rcv'.own # NoCmd
      BY <3>1, <3>2, <3>4 DEF LinkInv, TypeOK
    <3> QED
      BY <2>2, <3>1, <3>5 DEF Found
  <2> QED
    BY <2>3, <2>4
<1>5. ASSUME NEW s \in Slot, PollDue(s) PROVE Found'
  <2>1. ppc' = s /\ tab[s].cmd # NoCmd /\ UNCHANGED <<tab, rpc, rcv, acked>>
    BY <1>5 DEF PollDue, table, reader, LinkInv, Lockstep
  <2> QED
    BY <2>1 DEF LinkInv, Found
<1>6. ASSUME NEW f \in line, AckArrives(f) PROVE Found'
  <2>1. /\ f.slot # 0 /\ f.slot \in Slot /\ tab[f.slot].used /\ f.cmd # NoCmd
    BY <1>6 DEF AckArrives, LinkInv, TypeOK, FramesFit, Frame
  <2>2. tab[f.slot].cmd # NoCmd /\ acked[tab[f.slot].cmd] = 0
    BY <2>1 DEF LinkInv, Lockstep, Counted
  <2>3. /\ rpc' = "checked" /\ rcv' = [slot |-> f.slot, cmd |-> f.cmd, own |-> NoCmd]
        /\ UNCHANGED <<tab, ppc, acked>>
    BY <1>6 DEF AckArrives, table
  <2> QED
    BY <2>1, <2>2, <2>3 DEF LinkInv, Found
<1>7. ASSUME UNCHANGED <<tab, ppc>>,
             \/ UNCHANGED <<rpc, rcv, acked>>
             \/ rpc' = "idle"
             \/ rpc \in {"dispatch", "data"} /\ rpc' \in {"data", "notify"} /\ UNCHANGED rcv
      PROVE  Found'
  BY <1>7 DEF LinkInv, Found
<1>8. ASSUME DispatchesCallback \/ HandlesInfo \/ HandlesData \/ Notifies
      PROVE  Found'
  BY <1>7, <1>8 DEF DispatchesCallback, HandlesInfo, HandlesData, Notifies, ReaderEnds, table
<1>9. ASSUME \/ SetpointSends \/ CallsBack \/ UNCHANGED vars
             \/ \E t \in Caller : \/ Call(t) \/ waitForACK(t) \/ WaitTimesOut(t) \/ CopiesInfo(t)
                                  \/ CopiesData(t) \/ Again(t) \/ Responds(t)
      PROVE  Found'
  BY <1>7, <1>9 DEF SetpointSends, CallsBack, vars, Call, Again, Encode, Moves, waitForACK,
     WaitTimesOut, CopiesInfo, CopiesData, Responds, table, reader
<1> QED
  BY <1>2, <1>3, <1>4, <1>5, <1>6, <1>8, <1>9 DEF Next, CallerStep, PollStep, ReaderStep

(* A session ends for sendPoll's find only by its answer; sendPoll then     *)
(* sends from its memory at most once before it looks at usageFlag again.   *)
LEMMA KeepsLate ==
    ASSUME LinkInv, [Next]_vars
    PROVE  LateFew'
<1> USE Constants
<1>0. /\ late \in [{NoCmd} \cup Cmd -> Nat] /\ acked \in [{NoCmd} \cup Cmd -> Nat]
      /\ ppc \in {0} \cup Slot
      /\ \A s \in Slot : tab[s].cmd \in {NoCmd} \cup Cmd /\ tab[s].used \in BOOLEAN
      /\ ppc # 0 => ppc \in Slot /\ tab[ppc].cmd \in Cmd
  BY DEF LinkInv, TypeOK, Found
<1>0a. \A c \in Cmd : /\ late[c] \in Nat /\ acked[c] \in Nat /\ late[c] <= acked[c]
                      /\ acked[c] = 0 => late[c] = 0
  <2>1. \A c \in Cmd : late[c] \in Nat /\ acked[c] \in Nat
    BY <1>0
  <2>2. \A c \in Cmd : late[c] <= acked[c]
    BY DEF LinkInv, LateFew
  <2> QED
    BY <2>1, <2>2
<1>1. ASSUME NEW t \in Caller, sendInterface(t) PROVE LateFew'
  <2>1. UNCHANGED <<acked, late, ppc>> /\ cmd[t] \in Cmd /\ acked[cmd[t]] = 0
    BY <1>1 DEF sendInterface, reader, counts, LinkInv, Numbered, Fresh
  <2>2. CASE UNCHANGED <<table, counts>>
    BY <2>1, <2>2 DEF table, LinkInv, LateFew
  <2>3. ASSUME NEW s \in Slot, NEW e \in Entry,
               tab' = [tab EXCEPT ![s] = [used |-> TRUE, cmd |-> cmd[t], sent |-> 1, entry |-> e]]
        PROVE  LateFew'
    <3>1. \A r \in Slot : \/ tab'[r] = tab[r]
                          \/ tab'[r].used /\ tab'[r].cmd = cmd[t]
      BY <2>3 DEF LinkInv, TypeOK
    <3>2. late[cmd[t]] = 0
      BY <1>0a, <2>1
    <3> QED
      BY <1>0, <2>1, <3>1, <3>2 DEF LinkInv, LateFew
  <2> QED
    BY <1>1, <2>2, <2>3 DEF sendInterface
<1>2. CASE PollLocked
  <2>1. ppc \in Slot /\ tab[ppc].cmd \in Cmd /\ ppc' = 0 /\ UNCHANGED acked
    BY <1>0, <1>2 DEF PollLocked, reader
  <2>2. \/ late' = late
        \/ ~tab[ppc].used /\ late' = [late EXCEPT ![tab[ppc].cmd] = @ + 1]
    BY <1>2 DEF PollLocked, Resend, counts
  <2>3. \A c \in Cmd : late'[c] <= acked[c]
    BY <1>0, <2>1, <2>2 DEF LinkInv, LateFew
  <2> QED
    BY <2>1, <2>3 DEF LateFew
<1>3. CASE ReaderLocks
  <2>1. rcv.slot \in Slot /\ UNCHANGED <<late, ppc>> /\ tab[rcv.slot].cmd \in Cmd
    BY <1>0, <1>3 DEF ReaderLocks, LinkInv, TypeOK, Found, counts
  <2> DEFINE own == tab[rcv.slot].cmd
  <2>2. CASE UNCHANGED <<acked, table>>
    BY <2>1, <2>2 DEF table, LinkInv, LateFew
  <2>3. CASE freeSession(rcv.slot) /\ acked' = [acked EXCEPT ![own] = @ + 1]
    <3>1. \A r \in Slot : /\ tab'[r].cmd = tab[r].cmd
                          /\ r # rcv.slot => (tab'[r].used <=> tab[r].used)
      BY <2>1, <2>3, FreeLeaves DEF LinkInv, TypeOK, Session
    <3>2. acked'[own] > 0 /\ \A c \in Cmd : acked'[c] \in Nat /\ acked'[c] >= acked[c]
      <4>1. \A c \in Cmd : acked'[c] = IF c = own THEN acked[own] + 1 ELSE acked[c]
        BY <1>0, <2>1, <2>3
      <4>2. own \in Cmd
        BY <2>1
      <4> HIDE DEF own
      <4> QED
        BY <1>0a, <4>1, <4>2
    <3>3. \A c \in Cmd : late[c] \in Nat /\ acked[c] \in Nat /\ late[c] <= acked[c]
      BY <1>0a
    <3>4. \A c \in Cmd : late'[c] <= acked'[c]
      BY <2>1, <3>2, <3>3
    <3>5. ASSUME ppc # 0 PROVE /\ late[tab'[ppc].cmd] = 0
                               /\ tab'[ppc].used \/ acked'[tab'[ppc].cmd] > 0
      <4>1. /\ tab'[ppc].cmd = tab[ppc].cmd /\ tab[ppc].cmd \in Cmd /\ late[tab[ppc].cmd] = 0
            /\ tab[ppc].used \/ acked[tab[ppc].cmd] > 0
        BY <1>0, <3>1, <3>5 DEF LinkInv, LateFew
      <4>2. CASE ppc = rcv.slot
        BY <3>2, <4>1, <4>2
      <4>3. CASE ppc # rcv.slot
        <5>1. \A c \in Cmd : acked[c] > 0 => acked'[c] > 0
          BY <3>2, <3>3
        <5>2. tab'[ppc].used <=> tab[ppc].used
          BY <1>0, <3>1, <3>5, <4>3
        <5> QED
          BY <4>1, <5>1, <5>2
      <4> QED
        BY <4>1, <4>2, <4>3
    <3> QED
      BY <2>1, <3>4, <3>5 DEF LateFew
  <2> QED
    BY <1>3, <2>2, <2>3 DEF ReaderLocks
<1>4. ASSUME NEW s \in Slot, PollDue(s) PROVE LateFew'
  <2>1. ppc' = s /\ tab[s].used /\ UNCHANGED <<tab, late, acked>>
    BY <1>4 DEF PollDue, table, counts, reader
  <2>2. tab[s].cmd \in Cmd /\ acked[tab[s].cmd] = 0
    BY <1>0, <2>1 DEF LinkInv, Lockstep, Counted
  <2>3. late[tab[s].cmd] = 0
    BY <1>0a, <2>2
  <2> QED
    BY <2>1, <2>3 DEF LinkInv, LateFew
<1>5. CASE UNCHANGED <<tab, late, acked, ppc>>
  BY <1>5 DEF LinkInv, LateFew
<1>6. \/ \E t \in Caller : sendInterface(t)
      \/ PollLocked \/ ReaderLocks \/ (\E s \in Slot : PollDue(s))
      \/ UNCHANGED <<tab, late, acked, ppc>>
  BY DEF Next, vars, CallerStep, PollStep, ReaderStep, Call, Encode, waitForACK, Moves,
         WaitTimesOut, CopiesInfo, CopiesData, Again, Responds, SetpointSends, AckArrives,
         ReaderEnds, DispatchesCallback, HandlesInfo, HandlesData, Notifies, CallsBack,
         calls, table, counts, reader
<1> QED
  BY <1>1, <1>2, <1>3, <1>4, <1>5, <1>6

-----------------------------------------------------------------------------
LEMMA Invariance == Spec => []LinkInv
<1>1. LinkInv /\ [Next]_vars => LinkInv'
  BY KeepsType, KeepsRing, KeepsLockstep, KeepsSent, KeepsDistinct, KeepsNumbered, KeepsCounted,
     KeepsFound, KeepsLate DEF LinkInv
<1> QED
  BY <1>1, Starts, PTL DEF Spec

(* Type correctness: sessions and memory entries stay within their tables,  *)
(* a session is never sent more often than its retries allow, and whatever  *)
(* is called from the ring is a callback.                                   *)
THEOREM TypeCorrect == Spec => []TypeOK
<1>1. LinkInv => TypeOK
  BY DEF LinkInv
<1> QED
  BY <1>1, Invariance, PTL

(* A session in use holds its own memory entry with its own frame, whatever *)
(* sendPoll and appHandler decided on before they locked.                   *)
THEOREM SessionsDoOwnMemory == Spec => []SessionsOwnMemory
<1>1. LinkInv => SessionsOwnMemory
  <2> SUFFICES ASSUME LinkInv, NEW s \in Slot, tab[s].used
               PROVE  LET e == tab[s].entry IN
                      /\ mem[e].used /\ mem[e].frame.slot = s /\ mem[e].frame.cmd = tab[s].cmd
                      /\ \A r \in Slot \ {s} : tab[r].used => tab[r].entry # e
    BY DEF SessionsOwnMemory
  <2>1. \A r \in Slot : tab[r].used => tab[r].entry = r - 1
    BY DEF LinkInv, Lockstep
  <2>2. tab[s].cmd # NoCmd
    BY DEF LinkInv, Lockstep
  <2>4. \A r \in Slot \ {s} : tab[r].used => tab[r].entry # tab[s].entry
    BY <2>1, Constants
  <2> QED
    BY <2>2, <2>4, EntryOf
<1> QED
  BY <1>1, Invariance, PTL

(* An answer is accepted for the command it answers, and at most once.      *)
THEOREM AnswersDoMatch == Spec => []AnswersMatch
<1>1. LinkInv => AnswersMatch
  BY DEF LinkInv, Found, Counted, AnswersMatch
<1> QED
  BY <1>1, Invariance, PTL

(* However sendPoll's test and its lock fall among the other steps, and     *)
(* whatever frame it then finds, a command's frame goes out at most Retry   *)
(* times, and once more for each other command whose session had ended when *)
(* sendPoll sent from it.                                                   *)
THEOREM RetriesAreBounded == Spec => []BoundedRetries
<1>1. LinkInv => BoundedRetries
  BY DEF LinkInv, Counted, Alien, BoundedRetries, LateFor
<1> QED
  BY <1>1, Invariance, PTL

(* After its answer a session is sent from at most once more, although      *)
(* sendPoll decides to before it locks.                                     *)
THEOREM LateResendsAreFew == Spec => []LateResendOnce
<1>1. LinkInv => LateResendOnce
  BY DEF LinkInv, LateFew, LateResendOnce
<1> QED
  BY <1>1, Invariance, PTL

(* The callback thread never calls address 0, for every size of the ring.   *)
THEOREM NoNullIsCalled == Spec => []NoNullCallback
<1>1. LinkInv => NoNullCallback
  BY DEF LinkInv, RingInv
<1> QED
  BY <1>1, Invariance, PTL

(* Callbacks are called in the order of their answers, each once, until the *)
(* ring overflows.                                                          *)
THEOREM CallbacksAreInOrder == Spec => []CallbacksInOrder
<1>1. LinkInv => CallbacksInOrder
  BY HoldsInOrder DEF LinkInv
<1> QED
  BY <1>1, Invariance, PTL

(* The ring is a queue for the threads that use it, for every size: what is *)
(* pushed is called once, in order, but for the ones that met a full ring.  *)
THEOREM RingImplementsQueue == Spec => QueueSpec
<1>1. Init => Q!Init
  BY RingStartsEmpty DEF Init
<1>2. LinkInv /\ [Next]_vars => [Q!Next]_<<Contents, called>>
  <2> SUFFICES ASSUME LinkInv, [Next]_vars PROVE Q!Next \/ UNCHANGED <<Contents, called>>
    OBVIOUS
  <2>1. RingInv
    BY DEF LinkInv
  <2>2. ASSUME DispatchesCallback PROVE Q!Next \/ UNCHANGED <<Contents, called>>
    <3>1. rcv.own \in Callback
      BY <2>2, CallbackAssumption DEF LinkInv, TypeOK, Found, DispatchesCallback, Cmd, NoCmd
    <3>2. CASE cbPush(rcv.own)
      BY <2>1, <3>1, <3>2, PushQueues DEF Q!Next
    <3>3. CASE UNCHANGED cbVars
      BY <3>3, QueueStutters
    <3> QED
      BY <2>2, <3>2, <3>3 DEF DispatchesCallback
  <2>3. ASSUME CallsBack PROVE Q!Next
    BY <2>1, <2>3, PollCallsOldest DEF CallsBack, Q!Next
  <2>4. ASSUME UNCHANGED cbVars PROVE UNCHANGED <<Contents, called>>
    BY <2>4, QueueStutters
  <2> QED
    BY <2>2, <2>3, <2>4, RingSteps
<1> QED
  BY <1>1, <1>2, Invariance, PTL DEF Spec, QueueSpec, Q!Spec
=============================================================================
