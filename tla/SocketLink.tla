----------------------------- MODULE SocketLink -----------------------------
(***************************************************************************)
(* The Ethernet link from the sensing Pi to the flight controller Pi.      *)
(*                                                                         *)
(*   host    SocketClient of pypysocket_host_real_v2_endress.py: connects, *)
(*           then sends one text per accepted flag                         *)
(*   server  pypysocket_server_v081_prottype_ros.py: an accept loop and,   *)
(*           per connection, a thread of conn_client that receives at most *)
(*           DATESIZE bytes and calls acc, which publishes obs_info and    *)
(*           avoid_direc; all threads share the one message obsmsg         *)
(*                                                                         *)
(* TCP keeps bytes, not texts: a text is PartsOfText parts, and a recv     *)
(* returns between 1 and DateSize of the parts of a connection not read    *)
(* yet.  The last part of a text is its "clock : <time>"; a part that is   *)
(* cut in two is a part of either chunk, a clock one of the second.        *)
(*                                                                         *)
(*   cpc, sock     where the host is; its socket object                    *)
(*   cur, nsent    the connection it made last, the texts it gave to send  *)
(*   wire, fin     per connection: parts sent and not received; has the    *)
(*                 host's end been closed?                                 *)
(*   rst           per connection: bytes met a closed server socket, the   *)
(*                 kernel's reset is on its way                            *)
(*   thread, data  per connection: where its thread is, the data acc has   *)
(*   obsmsg        the shared message: the data each field was taken from  *)
(*   obs_info      the last published obs_info                             *)
(*   avoids        history: connection and data of every avoid_direc       *)
(*   blurred       history: the host sent while older parts were unread, or *)
(*                 a recv ended inside a text                              *)
(*                                                                         *)
(* Bounded by MaxConn and MaxText; the server itself runs all the time.    *)
(***************************************************************************)
EXTENDS Naturals, Sequences

CONSTANTS MaxConn,       \* bound: connections (starts of the host)
          MaxText,       \* bound: texts sent
          PartsOfText,   \* parts of a text
          DateSize,      \* parts a recv returns at most (DATESIZE)
          LogMayFail,    \* may opening sensing_log.txt raise?
          MayBeSilent    \* may 60 s pass without a text?

ASSUME MaxAssumption == MaxConn \in Nat \ {0} /\ MaxText \in Nat
ASSUME SizeAssumption ==
    /\ PartsOfText \in Nat \ {0} /\ DateSize \in Nat \ {0}
    /\ LogMayFail \in BOOLEAN /\ MayBeSilent \in BOOLEAN

VARIABLES cpc, sock, cur, nsent, wire, fin, rst,
          thread, data, obsmsg, obs_info, avoids, blurred

client == <<cpc, sock, cur, nsent>>
link   == <<wire, fin, rst>>
topics == <<obs_info, avoids>>
vars   == <<client, link, thread, data, obsmsg, topics, blurred>>

Conn == 1 .. MaxConn
Part == [text : 1 .. MaxText, part : 1 .. PartsOfText]

Text(m) == [p \in 1 .. PartsOfText |-> [text |-> m, part |-> p]]

(* What acc has after parsing: the parts its lists were read from; none for *)
(* the empty lists and the avoid angle 0 of its except branch.              *)
Data == Seq(Part)
Nothing == <<>>

WholeText(d) == \E m \in 1 .. MaxText : d = Text(m)

TypeOK ==
    /\ cpc \in {"off", "connect", "ready"}
    /\ sock \in {"none", "new", "connected", "reset"}
    /\ cur \in 0 .. MaxConn /\ nsent \in 0 .. MaxText
    /\ wire \in [Conn -> Data]
    /\ fin \in [Conn -> BOOLEAN] /\ rst \in [Conn -> BOOLEAN]
    /\ thread \in [Conn -> {"none", "recv", "num", "dist", "direc",
                            "publish", "avoid", "closed"}]
    /\ data \in [Conn -> Data]
    /\ obsmsg \in [num : Data, dist : Data, direc : Data]
    /\ obs_info \in [num : Data, dist : Data, direc : Data]
    /\ avoids \in Seq([c : Conn, from : Data])
    /\ blurred \in BOOLEAN

EmptyObsInfo == [num |-> Nothing, dist |-> Nothing, direc |-> Nothing]

Init ==
    /\ cpc = "off" /\ sock = "none" /\ cur = 0 /\ nsent = 0
    /\ wire = [c \in Conn |-> <<>>]
    /\ fin = [c \in Conn |-> FALSE] /\ rst = [c \in Conn |-> FALSE]
    /\ thread = [c \in Conn |-> "none"] /\ data = [c \in Conn |-> Nothing]
    /\ obsmsg = EmptyObsInfo /\ obs_info = EmptyObsInfo
    /\ avoids = <<>> /\ blurred = FALSE

-----------------------------------------------------------------------------
(* The host.  __init__ makes the socket, conect_setup connects it.  Linux   *)
(* connects a new socket; on one that was connected before, even if it was  *)
(* reset since, connect fails for ever.  A failing attempt is a stutter.    *)
HostStarts ==
    /\ cpc = "off" /\ cur < MaxConn
    /\ cpc' = "connect" /\ sock' = "new"
    /\ UNCHANGED <<cur, nsent, link, thread, data, obsmsg, topics, blurred>>

(* Mutant of conect_setup: it connects whatever the socket went through.    *)
ConnectsAnySocket ==
    /\ cpc = "connect"
    /\ cpc' = "ready" /\ sock' = "connected" /\ cur' = cur + 1
    /\ UNCHANGED <<nsent, link, thread, data, obsmsg, topics, blurred>>

conect_setup ==
    /\ cpc = "connect" /\ sock = "new"
    /\ cpc' = "ready" /\ sock' = "connected" /\ cur' = cur + 1
    /\ UNCHANGED <<nsent, link, thread, data, obsmsg, topics, blurred>>

(* The kernel takes the text.  If the server has closed its socket by then  *)
(* nobody is told yet: the text is lost.                                    *)
HostSends ==
    /\ cpc = "ready" /\ sock = "connected" /\ nsent < MaxText
    /\ nsent' = nsent + 1
    /\ IF thread[cur] = "closed"
         THEN rst' = [rst EXCEPT ![cur] = TRUE] /\ UNCHANGED wire
         ELSE wire' = [wire EXCEPT ![cur] = @ \o Text(nsent + 1)] /\ UNCHANGED rst
    /\ blurred' = (blurred \/ wire[cur] # <<>>)
    /\ UNCHANGED <<cpc, sock, cur, fin, thread, data, obsmsg, topics>>

ResetArrives ==
    /\ sock = "connected" /\ rst[cur]
    /\ sock' = "reset"
    /\ UNCHANGED <<cpc, cur, nsent, link, thread, data, obsmsg, topics, blurred>>

(* send_recv: the send raises, its text is dropped, and conect_setup is     *)
(* called; it connects the socket object it has.                            *)
HostSendFails ==
    /\ cpc = "ready" /\ sock = "reset" /\ nsent < MaxText
    /\ nsent' = nsent + 1
    /\ cpc' = "connect"
    /\ UNCHANGED <<sock, cur, link, thread, data, obsmsg, topics, blurred>>

(* The host ends, by Ctrl-C, an exception or a kill: its kernel closes the  *)
(* connection after the bytes it has accepted.                              *)
HostEnds ==
    /\ cpc # "off"
    /\ cpc' = "off" /\ sock' = "none"
    /\ fin' = IF sock = "connected" THEN [fin EXCEPT ![cur] = TRUE] ELSE fin
    /\ UNCHANGED <<cur, nsent, wire, rst, thread, data, obsmsg, topics, blurred>>

-----------------------------------------------------------------------------
(* Mutant of Accept: run_server joins the thread of the last client first.  *)
AcceptAfterJoin(c) ==
    /\ c <= cur /\ thread[c] = "none"
    /\ \A d \in 1 .. c - 1 : thread[d] = "closed"
    /\ thread' = [thread EXCEPT ![c] = "recv"]
    /\ UNCHANGED <<client, link, data, obsmsg, topics, blurred>>

(* The server.  run_server starts a thread for every connection.            *)
Accept(c) ==
    /\ c <= cur /\ thread[c] = "none"
    /\ \A d \in 1 .. c - 1 : thread[d] # "none"
    /\ thread' = [thread EXCEPT ![c] = "recv"]
    /\ UNCHANGED <<client, link, data, obsmsg, topics, blurred>>

(* acc drops the last three words and reads the others as numbers.  A clock *)
(* inside the chunk makes float() fail, except that a chunk may begin with  *)
(* the last digits of a time: they are its first number, before those of    *)
(* the next text, and shift the halves.  Parts of a text have a wrong       *)
(* number of words too: wrong lists, or avoid_calc fails on them.           *)
ClockInside(d) == \E i \in 1 .. Len(d) - 1 : d[i].part = PartsOfText

BeginsWithDigits(d) == Len(d) > 1 /\ PartsOfText > 1 /\ d[1].part = PartsOfText

(* Mutants of Parsed: acc drops two words only, and the clock is left; acc  *)
(* skips the words that are no numbers.                                     *)
ParsedWithClock(d) == {Nothing}

ParsedSkippingWords(d) == {d}

Parsed(d) ==
    IF WholeText(d) THEN {d}
    ELSE IF ClockInside(IF BeginsWithDigits(d) THEN Tail(d) ELSE d) THEN {Nothing}
    ELSE {d, Nothing}

(* Mutant of Receive: the bytes stay in the buffer (MSG_PEEK).              *)
ReceivePeeking(c) ==
    /\ thread[c] = "recv" /\ wire[c] # <<>>
    /\ \E k \in 1 .. Len(wire[c]) :
         /\ k <= DateSize
         /\ \E d \in Parsed(SubSeq(wire[c], 1, k)) : data' = [data EXCEPT ![c] = d]
    /\ thread' = [thread EXCEPT ![c] = "num"]
    /\ UNCHANGED <<client, link, obsmsg, topics, blurred>>

(* conn_client: recv, and the parsing of acc, on the thread's own data.     *)
Receive(c) ==
    /\ thread[c] = "recv" /\ wire[c] # <<>>
    /\ \E k \in 1 .. Len(wire[c]) :
         /\ k <= DateSize
         /\ wire' = [wire EXCEPT ![c] = SubSeq(@, k + 1, Len(@))]
         /\ \E d \in Parsed(SubSeq(wire[c], 1, k)) : data' = [data EXCEPT ![c] = d]
         /\ blurred' = (blurred \/ wire[c][k].part < PartsOfText)
    /\ thread' = [thread EXCEPT ![c] = "num"]
    /\ UNCHANGED <<client, fin, rst, obsmsg, topics>>

(* A closed socket: what was not received is lost and resets the host.      *)
Close(c) ==
    /\ thread' = [thread EXCEPT ![c] = "closed"]
    /\ wire' = [wire EXCEPT ![c] = <<>>]
    /\ rst' = [rst EXCEPT ![c] = @ \/ wire[c] # <<>>]
    /\ data' = [data EXCEPT ![c] = Nothing]

(* settimeout(60).  After the host has closed its end recv does not wait:   *)
(* it returns b'' at once and the thread goes round for ever, a stutter.    *)
TimesOut(c) ==
    /\ MayBeSilent
    /\ thread[c] = "recv" /\ wire[c] = <<>> /\ ~fin[c]
    /\ Close(c)
    /\ UNCHANGED <<client, fin, obsmsg, topics, blurred>>

(* sensing_log.txt cannot be opened: the finally clause names an unbound f. *)
(* The exception ends acc, and conn_client closes the connection.           *)
LogFails(c) ==
    /\ LogMayFail
    /\ thread[c] = "num"
    /\ Close(c)
    /\ UNCHANGED <<client, fin, obsmsg, topics, blurred>>

(* The three assignments to obsmsg, with the log entry before the first.    *)
SetsField(c, at, field, next) ==
    /\ thread[c] = at
    /\ obsmsg' = [obsmsg EXCEPT ![field] = data[c]]
    /\ thread' = [thread EXCEPT ![c] = next]
    /\ UNCHANGED <<client, link, data, topics, blurred>>

SetsObsMsg(c) ==
    \/ SetsField(c, "num", "num", "dist")
    \/ SetsField(c, "dist", "dist", "direc")
    \/ SetsField(c, "direc", "direc", "publish")

PublishesObsInfo(c) ==
    /\ thread[c] = "publish"
    /\ obs_info' = obsmsg
    /\ thread' = [thread EXCEPT ![c] = "avoid"]
    /\ UNCHANGED <<client, link, data, obsmsg, avoids, blurred>>

PublishesAvoid(c) ==
    /\ thread[c] = "avoid"
    /\ avoids' = Append(avoids, [c |-> c, from |-> data[c]])
    /\ thread' = [thread EXCEPT ![c] = "recv"]
    /\ data' = [data EXCEPT ![c] = Nothing]
    /\ UNCHANGED <<client, link, obsmsg, obs_info, blurred>>

(* A number that a cut left at zero or below makes the angle NaN, which     *)
(* avoid_calc returns; int() raises, when obs_info is out already.          *)
AvoidRaises(c) ==
    /\ thread[c] = "avoid" /\ data[c] # Nothing /\ ~WholeText(data[c])
    /\ Close(c)
    /\ UNCHANGED <<client, fin, obsmsg, topics, blurred>>

-----------------------------------------------------------------------------
ConnThread(c) == Receive(c) \/ SetsObsMsg(c) \/ PublishesObsInfo(c) \/ PublishesAvoid(c)

Host == HostStarts \/ conect_setup \/ HostSends \/ HostSendFails \/ HostEnds

Server(c) == Accept(c) \/ ConnThread(c) \/ TimesOut(c) \/ LogFails(c) \/ AvoidRaises(c)

Next == Host \/ ResetArrives \/ \E c \in Conn : Server(c)

Spec == Init /\ [][Next]_vars

(* The accept loop, every thread, the kernel and the retries of the host's  *)
(* connect go on; starting, sending and ending the host need not happen.    *)
FairSpec ==
    /\ Spec
    /\ WF_vars(conect_setup) /\ WF_vars(ResetArrives)
    /\ \A c \in Conn : WF_vars(Accept(c)) /\ WF_vars(ConnThread(c))

-----------------------------------------------------------------------------
(* Whatever recv cuts out of the byte stream, acc takes the distances and   *)
(* directions of an angle from one text; of another one it takes at most    *)
(* the last digits of the clock, as the first number of a chunk that begins *)
(* inside it.                                                               *)
MixedByClockOnly ==
    \A i \in DOMAIN avoids :
        LET from == avoids[i].from IN
        \A j, k \in DOMAIN from : j < k /\ from[j].text # from[k].text =>
            j = 1 /\ from[1].part = PartsOfText

(* The threads publish the texts of one connection in the order in which    *)
(* the host sent them, no part of one twice.                                *)
Precedes(p, q) == p.text < q.text \/ (p.text = q.text /\ p.part < q.part)

InOrder ==
    \A i, j \in DOMAIN avoids :
        (i < j /\ avoids[i].c = avoids[j].c)
            => \A p \in DOMAIN avoids[i].from, q \in DOMAIN avoids[j].from :
                   Precedes(avoids[i].from[p], avoids[j].from[q])

(* If the host never sends while an older text is unread, and a recv never  *)
(* ends inside a text, every avoid_direc is computed from exactly one text: *)
(* the protocol needs no framing as long as the server keeps up.            *)
PacedIsExact ==
    ~blurred => \A i \in DOMAIN avoids : WholeText(avoids[i].from)

(* Whatever reached the server's kernel is received and answered, or its    *)
(* connection is closed: threads that spin on the connections of ended      *)
(* hosts do not keep a new connection from being served.                    *)
EventuallyAnswered ==
    \A c \in Conn : (wire[c] # <<>>) ~> (wire[c] = <<>> /\ thread[c] \in {"recv", "closed"})

(* README_JPN.md:428: obs_info carries the obstacles' number, distances and *)
(* directions; acc fills the three fields for each sensing.                 *)
ObsInfoIsOneSensing ==
    obs_info.num = obs_info.dist /\ obs_info.dist = obs_info.direc

(* pypysocket_host_real_v2_endress.py:37, "miss_connection!! try again!":   *)
(* trying again gets the host connected while the server is up.             *)
TryingAgainConnects == (cpc = "connect") ~> (cpc # "connect")
=============================================================================
