------------------------------ MODULE PingFeed ------------------------------
(***************************************************************************)
(* What the file mailbox between the sensor and the host promises, with    *)
(* the files abstracted away: the sensor publishes pings in order, the     *)
(* host forwards published pings in order.  It may skip pings and repeat   *)
(* one, but it never goes back to an older ping and never forwards one     *)
(* that was not published.                                                 *)
(*                                                                         *)
(*   latest   the newest ping whose result the sensor has published        *)
(*   seen     the newest ping the running host has forwarded               *)
(***************************************************************************)
EXTENDS Integers

CONSTANTS NoP, MaxSession

VARIABLES latest, seen

feedVars == <<latest, seen>>

Stamp == [s : 0 .. MaxSession, n : 0 .. NoP - 1]

Nothing == [s |-> -1, n |-> -1]

AtMost(a, b) == a.s < b.s \/ (a.s = b.s /\ a.n <= b.n)

Init == /\ latest \in {m \in Stamp : m.s = 0}
        /\ seen = Nothing

Publish(m) == /\ AtMost(latest, m)
              /\ latest' = m
              /\ UNCHANGED seen

Forward(m) == /\ AtMost(seen, m)
              /\ AtMost(m, latest)
              /\ seen' = m
              /\ UNCHANGED latest

NewHost == /\ seen' = Nothing
           /\ UNCHANGED latest

Next == \/ \E m \in Stamp : Publish(m) \/ Forward(m)
        \/ NewHost

Spec == Init /\ [][Next]_feedVars
=============================================================================
