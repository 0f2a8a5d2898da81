-------------------------- MODULE SocketLink_proofs --------------------------
(***************************************************************************)
(* Proofs about SocketLink for every number of connections and texts, every*)
(* length of a text and every size of a recv.                              *)
(*                                                                         *)
(* The argument: the parts of a connection lie in order, those published   *)
(* before those a thread holds before those in the kernel, and between two *)
(* parts of different texts there is always a clock, which stops acc where *)
(* it is not the part that its chunk begins with.                          *)
(***************************************************************************)
EXTENDS SocketLink, SequenceTheorems, TLAPS

Parts(s) == {s[i] : i \in 1 .. Len(s)}

Before(P, Q) == \A p \in P, q \in Q : Precedes(p, q)

(* What acc reads: one text, and before it perhaps the end of a clock.      *)
Unmixed(s) ==
    \A j, k \in 1 .. Len(s) : j < k /\ s[j].text # s[k].text =>
        j = 1 /\ s[1].part = PartsOfText

Ordered(w) == \A i, j \in 1 .. Len(w) : i < j => Precedes(w[i], w[j])

ClockBetween(w) ==
    \A i, j \in 1 .. Len(w) : i < j /\ w[i].text # w[j].text =>
        \E k \in i .. j - 1 : w[k].part = PartsOfText

EndsWithClock(w) == w # <<>> => w[Len(w)].part = PartsOfText

SentOnly(P) == \A p \in P : p.text <= nsent

WireInv == \A c \in Conn : /\ Ordered(wire[c]) /\ ClockBetween(wire[c])
                           /\ EndsWithClock(wire[c]) /\ SentOnly(Parts(wire[c]))

DataInv == \A c \in Conn : /\ Unmixed(data[c]) /\ SentOnly(Parts(data[c]))
                           /\ Before(Parts(data[c]), Parts(wire[c]))

AvoidInv ==
    \A i \in 1 .. Len(avoids) :
        LET P == Parts(avoids[i].from)
            c == avoids[i].c IN
        /\ Unmixed(avoids[i].from) /\ SentOnly(P)
        /\ Before(P, Parts(wire[c])) /\ Before(P, Parts(data[c]))
        /\ \A j \in 1 .. Len(avoids) :
             i < j /\ avoids[j].c = c => Before(P, Parts(avoids[j].from))

HostInv == /\ sock = "connected" => cur \in Conn
           /\ sock = "new" => cur < MaxConn

(* As long as nothing is blurred a connection holds one whole text or none. *)
Working(c) == thread[c] \in {"num", "dist", "direc", "publish", "avoid"}

WiresWhole == \A c \in Conn : wire[c] = <<>> \/ WholeText(wire[c])

ListsWhole == \A c \in Conn : Working(c) => WholeText(data[c])

AvoidsWhole == \A i \in 1 .. Len(avoids) : WholeText(avoids[i].from)

PacedInv == ~blurred => WiresWhole /\ ListsWhole /\ AvoidsWhole

LinkInv == TypeOK /\ HostInv /\ WireInv /\ DataInv /\ AvoidInv

-----------------------------------------------------------------------------
(* Lemmas about sequences of parts.                                         *)
LEMMA EmptyParts == Parts(<<>>) = {} /\ Parts(Nothing) = {}
BY DEF Parts, Nothing

LEMMA PartsType == ASSUME NEW w \in Data PROVE Parts(w) \subseteq Part
BY ElementOfSeq DEF Parts, Data

(* The text m, once nsent has reached m.                                    *)
LEMMA TextFacts ==
    ASSUME NEW m \in 1 .. MaxText
    PROVE  /\ Text(m) \in Data /\ Len(Text(m)) = PartsOfText
           /\ \A i \in 1 .. PartsOfText : Text(m)[i] = [text |-> m, part |-> i]
           /\ \A p \in Parts(Text(m)) : p.text = m
<1>1. Text(m) \in [1 .. PartsOfText -> Part] /\ PartsOfText \in Nat
  BY SizeAssumption DEF Text, Part
<1>2. Text(m) \in Data /\ Len(Text(m)) = PartsOfText
  BY <1>1 DEF Data
<1>3. \A i \in 1 .. PartsOfText : Text(m)[i] = [text |-> m, part |-> i]
  BY DEF Text
<1> QED
  BY <1>2, <1>3 DEF Parts

(* Sending a text puts it behind the parts that are there.                  *)
LEMMA SendFacts ==
    ASSUME NEW w \in Data, NEW m \in 1 .. MaxText,
           Ordered(w), ClockBetween(w), EndsWithClock(w), \A p \in Parts(w) : p.text < m
    PROVE  LET v == w \o Text(m) IN
           /\ v \in Data /\ Parts(v) = Parts(w) \cup Parts(Text(m))
           /\ Ordered(v) /\ ClockBetween(v) /\ EndsWithClock(v)
<1> DEFINE v == w \o Text(m)
<1>1. /\ v \in Data /\ Len(v) = Len(w) + PartsOfText /\ Len(w) \in Nat
      /\ \A i \in 1 .. Len(w) : v[i] = w[i]
      /\ \A i \in Len(w) + 1 .. Len(v) : /\ v[i] = Text(m)[i - Len(w)] /\ v[i].text = m
                                         /\ v[i].part = i - Len(w)
  <2>1. Text(m) \in Data /\ Len(Text(m)) = PartsOfText
    BY TextFacts
  <2>2. /\ v \in Data /\ Len(v) = Len(w) + PartsOfText /\ Len(w) \in Nat
        /\ \A i \in 1 .. Len(w) + PartsOfText :
              v[i] = IF i <= Len(w) THEN w[i] ELSE Text(m)[i - Len(w)]
    BY <2>1, ConcatProperties, LenProperties DEF Data
  <2>3. PartsOfText \in Nat
    BY SizeAssumption
  <2> HIDE DEF v
  <2>4. \A i \in Len(w) + 1 .. Len(v) : i - Len(w) \in 1 .. PartsOfText /\ ~(i <= Len(w))
    BY <2>2, <2>3
  <2>5. ASSUME NEW i \in Len(w) + 1 .. Len(v)
        PROVE  v[i] = Text(m)[i - Len(w)] /\ v[i].text = m /\ v[i].part = i - Len(w)
    <3>1. v[i] = Text(m)[i - Len(w)]
      BY <2>2, <2>3, <2>4
    <3>2. Text(m)[i - Len(w)] = [text |-> m, part |-> i - Len(w)]
      BY <2>4, TextFacts
    <3> QED
      BY <3>1, <3>2
  <2>6. \A i \in 1 .. Len(w) : v[i] = w[i]
    BY <2>2, <2>3
  <2> QED
    BY <2>2, <2>5, <2>6
<1>2. PartsOfText \in Nat \ {0}
  BY SizeAssumption
<1>3. /\ \A i \in 1 .. Len(w) : w[i] \in Part /\ w[i].text < m
      /\ m \in Nat
  BY ElementOfSeq DEF Parts, Data
<1> HIDE DEF v
<1>4. Parts(v) = Parts(w) \cup Parts(Text(m))
  <2>1. Len(Text(m)) = PartsOfText
    BY TextFacts
  <2>2. ASSUME NEW p \in Parts(v) PROVE p \in Parts(w) \cup Parts(Text(m))
    <3>1. PICK i \in 1 .. Len(v) : p = v[i]
      BY DEF Parts
    <3>2. CASE i \in 1 .. Len(w)
      BY <1>1, <3>1, <3>2 DEF Parts
    <3>3. CASE i \in Len(w) + 1 .. Len(v)
      <4>1. i - Len(w) \in 1 .. PartsOfText
        BY <1>1, <1>2, <3>3
      <4> QED
        BY <1>1, <2>1, <3>1, <3>3, <4>1 DEF Parts
    <3> QED
      BY <1>1, <3>2, <3>3
  <2>3. ASSUME NEW p \in Parts(w) PROVE p \in Parts(v)
    <3>1. PICK i \in 1 .. Len(w) : p = w[i]
      BY DEF Parts
    <3>2. i \in 1 .. Len(v)
      BY <1>1, <1>2
    <3> QED
      BY <1>1, <3>1, <3>2 DEF Parts
  <2>4. ASSUME NEW p \in Parts(Text(m)) PROVE p \in Parts(v)
    <3>1. PICK i \in 1 .. PartsOfText : p = Text(m)[i]
      BY <2>1 DEF Parts
    <3>2. Len(w) + i \in Len(w) + 1 .. Len(v) /\ Len(w) + i \in 1 .. Len(v) /\ (Len(w) + i) - Len(w) = i
      BY <1>1, <1>2
    <3> QED
      BY <1>1, <3>1, <3>2 DEF Parts
  <2> QED
    BY <2>2, <2>3, <2>4
<1>5. Ordered(v)
  <2> SUFFICES ASSUME NEW i \in 1 .. Len(v), NEW j \in 1 .. Len(v), i < j
               PROVE  Precedes(v[i], v[j])
    BY DEF Ordered
  <2>1. CASE j \in 1 .. Len(w)
    BY <1>1, <2>1 DEF Ordered
  <2>2. CASE i \in 1 .. Len(w) /\ j \in Len(w) + 1 .. Len(v)
    BY <1>1, <1>3, <2>2 DEF Precedes
  <2>3. CASE i \in Len(w) + 1 .. Len(v)
    <3>1. j \in Len(w) + 1 .. Len(v) /\ i - Len(w) < j - Len(w)
      BY <1>1, <2>3
    <3> QED
      BY <1>1, <2>3, <3>1 DEF Precedes
  <2> QED
    BY <1>1, <2>1, <2>2, <2>3
<1>6. ClockBetween(v)
  <2> SUFFICES ASSUME NEW i \in 1 .. Len(v), NEW j \in 1 .. Len(v), i < j, v[i].text # v[j].text
               PROVE  \E k \in i .. j - 1 : v[k].part = PartsOfText
    BY DEF ClockBetween
  <2>1. CASE j \in 1 .. Len(w)
    <3>1. i \in 1 .. Len(w) /\ v[i] = w[i] /\ v[j] = w[j]
      BY <1>1, <2>1
    <3>2. PICK k \in i .. j - 1 : w[k].part = PartsOfText
      BY <2>1, <3>1 DEF ClockBetween
    <3>3. k \in 1 .. Len(w)
      BY <2>1, <3>1
    <3> QED
      BY <1>1, <3>2, <3>3
  <2>2. CASE i \in 1 .. Len(w) /\ j \in Len(w) + 1 .. Len(v)
    <3>1. Len(w) \in i .. j - 1 /\ Len(w) \in 1 .. Len(w) /\ w # <<>>
      BY <1>1, <2>2
    <3> QED
      BY <1>1, <3>1 DEF EndsWithClock
  <2>3. CASE i \in Len(w) + 1 .. Len(v)
    <3>1. j \in Len(w) + 1 .. Len(v)
      BY <1>1, <2>3
    <3> QED
      BY <1>1, <2>3, <3>1
  <2> QED
    BY <1>1, <2>1, <2>2, <2>3
<1>7. EndsWithClock(v)
  <2>1. Len(v) \in Len(w) + 1 .. Len(v) /\ Len(v) - Len(w) = PartsOfText
    BY <1>1, <1>2
  <2> QED
    BY <1>1, <2>1 DEF EndsWithClock
<1> QED
  BY <1>1, <1>4, <1>5, <1>6, <1>7 DEF v

(* A recv cuts the parts of a connection in two.                            *)
LEMMA CutFacts ==
    ASSUME NEW w \in Data, NEW k \in 1 .. Len(w),
           Ordered(w), ClockBetween(w), EndsWithClock(w)
    PROVE  LET a == SubSeq(w, 1, k)
               b == SubSeq(w, k + 1, Len(w)) IN
           /\ a \in Data /\ Parts(a) \subseteq Parts(w) /\ ClockBetween(a)
           /\ b \in Data /\ Parts(b) \subseteq Parts(w)
           /\ Ordered(b) /\ ClockBetween(b) /\ EndsWithClock(b)
           /\ Before(Parts(a), Parts(b))
<1> DEFINE a == SubSeq(w, 1, k)
           b == SubSeq(w, k + 1, Len(w))
<1>1. Len(w) \in Nat /\ k \in Nat /\ \A i \in 1 .. Len(w) : w[i] \in Part
  BY LenProperties, ElementOfSeq DEF Data
<1>2. a \in Data /\ Len(a) = k /\ \A i \in 1 .. k : a[i] = w[i]
  <2>1. \A i \in 1 .. k : w[i] \in Part
    BY <1>1
  <2>2. /\ a \in Seq(Part) /\ Len(a) = IF 1 <= k THEN k - 1 + 1 ELSE 0
        /\ \A i \in 1 .. k - 1 + 1 : a[i] = w[1 + i - 1]
    BY <1>1, <2>1, SubSeqProperties
  <2> HIDE DEF a
  <2>3. /\ Len(a) = k /\ \A i \in 1 .. k : 1 + i - 1 = i /\ i \in 1 .. k - 1 + 1
    BY <1>1, <2>2
  <2> QED
    BY <2>2, <2>3 DEF Data
<1>3. b \in Data /\ Len(b) = Len(w) - k /\ \A i \in 1 .. Len(b) : b[i] = w[k + i]
  <2>1. \A i \in k + 1 .. Len(w) : w[i] \in Part
    BY <1>1
  <2>2. /\ b \in Seq(Part) /\ Len(b) = IF k + 1 <= Len(w) THEN Len(w) - (k + 1) + 1 ELSE 0
        /\ \A i \in 1 .. Len(w) - (k + 1) + 1 : b[i] = w[(k + 1) + i - 1]
    BY <1>1, <2>1, SubSeqProperties
  <2> HIDE DEF b
  <2>3. /\ Len(b) = Len(w) - k
        /\ \A i \in 1 .. Len(b) : (k + 1) + i - 1 = k + i /\ i \in 1 .. Len(w) - (k + 1) + 1
    BY <1>1, <2>2
  <2> QED
    BY <2>2, <2>3 DEF Data
<1> HIDE DEF a, b
<1>4. \A i \in 1 .. k : i \in 1 .. Len(w)
  BY <1>1
<1>5. \A i \in 1 .. Len(b) : k + i \in 1 .. Len(w) /\ k + i \in Nat /\ i \in Nat
  BY <1>1, <1>3
<1>6. Parts(a) \subseteq Parts(w) /\ Parts(b) \subseteq Parts(w)
  BY <1>2, <1>3, <1>4, <1>5 DEF Parts
<1>7. ClockBetween(a)
  <2> SUFFICES ASSUME NEW i \in 1 .. Len(a), NEW j \in 1 .. Len(a), i < j, a[i].text # a[j].text
               PROVE  \E l \in i .. j - 1 : a[l].part = PartsOfText
    BY DEF ClockBetween
  <2>1. PICK l \in i .. j - 1 : w[l].part = PartsOfText
    BY <1>2, <1>4 DEF ClockBetween
  <2>2. l \in 1 .. k
    BY <1>2
  <2> QED
    BY <1>2, <2>1, <2>2
<1>8. Ordered(b)
  <2> SUFFICES ASSUME NEW i \in 1 .. Len(b), NEW j \in 1 .. Len(b), i < j
               PROVE  Precedes(b[i], b[j])
    BY DEF Ordered
  <2>1. k + i < k + j
    BY <1>1, <1>5
  <2> QED
    BY <1>3, <1>5, <2>1 DEF Ordered
<1>9. ClockBetween(b)
  <2> SUFFICES ASSUME NEW i \in 1 .. Len(b), NEW j \in 1 .. Len(b), i < j, b[i].text # b[j].text
               PROVE  \E l \in i .. j - 1 : b[l].part = PartsOfText
    BY DEF ClockBetween
  <2>1. k + i < k + j
    BY <1>1, <1>5
  <2>1a. k + i \in 1 .. Len(w) /\ k + j \in 1 .. Len(w) /\ w[k + i].text # w[k + j].text
    BY <1>3, <1>5
  <2>2. PICK l \in k + i .. k + j - 1 : w[l].part = PartsOfText
    BY <2>1, <2>1a DEF ClockBetween
  <2>3. l - k \in i .. j - 1 /\ k + (l - k) = l /\ l - k \in 1 .. Len(b)
    BY <1>1, <1>3, <1>5
  <2> QED
    BY <1>3, <2>2, <2>3
<1>10. EndsWithClock(b)
  <2> SUFFICES ASSUME b # <<>> PROVE b[Len(b)].part = PartsOfText
    BY DEF EndsWithClock
  <2>1. Len(b) \in 1 .. Len(b) /\ k + Len(b) = Len(w)
    BY <1>1, <1>3, EmptySeq DEF Data
  <2>2. w # <<>>
    BY <1>1
  <2> QED
    BY <1>3, <2>1, <2>2 DEF EndsWithClock
<1>11. Before(Parts(a), Parts(b))
  <2> SUFFICES ASSUME NEW p \in Parts(a), NEW q \in Parts(b) PROVE Precedes(p, q)
    BY DEF Before
  <2>1. PICK i \in 1 .. k : p = w[i]
    BY <1>2 DEF Parts
  <2>2. PICK j \in 1 .. Len(b) : q = w[k + j]
    BY <1>3 DEF Parts
  <2>3. i < k + j
    BY <1>1, <1>5
  <2> QED
    BY <1>4, <1>5, <2>1, <2>2, <2>3 DEF Ordered
<1> QED
  BY <1>2, <1>3, <1>6, <1>7, <1>8, <1>9, <1>10, <1>11 DEF a, b

(* What acc makes of a chunk is nothing, or parts of one text, but for the  *)
(* end of a clock that it may begin with.                                   *)
LEMMA ParsedFacts ==
    ASSUME NEW a \in Data, ClockBetween(a), NEW x \in Parsed(a)
    PROVE  x \in Data /\ Parts(x) \subseteq Parts(a) /\ Unmixed(x)
<1>0. Len(a) \in Nat
  BY LenProperties DEF Data
<1>1. CASE WholeText(a)
  <2>1. x = a
    BY <1>1 DEF Parsed
  <2>2. PICK m \in 1 .. MaxText : a = Text(m)
    BY <1>1 DEF WholeText
  <2>3. \A j \in 1 .. Len(a) : a[j].text = m
    BY <2>2, TextFacts DEF Parts
  <2> QED
    BY <2>1, <2>3 DEF Unmixed
<1>2. CASE x = Nothing
  <2>1. Len(x) = 0 /\ x \in Data
    BY <1>2 DEF Nothing, Data
  <2> QED
    BY <1>2, <2>1, EmptyParts DEF Unmixed
<1>3. ASSUME NEW j \in 1 .. Len(a), NEW k \in 1 .. Len(a), j < k, a[j].text # a[k].text
      PROVE  \E i \in j .. k - 1 : i \in 1 .. Len(a) - 1 /\ a[i].part = PartsOfText
  <2>1. PICK i \in j .. k - 1 : a[i].part = PartsOfText
    BY <1>3 DEF ClockBetween
  <2>2. i \in 1 .. Len(a) - 1
    BY <1>0
  <2> QED
    BY <2>1, <2>2
<1>4. CASE x = a /\ ~WholeText(a) /\ ~BeginsWithDigits(a)
  <2>1. ~ClockInside(a) \/ x = Nothing
    BY <1>4 DEF Parsed
  <2>2. CASE ~ClockInside(a)
    BY <1>3, <1>4, <2>2 DEF ClockInside, Unmixed
  <2> QED
    BY <1>2, <2>1, <2>2
<1>5. CASE x = a /\ ~WholeText(a) /\ BeginsWithDigits(a)
  <2>1. a # <<>> /\ a[1].part = PartsOfText
    BY <1>5 DEF BeginsWithDigits
  <2>2. Len(Tail(a)) = Len(a) - 1 /\ \A i \in 1 .. Len(a) - 1 : Tail(a)[i] = a[i + 1]
    BY <2>1, HeadTailProperties DEF Data
  <2>3. ~ClockInside(Tail(a)) \/ x = Nothing
    BY <1>5 DEF Parsed
  <2>4. ASSUME ~ClockInside(Tail(a)), NEW j \in 1 .. Len(a), NEW k \in 1 .. Len(a), j < k,
               a[j].text # a[k].text
        PROVE  j = 1
    <3> SUFFICES ASSUME j # 1 PROVE FALSE
      OBVIOUS
    <3>1. PICK i \in j .. k - 1 : i \in 1 .. Len(a) - 1 /\ a[i].part = PartsOfText
      BY <1>3, <2>4
    <3>2. i - 1 \in 1 .. Len(Tail(a)) - 1 /\ (i - 1) + 1 = i /\ i - 1 \in 1 .. Len(a) - 1
      BY <1>0, <2>2, <3>1
    <3>3. Tail(a)[i - 1].part = PartsOfText
      BY <2>2, <3>1, <3>2
    <3> QED
      BY <2>4, <3>2, <3>3 DEF ClockInside
  <2>5. CASE ~ClockInside(Tail(a))
    BY <1>5, <2>1, <2>4, <2>5 DEF Unmixed
  <2> QED
    BY <1>2, <2>3, <2>5
<1>6. x = a \/ x = Nothing
  BY DEF Parsed
<1> QED
  BY <1>1, <1>2, <1>4, <1>5, <1>6

-----------------------------------------------------------------------------
(* The invariant, step by step.                                             *)
LEMMA LinkStarts == Init => LinkInv /\ PacedInv
<1> SUFFICES ASSUME Init PROVE LinkInv /\ PacedInv
  OBVIOUS
<1>1. /\ \A c \in Conn : wire[c] = <<>> /\ data[c] = <<>> /\ thread[c] = "none"
      /\ avoids = <<>> /\ Len(avoids) = 0 /\ <<>> \in Data /\ Nothing = <<>>
      /\ Len(<<>>) = 0
  BY DEF Init, Nothing, Data
<1>2. TypeOK
  <2>1. MaxConn \in Nat /\ MaxText \in Nat /\ 0 \in 0 .. MaxConn /\ 0 \in 0 .. MaxText
    BY MaxAssumption
  <2>2. avoids \in Seq([c : Conn, from : Data])
    BY <1>1
  <2>3. EmptyObsInfo \in [num : Data, dist : Data, direc : Data]
    BY <1>1 DEF EmptyObsInfo
  <2> QED
    BY <1>1, <2>1, <2>2, <2>3 DEF Init, TypeOK
<1>3. HostInv
  BY DEF Init, HostInv
<1>4. WireInv /\ DataInv
  BY <1>1, EmptyParts
  DEF WireInv, DataInv, Ordered, ClockBetween, EndsWithClock, SentOnly, Unmixed, Before
<1>5. AvoidInv
  BY <1>1 DEF AvoidInv
<1>6. PacedInv
  BY <1>1 DEF PacedInv, WiresWhole, ListsWhole, AvoidsWhole, Working
<1> QED
  BY <1>2, <1>3, <1>4, <1>5, <1>6 DEF LinkInv

LEMMA AvoidType ==
    ASSUME TypeOK
    PROVE  \A i \in 1 .. Len(avoids) : /\ avoids[i].c \in Conn /\ avoids[i].from \in Data
                                       /\ Parts(avoids[i].from) \subseteq Part
<1> SUFFICES ASSUME NEW i \in 1 .. Len(avoids)
             PROVE  /\ avoids[i].c \in Conn /\ avoids[i].from \in Data
                    /\ Parts(avoids[i].from) \subseteq Part
  OBVIOUS
<1>1. avoids \in Seq([c : Conn, from : Data])
  BY DEF TypeOK
<1>2. avoids[i] \in [c : Conn, from : Data]
  BY <1>1, ElementOfSeq
<1> QED
  BY <1>2, PartsType

(* A step that only empties connections and lists keeps the order.          *)
LEMMA QuietSteps ==
    ASSUME WireInv, DataInv, AvoidInv, TypeOK, TypeOK', nsent <= nsent',
           avoids' = avoids,
           \A c \in Conn : /\ wire'[c] = wire[c] \/ wire'[c] = <<>>
                           /\ data'[c] = data[c] \/ data'[c] = <<>>
    PROVE  WireInv' /\ DataInv' /\ AvoidInv'
<1>1. (\A P : Before(P, {}) /\ Before({}, P)) /\ Unmixed(<<>>)
  BY DEF Before, Unmixed
<1>2. /\ \A c \in Conn : Parts(wire'[c]) = Parts(wire[c]) \/ Parts(wire'[c]) = {}
      /\ \A c \in Conn : Parts(data'[c]) = Parts(data[c]) \/ Parts(data'[c]) = {}
  BY EmptyParts
<1>3. \A i \in 1 .. Len(avoids) : avoids[i].c \in Conn /\ avoids[i].from \in Data
  BY AvoidType
<1>4. \A c \in Conn : /\ Parts(wire[c]) \subseteq Part /\ Parts(data[c]) \subseteq Part
  BY PartsType DEF TypeOK
<1>5. WireInv'
  <2> SUFFICES ASSUME NEW c \in Conn
               PROVE  /\ Ordered(wire'[c]) /\ ClockBetween(wire'[c])
                      /\ EndsWithClock(wire'[c]) /\ SentOnly(Parts(wire[c]))'
    BY DEF WireInv
  <2>1. CASE wire'[c] = <<>>
    <3>1. Ordered(wire'[c]) /\ ClockBetween(wire'[c]) /\ EndsWithClock(wire'[c])
      BY <2>1 DEF Ordered, ClockBetween, EndsWithClock
    <3>2. SentOnly(Parts(wire[c]))'
      BY <2>1, EmptyParts DEF SentOnly
    <3> QED
      BY <3>1, <3>2
  <2>2. CASE wire'[c] = wire[c]
    <3>1. SentOnly(Parts(wire[c]))'
      <4>1. /\ \A p \in Parts(wire[c]) : p.text <= nsent /\ p.text \in Nat
            /\ nsent \in Nat /\ nsent' \in Nat /\ Parts(wire[c])' = Parts(wire[c])
        BY <1>4, <2>2 DEF WireInv, SentOnly, TypeOK, Part
      <4> QED
        BY <4>1 DEF SentOnly
    <3> QED
      BY <2>2, <3>1 DEF WireInv
  <2> QED
    BY <2>1, <2>2
<1>6. DataInv'
  <2> SUFFICES ASSUME NEW c \in Conn
               PROVE  /\ Unmixed(data'[c]) /\ SentOnly(Parts(data[c]))'
                      /\ Before(Parts(data'[c]), Parts(wire'[c]))
    BY DEF DataInv
  <2>1. Unmixed(data'[c]) /\ Before(Parts(data'[c]), Parts(wire'[c]))
    BY <1>1, <1>2 DEF DataInv
  <2>2. SentOnly(Parts(data[c]))'
    <3>1. /\ \A p \in Parts(data[c]) : p.text <= nsent /\ p.text \in Nat
          /\ nsent \in Nat /\ nsent' \in Nat
      BY <1>4 DEF DataInv, SentOnly, TypeOK, Part
    <3> QED
      BY <1>2, <3>1 DEF SentOnly
  <2> QED
    BY <2>1, <2>2
<1>7. AvoidInv'
  <2> SUFFICES ASSUME NEW i \in 1 .. Len(avoids)
               PROVE  LET P == Parts(avoids[i].from)
                          c == avoids[i].c IN
                      /\ Unmixed(avoids[i].from) /\ SentOnly(P)'
                      /\ Before(P, Parts(wire'[c])) /\ Before(P, Parts(data'[c]))
                      /\ \A j \in 1 .. Len(avoids) :
                           i < j /\ avoids[j].c = c => Before(P, Parts(avoids[j].from))
    BY DEF AvoidInv
  <2> DEFINE P == Parts(avoids[i].from)
             c == avoids[i].c
  <2>1. /\ Unmixed(avoids[i].from) /\ SentOnly(P) /\ Before(P, Parts(wire[c])) /\ Before(P, Parts(data[c]))
        /\ \A j \in 1 .. Len(avoids) : i < j /\ avoids[j].c = c => Before(P, Parts(avoids[j].from))
    BY DEF AvoidInv
  <2>2. c \in Conn /\ P \subseteq Part
    BY <1>3, PartsType
  <2>3. SentOnly(P)'
    <3>1. \A p \in P : p.text \in Nat /\ p.text <= nsent
      BY <2>1, <2>2 DEF SentOnly, Part
    <3>2. nsent \in Nat /\ nsent' \in Nat
      BY DEF TypeOK
    <3> QED
      BY <3>1, <3>2 DEF SentOnly
  <2>4. Before(P, Parts(wire'[c])) /\ Before(P, Parts(data'[c]))
    BY <1>1, <1>2, <2>1, <2>2
  <2> QED
    BY <2>1, <2>3, <2>4
<1> QED
  BY <1>5, <1>6, <1>7

(* Every piece of a sequence of parts is one, and so is what acc makes of it. *)
LEMMA CutType ==
    ASSUME NEW w \in Data, NEW k \in 1 .. Len(w)
    PROVE  SubSeq(w, 1, k) \in Data /\ SubSeq(w, k + 1, Len(w)) \in Data
<1>1. Len(w) \in Nat /\ k \in Nat /\ \A i \in 1 .. Len(w) : w[i] \in Part
  BY LenProperties, ElementOfSeq DEF Data
<1>2. /\ \A i \in 1 .. k : w[i] \in Part
      /\ \A i \in k + 1 .. Len(w) : w[i] \in Part
  BY <1>1
<1>3. SubSeq(w, 1, k) \in Seq(Part)
  BY <1>1, <1>2, SubSeqProperties
<1>4. SubSeq(w, k + 1, Len(w)) \in Seq(Part)
  BY <1>1, <1>2, SubSeqProperties
<1> QED
  BY <1>3, <1>4 DEF Data

LEMMA ParsedType == ASSUME NEW a \in Data, NEW x \in Parsed(a) PROVE x \in Data
<1>1. x = a \/ x = Nothing
  BY DEF Parsed
<1>2. Nothing \in Data
  BY DEF Nothing, Data
<1> QED
  BY <1>1, <1>2

LEMMA TypeStep == TypeOK /\ HostInv /\ [Next]_vars => TypeOK' /\ HostInv'
<1> SUFFICES ASSUME TypeOK, HostInv, [Next]_vars PROVE TypeOK' /\ HostInv'
  OBVIOUS
<1> USE DEF client, link, topics
<1>1. /\ MaxConn \in Nat /\ MaxText \in Nat /\ <<>> \in Data /\ Nothing = <<>>
      /\ \A c \in Conn : c \in Nat
  BY MaxAssumption DEF Data, Nothing, Conn
<1>2. CASE UNCHANGED vars
  BY <1>2 DEF TypeOK, HostInv, vars
<1>3. CASE Host
  <2>1. CASE HostStarts
    BY <1>1, <2>1 DEF HostStarts, TypeOK, HostInv
  <2>2. CASE conect_setup
    <3>1. cur + 1 \in Conn /\ cur + 1 \in 0 .. MaxConn
      BY <1>1, <2>2 DEF conect_setup, HostInv, TypeOK, Conn
    <3> QED
      BY <2>2, <3>1 DEF conect_setup, TypeOK, HostInv
  <2>3. CASE HostSends
    <3>1. cur \in Conn /\ nsent + 1 \in 1 .. MaxText /\ nsent + 1 \in 0 .. MaxText
      BY <1>1, <2>3 DEF HostSends, HostInv, TypeOK
    <3>2. wire[cur] \o Text(nsent + 1) \in Data
      BY <3>1, TextFacts, ConcatProperties DEF TypeOK, Data
    <3>3. wire' \in [Conn -> Data]
      BY <2>3, <3>1, <3>2 DEF HostSends, TypeOK
    <3>4. rst' \in [Conn -> BOOLEAN]
      BY <2>3 DEF HostSends, TypeOK
    <3>5. blurred' \in BOOLEAN
      BY <2>3 DEF HostSends, TypeOK
    <3> QED
      BY <2>3, <3>1, <3>3, <3>4, <3>5 DEF HostSends, TypeOK, HostInv
  <2>4. CASE HostSendFails
    <3>1. nsent + 1 \in 0 .. MaxText
      BY <1>1, <2>4 DEF HostSendFails, TypeOK
    <3> QED
      BY <2>4, <3>1 DEF HostSendFails, TypeOK, HostInv
  <2>5. CASE HostEnds
    <3>1. fin' \in [Conn -> BOOLEAN]
      BY <2>5 DEF HostEnds, TypeOK
    <3> QED
      BY <2>5, <3>1 DEF HostEnds, TypeOK, HostInv
  <2> QED
    BY <1>3, <2>1, <2>2, <2>3, <2>4, <2>5 DEF Host
<1>4. CASE ResetArrives
  BY <1>4 DEF ResetArrives, TypeOK, HostInv
<1>5. ASSUME NEW c \in Conn, Server(c) PROVE TypeOK' /\ HostInv'
  <2>0. /\ wire[c] \in Data /\ data[c] \in Data
        /\ wire \in [Conn -> Data] /\ data \in [Conn -> Data]
    BY DEF TypeOK
  <2>1. CASE Accept(c)
    BY <2>1 DEF Accept, TypeOK, HostInv
  <2>2. CASE Receive(c)
    <3>1. PICK k \in 1 .. Len(wire[c]) :
            /\ wire' = [wire EXCEPT ![c] = SubSeq(@, k + 1, Len(@))]
            /\ \E d \in Parsed(SubSeq(wire[c], 1, k)) : data' = [data EXCEPT ![c] = d]
            /\ blurred' = (blurred \/ wire[c][k].part < PartsOfText)
      BY <2>2 DEF Receive
    <3>2. PICK d \in Parsed(SubSeq(wire[c], 1, k)) : data' = [data EXCEPT ![c] = d]
      BY <3>1
    <3>3. SubSeq(wire[c], 1, k) \in Data /\ SubSeq(wire[c], k + 1, Len(wire[c])) \in Data
      BY <2>0, CutType
    <3>4. d \in Data
      BY <3>2, <3>3, ParsedType
    <3>5. wire' \in [Conn -> Data] /\ data' \in [Conn -> Data]
      BY <2>0, <3>1, <3>2, <3>3, <3>4
    <3>6. blurred' \in BOOLEAN
      BY <3>1 DEF TypeOK
    <3> QED
      BY <2>2, <3>5, <3>6 DEF Receive, TypeOK, HostInv
  <2>3. CASE SetsObsMsg(c)
    <3>1. /\ obsmsg'.num \in Data /\ obsmsg'.dist \in Data /\ obsmsg'.direc \in Data
          /\ obsmsg' = [num |-> obsmsg'.num, dist |-> obsmsg'.dist, direc |-> obsmsg'.direc]
      BY <2>0, <2>3 DEF SetsObsMsg, SetsField, TypeOK
    <3>2. obsmsg' \in [num : Data, dist : Data, direc : Data]
      BY <3>1
    <3> QED
      BY <2>3, <3>2 DEF SetsObsMsg, SetsField, TypeOK, HostInv
  <2>4. CASE PublishesObsInfo(c)
    BY <2>4 DEF PublishesObsInfo, TypeOK, HostInv
  <2>5. CASE PublishesAvoid(c)
    <3>1. avoids' \in Seq([c : Conn, from : Data])
      <4>1. [c |-> c, from |-> data[c]] \in [c : Conn, from : Data]
        BY <2>0
      <4> QED
        BY <2>5, <4>1, AppendProperties DEF PublishesAvoid, TypeOK
    <3>2. data' \in [Conn -> Data]
      BY <1>1, <2>0, <2>5 DEF PublishesAvoid
    <3> QED
      BY <2>5, <3>1, <3>2 DEF PublishesAvoid, TypeOK, HostInv
  <2>6. CASE TimesOut(c) \/ LogFails(c) \/ AvoidRaises(c)
    <3>0. Close(c)
      BY <2>6 DEF TimesOut, LogFails, AvoidRaises
    <3>1. wire' \in [Conn -> Data] /\ data' \in [Conn -> Data]
      BY <1>1, <2>0, <3>0 DEF Close
    <3>2. rst' \in [Conn -> BOOLEAN]
      BY <3>0 DEF Close, TypeOK
    <3> QED
      BY <2>6, <3>1, <3>2 DEF TimesOut, LogFails, AvoidRaises, Close, TypeOK, HostInv
  <2> QED
    BY <1>5, <2>1, <2>2, <2>3, <2>4, <2>5, <2>6 DEF Server, ConnThread
<1> QED
  BY <1>2, <1>3, <1>4, <1>5 DEF Next

(* The parts of a set of old parts come before those of the next text.      *)
LEMMA OldBeforeNew ==
    ASSUME NEW P, P \subseteq Part, SentOnly(P), nsent \in Nat, nsent + 1 \in 1 .. MaxText
    PROVE  Before(P, Parts(Text(nsent + 1))) /\ \A p \in P : p.text < nsent + 1
<1>1. \A p \in P : p.text \in Nat /\ p.text <= nsent
  BY DEF SentOnly, Part
<1>2. \A p \in P : p.text < nsent + 1
  BY <1>1
<1> QED
  BY <1>2, TextFacts DEF Before, Precedes

LEMMA StillSent ==
    ASSUME NEW P, P \subseteq Part, SentOnly(P), nsent \in Nat, nsent' \in Nat, nsent <= nsent'
    PROVE  SentOnly(P)'
<1>1. \A p \in P : p.text \in Nat /\ p.text <= nsent
  BY DEF SentOnly, Part
<1> QED
  BY <1>1 DEF SentOnly

LEMMA BeforeUnion ==
    ASSUME NEW P, NEW Q, NEW R, Before(P, Q), Before(P, R) PROVE Before(P, Q \cup R)
BY DEF Before

LEMMA BeforeSubset ==
    ASSUME NEW P, NEW Q, NEW R, Before(P, Q), R \subseteq Q PROVE Before(P, R)
BY DEF Before

(* A text that is sent lies behind everything its connection carried.       *)
LEMMA SendStep ==
    ASSUME LinkInv, TypeOK', HostSends PROVE WireInv' /\ DataInv' /\ AvoidInv'
<1>1. cur \in Conn /\ nsent + 1 \in 1 .. MaxText /\ nsent \in Nat /\ nsent' = nsent + 1
  BY MaxAssumption DEF HostSends, HostInv, TypeOK, LinkInv
<1>2. UNCHANGED <<data, avoids>> /\ nsent' \in Nat /\ nsent <= nsent'
  BY <1>1 DEF HostSends, topics
<1>3. CASE thread[cur] = "closed"
  BY <1>2, <1>3, QuietSteps DEF LinkInv, HostSends
<1>4. CASE thread[cur] # "closed"
  <2> DEFINE new == Parts(Text(nsent + 1))
  <2>1. wire' = [wire EXCEPT ![cur] = @ \o Text(nsent + 1)]
    BY <1>4 DEF HostSends
  <2>2. \A c \in Conn : wire[c] \in Data /\ data[c] \in Data /\ wire'[c] \in Data
    BY DEF LinkInv, TypeOK
  <2>3. \A c \in Conn : Parts(wire[c]) \subseteq Part /\ Parts(data[c]) \subseteq Part
    BY <2>2, PartsType
  <2>4. /\ wire'[cur] = wire[cur] \o Text(nsent + 1)
        /\ Parts(wire'[cur]) = Parts(wire[cur]) \cup new
        /\ Ordered(wire'[cur]) /\ ClockBetween(wire'[cur]) /\ EndsWithClock(wire'[cur])
    <3>1. /\ Ordered(wire[cur]) /\ ClockBetween(wire[cur]) /\ EndsWithClock(wire[cur])
          /\ SentOnly(Parts(wire[cur]))
      BY <1>1 DEF LinkInv, WireInv
    <3>2. \A p \in Parts(wire[cur]) : p.text < nsent + 1
      BY <1>1, <2>3, <3>1, OldBeforeNew
    <3>3. wire'[cur] = wire[cur] \o Text(nsent + 1)
      BY <1>1, <2>1 DEF LinkInv, TypeOK
    <3> QED
      BY <1>1, <2>2, <3>1, <3>2, <3>3, SendFacts
  <2>5. \A c \in Conn : c # cur => wire'[c] = wire[c]
    BY <2>1, <1>1 DEF LinkInv, TypeOK
  <2>6. WireInv'
    <3> SUFFICES ASSUME NEW c \in Conn
                 PROVE  /\ Ordered(wire'[c]) /\ ClockBetween(wire'[c])
                        /\ EndsWithClock(wire'[c]) /\ SentOnly(Parts(wire[c]))'
      BY DEF WireInv
    <3>1. SentOnly(Parts(wire[c]))
      BY DEF LinkInv, WireInv
    <3>2. \A p \in Parts(wire[c]) : p.text <= nsent'
      BY <1>2, <1>1, <2>3, <3>1, StillSent DEF SentOnly
    <3>3. \A p \in new : p.text = nsent + 1
      BY <1>1, TextFacts
    <3>4. CASE c = cur
      <4>1. \A p \in Parts(wire[c]) \cup new : p.text <= nsent'
        BY <1>1, <3>2, <3>3
      <4>2. Parts(wire'[c]) = Parts(wire[c]) \cup new
        BY <2>4, <3>4
      <4>3. \A p \in Parts(wire'[c]) : p.text <= nsent'
        BY <4>1, <4>2
      <4> QED
        BY <2>4, <3>4, <4>3 DEF SentOnly
    <3>5. CASE c # cur
      BY <2>5, <3>2, <3>5 DEF SentOnly, LinkInv, WireInv
    <3> QED
      BY <3>4, <3>5
  <2>7. ASSUME NEW P, P \subseteq Part, SentOnly(P), NEW c \in Conn, Before(P, Parts(wire[c]))
        PROVE  Before(P, Parts(wire'[c]))
    <3>1. Before(P, new)
      BY <1>1, <2>7, OldBeforeNew
    <3>2. CASE c = cur
      <4>1. Before(P, Parts(wire[c]) \cup new)
        BY <2>7, <3>1, BeforeUnion
      <4> QED
        BY <2>4, <3>2, <4>1
    <3>3. CASE c # cur
      BY <2>5, <2>7, <3>3
    <3> QED
      BY <3>2, <3>3
  <2>8. DataInv'
    <3> SUFFICES ASSUME NEW c \in Conn
                 PROVE  /\ Unmixed(data[c]) /\ SentOnly(Parts(data[c]))'
                        /\ Before(Parts(data[c]), Parts(wire'[c]))
      BY <1>2 DEF DataInv
    <3>1. Unmixed(data[c]) /\ SentOnly(Parts(data[c])) /\ Before(Parts(data[c]), Parts(wire[c]))
      BY DEF LinkInv, DataInv
    <3>2. \A p \in Parts(data[c]) : p.text <= nsent'
      BY <1>1, <1>2, <2>3, <3>1, StillSent DEF SentOnly
    <3>3. SentOnly(Parts(data[c]))'
      BY <1>2, <3>2 DEF SentOnly
    <3> QED
      BY <2>3, <2>7, <3>1, <3>3
  <2>9. AvoidInv'
    <3> SUFFICES ASSUME NEW i \in 1 .. Len(avoids)
                 PROVE  LET P == Parts(avoids[i].from)
                            c == avoids[i].c IN
                        /\ Unmixed(avoids[i].from) /\ SentOnly(P)'
                        /\ Before(P, Parts(wire'[c])) /\ Before(P, Parts(data[c]))
                        /\ \A j \in 1 .. Len(avoids) :
                             i < j /\ avoids[j].c = c => Before(P, Parts(avoids[j].from))
      BY <1>2 DEF AvoidInv
    <3>1. avoids[i].c \in Conn /\ Parts(avoids[i].from) \subseteq Part
      BY AvoidType DEF LinkInv
    <3>2. SentOnly(Parts(avoids[i].from)) /\ Before(Parts(avoids[i].from), Parts(wire[avoids[i].c]))
      BY DEF LinkInv, AvoidInv
    <3>3. Before(Parts(avoids[i].from), Parts(wire'[avoids[i].c]))
      BY <2>7, <3>1, <3>2
    <3>4. \A p \in Parts(avoids[i].from) : p.text <= nsent'
      BY <1>1, <1>2, <3>1, <3>2, StillSent DEF SentOnly
    <3> QED
      BY <1>2, <3>3, <3>4 DEF LinkInv, AvoidInv, SentOnly
  <2> QED
    BY <2>6, <2>8, <2>9
<1> QED
  BY <1>3, <1>4

(* A recv takes the parts at the front: they come before those that stay,   *)
(* and after everything the connection's thread has published.              *)
LEMMA ReceiveStep ==
    ASSUME LinkInv, TypeOK', NEW c \in Conn, Receive(c) PROVE WireInv' /\ DataInv' /\ AvoidInv'
<1>1. PICK k \in 1 .. Len(wire[c]) :
        /\ wire' = [wire EXCEPT ![c] = SubSeq(@, k + 1, Len(@))]
        /\ \E d \in Parsed(SubSeq(wire[c], 1, k)) : data' = [data EXCEPT ![c] = d]
  BY DEF Receive
<1> DEFINE w == wire[c]
           a == SubSeq(wire[c], 1, k)
           b == SubSeq(wire[c], k + 1, Len(wire[c]))
<1>2. PICK d \in Parsed(a) : data' = [data EXCEPT ![c] = d]
  BY <1>1
<1>3. /\ \A e \in Conn : wire[e] \in Data /\ data[e] \in Data
      /\ wire'[c] = b /\ data'[c] = d
      /\ \A e \in Conn : e # c => wire'[e] = wire[e] /\ data'[e] = data[e]
      /\ avoids' = avoids /\ nsent' = nsent
  <2>1. wire \in [Conn -> Data] /\ data \in [Conn -> Data]
    BY DEF LinkInv, TypeOK
  <2>2. wire' = [wire EXCEPT ![c] = b]
    BY <1>1
  <2>3. avoids' = avoids /\ nsent' = nsent
    BY DEF Receive, client, topics
  <2> HIDE DEF a, b, w
  <2> QED
    BY <1>2, <2>1, <2>2, <2>3
<1>4. /\ a \in Data /\ Parts(a) \subseteq Parts(w) /\ ClockBetween(a)
      /\ b \in Data /\ Parts(b) \subseteq Parts(w)
      /\ Ordered(b) /\ ClockBetween(b) /\ EndsWithClock(b)
      /\ Before(Parts(a), Parts(b))
  BY <1>1, <1>3, CutFacts DEF LinkInv, WireInv
<1>5. Parts(d) \subseteq Parts(a) /\ Unmixed(d)
  BY <1>4, ParsedFacts
<1> HIDE DEF a, b
<1>6. \A P : SentOnly(P) => SentOnly(P)'
  BY <1>3 DEF SentOnly
<1>7. SentOnly(Parts(w)) /\ SentOnly(Parts(b)) /\ SentOnly(Parts(d))
  <2>1. SentOnly(Parts(w))
    BY DEF LinkInv, WireInv
  <2> QED
    BY <1>4, <1>5, <2>1 DEF SentOnly
<1>8. WireInv'
  <2> SUFFICES ASSUME NEW e \in Conn
               PROVE  /\ Ordered(wire'[e]) /\ ClockBetween(wire'[e])
                      /\ EndsWithClock(wire'[e]) /\ SentOnly(Parts(wire[e]))'
    BY DEF WireInv
  <2>1. CASE e = c
    BY <1>3, <1>4, <1>7, <2>1 DEF SentOnly
  <2>2. CASE e # c
    BY <1>3, <2>2 DEF SentOnly, LinkInv, WireInv
  <2> QED
    BY <2>1, <2>2
<1>9. DataInv'
  <2> SUFFICES ASSUME NEW e \in Conn
               PROVE  /\ Unmixed(data'[e]) /\ SentOnly(Parts(data[e]))'
                      /\ Before(Parts(data'[e]), Parts(wire'[e]))
    BY DEF DataInv
  <2>1. CASE e = c
    <3>1. Before(Parts(d), Parts(b))
      BY <1>4, <1>5 DEF Before
    <3> QED
      BY <1>3, <1>5, <1>7, <2>1, <3>1 DEF SentOnly
  <2>2. CASE e # c
    BY <1>3, <2>2 DEF SentOnly, LinkInv, DataInv
  <2> QED
    BY <2>1, <2>2
<1>10. AvoidInv'
  <2> SUFFICES ASSUME NEW i \in 1 .. Len(avoids)
               PROVE  LET P == Parts(avoids[i].from)
                          e == avoids[i].c IN
                      /\ Unmixed(avoids[i].from) /\ SentOnly(P)'
                      /\ Before(P, Parts(wire'[e])) /\ Before(P, Parts(data'[e]))
                      /\ \A j \in 1 .. Len(avoids) :
                           i < j /\ avoids[j].c = e => Before(P, Parts(avoids[j].from))
    BY <1>3 DEF AvoidInv
  <2> DEFINE P == Parts(avoids[i].from)
             e == avoids[i].c
  <2>1. /\ Unmixed(avoids[i].from) /\ SentOnly(P) /\ Before(P, Parts(wire[e])) /\ Before(P, Parts(data[e]))
        /\ \A j \in 1 .. Len(avoids) : i < j /\ avoids[j].c = e => Before(P, Parts(avoids[j].from))
    BY DEF LinkInv, AvoidInv
  <2>2. e \in Conn
    BY AvoidType DEF LinkInv
  <2>3. SentOnly(P)'
    BY <1>3, <2>1 DEF SentOnly
  <2>4. CASE e = c
    <3>1. Before(P, Parts(b)) /\ Before(P, Parts(d))
      BY <1>4, <1>5, <2>1, <2>4 DEF Before
    <3> QED
      BY <1>3, <2>1, <2>3, <2>4, <3>1
  <2>5. CASE e # c
    BY <1>3, <2>1, <2>2, <2>3, <2>5
  <2> QED
    BY <2>4, <2>5
<1> QED
  BY <1>8, <1>9, <1>10

(* What is published comes after everything published before it.            *)
LEMMA PublishStep ==
    ASSUME LinkInv, TypeOK', NEW c \in Conn, PublishesAvoid(c)
    PROVE  WireInv' /\ DataInv' /\ AvoidInv'
<1> DEFINE entry == [c |-> c, from |-> data[c]]
           n == Len(avoids) + 1
<1>1. /\ UNCHANGED <<wire, nsent>>
      /\ \A e \in Conn : data'[e] = data[e] \/ data'[e] = <<>>
  BY DEF PublishesAvoid, client, link, LinkInv, TypeOK, Nothing
<1>2. /\ avoids' = Append(avoids, entry) /\ Len(avoids') = n /\ Len(avoids) \in Nat
      /\ \A i \in 1 .. Len(avoids) : avoids'[i] = avoids[i]
      /\ avoids'[n] = entry
  <2>1. avoids \in Seq([c : Conn, from : Data]) /\ entry \in [c : Conn, from : Data]
    BY DEF LinkInv, TypeOK
  <2>2. avoids' = Append(avoids, entry)
    BY DEF PublishesAvoid
  <2> HIDE DEF entry
  <2> QED
    BY <2>1, <2>2, AppendProperties, LenProperties
<1>3. \A e \in Conn : Parts(data'[e]) = Parts(data[e]) \/ Parts(data'[e]) = {}
  BY <1>1, EmptyParts
<1>4. WireInv'
  BY <1>1 DEF LinkInv, WireInv, SentOnly
<1>5. DataInv'
  <2>1. Unmixed(<<>>)
    BY DEF Unmixed
  <2>2. \A e \in Conn : Unmixed(data'[e])
    BY <1>1, <2>1 DEF LinkInv, DataInv
  <2>3. \A e \in Conn : \A p \in Parts(data'[e]) : p.text <= nsent'
    BY <1>1, <1>3 DEF LinkInv, DataInv, SentOnly
  <2>4. \A e \in Conn : Before(Parts(data'[e]), Parts(wire'[e]))
    BY <1>1, <1>3 DEF LinkInv, DataInv, Before
  <2> QED
    BY <2>2, <2>3, <2>4 DEF DataInv, SentOnly
<1>6. AvoidInv'
  <2> SUFFICES ASSUME NEW i \in 1 .. n
               PROVE  LET P == Parts(avoids'[i].from)
                          e == avoids'[i].c IN
                      /\ Unmixed(avoids'[i].from) /\ (\A p \in P : p.text <= nsent')
                      /\ Before(P, Parts(wire'[e])) /\ Before(P, Parts(data'[e]))
                      /\ \A j \in 1 .. n :
                           i < j /\ avoids'[j].c = e => Before(P, Parts(avoids'[j].from))
    BY <1>2 DEF AvoidInv, SentOnly
  <2> DEFINE P == Parts(avoids'[i].from)
             e == avoids'[i].c
  <2>1. CASE i \in 1 .. Len(avoids)
    <3>1. avoids'[i] = avoids[i] /\ e \in Conn
      BY <1>2, <2>1, AvoidType DEF LinkInv
    <3>2. /\ Unmixed(avoids'[i].from) /\ SentOnly(P) /\ Before(P, Parts(wire[e])) /\ Before(P, Parts(data[e]))
          /\ \A j \in 1 .. Len(avoids) : i < j /\ avoids[j].c = e => Before(P, Parts(avoids[j].from))
      BY <2>1, <3>1 DEF LinkInv, AvoidInv
    <3>3. (\A p \in P : p.text <= nsent') /\ Before(P, Parts(wire'[e])) /\ Before(P, Parts(data'[e]))
      BY <1>1, <1>3, <3>1, <3>2 DEF SentOnly, Before
    <3>4. ASSUME NEW j \in 1 .. n, i < j, avoids'[j].c = e
          PROVE  Before(P, Parts(avoids'[j].from))
      <4>1. CASE j \in 1 .. Len(avoids)
        BY <1>2, <3>2, <3>4, <4>1
      <4>2. CASE j = n
        BY <1>2, <3>2, <3>4, <4>2
      <4> QED
        BY <1>2, <4>1, <4>2
    <3> QED
      BY <3>2, <3>3, <3>4
  <2>2. CASE i = n
    <3>0. avoids'[i].c = c /\ avoids'[i].from = data[c]
      BY <1>2, <2>2
    <3>1. e = c /\ P = Parts(data[c])
      BY <3>0
    <3>2. Unmixed(avoids'[i].from) /\ SentOnly(P) /\ Before(P, Parts(wire[c]))
      BY <3>0 DEF LinkInv, DataInv
    <3>3. data'[c] = <<>>
      BY DEF PublishesAvoid, LinkInv, TypeOK, Nothing
    <3>4. Before(P, Parts(data'[c])) /\ Before(P, Parts(wire'[c])) /\ \A p \in P : p.text <= nsent'
      BY <1>1, <3>2, <3>3, EmptyParts DEF Before, SentOnly
    <3>5. \A j \in 1 .. n : ~(i < j)
      BY <1>2, <2>2
    <3> QED
      BY <3>1, <3>2, <3>4, <3>5
  <2> QED
    BY <1>2, <2>1, <2>2
<1> QED
  BY <1>4, <1>5, <1>6

LEMMA LinkStep == LinkInv /\ [Next]_vars => LinkInv'
<1> SUFFICES ASSUME LinkInv, [Next]_vars PROVE LinkInv'
  OBVIOUS
<1>1. TypeOK' /\ HostInv'
  BY TypeStep DEF LinkInv
<1>2. ASSUME nsent <= nsent', avoids' = avoids,
             \A c \in Conn : /\ wire'[c] = wire[c] \/ wire'[c] = <<>>
                             /\ data'[c] = data[c] \/ data'[c] = <<>>
      PROVE  LinkInv'
  BY <1>1, <1>2, QuietSteps DEF LinkInv
<1>3. nsent \in Nat /\ nsent <= nsent /\ nsent <= nsent + 1
  BY DEF LinkInv, TypeOK
<1> USE DEF client, link, topics
<1>4. CASE UNCHANGED vars
  BY <1>2, <1>3, <1>4 DEF vars
<1>5. CASE Host
  <2>1. CASE HostSends
    BY <1>1, <2>1, SendStep DEF LinkInv
  <2>2. CASE HostSendFails
    BY <1>2, <1>3, <2>2 DEF HostSendFails
  <2>3. CASE HostStarts \/ conect_setup \/ HostEnds
    BY <1>2, <1>3, <2>3 DEF HostStarts, conect_setup, HostEnds
  <2> QED
    BY <1>5, <2>1, <2>2, <2>3 DEF Host
<1>6. CASE ResetArrives
  BY <1>2, <1>3, <1>6 DEF ResetArrives
<1>7. ASSUME NEW c \in Conn, Server(c) PROVE LinkInv'
  <2>1. CASE Receive(c)
    BY <1>1, <2>1, ReceiveStep DEF LinkInv
  <2>2. CASE PublishesAvoid(c)
    BY <1>1, <2>2, PublishStep DEF LinkInv
  <2>3. CASE TimesOut(c) \/ LogFails(c) \/ AvoidRaises(c)
    <3>1. wire \in [Conn -> Data] /\ data \in [Conn -> Data]
      BY DEF LinkInv, TypeOK
    <3> QED
      BY <1>2, <1>3, <2>3, <3>1 DEF TimesOut, LogFails, AvoidRaises, Close, Nothing
  <2>4. CASE Accept(c) \/ SetsObsMsg(c) \/ PublishesObsInfo(c)
    BY <1>2, <1>3, <2>4 DEF Accept, SetsObsMsg, SetsField, PublishesObsInfo
  <2> QED
    BY <1>7, <2>1, <2>2, <2>3, <2>4 DEF Server, ConnThread
<1> QED
  BY <1>4, <1>5, <1>6, <1>7 DEF Next

(* A whole text is received whole by a recv that ends at a clock.           *)
LEMMA WholeReceived ==
    ASSUME NEW m \in 1 .. MaxText, NEW k \in 1 .. Len(Text(m)),
           ~(Text(m)[k].part < PartsOfText)
    PROVE  /\ SubSeq(Text(m), k + 1, Len(Text(m))) = <<>>
           /\ Parsed(SubSeq(Text(m), 1, k)) = {Text(m)}
<1>1. /\ Text(m) \in Seq(Part) /\ Len(Text(m)) = PartsOfText /\ PartsOfText \in Nat \ {0}
      /\ Text(m)[k].part = k
  <2>1. /\ Text(m) \in Seq(Part) /\ Len(Text(m)) = PartsOfText
        /\ \A i \in 1 .. PartsOfText : Text(m)[i] = [text |-> m, part |-> i]
    BY TextFacts DEF Data
  <2>2. Text(m)[k] = [text |-> m, part |-> k]
    BY <2>1
  <2> QED
    BY <2>1, <2>2, SizeAssumption
<1>2. k = PartsOfText /\ k \in Nat
  BY <1>1
<1>3. SubSeq(Text(m), 1, k) = Text(m)
  <2>1. \A i \in 1 .. k : Text(m)[i] \in Part
    BY <1>1, <1>2, ElementOfSeq
  <2>2. /\ SubSeq(Text(m), 1, k) \in Seq(Part) /\ Len(SubSeq(Text(m), 1, k)) = k
        /\ \A i \in 1 .. k : SubSeq(Text(m), 1, k)[i] = Text(m)[i]
    <3>1. /\ SubSeq(Text(m), 1, k) \in Seq(Part)
          /\ Len(SubSeq(Text(m), 1, k)) = IF 1 <= k THEN k - 1 + 1 ELSE 0
          /\ \A i \in 1 .. k - 1 + 1 : SubSeq(Text(m), 1, k)[i] = Text(m)[1 + i - 1]
      BY <1>2, <2>1, SubSeqProperties
    <3>2. 1 <= k /\ k - 1 + 1 = k /\ \A i \in 1 .. k : 1 + i - 1 = i
      BY <1>2, <1>1
    <3> QED
      BY <3>1, <3>2
  <2> QED
    BY <1>1, <1>2, <2>2, SeqEqual
<1>4. SubSeq(Text(m), k + 1, Len(Text(m))) = <<>>
  <2>1. k + 1 > Len(Text(m)) /\ \A i \in k + 1 .. Len(Text(m)) : Text(m)[i] \in Part
    BY <1>1, <1>2
  <2>2. /\ SubSeq(Text(m), k + 1, Len(Text(m))) \in Seq(Part)
        /\ Len(SubSeq(Text(m), k + 1, Len(Text(m)))) = 0
    BY <1>1, <1>2, <2>1, SubSeqProperties
  <2> QED
    BY <2>2, EmptySeq
<1>5. WholeText(Text(m))
  BY DEF WholeText
<1> QED
  BY <1>3, <1>4, <1>5 DEF Parsed

LEMMA PacedStep == LinkInv /\ PacedInv /\ [Next]_vars => PacedInv'
<1> SUFFICES ASSUME LinkInv, PacedInv, [Next]_vars PROVE PacedInv'
  OBVIOUS
<1> USE DEF client, link, topics
<1>0. wire \in [Conn -> Data] /\ data \in [Conn -> Data] /\ blurred \in BOOLEAN
  BY DEF LinkInv, TypeOK
<1>1. ASSUME blurred' = blurred, avoids' = avoids,
             \A c \in Conn : /\ wire'[c] = wire[c] \/ wire'[c] = <<>>
                             /\ Working(c)' => Working(c) /\ data'[c] = data[c]
      PROVE  PacedInv'
  <2>1. WiresWhole => WiresWhole'
    BY <1>1 DEF WiresWhole
  <2>2. ListsWhole => ListsWhole'
    BY <1>1 DEF ListsWhole
  <2>3. AvoidsWhole => AvoidsWhole'
    BY <1>1 DEF AvoidsWhole
  <2> QED
    BY <1>1, <2>1, <2>2, <2>3 DEF PacedInv
<1>2. CASE UNCHANGED vars
  BY <1>1, <1>2 DEF vars, Working
<1>3. CASE Host
  <2>1. CASE HostSends
    <3> SUFFICES ASSUME ~blurred' PROVE PacedInv'
      BY DEF PacedInv
    <3>1. ~blurred /\ wire[cur] = <<>>
      BY <2>1 DEF HostSends
    <3>2. cur \in Conn /\ nsent + 1 \in 1 .. MaxText
      BY <2>1, MaxAssumption DEF HostSends, LinkInv, HostInv, TypeOK
    <3>3. wire' = wire \/ wire' = [wire EXCEPT ![cur] = wire[cur] \o Text(nsent + 1)]
      BY <2>1 DEF HostSends
    <3>4. wire[cur] \o Text(nsent + 1) = Text(nsent + 1)
      <4>1. Text(nsent + 1) \in Seq(Part)
        BY <3>2, TextFacts DEF Data
      <4> QED
        BY <3>1, <4>1, ConcatEmptySeq
    <3>5. WholeText(Text(nsent + 1))
      BY <3>2 DEF WholeText
    <3>6. \A c \in Conn : wire'[c] = wire[c] \/ wire'[c] = Text(nsent + 1)
      BY <1>0, <3>3, <3>4
    <3>7. UNCHANGED <<thread, data, avoids>>
      BY <2>1 DEF HostSends
    <3> QED
      BY <3>1, <3>5, <3>6, <3>7 DEF PacedInv, WiresWhole, ListsWhole, AvoidsWhole, Working
  <2>2. CASE HostStarts \/ conect_setup \/ HostSendFails \/ HostEnds
    BY <1>1, <2>2 DEF HostStarts, conect_setup, HostSendFails, HostEnds, Working
  <2> QED
    BY <1>3, <2>1, <2>2 DEF Host
<1>4. CASE ResetArrives
  BY <1>1, <1>4 DEF ResetArrives, Working
<1>5. ASSUME NEW c \in Conn, Server(c) PROVE PacedInv'
  <2>0. thread \in [Conn -> {"none", "recv", "num", "dist", "direc",
                             "publish", "avoid", "closed"}]
    BY DEF LinkInv, TypeOK
  <2>1. CASE Receive(c)
    <3> SUFFICES ASSUME ~blurred' PROVE PacedInv'
      BY DEF PacedInv
    <3>1. PICK k \in 1 .. Len(wire[c]) :
            /\ wire' = [wire EXCEPT ![c] = SubSeq(@, k + 1, Len(@))]
            /\ \E d \in Parsed(SubSeq(wire[c], 1, k)) : data' = [data EXCEPT ![c] = d]
            /\ blurred' = (blurred \/ wire[c][k].part < PartsOfText)
      BY <2>1 DEF Receive
    <3>2. ~blurred /\ ~(wire[c][k].part < PartsOfText)
      BY <3>1
    <3>3. PICK m \in 1 .. MaxText : wire[c] = Text(m)
      BY <2>1, <3>2 DEF Receive, PacedInv, WiresWhole, WholeText
    <3>4. /\ SubSeq(wire[c], k + 1, Len(wire[c])) = <<>>
          /\ Parsed(SubSeq(wire[c], 1, k)) = {Text(m)}
      BY <3>2, <3>3, WholeReceived
    <3>5. wire' = [wire EXCEPT ![c] = <<>>] /\ data' = [data EXCEPT ![c] = Text(m)]
      BY <3>1, <3>4
    <3>6. WholeText(Text(m))
      BY DEF WholeText
    <3>7. /\ \A e \in Conn : wire'[e] = wire[e] \/ wire'[e] = <<>>
          /\ \A e \in Conn : Working(e)' => data'[e] = Text(m) \/ (Working(e) /\ data'[e] = data[e])
          /\ avoids' = avoids
      BY <1>0, <2>0, <2>1, <3>5 DEF Receive, Working
    <3> QED
      BY <3>2, <3>6, <3>7 DEF PacedInv, WiresWhole, ListsWhole, AvoidsWhole
  <2>2. CASE Accept(c)
    BY <1>1, <2>0, <2>2 DEF Accept, Working
  <2>3. CASE SetsObsMsg(c)
    BY <1>1, <2>0, <2>3 DEF SetsObsMsg, SetsField, Working
  <2>4. CASE PublishesObsInfo(c)
    BY <1>1, <2>0, <2>4 DEF PublishesObsInfo, Working
  <2>5. CASE TimesOut(c) \/ LogFails(c) \/ AvoidRaises(c)
    BY <1>0, <1>1, <2>0, <2>5 DEF TimesOut, LogFails, AvoidRaises, Close, Working
  <2>6. CASE PublishesAvoid(c)
    <3> SUFFICES ASSUME ~blurred' PROVE PacedInv'
      BY DEF PacedInv
    <3>1. ~blurred /\ wire' = wire /\ WholeText(data[c])
      BY <2>6 DEF PublishesAvoid, PacedInv, ListsWhole, Working
    <3>2. \A e \in Conn : Working(e)' => Working(e) /\ data'[e] = data[e]
      BY <1>0, <2>0, <2>6 DEF PublishesAvoid, Working
    <3>3. /\ Len(avoids') = Len(avoids) + 1 /\ Len(avoids) \in Nat
          /\ \A i \in 1 .. Len(avoids) : avoids'[i] = avoids[i]
          /\ avoids'[Len(avoids) + 1] = [c |-> c, from |-> data[c]]
      <4>1. /\ avoids \in Seq([c : Conn, from : Data])
            /\ [c |-> c, from |-> data[c]] \in [c : Conn, from : Data]
        BY DEF LinkInv, TypeOK
      <4> QED
        BY <2>6, <4>1, AppendProperties, LenProperties DEF PublishesAvoid
    <3>4. \A i \in 1 .. Len(avoids') : WholeText(avoids'[i].from)
      <4> SUFFICES ASSUME NEW i \in 1 .. Len(avoids) + 1 PROVE WholeText(avoids'[i].from)
        BY <3>3
      <4>1. CASE i = Len(avoids) + 1
        BY <3>1, <3>3, <4>1
      <4>2. CASE i \in 1 .. Len(avoids)
        BY <3>1, <3>3, <4>2 DEF PacedInv, WiresWhole, ListsWhole, AvoidsWhole
      <4> QED
        BY <3>3, <4>1, <4>2
    <3> QED
      BY <3>1, <3>2, <3>4 DEF PacedInv, WiresWhole, ListsWhole, AvoidsWhole
  <2> QED
    BY <1>5, <2>1, <2>2, <2>3, <2>4, <2>5, <2>6 DEF Server, ConnThread
<1> QED
  BY <1>2, <1>3, <1>4, <1>5 DEF Next

LEMMA LinkAlways == Spec => [](LinkInv /\ PacedInv)
BY LinkStarts, LinkStep, PacedStep, PTL DEF Spec

-----------------------------------------------------------------------------
(* The types of every variable: whatever recv cuts off, acc holds parts.    *)
THEOREM TypeCorrect == Spec => []TypeOK
BY LinkAlways, PTL DEF LinkInv

(* However recv cuts the bytes, an angle is from one text, but for the last *)
(* digits of the clock before it: any other clock in the chunk stops acc.   *)
THEOREM PingsMixByClockOnly == Spec => []MixedByClockOnly
<1>1. LinkInv => MixedByClockOnly
  <2> SUFFICES ASSUME LinkInv, NEW i \in DOMAIN avoids,
                      NEW j \in DOMAIN avoids[i].from, NEW k \in DOMAIN avoids[i].from,
                      j < k, avoids[i].from[j].text # avoids[i].from[k].text
               PROVE  j = 1 /\ avoids[i].from[1].part = PartsOfText
    BY DEF MixedByClockOnly
  <2>1. i \in 1 .. Len(avoids)
    BY LenProperties DEF LinkInv, TypeOK
  <2>2. avoids[i].from \in Seq(Part)
    BY <2>1, AvoidType DEF LinkInv, Data
  <2>3. j \in 1 .. Len(avoids[i].from) /\ k \in 1 .. Len(avoids[i].from)
    BY <2>2, LenProperties
  <2>4. Unmixed(avoids[i].from)
    BY <2>1 DEF LinkInv, AvoidInv
  <2> QED
    BY <2>3, <2>4 DEF Unmixed
<1> QED
  BY <1>1, LinkAlways, PTL

(* The texts of a connection are published in their order, no part twice.   *)
THEOREM PublishedInOrder == Spec => []InOrder
<1>1. LinkInv => InOrder
  <2> SUFFICES ASSUME LinkInv, NEW i \in DOMAIN avoids, NEW j \in DOMAIN avoids,
                      i < j, avoids[i].c = avoids[j].c,
                      NEW p \in DOMAIN avoids[i].from, NEW q \in DOMAIN avoids[j].from
               PROVE  Precedes(avoids[i].from[p], avoids[j].from[q])
    BY DEF InOrder
  <2>1. i \in 1 .. Len(avoids) /\ j \in 1 .. Len(avoids)
    BY LenProperties DEF LinkInv, TypeOK
  <2>2. avoids[i].from \in Seq(Part) /\ avoids[j].from \in Seq(Part)
    BY <2>1, AvoidType DEF LinkInv, Data
  <2>3. p \in 1 .. Len(avoids[i].from) /\ q \in 1 .. Len(avoids[j].from)
    BY <2>2, LenProperties
  <2>4. Before(Parts(avoids[i].from), Parts(avoids[j].from))
    BY <2>1 DEF LinkInv, AvoidInv
  <2> QED
    BY <2>3, <2>4 DEF Before, Parts
<1> QED
  BY <1>1, LinkAlways, PTL

(* A host that waits for the server, and a kernel that does not split its   *)
(* texts, have every text published whole.                                  *)
THEOREM PacedTextsAreExact == Spec => []PacedIsExact
<1>1. LinkInv /\ PacedInv => PacedIsExact
  <2>1. LinkInv => DOMAIN avoids = 1 .. Len(avoids)
    BY LenProperties DEF LinkInv, TypeOK
  <2> QED
    BY <2>1 DEF PacedInv, AvoidsWhole, PacedIsExact
<1> QED
  BY <1>1, LinkAlways, PTL
-----------------------------------------------------------------------------
(* Why ObsInfoIsOneSensing fails: threads of two connections between the    *)
(* first assignment to obsmsg and its publication.                          *)
Filling(c) == thread[c] \in {"dist", "direc", "publish"}

Apart == \A c, d \in Conn : Filling(c) /\ Filling(d) => c = d

FieldsInv ==
    \A c \in Conn :
        /\ Filling(c) => obsmsg.num = data[c]
        /\ thread[c] \in {"direc", "publish"} => obsmsg.dist = data[c]
        /\ thread[c] = "publish" => obsmsg.direc = data[c]

(* Steps that neither fill, publish, nor change the data a thread fills in. *)
LEMMA FieldsKept ==
    ASSUME FieldsInv, UNCHANGED obsmsg,
           \A c \in Conn : Filling(c)' => /\ UNCHANGED <<thread[c], data[c]>>
    PROVE  FieldsInv'
BY DEF FieldsInv, Filling

LEMMA FieldsStep ==
    ASSUME TypeOK, FieldsInv, ObsInfoIsOneSensing, Apart, Apart', [Next]_vars
    PROVE  FieldsInv' /\ ObsInfoIsOneSensing'
<1> USE DEF ObsInfoIsOneSensing, topics
<1>0. /\ thread \in [Conn -> {"none", "recv", "num", "dist", "direc", "publish", "avoid", "closed"}]
      /\ data \in [Conn -> Data] /\ obsmsg \in [num : Data, dist : Data, direc : Data]
  BY DEF TypeOK
<1>1. CASE Host \/ ResetArrives \/ UNCHANGED vars
  <2>1. UNCHANGED <<thread, data, obsmsg, obs_info>>
    BY <1>1 DEF Host, HostStarts, conect_setup, HostSends, HostSendFails, HostEnds, ResetArrives, vars
  <2> QED
    BY <2>1, FieldsKept DEF Filling
<1>2. ASSUME NEW c \in Conn, Server(c) PROVE FieldsInv' /\ ObsInfoIsOneSensing'
  <2>1. CASE Accept(c)
    <3>1. thread' = [thread EXCEPT ![c] = "recv"] /\ UNCHANGED <<data, obsmsg, obs_info>>
      BY <2>1 DEF Accept
    <3> QED
      BY <1>0, <3>1, FieldsKept DEF Filling
  <2>2. CASE Receive(c)
    <3>1. /\ thread' = [thread EXCEPT ![c] = "num"] /\ UNCHANGED <<obsmsg, obs_info>>
          /\ \E d : data' = [data EXCEPT ![c] = d]
      BY <2>2 DEF Receive
    <3> QED
      BY <1>0, <3>1, FieldsKept DEF Filling
  <2>3. CASE TimesOut(c) \/ LogFails(c) \/ AvoidRaises(c)
    <3>1. /\ thread' = [thread EXCEPT ![c] = "closed"] /\ UNCHANGED <<obsmsg, obs_info>>
          /\ data' = [data EXCEPT ![c] = Nothing]
      BY <2>3 DEF TimesOut, LogFails, AvoidRaises, Close
    <3> QED
      BY <1>0, <3>1, FieldsKept DEF Filling
  <2>4. CASE SetsObsMsg(c)
    <3>1. UNCHANGED <<data, obs_info>> /\ \E f \in {"num", "dist", "direc"} :
             /\ obsmsg' = [obsmsg EXCEPT ![f] = data[c]]
             /\ thread' = [thread EXCEPT ![c] = IF f = "num" THEN "dist" ELSE IF f = "dist" THEN "direc" ELSE "publish"]
             /\ thread[c] = f
      BY <2>4 DEF SetsObsMsg, SetsField
    <3>2. \A d \in Conn \ {c} : ~Filling(d)'
      BY <1>0, <3>1 DEF Apart, Filling
    <3>3. FieldsInv'
      BY <1>0, <3>1, <3>2 DEF FieldsInv, Filling
    <3> QED
      BY <3>1, <3>3
  <2>5. CASE PublishesObsInfo(c)
    <3>1. /\ thread' = [thread EXCEPT ![c] = "avoid"] /\ obs_info' = obsmsg
          /\ thread[c] = "publish" /\ UNCHANGED <<data, obsmsg>>
      BY <2>5 DEF PublishesObsInfo
    <3>2. obsmsg.num = data[c] /\ obsmsg.dist = data[c] /\ obsmsg.direc = data[c]
      BY <3>1 DEF FieldsInv, Filling
    <3> QED
      BY <1>0, <3>1, <3>2, FieldsKept DEF Filling
  <2>6. CASE PublishesAvoid(c)
    <3>1. /\ thread' = [thread EXCEPT ![c] = "recv"] /\ UNCHANGED <<obsmsg, obs_info>>
          /\ data' = [data EXCEPT ![c] = Nothing]
      BY <2>6 DEF PublishesAvoid
    <3> QED
      BY <1>0, <3>1, FieldsKept DEF Filling
  <2> QED
    BY <1>2, <2>1, <2>2, <2>3, <2>4, <2>5, <2>6 DEF Server, ConnThread
<1> QED
  BY <1>1, <1>2 DEF Next

(* Every obs_info is of one sensing as long as no two threads of conn_client*)
(* fill the shared obsmsg at the same time; so that is the only way in      *)
(* which its fields are mixed, whatever recv cuts and whatever fails.       *)
THEOREM ObsInfoIsOneIfApart == Spec /\ []Apart => []ObsInfoIsOneSensing
<1>1. Init => FieldsInv /\ ObsInfoIsOneSensing
  BY DEF Init, FieldsInv, Filling, ObsInfoIsOneSensing, EmptyObsInfo
<1>2. TypeOK /\ FieldsInv /\ ObsInfoIsOneSensing /\ Apart /\ Apart' /\ [Next]_vars
        => FieldsInv' /\ ObsInfoIsOneSensing'
  BY FieldsStep
<1> QED
  BY <1>1, <1>2, TypeCorrect, PTL DEF Spec
=============================================================================
