-------------------------- MODULE EchoPeaks_proofs --------------------------
(***************************************************************************)
(* Proofs about extract_peaks and the pairing, for all times, heights,     *)
(* windows and delays with 2 * MaxDelay <= TWidth.                         *)
(***************************************************************************)
EXTENDS EchoPeaks, SequenceTheorems, TLAPS

-----------------------------------------------------------------------------
(* Lists of peaks.                                                          *)

LEMMA HeightsAreNat ==
    ASSUME NEW h \in Heights \cup {0}
    PROVE  h \in Nat
<1>1. CASE h \in Heights
  BY <1>1, HeightAssumption
<1>2. CASE h = 0
  BY <1>2
<1> QED BY <1>1, <1>2

LEMMA PeakFields ==
    ASSUME NEW q \in Peak
    PROVE  q.at \in Nat /\ q.at \in Time /\ q.val \in Heights /\ q.val \in Nat /\ q.val > 0
<1>1. q.at \in Time /\ q.val \in Heights
  BY DEF Peak
<1>2. q.val \in Nat \ {0}
  BY <1>1, HeightAssumption
<1>3. q.at \in Nat
  BY <1>1, TimeAssumption DEF Time
<1> QED BY <1>1, <1>2, <1>3

(* A peak that is further than the window from the last one may be added.   *)
LEMMA AppendPeak ==
    ASSUME NEW p \in Seq(Peak), NEW q \in Peak, FarApart(p),
           p # <<>> => q.at - p[Len(p)].at > TWidth
    PROVE  FarApart(Append(p, q))
<1> SUFFICES ASSUME NEW j \in 1 .. Len(p) + 1, NEW k \in 1 .. Len(p) + 1, j < k
             PROVE  Append(p, q)[k].at - Append(p, q)[j].at > TWidth
  BY DEF FarApart
<1>1. j \in 1 .. Len(p) /\ Append(p, q)[j] = p[j] /\ p[j] \in Peak
  OBVIOUS
<1>2. CASE k \in 1 .. Len(p)
  BY <1>1, <1>2 DEF FarApart
<1>3. CASE k = Len(p) + 1
  <2>1. p # <<>> /\ p[Len(p)] \in Peak /\ Append(p, q)[k] = q
    BY <1>1, <1>3
  <2>2. p[j].at <= p[Len(p)].at
    <3>1. p[j].at \in Nat /\ p[Len(p)].at \in Nat
      BY <1>1, <2>1, PeakFields
    <3>2. CASE j = Len(p)
      BY <3>1, <3>2
    <3>3. CASE j < Len(p)
      BY <1>1, <3>1, <3>3, TimeAssumption DEF FarApart
    <3> QED BY <1>1, <3>2, <3>3
  <2>3. p[j].at \in Nat /\ p[Len(p)].at \in Nat /\ q.at \in Nat
    BY <1>1, <2>1, PeakFields
  <2> QED BY <1>1, <2>1, <2>2, <2>3, TimeAssumption
<1> QED BY <1>2, <1>3

(* The last peak may move to a later time.                                  *)
LEMMA MoveLastPeak ==
    ASSUME NEW p \in Seq(Peak), NEW r \in Seq(Peak), FarApart(p),
           Len(r) = Len(p), p # <<>>,
           \A k \in 1 .. Len(p) : k # Len(p) => r[k] = p[k],
           r[Len(p)].at >= p[Len(p)].at
    PROVE  FarApart(r)
<1> SUFFICES ASSUME NEW j \in 1 .. Len(p), NEW k \in 1 .. Len(p), j < k
             PROVE  r[k].at - r[j].at > TWidth
  BY DEF FarApart
<1>1. r[j] = p[j]
  OBVIOUS
<1>2. p[k].at - p[j].at > TWidth
  BY DEF FarApart
<1>3. r[k].at >= p[k].at
  <2>1. p[k] \in Peak
    BY ElementOfSeq
  <2>2. p[k].at \in Nat
    BY <2>1, PeakFields
  <2> QED BY <2>2
<1>4. r[k] \in Peak /\ p[k] \in Peak /\ p[j] \in Peak
  BY ElementOfSeq
<1>5. r[k].at \in Nat /\ p[k].at \in Nat /\ p[j].at \in Nat
  BY <1>4, PeakFields
<1> QED BY <1>1, <1>2, <1>3, <1>5, TimeAssumption

-----------------------------------------------------------------------------
(* The inductive invariant.  During a scan latest is the time of the last   *)
(* peak, and nothing of the later steps is there yet.                       *)
ScanInv ==
    /\ (pc \in Side /\ peaks[pc] # <<>>)
         => latest = peaks[pc][Len(peaks[pc])].at /\ latest < i
    /\ pc = "R" => peaks["L"] = <<>>
    /\ pc \in Side => n = 1 /\ m = 1 /\ det = <<>>

(* No peak is higher than the strongest maximum, and one is as high.        *)
HeightInv ==
    /\ \A s \in Side : \A k \in 1 .. Len(peaks[s]) : peaks[s][k].val <= strongest[s]
    /\ StrongestKept

(* A detection is a pair of peaks that are near enough, found before the    *)
(* loops reached (n, m); it has at least its number of peaks before it.     *)
Found(k) ==
    /\ det[k].r \in k .. Len(peaks["R"]) /\ det[k].l \in k .. Len(peaks["L"])
    /\ Paired(det[k].r, det[k].l)
    /\ pc = "pair" => det[k].r < n \/ (det[k].r = n /\ det[k].l < m)

PairInv == \A k \in 1 .. Len(det) : Found(k)

IInv == TypeOK /\ ScanInv /\ Separated /\ HeightInv /\ PairInv /\ PairsAscend

(* Before the first scan there are no peaks and no detections.              *)
THEOREM InitIInv == Init => IInv
<1> SUFFICES ASSUME Init PROVE IInv
  OBVIOUS
<1> USE DEF Init, Side
<1>1. TypeOK
  BY TimeAssumption DEF TypeOK
<1>2. ScanInv /\ Separated
  BY DEF ScanInv, Separated, FarApart
<1>3. HeightInv
  BY DEF HeightInv, StrongestKept
<1>4. PairInv /\ PairsAscend
  BY DEF PairInv, PairsAscend
<1> QED BY <1>1, <1>2, <1>3, <1>4 DEF IInv

-----------------------------------------------------------------------------
(* A peak is added.                                                         *)
LEMMA NewPeakStep ==
    ASSUME IInv, NEW t \in Time, NEW v \in Heights, NewPeak(t, v)
    PROVE  IInv'
<1> DEFINE q == [at |-> t, val |-> v]
<1> DEFINE p == peaks[pc]
<1>1. /\ pc \in Side /\ pc' = pc /\ i' = t + 2 /\ i <= t /\ latest' = t
      /\ peaks' = [peaks EXCEPT ![pc] = Append(p, q)]
      /\ strongest' = [strongest EXCEPT ![pc] = IF v > @ THEN v ELSE @]
      /\ n' = n /\ m' = m /\ det' = det /\ text' = text
      /\ ~InWindow(t)
  BY DEF NewPeak, Maximum
<1>2. TypeOK /\ t \in Nat /\ v \in Nat /\ v > 0 /\ q \in Peak /\ p \in Seq(Peak)
  <2>1. q \in Peak
    BY DEF Peak
  <2>2. t \in Nat /\ v \in Nat /\ v > 0
    BY <2>1, PeakFields
  <2> QED BY <1>1, <2>1, <2>2 DEF IInv, TypeOK
<1>3. n = 1 /\ m = 1 /\ det = <<>> /\ det' = <<>>
  BY <1>1 DEF IInv, ScanInv
<1>4. /\ Append(p, q) \in Seq(Peak) /\ Len(Append(p, q)) = Len(p) + 1
      /\ Append(p, q)[Len(p) + 1] = q
      /\ \A k \in 1 .. Len(p) : Append(p, q)[k] = p[k]
  BY <1>2
<1>5. peaks'[pc] = Append(p, q) /\ \A s \in Side : s # pc => peaks'[s] = peaks[s]
  BY <1>1, <1>2 DEF TypeOK
<1>6. /\ strongest'[pc] = IF v > strongest[pc] THEN v ELSE strongest[pc]
      /\ \A s \in Side : s # pc => strongest'[s] = strongest[s]
      /\ strongest[pc] \in Nat
  <2>1. strongest \in [Side -> Heights \cup {0}]
    BY <1>2 DEF TypeOK
  <2>2. strongest[pc] \in Heights \cup {0}
    BY <1>1, <2>1
  <2>3. strongest[pc] \in Nat
    BY <2>2, HeightsAreNat
  <2> QED BY <1>1, <2>1, <2>3
<1> HIDE DEF q, p
<1>7. TypeOK'
  <2>1. peaks' \in [Side -> Seq(Peak)]
    BY <1>1, <1>2, <1>4 DEF TypeOK, p
  <2>2. strongest' \in [Side -> Heights \cup {0}]
    BY <1>1, <1>2 DEF TypeOK
  <2>3. Len(peaks'["R"]) \in Nat /\ Len(peaks'["L"]) \in Nat
    BY <2>1 DEF Side
  <2> QED BY <1>1, <1>2, <1>3, <2>1, <2>2, <2>3 DEF TypeOK
<1>8. ScanInv'
  <2>1. peaks'[pc][Len(peaks'[pc])].at = t
    BY <1>4, <1>5 DEF q
  <2>2. pc = "R" => peaks'["L"] = <<>>
    BY <1>1, <1>5 DEF IInv, ScanInv, Side
  <2> QED BY <1>1, <1>2, <1>3, <2>1, <2>2 DEF ScanInv
<1>9. Separated'
  <2>1. p # <<>> => q.at - p[Len(p)].at > TWidth
    <3>1. p # <<>> => latest = p[Len(p)].at /\ ~(t - latest <= TWidth)
      BY <1>1 DEF IInv, ScanInv, InWindow, p
    <3>2. q.at = t /\ t \in Nat /\ latest \in Nat
      BY <1>2 DEF q, TypeOK
    <3> QED BY <3>1, <3>2, TimeAssumption
  <2>2. FarApart(Append(p, q))
    BY <1>1, <1>2, <2>1, AppendPeak DEF IInv, Separated, p
  <2> QED BY <1>1, <1>5, <2>2 DEF IInv, Separated
<1>10. HeightInv'
  <2>1. ASSUME NEW s \in Side, s # pc
        PROVE  /\ \A k \in 1 .. Len(peaks'[s]) : peaks'[s][k].val <= strongest'[s]
               /\ strongest'[s] > 0 =>
                    \E k \in 1 .. Len(peaks'[s]) : peaks'[s][k].val = strongest'[s]
    BY <1>5, <1>6, <2>1 DEF IInv, HeightInv, StrongestKept
  <2>2. \A k \in 1 .. Len(p) + 1 : Append(p, q)[k].val <= strongest'[pc]
    <3> SUFFICES ASSUME NEW k \in 1 .. Len(p) + 1
                 PROVE  Append(p, q)[k].val <= strongest'[pc]
      OBVIOUS
    <3>1. CASE k = Len(p) + 1
      BY <1>2, <1>4, <1>6, <3>1 DEF q
    <3>2. CASE k \in 1 .. Len(p)
      <4>1. p[k].val <= strongest[pc] /\ p[k].val \in Nat
        BY <1>1, <1>2, <3>2, ElementOfSeq, PeakFields DEF IInv, HeightInv, p
      <4> QED BY <1>2, <1>4, <1>6, <3>2, <4>1
    <3> QED BY <1>2, <3>1, <3>2
  <2>3. \E k \in 1 .. Len(p) + 1 : Append(p, q)[k].val = strongest'[pc]
    <3>1. Len(p) \in Nat
      BY <1>2
    <3>2. CASE v > strongest[pc]
      BY <1>4, <1>6, <3>1, <3>2 DEF q
    <3>3. CASE ~(v > strongest[pc])
      <4>1. strongest[pc] > 0
        BY <1>2, <1>6, <3>3
      <4>2. PICK k \in 1 .. Len(p) : p[k].val = strongest[pc]
        BY <1>1, <4>1 DEF IInv, HeightInv, StrongestKept, p
      <4> QED BY <1>4, <1>6, <3>1, <3>3, <4>2
    <3> QED BY <3>2, <3>3
  <2>4. /\ \A k \in 1 .. Len(peaks'[pc]) : peaks'[pc][k].val <= strongest'[pc]
        /\ \E k \in 1 .. Len(peaks'[pc]) : peaks'[pc][k].val = strongest'[pc]
    BY <1>4, <1>5, <2>2, <2>3
  <2> QED BY <2>1, <2>4 DEF HeightInv, StrongestKept
<1>11. PairInv' /\ PairsAscend'
  BY <1>3 DEF PairInv, PairsAscend
<1> QED BY <1>7, <1>8, <1>9, <1>10, <1>11 DEF IInv

(* The last peak moves to a higher and later maximum.                       *)
LEMMA StrongerPeakStep ==
    ASSUME IInv, NEW t \in Time, NEW v \in Heights, StrongerPeak(t, v)
    PROVE  IInv'
<1> DEFINE q == [at |-> t, val |-> v]
<1> DEFINE p == peaks[pc]
<1> DEFINE r == [p EXCEPT ![Len(p)] = q]
<1>1. /\ pc \in Side /\ pc' = pc /\ i' = t + 2 /\ i <= t /\ latest' = t
      /\ peaks' = [peaks EXCEPT ![pc] = r]
      /\ strongest' = [strongest EXCEPT ![pc] = IF v > @ THEN v ELSE @]
      /\ n' = n /\ m' = m /\ det' = det /\ text' = text
      /\ p # <<>> /\ v > p[Len(p)].val
  BY DEF StrongerPeak, Maximum, InWindow, LastValue
<1>2. TypeOK /\ t \in Nat /\ v \in Nat /\ v > 0 /\ q \in Peak /\ p \in Seq(Peak)
  <2>1. q \in Peak
    BY DEF Peak
  <2>2. t \in Nat /\ v \in Nat /\ v > 0
    BY <2>1, PeakFields
  <2> QED BY <1>1, <2>1, <2>2 DEF IInv, TypeOK
<1>3. n = 1 /\ m = 1 /\ det = <<>> /\ det' = <<>>
  BY <1>1 DEF IInv, ScanInv
<1>4. /\ Len(p) \in 1 .. Len(p) /\ r \in Seq(Peak) /\ Len(r) = Len(p) /\ r[Len(p)] = q
      /\ \A k \in 1 .. Len(p) : k # Len(p) => r[k] = p[k]
  <2>1. Len(p) \in 1 .. Len(p)
    BY <1>1, <1>2
  <2> HIDE DEF p, q
  <2> QED BY <1>2, <2>1, ExceptSeq
<1>5. peaks'[pc] = r /\ \A s \in Side : s # pc => peaks'[s] = peaks[s]
  BY <1>1, <1>2 DEF TypeOK
<1>6. /\ strongest'[pc] = IF v > strongest[pc] THEN v ELSE strongest[pc]
      /\ \A s \in Side : s # pc => strongest'[s] = strongest[s]
      /\ strongest[pc] \in Nat
  <2>1. strongest \in [Side -> Heights \cup {0}]
    BY <1>2 DEF TypeOK
  <2>2. strongest[pc] \in Heights \cup {0}
    BY <1>1, <2>1
  <2>3. strongest[pc] \in Nat
    BY <2>2, HeightsAreNat
  <2> QED BY <1>1, <2>1, <2>3
<1> HIDE DEF r
<1>7. q.at = t /\ q.val = v
  OBVIOUS
<1> HIDE DEF q, p
<1>8. TypeOK'
  <2>1. peaks' \in [Side -> Seq(Peak)]
    BY <1>1, <1>2, <1>4 DEF TypeOK
  <2>2. strongest' \in [Side -> Heights \cup {0}]
    BY <1>1, <1>2 DEF TypeOK
  <2>3. Len(peaks'["R"]) \in Nat /\ Len(peaks'["L"]) \in Nat
    BY <2>1 DEF Side
  <2> QED BY <1>1, <1>2, <1>3, <2>1, <2>2, <2>3 DEF TypeOK
<1>9. ScanInv'
  <2>1. peaks'[pc][Len(peaks'[pc])].at = t
    BY <1>4, <1>5, <1>7
  <2>2. pc = "R" => peaks'["L"] = <<>>
    BY <1>1, <1>5 DEF IInv, ScanInv, Side
  <2> QED BY <1>1, <1>2, <1>3, <2>1, <2>2 DEF ScanInv
<1>10. Separated'
  <2>1. q.at >= p[Len(p)].at
    <3>1. latest = p[Len(p)].at /\ latest < i /\ i <= t
      BY <1>1 DEF IInv, ScanInv, p
    <3>2. latest \in Nat /\ i \in Nat
      BY <1>2 DEF TypeOK
    <3> QED BY <1>2, <1>7, <3>1, <3>2
  <2>2. FarApart(p)
    BY <1>1 DEF IInv, Separated, p
  <2>3. FarApart(r)
    BY <1>1, <1>2, <1>4, <2>1, <2>2, MoveLastPeak
  <2> QED BY <1>1, <1>5, <2>3 DEF IInv, Separated
<1>11. HeightInv'
  <2>1. ASSUME NEW s \in Side, s # pc
        PROVE  /\ \A k \in 1 .. Len(peaks'[s]) : peaks'[s][k].val <= strongest'[s]
               /\ strongest'[s] > 0 =>
                    \E k \in 1 .. Len(peaks'[s]) : peaks'[s][k].val = strongest'[s]
    BY <1>5, <1>6, <2>1 DEF IInv, HeightInv, StrongestKept
  <2>2. \A k \in 1 .. Len(p) : p[k].val <= strongest[pc] /\ p[k].val \in Nat
    BY <1>1, <1>2, ElementOfSeq, PeakFields DEF IInv, HeightInv, p
  <2>3. \A k \in 1 .. Len(p) : r[k].val <= strongest'[pc]
    <3> SUFFICES ASSUME NEW k \in 1 .. Len(p) PROVE r[k].val <= strongest'[pc]
      OBVIOUS
    <3>1. CASE k = Len(p)
      BY <1>2, <1>4, <1>6, <1>7, <3>1
    <3>2. CASE k # Len(p)
      BY <1>2, <1>4, <1>6, <2>2, <3>2
    <3> QED BY <3>1, <3>2
  <2>4. \E k \in 1 .. Len(p) : r[k].val = strongest'[pc]
    <3>1. CASE v > strongest[pc]
      BY <1>4, <1>6, <1>7, <3>1
    <3>2. CASE ~(v > strongest[pc])
      <4>1. strongest[pc] > 0
        BY <1>2, <1>6, <3>2
      <4>2. PICK k \in 1 .. Len(p) : p[k].val = strongest[pc]
        BY <1>1, <4>1 DEF IInv, HeightInv, StrongestKept, p
      <4>3. k # Len(p)
        BY <1>1, <1>2, <1>6, <2>2, <3>2, <4>2
      <4> QED BY <1>4, <1>6, <3>2, <4>2, <4>3
    <3> QED BY <3>1, <3>2
  <2>5. /\ \A k \in 1 .. Len(peaks'[pc]) : peaks'[pc][k].val <= strongest'[pc]
        /\ \E k \in 1 .. Len(peaks'[pc]) : peaks'[pc][k].val = strongest'[pc]
    BY <1>4, <1>5, <2>3, <2>4
  <2> QED BY <2>1, <2>5 DEF HeightInv, StrongestKept
<1>12. PairInv' /\ PairsAscend'
  BY <1>3 DEF PairInv, PairsAscend
<1> QED BY <1>8, <1>9, <1>10, <1>11, <1>12 DEF IInv

(* A maximum that is not higher than the last peak changes nothing.         *)
LEMMA WeakerPeakStep ==
    ASSUME IInv, NEW t \in Time, NEW v \in Heights, WeakerPeak(t, v)
    PROVE  IInv'
<1>1. /\ pc \in Side /\ pc' = pc /\ i' = t + 2 /\ i <= t /\ latest' = latest
      /\ peaks' = peaks
      /\ strongest' = [strongest EXCEPT ![pc] = IF v > @ THEN v ELSE @]
      /\ n' = n /\ m' = m /\ det' = det /\ text' = text
      /\ peaks[pc] # <<>> /\ v <= peaks[pc][Len(peaks[pc])].val
  BY DEF WeakerPeak, Maximum, InWindow, LastValue
<1>2. TypeOK /\ peaks[pc] \in Seq(Peak) /\ strongest \in [Side -> Heights \cup {0}]
  BY <1>1 DEF IInv, TypeOK
<1>3. t \in Nat /\ v \in Nat
  BY PeakFields, [at |-> t, val |-> v] \in Peak DEF Peak
<1>4. strongest' = strongest
  <2>1. Len(peaks[pc]) \in 1 .. Len(peaks[pc])
    BY <1>1, <1>2
  <2>2. /\ peaks[pc][Len(peaks[pc])].val \in Nat
        /\ peaks[pc][Len(peaks[pc])].val <= strongest[pc]
    BY <1>1, <1>2, <2>1, ElementOfSeq, PeakFields DEF IInv, HeightInv
  <2>3. strongest[pc] \in Heights \cup {0}
    BY <1>1, <1>2
  <2>4. strongest[pc] \in Nat
    BY <2>3, HeightsAreNat
  <2>5. ~(v > strongest[pc])
    BY <1>1, <1>3, <2>2, <2>4
  <2> QED BY <1>1, <1>2, <2>5
<1>5. TypeOK' /\ ScanInv'
  BY <1>1, <1>2, <1>3, <1>4 DEF IInv, TypeOK, ScanInv
<1>6. Separated' /\ HeightInv'
  BY <1>1, <1>4 DEF IInv, Separated, HeightInv, StrongestKept
<1>7. PairInv' /\ PairsAscend'
  BY <1>1 DEF IInv, ScanInv, PairInv, PairsAscend
<1> QED BY <1>5, <1>6, <1>7 DEF IInv

-----------------------------------------------------------------------------
(* The next scan starts without peaks, the pairing without detections.      *)
LEMMA ScanEndsStep ==
    ASSUME IInv, ScanEnds
    PROVE  IInv'
<1>1. /\ pc \in Side /\ pc' = IF pc = "R" THEN "L" ELSE "pair"
      /\ i' = TMin /\ latest' = 0
      /\ peaks' = peaks /\ strongest' = strongest
      /\ n' = n /\ m' = m /\ det' = det /\ text' = text
  BY DEF ScanEnds
<1>2. n = 1 /\ m = 1 /\ det = <<>>
  BY <1>1 DEF IInv, ScanInv
<1>3. TypeOK'
  BY <1>1, TimeAssumption DEF IInv, TypeOK, Side
<1>4. ScanInv'
  <2>1. pc' \in Side => pc' = "L" /\ peaks["L"] = <<>>
    BY <1>1 DEF IInv, ScanInv, Side
  <2> QED BY <1>1, <1>2, <2>1 DEF ScanInv
<1>5. Separated' /\ HeightInv'
  BY <1>1 DEF IInv, Separated, HeightInv, StrongestKept
<1>6. PairInv' /\ PairsAscend'
  BY <1>1, <1>2 DEF PairInv, PairsAscend
<1> QED BY <1>3, <1>4, <1>5, <1>6 DEF IInv

(* Two near pairs share no peak and do not cross: the peaks of a list are   *)
(* further apart than two delays.                                           *)
LEMMA NearPairsAscend ==
    ASSUME TypeOK, Separated,
           NEW a \in 1 .. Len(peaks["R"]), NEW b \in 1 .. Len(peaks["L"]),
           NEW c \in 1 .. Len(peaks["R"]), NEW d \in 1 .. Len(peaks["L"]),
           Paired(a, b), Paired(c, d),
           a < c \/ (a = c /\ b < d)
    PROVE  a < c /\ b < d
<1> DEFINE ra == peaks["R"][a].at
<1> DEFINE rc == peaks["R"][c].at
<1> DEFINE lb == peaks["L"][b].at
<1> DEFINE ld == peaks["L"][d].at
<1>1. peaks["R"] \in Seq(Peak) /\ peaks["L"] \in Seq(Peak)
  BY DEF TypeOK, Side
<1>2. ra \in Nat /\ rc \in Nat /\ lb \in Nat /\ ld \in Nat
  BY <1>1, ElementOfSeq, PeakFields
<1>3. ra - lb <= MaxDelay /\ lb - ra <= MaxDelay /\ rc - ld <= MaxDelay /\ ld - rc <= MaxDelay
  <2>1. Delay(a, b) = ra - lb /\ Delay(c, d) = rc - ld
    BY DEF Delay
  <2>2. /\ Delay(a, b) <= MaxDelay /\ -Delay(a, b) <= MaxDelay
        /\ Delay(c, d) <= MaxDelay /\ -Delay(c, d) <= MaxDelay
    BY DEF Paired
  <2> HIDE DEF ra, rc, lb, ld
  <2> QED BY <1>2, <2>1, <2>2, DelayAssumption
<1>4. /\ a < c => rc - ra > TWidth
      /\ b < d => ld - lb > TWidth
      /\ d < b => lb - ld > TWidth
  BY DEF Separated, FarApart, Side
<1>5. b = d => lb = ld
  OBVIOUS
<1>6. a = c => ra = rc
  OBVIOUS
<1>7. a \in Nat /\ b \in Nat /\ c \in Nat /\ d \in Nat
  BY <1>1
<1> HIDE DEF ra, rc, lb, ld
<1> QED BY <1>2, <1>3, <1>4, <1>5, <1>6, <1>7, DelayAssumption, TimeAssumption

(* One step of the inner loop.                                              *)
LEMMA PairNextStep ==
    ASSUME IInv, PairNext
    PROVE  IInv'
<1>1. /\ pc = "pair" /\ pc' = pc /\ n <= Len(peaks["R"]) /\ m <= Len(peaks["L"])
      /\ n' = n /\ m' = m + 1 /\ text' = text
      /\ i' = i /\ latest' = latest /\ peaks' = peaks /\ strongest' = strongest
      /\ det' = IF Paired(n, m) THEN Append(det, [r |-> n, l |-> m]) ELSE det
  BY DEF PairNext, scan
<1>2. /\ TypeOK /\ det \in Seq(Pair) /\ Len(det) \in Nat
      /\ Len(peaks["R"]) \in Nat /\ Len(peaks["L"]) \in Nat
  BY DEF IInv, TypeOK, Side
<1>3. n \in 1 .. Len(peaks["R"]) /\ m \in 1 .. Len(peaks["L"])
  BY <1>1, <1>2 DEF TypeOK
<1>4. [r |-> n, l |-> m] \in Pair
  BY <1>2, <1>3 DEF Pair
<1>5. TypeOK'
  <2>1. det' \in Seq(Pair)
    BY <1>1, <1>2, <1>4
  <2> QED BY <1>1, <1>2, <1>3, <2>1 DEF TypeOK
<1>6. ScanInv' /\ Separated' /\ HeightInv'
  BY <1>1 DEF IInv, ScanInv, Separated, HeightInv, StrongestKept, Side
<1>7. ASSUME NEW k \in 1 .. Len(det)
      PROVE  /\ det[k].r \in k .. Len(peaks["R"]) /\ det[k].l \in k .. Len(peaks["L"])
             /\ det[k].r \in 1 .. Len(peaks["R"]) /\ det[k].l \in 1 .. Len(peaks["L"])
             /\ Paired(det[k].r, det[k].l)
             /\ det[k].r < n \/ (det[k].r = n /\ det[k].l < m)
  BY <1>1, <1>2 DEF IInv, PairInv, Found
<1>8. CASE ~Paired(n, m)
  <2>1. det' = det
    BY <1>1, <1>8
  <2>2. PairInv'
    <3> SUFFICES ASSUME NEW k \in 1 .. Len(det) PROVE Found(k)'
      BY <2>1 DEF PairInv
    <3>1. Paired(det[k].r, det[k].l)'
      BY <1>1, <1>7, <2>1 DEF Paired, Delay
    <3>2. /\ det[k].r < n \/ (det[k].r = n /\ det[k].l < m + 1)
          /\ det[k].r \in k .. Len(peaks["R"]) /\ det[k].l \in k .. Len(peaks["L"])
      BY <1>2, <1>3, <1>7
    <3> QED BY <1>1, <2>1, <3>1, <3>2 DEF Found
  <2>3. PairsAscend'
    BY <2>1 DEF IInv, PairsAscend
  <2> QED BY <1>5, <1>6, <2>2, <2>3 DEF IInv
<1>9. CASE Paired(n, m)
  <2>1. /\ Len(det') = Len(det) + 1 /\ det'[Len(det) + 1] = [r |-> n, l |-> m]
        /\ \A k \in 1 .. Len(det) : det'[k] = det[k]
    BY <1>1, <1>2, <1>4, <1>9
  <2>2. ASSUME NEW k \in 1 .. Len(det)
        PROVE  det[k].r < n /\ det[k].l < m
    BY <1>2, <1>3, <1>7, <1>9, NearPairsAscend DEF IInv
  <2>3. PairsAscend'
    <3> SUFFICES ASSUME NEW j \in 1 .. Len(det) + 1, NEW k \in 1 .. Len(det) + 1, j < k
                 PROVE  det'[j].r < det'[k].r /\ det'[j].l < det'[k].l
      BY <2>1 DEF PairsAscend
    <3>1. j \in 1 .. Len(det)
      BY <1>2
    <3>2. CASE k = Len(det) + 1
      BY <2>1, <2>2, <3>1, <3>2
    <3>3. CASE k \in 1 .. Len(det)
      BY <2>1, <3>1, <3>3 DEF IInv, PairsAscend
    <3> QED BY <1>2, <3>2, <3>3
  <2>4. Len(det) + 1 <= n /\ Len(det) + 1 <= m
    <3>1. CASE Len(det) = 0
      BY <1>2, <1>3, <3>1
    <3>2. CASE Len(det) # 0
      <4>1. Len(det) \in 1 .. Len(det)
        BY <1>2, <3>2
      <4> QED BY <1>2, <1>3, <1>7, <2>2, <4>1
    <3> QED BY <3>1, <3>2
  <2>5. PairInv'
    <3> SUFFICES ASSUME NEW k \in 1 .. Len(det) + 1 PROVE Found(k)'
      BY <2>1 DEF PairInv
    <3>1. CASE k = Len(det) + 1
      <4>1. det'[k].r = n /\ det'[k].l = m
        BY <2>1, <3>1
      <4>2. Paired(det[k].r, det[k].l)'
        BY <1>1, <1>9, <4>1 DEF Paired, Delay
      <4>3. n \in k .. Len(peaks["R"]) /\ m \in k .. Len(peaks["L"]) /\ m < m + 1
        BY <1>2, <1>3, <2>4, <3>1
      <4> QED BY <1>1, <4>1, <4>2, <4>3 DEF Found
    <3>2. CASE k \in 1 .. Len(det)
      <4>1. det'[k] = det[k]
        BY <2>1, <3>2
      <4>2. Paired(det[k].r, det[k].l)'
        BY <1>1, <1>7, <3>2, <4>1 DEF Paired, Delay
      <4>3. /\ det[k].r < n \/ (det[k].r = n /\ det[k].l < m + 1)
            /\ det[k].r \in k .. Len(peaks["R"]) /\ det[k].l \in k .. Len(peaks["L"])
        BY <1>2, <1>3, <1>7, <3>2
      <4> QED BY <1>1, <4>1, <4>2, <4>3 DEF Found
    <3> QED BY <1>2, <3>1, <3>2
  <2> QED BY <1>5, <1>6, <2>3, <2>5 DEF IInv
<1> QED BY <1>8, <1>9

(* The outer loop goes on.                                                  *)
LEMMA NextRightStep ==
    ASSUME IInv, NextRight
    PROVE  IInv'
<1>1. /\ pc = "pair" /\ pc' = pc /\ n <= Len(peaks["R"])
      /\ n' = n + 1 /\ m' = 1 /\ text' = text /\ det' = det
      /\ i' = i /\ latest' = latest /\ peaks' = peaks /\ strongest' = strongest
  BY DEF NextRight, scan
<1>2. /\ TypeOK /\ Len(peaks["R"]) \in Nat /\ Len(peaks["L"]) \in Nat
  BY DEF IInv, TypeOK, Side
<1>3. TypeOK'
  BY <1>1, <1>2 DEF TypeOK
<1>4. ScanInv' /\ Separated' /\ HeightInv' /\ PairsAscend'
  BY <1>1 DEF IInv, ScanInv, Separated, HeightInv, StrongestKept, PairsAscend, Side
<1>5. PairInv'
  <2> SUFFICES ASSUME NEW k \in 1 .. Len(det) PROVE Found(k)'
    BY <1>1 DEF PairInv
  <2>1. Found(k)
    BY DEF IInv, PairInv
  <2>2. n \in Nat /\ k \in Nat
    BY <1>2 DEF TypeOK
  <2>3. Paired(det[k].r, det[k].l)'
    BY <1>1, <2>1 DEF Found, Paired, Delay
  <2>4. det[k].r \in k .. Len(peaks["R"]) /\ det[k].l \in k .. Len(peaks["L"])
    BY <2>1 DEF Found
  <2>5. det[k].r < n + 1
    BY <1>1, <1>2, <2>1, <2>2, <2>4 DEF Found
  <2> QED BY <1>1, <2>3, <2>4, <2>5 DEF Found
<1> QED BY <1>3, <1>4, <1>5 DEF IInv

(* The numbers in the text have their type.                                 *)
LEMMA NumbersType ==
    ASSUME det \in Seq(Pair), NEW kind \in {"dist", "direc"}
    PROVE  /\ Numbers(kind) \in Seq(Number)
           /\ Len(Numbers(kind)) = (Len(det) + 1) \div 2
<1> DEFINE h == (Len(det) + 1) \div 2
<1>1. h \in Nat /\ \A k \in 1 .. h : 2 * k - 1 \in 1 .. Len(det)
  OBVIOUS
<1> HIDE DEF h
<1>2. \A k \in 1 .. h : [is |-> kind, of |-> det[2 * k - 1]] \in Number
  BY <1>1 DEF Number
<1>3. Numbers(kind) = [k \in 1 .. h |-> [is |-> kind, of |-> det[2 * k - 1]]]
  BY DEF Numbers, h
<1> QED BY <1>1, <1>2, <1>3 DEF h

LEMMA WritesLogStep ==
    ASSUME IInv, WritesLog
    PROVE  IInv'
<1>1. /\ pc = "pair" /\ pc' = "written" /\ text' = LogText
      /\ n' = n /\ m' = m /\ det' = det
      /\ i' = i /\ latest' = latest /\ peaks' = peaks /\ strongest' = strongest
  BY DEF WritesLog, scan
<1>2. text' \in Seq(Number)
  BY <1>1, NumbersType DEF IInv, TypeOK, LogText
<1>3. TypeOK'
  BY <1>1, <1>2 DEF IInv, TypeOK
<1>4. ScanInv' /\ Separated' /\ HeightInv' /\ PairsAscend'
  BY <1>1 DEF IInv, ScanInv, Separated, HeightInv, StrongestKept, PairsAscend, Side
<1>5. PairInv'
  BY <1>1 DEF IInv, PairInv, Found, Paired, Delay
<1> QED BY <1>3, <1>4, <1>5 DEF IInv

LEMMA OpenLogFailsStep ==
    ASSUME IInv, OpenLogFails
    PROVE  IInv'
<1>1. /\ pc = "pair" /\ pc' = "lost" /\ text' = text
      /\ n' = n /\ m' = m /\ det' = det
      /\ i' = i /\ latest' = latest /\ peaks' = peaks /\ strongest' = strongest
  BY DEF OpenLogFails, scan
<1>2. TypeOK'
  BY <1>1 DEF IInv, TypeOK
<1>3. ScanInv' /\ Separated' /\ HeightInv' /\ PairsAscend'
  BY <1>1 DEF IInv, ScanInv, Separated, HeightInv, StrongestKept, PairsAscend, Side
<1>4. PairInv'
  BY <1>1 DEF IInv, PairInv, Found, Paired, Delay
<1> QED BY <1>2, <1>3, <1>4 DEF IInv

LEMMA NextMeasurementStep ==
    ASSUME IInv, NextMeasurement
    PROVE  IInv'
<1> USE DEF NextMeasurement, Side
<1>1. TypeOK'
  BY DEF IInv, TypeOK
<1>2. ScanInv' /\ Separated' /\ HeightInv'
  BY DEF ScanInv, Separated, FarApart, HeightInv, StrongestKept
<1>3. PairInv' /\ PairsAscend'
  BY DEF PairInv, PairsAscend
<1> QED BY <1>1, <1>2, <1>3 DEF IInv

(* The invariant survives every step of the scan, the loops and the writing.*)
THEOREM NextIInv == IInv /\ [Next]_vars => IInv'
<1> SUFFICES ASSUME IInv, [Next]_vars PROVE IInv'
  OBVIOUS
<1>1. CASE Scan
  BY <1>1, NewPeakStep, StrongerPeakStep, WeakerPeakStep DEF Scan
<1>2. CASE ScanEnds
  BY <1>2, ScanEndsStep
<1>3. CASE PairNext
  BY <1>3, PairNextStep
<1>4. CASE NextRight
  BY <1>4, NextRightStep
<1>5. CASE WritesLog
  BY <1>5, WritesLogStep
<1>6. CASE NextMeasurement
  BY <1>6, NextMeasurementStep
<1>7. CASE OpenLogFails
  BY <1>7, OpenLogFailsStep
<1>8. CASE UNCHANGED vars
  BY <1>8 DEF vars, scan, IInv, TypeOK, ScanInv, Separated, HeightInv, StrongestKept,
              PairInv, Found, Paired, Delay, PairsAscend
<1> QED BY <1>1, <1>2, <1>3, <1>4, <1>5, <1>6, <1>7, <1>8 DEF Next

LEMMA AlwaysIInv == Spec => []IInv
BY InitIInv, NextIInv, PTL DEF Spec

-----------------------------------------------------------------------------
(* The variables of extract_peaks, the loops and the text keep their types. *)
THEOREM TypeCorrect == Spec => []TypeOK
<1>1. IInv => TypeOK
  BY DEF IInv
<1> QED BY <1>1, AlwaysIInv, PTL

(* However maxima replace each other, the peaks that extract_peaks keeps    *)
(* are more than t_width apart.                                             *)
THEOREM PeaksAreSeparated == Spec => []Separated
<1>1. IInv => Separated
  BY DEF IInv
<1> QED BY <1>1, AlwaysIInv, PTL

(* extract_peaks never loses the strongest echo of an ear.                  *)
THEOREM StrongestIsKept == Spec => []StrongestKept
<1>1. IInv => StrongestKept
  BY DEF IInv, HeightInv
<1> QED BY <1>1, AlwaysIInv, PTL

(* The nested loops pair no echo twice and find the nearest pairs first.    *)
THEOREM PairsDoAscend == Spec => []PairsAscend
<1>1. IInv => PairsAscend
  BY DEF IInv
<1> QED BY <1>1, AlwaysIInv, PTL

(* The detections fit into the arrays dist and direc.                       *)
THEOREM DetectionsDoFit == Spec => []DetectionsFit
<1>1. ASSUME IInv PROVE DetectionsFit
  <2>1. Len(det) \in Nat /\ Len(peaks["R"]) \in Nat /\ Len(peaks["L"]) \in Nat
    BY <1>1 DEF IInv, TypeOK, Side
  <2>2. CASE Len(det) = 0
    BY <2>1, <2>2 DEF DetectionsFit
  <2>3. CASE Len(det) # 0
    <3>1. Found(Len(det))
      BY <1>1, <2>1, <2>3 DEF IInv, PairInv
    <3> QED BY <2>1, <3>1 DEF Found, DetectionsFit
  <2> QED BY <2>2, <2>3
<1>2. IInv => DetectionsFit
  BY <1>1
<1> QED BY <1>2, AlwaysIInv, PTL

-----------------------------------------------------------------------------
(* The text, once written, is that of the detections.                       *)
TextInv == text = IF pc = "written" THEN LogText ELSE <<>>

LEMMA TextInvOfNext == TextInv /\ [Next]_vars => TextInv'
<1> SUFFICES ASSUME TextInv, [Next]_vars PROVE TextInv'
  OBVIOUS
<1> USE DEF TextInv, LogText, Numbers, Side
<1>1. CASE Scan
  BY <1>1 DEF Scan, NewPeak, StrongerPeak, WeakerPeak, Maximum
<1>2. CASE ScanEnds
  BY <1>2 DEF ScanEnds
<1>3. CASE PairNext
  BY <1>3 DEF PairNext
<1>4. CASE NextRight
  BY <1>4 DEF NextRight
<1>5. CASE WritesLog
  BY <1>5 DEF WritesLog
<1>6. CASE NextMeasurement
  BY <1>6 DEF NextMeasurement
<1>7. CASE OpenLogFails
  BY <1>7 DEF OpenLogFails
<1>8. CASE UNCHANGED vars
  BY <1>8 DEF vars
<1> QED BY <1>1, <1>2, <1>3, <1>4, <1>5, <1>6, <1>7, <1>8 DEF Next

LEMMA AlwaysTextInv == Spec => []TextInv
<1>1. Init => TextInv
  BY DEF Init, TextInv
<1> QED BY <1>1, TextInvOfNext, PTL DEF Spec

(* The k-th number of either kind is in its half.                           *)
LEMMA TextNumbers ==
    ASSUME TypeOK, text = LogText
    PROVE  LET h == (Len(det) + 1) \div 2 IN
           /\ Len(text) = 2 * h
           /\ \A k \in 1 .. h : /\ text[k] = [is |-> "dist", of |-> det[2 * k - 1]]
                               /\ text[h + k] = [is |-> "direc", of |-> det[2 * k - 1]]
<1> DEFINE h == (Len(det) + 1) \div 2
<1>1. det \in Seq(Pair)
  BY DEF TypeOK
<1>2. /\ h \in Nat
      /\ Numbers("dist") \in Seq(Number) /\ Len(Numbers("dist")) = h
      /\ Numbers("direc") \in Seq(Number) /\ Len(Numbers("direc")) = h
  BY <1>1, NumbersType
<1>3. ASSUME NEW k \in 1 .. h
      PROVE  /\ Numbers("dist")[k] = [is |-> "dist", of |-> det[2 * k - 1]]
             /\ Numbers("direc")[k] = [is |-> "direc", of |-> det[2 * k - 1]]
  BY DEF Numbers
<1> HIDE DEF h
<1>4. /\ Len(text) = h + h
      /\ \A k \in 1 .. h + h :
           text[k] = IF k <= h THEN Numbers("dist")[k] ELSE Numbers("direc")[k - h]
  <2>1. text = Numbers("dist") \o Numbers("direc")
    BY DEF LogText
  <2> DEFINE d == Numbers("dist")
             a == Numbers("direc")
  <2>2. d \in Seq(Number) /\ a \in Seq(Number) /\ Len(d) = h /\ Len(a) = h /\ text = d \o a
    BY <1>2, <2>1
  <2> HIDE DEF d, a
  <2>3. /\ Len(d \o a) = Len(d) + Len(a)
        /\ \A k \in 1 .. Len(d) + Len(a) :
             (d \o a)[k] = IF k <= Len(d) THEN d[k] ELSE a[k - Len(d)]
    BY <2>2, ConcatProperties
  <2>4. /\ Len(text) = h + h
        /\ \A k \in 1 .. h + h : text[k] = IF k <= h THEN d[k] ELSE a[k - h]
    BY <2>2, <2>3
  <2> QED BY <2>4 DEF d, a
<1>5. ASSUME NEW k \in 1 .. h
      PROVE  /\ text[k] = [is |-> "dist", of |-> det[2 * k - 1]]
             /\ text[h + k] = [is |-> "direc", of |-> det[2 * k - 1]]
  <2>1. k \in 1 .. h + h /\ h + k \in 1 .. h + h /\ k <= h /\ ~(h + k <= h) /\ (h + k) - h = k
    BY <1>2
  <2> QED BY <1>3, <1>4, <2>1
<1>6. Len(text) = 2 * h
  BY <1>2, <1>4
<1> QED BY <1>5, <1>6 DEF h

(* The nearest detection is the first, and the first is written.            *)
THEOREM NearestIsAlwaysWritten == Spec => []NearestIsWritten
<1>1. ASSUME IInv, TextInv PROVE NearestIsWritten
  <2> SUFFICES ASSUME pc = "written", det # <<>>
               PROVE  text # <<>> /\ \A k \in 1 .. Len(det) :
                        /\ peaks["R"][text[1].of.r].at <= peaks["R"][det[k].r].at
                        /\ peaks["L"][text[1].of.l].at <= peaks["L"][det[k].l].at
    BY DEF NearestIsWritten
  <2>1. /\ TypeOK /\ det \in Seq(Pair) /\ Len(det) \in Nat \ {0} /\ text \in Seq(Number)
        /\ peaks["R"] \in Seq(Peak) /\ peaks["L"] \in Seq(Peak)
    BY <1>1 DEF IInv, TypeOK, Side
  <2>2. text # <<>> /\ text[1].of = det[1]
    <3> DEFINE h == (Len(det) + 1) \div 2
    <3>1. 1 \in 1 .. h
      BY <2>1
    <3>2. /\ Len(text) = 2 * h /\ text[1] = [is |-> "dist", of |-> det[2 * 1 - 1]]
      BY <1>1, <2>1, <3>1, TextNumbers DEF TextInv
    <3> QED BY <2>1, <3>1, <3>2
  <2>3. ASSUME NEW k \in 1 .. Len(det)
        PROVE  /\ peaks["R"][det[1].r].at <= peaks["R"][det[k].r].at
               /\ peaks["L"][det[1].l].at <= peaks["L"][det[k].l].at
    <3>1. CASE k = 1
      <4>1. /\ det[1].r \in 1 .. Len(peaks["R"]) /\ det[1].l \in 1 .. Len(peaks["L"])
        BY <1>1, <2>1, <3>1 DEF IInv, PairInv, Found
      <4>2. peaks["R"][det[1].r].at \in Nat /\ peaks["L"][det[1].l].at \in Nat
        BY <2>1, <4>1, ElementOfSeq, PeakFields
      <4> QED BY <3>1, <4>2
    <3>2. CASE k # 1
      <4>1. 1 \in 1 .. Len(det) /\ 1 < k
        BY <2>1, <3>2
      <4>2. /\ det[1].r \in 1 .. Len(peaks["R"]) /\ det[1].l \in 1 .. Len(peaks["L"])
            /\ det[k].r \in 1 .. Len(peaks["R"]) /\ det[k].l \in 1 .. Len(peaks["L"])
        BY <1>1, <2>1, <4>1 DEF IInv, PairInv, Found
      <4>3. det[1].r < det[k].r /\ det[1].l < det[k].l
        BY <1>1, <4>1 DEF IInv, PairsAscend
      <4>4. /\ peaks["R"][det[k].r].at - peaks["R"][det[1].r].at > TWidth
            /\ peaks["L"][det[k].l].at - peaks["L"][det[1].l].at > TWidth
        BY <1>1, <4>2, <4>3 DEF IInv, Separated, FarApart, Side
      <4>5. /\ peaks["R"][det[1].r].at \in Nat /\ peaks["L"][det[1].l].at \in Nat
            /\ peaks["R"][det[k].r].at \in Nat /\ peaks["L"][det[k].l].at \in Nat
        BY <2>1, <4>2, ElementOfSeq, PeakFields
      <4>6. \A x, y \in Nat : y - x > TWidth => x <= y
        BY TimeAssumption
      <4> QED BY <4>4, <4>5, <4>6, Zenon
    <3> QED BY <3>1, <3>2
  <2> QED BY <2>2, <2>3
<1>2. IInv /\ TextInv => NearestIsWritten
  BY <1>1
<1> QED BY <1>2, AlwaysIInv, AlwaysTextInv, PTL

(* The two halves of the text belong to the same detections.                *)
THEOREM HalvesDoMatch == Spec => []HalvesMatch
<1>1. ASSUME TypeOK, TextInv PROVE HalvesMatch
  <2>1. CASE pc # "written"
    <3>1. text = <<>>
      BY <1>1, <2>1 DEF TextInv
    <3>2. Half = 0
      BY <3>1 DEF Half
    <3> QED BY <3>1, <3>2 DEF HalvesMatch, dist_list, direc_list
  <2>2. CASE pc = "written"
    <3> DEFINE h == (Len(det) + 1) \div 2
    <3>1. text \in Seq(Number) /\ Len(det) \in Nat /\ h \in Nat
      BY <1>1 DEF TypeOK
    <3>2. /\ Len(text) = 2 * h
          /\ \A k \in 1 .. h : /\ text[k] = [is |-> "dist", of |-> det[2 * k - 1]]
                              /\ text[h + k] = [is |-> "direc", of |-> det[2 * k - 1]]
      BY <1>1, <2>2, TextNumbers DEF TextInv
    <3> HIDE DEF h
    <3>3. Half = h /\ Len(text) = h + h
      BY <3>1, <3>2 DEF Half
    <3>4. /\ Len(dist_list) = h
          /\ \A k \in 1 .. h : dist_list[k] = text[k]
      BY <3>1, <3>3 DEF dist_list
    <3>5. /\ Len(direc_list) = h
          /\ \A k \in 1 .. h : direc_list[k] = text[h + k]
      BY <3>1, <3>3 DEF direc_list
    <3>6. ASSUME NEW k \in 1 .. h
          PROVE  /\ dist_list[k].is = "dist" /\ direc_list[k].is = "direc"
                 /\ dist_list[k].of = direc_list[k].of
      <4>1. /\ dist_list[k] = [is |-> "dist", of |-> det[2 * k - 1]]
            /\ direc_list[k] = [is |-> "direc", of |-> det[2 * k - 1]]
        BY <3>2, <3>4, <3>5
      <4> QED BY <4>1
    <3> QED BY <3>3, <3>4, <3>5, <3>6 DEF HalvesMatch
  <2> QED BY <2>1, <2>2
<1>2. IInv /\ TextInv => HalvesMatch
  BY <1>1 DEF IInv
<1> QED BY <1>2, AlwaysIInv, AlwaysTextInv, PTL
=============================================================================
