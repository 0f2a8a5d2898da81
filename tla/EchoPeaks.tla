----------------------------- MODULE EchoPeaks ------------------------------
(***************************************************************************)
(* One measurement of sensing_py.c after the signal processing: for each   *)
(* ear extract_peaks scans the envelope and keeps separated peaks; the two *)
(* lists are paired into detections; the detections are written to         *)
(* det_log.txt; the server cuts the text into distances and directions.    *)
(*                                                                         *)
(* The envelope is abstracted to its local maxima above the threshold, in  *)
(* the order of the scan: any times, any heights.  The distance of a       *)
(* detection grows with the sum of its two times, and a number in the text *)
(* is the detection it belongs to and whether it is "dist" or "direc".     *)
(*                                                                         *)
(*   pc         "R", "L": scanning that side; "pair"; "written" or "lost"  *)
(*   i          next sample of the scan                                    *)
(*   peaks      rightpeaks, leftpeaks with their values                    *)
(*   latest     twR_latest_id or twL_latest_id of the scan                 *)
(*   n, m       loop variables of the pairing                              *)
(*   det        the detections: the pair of indices each was computed from *)
(*   text       the numbers this measurement has written to det_log.txt    *)
(*   strongest  history: the largest maximum of each side                  *)
(***************************************************************************)
EXTENDS Integers, Sequences

CONSTANTS TMin, TMax,     \* t_min, t_max (1000 and 25000 in the code)
          TWidth,         \* t_width (700)
          MaxDelay,       \* max_delay (290)
          Heights         \* bound: heights of maxima above the threshold

ASSUME TimeAssumption == TMin \in Nat \ {0} /\ TMax \in Nat /\ TWidth \in Nat
ASSUME DelayAssumption == MaxDelay \in Nat /\ 2 * MaxDelay <= TWidth
ASSUME HeightAssumption == Heights \subseteq Nat \ {0}

VARIABLES pc, i, peaks, latest, n, m, det, text, strongest

scan == <<i, peaks, latest, strongest>>
vars == <<pc, scan, n, m, det, text>>

Side == {"R", "L"}
Time == TMin .. TMax - 1
Peak == [at : Time, val : Heights]
Pair == [r : Nat \ {0}, l : Nat \ {0}]
Number == [is : {"dist", "direc"}, of : Pair]

TypeOK ==
    /\ pc \in Side \cup {"pair", "written", "lost"}
    /\ i \in Nat /\ latest \in Nat
    /\ peaks \in [Side -> Seq(Peak)]
    /\ n \in 1 .. Len(peaks["R"]) + 1 /\ m \in 1 .. Len(peaks["L"]) + 1
    /\ det \in Seq(Pair) /\ text \in Seq(Number)
    /\ strongest \in [Side -> Heights \cup {0}]

Init ==
    /\ pc = "R"
    /\ i = TMin /\ latest = 0
    /\ peaks = [s \in Side |-> <<>>]
    /\ n = 1 /\ m = 1
    /\ det = <<>> /\ text = <<>>
    /\ strongest = [s \in Side |-> 0]

-----------------------------------------------------------------------------
(* extract_peaks.  Two neighbouring samples cannot both be local maxima.    *)
Maximum(t, v) ==
    /\ pc \in Side /\ i <= t
    /\ i' = t + 2
    /\ strongest' = [strongest EXCEPT ![pc] = IF v > @ THEN v ELSE @]
    /\ UNCHANGED <<pc, n, m, det, text>>

InWindow(t) == peaks[pc] # <<>> /\ t - latest <= TWidth

LastValue(s) == peaks[s][Len(peaks[s])].val

NewPeak(t, v) ==
    /\ Maximum(t, v)
    /\ ~InWindow(t)
    /\ peaks' = [peaks EXCEPT ![pc] = Append(@, [at |-> t, val |-> v])]
    /\ latest' = t

(* Mutants of StrongerPeak: the window keeps running from the first peak;   *)
(* a later maximum replaces the peak whether it is higher or not.           *)
StrongerKeepsWindow(t, v) ==
    /\ Maximum(t, v)
    /\ InWindow(t) /\ v > LastValue(pc)
    /\ peaks' = [peaks EXCEPT ![pc][Len(peaks[pc])] = [at |-> t, val |-> v]]
    /\ UNCHANGED latest

LaterPeak(t, v) ==
    /\ Maximum(t, v)
    /\ InWindow(t)
    /\ peaks' = [peaks EXCEPT ![pc][Len(peaks[pc])] = [at |-> t, val |-> v]]
    /\ latest' = t

(* A higher maximum within t_width of the last peak replaces it, and the    *)
(* window starts again.                                                     *)
StrongerPeak(t, v) ==
    /\ Maximum(t, v)
    /\ InWindow(t) /\ v > LastValue(pc)
    /\ peaks' = [peaks EXCEPT ![pc][Len(peaks[pc])] = [at |-> t, val |-> v]]
    /\ latest' = t

WeakerPeak(t, v) ==
    /\ Maximum(t, v)
    /\ InWindow(t) /\ v <= LastValue(pc)
    /\ UNCHANGED <<peaks, latest>>

ScanEnds ==
    /\ pc \in Side
    /\ pc' = IF pc = "R" THEN "L" ELSE "pair"
    /\ i' = TMin /\ latest' = 0
    /\ UNCHANGED <<peaks, strongest, n, m, det, text>>

-----------------------------------------------------------------------------
(* main: each right peak is paired with each left peak near enough.         *)
Delay(a, b) == peaks["R"][a].at - peaks["L"][b].at

(* Mutant of Paired: no abs.                                                *)
PairedOneSided(a, b) == Delay(a, b) <= MaxDelay

Paired(a, b) == Delay(a, b) <= MaxDelay /\ -Delay(a, b) <= MaxDelay

(* Mutant of PairNext: the loop looks at one left peak too many.            *)
PairTooFar ==
    /\ pc = "pair" /\ n <= Len(peaks["R"]) /\ m <= Len(peaks["L"]) + 1
    /\ m' = m + 1
    /\ det' = IF m <= Len(peaks["L"]) /\ Paired(n, m)
                THEN Append(det, [r |-> n, l |-> m]) ELSE det
    /\ UNCHANGED <<pc, scan, n, text>>

PairNext ==
    /\ pc = "pair" /\ n <= Len(peaks["R"]) /\ m <= Len(peaks["L"])
    /\ m' = m + 1
    /\ det' = IF Paired(n, m) THEN Append(det, [r |-> n, l |-> m]) ELSE det
    /\ UNCHANGED <<pc, scan, n, text>>

NextRight ==
    /\ pc = "pair" /\ n <= Len(peaks["R"]) /\ m > Len(peaks["L"])
    /\ n' = n + 1 /\ m' = 1
    /\ UNCHANGED <<pc, scan, det, text>>

-----------------------------------------------------------------------------
(* The writing loops increment n twice: every other detection is written.   *)
Numbers(kind) ==
    [k \in 1 .. (Len(det) + 1) \div 2 |-> [is |-> kind, of |-> det[2 * k - 1]]]

(* Mutants of LogText: the second loop is corrected, the first is not; the  *)
(* loops begin with the second detection.                                   *)
OneLoopCorrected ==
    Numbers("dist") \o [k \in 1 .. Len(det) |-> [is |-> "direc", of |-> det[k]]]

LoopsFromSecond ==
    LET from2(kind) == [k \in 1 .. Len(det) \div 2 |-> [is |-> kind, of |-> det[2 * k]]]
    IN  from2("dist") \o from2("direc")

LogText == Numbers("dist") \o Numbers("direc")

WritesLog ==
    /\ pc = "pair" /\ n > Len(peaks["R"])
    /\ text' = LogText
    /\ pc' = "written"
    /\ UNCHANGED <<scan, n, m, det>>

(* The log cannot be opened: the message is printed and nothing is written. *)
OpenLogFails ==
    /\ pc = "pair" /\ n > Len(peaks["R"])
    /\ pc' = "lost"
    /\ UNCHANGED <<scan, n, m, det, text>>

(* The arrays are cleared for the next measurement.                         *)
NextMeasurement ==
    /\ pc \in {"written", "lost"}
    /\ pc' = "R"
    /\ peaks' = [s \in Side |-> <<>>] /\ det' = <<>> /\ text' = <<>>
    /\ strongest' = [s \in Side |-> 0]
    /\ n' = 1 /\ m' = 1
    /\ UNCHANGED <<i, latest>>

-----------------------------------------------------------------------------
Scan == \E t \in Time, v \in Heights :
            NewPeak(t, v) \/ StrongerPeak(t, v) \/ WeakerPeak(t, v)

Next == Scan \/ ScanEnds \/ PairNext \/ NextRight \/ WritesLog \/ OpenLogFails
        \/ NextMeasurement

Spec == Init /\ [][Next]_vars

-----------------------------------------------------------------------------
(* acc of the server takes the first half of the numbers for distances and  *)
(* the second half for directions.                                          *)
Half == Len(text) \div 2
dist_list == SubSeq(text, 1, Half)
direc_list == SubSeq(text, Half + 1, Len(text))

FarApart(p) == \A j, k \in 1 .. Len(p) : j < k => p[k].at - p[j].at > TWidth

(* The peaks that extract_peaks keeps are more than t_width apart, although *)
(* a peak moves when a stronger maximum replaces it.                        *)
Separated == \A s \in Side : FarApart(peaks[s])

(* The strongest echo of an ear is never suppressed: however maxima replace *)
(* and hide each other, one as high as the highest is among the peaks.      *)
StrongestKept ==
    \A s \in Side : strongest[s] > 0 =>
        \E k \in 1 .. Len(peaks[s]) : peaks[s][k].val = strongest[s]

(* No echo is paired twice and pairs do not cross: in the order in which    *)
(* the loops find them both indices grow, so the arrays dist and direc      *)
(* cannot overflow and the distances come nearest first.  This rests on the *)
(* separation of the peaks.                                                 *)
PairsAscend ==
    \A j, k \in 1 .. Len(det) : j < k => det[j].r < det[k].r /\ det[j].l < det[k].l

(* The nearest detection is always in the text, although every other one is *)
(* left out: it is the first.                                               *)
NearestIsWritten ==
    pc = "written" /\ det # <<>> =>
        text # <<>> /\ \A k \in 1 .. Len(det) :
            /\ peaks["R"][text[1].of.r].at <= peaks["R"][det[k].r].at
            /\ peaks["L"][text[1].of.l].at <= peaks["L"][det[k].l].at

(* The text does not say where the distances end; the server's halves are   *)
(* the distances and the directions of the same detections.                 *)
HalvesMatch ==
    /\ Len(dist_list) = Len(direc_list)
    /\ \A k \in 1 .. Half :
         /\ dist_list[k].is = "dist" /\ direc_list[k].is = "direc"
         /\ dist_list[k].of = direc_list[k].of

(* dist and direc hold as many detections as either list of peaks has       *)
(* peaks at most: BOXNUM places are enough although the pairing is nested.  *)
DetectionsFit == Len(det) <= Len(peaks["R"]) /\ Len(det) <= Len(peaks["L"])
=============================================================================
