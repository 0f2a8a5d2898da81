----------------------- MODULE CallbackBuffer_proofs -----------------------
(***************************************************************************)
(* The ring buffer of CallbackBuffer for every MaxLen > 1 and every set of *)
(* callbacks: what a push and a poll preserve.  CommandLink_proofs makes   *)
(* invariants of the whole command link of it.                             *)
(***************************************************************************)
EXTENDS CallbackBuffer, SequenceTheorems, TLAPS

(* The callbacks that were pushed are those called, and then the ones in    *)
(* the ring from tail on.                                                   *)
RingHolds ==
    /\ Len(pushed) = Len(called) + Count
    /\ \A i \in 1 .. Len(called) : called[i] = pushed[i]
    /\ \A k \in 0 .. Count - 1 : buffer[Wrap(tail + k)] = pushed[Len(called) + 1 + k]

RingInv == RingTypeOK /\ NoNullCallback /\ (~overflowed => RingHolds)

-----------------------------------------------------------------------------
LEMMA NextCellType == \A i \in Cell : NextCell(i) \in Cell /\ NextCell(i) # i
BY MaxLenAssumption DEF Cell, NextCell

LEMMA RingStarts == RingInit => RingInv
<1> SUFFICES ASSUME RingInit PROVE RingInv
  OBVIOUS
<1> USE MaxLenAssumption, ClearedAssumption DEF RingInit
<1>1. RingTypeOK
  BY DEF RingTypeOK, Cell
<1>2. NoNullCallback
  BY DEF NoNullCallback, Filled, Cell
<1>3. RingHolds
  BY DEF RingHolds, Count
<1> QED
  BY <1>1, <1>2, <1>3 DEF RingInv

(* A push into a full ring takes the oldest callback for the new one; the   *)
(* ring stays filled and typed.                                             *)
LEMMA PushKeeps ==
    ASSUME RingInv, NEW v \in Callback, cbPush(v)
    PROVE  RingInv'
<1> USE MaxLenAssumption, ClearedAssumption DEF RingInv
<1>1. /\ head \in Cell /\ tail \in Cell /\ head' = NextCell(head)
      /\ NextCell(head) \in Cell /\ NextCell(tail) \in Cell /\ NextCell(head) # head
  BY NextCellType DEF RingTypeOK, cbPush
<1>2. CASE Full
  <2>1. /\ tail' = NextCell(tail) /\ overflowed' = TRUE /\ NextCell(head) = tail
        /\ buffer' = [buffer EXCEPT ![tail] = Cleared, ![head] = buffer[tail]]
    BY <1>2 DEF cbPush, Full
  <2>2. tail \in Filled /\ head \notin Filled
    BY <1>1, <2>1 DEF Filled, NextCell, Cell
  <2>3. buffer[tail] \in Callback
    BY <2>2, <1>1 DEF NoNullCallback, RingTypeOK
  <2>4. RingTypeOK'
    BY <1>1, <2>1, <2>3 DEF RingTypeOK, cbPush
  <2>5. Filled' = (Filled \ {tail}) \cup {head}
    BY <1>1, <2>1 DEF Filled, NextCell, Cell
  <2>6. NoNullCallback'
    BY <1>1, <2>1, <2>3, <2>5 DEF NoNullCallback, RingTypeOK
  <2> QED
    BY <2>1, <2>4, <2>6
<1>3. CASE ~Full
  <2>1. /\ tail' = tail /\ overflowed' = overflowed /\ NextCell(head) # tail
        /\ buffer' = [buffer EXCEPT ![head] = v]
        /\ called' = called /\ pushed' = Append(pushed, v)
    BY <1>3 DEF cbPush, Full, RingTypeOK
  <2>2. RingTypeOK'
    BY <1>1, <2>1 DEF RingTypeOK
  <2>3. Filled' = Filled \cup {head}
    BY <1>1, <2>1 DEF Filled, NextCell, Cell
  <2>4. NoNullCallback'
    BY <1>1, <2>1, <2>3 DEF NoNullCallback, RingTypeOK
  <2>5. ASSUME ~overflowed PROVE RingHolds'
    <3>1. RingHolds /\ Len(pushed) \in Nat /\ Len(called) \in Nat
      BY <2>5, LenProperties DEF RingTypeOK
    <3>2. /\ Count' = Count + 1 /\ Count \in Nat
          /\ Wrap(tail + Count) = head
      BY <1>1, <2>1 DEF Count, NextCell, Cell, Wrap
    <3>3. /\ Len(pushed') = Len(pushed) + 1
          /\ \A i \in 1 .. Len(pushed) : pushed'[i] = pushed[i]
          /\ pushed'[Len(pushed) + 1] = v
      BY <2>1 DEF RingTypeOK
    <3>4. \A k \in 0 .. Count - 1 : Wrap(tail + k) \in Cell /\ Wrap(tail + k) # head
      BY <1>1 DEF Count, Cell, Wrap
    <3>5. Len(pushed') = Len(called') + Count'
      BY <2>1, <3>1, <3>2, <3>3 DEF RingHolds
    <3>6. \A i \in 1 .. Len(called') : called'[i] = pushed'[i]
      BY <2>1, <3>1, <3>2, <3>3 DEF RingHolds
    <3>7. ASSUME NEW k \in 0 .. Count' - 1
          PROVE  buffer'[Wrap(tail' + k)] = pushed'[Len(called') + 1 + k]
      <4>1. CASE k = Count
        BY <4>1, <1>1, <2>1, <3>1, <3>2, <3>3 DEF RingHolds, RingTypeOK
      <4>2. CASE k # Count
        <5>1. k \in 0 .. Count - 1
          BY <4>2, <3>2
        <5>2. buffer'[Wrap(tail + k)] = buffer[Wrap(tail + k)]
          BY <5>1, <3>4, <1>1, <2>1 DEF RingTypeOK
        <5>3. Len(called) + 1 + k \in 1 .. Len(pushed)
          BY <5>1, <3>1, <3>2 DEF RingHolds
        <5> QED
          BY <5>1, <5>2, <5>3, <3>1, <3>3, <2>1 DEF RingHolds
      <4> QED
        BY <4>1, <4>2
    <3> QED
      BY <3>5, <3>6, <3>7 DEF RingHolds, Wrap
  <2> QED
    BY <2>1, <2>2, <2>4, <2>5
<1> QED
  BY <1>2, <1>3

(* A poll calls the oldest callback, never a cleared cell.                  *)
LEMMA PollKeeps ==
    ASSUME RingInv, callbackPoll
    PROVE  RingInv'
<1> USE MaxLenAssumption, ClearedAssumption DEF RingInv
<1>1. /\ head \in Cell /\ tail \in Cell /\ NextCell(tail) \in Cell /\ head # tail
      /\ head' = head /\ tail' = NextCell(tail) /\ pushed' = pushed
      /\ overflowed' = overflowed /\ called' = Append(called, buffer[tail])
      /\ buffer' = [buffer EXCEPT ![tail] = Cleared]
  BY NextCellType DEF RingTypeOK, callbackPoll
<1>2. tail \in Filled
  BY <1>1 DEF Filled, Cell
<1>3. buffer[tail] \in Callback
  BY <1>1, <1>2 DEF NoNullCallback, RingTypeOK
<1>4. RingTypeOK'
  BY <1>1, <1>3 DEF RingTypeOK
<1>5. Filled' = Filled \ {tail}
  BY <1>1 DEF Filled, NextCell, Cell
<1>6. NoNullCallback'
  BY <1>1, <1>5 DEF NoNullCallback, RingTypeOK
<1>7. ASSUME ~overflowed PROVE RingHolds'
  <2>1. RingHolds /\ Len(pushed) \in Nat /\ Len(called) \in Nat
    BY <1>7, LenProperties DEF RingTypeOK
  <2>2. /\ Count' = Count - 1 /\ Count \in Nat \ {0} /\ Wrap(tail + 0) = tail
    BY <1>1 DEF Count, NextCell, Cell, Wrap
  <2>3. /\ Len(called') = Len(called) + 1
        /\ \A i \in 1 .. Len(called) : called'[i] = called[i]
        /\ called'[Len(called) + 1] = buffer[tail]
    BY <1>1, <1>3 DEF RingTypeOK
  <2>4. buffer[tail] = pushed[Len(called) + 1]
    <3>1. 0 \in 0 .. Count - 1
      BY <2>2
    <3>2. buffer[Wrap(tail + 0)] = pushed[Len(called) + 1 + 0]
      BY <3>1, <2>1 DEF RingHolds
    <3> QED
      BY <3>2, <2>1, <2>2
  <2>5. \A k \in 0 .. Count - 2 : /\ Wrap(NextCell(tail) + k) = Wrap(tail + (k + 1))
                                  /\ Wrap(tail + (k + 1)) \in Cell \ {tail}
    BY <1>1 DEF Count, NextCell, Cell, Wrap
  <2>6. ASSUME NEW k \in 0 .. Count' - 1
        PROVE  buffer'[Wrap(tail' + k)] = pushed'[Len(called') + 1 + k]
    <3>1. k \in 0 .. Count - 2 /\ k + 1 \in 0 .. Count - 1
      BY <2>2
    <3>2. buffer[Wrap(tail + (k + 1))] = pushed[Len(called) + 1 + (k + 1)]
      BY <3>1, <2>1 DEF RingHolds
    <3>3. buffer'[Wrap(tail + (k + 1))] = buffer[Wrap(tail + (k + 1))]
      BY <3>1, <2>5, <1>1 DEF RingTypeOK
    <3> QED
      BY <3>1, <3>2, <3>3, <2>1, <2>3, <2>5, <1>1
  <2>7. Len(pushed') = Len(called') + Count'
    BY <1>1, <2>1, <2>2, <2>3 DEF RingHolds
  <2>8. \A i \in 1 .. Len(called') : called'[i] = pushed'[i]
    BY <1>1, <2>1, <2>3, <2>4 DEF RingHolds
  <2> QED
    BY <2>6, <2>7, <2>8 DEF RingHolds, Wrap
<1> QED
  BY <1>1, <1>4, <1>6, <1>7

LEMMA RingStutters == ASSUME RingInv, UNCHANGED cbVars PROVE RingInv'
BY DEF RingInv, cbVars, ring, RingTypeOK, NoNullCallback, Filled, RingHolds, Count, Wrap

LEMMA HoldsInOrder == RingInv => CallbacksInOrder
<1> SUFFICES ASSUME RingInv, ~overflowed
             PROVE  /\ Len(called) <= Len(pushed)
                    /\ called = SubSeq(pushed, 1, Len(called))
  BY DEF CallbacksInOrder
<1>1. RingHolds /\ pushed \in Seq(Callback) /\ called \in Seq(Callback)
  BY DEF RingInv, RingTypeOK
<1>2. Count \in Nat /\ Len(called) \in Nat /\ Len(pushed) \in Nat
  BY <1>1, MaxLenAssumption, LenProperties DEF RingInv, RingTypeOK, Count, Cell
<1>3. Len(called) <= Len(pushed)
  BY <1>1, <1>2 DEF RingHolds
<1>4. \A i \in 1 .. Len(called) : pushed[i] \in Callback
  BY <1>1, <1>2, <1>3, ElementOfSeq
<1> DEFINE sub == SubSeq(pushed, 1, Len(called))
<1>5. /\ sub \in Seq(Callback) /\ Len(sub) = Len(called)
      /\ \A i \in 1 .. Len(called) : sub[i] = pushed[i]
  BY <1>2, <1>4, SubSeqProperties
<1>6. called = sub
  <2> HIDE DEF sub
  <2> QED
    BY <1>1, <1>5, SeqEqual DEF RingHolds
<1> QED
  BY <1>3, <1>6

-----------------------------------------------------------------------------
(* The ring implements the queue of CallbackQueue, step by step.            *)
ContentsOK ==
    /\ Count \in 0 .. MaxLen - 1
    /\ Contents \in Seq(Callback) /\ Len(Contents) = Count
    /\ \A k \in 1 .. Count : Contents[k] = buffer[Wrap(tail + (k - 1))]

LEMMA ContentsType == RingInv => ContentsOK
<1> SUFFICES ASSUME RingInv PROVE ContentsOK
  OBVIOUS
<1>1. head \in Cell /\ tail \in Cell /\ buffer \in [Cell -> Callback \cup {Cleared}]
  BY DEF RingInv, RingTypeOK
<1>2. Count \in 0 .. MaxLen - 1
  BY <1>1, MaxLenAssumption DEF Count, Cell
<1>3. \A k \in 1 .. Count : Wrap(tail + (k - 1)) \in Filled
  BY <1>1, <1>2, MaxLenAssumption DEF Count, Wrap, Filled, Cell
<1>4. \A i \in Filled : buffer[i] \in Callback
  BY <1>1, MaxLenAssumption DEF RingInv, NoNullCallback, Filled, Cell
<1> DEFINE cell(k) == buffer[Wrap(tail + (k - 1))]
<1>5. \A k \in 1 .. Count : cell(k) \in Callback
  BY <1>3, <1>4
<1>6. Contents = [k \in 1 .. Count |-> cell(k)]
  BY DEF Contents
<1> HIDE DEF cell
<1>7. Contents \in [1 .. Count -> Callback]
  BY <1>5, <1>6
<1>8. Contents \in Seq(Callback)
  BY <1>2, <1>7, SeqDef
<1>9. Len(Contents) = Count
  BY <1>2, <1>7, <1>8, LenProperties
<1> QED
  BY <1>2, <1>6, <1>8, <1>9 DEF ContentsOK, cell

LEMMA FullCounts == ASSUME RingInv PROVE Full <=> Count = MaxLen - 1
BY MaxLenAssumption DEF RingInv, RingTypeOK, Full, NextCell, Count, Cell

LEMMA RingStartsEmpty == RingInit => Q!Init
<1> SUFFICES ASSUME RingInit PROVE Contents = <<>> /\ called = <<>>
  BY DEF Q!Init
<1>1. Contents \in Seq(Callback) /\ Len(Contents) = 0
  <2>1. RingInv
    BY RingStarts
  <2>2. Count = 0
    BY DEF RingInit, Count
  <2> QED
    BY <2>1, <2>2, ContentsType DEF ContentsOK
<1> QED
  BY <1>1, EmptySeq DEF RingInit

(* A push appends the new callback, or else moves the oldest to the end.    *)
LEMMA PushQueues ==
    ASSUME RingInv, NEW v \in Callback, cbPush(v)
    PROVE  Q!Push(v) \/ Q!PushFull
<1> USE MaxLenAssumption, ClearedAssumption
<1>0. ContentsOK
  BY ContentsType
<1>1. ContentsOK'
  <2>1. RingInv'
    BY PushKeeps
  <2> QED
    BY <2>1, ContentsType, PTL
<1>2. /\ head \in Cell /\ tail \in Cell /\ buffer \in [Cell -> Callback \cup {Cleared}]
      /\ head' = NextCell(head) /\ called' = called
  BY DEF RingInv, RingTypeOK, cbPush
<1>3. CASE ~Full
  <2>1. tail' = tail /\ buffer' = [buffer EXCEPT ![head] = v]
    BY <1>3 DEF cbPush
  <2>2. Count \in 0 .. MaxLen - 2 /\ Len(Contents) = Count
    BY <1>3, <1>0, FullCounts DEF ContentsOK
  <2>3. Count' = Count + 1 /\ Wrap(tail + Count) = head
    BY <1>2, <1>3, <2>1 DEF Count, NextCell, Cell, Wrap, Full
  <2>4. \A k \in 1 .. Count : /\ Wrap(tail + (k - 1)) \in Cell \ {head}
    BY <1>2 DEF Count, Cell, Wrap
  <2>5. /\ Contents' \in Seq(Callback) /\ Len(Contents') = Count + 1
        /\ \A k \in 1 .. Count + 1 : Contents'[k] = buffer'[Wrap(tail + (k - 1))]
    <3>1. /\ Contents' \in Seq(Callback) /\ Len(Contents') = Count'
          /\ \A k \in 1 .. Count' : Contents'[k] = buffer'[Wrap(tail' + (k - 1))]
      BY <1>1 DEF ContentsOK, Wrap
    <3> QED
      BY <3>1, <2>1, <2>3
  <2>6. \A k \in 1 .. Count : Contents'[k] = Contents[k]
    BY <2>1, <2>2, <2>4, <2>5, <1>0, <1>2 DEF ContentsOK
  <2>7. Contents'[Count + 1] = v
    BY <2>1, <2>2, <2>3, <2>5, <1>2
  <2>8. Contents' = Append(Contents, v)
    BY <2>2, <2>5, <2>6, <2>7, <1>0, AppendProperties, SeqEqual
  <2> QED
    BY <1>2, <2>2, <2>8 DEF Q!Push
<1>4. CASE Full
  <2>1. /\ tail' = NextCell(tail) /\ tail = NextCell(head) /\ tail # head
        /\ buffer' = [buffer EXCEPT ![tail] = Cleared, ![head] = buffer[tail]]
    BY <1>2, <1>4, NextCellType DEF cbPush, Full
  <2>2. Count = MaxLen - 1 /\ Count \in Nat \ {0} /\ Len(Contents) = Count
    BY <1>0, <1>4, FullCounts DEF ContentsOK
  <2>3. Count' = Count /\ Wrap(tail' + (Count - 1)) = head /\ Wrap(tail) = tail
    BY <1>2, <2>1, <2>2 DEF Count, NextCell, Cell, Wrap
  <2>4. \A k \in 1 .. Count - 1 : /\ Wrap(tail' + (k - 1)) = Wrap(tail + k)
                                  /\ Wrap(tail + k) \in Cell \ {head, tail}
    BY <1>2, <2>1, <2>2 DEF Count, NextCell, Cell, Wrap
  <2>5. /\ Contents' \in Seq(Callback) /\ Len(Contents') = Count
        /\ \A k \in 1 .. Count : Contents'[k] = buffer'[Wrap(tail' + (k - 1))]
    BY <1>1, <2>3 DEF ContentsOK, Wrap
  <2>6. \A k \in 1 .. Count - 1 : Contents'[k] = Contents[k + 1]
    <3> SUFFICES ASSUME NEW k \in 1 .. Count - 1 PROVE Contents'[k] = Contents[k + 1]
      OBVIOUS
    <3>1. Contents'[k] = buffer'[Wrap(tail + k)]
      BY <2>2, <2>4, <2>5
    <3>2. buffer'[Wrap(tail + k)] = buffer[Wrap(tail + k)]
      BY <1>2, <2>1, <2>4
    <3>3. k + 1 \in 1 .. Count /\ (k + 1) - 1 = k
      BY <2>2
    <3>4. Contents[k + 1] = buffer[Wrap(tail + ((k + 1) - 1))]
      BY <1>0, <3>3 DEF ContentsOK
    <3> QED
      BY <3>1, <3>2, <3>3, <3>4
  <2>7. Contents[1] = buffer[tail]
    BY <1>0, <1>2, <2>2, <2>3 DEF ContentsOK
  <2>8. Contents'[Count] = Contents[1]
    BY <1>2, <2>1, <2>2, <2>3, <2>5, <2>7
  <2>9. /\ Contents # <<>> /\ Head(Contents) = Contents[1] /\ Head(Contents) \in Callback
        /\ Tail(Contents) \in Seq(Callback) /\ Len(Tail(Contents)) = Count - 1
        /\ \A k \in 1 .. Count - 1 : Tail(Contents)[k] = Contents[k + 1]
    BY <1>0, <2>2, EmptySeq, HeadTailProperties DEF ContentsOK
  <2>10. Contents' = Append(Tail(Contents), Head(Contents))
    BY <2>2, <2>5, <2>6, <2>8, <2>9, AppendProperties, SeqEqual
  <2> QED
    BY <1>2, <2>2, <2>10 DEF Q!PushFull
<1> QED
  BY <1>3, <1>4

(* A poll calls the oldest callback of the queue.                           *)
LEMMA PollCallsOldest ==
    ASSUME RingInv, callbackPoll
    PROVE  Q!CallOldest
<1> USE MaxLenAssumption, ClearedAssumption
<1>0. ContentsOK
  BY ContentsType
<1>1. ContentsOK'
  <2>1. RingInv'
    BY PollKeeps
  <2> QED
    BY <2>1, ContentsType, PTL
<1>2. /\ head \in Cell /\ tail \in Cell /\ buffer \in [Cell -> Callback \cup {Cleared}]
      /\ head' = head /\ tail' = NextCell(tail) /\ head # tail
      /\ buffer' = [buffer EXCEPT ![tail] = Cleared]
      /\ called' = Append(called, buffer[tail])
  BY DEF RingInv, RingTypeOK, callbackPoll
<1>3. /\ Count' = Count - 1 /\ Count \in Nat \ {0} /\ Wrap(tail) = tail
      /\ Len(Contents) = Count
  BY <1>0, <1>2 DEF ContentsOK, Count, NextCell, Cell, Wrap
<1>4. \A k \in 1 .. Count - 1 : /\ Wrap(tail' + (k - 1)) = Wrap(tail + k)
                                /\ Wrap(tail + k) \in Cell \ {tail}
  BY <1>2 DEF Count, NextCell, Cell, Wrap
<1>5. /\ Contents' \in Seq(Callback) /\ Len(Contents') = Count - 1
      /\ \A k \in 1 .. Count - 1 : Contents'[k] = buffer'[Wrap(tail' + (k - 1))]
  BY <1>1, <1>3 DEF ContentsOK, Wrap
<1>6. \A k \in 1 .. Count - 1 : Contents'[k] = Contents[k + 1]
  <2> SUFFICES ASSUME NEW k \in 1 .. Count - 1 PROVE Contents'[k] = Contents[k + 1]
    OBVIOUS
  <2>1. Contents'[k] = buffer[Wrap(tail + k)]
    BY <1>2, <1>4, <1>5
  <2>2. k + 1 \in 1 .. Count /\ (k + 1) - 1 = k
    BY <1>3
  <2>3. Contents[k + 1] = buffer[Wrap(tail + ((k + 1) - 1))]
    BY <1>0, <2>2 DEF ContentsOK
  <2> QED
    BY <2>1, <2>2, <2>3
<1>7. Contents[1] = buffer[tail]
  <2>1. 1 \in 1 .. Count /\ tail + (1 - 1) = tail
    BY <1>2, <1>3 DEF Cell
  <2> QED
    BY <1>0, <1>3, <2>1 DEF ContentsOK
<1>8. /\ Contents # <<>> /\ Head(Contents) = Contents[1]
      /\ Tail(Contents) \in Seq(Callback) /\ Len(Tail(Contents)) = Count - 1
      /\ \A k \in 1 .. Count - 1 : Tail(Contents)[k] = Contents[k + 1]
  BY <1>0, <1>3, EmptySeq, HeadTailProperties DEF ContentsOK
<1>9. Contents' = Tail(Contents)
  BY <1>3, <1>5, <1>6, <1>8, SeqEqual
<1> QED
  BY <1>2, <1>7, <1>8, <1>9 DEF Q!CallOldest

LEMMA QueueStutters == ASSUME UNCHANGED cbVars PROVE UNCHANGED <<Contents, called>>
BY DEF cbVars, ring, Contents, Count, Wrap
=============================================================================
