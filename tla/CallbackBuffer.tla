--------------------------- MODULE CallbackBuffer ---------------------------
(***************************************************************************)
(* The ring buffer between the read thread and the callback thread of the  *)
(* Onboard-SDK (dji_circular_buffer.cpp).  cbPush and cbPop run under      *)
(* m_nbAckLock, so each is one step.  The cell at head is always free; a   *)
(* popped cell is cleared, and calling a cleared cell would call address 0.*)
(*                                                                         *)
(*   buffer, head, tail  the ring: buffer and buffer2 of the code as one   *)
(*   pushed, called      history: what was pushed; what was called         *)
(*   overflowed          history: a push met a full ring                   *)
(***************************************************************************)
EXTENDS Naturals, Sequences

CONSTANTS MaxLen,     \* cells of the ring (5000 in the code)
          Callback,   \* what may be pushed: a handler with its received frame
          Cleared     \* a cell filled with zeros

ASSUME MaxLenAssumption == MaxLen \in Nat /\ MaxLen > 1
ASSUME ClearedAssumption == Cleared \notin Callback

VARIABLES buffer, head, tail, pushed, called, overflowed

ring == <<buffer, head, tail>>
cbVars == <<ring, pushed, called, overflowed>>

Cell == 0 .. MaxLen - 1

RingTypeOK ==
    /\ buffer \in [Cell -> Callback \cup {Cleared}]
    /\ head \in Cell /\ tail \in Cell
    /\ pushed \in Seq(Callback) /\ called \in Seq(Callback)
    /\ overflowed \in BOOLEAN

RingInit ==
    /\ buffer = [i \in Cell |-> Cleared] /\ head = 0 /\ tail = 0
    /\ pushed = <<>> /\ called = <<>> /\ overflowed = FALSE

(* Mutant of NextCell: the last cell is never used as the next one.         *)
NextCellPastEnd(i) == IF i + 1 > MaxLen THEN 0 ELSE i + 1

NextCell(i) == IF i + 1 >= MaxLen THEN 0 ELSE i + 1

Full == NextCell(head) = tail

(* Mutant of cbPush: a full ring is not noticed.                            *)
cbPushUnchecked(v) ==
    /\ buffer' = [buffer EXCEPT ![head] = v]
    /\ head' = NextCell(head) /\ UNCHANGED tail
    /\ pushed' = Append(pushed, v)
    /\ UNCHANGED <<called, overflowed>>

(* Mutant of cbPush: a full ring drops its oldest callback for the new one. *)
cbPushDropsOldest(v) ==
    /\ buffer' = IF Full THEN [buffer EXCEPT ![tail] = Cleared, ![head] = v]
                         ELSE [buffer EXCEPT ![head] = v]
    /\ head' = NextCell(head)
    /\ tail' = IF Full THEN NextCell(tail) ELSE tail
    /\ overflowed' = (overflowed \/ Full)
    /\ pushed' = Append(pushed, v)
    /\ UNCHANGED called

(* A full ring pops its oldest callback into the arguments of cbPush: the   *)
(* oldest is stored again, as the newest, and the new one is lost.          *)
cbPush(v) ==
    /\ buffer' = IF Full THEN [buffer EXCEPT ![tail] = Cleared, ![head] = buffer[tail]]
                         ELSE [buffer EXCEPT ![head] = v]
    /\ head' = NextCell(head)
    /\ tail' = IF Full THEN NextCell(tail) ELSE tail
    /\ overflowed' = (overflowed \/ Full)
    /\ pushed' = Append(pushed, v)
    /\ UNCHANGED called

(* Mutant of callbackPoll: it pops the callback that was pushed last.       *)
callbackPollNewest ==
    /\ head # tail
    /\ head' \in Cell /\ NextCell(head') = head
    /\ called' = Append(called, buffer[head'])
    /\ buffer' = [buffer EXCEPT ![head'] = Cleared]
    /\ UNCHANGED <<tail, pushed, overflowed>>

(* callbackPoll: pops the oldest callback, and calls it after the unlock.   *)
callbackPoll ==
    /\ head # tail
    /\ called' = Append(called, buffer[tail])
    /\ buffer' = [buffer EXCEPT ![tail] = Cleared]
    /\ tail' = NextCell(tail)
    /\ UNCHANGED <<head, pushed, overflowed>>

-----------------------------------------------------------------------------
(* The cells from tail to head, and only those, hold callbacks: callbackPoll *)
(* never calls address 0, and no callback waits where it is not found.      *)
Filled == IF tail <= head THEN tail .. head - 1 ELSE Cell \ (head .. tail - 1)

NoNullCallback == \A i \in Cell : (buffer[i] # Cleared) <=> (i \in Filled)

(* Until the ring overflows, callbacks are called in the order in which     *)
(* they were pushed, each once.                                             *)
CallbacksInOrder ==
    ~overflowed => /\ Len(called) <= Len(pushed)
                   /\ called = SubSeq(pushed, 1, Len(called))

(* The ring holds a queue: the callbacks from tail on, around its end.      *)
Wrap(i) == IF i >= MaxLen THEN i - MaxLen ELSE i

Count == IF tail <= head THEN head - tail ELSE head + MaxLen - tail

Contents == [k \in 1 .. Count |-> buffer[Wrap(tail + (k - 1))]]

Q == INSTANCE CallbackQueue WITH queue <- Contents

(* cbPush and callbackPoll keep to the queue, also where the ring wraps and *)
(* when it is full: nothing is called twice, none but a callback that met a *)
(* full ring is lost, and then the oldest, not the new one, is kept.        *)
QueueSpec == Q!Spec
=============================================================================
