---------------------------- MODULE CallbackQueue ----------------------------
(***************************************************************************)
(* What the ring buffer of the Onboard-SDK amounts to for the two threads  *)
(* that use it: a queue of at most MaxLen - 1 callbacks.  CallbackBuffer   *)
(* implements it.  A push into a full queue loses a callback, but not the  *)
(* oldest, as the comment in cbPush has it: the oldest goes to the end,    *)
(* and the one that was pushed is never called.                            *)
(***************************************************************************)
EXTENDS Naturals, Sequences

CONSTANTS MaxLen,    \* cells of the ring
          Callback   \* what may be pushed

VARIABLES queue,     \* the callbacks that wait, oldest first
          called     \* history: what was called

Init == queue = <<>> /\ called = <<>>

Push(v) ==
    /\ Len(queue) < MaxLen - 1
    /\ queue' = Append(queue, v)
    /\ UNCHANGED called

PushFull ==
    /\ Len(queue) = MaxLen - 1
    /\ queue' = Append(Tail(queue), Head(queue))
    /\ UNCHANGED called

CallOldest ==
    /\ queue # <<>>
    /\ queue' = Tail(queue)
    /\ called' = Append(called, Head(queue))

Next == (\E v \in Callback : Push(v)) \/ PushFull \/ CallOldest

Spec == Init /\ [][Next]_<<queue, called>>
=============================================================================
