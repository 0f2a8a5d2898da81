----------------------------- MODULE MCMoveTest -----------------------------
(* Instance of MoveTest for TLC: three headings, two of them on either side *)
(* of the wrap at pi, and three avoid angles.                               *)
EXTENDS MoveTest

MCHeadings == {-3, 0, 3}

MCAvoidAngles == {-2, 0, 2}
=============================================================================
