--------------------------- MODULE MCDroneControl ---------------------------
(* Model values for DroneControl: H = 4 makes a unit 45 degrees.            *)
EXTENDS DroneControl

(* Straight on, and 135 degrees to the right: a turn of more than pi/4.     *)
MCHeadings == {0, -3}

(* No obstacle (0), and one to avoid by 90 degrees.                         *)
MCAvoidAngles == {0, 2}

(* Inside, and outside with the center 135 degrees to the right.            *)
MCPlaces == {[far |-> FALSE, direc |-> 0], [far |-> TRUE, direc |-> -3]}
=============================================================================
