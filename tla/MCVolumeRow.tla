------------------------------ MODULE MCVolumeRow ------------------------------
(* A device of two steps: whatever it is asked for, it settles on an end. *)
EXTENDS VolumeRow

CONSTANTS r1, r2, p1, p2

TwoCalls == {r1, r2}
OnePoll  == {p1}
TwoPolls == {p1, p2}
Coarse   == {60}
=============================================================================
