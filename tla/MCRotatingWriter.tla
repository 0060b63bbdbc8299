--------------------------- MODULE MCRotatingWriter ---------------------------
(* Records of one and two bytes fit together, one of four never fits. *)
EXTENDS RotatingWriter

MCLengths == {1, 2, 4}
=============================================================================
