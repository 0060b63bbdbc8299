--------------------------- MODULE MCActionManager ---------------------------
(* Instances of ActionManager for TLC. *)
EXTENDS ActionManager

CONSTANTS shutdown, sleep, c1, c2

MCActions    == {shutdown, sleep}
\* Sleep may be accepted or refused: it does all that shutdown can do.
JustSleep    == {sleep}
MCSuspending == {sleep}
OneClient    == {c1}
TwoClients   == {c1, c2}
=============================================================================
