----------------------------- MODULE MCDashboard -----------------------------
(* One action that leaves the PC off and one it comes back from. *)
EXTENDS Dashboard

CONSTANTS shutdown, sleep, p1, p2

MCActions     == {shutdown, sleep}
MCPoweringOff == {shutdown}
TwoPolls      == {p1, p2}
=============================================================================
