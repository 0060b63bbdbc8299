--------------------------- MODULE MCVolumeControl ---------------------------
(***************************************************************************)
(* One browser on devices from a single step to one step per percent, and  *)
(* two browsers and a hand at the PC on a device of three steps.           *)
(***************************************************************************)
EXTENDS VolumeControl

CONSTANTS phone, laptop

Browsers == {phone, laptop}

OneBrowser(stepCounts, asked) ==
    [browsers : {{phone}}, stepCount : stepCounts, levels : {asked}, touches : {0}]
TwoBrowsersAndAHand ==
    [browsers : {Browsers}, stepCount : {3}, levels : {{60}}, touches : {1}]

UpToOnePerPercent ==
    OneBrowser({1, 2, 3, 17, 100, 101}, {-5, 0, 1, 50, 99, 150})
        \cup TwoBrowsersAndAHand
OverOnePerPercent == OneBrowser({103}, {0, 60, 150})
=============================================================================
