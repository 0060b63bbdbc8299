---------------------------- MODULE PowerSchedule ----------------------------
(***************************************************************************)
(* What Shutdowner promises about a scheduled power action, with no file,  *)
(* no process and no lock: one action armed at a time; an armed action is  *)
(* claimed at most once, inside the window that starts at its deadline and *)
(* is MissedGrace long; it is carried out at most once, after the claim;   *)
(* a cancelled or skipped action is never carried out.  An armed action    *)
(* may be hidden for a time: nothing becomes of it then, but another may    *)
(* be armed in its place.  ActionManager implements this across restarts,  *)
(* as long as the file can be written.                                     *)
(***************************************************************************)
EXTENDS Integers

CONSTANTS MissedGrace, MaxHorizon, ValidActions, None

VARIABLES
    now,      \* the wall clock
    armed,    \* None, or the action waiting for its deadline
    hidden,   \* an action is armed where it cannot be seen
    claimed,  \* identifiers being carried out (at most one)
    used,     \* how many identifiers have been given out
    fired, cancelled, skipped   \* what became of the others

vars == <<now, armed, hidden, claimed, used, fired, cancelled, skipped>>

Init ==
    /\ now = 0 /\ hidden = FALSE
    /\ claimed = {} /\ fired = {} /\ cancelled = {} /\ skipped = {}
    /\ \/ armed = None /\ used = 0
       \/ armed # None /\ used = armed.id

Arm ==
    /\ (armed = None \/ hidden) /\ claimed = {}
    /\ hidden' = FALSE
    /\ armed' # None /\ armed'.id = used + 1 /\ used' = used + 1
    /\ armed'.action \in ValidActions
    /\ UNCHANGED <<now, claimed, fired, cancelled, skipped>>

Cancel ==
    /\ armed # None /\ ~hidden /\ armed' = None
    /\ cancelled' = cancelled \cup {armed.id}
    /\ UNCHANGED <<now, hidden, claimed, used, fired, skipped>>

Claim ==
    /\ armed # None /\ ~hidden /\ armed' = None
    /\ armed.action \in ValidActions
    /\ armed.firesAt <= now /\ now <= armed.firesAt + MissedGrace
    /\ claimed' = {armed.id}
    /\ UNCHANGED <<now, hidden, used, fired, cancelled, skipped>>

\* Late by more than the grace: the action is given up and reported.
Skip ==
    /\ armed # None /\ ~hidden /\ armed' = None
    /\ now > armed.firesAt + MissedGrace
    /\ skipped' = skipped \cup {armed.id}
    /\ UNCHANGED <<now, hidden, claimed, used, fired, cancelled>>

\* A deadline that could not have been asked for is given up silently, and so
\* is a hidden action when somebody dismisses a missed record.
Drop ==
    /\ armed # None /\ armed' = None
    /\ hidden \/ armed.action \notin ValidActions \/ armed.firesAt > now + MaxHorizon
    /\ hidden' = FALSE
    /\ UNCHANGED <<now, claimed, used, fired, cancelled, skipped>>

Fire ==
    /\ \E i \in claimed : i \notin fired /\ fired' = fired \cup {i}
    /\ UNCHANGED <<now, armed, hidden, claimed, used, cancelled, skipped>>

\* The claim is over: carried out, failed, or lost with the process.
Release ==
    /\ claimed # {} /\ claimed' = {}
    /\ UNCHANGED <<now, armed, hidden, used, fired, cancelled, skipped>>

Time ==
    /\ now' # now
    /\ UNCHANGED <<armed, hidden, claimed, used, fired, cancelled, skipped>>

\* What is armed goes out of sight, or comes back.
Hide ==
    /\ armed # None /\ claimed = {} /\ hidden' # hidden
    /\ UNCHANGED <<now, armed, claimed, used, fired, cancelled, skipped>>

Next == Arm \/ Cancel \/ Claim \/ Skip \/ Drop \/ Fire \/ Release \/ Time \/ Hide

Spec == Init /\ [][Next]_vars
=============================================================================
