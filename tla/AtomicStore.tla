------------------------------ MODULE AtomicStore ------------------------------
(***************************************************************************)
(* What the manager takes the Store of src/internal/action/store.go for: a *)
(* cell that a call to Save or Clear replaces in one indivisible step, or  *)
(* not at all, and that answers with no error exactly when it did.         *)
(* ActionManager's PersistLocked is one such call.                         *)
(***************************************************************************)
CONSTANTS Writers, Values, None

VARIABLES
    file,   \* what Load finds
    call    \* per writer: the call under way, and what has come of it

vars == <<file, call>>

NoCall  == [busy |-> FALSE, value |-> None, placed |-> FALSE, failed |-> FALSE]
Call(v) == [NoCall EXCEPT !.busy = TRUE, !.value = v]

Init == file \in Values \cup {None} /\ call = [w \in Writers |-> NoCall]

Begin(w) ==
    /\ ~call[w].busy
    /\ \E v \in Values \cup {None} : call' = [call EXCEPT ![w] = Call(v)]
    /\ UNCHANGED file

Place(w) ==
    /\ call[w].busy /\ ~call[w].placed /\ ~call[w].failed
    /\ file' = call[w].value
    /\ call' = [call EXCEPT ![w].placed = TRUE]

GiveUp(w) ==
    /\ call[w].busy /\ ~call[w].placed /\ ~call[w].failed
    /\ call' = [call EXCEPT ![w].failed = TRUE]
    /\ UNCHANGED file

\* The call returns, once it is known what came of it.
Return(w) ==
    /\ call[w].busy /\ (call[w].placed \/ call[w].failed)
    /\ call' = [call EXCEPT ![w] = NoCall]
    /\ UNCHANGED file

\* The process ends in the call.
Die(w) ==
    /\ call[w].busy
    /\ call' = [call EXCEPT ![w] = NoCall]
    /\ UNCHANGED file

Next == \E w \in Writers : Begin(w) \/ Place(w) \/ GiveUp(w) \/ Return(w) \/ Die(w)
Spec == Init /\ [][Next]_vars
=============================================================================
