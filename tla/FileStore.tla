------------------------------- MODULE FileStore -------------------------------
(***************************************************************************)
(* FileStore of src/internal/action/store.go: Save writes a temporary file *)
(* and renames it over the schedule, Clear removes the schedule.  Each call*)
(* to the operating system is a step, may fail, and may be the last one    *)
(* the process makes.  A writer is a process with the schedule open: the   *)
(* service, and an instance started by hand next to it.  ServiceHost says  *)
(* when a process makes a call, and when it ends in the middle of one.     *)
(*                                                                         *)
(* The manager calls its store under its own lock, so a writer makes one   *)
(* call at a time.  A process may end, the machine not: what a power cut   *)
(* does to unsynced writes is left to the file system.  Schedules are told *)
(* apart by who saved them.                                                *)
(***************************************************************************)
EXTENDS Integers, FiniteSets

CONSTANTS
    Writers,
    None,         \* no file
    Partial       \* the content of a file not yet written to the end

ASSUME StoreAssumption ==
    None \notin Writers /\ Partial \notin Writers /\ None # Partial

VARIABLES
    file,      \* the schedule file
    temp,      \* per writer: the temporary file of the Save under way
    pc,        \* per writer: the step it is at
    value,     \* per writer: what it was asked to save
    error      \* per writer: the error the call will return

store == <<file, temp, pc, value, error>>

Steps == {"idle", "create", "write", "seal", "rename", "cleanup", "remove", "return"}

\* Temporary files do not pile up: no call returns and leaves its own behind.  (Its
\* process ending can, and a removal that itself fails, which is not told apart.)
StoreTypeOK ==
    /\ file \in Writers \cup {None, Partial}
    /\ temp \in [Writers -> Writers \cup {None, Partial}]
    /\ pc \in [Writers -> Steps]
    /\ value \in [Writers -> Writers \cup {None}]
    /\ error \in [Writers -> BOOLEAN]
    /\ \A w \in Writers : pc[w] \in {"idle", "return"} => temp[w] = None

StoreInit ==
    /\ file \in Writers \cup {None}
    /\ temp = [w \in Writers |-> None]
    /\ pc = [w \in Writers |-> "idle"]
    /\ value = [w \in Writers |-> None]
    /\ error = [w \in Writers |-> FALSE]

Goto(w, step) == pc' = [pc EXCEPT ![w] = step]
Fail(w)       == error' = [error EXCEPT ![w] = TRUE]

-----------------------------------------------------------------------------
Save(w) ==
    /\ pc[w] = "idle"
    /\ value' = [value EXCEPT ![w] = w]
    /\ error' = [error EXCEPT ![w] = FALSE]
    /\ Goto(w, "create")
    /\ UNCHANGED <<file, temp>>

\* A failure here returns before the cleanup is deferred.
CreateTemp(w) ==
    /\ pc[w] = "create"
    /\ \/ /\ temp' = [temp EXCEPT ![w] = Partial]
          /\ Goto(w, "write") /\ UNCHANGED error
       \/ /\ Fail(w) /\ Goto(w, "return") /\ UNCHANGED temp
    /\ UNCHANGED <<file, value>>

Write(w) ==
    /\ pc[w] = "write"
    /\ \/ /\ temp' = [temp EXCEPT ![w] = value[w]]
          /\ Goto(w, "seal") /\ UNCHANGED error
       \/ /\ Fail(w) /\ Goto(w, "cleanup") /\ UNCHANGED temp
    /\ UNCHANGED <<file, value>>

\* Slip: a failure from here returns past the deferred cleanup.
Seal_NoCleanup(w) ==
    /\ pc[w] = "seal"
    /\ \/ Goto(w, "rename") /\ UNCHANGED error
       \/ Fail(w) /\ Goto(w, "return")
    /\ UNCHANGED <<file, temp, value>>

\* Chmod and Close: either failing leaves the rename undone.
Seal(w) ==
    /\ pc[w] = "seal"
    /\ \/ Goto(w, "rename") /\ UNCHANGED error
       \/ Fail(w) /\ Goto(w, "cleanup")
    /\ UNCHANGED <<file, temp, value>>

\* Slip: the error of the rename is dropped.
Rename_Silent(w) ==
    /\ pc[w] = "rename" /\ Goto(w, "cleanup")
    /\ \/ file' = temp[w] /\ temp' = [temp EXCEPT ![w] = None]
       \/ UNCHANGED <<file, temp>>
    /\ UNCHANGED <<value, error>>

Rename(w) ==
    /\ pc[w] = "rename" /\ Goto(w, "cleanup")
    /\ \/ file' = temp[w] /\ temp' = [temp EXCEPT ![w] = None] /\ UNCHANGED error
       \/ Fail(w) /\ UNCHANGED <<file, temp>>
    /\ UNCHANGED value

\* The deferred os.Remove, whose own error is dropped.  After a rename there
\* is nothing left under the temporary name.
Cleanup(w) ==
    /\ pc[w] = "cleanup" /\ Goto(w, "return")
    /\ temp' = [temp EXCEPT ![w] = None]
    /\ UNCHANGED <<file, value, error>>

Clear(w) ==
    /\ pc[w] = "idle"
    /\ value' = [value EXCEPT ![w] = None]
    /\ error' = [error EXCEPT ![w] = FALSE]
    /\ Goto(w, "remove")
    /\ UNCHANGED <<file, temp>>

\* An absent file is not an error.
Remove(w) ==
    /\ pc[w] = "remove" /\ Goto(w, "return")
    /\ \/ file' = None /\ UNCHANGED error
       \/ file # None /\ Fail(w) /\ UNCHANGED file
    /\ UNCHANGED <<temp, value>>

Return(w) ==
    /\ pc[w] = "return" /\ Goto(w, "idle")
    /\ value' = [value EXCEPT ![w] = None] /\ error' = [error EXCEPT ![w] = FALSE]
    /\ UNCHANGED <<file, temp>>

\* The process of w ends, wherever it is.
CutOff(w) ==
    /\ Goto(w, "idle")
    /\ temp' = [temp EXCEPT ![w] = None]
    /\ value' = [value EXCEPT ![w] = None] /\ error' = [error EXCEPT ![w] = FALSE]
    /\ UNCHANGED file

\* A call gets on, up to its return.
Proceed(w) ==
    CreateTemp(w) \/ Write(w) \/ Seal(w) \/ Rename(w) \/ Cleanup(w) \/ Remove(w)

-----------------------------------------------------------------------------
(***************************************************************************)
(* Seen from the manager this is an atomic cell: the file changes at the   *)
(* rename or the removal and at no other step, to what the call was given  *)
(* and never half of it, and a call returns no error exactly if it came to *)
(* that, wherever processes end and whoever else is writing.               *)
(***************************************************************************)
CallOf(w) ==
    IF pc[w] = "idle"
      THEN [busy |-> FALSE, value |-> None, placed |-> FALSE, failed |-> FALSE]
      ELSE [busy   |-> TRUE,
            value  |-> value[w],
            placed |-> pc[w] \in {"cleanup", "return"} /\ ~error[w],
            failed |-> error[w]]
Cell == INSTANCE AtomicStore WITH Values <- Writers, call <- [w \in Writers |-> CallOf(w)]
ActsAtomically == Cell!Spec
=============================================================================
