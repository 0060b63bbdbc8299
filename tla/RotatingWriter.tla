---------------------------- MODULE RotatingWriter ----------------------------
(***************************************************************************)
(* RotatingWriter of src/internal/logging/rotate.go, the service's only    *)
(* output: an appending file that is rolled over to path.1, path.2, ...    *)
(* when a record would take it past maxBytes.  Its mutex makes one call run*)
(* at a time; each call to the operating system may fail, and may be the   *)
(* last one the process makes.                                             *)
(*                                                                         *)
(* A file is the sequence of the records in it, a record its number and the*)
(* offset at which what is there of it ends.                               *)
(***************************************************************************)
EXTENDS Integers, Sequences

CONSTANTS
    Lengths,      \* of the records written
    MaxBytes, Keep,
    MaxRecords,   \* bound: records
    MaxFaults     \* bound: calls to the operating system that fail

ASSUME WriterAssumption ==
    /\ Lengths \subseteq Nat \ {0} /\ MaxBytes \in Nat \ {0} /\ Keep \in Nat \ {0}
    /\ MaxRecords \in Nat /\ MaxFaults \in Nat

VARIABLES
    files,      \* generation -> content, 0 for path itself; absent files left out
    handle,     \* w.f: nil (also: no process), open, or closed and not replaced
    size,       \* w.size
    pc, shift,  \* where a call under way is; the generation it renames next
    record,     \* what it is to write
    faults,
    rotations,  \* history: rotations begun
    promised,   \* history: records reported written, and rotations at that time
    muted       \* history: records in a row lost to a rename, the file open again

vars == <<files, handle, size, pc, shift, record, faults, rotations, promised, muted>>
history == <<rotations, promised, muted>>

Bytes(content) == IF content = <<>> THEN 0 ELSE content[Len(content)].ends
Logged(g)      == {files[g][i].id : i \in DOMAIN files[g]}
Current        == IF 0 \in DOMAIN files THEN files[0] ELSE <<>>

TypeOK ==
    /\ DOMAIN files \subseteq 0..Keep
    /\ \A g \in DOMAIN files : files[g] \in Seq([id : 1..MaxRecords, ends : Nat])
    /\ handle \in {"nil", "open", "closed"} /\ size \in Nat
    /\ pc \in {"idle", "close", "remove", "shift", "reopen", "open", "append"}
    /\ shift \in 0..Keep
    /\ record \in [id : 0..MaxRecords, bytes : Nat]
    /\ faults \in 0..MaxFaults /\ rotations \in Nat /\ muted \in Nat
    /\ promised \subseteq [id : 1..MaxRecords, at : Nat]

Init ==
    /\ files = <<>> /\ handle = "nil" /\ size = 0
    /\ pc = "idle" /\ shift = 0 /\ record = [id |-> 0, bytes |-> 0]
    /\ faults = 0 /\ rotations = 0 /\ promised = {} /\ muted = 0

Fault == faults < MaxFaults /\ faults' = faults + 1

\* The files with one more content under a generation, and one moved over
\* another: os.Rename replaces what is at the new name.
Stored(g, content) == [h \in DOMAIN files \cup {g} |-> IF h = g THEN content ELSE files[h]]
Renamed(from, to)  == [h \in (DOMAIN files \ {from}) \cup {to} |->
                         IF h = to THEN files[from] ELSE files[h]]
Appended(bytes)    == Stored(0, Append(Current, [id |-> record.id, ends |-> Bytes(Current) + bytes]))

-----------------------------------------------------------------------------
\* open: the size is read from the file.
Opened == files' = Stored(0, Current) /\ handle' = "open" /\ size' = Bytes(Current)

\* The file, or its size, cannot be had: the fields stay, the file may be there.
OpenFails == Fault /\ files' \in {files, Stored(0, Current)} /\ UNCHANGED <<handle, size>>

\* The service starts; without a log it does not.
New ==
    /\ handle = "nil" /\ pc = "idle"
    /\ \/ Opened /\ UNCHANGED faults
       \/ OpenFails
    /\ UNCHANGED <<pc, shift, record, rotations, promised, muted>>

\* Slip: the record about to be written is left out of the check.
Write_ChecksSizeOnly(bytes) ==
    /\ handle # "nil" /\ pc = "idle" /\ record.id < MaxRecords
    /\ record' = [id |-> record.id + 1, bytes |-> bytes]
    /\ pc' = IF size > 0 /\ size > MaxBytes THEN "close" ELSE "append"
    /\ UNCHANGED <<files, handle, size, shift, faults, history>>

\* A record is written whole: what does not fit goes to a file of its own.
Write(bytes) ==
    /\ handle # "nil" /\ pc = "idle" /\ record.id < MaxRecords
    /\ record' = [id |-> record.id + 1, bytes |-> bytes]
    /\ pc' = IF size > 0 /\ size + bytes > MaxBytes THEN "close" ELSE "append"
    /\ UNCHANGED <<files, handle, size, shift, faults, history>>

\* rotateLocked.  Closing what is already closed always fails.
CloseCurrent ==
    /\ pc = "close" /\ handle' = "closed"
    /\ \/ handle = "open" /\ pc' = "remove" /\ rotations' = rotations + 1
          /\ UNCHANGED <<faults, muted>>
       \/ handle = "open" /\ Fault /\ pc' = "idle" /\ muted' = 0 /\ UNCHANGED rotations
       \/ handle = "closed" /\ pc' = "idle" /\ muted' = 0 /\ UNCHANGED <<faults, rotations>>
    /\ UNCHANGED <<files, size, shift, record, promised>>

\* Slip: the loop starts one generation too high, and nothing is removed.
RemoveOldest_None ==
    /\ pc = "remove" /\ pc' = "shift" /\ shift' = Keep
    /\ UNCHANGED <<files, handle, size, record, faults, history>>

RemoveOldest ==
    /\ pc = "remove" /\ pc' = "shift" /\ shift' = Keep - 1
    /\ \/ files' = [g \in DOMAIN files \ {Keep} |-> files[g]] /\ UNCHANGED faults
       \/ Keep \in DOMAIN files /\ Fault /\ UNCHANGED files
    /\ UNCHANGED <<handle, size, record, history>>

\* Slip: the loop counts up.
ShiftDown_Upwards ==
    /\ pc = "shift" /\ shift >= 1
    /\ LET g == Keep - shift IN
       files' = IF g \in DOMAIN files THEN Renamed(g, g + 1) ELSE files
    /\ shift' = shift - 1
    /\ UNCHANGED <<handle, size, pc, record, faults, history>>

\* An error is dropped, a missing generation too.  What cannot be moved will be
\* overwritten by the next one.
ShiftDown ==
    /\ pc = "shift" /\ shift >= 1 /\ shift' = shift - 1
    /\ \/ /\ files' = IF shift \in DOMAIN files THEN Renamed(shift, shift + 1) ELSE files
          /\ UNCHANGED <<faults, promised>>
       \/ /\ shift \in DOMAIN files /\ Fault /\ UNCHANGED files
          /\ promised' = {p \in promised : p.id \notin Logged(shift)}
    /\ UNCHANGED <<handle, size, pc, record, rotations, muted>>

\* Slip: a generation that could not be moved is passed over, not overwritten.
RenameCurrent_NextFree ==
    /\ pc = "shift" /\ shift = 0
    /\ \/ /\ 0 \in DOMAIN files /\ pc' = "open" /\ UNCHANGED faults
          /\ files' = Renamed(0, IF 1 \in DOMAIN files THEN Keep ELSE 1)
       \/ Fault /\ pc' = "reopen" /\ UNCHANGED files
    /\ UNCHANGED <<handle, size, shift, record, history>>

RenameCurrent ==
    /\ pc = "shift" /\ shift = 0
    /\ \/ 0 \in DOMAIN files /\ files' = Renamed(0, 1) /\ pc' = "open" /\ UNCHANGED faults
       \/ Fault /\ pc' = "reopen" /\ UNCHANGED files
    /\ UNCHANGED <<handle, size, shift, record, history>>

\* The rename failed: open the file again, and return the error all the same.
Reopen ==
    /\ pc = "reopen" /\ pc' = "idle"
    /\ \/ Opened /\ muted' = muted + 1 /\ UNCHANGED faults
       \/ OpenFails /\ muted' = 0
    /\ UNCHANGED <<shift, record, rotations, promised>>

OpenNew ==
    /\ pc = "open"
    /\ \/ Opened /\ pc' = "append" /\ UNCHANGED <<faults, muted>>
       \/ OpenFails /\ pc' = "idle" /\ muted' = 0
    /\ UNCHANGED <<shift, record, rotations, promised>>

\* Slip: the whole record is counted when part of it was written.
AppendRecord_CountsAll ==
    /\ pc = "append" /\ pc' = "idle" /\ muted' = 0
    /\ handle = "open" /\ Fault
    /\ \E n \in 1..record.bytes - 1 : files' = Appended(n)
    /\ size' = size + record.bytes
    /\ UNCHANGED <<handle, shift, record, rotations, promised>>

\* The operating system may take part of the record, or none of it.
AppendRecord ==
    /\ pc = "append" /\ pc' = "idle" /\ muted' = 0
    /\ \/ /\ handle = "open" /\ files' = Appended(record.bytes)
          /\ size' = size + record.bytes
          /\ promised' = promised \cup {[id |-> record.id, at |-> rotations]}
          /\ UNCHANGED faults
       \/ /\ handle = "open" /\ Fault
          /\ \E n \in 1..record.bytes - 1 :
               /\ files' = Appended(n)
               /\ size' = size + n
          /\ UNCHANGED promised
       \/ handle = "open" /\ Fault /\ UNCHANGED <<files, size, promised>>
       \/ handle = "closed" /\ UNCHANGED <<files, size, promised, faults>>
    /\ UNCHANGED <<handle, shift, record, rotations>>

\* Close, after which Write does nothing but say so; and the process ending
\* at any step of a call.
Exit ==
    /\ handle # "nil" /\ handle' = "nil" /\ pc' = "idle" /\ muted' = 0
    /\ UNCHANGED <<files, size, shift, record, faults, rotations, promised>>

Next ==
    \/ New \/ (\E bytes \in Lengths : Write(bytes))
    \/ CloseCurrent \/ RemoveOldest \/ ShiftDown \/ RenameCurrent \/ Reopen \/ OpenNew
    \/ AppendRecord \/ Exit

Spec == Init /\ [][Next]_vars

-----------------------------------------------------------------------------
\* Read from the oldest generation to the newest, the records are in the order
\* they were logged and none is there twice: no failing shift or rename, and no
\* end of the process between two of them, mixes the generations up.
InOrder ==
    \A g \in DOMAIN files :
       /\ \A i, j \in DOMAIN files[g] : i < j => files[g][i].id < files[g][j].id
       /\ \A h \in DOMAIN files : h > g => \A x \in Logged(g), y \in Logged(h) : y < x

\* The size the writer goes by is the file's, whatever failed on the way.
SizeIsExact == handle = "open" /\ pc = "idle" => size = Bytes(Current)

\* No generation outgrows the limit, except for one record that alone is larger
\* (or its remains in front of nothing else).
FilesBounded ==
    \A g \in DOMAIN files : Bytes(files[g]) <= MaxBytes \/ Len(files[g]) = 1

\* A record Write reported written stays through the next Keep
\* rotations, failed and interrupted ones included.  Not promised is only what
\* was in a generation a failed shift left to be overwritten.
ReportedIsKept ==
    \A p \in promised :
       rotations - p.at <= Keep =>
          \E g \in DOMAIN files : p.id \in Logged(g)

(***************************************************************************)
(* "Reopen so logging survives a rename failure rather than going silent": *)
(* with the file open again, no two records in a row are lost.  They are:  *)
(* the error returns before anything is written and the file is as full as *)
(* before, so each record tries the rename again, and is lost with it, for *)
(* as long as another program holds the file.                              *)
(***************************************************************************)
SurvivesRenameFailure == muted < 2
=============================================================================
