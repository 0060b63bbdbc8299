------------------------ MODULE RotatingWriter_proofs ------------------------
(***************************************************************************)
(* Theorems of RotatingWriter: for every limit, number of generations and  *)
(* lengths of records, whatever fails and wherever the process ends.       *)
(***************************************************************************)
EXTENDS RotatingWriter, TLAPS

Record == [id : 1..MaxRecords, ends : Nat]

\* The number of the last record that can be in a file.
Latest == IF pc = "idle" THEN record.id ELSE record.id - 1

Sound(content, m) ==
    /\ content \in Seq(Record)
    /\ \A i \in 1..Len(content) : content[i].ends >= 1 /\ content[i].id <= m
    /\ \A i, j \in 1..Len(content) : i < j => content[i].id < content[j].id
    /\ Bytes(content) <= MaxBytes \/ Len(content) = 1

(***************************************************************************)
(* The inductive invariant.  The files are in order, and each holds whole  *)
(* or cut records up to the latest; while a rotation is on, the file is    *)
(* closed and the generations below Keep are the ones to move; the size is *)
(* the file's whenever it is open, and a record about to be appended fits  *)
(* in or comes first; and a promised record is no further down than the    *)
(* rotations since allow - one less if it has yet to be moved in this one, *)
(* and not in the generation that is overwritten next.                     *)
(***************************************************************************)
FilesInv ==
    /\ DOMAIN files \subseteq 0..Keep
    /\ \A g \in DOMAIN files : Sound(files[g], Latest)
    /\ \A g, h \in DOMAIN files : h > g => \A x \in Logged(g), y \in Logged(h) : y < x

StateOK ==
    /\ handle \in {"nil", "open", "closed"} /\ size \in Nat
    /\ pc \in {"idle", "close", "remove", "shift", "reopen", "open", "append"}
    /\ shift \in 0..Keep
    /\ record \in [id : 0..MaxRecords, bytes : Nat]
    /\ faults \in 0..MaxFaults /\ rotations \in Nat /\ muted \in Nat
    /\ promised \subseteq [id : 1..MaxRecords, at : Nat]

PlaceInv ==
    /\ pc # "idle" => handle # "nil" /\ record.id >= 1 /\ record.bytes >= 1
    /\ pc \in {"remove", "shift", "reopen", "open"} => handle = "closed"
    /\ pc = "shift" => shift < Keep
    /\ pc = "open" => 0 \notin DOMAIN files

SizeInv ==
    handle = "open" =>
       /\ size = Bytes(Current)
       /\ pc = "append" => size = 0 \/ size + record.bytes <= MaxBytes

KeptInv ==
    \A p \in promised : rotations - p.at <= Keep =>
       \E g \in DOMAIN files :
          /\ p.id \in Logged(g) /\ g <= rotations - p.at
          /\ pc = "remove" => g < rotations - p.at
          /\ pc = "shift" => g # shift + 1 /\ (g <= shift => g < rotations - p.at)

WriterInv == FilesInv /\ StateOK /\ PlaceInv /\ SizeInv /\ KeptInv

-----------------------------------------------------------------------------
(* Files and their contents. *)

LEMMA Numbers ==
    /\ \A l \in Lengths : l \in Nat /\ l >= 1
    /\ MaxBytes \in Nat \ {0} /\ Keep \in Nat \ {0} /\ MaxRecords \in Nat /\ MaxFaults \in Nat
BY WriterAssumption

LEMMA BytesAre ==
    \A c \in Seq(Record) :
       /\ Bytes(c) \in Nat
       /\ c = <<>> <=> Len(c) = 0
       /\ Len(c) # 0 => Len(c) \in 1..Len(c) /\ Bytes(c) = c[Len(c)].ends
<1> SUFFICES ASSUME NEW c \in Seq(Record)
             PROVE  /\ Bytes(c) \in Nat
                    /\ c = <<>> <=> Len(c) = 0
                    /\ Len(c) # 0 => Len(c) \in 1..Len(c) /\ Bytes(c) = c[Len(c)].ends
  OBVIOUS
<1>1. c = <<>> <=> Len(c) = 0
  OBVIOUS
<1>2. Len(c) # 0 => Len(c) \in 1..Len(c) /\ c[Len(c)] \in Record
  OBVIOUS
<1> QED
  BY <1>1, <1>2 DEF Bytes, Record

LEMMA SoundLater ==
    \A c : \A m, n \in Int : m <= n /\ Sound(c, m) => Sound(c, n)
<1> SUFFICES ASSUME NEW c, NEW m \in Int, NEW n \in Int, m <= n, Sound(c, m)
             PROVE  Sound(c, n)
  OBVIOUS
<1>1. \A i \in 1..Len(c) : c[i].id \in Int
  <2>1. c \in Seq(Record)
    BY DEF Sound
  <2>2. \A i \in 1..Len(c) : c[i] \in Record
    BY <2>1
  <2> QED
    BY <2>2, Numbers DEF Record
<1> QED
  BY <1>1 DEF Sound

LEMMA NothingIsSound == \A m : Sound(<<>>, m)
<1>1. <<>> \in Seq(Record) /\ Len(<<>>) = 0 /\ Bytes(<<>>) = 0
  BY DEF Bytes
<1> QED
  BY <1>1, Numbers DEF Sound

\* Contents that are moved, in their order, with at most empty ones in between.
LEMMA FilesMove ==
    ASSUME FilesInv, Latest \in Int, Latest' \in Int, Latest <= Latest',
           DOMAIN files' \subseteq 0..Keep,
           NEW from \in [DOMAIN files' -> DOMAIN files \cup {-1}],
           \A g \in DOMAIN files' :
              files'[g] = IF from[g] = -1 THEN <<>> ELSE files[from[g]],
           \A g, h \in DOMAIN files' : g < h /\ from[g] # -1 /\ from[h] # -1 => from[g] < from[h]
    PROVE  FilesInv'
<1>1. \A g \in DOMAIN files' : Sound(files'[g], Latest')
  <2> SUFFICES ASSUME NEW g \in DOMAIN files' PROVE Sound(files'[g], Latest')
    OBVIOUS
  <2>1. CASE from[g] = -1
    BY <2>1, NothingIsSound
  <2>2. CASE from[g] # -1
    BY <2>2, SoundLater DEF FilesInv
  <2> QED
    BY <2>1, <2>2
<1>2. ASSUME NEW g \in DOMAIN files', NEW h \in DOMAIN files', h > g
      PROVE  \A x \in Logged(g)', y \in Logged(h)' : y < x
  <2>1. CASE from[g] = -1
    <3>1. Logged(g)' = {}
      BY <2>1 DEF Logged
    <3> QED
      BY <3>1
  <2>2. CASE from[h] = -1
    <3>1. Logged(h)' = {}
      BY <2>2 DEF Logged
    <3> QED
      BY <3>1
  <2>3. CASE from[g] # -1 /\ from[h] # -1
    <3>1. from[g] \in DOMAIN files /\ from[h] \in DOMAIN files
      BY <2>3
    <3>2. Logged(g)' = Logged(from[g]) /\ Logged(h)' = Logged(from[h])
      BY <2>3 DEF Logged
    <3>3. from[h] > from[g]
      <4>1. g \in 0..Keep /\ h \in 0..Keep /\ from[g] \in 0..Keep /\ from[h] \in 0..Keep
        BY <3>1 DEF FilesInv
      <4>2. from[g] < from[h]
        BY <1>2, <2>3, <4>1, Numbers
      <4> QED
        BY <4>1, <4>2, Numbers
    <3> QED
      BY <3>1, <3>2, <3>3 DEF FilesInv
  <2> QED
    BY <2>1, <2>2, <2>3
<1>3. (\A g \in DOMAIN files : Sound(files[g], Latest))'
  BY <1>1
<1>4. (\A g, h \in DOMAIN files : h > g => \A x \in Logged(g), y \in Logged(h) : y < x)'
  BY <1>2
<1> QED
  BY <1>3, <1>4 DEF FilesInv

LEMMA FilesStay ==
    FilesInv /\ Latest \in Int /\ Latest' \in Int /\ Latest <= Latest' /\ UNCHANGED files => FilesInv'
BY SoundLater DEF FilesInv, Logged

\* A file is opened, and there from then on.
LEMMA FilesOpened ==
    ASSUME FilesInv, Latest \in Int, Latest' \in Int, Latest <= Latest', files' = Stored(0, Current)
    PROVE  FilesInv'
<1> DEFINE from == [g \in DOMAIN files' |-> IF g \in DOMAIN files THEN g ELSE -1]
<1>1. DOMAIN files' = DOMAIN files \cup {0} /\ DOMAIN files \subseteq 0..Keep
  BY DEF Stored, FilesInv
<1>2. \A g \in DOMAIN files' : files'[g] = IF g \in DOMAIN files THEN files[g] ELSE <<>>
  BY <1>1 DEF Stored, Current
<1>3. from \in [DOMAIN files' -> DOMAIN files \cup {-1}]
  OBVIOUS
<1>4. -1 \notin DOMAIN files /\ 0..Keep \subseteq Int /\ 0 \in 0..Keep
  BY <1>1, Numbers
<1>5. \A g \in DOMAIN files' : files'[g] = IF from[g] = -1 THEN <<>> ELSE files[from[g]]
  BY <1>2, <1>4
<1>6. \A g, h \in DOMAIN files' : g < h /\ from[g] # -1 /\ from[h] # -1 => from[g] < from[h]
  BY <1>4
<1>7. DOMAIN files' \subseteq 0..Keep
  BY <1>1, <1>4
<1> HIDE DEF from
<1> QED
  BY <1>3, <1>5, <1>6, <1>7, FilesMove

\* A generation is moved one down, over what was there.
LEMMA FilesRenamed ==
    ASSUME FilesInv, Latest \in Int, Latest' \in Int, Latest <= Latest',
           NEW s \in DOMAIN files, s < Keep, files' = Renamed(s, s + 1)
    PROVE  FilesInv'
<1> DEFINE from == [g \in DOMAIN files' |-> IF g = s + 1 THEN s ELSE g]
<1>1. s \in 0..Keep /\ DOMAIN files \subseteq 0..Keep /\ 0..Keep \subseteq Int /\ s + 1 \in 0..Keep
  BY Numbers DEF FilesInv
<1>2. DOMAIN files' = (DOMAIN files \ {s}) \cup {s + 1}
  BY DEF Renamed
<1>3. \A g \in DOMAIN files' : files'[g] = IF g = s + 1 THEN files[s] ELSE files[g]
  BY <1>2 DEF Renamed
<1>4. from \in [DOMAIN files' -> DOMAIN files \cup {-1}]
  BY <1>2
<1>5. \A g \in DOMAIN files' : files'[g] = IF from[g] = -1 THEN <<>> ELSE files[from[g]]
  BY <1>1, <1>2, <1>3, Numbers
<1>6. \A g, h \in DOMAIN files' : g < h /\ from[g] # -1 /\ from[h] # -1 => from[g] < from[h]
  BY <1>1, <1>2
<1>7. DOMAIN files' \subseteq 0..Keep
  BY <1>1, <1>2
<1> HIDE DEF from
<1> QED
  BY <1>4, <1>5, <1>6, <1>7, FilesMove

\* The oldest generation is removed.
LEMMA FilesRemoved ==
    ASSUME FilesInv, Latest \in Int, Latest' \in Int, Latest <= Latest',
           files' = [g \in DOMAIN files \ {Keep} |-> files[g]]
    PROVE  FilesInv'
<1> DEFINE from == [g \in DOMAIN files' |-> g]
<1>1. DOMAIN files' = DOMAIN files \ {Keep} /\ DOMAIN files \subseteq 0..Keep /\ -1 \notin 0..Keep
  BY Numbers DEF FilesInv
<1>2. from \in [DOMAIN files' -> DOMAIN files \cup {-1}]
  BY <1>1
<1>3. \A g \in DOMAIN files' : files'[g] = IF from[g] = -1 THEN <<>> ELSE files[from[g]]
  BY <1>1
<1>4. \A g, h \in DOMAIN files' : g < h /\ from[g] # -1 /\ from[h] # -1 => from[g] < from[h]
  OBVIOUS
<1>5. DOMAIN files' \subseteq 0..Keep
  BY <1>1
<1> HIDE DEF from
<1> QED
  BY <1>2, <1>3, <1>4, <1>5, FilesMove

\* What a record is appended to.
LEMMA CurrentIs ==
    FilesInv => /\ Current \in Seq(Record) /\ Sound(Current, Latest)
                /\ 0 \in DOMAIN files => Current = files[0]
                /\ 0 \notin DOMAIN files => Bytes(Current) = 0 /\ Current = <<>>
BY NothingIsSound DEF FilesInv, Current, Sound, Bytes

\* A record that fits in or comes first, or what the system took of it.
LEMMA Appending ==
    ASSUME FilesInv, StateOK, PlaceInv, SizeInv, pc = "append", handle = "open",
           NEW n \in 1..record.bytes, files' = Appended(n), record' = record, pc' = "idle"
    PROVE  /\ FilesInv' /\ Bytes(Current)' = Bytes(Current) + n
           /\ 0 \in DOMAIN files' /\ record.id \in Logged(0)'
           /\ \A g \in DOMAIN files : g \in DOMAIN files' /\ Logged(g) \subseteq Logged(g)'
<1> DEFINE b == Bytes(Current)
           r == [id |-> record.id, ends |-> b + n]
           l == Len(Current)
           d == Append(Current, r)
<1>1. /\ Latest = record.id - 1 /\ Latest' = record.id /\ record.id \in 1..MaxRecords
      /\ record.bytes \in Nat /\ record.id \in Int /\ Latest \in Int
  BY Numbers DEF Latest, StateOK, PlaceInv
<1>2. Current \in Seq(Record) /\ Sound(Current, record.id - 1)
  BY <1>1, CurrentIs
<1>3. /\ b \in Nat /\ l \in Nat /\ n \in Nat /\ n >= 1
      /\ l = 0 => b = 0
      /\ l # 0 => b >= 1 /\ size = b /\ b + record.bytes <= MaxBytes
  <2>1. b \in Nat /\ l \in Nat /\ n \in Nat /\ n >= 1 /\ size = b
    BY <1>1, <1>2, BytesAre DEF SizeInv
  <2>2. l = 0 => b = 0
    BY <1>2, BytesAre DEF Bytes
  <2>3. l # 0 => b >= 1
    BY <1>2, BytesAre DEF Sound
  <2>4. l # 0 => b + record.bytes <= MaxBytes
    BY <1>1, <2>1, <2>3, Numbers DEF SizeInv
  <2> QED
    BY <2>1, <2>2, <2>3, <2>4
<1>4. r \in Record /\ r.id = record.id /\ r.ends = b + n
  BY <1>1, <1>3 DEF Record
<1> HIDE DEF b, r
<1>5. /\ d \in Seq(Record) /\ Len(d) = l + 1 /\ d[l + 1] = r
      /\ \A i \in 1..l : d[i] = Current[i]
  BY <1>2, <1>4
<1> HIDE DEF d
<1>6. Bytes(d) = b + n
  BY <1>3, <1>4, <1>5, BytesAre
<1>7. Sound(d, record.id)
  <2> DEFINE m == Len(d)
  <2>1. m = l + 1 /\ l \in Nat
    BY <1>3, <1>5
  <2>2. \A i \in 1..l : /\ d[i].ends >= 1 /\ d[i].id <= record.id - 1
                        /\ d[i].id \in Int
    <3>1. \A i \in 1..l : Current[i] \in Record
      BY <1>2
    <3>2. \A i \in 1..l : Current[i].id \in Int
      BY <3>1, Numbers DEF Record
    <3> QED
      BY <1>2, <1>5, <3>2 DEF Sound
  <2>3. \A i, j \in 1..l : i < j => d[i].id < d[j].id
    BY <1>2, <1>5 DEF Sound
  <2>4. d[l + 1].id = record.id /\ d[l + 1].ends >= 1
    BY <1>3, <1>4, <1>5
  <2>5. b + n <= MaxBytes \/ m = 1
    <3>1. record.bytes \in Nat /\ n <= record.bytes
      BY <1>1
    <3> HIDE DEF l
    <3> QED
      BY <1>3, <2>1, <3>1, Numbers
  <2> HIDE DEF m, l
  <2>6. \A i \in 1..m : i \in 1..l \/ i = l + 1
    BY <2>1
  <2>7. \A i \in 1..m : d[i].ends >= 1 /\ d[i].id <= record.id
    BY <1>1, <2>2, <2>4, <2>6
  <2>8. \A i, j \in 1..m : i < j => d[i].id < d[j].id
    <3> SUFFICES ASSUME NEW i \in 1..m, NEW j \in 1..m, i < j PROVE d[i].id < d[j].id
      OBVIOUS
    <3>1. i \in 1..l
      BY <2>1, <2>6
    <3> QED
      BY <1>1, <2>2, <2>3, <2>4, <2>6, <3>1
  <2> QED
    BY <1>5, <1>6, <2>5, <2>7, <2>8 DEF Sound, m
<1>8. /\ DOMAIN files' = DOMAIN files \cup {0} /\ files'[0] = d
      /\ \A g \in DOMAIN files : g # 0 => files'[g] = files[g]
  BY DEF Appended, Stored, b, r, d
<1>9. DOMAIN files \subseteq 0..Keep /\ 0 \in 0..Keep /\ 0..Keep \subseteq Int
  BY Numbers DEF FilesInv
<1>10. \A g \in DOMAIN files : g # 0 => Logged(g)' = Logged(g)
  BY <1>8 DEF Logged
<1>11. Logged(0)' = {d[i].id : i \in 1..(l + 1)}
  BY <1>5, <1>8 DEF Logged
<1>12. record.id \in Logged(0)'
  <2>1. l + 1 \in 1..(l + 1)
    BY <1>3
  <2> QED
    BY <1>4, <1>5, <1>11, <2>1
<1>13. ASSUME 0 \in DOMAIN files PROVE Logged(0)' = Logged(0) \cup {record.id}
  <2>1. Logged(0) = {Current[i].id : i \in 1..l}
    BY <1>2, <1>13, CurrentIs DEF Logged
  <2>2. \A i : i \in 1..(l + 1) <=> i \in 1..l \/ i = l + 1
    BY <1>3
  <2> QED
    BY <1>4, <1>5, <1>11, <2>1, <2>2
<1>14. ASSUME 0 \notin DOMAIN files PROVE Logged(0)' = {record.id}
  <2>1. l = 0
    BY <1>14, CurrentIs
  <2>2. \A i : i \in 1..(l + 1) <=> i = l + 1
    BY <2>1
  <2> QED
    BY <1>4, <1>5, <1>11, <2>2
<1>15. \A g \in DOMAIN files' : Sound(files'[g], Latest')
  <2>1. \A g \in DOMAIN files : Sound(files[g], record.id)
    BY <1>1, SoundLater DEF FilesInv
  <2> QED
    BY <1>1, <1>7, <1>8, <2>1
<1>16. ASSUME NEW g \in DOMAIN files', NEW h \in DOMAIN files', h > g
       PROVE  \A x \in Logged(g)', y \in Logged(h)' : y < x
  <2>1. g \in 0..Keep /\ h \in 0..Keep
    BY <1>8, <1>9
  <2>2. h # 0 /\ h \in DOMAIN files /\ Logged(h)' = Logged(h)
    BY <1>8, <1>10, <1>16, <2>1
  <2>3. \A y \in Logged(h) : y < record.id
    <3>1. Sound(files[h], record.id - 1) /\ files[h] \in Seq(Record)
      BY <1>1, <2>2 DEF FilesInv, Sound
    <3>2. \A i \in DOMAIN files[h] : i \in 1..Len(files[h]) /\ files[h][i] \in Record
      BY <3>1
    <3>3. \A i \in DOMAIN files[h] : files[h][i].id \in Int /\ files[h][i].id <= record.id - 1
      BY <3>1, <3>2, Numbers DEF Sound, Record
    <3> QED
      BY <1>1, <3>3 DEF Logged
  <2>4. CASE g # 0
    BY <1>8, <1>10, <1>16, <2>2, <2>4 DEF FilesInv
  <2>5. CASE g = 0 /\ 0 \in DOMAIN files
    BY <1>13, <1>16, <2>2, <2>3, <2>5 DEF FilesInv
  <2>6. CASE g = 0 /\ 0 \notin DOMAIN files
    BY <1>14, <2>2, <2>3, <2>6
  <2> QED
    BY <2>4, <2>5, <2>6
<1>17. FilesInv'
  <2>1. (\A g \in DOMAIN files : Sound(files[g], Latest))'
    BY <1>15
  <2>2. (\A g, h \in DOMAIN files : h > g => \A x \in Logged(g), y \in Logged(h) : y < x)'
    BY <1>16
  <2>3. DOMAIN files' \subseteq 0..Keep
    BY <1>8, <1>9
  <2> QED
    BY <2>1, <2>2, <2>3 DEF FilesInv
<1>18. Current' = d
  BY <1>8 DEF Current
<1>19. Bytes(Current)' = Bytes(Current) + n
  <2>1. Bytes(Current)' = Bytes(d)
    BY <1>18 DEF Bytes
  <2> QED
    BY <1>6, <2>1 DEF b
<1>20. \A g \in DOMAIN files : g \in DOMAIN files' /\ Logged(g) \subseteq Logged(g)'
  BY <1>8, <1>10, <1>13
<1> QED
  BY <1>8, <1>12, <1>17, <1>19, <1>20

\* Nothing promised is lost by a step that leaves what is in the files.
LEMMA KeptStays ==
    ASSUME KeptInv, promised' \subseteq promised, rotations' = rotations,
           pc' \notin {"remove", "shift"},
           \A g \in DOMAIN files : g \in DOMAIN files' /\ Logged(g) \subseteq Logged(g)'
    PROVE  KeptInv'
<1> SUFFICES ASSUME NEW p \in promised', rotations' - p.at <= Keep
             PROVE  \E g \in DOMAIN files' : p.id \in Logged(g)' /\ g <= rotations' - p.at
  BY DEF KeptInv
<1>1. PICK g \in DOMAIN files : p.id \in Logged(g) /\ g <= rotations - p.at
  BY DEF KeptInv
<1> QED
  BY <1>1

LEMMA LatestIs == StateOK => Latest \in Int /\ record.id \in Int /\ rotations \in Int
BY Numbers DEF StateOK, Latest

LEMMA FaultsStay == StateOK /\ (Fault \/ UNCHANGED faults) => faults' \in 0..MaxFaults
BY Numbers DEF Fault, StateOK

\* open, called with the file closed or none held, whether it works or not.
LEMMA Opening ==
    ASSUME FilesInv, StateOK, KeptInv, Latest' \in Int, Latest <= Latest',
           Opened \/ OpenFails, handle # "open", promised' = promised, rotations' = rotations,
           pc' \notin {"remove", "shift"}
    PROVE  /\ FilesInv' /\ KeptInv'
           /\ handle' = "open" => size' = Bytes(Current)' /\ size' = Bytes(Current)
           /\ handle' \in {"nil", "open", "closed"} /\ size' \in Nat
           /\ Opened => handle' = "open"
           /\ OpenFails => handle' = handle
<1>1. Latest \in Int /\ Bytes(Current) \in Nat
  BY LatestIs, CurrentIs, BytesAre
<1>2. files' = files \/ files' = Stored(0, Current)
  BY DEF Opened, OpenFails
<1>3. FilesInv'
  <2>1. CASE files' = files
    BY <1>1, <2>1, FilesStay
  <2>2. CASE files' = Stored(0, Current)
    BY <1>1, <2>2, FilesOpened
  <2> QED
    BY <1>2, <2>1, <2>2
<1>4. Current' = Current /\ \A g \in DOMAIN files : g \in DOMAIN files' /\ Logged(g)' = Logged(g)
  BY <1>2 DEF Current, Stored, Logged
<1>5. KeptInv'
  <2>1. \A g \in DOMAIN files : g \in DOMAIN files' /\ Logged(g) \subseteq Logged(g)'
    BY <1>4
  <2> QED
    BY <2>1, KeptStays
<1>6. Bytes(Current)' = Bytes(Current)
  BY <1>4 DEF Bytes
<1> QED
  BY <1>1, <1>3, <1>5, <1>6 DEF Opened, OpenFails, StateOK

-----------------------------------------------------------------------------
(* The invariant, step by step. *)

LEMMA WriterStarts == Init => WriterInv
<1> SUFFICES ASSUME Init PROVE WriterInv
  OBVIOUS
<1>1. DOMAIN files = {} /\ promised = {}
  BY DEF Init
<1>2. FilesInv /\ KeptInv
  BY <1>1 DEF FilesInv, KeptInv
<1>3. StateOK
  BY Numbers DEF Init, StateOK
<1> QED
  BY <1>2, <1>3 DEF Init, PlaceInv, SizeInv, WriterInv

LEMMA NewKeeps == WriterInv /\ New => WriterInv'
<1> SUFFICES ASSUME WriterInv, New PROVE WriterInv'
  OBVIOUS
<1>1. FilesInv /\ StateOK /\ PlaceInv /\ SizeInv /\ KeptInv
  BY DEF WriterInv
<1>2. /\ handle = "nil" /\ pc = "idle" /\ pc' = "idle" /\ (Opened \/ OpenFails)
      /\ UNCHANGED <<shift, record, rotations, promised, muted>>
  BY DEF New
<1>3. Latest' \in Int /\ Latest <= Latest'
  BY <1>1, <1>2, LatestIs DEF Latest
<1>4. /\ FilesInv' /\ KeptInv'
      /\ handle' = "open" => size' = Bytes(Current)'
      /\ handle' \in {"nil", "open", "closed"} /\ size' \in Nat
  BY <1>1, <1>2, <1>3, Opening
<1>5. faults' \in 0..MaxFaults
  BY <1>1, FaultsStay DEF New, OpenFails
<1> QED
  BY <1>1, <1>2, <1>4, <1>5 DEF WriterInv, StateOK, PlaceInv, SizeInv

LEMMA WriteKeeps == \A bytes \in Lengths : WriterInv /\ Write(bytes) => WriterInv'
<1> SUFFICES ASSUME NEW bytes \in Lengths, WriterInv, Write(bytes) PROVE WriterInv'
  OBVIOUS
<1>1. FilesInv /\ StateOK /\ PlaceInv /\ SizeInv /\ KeptInv
  BY DEF WriterInv
<1>2. /\ handle # "nil" /\ pc = "idle" /\ record.id < MaxRecords
      /\ record' = [id |-> record.id + 1, bytes |-> bytes] /\ pc' \in {"close", "append"}
      /\ pc' = "append" => ~(size > 0 /\ size + bytes > MaxBytes)
      /\ UNCHANGED <<files, handle, size, shift, faults, rotations, promised, muted>>
  BY DEF Write, history
<1>3. bytes \in Nat /\ bytes >= 1 /\ record.id \in 0..MaxRecords /\ size \in Nat
  BY <1>1, Numbers DEF StateOK
<1>4. /\ record' \in [id : 0..MaxRecords, bytes : Nat] /\ record'.id = record.id + 1
      /\ record'.bytes = bytes
  BY <1>2, <1>3, Numbers
<1>5. Latest \in Int /\ Latest' \in Int /\ Latest <= Latest'
  BY <1>1, <1>2, <1>4, LatestIs DEF Latest
<1>6. FilesInv'
  BY <1>1, <1>2, <1>5, FilesStay
<1>7. StateOK'
  BY <1>1, <1>2, <1>4 DEF StateOK
<1>8. PlaceInv'
  BY <1>2, <1>3, <1>4 DEF PlaceInv
<1>9. SizeInv'
  <2>1. pc' = "append" => size = 0 \/ size + bytes <= MaxBytes
    BY <1>2, <1>3, Numbers
  <2>2. handle = "open" => size = Bytes(Current)
    BY <1>1 DEF SizeInv
  <2> QED
    BY <1>2, <1>4, <2>1, <2>2 DEF SizeInv, Current, Bytes
<1>10. KeptInv'
  <2>1. \A g \in DOMAIN files : g \in DOMAIN files' /\ Logged(g) \subseteq Logged(g)'
    BY <1>2 DEF Logged
  <2> QED
    BY <1>1, <1>2, <2>1, KeptStays
<1> QED
  BY <1>6, <1>7, <1>8, <1>9, <1>10 DEF WriterInv

LEMMA CloseKeeps == WriterInv /\ CloseCurrent => WriterInv'
<1> SUFFICES ASSUME WriterInv, CloseCurrent PROVE WriterInv'
  OBVIOUS
<1>1. FilesInv /\ StateOK /\ PlaceInv /\ SizeInv /\ KeptInv
  BY DEF WriterInv
<1>2. /\ pc = "close" /\ handle' = "closed" /\ UNCHANGED <<files, size, shift, record, promised>>
      /\ \/ pc' = "remove" /\ rotations' = rotations + 1 /\ UNCHANGED <<faults, muted>>
         \/ pc' = "idle" /\ muted' = 0 /\ rotations' = rotations /\ faults' \in 0..MaxFaults
  <2>1. \/ pc' = "remove" /\ rotations' = rotations + 1 /\ UNCHANGED <<faults, muted>>
        \/ pc' = "idle" /\ muted' = 0 /\ rotations' = rotations /\ (Fault \/ UNCHANGED faults)
    BY DEF CloseCurrent
  <2> QED
    BY <1>1, <2>1, FaultsStay DEF CloseCurrent
<1>3. Latest \in Int /\ Latest' \in Int /\ Latest <= Latest'
  BY <1>1, <1>2, LatestIs DEF Latest
<1>4. FilesInv'
  BY <1>1, <1>2, <1>3, FilesStay
<1>5. StateOK'
  BY <1>1, <1>2 DEF StateOK
<1>6. PlaceInv' /\ SizeInv'
  BY <1>1, <1>2 DEF PlaceInv, SizeInv
<1>7. KeptInv'
  <2>1. CASE pc' = "idle"
    <3>1. \A g \in DOMAIN files : g \in DOMAIN files' /\ Logged(g) \subseteq Logged(g)'
      BY <1>2 DEF Logged
    <3> QED
      BY <1>1, <1>2, <2>1, <3>1, KeptStays
  <2>2. CASE pc' = "remove"
    <3> SUFFICES ASSUME NEW p \in promised, rotations' - p.at <= Keep
                 PROVE  \E g \in DOMAIN files : p.id \in Logged(g)' /\ g < rotations' - p.at
                                                /\ g <= rotations' - p.at
      BY <1>2, <2>2 DEF KeptInv
    <3>1. rotations \in Nat /\ p.at \in Nat /\ rotations' = rotations + 1
      BY <1>1, <1>2, <2>2 DEF StateOK
    <3>2. rotations - p.at <= Keep
      BY <3>1, Numbers
    <3>3. PICK g \in DOMAIN files : p.id \in Logged(g) /\ g <= rotations - p.at
      BY <1>1, <3>2 DEF KeptInv
    <3>4. g \in 0..Keep
      BY <1>1 DEF FilesInv
    <3>5. Logged(g)' = Logged(g)
      BY <1>2 DEF Logged
    <3> QED
      BY <3>1, <3>3, <3>4, <3>5, Numbers
  <2> QED
    BY <1>2, <2>1, <2>2
<1> QED
  BY <1>4, <1>5, <1>6, <1>7 DEF WriterInv

\* What a shift leaves in place: what was promised in a generation that could not
\* be moved is promised no more.
LEMMA Shifting ==
    \A s \in 0..Keep :
       s < Keep /\ files' = Renamed(s, s + 1) /\ s \in DOMAIN files =>
          /\ s + 1 \in DOMAIN files' /\ Logged(s + 1)' = Logged(s)
          /\ \A g \in DOMAIN files : g # s /\ g # s + 1 => g \in DOMAIN files' /\ Logged(g)' = Logged(g)
<1> SUFFICES ASSUME NEW s \in 0..Keep, s < Keep, files' = Renamed(s, s + 1), s \in DOMAIN files
             PROVE  /\ s + 1 \in DOMAIN files' /\ Logged(s + 1)' = Logged(s)
                    /\ \A g \in DOMAIN files : g # s /\ g # s + 1
                          => g \in DOMAIN files' /\ Logged(g)' = Logged(g)
  OBVIOUS
<1>1. /\ DOMAIN files' = (DOMAIN files \ {s}) \cup {s + 1} /\ files'[s + 1] = files[s]
      /\ \A g \in DOMAIN files : g # s /\ g # s + 1 => files'[g] = files[g]
  BY DEF Renamed
<1> QED
  BY <1>1 DEF Logged

LEMMA RemoveKeeps == WriterInv /\ RemoveOldest => WriterInv'
<1> SUFFICES ASSUME WriterInv, RemoveOldest PROVE WriterInv'
  OBVIOUS
<1>1. FilesInv /\ StateOK /\ PlaceInv /\ SizeInv /\ KeptInv
  BY DEF WriterInv
<1>2. /\ pc = "remove" /\ pc' = "shift" /\ shift' = Keep - 1 /\ handle = "closed"
      /\ files' = files \/ files' = [g \in DOMAIN files \ {Keep} |-> files[g]]
      /\ UNCHANGED <<handle, size, record, rotations, promised, muted>>
      /\ faults' \in 0..MaxFaults
  BY <1>1, FaultsStay DEF RemoveOldest, history, PlaceInv
<1>3. Latest \in Int /\ Latest' \in Int /\ Latest <= Latest'
  BY <1>1, <1>2, LatestIs DEF Latest
<1>4. FilesInv'
  <2>1. CASE files' = files
    BY <1>1, <1>3, <2>1, FilesStay
  <2>2. CASE files' = [g \in DOMAIN files \ {Keep} |-> files[g]]
    BY <1>1, <1>3, <2>2, FilesRemoved
  <2> QED
    BY <1>2, <2>1, <2>2
<1>5. StateOK'
  <2>1. Keep - 1 \in 0..Keep
    BY Numbers
  <2> QED
    BY <1>1, <1>2, <2>1 DEF StateOK
<1>6. PlaceInv' /\ SizeInv'
  BY <1>1, <1>2, Numbers DEF PlaceInv, SizeInv
<1>7. KeptInv'
  <2> SUFFICES ASSUME NEW p \in promised, rotations - p.at <= Keep
               PROVE  \E g \in DOMAIN files' :
                         /\ p.id \in Logged(g)' /\ g <= rotations - p.at
                         /\ g # Keep - 1 + 1 /\ (g <= Keep - 1 => g < rotations - p.at)
    BY <1>2 DEF KeptInv
  <2>1. PICK g \in DOMAIN files : p.id \in Logged(g) /\ g < rotations - p.at
    BY <1>1, <1>2 DEF KeptInv
  <2>2. rotations \in Nat /\ p.at \in Nat /\ g \in 0..Keep
    BY <1>1 DEF StateOK, FilesInv
  <2>3. g # Keep /\ g <= rotations - p.at /\ g # Keep - 1 + 1
    BY <2>1, <2>2, Numbers
  <2>4. g \in DOMAIN files' /\ files'[g] = files[g]
    BY <1>2, <2>3
  <2>5. p.id \in Logged(g)'
    BY <2>1, <2>4 DEF Logged
  <2> QED
    BY <2>1, <2>3, <2>4, <2>5
<1> QED
  BY <1>4, <1>5, <1>6, <1>7 DEF WriterInv

LEMMA ShiftKeeps == WriterInv /\ ShiftDown => WriterInv'
<1> SUFFICES ASSUME WriterInv, ShiftDown PROVE WriterInv'
  OBVIOUS
<1>1. FilesInv /\ StateOK /\ PlaceInv /\ SizeInv /\ KeptInv
  BY DEF WriterInv
<1>2. /\ pc = "shift" /\ shift >= 1 /\ shift' = shift - 1 /\ handle = "closed"
      /\ UNCHANGED <<handle, size, pc, record, rotations, muted>>
      /\ faults' \in 0..MaxFaults
  BY <1>1, FaultsStay DEF ShiftDown, PlaceInv
<1>3. shift \in 0..Keep /\ shift < Keep /\ shift' \in 0..Keep /\ shift' < Keep
  BY <1>1, <1>2, Numbers DEF StateOK, PlaceInv
<1>4. Latest \in Int /\ Latest' \in Int /\ Latest <= Latest'
  BY <1>1, <1>2, LatestIs DEF Latest
<1>5. \/ shift \in DOMAIN files /\ files' = Renamed(shift, shift + 1) /\ promised' = promised
      \/ shift \notin DOMAIN files /\ files' = files /\ promised' = promised
      \/ files' = files /\ promised' = {p \in promised : p.id \notin Logged(shift)}
  BY DEF ShiftDown
<1>6. promised' \subseteq promised
  BY <1>5
<1>7. FilesInv'
  <2>1. CASE files' = files
    BY <1>1, <1>4, <2>1, FilesStay
  <2>2. CASE shift \in DOMAIN files /\ files' = Renamed(shift, shift + 1)
    BY <1>1, <1>3, <1>4, <2>2, FilesRenamed
  <2> QED
    BY <1>5, <2>1, <2>2
<1>8. StateOK'
  BY <1>1, <1>2, <1>3, <1>6 DEF StateOK
<1>9. PlaceInv' /\ SizeInv'
  BY <1>1, <1>2, <1>3 DEF PlaceInv, SizeInv
<1>10. KeptInv'
  <2> SUFFICES ASSUME NEW p \in promised', rotations - p.at <= Keep
               PROVE  \E g \in DOMAIN files' :
                         /\ p.id \in Logged(g)' /\ g <= rotations - p.at
                         /\ g # shift /\ (g <= shift - 1 => g < rotations - p.at)
    <3>1. shift - 1 + 1 = shift
      BY <1>3
    <3> QED
      BY <1>2, <3>1 DEF KeptInv
  <2>1. PICK g \in DOMAIN files :
             /\ p.id \in Logged(g) /\ g <= rotations - p.at
             /\ g # shift + 1 /\ (g <= shift => g < rotations - p.at)
    BY <1>1, <1>2, <1>6 DEF KeptInv
  <2>2. rotations \in Nat /\ p.at \in Nat /\ g \in 0..Keep /\ shift \in Nat
    BY <1>1, <1>3, <1>6 DEF StateOK, FilesInv
  <2>3. CASE g # shift
    <3>1. g \in DOMAIN files' /\ Logged(g)' = Logged(g)
      <4>1. CASE files' = files
        BY <4>1 DEF Logged
      <4>2. CASE shift \in DOMAIN files /\ files' = Renamed(shift, shift + 1)
        BY <1>3, <2>1, <2>3, <4>2, Shifting
      <4> QED
        BY <1>5, <4>1, <4>2
    <3>2. g <= shift - 1 => g < rotations - p.at
      BY <2>1, <2>2
    <3> QED
      BY <2>1, <2>3, <3>1, <3>2
  <2>4. CASE g = shift
    <3>1. g < Keep /\ files' = Renamed(g, g + 1)
      BY <1>3, <1>5, <2>1, <2>4
    <3>2. g + 1 \in DOMAIN files' /\ Logged(g + 1)' = Logged(g)
      BY <2>2, <3>1, Shifting
    <3>3. g + 1 <= rotations - p.at /\ g + 1 # shift /\ ~(g + 1 <= shift - 1)
      BY <2>1, <2>2, <2>4
    <3> QED
      BY <2>1, <3>2, <3>3
  <2> QED
    BY <2>3, <2>4
<1> QED
  BY <1>7, <1>8, <1>9, <1>10 DEF WriterInv

LEMMA RenameKeeps == WriterInv /\ RenameCurrent => WriterInv'
<1> SUFFICES ASSUME WriterInv, RenameCurrent PROVE WriterInv'
  OBVIOUS
<1>1. FilesInv /\ StateOK /\ PlaceInv /\ SizeInv /\ KeptInv
  BY DEF WriterInv
<1>2. /\ pc = "shift" /\ shift = 0 /\ handle = "closed" /\ pc' \in {"open", "reopen"}
      /\ UNCHANGED <<handle, size, shift, record, rotations, promised, muted>>
      /\ faults' \in 0..MaxFaults
  BY <1>1, FaultsStay DEF RenameCurrent, PlaceInv, history
<1>3. \/ 0 \in DOMAIN files /\ files' = Renamed(0, 0 + 1) /\ pc' = "open"
      \/ files' = files /\ pc' = "reopen"
  BY DEF RenameCurrent
<1>4. Latest \in Int /\ Latest' \in Int /\ Latest <= Latest'
  BY <1>1, <1>2, LatestIs DEF Latest
<1>5. 0 \in 0..Keep /\ 0 < Keep
  BY Numbers
<1>6. FilesInv'
  <2>1. CASE files' = files
    BY <1>1, <1>4, <2>1, FilesStay
  <2>2. CASE 0 \in DOMAIN files /\ files' = Renamed(0, 0 + 1)
    BY <1>1, <1>4, <1>5, <2>2, FilesRenamed
  <2> QED
    BY <1>3, <2>1, <2>2
<1>7. StateOK'
  BY <1>1, <1>2 DEF StateOK
<1>8. PlaceInv' /\ SizeInv'
  <2>1. pc' = "open" => 0 \notin DOMAIN files'
    BY <1>3 DEF Renamed
  <2> QED
    BY <1>1, <1>2, <2>1 DEF PlaceInv, SizeInv
<1>9. KeptInv'
  <2> SUFFICES ASSUME NEW p \in promised, rotations - p.at <= Keep
               PROVE  \E g \in DOMAIN files' : p.id \in Logged(g)' /\ g <= rotations - p.at
    BY <1>2 DEF KeptInv
  <2>1. PICK g \in DOMAIN files :
             /\ p.id \in Logged(g) /\ g <= rotations - p.at
             /\ g # 0 + 1 /\ (g <= 0 => g < rotations - p.at)
    BY <1>1, <1>2 DEF KeptInv
  <2>2. rotations \in Nat /\ p.at \in Nat /\ g \in 0..Keep
    BY <1>1 DEF StateOK, FilesInv
  <2>3. CASE files' = files
    BY <2>1, <2>3 DEF Logged
  <2>4. CASE 0 \in DOMAIN files /\ files' = Renamed(0, 0 + 1) /\ g # 0
    <3>1. g \in DOMAIN files' /\ Logged(g)' = Logged(g)
      BY <1>5, <2>1, <2>4, Shifting
    <3> QED
      BY <2>1, <3>1
  <2>5. CASE 0 \in DOMAIN files /\ files' = Renamed(0, 0 + 1) /\ g = 0
    <3>1. g + 1 \in DOMAIN files' /\ Logged(g + 1)' = Logged(g)
      BY <1>5, <2>2, <2>5, Shifting
    <3>2. g + 1 <= rotations - p.at
      BY <2>1, <2>2, <2>5
    <3> QED
      BY <2>1, <3>1, <3>2
  <2> QED
    BY <1>3, <2>3, <2>4, <2>5
<1> QED
  BY <1>6, <1>7, <1>8, <1>9 DEF WriterInv

LEMMA ReopenKeeps == WriterInv /\ (Reopen \/ OpenNew) => WriterInv'
<1> SUFFICES ASSUME WriterInv, Reopen \/ OpenNew PROVE WriterInv'
  OBVIOUS
<1>1. FilesInv /\ StateOK /\ PlaceInv /\ SizeInv /\ KeptInv
  BY DEF WriterInv
<1>2. /\ pc \in {"reopen", "open"} /\ pc' \in {"idle", "append"} /\ handle = "closed"
      /\ Opened \/ OpenFails
      /\ UNCHANGED <<shift, record, rotations, promised>> /\ muted' \in Nat
      /\ faults' \in 0..MaxFaults
  <2>1. /\ pc \in {"reopen", "open"} /\ pc' \in {"idle", "append"}
        /\ Opened \/ OpenFails
        /\ UNCHANGED <<shift, record, rotations, promised>>
        /\ Fault \/ UNCHANGED faults
        /\ muted' \in {0, muted, muted + 1}
    BY DEF Reopen, OpenNew, OpenFails
  <2>2. muted' \in Nat
    BY <1>1, <2>1 DEF StateOK
  <2> QED
    BY <1>1, <2>1, <2>2, FaultsStay DEF PlaceInv
<1>3. pc' = "append" => pc = "open" /\ handle' = "open"
  BY DEF Reopen, OpenNew, Opened
<1>4. Latest' \in Int /\ Latest <= Latest'
  BY <1>1, <1>2, LatestIs DEF Latest
<1>5. /\ FilesInv' /\ KeptInv'
      /\ handle' = "open" => size' = Bytes(Current)' /\ size' = Bytes(Current)
      /\ handle' \in {"nil", "open", "closed"} /\ size' \in Nat /\ handle' # "nil"
  <2>1. handle # "open" /\ pc' \notin {"remove", "shift"}
    BY <1>2
  <2> QED
    BY <1>1, <1>2, <1>4, <2>1, Opening
<1>6. StateOK'
  BY <1>1, <1>2, <1>5 DEF StateOK
<1>7. PlaceInv'
  BY <1>1, <1>2, <1>5 DEF PlaceInv
<1>8. SizeInv'
  <2>1. pc' = "append" /\ handle' = "open" => size' = 0
    BY <1>1, <1>3, <1>5, CurrentIs DEF PlaceInv
  <2> QED
    BY <1>5, <2>1 DEF SizeInv
<1> QED
  BY <1>5, <1>6, <1>7, <1>8 DEF WriterInv

LEMMA AppendKeeps == WriterInv /\ AppendRecord => WriterInv'
<1> SUFFICES ASSUME WriterInv, AppendRecord PROVE WriterInv'
  OBVIOUS
<1>1. FilesInv /\ StateOK /\ PlaceInv /\ SizeInv /\ KeptInv
  BY DEF WriterInv
<1>2. /\ pc = "append" /\ pc' = "idle" /\ muted' = 0
      /\ UNCHANGED <<handle, shift, record, rotations>> /\ faults' \in 0..MaxFaults
  BY <1>1, FaultsStay DEF AppendRecord
<1>3. /\ record.id \in 1..MaxRecords /\ record.bytes \in Nat /\ record.bytes >= 1
  BY <1>1, <1>2, Numbers DEF StateOK, PlaceInv
<1>4. Latest \in Int /\ Latest' \in Int /\ Latest <= Latest'
  BY <1>1, <1>2, LatestIs DEF Latest
<1>5. PlaceInv'
  BY <1>2 DEF PlaceInv
<1>6. ASSUME UNCHANGED <<files, size, promised>> PROVE WriterInv'
  <2>1. FilesInv'
    BY <1>1, <1>4, <1>6, FilesStay
  <2>2. StateOK'
    BY <1>1, <1>2, <1>6 DEF StateOK
  <2>3. SizeInv'
    BY <1>1, <1>2, <1>6 DEF SizeInv, Current, Bytes
  <2>4. KeptInv'
    <3>1. \A g \in DOMAIN files : g \in DOMAIN files' /\ Logged(g) \subseteq Logged(g)'
      BY <1>6 DEF Logged
    <3> QED
      BY <1>1, <1>2, <1>6, <3>1, KeptStays
  <2> QED
    BY <1>5, <2>1, <2>2, <2>3, <2>4 DEF WriterInv
<1>7. ASSUME NEW n \in 1..record.bytes, handle = "open", files' = Appended(n), size' = size + n,
             promised' \subseteq promised \cup {[id |-> record.id, at |-> rotations]}
      PROVE  WriterInv'
  <2>1. /\ FilesInv' /\ Bytes(Current)' = Bytes(Current) + n
        /\ 0 \in DOMAIN files' /\ record.id \in Logged(0)'
        /\ \A g \in DOMAIN files : g \in DOMAIN files' /\ Logged(g) \subseteq Logged(g)'
    BY <1>1, <1>2, <1>7, Appending
  <2>2. size = Bytes(Current) /\ size \in Nat /\ n \in Nat
    BY <1>1, <1>3, <1>7 DEF SizeInv, StateOK
  <2>3. SizeInv'
    BY <1>2, <2>1, <2>2, <1>7 DEF SizeInv
  <2>4. promised' \subseteq [id : 1..MaxRecords, at : Nat]
    <3>1. rotations \in Nat /\ promised \subseteq [id : 1..MaxRecords, at : Nat]
      BY <1>1 DEF StateOK
    <3>2. [id |-> record.id, at |-> rotations] \in [id : 1..MaxRecords, at : Nat]
      BY <1>3, <3>1
    <3> QED
      BY <1>7, <3>1, <3>2
  <2>5. StateOK'
    <3>1. size' \in Nat
      BY <1>7, <2>2
    <3> QED
      BY <1>1, <1>2, <2>4, <3>1 DEF StateOK
  <2>6. KeptInv'
    <3> SUFFICES ASSUME NEW p \in promised', rotations - p.at <= Keep
                 PROVE  \E g \in DOMAIN files' : p.id \in Logged(g)' /\ g <= rotations - p.at
      BY <1>2 DEF KeptInv
    <3>1. CASE p \in promised
      <4>1. PICK g \in DOMAIN files : p.id \in Logged(g) /\ g <= rotations - p.at
        BY <1>1, <3>1 DEF KeptInv
      <4> QED
        BY <2>1, <4>1
    <3>2. CASE p = [id |-> record.id, at |-> rotations]
      <4>1. rotations \in Nat /\ p.id = record.id /\ p.at = rotations
        BY <1>1, <3>2 DEF StateOK
      <4> QED
        BY <2>1, <4>1
    <3> QED
      BY <1>7, <3>1, <3>2
  <2> QED
    BY <1>5, <2>1, <2>3, <2>5, <2>6 DEF WriterInv
<1>8. \/ UNCHANGED <<files, size, promised>>
      \/ \E n \in 1..record.bytes :
            /\ handle = "open" /\ files' = Appended(n) /\ size' = size + n
            /\ promised' \subseteq promised \cup {[id |-> record.id, at |-> rotations]}
  <2>1. record.bytes \in 1..record.bytes /\ 1..record.bytes - 1 \subseteq 1..record.bytes
    BY <1>3
  <2> QED
    BY <2>1 DEF AppendRecord
<1> QED
  BY <1>6, <1>7, <1>8

LEMMA ExitKeeps == WriterInv /\ Exit => WriterInv'
<1> SUFFICES ASSUME WriterInv, Exit PROVE WriterInv'
  OBVIOUS
<1>1. FilesInv /\ StateOK /\ PlaceInv /\ SizeInv /\ KeptInv
  BY DEF WriterInv
<1>2. /\ handle' = "nil" /\ pc' = "idle" /\ muted' = 0
      /\ UNCHANGED <<files, size, shift, record, faults, rotations, promised>>
  BY DEF Exit
<1>3. Latest \in Int /\ Latest' \in Int /\ Latest <= Latest'
  BY <1>1, <1>2, LatestIs DEF Latest
<1>4. FilesInv'
  BY <1>1, <1>2, <1>3, FilesStay
<1>5. StateOK'
  BY <1>1, <1>2 DEF StateOK
<1>6. KeptInv'
  <2>1. \A g \in DOMAIN files : g \in DOMAIN files' /\ Logged(g) \subseteq Logged(g)'
    BY <1>2 DEF Logged
  <2> QED
    BY <1>1, <1>2, <2>1, KeptStays
<1> QED
  BY <1>2, <1>4, <1>5, <1>6 DEF WriterInv, PlaceInv, SizeInv

LEMMA NothingKeeps == WriterInv /\ UNCHANGED vars => WriterInv'
<1> SUFFICES ASSUME WriterInv, UNCHANGED vars PROVE WriterInv'
  OBVIOUS
<1>1. UNCHANGED <<files, handle, size, pc, shift, record, faults, rotations, promised, muted>>
  BY DEF vars
<1> QED
  BY <1>1 DEF WriterInv, FilesInv, Latest, StateOK, PlaceInv, SizeInv, KeptInv, Current, Bytes, Logged

LEMMA AlwaysInv == Spec => []WriterInv
<1>1. WriterInv /\ [Next]_vars => WriterInv'
  BY NewKeeps, WriteKeeps, CloseKeeps, RemoveKeeps, ShiftKeeps, RenameKeeps, ReopenKeeps,
     AppendKeeps, ExitKeeps, NothingKeeps DEF Next
<1> QED
  BY <1>1, WriterStarts, PTL DEF Spec

-----------------------------------------------------------------------------
(* Theorems. *)

\* Whatever fails, the writer's fields and the generations on disk stay what they
\* are declared for: no generation past path.Keep is ever made.
THEOREM TypeCorrect == Spec => []TypeOK
<1>1. WriterInv => TypeOK
  BY DEF WriterInv, FilesInv, StateOK, TypeOK, Sound, Record
<1> QED
  BY <1>1, AlwaysInv, PTL

\* From the oldest generation to the newest the records stay in the order they
\* were logged in, through failing shifts and renames and interrupted rotations.
THEOREM RecordsInOrder == Spec => []InOrder
<1>1. WriterInv => InOrder
  <2> SUFFICES ASSUME WriterInv PROVE InOrder
    OBVIOUS
  <2>1. FilesInv
    BY DEF WriterInv
  <2>2. \A g \in DOMAIN files : Sound(files[g], Latest) /\ DOMAIN files[g] = 1..Len(files[g])
    BY <2>1 DEF FilesInv, Sound
  <2> QED
    BY <2>1, <2>2 DEF InOrder, FilesInv, Sound
<1> QED
  BY <1>1, AlwaysInv, PTL

\* The size that decides on a rotation is the file's own, also after part of a
\* record was written or the file was opened again.
THEOREM SizeExact == Spec => []SizeIsExact
<1>1. WriterInv => SizeIsExact
  BY DEF WriterInv, SizeInv, SizeIsExact
<1> QED
  BY <1>1, AlwaysInv, PTL

\* A generation larger than maxBytes holds one record and nothing else.
THEOREM FilesStayBounded == Spec => []FilesBounded
<1>1. WriterInv => FilesBounded
  BY DEF WriterInv, FilesInv, Sound, FilesBounded
<1> QED
  BY <1>1, AlwaysInv, PTL

\* What Write reported written is in one of the generations for Keep rotations
\* more, the failed and the interrupted ones counted.
THEOREM ReportedStays == Spec => []ReportedIsKept
<1>1. WriterInv => ReportedIsKept
  BY DEF WriterInv, KeptInv, ReportedIsKept
<1> QED
  BY <1>1, AlwaysInv, PTL
=============================================================================
