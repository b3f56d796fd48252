-------------------------- MODULE ScannerSync_proofs --------------------------
(***************************************************************************)
(* For any files, contents and batch size, whatever changes, cannot be     *)
(* read or written, or dies: what a scan leaves in the rows of Postgres    *)
(* and the points of Qdrant.                                               *)
(***************************************************************************)
EXTENDS ScannerSync, WellFoundedInduction, TLAPS

Before == {p \in Nat \X Nat : p[1] < p[2]}

LEMMA NextIsListed ==
    ASSUME listed \subseteq Files, listed # {}
    PROVE  NextFile \in listed
<1>1. listed \in SUBSET Nat
  BY ScannerAssumption
<1>2. IsWellFoundedOn(Before, Nat)
  BY NatLessThanWellFounded DEF Before, OpToRel
<1>3. PICK m \in listed : \A k \in listed : <<k, m>> \notin Before
  BY <1>1, <1>2, WFMin
<1>4. m \in Nat /\ \A k \in listed : k \in Nat
  BY <1>1
<1>5. \A k \in listed : ~(k < m)
  BY <1>3, <1>4 DEF Before
<1>6. \A k \in listed : m <= k
  BY <1>4, <1>5
<1> QED
  BY <1>6 DEF NextFile

LEMMA NamesApart ==
    /\ Files \subseteq Ids
    /\ \A i \in Files : Url[i] \in Ids /\ Url[i] \notin Files
BY ScannerAssumption DEF Ids

LEMMA NoneApart == None \notin Disk /\ None \notin Row /\ None \notin Point /\ None \notin Metas
BY NoneAssumption

\* What a scan of one file, skipped or not, takes from the disk.
LEMMA IdOfFile ==
    ASSUME NEW i \in Files, NEW v
    PROVE  /\ IdOf(i, v) \in Ids
           /\ ~Failed(v) => IdOf(i, v) = i
           /\ \A j \in Files : IdOf(i, v) = j => j = i /\ ~Failed(v)
BY NamesApart DEF IdOf

-----------------------------------------------------------------------------
(* The inductive invariant, in four parts.                                 *)

\* Files that were once there stay, so do the rows; what a worker has in hand is
\* being indexed; what is marked still waits.
Places ==
    /\ \A i \in listed : disk[i] # None
    /\ \A i \in Files : row[i] # None => disk[i] # None
    /\ pc = "load" => listed # {}
    /\ pc \in {"mark", "process", "idle"} => listed = {}
    /\ hand # None => pc = "process" /\ row[hand] # None /\ row[hand].st = "indexing"
    /\ dups # {} => pc = "mark"
    /\ \A d \in dups : d \in Files /\ row[d] # None /\ row[d].st = "downloaded"

\* A point says what its row says, unless the row is to be written with the next
\* batch, as it is there, or is owed.
Batched ==
    /\ pc # "scan" => Pending = {}
    /\ \A d \in Pending : row[d] # None /\ batch[d] = row[d].meta
    /\ \A d \in Ids \ (owed \union Pending) :
          row[d] # None => point[d] # None /\ point[d].meta = row[d].meta

\* What is still to be scanned is compared with its row as it is now; the rows of
\* what was scanned follow the disk.
Follows(i) ==
    disk[i] # None /\ disk[i].content \in Sums =>
        /\ row[i] # None
        /\ row[i].meta = disk[i].meta
        /\ row[i].sum \in {disk[i].content, Unread}
Scanned ==
    /\ pc = "scan" => \A i \in listed : known[i] = row[i]
    /\ quiet => pc # "idle" /\ \A i \in Files \ listed : Follows(i)

\* Of two that wait with the same file the second is marked, or still to be.
Marked ==
    pc \in {"mark", "process"} => \A i, j \in Files :
        i < j /\ Twins(i, j) /\ point[j] # None => j \in dups \/ point[j].dup

IInv == TypeOK /\ Places /\ Batched /\ Scanned /\ Marked

-----------------------------------------------------------------------------
(* One file is scanned.                                                    *)

NewRow(i, d, sum) ==
    [st |-> EffectiveStatus(known[d], Found(disk[i])),
     meta |-> disk[i].meta, sum |-> sum, summary |-> FALSE]
Upserts(i, d, sum) ==
    disk[i].content # Absent /\ ShouldUpsert(known[d], Found(disk[i]), disk[i].meta, sum)

Scans(i, d, sum) ==
    /\ i \in listed /\ i \in Files /\ disk[i] \in Disk
    /\ d = IdOf(i, disk[i]) /\ d \in Ids
    /\ sum \in {disk[i].content, Unread}
    /\ listed' = listed \ {i}
    /\ IF Upserts(i, d, sum)
       THEN /\ row' = [row EXCEPT ![d] = NewRow(i, d, sum)]
            /\ batch' = [batch EXCEPT ![d] = disk[i].meta]
            /\ NewRow(i, d, sum) \in Row
       ELSE UNCHANGED <<row, batch>>

LEMMA EffectiveIsStatus ==
    ASSUME NEW old \in Row \union {None}, NEW v
    PROVE  EffectiveStatus(old, Found(v)) \in Status
BY DEF EffectiveStatus, Found, Row, Status, Progress

LEMMA ScanOfFile ==
    ASSUME TypeOK, Places, Scan
    PROVE  \E i \in Files, d \in Ids : \E sum : Scans(i, d, sum)
<1> DEFINE i == NextFile
           v == disk[i]
           d == IdOf(i, v)
<1>1. i \in listed /\ i \in Files /\ v \in Disk
  BY NextIsListed DEF Scan, TypeOK, Places
<1>2. d \in Ids
  BY <1>1, IdOfFile
<1>3. PICK sum \in {v.content} \union (IF i \in Flaky THEN {Unread} ELSE {}) :
        IF v.content # Absent /\ ShouldUpsert(known[d], Found(v), v.meta, sum)
        THEN /\ row' = [row EXCEPT ![d] =
                          [st |-> EffectiveStatus(known[d], Found(v)),
                           meta |-> v.meta, sum |-> sum, summary |-> FALSE]]
             /\ batch' = [batch EXCEPT ![d] = v.meta]
        ELSE UNCHANGED <<row, batch>>
  BY DEF Scan
<1>4. sum \in {v.content, Unread}
  OBVIOUS
<1>5. known[d] \in Row \union {None}
  BY <1>2 DEF TypeOK
<1>6. ASSUME v.content # Absent PROVE NewRow(i, d, sum) \in Row
  <2>1. EffectiveStatus(known[d], Found(v)) \in Status
    BY <1>5, EffectiveIsStatus
  <2>2. v.meta \in Metas /\ sum \in Sums \union Errs \union {Unread}
    BY <1>1, <1>4, <1>6 DEF Disk
  <2> QED
    BY <2>1, <2>2 DEF NewRow, Row
<1>7. listed' = listed \ {i}
  BY DEF Scan
<1>8. Scans(i, d, sum)
  BY <1>1, <1>2, <1>3, <1>4, <1>6, <1>7 DEF Scans, Upserts, NewRow
<1> QED
  BY <1>1, <1>2, <1>8

-----------------------------------------------------------------------------
(* Types, and where everything is.                                         *)

LEMMA StartsRight == Init => IInv
<1> SUFFICES ASSUME Init PROVE IInv
  OBVIOUS
<1>1. TypeOK
  BY DEF Init, TypeOK, NoRows, NoBatch
<1>2. Places
  BY NamesApart DEF Init, Places, NoRows
<1>3. Scanned /\ Marked
  BY DEF Init, Scanned, Marked
<1>4. Batched
  BY DEF Init, Batched, Pending, NoRows, NoBatch
<1> QED
  BY <1>1, <1>2, <1>3, <1>4 DEF IInv

LEMMA TypeStep ==
    ASSUME TypeOK, Places, [Next]_vars
    PROVE  TypeOK'
<1> USE NamesApart DEF TypeOK
<1>1. ASSUME NEW i \in Files, Change(i) PROVE TypeOK'
  <2>1. PICK v \in Beside[i] : disk' = [disk EXCEPT ![i] = v]
    BY <1>1 DEF Change
  <2>2. v \in Disk
    BY <2>1, DiskAssumption
  <2> QED
    BY <1>1, <2>1, <2>2 DEF Change
<1>2. CASE List
  BY <1>2 DEF List, Goto
<1>3. CASE LoadChecksums
  BY <1>3 DEF LoadChecksums, Goto
<1>4. CASE Scan
  <2>1. PICK i \in Files, d \in Ids : \E sum : Scans(i, d, sum)
    BY <1>4, ScanOfFile
  <2>2. PICK sum : Scans(i, d, sum)
    BY <2>1
  <2>3. row' \in [Ids -> Row \union {None}] /\ batch' \in [Ids -> Metas \union {None}]
    BY <2>2 DEF Scans, Disk
  <2>4. listed' \subseteq Files
    BY <2>2 DEF Scans
  <2> QED
    BY <1>4, <2>3, <2>4 DEF Scan
<1>5. CASE SkipFile
  BY <1>5 DEF SkipFile
<1>6. CASE Flush
  <2>1. PICK S \in SUBSET Pending :
          /\ point' = [d \in Ids |->
                         IF d \in S THEN [meta |-> batch[d], vector |-> FALSE, dup |-> FALSE]
                         ELSE point[d]]
          /\ owed' = (owed \ S) \union (Pending \ S)
    BY <1>6 DEF Flush
  <2>2. point' \in [Ids -> Point \union {None}] /\ owed' \subseteq Ids
    BY <2>1 DEF Pending, Point
  <2> QED
    BY <1>6, <2>2 DEF Flush, NoBatch
<1>7. CASE CollectGroups
  BY <1>7 DEF CollectGroups, NoRows, Goto
<1>8. ASSUME NEW d \in Ids, MarkDuplicate(d) PROVE TypeOK'
  <2>1. point' \in [Ids -> Point \union {None}]
    BY <1>8 DEF MarkDuplicate, Point
  <2> QED
    BY <1>8, <2>1 DEF MarkDuplicate
<1>9. ASSUME NEW d \in Ids, Begin(d) PROVE TypeOK'
  <2>1. row' \in [Ids -> Row \union {None}]
    BY <1>9 DEF Begin, Row, Status, Progress
  <2> QED
    BY <1>9, <2>1 DEF Begin
<1>10. CASE EndScan
  BY <1>10 DEF EndScan, Goto
<1>11. CASE Index
  <2>1. hand \in Ids /\ row[hand] \in Row
    BY <1>11 DEF Index, Places
  <2>2. row' \in [Ids -> Row \union {None}]
    BY <1>11, <2>1 DEF Index, Row, Status, Progress
  <2>3. row[hand].meta \in Metas /\ (point[hand] # None /\ point[hand].dup) \in BOOLEAN
    BY <2>1 DEF Row, Point
  <2>4. point' \in [Ids -> Point \union {None}]
    BY <1>11, <2>1, <2>3 DEF Index, Point
  <2> QED
    BY <1>11, <2>2, <2>4 DEF Index
<1>12. CASE Fail
  <2>1. hand \in Ids /\ row[hand] \in Row
    BY <1>12 DEF Fail, Places
  <2>2. row' \in [Ids -> Row \union {None}]
    BY <1>12, <2>1 DEF Fail, Row, Status
  <2> QED
    BY <1>12, <2>2 DEF Fail
<1>13. CASE EndRun
  BY <1>13 DEF EndRun, Stop, Goto, NoRows, NoBatch
<1>14. CASE Crash
  BY <1>14 DEF Crash, Stop, Goto, NoRows, NoBatch, Pending
<1>15. CASE UNCHANGED vars
  BY <1>15 DEF vars
<1> QED
  BY <1>1, <1>2, <1>3, <1>4, <1>5, <1>6, <1>7, <1>8, <1>9, <1>10, <1>11, <1>12, <1>13, <1>14, <1>15
     DEF Next

LEMMA PlacesStep ==
    ASSUME TypeOK, Places, [Next]_vars
    PROVE  Places'
<1>1. ASSUME NEW i \in Files, Change(i) PROVE Places'
  <2>1. PICK v \in Beside[i] : disk' = [disk EXCEPT ![i] = v]
    BY <1>1 DEF Change
  <2>2. v # None
    BY <2>1, DiskAssumption, NoneAssumption
  <2>3. \A j \in Files : disk[j] # None => disk'[j] # None
    BY <2>1, <2>2 DEF TypeOK
  <2> QED
    BY <1>1, <2>3 DEF Change, Places, TypeOK
<1>2. CASE List
  BY <1>2 DEF List, Goto, Places
<1>3. CASE LoadChecksums
  BY <1>3 DEF LoadChecksums, Goto, Places
<1>4. CASE Scan
  <2>1. PICK i \in Files, d \in Ids : \E sum : Scans(i, d, sum)
    BY <1>4, ScanOfFile
  <2>2. PICK sum : Scans(i, d, sum)
    BY <2>1
  <2>3. pc = "scan" /\ UNCHANGED <<disk, pc, dups, hand>> /\ dups = {} /\ hand = None
    BY <1>4 DEF Scan, Places
  <2>4. \A j \in Files : row'[j] # None => disk[j] # None
    <3> SUFFICES ASSUME NEW j \in Files, row'[j] # None, row[j] = None
                 PROVE  disk[j] # None
      BY DEF Places
    <3>1. j = d
      BY <2>2, NamesApart DEF Scans, TypeOK
    <3>2. j = i
      BY <2>2, <3>1, IdOfFile DEF Scans
    <3> QED
      BY <2>2, <3>2, NoneAssumption DEF Scans
  <2>5. listed' \subseteq listed
    BY <2>2 DEF Scans
  <2> QED
    BY <2>3, <2>4, <2>5 DEF Places
<1>5. CASE SkipFile
  BY <1>5 DEF SkipFile, Places
<1>6. CASE Flush
  BY <1>6 DEF Flush, Places
<1>7. CASE CollectGroups
  BY <1>7 DEF CollectGroups, Goto, Places, Twins
<1>8. ASSUME NEW d \in Ids, MarkDuplicate(d) PROVE Places'
  BY <1>8 DEF MarkDuplicate, Places
<1>9. ASSUME NEW d \in Ids, Begin(d) PROVE Places'
  <2>1. row'[d] # None /\ row'[d].st = "indexing" /\ \A j \in Ids \ {d} : row'[j] = row[j]
    <3>1. row[d] \in Row
      BY <1>9 DEF Begin, TypeOK
    <3>2. row'[d] = [row[d] EXCEPT !.st = "indexing"]
      BY <1>9 DEF Begin, TypeOK
    <3>3. row'[d] \in Row /\ row'[d].st = "indexing"
      BY <3>1, <3>2 DEF Row, Status, Progress
    <3> QED
      BY <1>9, <3>3, NoneAssumption DEF Begin, TypeOK
  <2>2. dups = {} /\ hand = None /\ pc = "process"
    BY <1>9 DEF Begin, Places
  <2> QED
    BY <1>9, <2>1, <2>2, NamesApart DEF Begin, Places
<1>10. CASE EndScan
  BY <1>10 DEF EndScan, Goto, Places
<1>11. CASE Index
  <2>1. \A j \in Ids : row'[j] # None => row[j] # None
    BY <1>11 DEF Index, Places, TypeOK
  <2> QED
    BY <1>11, <2>1, NamesApart DEF Index, Places
<1>12. CASE Fail
  <2>1. \A j \in Ids : row'[j] # None => row[j] # None
    BY <1>12 DEF Fail, Places, TypeOK
  <2> QED
    BY <1>12, <2>1, NamesApart DEF Fail, Places
<1>13. CASE EndRun
  BY <1>13 DEF EndRun, Stop, Goto, Places
<1>14. CASE Crash
  BY <1>14 DEF Crash, Stop, Goto, Places
<1>15. CASE UNCHANGED vars
  BY <1>15 DEF vars, Places
<1> QED
  BY <1>1, <1>2, <1>3, <1>4, <1>5, <1>6, <1>7, <1>8, <1>9, <1>10, <1>11, <1>12, <1>13, <1>14, <1>15
     DEF Next

-----------------------------------------------------------------------------
(* The points.                                                             *)

\* A row that keeps its metadata where no point changes keeps what is batched.
LEMMA BatchedKept ==
    ASSUME Batched, UNCHANGED <<point, owed>>, Pending = {}, Pending' = {},
           \A d \in Ids : row'[d] # None => row[d] # None /\ row'[d].meta = row[d].meta
    PROVE  Batched'
BY DEF Batched

LEMMA BatchedStep ==
    ASSUME TypeOK, Places, Batched, [Next]_vars
    PROVE  Batched'
<1>1. CASE Scan
  <2>1. PICK i \in Files, d \in Ids : \E sum : Scans(i, d, sum)
    BY <1>1, ScanOfFile
  <2>2. PICK sum : Scans(i, d, sum)
    BY <2>1
  <2>3. UNCHANGED <<point, owed, pc>> /\ pc = "scan"
    BY <1>1 DEF Scan
  <2>4. CASE Upserts(i, d, sum)
    <3>1. row' = [row EXCEPT ![d] = NewRow(i, d, sum)] /\ batch' = [batch EXCEPT ![d] = disk[i].meta]
          /\ NewRow(i, d, sum) # None
      BY <2>2, <2>4, NoneAssumption DEF Scans
    <3>2. disk[i].meta # None
      BY <2>2, NoneAssumption DEF Scans, Disk
    <3>3. Pending' = Pending \union {d}
      BY <3>1, <3>2 DEF Pending, TypeOK
    <3>4. row'[d] # None /\ row'[d].meta = disk[i].meta /\ batch'[d] = disk[i].meta
      BY <3>1 DEF TypeOK, NewRow
    <3>5. \A e \in Ids \ {d} : row'[e] = row[e] /\ batch'[e] = batch[e]
      BY <3>1 DEF TypeOK
    <3> QED
      BY <2>3, <3>3, <3>4, <3>5 DEF Batched, Pending
  <2>5. CASE ~Upserts(i, d, sum)
    <3>1. UNCHANGED <<row, batch>>
      BY <2>2, <2>5 DEF Scans
    <3> QED
      BY <2>3, <3>1 DEF Batched, Pending
  <2> QED
    BY <2>4, <2>5
<1>2. CASE Flush
  <2>1. PICK S \in SUBSET Pending :
          /\ point' = [d \in Ids |->
                         IF d \in S THEN [meta |-> batch[d], vector |-> FALSE, dup |-> FALSE]
                         ELSE point[d]]
          /\ owed' = (owed \ S) \union (Pending \ S)
    BY <1>2 DEF Flush
  <2>2. Pending' = {} /\ UNCHANGED <<row, pc>>
    BY <1>2 DEF Flush, Pending, NoBatch
  <2>3. \A d \in S : point'[d] # None /\ point'[d].meta = row[d].meta
    <3> SUFFICES ASSUME NEW d \in S PROVE point'[d] # None /\ point'[d].meta = row[d].meta
      OBVIOUS
    <3>1. d \in Ids /\ batch[d] \in Metas /\ batch[d] = row[d].meta
      BY DEF Pending, TypeOK, Batched
    <3>2. point'[d] = [meta |-> batch[d], vector |-> FALSE, dup |-> FALSE]
      BY <2>1, <3>1
    <3>3. point'[d] \in Point
      BY <3>1, <3>2 DEF Point
    <3>4. point'[d] # None
      BY <3>3, NoneApart
    <3>5. point'[d].meta = batch[d]
      BY <3>2
    <3> QED
      BY <3>1, <3>4, <3>5
  <2>4. \A d \in Ids \ S : point'[d] = point[d]
    BY <2>1
  <2> QED
    BY <2>1, <2>2, <2>3, <2>4 DEF Batched
<1>3. CASE CollectGroups
  BY <1>3 DEF CollectGroups, Goto, Batched, Pending
<1>4. ASSUME NEW d \in Ids, MarkDuplicate(d) PROVE Batched'
  <2>1. \A e \in Ids : point[e] # None => point'[e] # None /\ point'[e].meta = point[e].meta
    <3> SUFFICES ASSUME NEW e \in Ids, point[e] # None
                 PROVE  point'[e] # None /\ point'[e].meta = point[e].meta
      OBVIOUS
    <3>1. point[e] \in Point
      BY DEF TypeOK
    <3>2. point'[e] \in Point /\ point'[e].meta = point[e].meta
      BY <1>4, <3>1 DEF MarkDuplicate, TypeOK, Point
    <3> QED
      BY <3>2, NoneAssumption
  <2> QED
    BY <1>4, <2>1 DEF MarkDuplicate, Batched, Pending
<1>5. ASSUME NEW d \in Ids, Begin(d) PROVE Batched'
  <2>1. \A e \in Ids : row'[e] # None => row[e] # None /\ row'[e].meta = row[e].meta
    BY <1>5 DEF Begin, TypeOK, Row
  <2>2. Pending = {} /\ Pending' = {} /\ UNCHANGED <<point, owed>>
    BY <1>5 DEF Begin, Batched, Pending
  <2> QED
    BY <2>1, <2>2, BatchedKept
<1>6. CASE Index
  <2>1. hand \in Ids /\ row[hand] \in Row
    BY <1>6 DEF Index, Places, TypeOK
  <2>2. \A e \in Ids : row'[e] # None => row[e] # None /\ row'[e].meta = row[e].meta
    BY <1>6, <2>1, NoneApart DEF Index, TypeOK, Row
  <2>3. Pending = {} /\ Pending' = {} /\ UNCHANGED owed
    BY <1>6 DEF Index, Batched, Pending
  <2>4. point'[hand] # None /\ point'[hand].meta = row[hand].meta
    <3>1. point'[hand] = [meta |-> row[hand].meta, vector |-> TRUE,
                          dup |-> point[hand] # None /\ point[hand].dup]
      BY <1>6, <2>1 DEF Index, TypeOK
    <3>2. row[hand].meta \in Metas /\ (point[hand] # None /\ point[hand].dup) \in BOOLEAN
      BY <2>1 DEF TypeOK, Row, Point
    <3>3. point'[hand] \in Point
      BY <3>1, <3>2 DEF Point
    <3>4. point'[hand] # None
      BY <3>3, NoneApart
    <3>5. point'[hand].meta = row[hand].meta
      BY <3>1
    <3> QED
      BY <3>4, <3>5
  <2>5. \A e \in Ids \ {hand} : point'[e] = point[e]
    BY <1>6 DEF Index, TypeOK
  <2> QED
    BY <2>1, <2>2, <2>3, <2>4, <2>5 DEF Batched
<1>7. CASE Fail
  <2>1. \A e \in Ids : row'[e] # None => row[e] # None /\ row'[e].meta = row[e].meta
    <3>1. hand \in Ids /\ row[hand] \in Row
      BY <1>7 DEF Fail, Places, TypeOK
    <3> QED
      BY <1>7, <3>1, NoneApart DEF Fail, TypeOK, Row
  <2>2. Pending = {} /\ Pending' = {} /\ UNCHANGED <<point, owed>>
    BY <1>7 DEF Fail, Batched, Pending
  <2> QED
    BY <2>1, <2>2, BatchedKept
<1>8. CASE EndRun
  <2>1. Pending = {} /\ Pending' = {} /\ UNCHANGED <<row, point, owed>>
    BY <1>8 DEF EndRun, Stop, Batched, Pending, NoBatch
  <2> QED
    BY <2>1, BatchedKept
<1>9. CASE Crash
  <2>1. Pending' = {}
    BY <1>9 DEF Crash, Stop, Pending, NoBatch
  <2> QED
    BY <1>9, <2>1 DEF Crash, Batched
<1>10. CASE List \/ LoadChecksums
  BY <1>10 DEF List, LoadChecksums, Goto, Batched, Pending
<1>11. CASE (\E i \in Files : Change(i)) \/ SkipFile \/ EndScan \/ UNCHANGED vars
  BY <1>11 DEF Change, SkipFile, EndScan, Goto, vars, Batched, Pending
<1> QED
  BY <1>1, <1>2, <1>3, <1>4, <1>5, <1>6, <1>7, <1>8, <1>9, <1>10, <1>11 DEF Next

-----------------------------------------------------------------------------
(* The rows.                                                               *)

LEMMA FollowsKept ==
    ASSUME Scanned, UNCHANGED <<disk, quiet>>, pc' \notin {"idle", "scan"}, listed' = listed,
           \A d \in Ids : row[d] # None => /\ row'[d] # None
                                          /\ row'[d].meta = row[d].meta /\ row'[d].sum = row[d].sum
    PROVE  Scanned'
BY NamesApart DEF Scanned, Follows

\* A file that is scanned while its row is as it was loaded: whatever is written
\* or left, the row follows the disk.
LEMMA ScanFollows ==
    ASSUME TypeOK, NEW i \in Files, NEW d \in Ids, NEW sum, Scans(i, d, sum), UNCHANGED disk,
           known[i] = row[i]
    PROVE  Follows(i)'
<1> SUFFICES ASSUME disk[i] # None, disk[i].content \in Sums
             PROVE  /\ row'[i] # None
                    /\ row'[i].meta = disk[i].meta
                    /\ row'[i].sum \in {disk[i].content, Unread}
  BY DEF Follows
<1>1. disk[i].content \notin Errs /\ disk[i].content # Absent
  BY ScannerAssumption
<1>2. d = i /\ Found(disk[i]) = "downloaded"
  BY <1>1, IdOfFile DEF Scans, Failed, Found
<1>3. CASE Upserts(i, d, sum)
  <2>1. row'[i] = NewRow(i, d, sum) /\ NewRow(i, d, sum) \in Row
    BY <1>2, <1>3 DEF Scans, TypeOK
  <2>2. row'[i] # None
    BY <2>1, NoneApart
  <2>3. row'[i].meta = disk[i].meta /\ row'[i].sum = sum
    BY <2>1 DEF NewRow
  <2> QED
    BY <2>2, <2>3 DEF Scans
<1>4. CASE ~Upserts(i, d, sum)
  <2>1. row' = row /\ sum \in {disk[i].content, Unread}
    BY <1>4 DEF Scans
  <2>2. ~ShouldUpsert(row[i], "downloaded", disk[i].meta, sum)
    BY <1>1, <1>2, <1>4 DEF Upserts
  <2>3. row[i] # None /\ row[i] \in Row
    BY <2>2, NamesApart DEF ShouldUpsert, TypeOK
  <2>4. ~Differs(row[i].meta, disk[i].meta) /\ ~Differs(row[i].sum, sum)
    BY <2>2 DEF ShouldUpsert
  <2>5. row[i].meta # Unread
    BY <2>3, ScannerAssumption DEF Row
  <2> QED
    BY <2>1, <2>3, <2>4, <2>5 DEF Differs
<1> QED
  BY <1>3, <1>4

LEMMA ScannedStep ==
    ASSUME TypeOK, Places, Scanned, [Next]_vars
    PROVE  Scanned'
<1>1. CASE Scan
  <2>1. PICK i \in Files, d \in Ids : \E sum : Scans(i, d, sum)
    BY <1>1, ScanOfFile
  <2>2. PICK sum : Scans(i, d, sum)
    BY <2>1
  <2>3. pc = "scan" /\ UNCHANGED <<disk, pc, quiet, known>>
    BY <1>1 DEF Scan
  <2>4. \A j \in Files \ {i} : row'[j] = row[j]
    <3> SUFFICES ASSUME NEW j \in Files \ {i} PROVE row'[j] = row[j]
      OBVIOUS
    <3>1. j # d /\ j \in Ids
      BY <2>2, IdOfFile, NamesApart DEF Scans
    <3> QED
      BY <2>2, <3>1 DEF Scans, TypeOK
  <2>5. i \in listed /\ listed' = listed \ {i} /\ known[i] = row[i]
    BY <2>2, <2>3 DEF Scans, Scanned
  <2>6. \A j \in listed' : known'[j] = row'[j]
    BY <2>3, <2>4, <2>5 DEF Scanned, TypeOK
  <2>7. ASSUME quiet, NEW j \in Files \ listed' PROVE Follows(j)'
    <3>1. CASE j = i
      BY <2>2, <2>3, <2>5, <3>1, ScanFollows
    <3>2. CASE j # i
      <4>1. Follows(j)
        BY <2>5, <2>7, <3>2 DEF Scanned
      <4> QED
        BY <2>3, <2>4, <3>2, <4>1 DEF Follows
    <3> QED
      BY <3>1, <3>2
  <2> QED
    BY <2>3, <2>6, <2>7 DEF Scanned
<1>2. ASSUME NEW d \in Ids, Begin(d) PROVE Scanned'
  <2>1. row' = [row EXCEPT ![d] = [row[d] EXCEPT !.st = "indexing"]] /\ row[d] \in Row
    BY <1>2 DEF Begin, TypeOK
  <2>2. row'[d] \in Row /\ row'[d].meta = row[d].meta /\ row'[d].sum = row[d].sum
    BY <2>1 DEF TypeOK, Row, Status, Progress
  <2>3. \A e \in Ids \ {d} : row'[e] = row[e]
    BY <2>1 DEF TypeOK
  <2> QED
    BY <1>2, <2>2, <2>3, NoneApart, FollowsKept DEF Begin
<1>3. CASE Index
  <2>1. hand \in Ids /\ row[hand] \in Row
    BY <1>3 DEF Index, Places, TypeOK
  <2>2. row'[hand] = [row[hand] EXCEPT !.st = "indexed", !.summary = TRUE]
    BY <1>3, <2>1 DEF Index, TypeOK
  <2>3. row'[hand] \in Row /\ row'[hand].meta = row[hand].meta /\ row'[hand].sum = row[hand].sum
    BY <2>1, <2>2 DEF Row, Status, Progress
  <2>4. \A e \in Ids \ {hand} : row'[e] = row[e]
    BY <1>3 DEF Index, TypeOK
  <2> QED
    BY <1>3, <2>3, <2>4, NoneApart, FollowsKept DEF Index
<1>4. CASE Fail
  <2>1. hand \in Ids /\ row[hand] \in Row
    BY <1>4 DEF Fail, Places, TypeOK
  <2>2. row'[hand] = [row[hand] EXCEPT !.st = "index_failed"]
    BY <1>4, <2>1 DEF Fail, TypeOK
  <2>3. row'[hand] \in Row /\ row'[hand].meta = row[hand].meta /\ row'[hand].sum = row[hand].sum
    BY <2>1, <2>2 DEF Row, Status
  <2>4. \A e \in Ids \ {hand} : row'[e] = row[e]
    BY <1>4 DEF Fail, TypeOK
  <2> QED
    BY <1>4, <2>3, <2>4, NoneApart, FollowsKept DEF Fail
<1>5. CASE List
  BY <1>5 DEF List, Goto, Scanned, Follows
<1>6. CASE LoadChecksums
  BY <1>6 DEF LoadChecksums, Goto, Scanned, Follows
<1>7. ASSUME NEW d \in Ids, MarkDuplicate(d) PROVE Scanned'
  BY <1>7 DEF MarkDuplicate, Scanned, Follows
<1>8. CASE (\E i \in Files : Change(i)) \/ SkipFile
  BY <1>8 DEF Change, SkipFile, Scanned
<1>9. CASE Flush \/ CollectGroups \/ EndScan \/ UNCHANGED vars
  BY <1>9 DEF Flush, CollectGroups, EndScan, Goto, vars, Scanned, Follows
<1>10. CASE EndRun \/ Crash
  BY <1>10 DEF EndRun, Crash, Stop, Goto, Scanned
<1> QED
  BY <1>1, <1>2, <1>3, <1>4, <1>5, <1>6, <1>7, <1>8, <1>9, <1>10 DEF Next

-----------------------------------------------------------------------------
(* The duplicates.                                                         *)

LEMMA MarkedStep ==
    ASSUME TypeOK, Places, Marked, [Next]_vars
    PROVE  Marked'
<1>1. CASE List
  <2> SUFFICES ASSUME pc' = "process", NEW i \in Files, row[i] # None PROVE FALSE
    BY <1>1 DEF List, Goto, Marked, Twins
  <2>1. listed' = {}
    BY <1>1 DEF List, Goto
  <2> QED
    BY <1>1, <2>1 DEF List, Places
<1>2. CASE CollectGroups
  BY <1>2 DEF CollectGroups, Goto, Marked, Twins
<1>3. ASSUME NEW d \in Ids, MarkDuplicate(d) PROVE Marked'
  <2>1. \A e \in Ids \ {d} : point'[e] = point[e]
    BY <1>3 DEF MarkDuplicate, TypeOK
  <2>2. point'[d] # None => point[d] # None /\ point'[d].dup
    BY <1>3 DEF MarkDuplicate, TypeOK, Point
  <2>3. UNCHANGED <<row, pc>> /\ dups' = dups \ {d}
    BY <1>3 DEF MarkDuplicate
  <2> QED
    BY <2>1, <2>2, <2>3, NamesApart DEF Marked, Twins
<1>4. ASSUME NEW d \in Ids, Begin(d) PROVE Marked'
  <2>1. row'[d].st = "indexing" /\ \A e \in Ids \ {d} : row'[e] = row[e]
    BY <1>4 DEF Begin, TypeOK, Row
  <2>2. \A i, j \in Files : Twins(i, j)' => Twins(i, j)
    BY <2>1, NamesApart DEF Twins
  <2> QED
    BY <1>4, <2>2 DEF Begin, Marked
<1>5. CASE Index
  <2>1. hand \in Ids /\ row[hand] \in Row
    BY <1>5 DEF Index, Places, TypeOK
  <2>2. row'[hand].st = "indexed" /\ \A e \in Ids \ {hand} : row'[e] = row[e] /\ point'[e] = point[e]
    BY <1>5, <2>1 DEF Index, TypeOK, Row
  <2>3. \A i, j \in Files : Twins(i, j)' => Twins(i, j) /\ j # hand
    BY <2>2, NamesApart DEF Twins
  <2> QED
    BY <1>5, <2>2, <2>3, NamesApart DEF Index, Marked
<1>6. CASE Fail
  <2>1. hand \in Ids /\ row[hand] \in Row
    BY <1>6 DEF Fail, Places, TypeOK
  <2>2. row'[hand].st = "index_failed" /\ \A e \in Ids \ {hand} : row'[e] = row[e]
    BY <1>6, <2>1 DEF Fail, TypeOK, Row
  <2>3. \A i, j \in Files : Twins(i, j)' => Twins(i, j)
    BY <2>2, NamesApart DEF Twins
  <2> QED
    BY <1>6, <2>3 DEF Fail, Marked
<1>7. CASE (\E i \in Files : Change(i)) \/ EndScan \/ UNCHANGED vars
  BY <1>7 DEF Change, EndScan, Goto, vars, Marked, Twins
<1>8. CASE LoadChecksums \/ Scan \/ SkipFile \/ Flush
  BY <1>8 DEF LoadChecksums, Scan, SkipFile, Flush, Goto, Marked
<1>9. CASE EndRun \/ Crash
  BY <1>9 DEF EndRun, Crash, Stop, Goto, Marked
<1> QED
  BY <1>1, <1>2, <1>3, <1>4, <1>5, <1>6, <1>7, <1>8, <1>9 DEF Next

-----------------------------------------------------------------------------
LEMMA IInvAlways == Spec => []IInv
<1>1. IInv /\ [Next]_vars => IInv'
  BY TypeStep, PlacesStep, BatchedStep, ScannedStep, MarkedStep DEF IInv
<1> QED
  BY <1>1, StartsRight, PTL DEF Spec

\* A scan during which the disk did not change leaves the rows as the disk is,
\* for any files and whatever was interrupted before (scan_and_sync).
THEOREM RowsAlwaysFollow == Spec => []RowsFollowDisk
<1>1. IInv => RowsFollowDisk
  BY DEF IInv, Places, Scanned, Follows, RowsFollowDisk
<1> QED
  BY <1>1, IInvAlways, PTL

\* Batches of any size, written at once or one by one and failing anywhere, leave
\* every point as its row is, except those that are owed (_flush_batch).
THEOREM PointsAlwaysFollow == Spec => []PointsFollowRows
<1>1. IInv => PointsFollowRows
  BY DEF IInv, Places, Batched, PointsFollowRows
<1> QED
  BY <1>1, IInvAlways, PTL

\* Of any number of waiting documents with the same file one is shown at most
\* (_collect_checksum_groups, _mark_duplicate_group).
THEOREM OneAlwaysShown == Spec => []OneShown
<1>1. IInv => OneShown
  BY DEF IInv, Places, Marked, OneShown
<1> QED
  BY <1>1, IInvAlways, PTL

-----------------------------------------------------------------------------
(* What an indexed document keeps.                                         *)

Safe(i) ==
    row[i] # None /\ row[i].st = "indexed" =>
        /\ row'[i].st = "indexed"
        /\ Unchanged(i) /\ row'[i].sum # Unread => row'[i] = row[i] /\ point'[i] = point[i]

LEMMA SafeStep ==
    ASSUME IInv, [Next]_vars, NEW i \in Files
    PROVE  Safe(i)
<1> SUFFICES ASSUME row[i] # None, row[i].st = "indexed" PROVE Safe(i)
  BY DEF Safe
<1>0. TypeOK /\ Places /\ Scanned /\ i \in Ids
  BY NamesApart DEF IInv
<1>1. CASE Scan
  <2>1. PICK j \in Files, d \in Ids : \E sum : Scans(j, d, sum)
    BY <1>0, <1>1, ScanOfFile
  <2>2. PICK sum : Scans(j, d, sum)
    BY <2>1
  <2>3. CASE d # i \/ ~Upserts(j, d, sum)
    BY <1>0, <1>1, <2>2, <2>3 DEF Scan, Scans, Safe, TypeOK
  <2>4. CASE d = i /\ Upserts(j, d, sum)
    <3>0. IdOf(j, disk[j]) = i /\ j \in listed /\ pc = "scan"
      BY <1>1, <2>2, <2>4 DEF Scans, Scan
    <3>1. j = i /\ ~Failed(disk[i]) /\ known[i] = row[i]
      BY <1>0, <3>0, IdOfFile DEF Scanned
    <3>2. row'[i] = NewRow(i, d, sum)
      BY <1>0, <2>2, <2>4, <3>1 DEF Scans, TypeOK
    <3>3. Found(disk[i]) = "downloaded"
      BY <3>1 DEF Found
    <3>4. row'[i].st = "indexed" /\ row'[i].sum = sum
      BY <2>4, <3>1, <3>2, <3>3 DEF NewRow, EffectiveStatus
    <3>5. ~(Unchanged(i) /\ sum # Unread)
      <4> SUFFICES ASSUME Unchanged(i), sum # Unread PROVE FALSE
        OBVIOUS
      <4>1. sum = disk[i].content
        BY <2>2, <3>1 DEF Scans
      <4>2. ~ShouldUpsert(known[i], "downloaded", disk[i].meta, sum)
        BY <3>1, <4>1 DEF ShouldUpsert, StatusChanged, Progress, Differs, Unchanged
      <4> QED
        BY <2>4, <3>1, <3>3, <4>2 DEF Upserts
    <3> QED
      BY <3>4, <3>5 DEF Safe
  <2> QED
    BY <2>3, <2>4
<1>2. CASE Flush
  <2>1. \A d \in Ids \ Pending : point'[d] = point[d]
    BY <1>2 DEF Flush
  <2>2. Unchanged(i) => i \notin Pending
    BY DEF Unchanged, Pending
  <2> QED
    BY <1>0, <1>2, <2>1, <2>2 DEF Flush, Safe
<1>3. ASSUME NEW d \in Ids, MarkDuplicate(d) PROVE Safe(i)
  <2>1. d # i
    BY <1>0, <1>3 DEF MarkDuplicate, Places
  <2> QED
    BY <1>0, <1>3, <2>1 DEF MarkDuplicate, TypeOK, Safe
<1>4. ASSUME NEW d \in Ids, Begin(d) PROVE Safe(i)
  <2>1. d # i
    BY <1>4 DEF Begin
  <2> QED
    BY <1>0, <1>4, <2>1 DEF Begin, TypeOK, Safe
<1>5. CASE Index \/ Fail
  <2>1. hand \in Ids /\ hand # i
    BY <1>0, <1>5 DEF Index, Fail, Places, TypeOK
  <2> QED
    BY <1>0, <1>5, <2>1 DEF Index, Fail, TypeOK, Safe
<1>6. CASE (\E j \in Files : Change(j)) \/ List \/ LoadChecksums \/ SkipFile \/ CollectGroups
           \/ EndScan \/ EndRun \/ Crash \/ UNCHANGED vars
  BY <1>6 DEF Change, List, LoadChecksums, SkipFile, CollectGroups, EndScan, EndRun, Crash, vars, Safe
<1> QED
  BY <1>1, <1>2, <1>3, <1>4, <1>5, <1>6 DEF Next

\* A rescan, of any files and interrupted anywhere, never takes a document back to
\* an earlier stage, and leaves the row and the point of an indexed one alone
\* while its files are as its row says (_resolve_effective_status).
THEOREM IndexedStaysSafe == Spec => IndexedIsSafe
<1>1. IInv /\ [Next]_vars => [\A i \in Files : Safe(i)]_vars
  BY SafeStep
<1>2. IndexedIsSafe <=> [][\A i \in Files : Safe(i)]_vars
  BY PTL DEF IndexedIsSafe, Safe
<1> QED
  BY <1>1, <1>2, IInvAlways, PTL DEF Spec
=============================================================================
