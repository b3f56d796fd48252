----------------------------- MODULE ScannerSync -----------------------------
(***************************************************************************)
(* ScanProcessor.scan_and_sync: the metadata files on disk, the rows of    *)
(* Postgres and the document points of Qdrant, kept in step by checksums.  *)
(* One orchestrator at a time scans, then processes what it found; the     *)
(* disk may change under it, its reads and writes may fail, and it may die *)
(* anywhere.  A document is known by the path of its file, so the rank of  *)
(* a metadata file stands for both; a failed download is known by its URL. *)
(***************************************************************************)
EXTENDS Naturals, FiniteSets

CONSTANTS
    Files,       \* metadata files, by their rank in sorted order
    Url,         \* [Files -> ...] the document id of its failed download
    Metas,       \* contents of metadata files
    Sums,        \* contents of document files, as checksums
    Errs,        \* contents of .error files, as checksums
    Beside,      \* [Files -> SUBSET Disk] bound: what a metadata file and its document may be
    Flaky,       \* SUBSET Files: those whose document sometimes cannot be read
    BatchSize,   \* documents per write to Qdrant
    None, Absent, Unread   \* no record; no file; the checksum of what cannot be read

ASSUME ScannerAssumption ==
    /\ IsFiniteSet(Files) /\ Files \subseteq Nat
    /\ DOMAIN Url = Files
    /\ Flaky \subseteq Files
    /\ BatchSize \in Nat \ {0}
    /\ Sums \intersect Errs = {}
    /\ {Absent, Unread} \intersect (Sums \union Errs) = {}
    /\ Unread \notin Metas
    /\ \A i \in Files : Url[i] \notin Files

Ids      == Files \union {Url[i] : i \in Files}
Progress == {"downloaded", "indexing", "indexed"}   \* _valid_progress_states
Status   == Progress \union {"index_failed", "download_error"}
Disk     == [meta : Metas, content : Sums \union Errs \union {Absent}]
Row      == [st : Status, meta : Metas, sum : Sums \union Errs \union {Unread},
             summary : BOOLEAN]
Point    == [meta : Metas, vector : BOOLEAN, dup : BOOLEAN]

ASSUME DiskAssumption == Beside \in [Files -> SUBSET Disk]
ASSUME NoneAssumption == None \notin Disk \union Row \union Point \union Ids \union Metas

VARIABLES
    disk,    \* [Files -> Disk or None] a metadata file and what lies beside it
    row,     \* [Ids -> Row or None] summary: it has sys_summary, sys_taxonomies
    point,   \* [Ids -> Point or None] vector: it has its embedding and tag_ fields
    pc,      \* where the orchestrator is
    listed,  \* the metadata files still to process
    known,   \* [Ids -> Row or None] existing_checksums
    batch,   \* [Ids -> Metas or None] upsert_batch
    dups,    \* documents still to mark as duplicates
    hand,    \* the document its worker has in hand, or None
    quiet,   \* ghost: since this scan listed them no file has changed, none was skipped
    owed     \* ghost: documents whose row was rewritten and whose point was not

vars == <<disk, row, point, pc, listed, known, batch, dups, hand, quiet, owed>>

NoRows  == [d \in Ids |-> None]
NoBatch == [d \in Ids |-> None]
Pending == {d \in Ids : batch[d] # None}
Goto(l) == pc' = l

Init ==
    /\ disk = [i \in Files |-> None]
    /\ row = NoRows
    /\ point = [d \in Ids |-> None]
    /\ pc = "idle"
    /\ listed = {}
    /\ known = NoRows
    /\ batch = NoBatch
    /\ dups = {}
    /\ hand = None
    /\ quiet = FALSE
    /\ owed = {}

-----------------------------------------------------------------------------
\* The downloader, or someone with a file manager.
Change(i) ==
    /\ \E v \in Beside[i] \ {disk[i]} : disk' = [disk EXCEPT ![i] = v]
    /\ quiet' = FALSE
    /\ UNCHANGED <<row, point, pc, listed, known, batch, dups, hand, owed>>

-----------------------------------------------------------------------------
(* scan_and_sync                                                           *)

List ==
    /\ pc = "idle"
    /\ listed' = {i \in Files : disk[i] # None}
    /\ Goto(IF listed' = {} THEN "process" ELSE "load")
    /\ quiet' = TRUE
    /\ UNCHANGED <<disk, row, point, known, batch, dups, hand, owed>>

LoadChecksums ==
    /\ pc = "load"
    /\ known' = row
    /\ Goto("scan")
    /\ UNCHANGED <<disk, row, point, listed, batch, dups, hand, quiet, owed>>

\* _resolve_status_and_path and _build_doc_id
Failed(v) == v.content \in Errs
Found(v)  == IF Failed(v) THEN "download_error" ELSE "downloaded"
IdOf(i, v) == IF Failed(v) THEN Url[i] ELSE i

\* _resolve_effective_status
FoundStatus(old, found) == found   \* mutant: what is on disk decides
NewStatus(old, found) ==   \* mutant: the kind of change for the status
    IF found = "downloaded" /\ old # None THEN old.st ELSE "new"
EffectiveStatus(old, found) ==
    IF found = "downloaded" /\ old # None /\ old.st # "download_error"
    THEN old.st ELSE found

\* _should_upsert_and_update_stats: a checksum that is not recorded never differs.
Differs(old, new) == old # Unread /\ old # new
StatusChanged(old, found) ==
    IF found = "downloaded" THEN old.st \notin Progress ELSE old.st # found
IgnoresFile(old, found, meta, sum) ==   \* mutant: a new file is not noticed
    old = None \/ StatusChanged(old, found) \/ Differs(old.meta, meta)
ShouldUpsert(old, found, meta, sum) ==
    \/ old = None
    \/ StatusChanged(old, found)
    \/ Differs(old.meta, meta)
    \/ Differs(old.sum, sum)

\* _process_metadata_file; _upsert_doc_payload replaces the row.
NextFile == CHOOSE i \in listed : \A j \in listed : i <= j
Scan ==
    LET i == NextFile
        v == disk[i]
        d == IdOf(i, v)
    IN  /\ pc = "scan" /\ listed # {}
        /\ Cardinality(Pending) < BatchSize
        /\ listed' = listed \ {i}
        /\ \E sum \in {v.content} \union (IF i \in Flaky THEN {Unread} ELSE {}) :
              IF v.content # Absent /\ ShouldUpsert(known[d], Found(v), v.meta, sum)
              THEN /\ row' = [row EXCEPT ![d] =
                                [st |-> EffectiveStatus(known[d], Found(v)),
                                 meta |-> v.meta, sum |-> sum, summary |-> FALSE]]
                   /\ batch' = [batch EXCEPT ![d] = v.meta]
              ELSE UNCHANGED <<row, batch>>
        /\ UNCHANGED <<disk, point, pc, known, dups, hand, quiet, owed>>

\* The file cannot be opened or is not JSON: counted as an error.
SkipFile ==
    /\ pc = "scan" /\ listed # {}
    /\ Cardinality(Pending) < BatchSize
    /\ listed' = listed \ {NextFile}
    /\ quiet' = FALSE
    /\ UNCHANGED <<disk, row, point, pc, known, batch, dups, hand, owed>>

\* _flush_batch: all points, or one by one if that failed, each of which may
\* fail again.  The points are replaced, whatever they held.
FlushDue == Cardinality(Pending) = BatchSize \/ (listed = {} /\ Pending # {})
Flush ==
    /\ pc = "scan" /\ FlushDue
    /\ \E S \in SUBSET Pending :
          /\ point' = [d \in Ids |->
                         IF d \in S THEN [meta |-> batch[d], vector |-> FALSE, dup |-> FALSE]
                         ELSE point[d]]
          /\ owed' = (owed \ S) \union (Pending \ S)
    /\ batch' = NoBatch
    /\ UNCHANGED <<disk, row, pc, listed, known, dups, hand, quiet>>

\* _collect_checksum_groups: the documents with the same file that wait for
\* processing; all but the first are duplicates.
Twins(i, j) ==
    /\ row[i] # None /\ row[j] # None
    /\ row[i].st = "downloaded" /\ row[j].st = "downloaded"
    /\ row[i].sum = row[j].sum /\ row[i].sum # Unread
DropsRest ==   \* mutant: the last batch is never written
    /\ pc = "scan" /\ listed = {}
    /\ dups' = {}
    /\ batch' = NoBatch
    /\ known' = NoRows
    /\ Goto("mark")
    /\ UNCHANGED <<disk, row, point, listed, hand, quiet, owed>>
GroupsAsLoaded ==   \* mutant: groups the rows as they were before the scan
    /\ pc = "scan" /\ listed = {} /\ Pending = {}
    /\ dups' = {j \in Files : \E i \in Files :
                  /\ i < j /\ Twins(i, j)
                  /\ known[i] # None /\ known[j] # None /\ known[i].sum = known[j].sum}
    /\ known' = NoRows
    /\ Goto("mark")
    /\ UNCHANGED <<disk, row, point, listed, batch, hand, quiet, owed>>
CollectGroups ==
    /\ pc = "scan" /\ listed = {} /\ Pending = {}
    /\ dups' = {j \in Files : \E i \in Files : i < j /\ Twins(i, j)}
    /\ known' = NoRows
    /\ Goto("mark")
    /\ UNCHANGED <<disk, row, point, listed, batch, hand, quiet, owed>>

\* _mark_duplicate_group: nothing happens to a point that does not exist.
MarkDuplicate(d) ==
    /\ pc = "mark" /\ d \in dups
    /\ dups' = dups \ {d}
    /\ point' = [point EXCEPT ![d] = IF @ = None THEN @ ELSE [@ EXCEPT !.dup = TRUE]]
    /\ UNCHANGED <<disk, row, pc, listed, known, batch, hand, quiet, owed>>

EndScan ==
    /\ pc = "mark" /\ dups = {}
    /\ Goto("process")
    /\ UNCHANGED <<disk, row, point, listed, known, batch, dups, hand, quiet, owed>>

-----------------------------------------------------------------------------
(* run_processing, as far as the scan can tell: DocPipeline has the rest.  *)

Begin(d) ==
    /\ pc = "process" /\ hand = None
    /\ row[d] # None /\ row[d].st = "downloaded"
    /\ row' = [row EXCEPT ![d].st = "indexing"]
    /\ hand' = d
    /\ UNCHANGED <<disk, point, pc, listed, known, batch, dups, quiet, owed>>

\* The point is written anew from the document as the stores have it.
Index ==
    /\ pc = "process" /\ hand # None
    /\ row' = [row EXCEPT ![hand].st = "indexed", ![hand].summary = TRUE]
    /\ point' = [point EXCEPT ![hand] =
                   [meta |-> row[hand].meta, vector |-> TRUE, dup |-> @ # None /\ @.dup]]
    /\ hand' = None
    /\ UNCHANGED <<disk, pc, listed, known, batch, dups, quiet, owed>>

Fail ==
    /\ pc = "process" /\ hand # None
    /\ row' = [row EXCEPT ![hand].st = "index_failed"]
    /\ hand' = None
    /\ UNCHANGED <<disk, point, pc, listed, known, batch, dups, quiet, owed>>

Stop ==
    /\ listed' = {}
    /\ known' = NoRows
    /\ batch' = NoBatch
    /\ dups' = {}
    /\ hand' = None
    /\ quiet' = FALSE
    /\ Goto("idle")

EndRun ==
    /\ pc = "process" /\ hand = None
    /\ Stop
    /\ UNCHANGED <<disk, row, point, owed>>

\* The process dies, or an exception of a driver leaves the scan.
Crash ==
    /\ pc # "idle"
    /\ owed' = owed \union Pending
    /\ Stop
    /\ UNCHANGED <<disk, row, point>>

Next ==
    \/ \E i \in Files : Change(i)
    \/ List \/ LoadChecksums \/ Scan \/ SkipFile \/ Flush \/ CollectGroups
    \/ \E d \in Ids : MarkDuplicate(d) \/ Begin(d)
    \/ EndScan \/ Index \/ Fail \/ EndRun \/ Crash

Spec == Init /\ [][Next]_vars

-----------------------------------------------------------------------------
TypeOK ==
    /\ disk \in [Files -> Disk \union {None}]
    /\ row \in [Ids -> Row \union {None}]
    /\ point \in [Ids -> Point \union {None}]
    /\ pc \in {"idle", "load", "scan", "mark", "process"}
    /\ listed \subseteq Files
    /\ known \in [Ids -> Row \union {None}]
    /\ batch \in [Ids -> Metas \union {None}]
    /\ dups \subseteq Ids
    /\ hand \in Ids \union {None}
    /\ quiet \in BOOLEAN
    /\ owed \subseteq Ids

\* After a scan during which the disk did not change, the rows say what is on
\* disk, whatever died before: except for a file that could not be read.
RowsFollowDisk ==
    pc = "process" /\ quiet => \A i \in Files :
        disk[i] # None /\ disk[i].content \in Sums =>
            /\ row[i] # None
            /\ row[i].meta = disk[i].meta
            /\ row[i].sum \in {disk[i].content, Unread}

\* Once the scan is over a point says what its row says, unless Qdrant refused
\* it or the process died before it was written.
PointsFollowRows ==
    pc \in {"mark", "process"} => \A d \in Ids \ owed :
        row[d] # None => point[d] # None /\ point[d].meta = row[d].meta

\* A rescan never takes a document back to an earlier stage, and while its files
\* are what its row says it leaves an indexed document's row and point alone:
\* its summary, its embedding and its tags are safe (unless a read fails).
Unchanged(i) ==
    /\ disk[i] # None /\ batch[i] = None
    /\ disk[i].meta = row[i].meta /\ disk[i].content = row[i].sum
IndexedIsSafe ==
    [][\A i \in Files : row[i] # None /\ row[i].st = "indexed" =>
          /\ row'[i].st = "indexed"
          /\ Unchanged(i) /\ row'[i].sum # Unread => row'[i] = row[i] /\ point'[i] = point[i]]_vars

\* After the scan no two waiting documents with the same file are both shown.
OneShown ==
    pc = "process" => \A i, j \in Files :
        i < j /\ Twins(i, j) /\ point[j] # None => point[j].dup

\* "For each group with multiple documents, keeps the first (by filepath sort
\* order) as the original": a group is never marked as a whole unless its file
\* is shown by a document that no longer waits.
SameFile(i, j) == row[i] # None /\ row[j] # None /\ row[i].sum = row[j].sum
GroupHasOriginal ==
    pc = "mark" /\ dups = {} => \A j, k \in Files :
        j # k /\ Twins(j, k) =>
            \E i \in Files : SameFile(i, j) /\ (point[i] = None \/ ~point[i].dup)
=============================================================================
