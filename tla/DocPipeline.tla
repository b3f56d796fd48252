----------------------------- MODULE DocPipeline -----------------------------
(***************************************************************************)
(* The document pipeline: orchestrator runs (pipeline/orchestrator), the   *)
(* processes of their worker pools, and the document record and chunk      *)
(* stores they share.  A document is driven through parse, summarize, tag  *)
(* and index by one worker; its progress is the sys_status column, which   *)
(* the worker, the orchestrator (on a timeout or an error), the reset      *)
(* script and the reprocess task all write without a lock.                 *)
(***************************************************************************)
EXTENDS Naturals, Sequences, FiniteSets

CONSTANTS
    Docs,        \* document ids
    Untitled,    \* the documents whose metadata has no map_title
    PartsOf,     \* [Docs -> sets of batch numbers] the valid chunks of a document
    Orchs,       \* orchestrator processes
    Sequential,  \* those started with --workers 1: no pool, no timeout
    Workers,     \* worker processes
    PoolOf,      \* [Workers -> Orchs]
    Plans,       \* the command lines in use (skip flags and config switches)
    Attended,    \* documents an administrator may reprocess or reset
    NoPart       \* model value: no batch in hand

Ready     == {"downloaded", "parsed", "summarized", "tagged"}
Busy      == {"parsing", "summarizing", "tagging", "indexing"}
Resettable == {"parse_failed", "summarize_failed", "index_failed", "stopped"}
Status    == Ready \union Busy \union Resettable
             \union {"indexed", "download_error", "queued", "error"}

Parts    == UNION {PartsOf[d] : d \in Docs}
Slots    == 1 .. Cardinality(Docs)
Verdicts == {"none", "ok", "fail", "empty", "error", "raised"}
Copy     == [st : Status, out : BOOLEAN]
PlanSet  == [parse : BOOLEAN, summarize : BOOLEAN, tag : BOOLEAN,
             index : BOOLEAN, ocr : BOOLEAN, sumOn : BOOLEAN, tagOn : BOOLEAN]
FullPlan == [parse |-> TRUE, summarize |-> TRUE, tag |-> TRUE, index |-> TRUE,
             ocr |-> FALSE, sumOn |-> TRUE, tagOn |-> TRUE]

ASSUME DocsAssumption ==
    /\ IsFiniteSet(Docs)
    /\ Untitled \subseteq Docs
    /\ Attended \subseteq Docs
    /\ DOMAIN PartsOf = Docs
ASSUME PoolAssumption ==
    /\ Sequential \subseteq Orchs
    /\ PoolOf \in [Workers -> Orchs]
    /\ \A v, w \in Workers :
          PoolOf[v] = PoolOf[w] /\ PoolOf[v] \in Sequential => v = w
ASSUME PlanAssumption == Plans \subseteq PlanSet
ASSUME NoPartAssumption == NoPart \notin Parts

VARIABLES
    status,   \* [Docs -> Status]  the sys_status column
    out,      \* [Docs -> BOOLEAN] sys_parsed_folder is set
    rows,     \* [Docs -> SUBSET Parts] chunk rows in Postgres
    points,   \* [Docs -> SUBSET Parts] chunk points in Qdrant
    phase,    \* [Orchs -> ...] the state of its current or last run
    plan,     \* [Orchs -> PlanSet] that run's command line
    batch,    \* [Orchs -> Seq(Docs)] documents submitted, in pool order
    snap,     \* [Orchs -> [Docs -> Copy]] the documents as they were collected
    taken,    \* [Orchs -> Nat] how many tasks the pool has handed out
    got,      \* [Orchs -> Nat] how many results the orchestrator has settled
    verdict,  \* [Orchs -> [Slots -> Verdicts]] what each task returned
    stats,    \* [Orchs -> [processed, success, failed]]
    pc,       \* [Workers -> ...] where process_document_wrapper is
    at,       \* [Workers -> Nat] position in the batch, 0 when idle
    seen,     \* [Workers -> Copy] the worker's local copy of the document
    todo,     \* [Workers -> SUBSET Parts] batches still to store
    cur,      \* [Workers -> Parts or NoPart] batch whose rows are written
    tally,    \* [Workers -> Verdicts] success so far, as "stages" records it
    listed,   \* documents the reset script fetched and has yet to reset
    task,     \* [Docs -> how far its reprocess request is, or whose run serves it]
    pruned    \* documents whose chunks the route deleted since they were last indexed

store  == <<status, out, rows, points>>
run    == <<phase, plan, batch, snap, taken, got, verdict, stats>>
local  == <<pc, at, seen, todo, cur, tally>>
admin  == <<listed, task, pruned>>
vars   == <<store, run, local, admin>>

NoCopy == [st |-> "downloaded", out |-> FALSE]
BeforeIndex == {"start", "parsing", "summarize", "summarizing", "tag",
                "tagBegin", "tagging", "index"}
InIndex == {"indexBegin", "chunking", "wipePoints", "embed", "storePoints", "merge"}
Requests == {"none", "rowsGone", "chunksGone", "queued"}
ASSUME RequestsAssumption == Orchs \cap Requests = {}
Locals == {"idle", "backup", "finish"} \union BeforeIndex \union InIndex

Active(w) == pc[w] # "idle"
DocOf(w)  == batch[PoolOf[w]][at[w]]
PlanOf(w) == plan[PoolOf[w]]

(***************************************************************************)
(* init_worker: which processors a worker has.                             *)
(***************************************************************************)
HasSummarizer(p) == p.summarize /\ p.sumOn
HasTagger(p)     == p.tag /\ p.tagOn

(***************************************************************************)
(* collect_docs_by_stage: the statuses a run with command line p picks up. *)
(***************************************************************************)
Collectable(p) ==
    (IF p.index THEN {"tagged"} ELSE {})
    \union (IF p.tag \/ p.index THEN {"summarized"} ELSE {})
    \union (IF p.summarize \/ p.index THEN {"parsed"} ELSE {})
    \union (IF p.parse THEN {"downloaded"} ELSE {})

\* _collect_ocr_fallback_docs puts these back to 'downloaded' and collects them.
OcrStatuses(p) ==
    IF p.ocr /\ p.parse THEN {"summarize_failed", "parse_failed"} ELSE {}

\* dedupe_docs_by_id: a batch holds no document twice.
KeepsDuplicates(s) == TRUE   \* mutant: no dedupe
Distinct(s) == \A i, j \in DOMAIN s : s[i] = s[j] => i = j
Batches == {s \in UNION {[1 .. n -> Docs] : n \in Slots} : Distinct(s)}

-----------------------------------------------------------------------------
Init ==
    /\ status \in [Docs -> {"downloaded", "download_error"}]
    /\ out    = [d \in Docs |-> FALSE]
    /\ rows   = [d \in Docs |-> {}]
    /\ points = [d \in Docs |-> {}]
    /\ phase  = [o \in Orchs |-> "idle"]
    /\ plan   = [o \in Orchs |-> FullPlan]
    /\ batch  = [o \in Orchs |-> <<>>]
    /\ snap   = [o \in Orchs |-> [d \in Docs |-> NoCopy]]
    /\ taken  = [o \in Orchs |-> 0]
    /\ got    = [o \in Orchs |-> 0]
    /\ verdict = [o \in Orchs |-> [i \in Slots |-> "none"]]
    /\ stats  = [o \in Orchs |-> [processed |-> 0, success |-> 0, failed |-> 0]]
    /\ pc     = [w \in Workers |-> "idle"]
    /\ at     = [w \in Workers |-> 0]
    /\ seen   = [w \in Workers |-> NoCopy]
    /\ todo   = [w \in Workers |-> {}]
    /\ cur    = [w \in Workers |-> NoPart]
    /\ tally  = [w \in Workers |-> "empty"]
    /\ listed = {}
    /\ task   = [d \in Docs |-> "none"]
    /\ pruned = {}

-----------------------------------------------------------------------------
(* Runs: run_processing collects documents and submits them to the pool.   *)

\* A process runs one orchestrator at a time, a task's until the task is over.
Free(o) == phase[o] # "running" /\ \A d \in Docs : task[d] # o

Submit(o, p, s, st) ==
    /\ phase' = [phase EXCEPT ![o] = "running"]
    /\ plan'  = [plan EXCEPT ![o] = p]
    /\ batch' = [batch EXCEPT ![o] = s]
    /\ snap'  = [snap EXCEPT ![o] =
                    [d \in Docs |-> IF \E i \in DOMAIN s : s[i] = d
                                    THEN [st |-> st[d], out |-> out[d]]
                                    ELSE NoCopy]]
    /\ taken' = [taken EXCEPT ![o] = 0]
    /\ got'   = [got EXCEPT ![o] = 0]
    /\ verdict' = [verdict EXCEPT ![o] = [i \in Slots |-> "none"]]
    /\ stats' = [stats EXCEPT ![o] = [processed |-> 0, success |-> 0, failed |-> 0]]
    /\ status' = st
    /\ UNCHANGED <<out, rows, points, local>>

\* Collection by stage, or with --report of any document at all.  Filters,
\* --num-records and --partition may keep any part of what was collected, in
\* any order; the OCR fallback has by then reset every failed document.
StartRun(o, p, s) ==
    LET reset == [d \in Docs |-> IF status[d] \in OcrStatuses(p)
                                 THEN "downloaded" ELSE status[d]]
    IN  /\ Free(o)
        /\ p.parse \/ \A i \in DOMAIN s : status[s[i]] \in Collectable(p)
        /\ Submit(o, p, s, reset)
        /\ UNCHANGED task

\* --file-id collects one document whatever its status.
StartTargeted(o, p, d) ==
    /\ Free(o)
    /\ Submit(o, p, <<d>>, status)
    /\ UNCHANGED task

-----------------------------------------------------------------------------
(* Administrators: reprocess_document, and the reset script.               *)

\* The route deletes the document's chunks, from Postgres and then from Qdrant,
\* while the document still reads as it did; a document has one request here.
DeleteRows(d) ==
    /\ d \in Attended
    /\ task[d] = "none"
    /\ task' = [task EXCEPT ![d] = "rowsGone"]
    /\ rows' = [rows EXCEPT ![d] = {}]
    /\ pruned' = pruned \union {d}
    /\ UNCHANGED <<status, out, points, run, local, listed>>

DeletePoints(d) ==
    /\ task[d] = "rowsGone"
    /\ task' = [task EXCEPT ![d] = "chunksGone"]
    /\ points' = [points EXCEPT ![d] = {}]
    /\ pruned' = pruned \union {d}
    /\ UNCHANGED <<status, out, rows, run, local, listed>>

\* Only then it marks the document and queues the task.
RequestReprocess(d) ==
    /\ task[d] = "chunksGone"
    /\ task' = [task EXCEPT ![d] = "queued"]
    /\ status' = [status EXCEPT ![d] = "queued"]
    /\ UNCHANGED <<out, rows, points, run, local, listed, pruned>>

\* A store refuses, or the server stops: what was done so far stays.
RequestFails(d) ==
    /\ task[d] \in {"rowsGone", "chunksGone"}
    /\ task' = [task EXCEPT ![d] = "none"]
    /\ UNCHANGED <<store, run, local, listed, pruned>>

\* The task puts the document to 'downloaded', whatever it reads by now, just
\* before it runs an orchestrator for it.
StartReprocess(o, d) ==
    /\ task[d] = "queued"
    /\ Free(o)
    /\ task' = [task EXCEPT ![d] = o]
    /\ Submit(o, FullPlan, <<d>>, [status EXCEPT ![d] = "downloaded"])

\* The orchestrator could not be built, or its run raised.
ReprocessFails(d) ==
    /\ task[d] = "queued" \/ \E o \in Orchs : task[d] = o /\ phase[o] = "aborted"
    /\ task' = [task EXCEPT ![d] = "none"]
    /\ status' = [status EXCEPT ![d] = "error"]
    /\ UNCHANGED <<out, rows, points, run, local, listed, pruned>>

\* The run returned, or the task was killed at its time limit.
ReprocessOver(d) ==
    /\ \E o \in Orchs : task[d] = o /\ phase[o] # "running"
    /\ task' = [task EXCEPT ![d] = "none"]
    /\ UNCHANGED <<store, run, local, listed, pruned>>

\* scripts/pipeline/reset_failed_statuses.py fetches the documents that have
\* failed in one way, then resets them one by one, whatever they have become.
ListFailed(s) ==
    /\ listed' = {d \in Attended : status[d] = s}
    /\ UNCHANGED <<store, run, local, task, pruned>>

ResetFailed(d) ==
    /\ d \in listed
    /\ listed' = listed \ {d}
    /\ status' = [status EXCEPT ![d] = "downloaded"]
    /\ UNCHANGED <<out, rows, points, run, local, task, pruned>>

-----------------------------------------------------------------------------
(* Workers: process_document_wrapper, one step per access to shared state. *)

WriteStatus(d, s) == status' = [status EXCEPT ![d] = s]

\* The worker goes to l with local copy c and stage tally t.
Goto(w, l, c, t) ==
    /\ pc' = [pc EXCEPT ![w] = l]
    /\ seen' = [seen EXCEPT ![w] = c]
    /\ tally' = [tally EXCEPT ![w] = t]
    /\ UNCHANGED <<at, todo, cur>>

Step(w, l) == Goto(w, l, seen[w], tally[w])

\* Everything a process knows is gone when its task ends or it dies.
Forget(W) ==
    /\ pc'    = [w \in Workers |-> IF w \in W THEN "idle" ELSE pc[w]]
    /\ at'    = [w \in Workers |-> IF w \in W THEN 0 ELSE at[w]]
    /\ seen'  = [w \in Workers |-> IF w \in W THEN NoCopy ELSE seen[w]]
    /\ todo'  = [w \in Workers |-> IF w \in W THEN {} ELSE todo[w]]
    /\ cur'   = [w \in Workers |-> IF w \in W THEN NoPart ELSE cur[w]]
    /\ tally' = [w \in Workers |-> IF w \in W THEN "empty" ELSE tally[w]]

Return(w, v) ==
    /\ verdict' = [verdict EXCEPT ![PoolOf[w]][at[w]] = v]
    /\ Forget({w})
    /\ UNCHANGED <<phase, plan, batch, snap, taken, got, stats>>

\* _reload_document: the record as the database has it now.
Reload(d) == [st |-> status[d], out |-> out[d]]

Take(w) ==
    LET o == PoolOf[w] IN
    /\ phase[o] = "running"
    /\ pc[w] = "idle"
    /\ taken[o] < Len(batch[o])
    /\ o \in Sequential => taken[o] = got[o]
    /\ taken' = [taken EXCEPT ![o] = @ + 1]
    /\ pc'   = [pc EXCEPT ![w] = "start"]
    /\ at'   = [at EXCEPT ![w] = taken[o] + 1]
    /\ seen' = [seen EXCEPT ![w] = snap[o][batch[o][taken[o] + 1]]]
    /\ UNCHANGED <<todo, cur, tally, store, phase, plan, batch, snap, got, verdict, stats>>

\* _wait_for_available_memory gave up: nothing is written.
MemoryRefused(w) ==
    /\ pc[w] = "start"
    /\ Return(w, "error")
    /\ UNCHANGED store

RejectUntitled(w) ==
    /\ pc[w] = "start"
    /\ DocOf(w) \in Untitled
    /\ WriteStatus(DocOf(w), "parse_failed")
    /\ Goto(w, "finish", seen[w], "error")
    /\ UNCHANGED <<out, rows, points, run>>

WillParse(w) == PlanOf(w).parse /\ seen[w].st = "downloaded"

BeginParse(w) ==
    /\ pc[w] = "start"
    /\ DocOf(w) \notin Untitled
    /\ WillParse(w)
    /\ WriteStatus(DocOf(w), "parsing")
    /\ Step(w, "parsing")
    /\ UNCHANGED <<out, rows, points, run>>

SkipParse(w) ==
    /\ pc[w] = "start"
    /\ DocOf(w) \notin Untitled
    /\ ~WillParse(w)
    /\ Step(w, "summarize")
    /\ UNCHANGED <<store, run>>

ParseOk(w) ==
    /\ pc[w] = "parsing"
    /\ WriteStatus(DocOf(w), "parsed")
    /\ out' = [out EXCEPT ![DocOf(w)] = TRUE]
    /\ Goto(w, "summarize", [st |-> "parsed", out |-> TRUE], "ok")
    /\ UNCHANGED <<rows, points, run>>

ParseFail(w) ==
    /\ pc[w] = "parsing"
    /\ \E s \in {"parse_failed", "download_error"} : WriteStatus(DocOf(w), s)
    /\ Goto(w, "finish", seen[w], "fail")
    /\ UNCHANGED <<out, rows, points, run>>

WillSummarize(w) == HasSummarizer(PlanOf(w)) /\ seen[w].st \in {"parsed", "downloaded"}

\* The reload and the write are one step: no stage reads the status reloaded.
BeginSummarize(w) ==
    /\ pc[w] = "summarize"
    /\ WillSummarize(w)
    /\ WriteStatus(DocOf(w), "summarizing")
    /\ Goto(w, "summarizing", Reload(DocOf(w)), tally[w])
    /\ UNCHANGED <<out, rows, points, run>>

SkipSummarize(w) ==
    /\ pc[w] = "summarize"
    /\ ~WillSummarize(w)
    /\ Step(w, "tag")
    /\ UNCHANGED <<store, run>>

SummarizeOk(w) ==
    /\ pc[w] = "summarizing"
    /\ seen[w].out
    /\ WriteStatus(DocOf(w), "summarized")
    /\ Goto(w, "tag", [seen[w] EXCEPT !.st = "summarized"], "ok")
    /\ UNCHANGED <<out, rows, points, run>>

SummarizeFail(w) ==
    /\ pc[w] = "summarizing"
    /\ WriteStatus(DocOf(w), "summarize_failed")
    /\ Goto(w, "finish", seen[w], "fail")
    /\ UNCHANGED <<out, rows, points, run>>

WillTag(w) == HasTagger(PlanOf(w)) /\ seen[w].st = "summarized"

TagReload(w) ==
    /\ pc[w] = "tag"
    /\ WillTag(w)
    /\ Goto(w, "tagBegin", Reload(DocOf(w)), tally[w])
    /\ UNCHANGED <<store, run>>

SkipTag(w) ==
    /\ pc[w] = "tag"
    /\ ~WillTag(w)
    /\ Step(w, "index")
    /\ UNCHANGED <<store, run>>

BeginTag(w) ==
    /\ pc[w] = "tagBegin"
    /\ WriteStatus(DocOf(w), "tagging")
    /\ Step(w, "tagging")
    /\ UNCHANGED <<out, rows, points, run>>

TagOk(w) ==
    /\ pc[w] = "tagging"
    /\ WriteStatus(DocOf(w), "tagged")
    /\ Goto(w, "index", [seen[w] EXCEPT !.st = "tagged"], "ok")
    /\ UNCHANGED <<out, rows, points, run>>

\* A failed classification is only noted in the result: the column keeps
\* 'tagging' and the worker goes on with the status it reloaded.
TagFail(w) ==
    /\ pc[w] = "tagging"
    /\ Goto(w, "index", seen[w], "fail")
    /\ UNCHANGED <<store, run>>

ReindexStatuses == {"tagged", "summarized", "parsed", "downloaded", "indexed"}   \* mutant
IndexStatuses == {"tagged", "summarized", "parsed", "downloaded"}
WillIndex(w) == PlanOf(w).index /\ seen[w].st \in IndexStatuses

IndexReload(w) ==
    /\ pc[w] = "index"
    /\ WillIndex(w)
    /\ Goto(w, "indexBegin", Reload(DocOf(w)), tally[w])
    /\ UNCHANGED <<store, run>>

SkipIndex(w) ==
    /\ pc[w] = "index"
    /\ ~WillIndex(w)
    /\ Step(w, "finish")
    /\ UNCHANGED <<store, run>>

BeginIndex(w) ==
    /\ pc[w] = "indexBegin"
    /\ WriteStatus(DocOf(w), "indexing")
    /\ Step(w, "chunking")
    /\ UNCHANGED <<out, rows, points, run>>

\* IndexProcessor.process_document: the old chunks go from Postgres, then
\* from Qdrant; batches are embedded in any order and each is stored rows
\* first, points second.
WipeRows(w) ==
    /\ pc[w] = "chunking"
    /\ seen[w].out
    /\ rows' = [rows EXCEPT ![DocOf(w)] = {}]
    /\ pruned' = pruned \ {DocOf(w)}
    /\ Step(w, "wipePoints")
    /\ UNCHANGED <<status, out, points, run>>

WipeForgotten(w) ==   \* mutant: the old points are not deleted
    /\ pc[w] = "wipePoints"
    /\ pc' = [pc EXCEPT ![w] = "embed"]
    /\ todo' = [todo EXCEPT ![w] = PartsOf[DocOf(w)]]
    /\ UNCHANGED <<store, run, at, seen, cur, tally>>

WipePoints(w) ==
    /\ pc[w] = "wipePoints"
    /\ points' = [points EXCEPT ![DocOf(w)] = {}]
    /\ pc' = [pc EXCEPT ![w] = "embed"]
    /\ todo' = [todo EXCEPT ![w] = PartsOf[DocOf(w)]]
    /\ UNCHANGED <<status, out, rows, run, at, seen, cur, tally>>

StoreRows(w, b) ==
    /\ pc[w] = "embed"
    /\ b \in todo[w]
    /\ rows' = [rows EXCEPT ![DocOf(w)] = @ \union {b}]
    /\ pc' = [pc EXCEPT ![w] = "storePoints"]
    /\ cur' = [cur EXCEPT ![w] = b]
    /\ UNCHANGED <<status, out, points, run, at, seen, todo, tally>>

PointsLost(w) ==   \* mutant: an upsert that failed is taken for stored
    /\ pc[w] = "storePoints"
    /\ pc' = [pc EXCEPT ![w] = "embed"]
    /\ todo' = [todo EXCEPT ![w] = @ \ {cur[w]}]
    /\ cur' = [cur EXCEPT ![w] = NoPart]
    /\ UNCHANGED <<store, run, at, seen, tally>>

StorePoints(w) ==
    /\ pc[w] = "storePoints"
    /\ points' = [points EXCEPT ![DocOf(w)] = @ \union {cur[w]}]
    /\ pc' = [pc EXCEPT ![w] = "embed"]
    /\ todo' = [todo EXCEPT ![w] = @ \ {cur[w]}]
    /\ cur' = [cur EXCEPT ![w] = NoPart]
    /\ UNCHANGED <<status, out, rows, run, at, seen, tally>>

RewriteEarly(w) ==   \* mutant: does not wait for the last batch
    /\ pc[w] = "embed"
    /\ WriteStatus(DocOf(w), seen[w].st)
    /\ out' = [out EXCEPT ![DocOf(w)] = seen[w].out]
    /\ Step(w, "merge")
    /\ UNCHANGED <<rows, points, run>>

\* upsert_document(doc_for_upsert) writes back every sys_ field of the copy
\* the worker reloaded before it wrote 'indexing', its status included.
RewriteDoc(w) ==
    /\ pc[w] = "embed"
    /\ todo[w] = {}
    /\ WriteStatus(DocOf(w), seen[w].st)
    /\ out' = [out EXCEPT ![DocOf(w)] = seen[w].out]
    /\ Step(w, "merge")
    /\ UNCHANGED <<rows, points, run>>

\* The indexer merges 'indexed' into the record and saves its backup file ...
MarkIndexed(w) ==
    /\ pc[w] = "merge"
    /\ WriteStatus(DocOf(w), "indexed")
    /\ Step(w, "backup")
    /\ UNCHANGED <<out, rows, points, run>>

\* ... and the worker writes the same fields again.
ConfirmIndexed(w) ==
    /\ pc[w] = "backup"
    /\ WriteStatus(DocOf(w), "indexed")
    /\ Goto(w, "finish", seen[w], IF tally[w] = "fail" THEN "fail" ELSE "ok")
    /\ UNCHANGED <<out, rows, points, run>>

IndexFail(w) ==
    /\ pc[w] \in InIndex \ {"indexBegin"}
    /\ WriteStatus(DocOf(w), "index_failed")
    /\ pc' = [pc EXCEPT ![w] = "finish"]
    /\ todo' = [todo EXCEPT ![w] = {}]
    /\ cur' = [cur EXCEPT ![w] = NoPart]
    /\ tally' = [tally EXCEPT ![w] = "fail"]
    /\ UNCHANGED <<out, rows, points, run, at, seen>>

\* Chunk tags, the elapsed time, the log file: nothing the stages read.
Finish(w) ==
    /\ pc[w] = "finish"
    /\ Return(w, tally[w])
    /\ UNCHANGED store

\* An exception leaves the wrapper: a database error, a tagger that raises.
WorkerRaises(w) ==
    /\ Active(w)
    /\ Return(w, "raised")
    /\ UNCHANGED store

\* The kernel kills a pool process; the pool replaces it, its task is lost.
WorkerKilled(w) ==
    /\ Active(w)
    /\ PoolOf[w] \notin Sequential
    /\ Forget({w})
    /\ UNCHANGED <<store, run>>

-----------------------------------------------------------------------------
(* The orchestrator settles the results in submission order.               *)

Count(o, processed, success, failed) ==
    stats' = [stats EXCEPT ![o] = [processed |-> @.processed + processed,
                                   success |-> @.success + success,
                                   failed |-> @.failed + failed]]

Waiting(o, v) ==
    /\ phase[o] = "running"
    /\ got[o] < Len(batch[o])
    /\ verdict[o][got[o] + 1] = v

Settle(o) ==
    /\ got' = [got EXCEPT ![o] = @ + 1]
    /\ UNCHANGED <<out, rows, points, phase, plan, batch, snap, taken, verdict, local>>

\* mark_as_stopped
MarkStopped(o) == WriteStatus(batch[o][got[o] + 1], "stopped")

SettleOk(o) ==
    /\ Waiting(o, "ok")
    /\ Count(o, 1, 1, 0)
    /\ Settle(o)
    /\ UNCHANGED status

FailUncounted(o) ==   \* mutant
    /\ Waiting(o, "fail")
    /\ Count(o, 1, 0, 0)
    /\ Settle(o)
    /\ UNCHANGED status

SettleFail(o) ==
    /\ Waiting(o, "fail")
    /\ Count(o, 1, 0, 1)
    /\ Settle(o)
    /\ UNCHANGED status

SettleEmpty(o) ==
    /\ Waiting(o, "empty")
    /\ Count(o, 1, 0, 0)
    /\ Settle(o)
    /\ UNCHANGED status

SettleError(o) ==
    /\ Waiting(o, "error")
    /\ Count(o, 1, 0, 1)
    /\ MarkStopped(o)
    /\ Settle(o)

\* The database refused the mark; the loop's last handler counts the failure
\* once more and marks again.
SettleErrorAgain(o) ==
    /\ o \notin Sequential
    /\ Waiting(o, "error")
    /\ Count(o, 1, 0, 2)
    /\ MarkStopped(o)
    /\ Settle(o)

SettleRaised(o) ==
    /\ Waiting(o, "raised")
    /\ Count(o, IF o \in Sequential THEN 1 ELSE 0, 0, 1)
    /\ MarkStopped(o)
    /\ Settle(o)

TimeoutUncounted(o) ==   \* mutant: a late document is not a failure
    /\ o \notin Sequential
    /\ Waiting(o, "none")
    /\ Count(o, 0, 0, 0)
    /\ MarkStopped(o)
    /\ Settle(o)

WaitsForever(o) == FALSE   \* mutant: res.get without a timeout

\* res.get timed out: the task is queued, running, hung or lost.
SettleTimeout(o) ==
    /\ o \notin Sequential
    /\ Waiting(o, "none")
    /\ Count(o, 0, 0, 1)
    /\ MarkStopped(o)
    /\ Settle(o)

\* Leaving the pool's with-block terminates the workers that still run.
CloseRun(o, how) ==
    /\ phase[o] = "running"
    /\ phase' = [phase EXCEPT ![o] = how]
    /\ Forget({w \in Workers : PoolOf[w] = o})
    /\ UNCHANGED <<store, plan, batch, snap, taken, got, verdict, stats>>

EndRun(o) == got[o] = Len(batch[o]) /\ CloseRun(o, "finished")

\* The process dies, or an exception that no handler names leaves the loop.
AbortRun(o) == CloseRun(o, "aborted")

-----------------------------------------------------------------------------
WorkerStep(w) ==
    \/ UNCHANGED <<listed, task>> /\ WipeRows(w)
    \/ /\ UNCHANGED admin
       /\ \/ Take(w)
          \/ MemoryRefused(w) \/ RejectUntitled(w)
          \/ BeginParse(w) \/ SkipParse(w) \/ ParseOk(w) \/ ParseFail(w)
          \/ BeginSummarize(w) \/ SkipSummarize(w) \/ SummarizeOk(w) \/ SummarizeFail(w)
          \/ TagReload(w) \/ SkipTag(w) \/ BeginTag(w) \/ TagOk(w) \/ TagFail(w)
          \/ IndexReload(w) \/ SkipIndex(w) \/ BeginIndex(w)
          \/ WipePoints(w) \/ StorePoints(w)
          \/ \E b \in Parts : StoreRows(w, b)
          \/ RewriteDoc(w) \/ MarkIndexed(w) \/ ConfirmIndexed(w) \/ IndexFail(w) \/ Finish(w)

WorkerFault(w) ==
    /\ UNCHANGED admin
    /\ WorkerRaises(w) \/ WorkerKilled(w)

OrchStep(o) ==
    /\ UNCHANGED admin
    /\ \/ SettleOk(o) \/ SettleFail(o) \/ SettleEmpty(o)
       \/ SettleError(o) \/ SettleErrorAgain(o) \/ SettleRaised(o) \/ SettleTimeout(o)
       \/ EndRun(o)

\* Runs begin, and may die.
Control(o) ==
    /\ UNCHANGED <<listed, pruned>>
    /\ \/ \E p \in Plans, s \in Batches : StartRun(o, p, s)
       \/ \E p \in Plans, d \in Docs : StartTargeted(o, p, d)
       \/ \E d \in Docs : StartReprocess(o, d)
       \/ AbortRun(o) /\ UNCHANGED task

Admin ==
    \/ \E d \in Docs :
          \/ DeleteRows(d) \/ DeletePoints(d) \/ RequestReprocess(d) \/ RequestFails(d)
          \/ ReprocessFails(d) \/ ReprocessOver(d)
          \/ ResetFailed(d)
    \/ \E s \in Resettable : ListFailed(s)

Next ==
    \/ \E w \in Workers : WorkerStep(w) \/ WorkerFault(w)
    \/ \E o \in Orchs : Control(o) \/ OrchStep(o)
    \/ Admin

Spec == Init /\ [][Next]_vars

\* res.get always returns or times out and the loop goes on; nothing is
\* assumed of the workers, which may hang, nor of whoever starts runs.
LiveSpec == Spec /\ \A o \in Orchs : WF_vars(OrchStep(o))

-----------------------------------------------------------------------------
TypeOK ==
    /\ status \in [Docs -> Status]
    /\ out \in [Docs -> BOOLEAN]
    /\ rows \in [Docs -> SUBSET Parts]
    /\ points \in [Docs -> SUBSET Parts]
    /\ phase \in [Orchs -> {"idle", "running", "finished", "aborted"}]
    /\ plan \in [Orchs -> PlanSet]
    /\ batch \in [Orchs -> Seq(Docs)]
    /\ snap \in [Orchs -> [Docs -> Copy]]
    /\ taken \in [Orchs -> Nat]
    /\ got \in [Orchs -> Nat]
    /\ verdict \in [Orchs -> [Slots -> Verdicts]]
    /\ stats \in [Orchs -> [processed : Nat, success : Nat, failed : Nat]]
    /\ pc \in [Workers -> Locals]
    /\ at \in [Workers -> Nat]
    /\ seen \in [Workers -> Copy]
    /\ todo \in [Workers -> SUBSET Parts]
    /\ cur \in [Workers -> Parts \union {NoPart}]
    /\ tally \in [Workers -> {"empty", "ok", "fail", "error"}]
    /\ listed \subseteq Docs
    /\ task \in [Docs -> Requests \union Orchs]
    /\ pruned \subseteq Docs

\* dedupe_docs_by_id and the pool: two workers of one run never hold the same
\* document, so a document's stages run in one process at a time.
OneWorkerPerDoc ==
    \A v, w \in Workers :
        Active(v) /\ Active(w) /\ PoolOf[v] = PoolOf[w] /\ DocOf(v) = DocOf(w)
            => v = w

\* A document that reads 'indexed' has every one of its chunks in both stores,
\* whatever died, timed out or was reset on the way (indexer.process_document
\* deletes, rewrites and only then marks), until the reprocess route deletes
\* them under its eyes.  Holds for one orchestrator.
IndexedComplete ==
    \A d \in Docs \ pruned : status[d] = "indexed" =>
        rows[d] = PartsOf[d] /\ points[d] = PartsOf[d]

\* PipelineOrchestrator.run returns failed == 0.  When it does, no document it
\* collected by stage is left failed, stopped or half done; with every stage
\* enabled each one is indexed.  An administrator may have queued or reset it.
CleanRun ==
    \A o \in Orchs : phase[o] = "finished" /\ stats[o].failed = 0 =>
        \A i \in 1 .. Len(batch[o]) :
            LET d == batch[o][i] IN
            snap[o][d].st \in Collectable(plan[o]) =>
                status[d] \in {"indexed", "queued", "error"}
                    \union (IF [plan[o] EXCEPT !.ocr = FALSE] # FullPlan THEN Ready
                            ELSE IF d \in Attended THEN {"downloaded"} ELSE {})

\* The totals a run reports: no document it settled goes unreported (a failure
\* is counted unless its task had no stage to run), and no success is invented.
StatsBalance ==
    \A o \in Orchs :
        LET returned(v) == {i \in 1 .. got[o] : verdict[o][i] = v}
        IN  /\ got[o] <= stats[o].success + stats[o].failed
                         + Cardinality(returned("empty"))
            /\ stats[o].success <= Cardinality(returned("ok"))
            /\ stats[o].success <= stats[o].processed
            /\ stats[o].processed <= got[o]

\* An indexed document is only ever withdrawn by a failure report or by an
\* administrator (whose script may have listed it before a late worker indexed
\* it): no run takes it back to an earlier stage by itself.
IndexedIsKept ==
    [][\A d \in Docs : status[d] = "indexed" =>
          \/ status'[d] \in {"indexed", "stopped", "queued"}
          \/ status'[d] = "downloaded" /\ (d \in listed \/ task[d] = "queued")
          \/ status'[d] = "error" /\ task[d] # "none"]_vars

\* A pool run comes to an end even if every worker hangs: res.get times out.
RunsEnd ==
    \A o \in Orchs \ Sequential : phase[o] = "running" ~> phase[o] # "running"

(***************************************************************************)
(* What search may rely on: the chunks of the documents marked 'indexed',  *)
(* as long as the reprocess route has not begun to delete them.            *)
(***************************************************************************)
Marked(d) == status[d] = "indexed" /\ d \notin pruned
Shown(d, chunks) == IF Marked(d) THEN chunks[d] ELSE {}
Published == INSTANCE PublishedIndex WITH
    published <- [d \in Docs |-> Marked(d)],
    text      <- [d \in Docs |-> Shown(d, rows)],
    vectors   <- [d \in Docs |-> Shown(d, points)]

\* However the steps of workers, orchestrator and administrators interleave, a
\* document is published whole and withdrawn whole, one document per step.
PublishesWhole == Published!Spec

-----------------------------------------------------------------------------
(***************************************************************************)
(* The inductive invariant behind IndexedComplete, for one orchestrator.   *)
(***************************************************************************)
\* The pool hands out a prefix of a batch that holds no document twice.
Handed == \A o \in Orchs : taken[o] <= Len(batch[o]) /\ Distinct(batch[o])

\* A busy worker works for a running orchestrator, on a task handed to it alone.
HoldsTask ==
    \A w \in Workers : Active(w) =>
        phase[PoolOf[w]] = "running" /\ at[w] \in 1 .. taken[PoolOf[w]]
OwnTask ==
    \A v, w \in Workers :
        Active(v) /\ Active(w) /\ PoolOf[v] = PoolOf[w] /\ at[v] = at[w] => v = w

\* No copy is older than 'indexed': a queued task or a worker that has not
\* started to index holds a document as indexed if the database does ...
QueueFresh ==
    \A o \in Orchs : phase[o] = "running" =>
        \A i \in taken[o] + 1 .. Len(batch[o]) :
            status[batch[o][i]] = "indexed" => snap[o][batch[o][i]].st = "indexed"
CopyFresh ==
    \A w \in Workers : pc[w] \in BeforeIndex =>
        (status[DocOf(w)] = "indexed" => seen[w].st = "indexed")
\* ... and while a worker indexes, the document is not marked.
Unmarked ==
    \A w \in Workers : pc[w] \in InIndex =>
        status[DocOf(w)] # "indexed" /\ seen[w].st # "indexed"

\* What the stores hold at each point of the indexer.
Progress ==
    \A w \in Workers : pc[w] \in InIndex \union {"backup"} /\ DocOf(w) \notin pruned =>
        LET d == DocOf(w) IN
        /\ pc[w] = "wipePoints" => rows[d] = {}
        /\ pc[w] = "embed" =>
              /\ todo[w] \subseteq PartsOf[d]
              /\ rows[d] = PartsOf[d] \ todo[w]
              /\ points[d] = PartsOf[d] \ todo[w]
        /\ pc[w] = "storePoints" =>
              /\ todo[w] \subseteq PartsOf[d]
              /\ rows[d] = (PartsOf[d] \ todo[w]) \union {cur[w]}
              /\ points[d] = PartsOf[d] \ todo[w]
        /\ pc[w] \in {"merge", "backup"} => rows[d] = PartsOf[d] /\ points[d] = PartsOf[d]

\* A batch whose rows are written is one of those still to store.
InHand == \A w \in Workers : pc[w] = "storePoints" => cur[w] \in todo[w]

Tasks == Handed /\ HoldsTask /\ OwnTask /\ InHand

IndInv == TypeOK /\ Tasks /\ QueueFresh /\ CopyFresh /\ Unmarked /\ Progress
          /\ IndexedComplete

=============================================================================
