---------------------------- MODULE ContentsTags ----------------------------
(***************************************************************************)
(* The contents of one document and the section types of its chunks.  A    *)
(* worker classifies the contents, or restores what was saved of them,     *)
(* keeps the outcome in its cache, indexes the document, and tags its      *)
(* chunks from the cache; a user edits the saved contents in between.      *)
(* Saved contents are their text with a label on each line: the parse they *)
(* were written for, and the labels.  A chunk stands for its page and the  *)
(* headings above it, the outermost first.                                 *)
(***************************************************************************)
EXTENDS SectionRules

CONSTANTS
    Tocs,           \* what the parser may find in the file
    Entries,        \* [Tocs -> Seq([title, level, page, front])]
    PageCount,      \* [Tocs -> number of pages of the document]
    Passages,       \* the chunks: [page, headings], page 0 for none
    Guesses,        \* what the model answers
    Categories,        \* what the editor offers: SUBSET (Labels \union {"references"})
    MaxParses, MaxEdits

ASSUME ContentsAssumption ==
    /\ \A t \in Tocs : Entries[t] \in Seq([title : Titles, level : Nat, page : Nat, front : BOOLEAN])
    /\ PageCount \in [Tocs -> Nat]
    /\ Passages \subseteq [page : Nat, headings : Seq(Titles)]
    /\ Guesses \subseteq Labels
    /\ MaxParses \in Nat /\ MaxEdits \in Nat

VARIABLES
    toc,        \* sys_toc
    classified, \* sys_toc_classified: [of, labels], or Nothing
    stage,      \* sys_status
    worker,     \* where it is, and the document as it last read it
    cache,      \* _document_cache, or Nothing
    sections,   \* [Passages -> tag_section_type]
    shown,      \* what the editor of the contents shows
    parses, edits

contentsVars == <<toc, classified, stage, worker, cache, sections, shown, parses, edits>>

Nothing == <<>>
Untagged == [p \in Passages |-> Unlabelled]
AtRest == [at |-> "idle", doc |-> Nothing]

ContentsInit ==
    /\ toc \in Tocs
    /\ classified = Nothing
    /\ stage = "summarized"
    /\ worker = AtRest
    /\ cache = Nothing
    /\ sections = Untagged
    /\ shown = Nothing
    /\ parses = 0
    /\ edits = 0

-----------------------------------------------------------------------------
(* Entries and pages *)

HasFront(t) == \E i \in DOMAIN Entries[t] : Entries[t][i].front

\* select_toc_entry_by_page: the greatest page, of several the last entry
EntryAt(t, p) ==
    LET reached == {i \in DOMAIN Entries[t] : Entries[t][i].page \in 1 .. p}
        nearest == {i \in reached : \A j \in reached : Entries[t][j].page <= Entries[t][i].page}
    IN  IF reached = {} THEN 0 ELSE Max(nearest)

\* select_toc_entry_by_heading_match, of a chunk before the first page that has an
\* entry: the last entry with the title that is the innermost of its headings
EntryNamed(t, headings) ==
    LET named(h) == {i \in DOMAIN Entries[t] : Entries[t][i].title = h}
        found == {k \in DOMAIN headings : named(headings[k]) # {}}
    IN  IF found = {} THEN 0 ELSE Max(named(headings[Max(found)]))

\* ensure_label_is_valid
ValidLabel(l) == IF l \in Labels THEN l ELSE "other"

\* tag_chunk
SectionAt(t, labels, p) ==
    LET i == IF EntryAt(t, p.page) # 0 THEN EntryAt(t, p.page) ELSE EntryNamed(t, p.headings)
    IN  IF i = 0 THEN "other" ELSE ValidLabel(labels[i])

-----------------------------------------------------------------------------
(* The tagger *)

Restorable(doc) ==
    /\ doc.classified # Nothing
    /\ Entries[doc.toc] # <<>>
    /\ Len(doc.classified.labels) = Len(Entries[doc.toc])
    /\ \A i \in DOMAIN doc.classified.labels : doc.classified.labels[i] \in Labels

\* _restore_labels_from_existing: only a missing mark has it saved again, not a
\* label that the rules have changed
Restored(doc) ==
    [of |-> doc.toc,
     labels |-> Sequenced(Entries[doc.toc], PageCount[doc.toc], doc.classified.labels),
     unsaved |-> HasFront(doc.toc) /\ ~HasFront(doc.classified.of),
     own |-> FALSE]

\* own (history): classified by this worker, and not edited since
Computed(doc) ==
    {[of |-> doc.toc, labels |-> Classified(Entries[doc.toc], PageCount[doc.toc], ls),
      unsaved |-> TRUE, own |-> TRUE] : ls \in Proposals(Entries[doc.toc], Guesses)}

\* _compute_document_toc_labels
Classify(next) ==
    /\ cache = Nothing
    /\ IF Restorable(worker.doc) THEN cache' = Restored(worker.doc)
       ELSE cache' \in Computed(worker.doc)
    /\ worker' = [worker EXCEPT !.at = next]

AsSaved(c) == [of |-> c.of, labels |-> c.labels]

\* classify_document_toc: failing to save is logged, and tried again by the next call
Save ==
    \/ /\ ~cache.unsaved \/ Entries[cache.of] = <<>>
       /\ UNCHANGED <<classified, cache>>
    \/ /\ cache.unsaved /\ Entries[cache.of] # <<>>
       /\ classified' = AsSaved(cache)
       /\ cache' = [cache EXCEPT !.unsaved = FALSE]
    \/ /\ cache.unsaved
       /\ UNCHANGED <<classified, cache>>

-----------------------------------------------------------------------------
(* The stages of the worker *)

Loaded == [toc |-> toc, classified |-> classified]

\* The reprocess route has deleted the chunks; the saved contents stay.
Reparse(t) ==
    /\ worker.at = "idle" /\ parses < MaxParses
    /\ toc' = t
    /\ stage' = "summarized"
    /\ sections' = Untagged
    /\ parses' = parses + 1
    /\ UNCHANGED <<classified, worker, cache, shown, edits>>

StartTagging ==
    /\ worker.at = "idle" /\ stage = "summarized"
    /\ worker' = [at |-> "classify", doc |-> Loaded]
    /\ stage' = "tagging"
    /\ UNCHANGED <<toc, classified, cache, sections, shown, parses, edits>>

ClassifyContents ==
    /\ worker.at = "classify"
    /\ Classify("save")
    /\ UNCHANGED <<toc, classified, stage, sections, shown, parses, edits>>

SaveContents ==
    /\ worker.at = "save"
    /\ Save
    /\ worker' = [worker EXCEPT !.at = "tagged"]
    /\ UNCHANGED <<toc, stage, sections, shown, parses, edits>>

FinishTagging ==
    /\ worker.at = "tagged"
    /\ stage' = "tagged"
    /\ worker' = [worker EXCEPT !.at = "ready"]
    /\ UNCHANGED <<toc, classified, cache, sections, shown, parses, edits>>

StartIndexingAsRead ==   \* mutant: the document is not read again
    /\ worker.at \in {"idle", "ready"} /\ stage = "tagged"
    /\ worker' = [at |-> "index", doc |-> IF worker.at = "idle" THEN Loaded ELSE worker.doc]
    /\ stage' = "indexing"
    /\ UNCHANGED <<toc, classified, cache, sections, shown, parses, edits>>

\* by the worker that has tagged, or another after it
StartIndexing ==
    /\ worker.at \in {"idle", "ready"} /\ stage = "tagged"
    /\ worker' = [at |-> "index", doc |-> Loaded]
    /\ stage' = "indexing"
    /\ UNCHANGED <<toc, classified, cache, sections, shown, parses, edits>>

\* The chunks are new, and upsert_document writes back every field that was read.
Index ==
    /\ worker.at = "index"
    /\ sections' = Untagged
    /\ classified' = worker.doc.classified
    /\ stage' = "indexed"
    /\ worker' = [worker EXCEPT !.at = "indexed"]
    /\ UNCHANGED <<toc, cache, shown, parses, edits>>

StartChunks ==
    /\ worker.at = "indexed"
    /\ worker' = [at |-> "chunks", doc |-> Loaded]
    /\ UNCHANGED <<toc, classified, stage, cache, sections, shown, parses, edits>>

\* the first call of tag_chunk by a worker that has not classified
ClassifyForChunks ==
    /\ worker.at = "chunks"
    /\ Classify("chunks")
    /\ UNCHANGED <<toc, classified, stage, sections, shown, parses, edits>>

\* _tag_single_chunk and _update_chunk
TagChunk(p) ==
    /\ worker.at = "chunks" /\ cache # Nothing
    /\ sections[p] = Unlabelled
    /\ Save
    /\ sections' = [sections EXCEPT ![p] = SectionAt(cache.of, cache.labels, p)]
    /\ UNCHANGED <<toc, stage, worker, shown, parses, edits>>

\* Its work is done, or it is killed.
WorkerEnds ==
    /\ worker.at # "idle"
    /\ worker' = AtRest
    /\ cache' = Nothing
    /\ UNCHANGED <<toc, classified, stage, sections, shown, parses, edits>>

-----------------------------------------------------------------------------
(* The editor of the contents *)

OpenContents ==
    /\ classified # Nothing /\ edits < MaxEdits
    /\ shown # classified
    /\ shown' = classified
    /\ UNCHANGED <<toc, classified, stage, worker, cache, sections, parses, edits>>

\* PUT /document/{id}/toc: the whole text, as the editor had it
EditContents(i, l) ==
    /\ shown # Nothing /\ edits < MaxEdits
    /\ i \in DOMAIN shown.labels
    /\ shown' = [shown EXCEPT !.labels[i] = l]
    /\ classified' = shown'
    /\ cache' = IF cache = Nothing THEN cache ELSE [cache EXCEPT !.own = FALSE]
    /\ edits' = edits + 1
    /\ UNCHANGED <<toc, stage, worker, sections, parses>>

ContentsNext ==
    \/ \E t \in Tocs : Reparse(t)
    \/ StartTagging
    \/ ClassifyContents
    \/ SaveContents
    \/ FinishTagging
    \/ StartIndexing
    \/ Index
    \/ StartChunks
    \/ ClassifyForChunks
    \/ \E p \in Passages : TagChunk(p)
    \/ WorkerEnds
    \/ OpenContents
    \/ \E i \in 1 .. 9, l \in Categories : EditContents(i, l)

ContentsSpec == ContentsInit /\ [][ContentsNext]_contentsVars

-----------------------------------------------------------------------------
\* Whatever the model answers, a user edits, or a worker restores of an earlier
\* parse, no chunk behind the annexes has a section type that belongs before
\* them, and the chunks of the executive summary are consecutive, as far as the
\* chunks go by their pages (apply_sequence_rules; the entries of Tocs are in the
\* order of their pages).  What goes by its headings, before the first page that
\* has an entry, may have the section of any title.
SectionsInOrder ==
    \A p, q \in Passages :
        /\ sections[p] # Unlabelled /\ sections[q] # Unlabelled
        /\ p.page < q.page /\ EntryAt(toc, p.page) # 0
        => /\ sections[p] = "annexes" => sections[q] \notin PreAnnex
           /\ \A r \in Passages :
                q.page < r.page /\ sections[p] = "executive_summary"
                /\ sections[r] = "executive_summary"
                    => sections[q] = "executive_summary"

\* A worker that has classified the contents itself, and managed to save them,
\* tags the chunks as the saved contents say, through a save that first failed
\* and an index stage that writes the document back (_run_tag_stage,
\* _run_index_stage): unless somebody edits the contents meanwhile.
ChunksFollowContents ==
    cache # Nothing /\ cache.own /\ ~cache.unsaved =>
        /\ classified = AsSaved(cache)
        /\ \A p \in Passages :
            sections[p] # Unlabelled => sections[p] = SectionAt(toc, classified.labels, p)
=============================================================================
