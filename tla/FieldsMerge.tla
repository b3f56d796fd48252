----------------------------- MODULE FieldsMerge -----------------------------
(***************************************************************************)
(* The system fields of one document.  Each is kept twice in its row: in a *)
(* column of its own and in the JSON of sys_data.  A writer reads the JSON,*)
(* lays its fields over it and writes the whole JSON and its own columns,  *)
(* in a transaction of its own and without a lock (merge_doc_sys_fields);  *)
(* writers are the stages of the pipeline, the tagger and two routes of    *)
(* the UI.  A value is the writer that intended it, or Initially.          *)
(***************************************************************************)
EXTENDS Naturals

CONSTANTS
    Fields,     \* among them "status"
    Writers,    \* each writes once
    Meant,      \* [Writers -> SUBSET Fields] the fields it is there to change
    Editors,    \* SUBSET Writers: PUT /document/{id}/toc and the indexer's
                \* upsert_document, which write all they have read
    Shown,      \* SUBSET Fields: those get_document returns
    FromJson,   \* SUBSET Shown: those it takes from the JSON, the contents
    Initially

ASSUME MergeAssumption ==
    /\ Meant \in [Writers -> SUBSET Fields]
    /\ Editors \subseteq Writers
    /\ Shown \subseteq Fields /\ FromJson \subseteq Shown
    /\ Initially \notin Writers

VARIABLES
    column,    \* [Fields -> value]
    json,      \* [Fields -> value] sys_data
    writer,    \* [Writers -> where it is, the document it read, the JSON it read,
               \*             whether another has written since]
    intended,  \* history: [Fields -> value] by the last to write it on purpose
    mixed,     \* history: two writers were at it at once
    misled,    \* history: an editor has read the JSON after that
    reverted   \* history: an editor has written what others had changed meanwhile

mergeVars == <<column, json, writer, intended, mixed, misled, reverted>>

Values == Writers \union {Initially}
Untouched == [f \in Fields |-> Initially]

MergeInit ==
    /\ column = Untouched
    /\ json = Untouched
    /\ writer = [w \in Writers |-> [at |-> "before", doc |-> Untouched, read |-> Untouched, late |-> FALSE]]
    /\ intended = Untouched
    /\ mixed = FALSE
    /\ misled = FALSE
    /\ reverted = FALSE

Mixes(w) == mixed' = (mixed \/ \E v \in Writers \ {w} : writer[v].at \in {"loaded", "merging"})

\* get_document: the contents of the JSON, and for the rest the columns
Document == [f \in Fields |-> IF f \in FromJson THEN json[f] ELSE column[f]]

LoadDoc(w) ==
    /\ w \in Editors
    /\ writer[w].at = "before"
    /\ writer' = [writer EXCEPT ![w].at = "loaded", ![w].doc = Document]
    /\ Mixes(w)
    /\ misled' = (misled \/ mixed)
    /\ UNCHANGED <<column, json, intended, reverted>>

\* fetch_doc_sys_fields
ReadFields(w) ==
    /\ writer[w].at = IF w \in Editors THEN "loaded" ELSE "before"
    /\ writer' = [writer EXCEPT ![w].at = "merging", ![w].read = json]
    /\ Mixes(w)
    /\ UNCHANGED <<column, json, intended, misled, reverted>>

\* sys_fields: what the caller hands over
Given(w) == Meant[w] \union IF w \in Editors THEN Shown ELSE {}
GivenValue(w, f) == IF f \in Meant[w] THEN w ELSE writer[w].doc[f]

\* the JSON has the given fields only
MergedAlone(w, f) == IF f \in Given(w) THEN GivenValue(w, f) ELSE Initially
\* _resolve_sys_status
Merged(w, f) == IF f \in Given(w) THEN GivenValue(w, f) ELSE writer[w].read[f]

Assigned(w) == Given(w)

WriteFields(w) ==
    /\ writer[w].at = "merging"
    /\ json' = [f \in Fields |-> Merged(w, f)]
    /\ column' = [f \in Fields |-> IF f \in Assigned(w) THEN Merged(w, f) ELSE column[f]]
    /\ intended' = [f \in Fields |-> IF f \in Meant[w] THEN w ELSE intended[f]]
    /\ reverted' = (reverted \/ (w \in Editors /\ writer[w].late))
    /\ writer' = [v \in Writers |->
                    IF v = w THEN [at |-> "after", doc |-> Untouched, read |-> Untouched, late |-> FALSE]
                    ELSE [writer[v] EXCEPT !.late = @ \/ writer[v].at \in {"loaded", "merging"}]]
    /\ UNCHANGED <<mixed, misled>>

MergeNext == \E w \in Writers : LoadDoc(w) \/ ReadFields(w) \/ WriteFields(w)
MergeSpec == MergeInit /\ [][MergeNext]_mergeVars

-----------------------------------------------------------------------------
\* While no two writers overlap, the two copies of every field agree and hold
\* what was last meant for it (merge_doc_sys_fields).
CopiesAgree == ~mixed => column = intended /\ json = intended

\* However the writers overlap, the columns hold what was last meant for them,
\* unless a writer of whole documents was late: otherwise only the JSON can go back
\* to an earlier value.  The contents of a document are read from there, so a writer
\* of whole documents that starts after an overlap may take them back in the column.
ColumnsHold ==
    ~reverted => \A f \in Fields : column[f] = intended[f] \/ (f \in FromJson /\ misled)

\* Both, of merge_doc_sys_fields.
MergesHold == CopiesAgree /\ ColumnsHold

\* "Update the toc_classified field for a document": an edit leaves the status
\* as the pipeline has set it.
EditKeepsStatus == column["status"] = intended["status"]
=============================================================================
