---------------------------- MODULE PagedTables ----------------------------
(***************************************************************************)
(* The tables of the web client that the server sorts, filters and pages:  *)
(* documents, activity, ratings, audit log, usage.  A table keeps what its *)
(* controls say and sends a request when an effect depends on what has     *)
(* changed; answers come in any order and each replaces what is shown.     *)
(* The documents' table has effects of its own: a text waits half a second,*)
(* and what a dialog reloads when its own request is done is what the      *)
(* controls said when it was opened.                                       *)
(***************************************************************************)
EXTENDS Integers, Sequences, SequencesExt, FiniteSets

CONSTANTS
    TableRows,     \* the rows there may be
    Columns,       \* to sort by
    FirstColumn,   \* a table is sorted by it at first
    KnownTo,       \* [Tables -> SUBSET Columns] that its server can sort by
    Instead,      \* [Tables -> Columns] by which it sorts instead of others
    KeyOf,         \* [Columns -> [TableRows -> Int]]
    NoKey,         \* of a row without a value: after all others
    EmptyLast,     \* SUBSET Columns of the activity, in either direction
    Kept,          \* [filters -> SUBSET TableRows]; "all" keeps all
    TextFinds,         \* [texts -> SUBSET TableRows]; "" finds all
    RowsPerPage,
    MaxRequests,   \* bound: requests in flight
    MaxDeeds       \* bound: what users and the pipeline do

Tables == {"documents", "activity", "ratings", "audit", "usage"}

ASSUME TablesAssumption ==
    /\ IsFiniteSet(TableRows)
    /\ FirstColumn \in Columns
    /\ KnownTo \in [Tables -> SUBSET Columns] /\ Instead \in [Tables -> Columns]
    /\ KeyOf \in [Columns -> [TableRows -> Int]]
    /\ NoKey \in Int /\ \A c \in Columns, r \in TableRows : KeyOf[c][r] <= NoKey
    /\ RowsPerPage \in Nat \ {0}
    /\ {"all"} \subseteq DOMAIN Kept /\ Kept["all"] = TableRows /\ TextFinds[""] = TableRows

VARIABLES
    table,       \* which table
    rowsThere,   \* the rows in the database
    controls,    \* [page, column, order, filter, text]
    requested,      \* requests in the order they were sent: [for, total], -1: not counted yet
    visible,     \* what is shown: [for, rows, total]
    statsLoad,   \* documents: the page's statistics are loading
    typing,      \* documents: the timer of the text runs
    dialog,      \* documents: the controls when a dialog's request began, or None
    latest,      \* history: the newest request is "flying", "shown" or "lost"
    untouched,        \* history: no row came or went since the newest request was sent
    deeds        \* what users and the pipeline have done

tableVars == <<table, rowsThere, controls, requested, visible, statsLoad, typing, dialog,
               latest, untouched, deeds>>

None == [page |-> 0]

\* The documents' page and text come from the address.
TableInit ==
    /\ table \in Tables
    /\ rowsThere = TableRows
    /\ \E p \in {1, 2}, t \in DOMAIN TextFinds :
          /\ table # "documents" => p = 1 /\ t = ""
          /\ controls = [page |-> p, column |-> FirstColumn, order |-> "desc",
                         filter |-> "all", text |-> t]
    /\ requested = <<[for |-> controls, total |-> -1]>>
    /\ visible = [for |-> None, rows |-> <<>>, total |-> 0]
    /\ statsLoad = (table = "documents") /\ typing = statsLoad
    /\ dialog = None
    /\ latest = "flying"
    /\ untouched = TRUE
    /\ deeds = 0

-----------------------------------------------------------------------------
(* The client.                                                             *)

Deed == deeds < MaxDeeds /\ deeds' = deeds + 1

Send(cs) ==
    /\ Len(requested) + Len(cs) <= MaxRequests
    /\ requested' = requested \o [k \in DOMAIN cs |-> [for |-> cs[k], total |-> -1]]
    /\ latest' = "flying"
    /\ untouched' = TRUE

\* An effect that depends on the page, after others have been sent for the old page.
IfNewPage(c) == IF c.page = controls.page THEN <<>> ELSE <<c>>

OnFirstPage(c) == [c EXCEPT !.page = 1]

\* handleSort; the documents' table alone sends nothing (its rows stay as they are).
Sorted(column) ==
    [controls EXCEPT
        !.column = column,
        !.order = IF column # controls.column
                  THEN IF table = "documents" THEN "asc" ELSE "desc"
                  ELSE IF controls.order = "asc" THEN "desc" ELSE "asc"]
ClickSort(column) ==
    /\ Deed
    /\ table # "audit"
    /\ IF table = "documents"
       THEN controls' = Sorted(column) /\ UNCHANGED <<requested, latest, untouched>>
       ELSE controls' = OnFirstPage(Sorted(column)) /\ Send(<<controls'>>)
    /\ UNCHANGED <<table, rowsThere, visible, statsLoad, typing, dialog>>

\* The effects of the audit log: it asks for the old page before the second one turns
\* to the first page.
AuditSends(f) ==
    LET here == [controls EXCEPT !.filter = f]
    IN  Send(<<here>> \o IfNewPage(OnFirstPage(here)))

\* A filter of a column or a bar of the chart.
SetFilter(f) ==
    /\ Deed
    /\ f # controls.filter
    /\ controls' = OnFirstPage([controls EXCEPT !.filter = f])
    /\ IF table = "audit" THEN AuditSends(f) ELSE Send(<<controls'>>)
    /\ UNCHANGED <<table, rowsThere, visible, statsLoad, typing, dialog>>

\* A filter of the rows that are shown (type, score) is in the same record as the
\* others, so that the same page is asked for again.
SetLocalFilter ==
    /\ Deed
    /\ table \in {"activity", "ratings"}
    /\ Send(<<controls>>)
    /\ UNCHANGED <<table, rowsThere, controls, visible, statsLoad, typing, dialog>>

\* handleSearchSubmit and handleSearchInputChange, if that changes anything.
SubmitText(t) ==
    /\ Deed
    /\ table \in {"activity", "ratings"}
    /\ controls' = OnFirstPage([controls EXCEPT !.text = t])
    /\ controls' # controls
    /\ Send(<<controls'>>)
    /\ UNCHANGED <<table, rowsThere, visible, statsLoad, typing, dialog>>

\* handleFilterTextChange: the timer starts over.
Type(t) ==
    /\ Deed
    /\ table = "documents"
    /\ t # controls.text
    /\ controls' = [controls EXCEPT !.text = t]
    /\ typing' = TRUE
    /\ UNCHANGED <<table, rowsThere, requested, visible, statsLoad, dialog, latest, untouched>>

\* setCurrentPage(1) and loadDocuments() of the last render, which knows the old page.
LoadFromFirst ==
    /\ controls' = OnFirstPage(controls)
    /\ Send(<<controls>> \o IfNewPage(controls'))

TextSettles ==
    /\ typing
    /\ typing' = FALSE
    /\ IF statsLoad THEN UNCHANGED <<controls, requested, latest, untouched>> ELSE LoadFromFirst
    /\ UNCHANGED <<table, rowsThere, visible, statsLoad, dialog, deeds>>

\* the effect of the text without its second dependency
StatsArriveUnseen ==
    /\ statsLoad
    /\ statsLoad' = FALSE
    /\ UNCHANGED <<table, rowsThere, controls, requested, visible, typing, dialog>>
    /\ UNCHANGED <<latest, untouched, deeds>>

\* loadData is over, well or not; the text's effect depends on that, too.
StatsArrive ==
    /\ statsLoad
    /\ statsLoad' = FALSE
    /\ typing' = TRUE
    /\ UNCHANGED <<table, rowsThere, controls, requested, visible, dialog>>
    /\ UNCHANGED <<latest, untouched, deeds>>

\* handleRefreshTable
Refresh ==
    /\ Deed
    /\ table = "documents"
    /\ LoadFromFirst
    /\ UNCHANGED <<table, rowsThere, visible, statsLoad, typing, dialog>>

TotalPages ==
    LET n == (visible.total + RowsPerPage - 1) \div RowsPerPage
    IN  IF table = "documents" \/ n > 1 THEN n ELSE 1

TurnPage(p) ==
    /\ Deed
    /\ table # "usage"
    /\ p \in 1 .. TotalPages
    /\ p # controls.page
    /\ controls' = [controls EXCEPT !.page = p]
    /\ Send(<<controls'>>)
    /\ UNCHANGED <<table, rowsThere, visible, statsLoad, typing, dialog>>

\* reprocessDocument; an edit of the contents (handleTocUpdated)
BeginDialog ==
    /\ Deed
    /\ table = "documents"
    /\ dialog = None
    /\ dialog' = controls
    /\ UNCHANGED <<table, rowsThere, controls, requested, visible>>
    /\ UNCHANGED <<statsLoad, typing, latest, untouched>>
UpToOrder(c, d) == <<c.page, c.filter, c.text>> = <<d.page, d.filter, d.text>>
EndDialog(done) ==
    /\ dialog # None
    /\ dialog' = None
    /\ IF done
       THEN /\ Len(requested) < MaxRequests
            /\ requested' = Append(requested, [for |-> dialog, total |-> -1])
            /\ latest' = IF UpToOrder(dialog, controls) THEN "flying" ELSE "lost"
            /\ untouched' = TRUE
       ELSE UNCHANGED <<requested, latest, untouched>>
    /\ UNCHANGED <<table, rowsThere, controls, visible, statsLoad, typing, deeds>>

-----------------------------------------------------------------------------
(* The server.                                                             *)

RowsChange ==
    /\ Deed
    /\ untouched' = FALSE
    /\ \E r \in TableRows :
          rowsThere' = IF r \in rowsThere THEN rowsThere \ {r} ELSE rowsThere \cup {r}
    /\ UNCHANGED <<table, controls, requested, visible, statsLoad, typing, dialog, latest>>

\* A filter whose value is false is passed over like one that is not there.
Heard(f) == IF table = "documents" /\ f = "no" THEN "all" ELSE f

Answering(c) == rowsThere \cap Kept[Heard(c.filter)] \cap TextFinds[c.text]

\* sort_map: a column that it does not have is the year (documents) or the date.
SortedBy(column) == IF column \in KnownTo[table] THEN column ELSE Instead[table]

\* nullslast of some columns; elsewhere what has no value is the greatest.
EmptyAtEnd(column) == table = "activity" /\ column \in EmptyLast
Earlier(c, column, r, q) ==
    LET key == KeyOf[column]
    IN  \/ c.order = "asc" /\ key[r] < key[q]
        \/ c.order # "asc" /\ key[r] > key[q] /\ ~(EmptyAtEnd(column) /\ key[r] = NoKey)
        \/ EmptyAtEnd(column) /\ key[q] = NoKey /\ key[r] # NoKey
InItsOrder(c, column, s) == \A i, j \in DOMAIN s : i < j => ~Earlier(c, column, s[j], s[i])

\* Rows that are alike come in any order.
PageOf(c, s) ==
    IF table = "usage" THEN s
    ELSE SubSeq(s, (c.page - 1) * RowsPerPage + 1,
                IF c.page * RowsPerPage < Len(s) THEN c.page * RowsPerPage ELSE Len(s))
PagesFor(c) == {PageOf(c, s) : s \in {t \in SetToSeqs(Answering(c)) : InItsOrder(c, SortedBy(c.column), t)}}

CountRows(k) ==
    /\ requested[k].total = -1
    /\ requested' = [requested EXCEPT ![k].total = Cardinality(Answering(requested[k].for))]
    /\ UNCHANGED <<table, rowsThere, controls, visible, statsLoad, typing>>
    /\ UNCHANGED <<dialog, latest, untouched, deeds>>

\* The rows are read by a second query and come back, or the request fails and what
\* is shown stays.
AfterAnswer(k, good) ==
    IF latest = "flying" /\ k = Len(requested) THEN IF good THEN "shown" ELSE "lost"
    ELSE IF latest = "shown" /\ good THEN "lost" ELSE latest
PageArrives(k) ==
    /\ requested[k].total # -1
    /\ \E s \in PagesFor(requested[k].for) :
          visible' = [for |-> requested[k].for, rows |-> s, total |-> requested[k].total]
    /\ requested' = RemoveAt(requested, k)
    /\ latest' = AfterAnswer(k, TRUE)
    /\ UNCHANGED <<table, rowsThere, controls, statsLoad, typing, dialog, untouched, deeds>>
PageFails(k) ==
    /\ requested' = RemoveAt(requested, k)
    /\ latest' = AfterAnswer(k, FALSE)
    /\ UNCHANGED <<table, rowsThere, controls, visible, statsLoad, typing>>
    /\ UNCHANGED <<dialog, untouched, deeds>>

TableNext ==
    \/ \E c \in Columns : ClickSort(c)
    \/ \E f \in DOMAIN Kept : SetFilter(f)
    \/ SetLocalFilter
    \/ \E t \in DOMAIN TextFinds : SubmitText(t) \/ Type(t)
    \/ TextSettles \/ StatsArrive \/ Refresh
    \/ \E p \in 1 .. Cardinality(TableRows) : TurnPage(p)
    \/ BeginDialog
    \/ \E done \in BOOLEAN : EndDialog(done)
    \/ RowsChange
    \/ \E k \in DOMAIN requested : CountRows(k) \/ PageArrives(k) \/ PageFails(k)

TableSpec == TableInit /\ [][TableNext]_tableVars

-----------------------------------------------------------------------------
\* Once nothing is under way - no answer, no statistics, no half second - a table shows
\* what its controls say: the rows of that page, in that order, of those that pass
\* the filter and the text, and how many there are.  Provided that the newest request
\* was answered last (nothing in the client sees to it) and was not sent by a dialog
\* that remembered other controls; rows that came or went since are not seen, the
\* documents' table keeps its order until it is loaded again, a server that does not
\* know the column (most of the documents', two of the activity's) sorts by the year
\* or the date instead, rows without a value are last, or where the activity's server
\* does not say so first when descending, and a filter for a false value is none.
TablesFollowControls ==
    requested = <<>> /\ latest = "shown" /\ ~statsLoad /\ ~typing =>
        /\ UpToOrder(visible.for, controls)
        /\ table # "documents" => visible.for = controls
        /\ untouched => LET c == visible.for
                       open == table = "documents" /\ c.filter = "no"
                       kept == {r \in rowsThere \cap TextFinds[c.text] :
                                   open \/ r \in Kept[c.filter]}
                       start == (c.page - 1) * RowsPerPage
                       shown == {visible.rows[k] : k \in DOMAIN visible.rows}
                       Before(r, q) == Earlier(c, SortedBy(c.column), r, q)
                   IN  /\ visible.total = Cardinality(kept)
                       /\ shown \subseteq kept
                       /\ \A k \in DOMAIN visible.rows :
                             LET r == visible.rows[k]
                                 first == Cardinality({q \in kept : Before(q, r)})
                                 last == Cardinality({q \in kept : Before(r, q)})
                             IN  table # "usage" =>
                                   /\ first < start + k
                                   /\ start + k <= Cardinality(kept) - last
                       /\ table = "usage" => shown = kept

=============================================================================
