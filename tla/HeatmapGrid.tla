---------------------------- MODULE HeatmapGrid ----------------------------
(***************************************************************************)
(* The heatmap of the web client: rows and columns of a grid, a search for *)
(* each cell, in batches.  A cell is known by its place or by the value of *)
(* its row; what is there is cleared when rows, columns or filters change, *)
(* and not when the query beside the grid does.  Nothing stops a run: its  *)
(* answers go on filling the grid.  Matches that are highlighted in a cell *)
(* come later, too.                                                        *)
(***************************************************************************)
EXTENDS Integers, Sequences, SequencesExt, FiniteSets

CONSTANTS
    FacetValues,    \* [fields -> sequence of its values, in order]
    TypedTexts,          \* what is typed, "" among it
    MaxRows,        \* bound: rows of queries or titles
    BatchSize,      \* searches at a time
    MaxActs        \* bound: what the user does

HeatFields == DOMAIN FacetValues
RowFields == HeatFields \cup {"queries", "title"}

ASSUME HeatmapAssumption ==
    /\ BatchSize \in Nat \ {0} /\ MaxRows \in Nat \ {0}
    /\ "" \in TypedTexts /\ TypedTexts \subseteq STRING
    /\ \A f \in HeatFields : FacetValues[f] \in Seq(STRING)
    /\ {"queries", "title"} \cap HeatFields = {}

VARIABLES
    rowField, columnField,   \* what the rows and the columns are
    texts,        \* the rows of queries or titles
    cards,        \* rows whose title was chosen: [rows -> titles]
    picks,        \* [filtered fields -> SUBSET values]
    tuning,       \* the query beside the grid
    cells,        \* [cells with an answer -> [asks, marked]]
    waiting, sent,   \* the searches of a run still to send; those that are sent
    gridLoading,  \* a run goes on
    autorun,      \* the address asked for a run
    opened,       \* the cell looked at
    filtering,    \* the filter edited: [field, before]
    marking,      \* the highlight under way: [cell, query]
    sensitivity, moved,  \* "given", "auto" or "user"; moved since the run began
    stale,        \* history: the grid may hold what was asked of another grid
    acts         \* what the user has done

heatVars == <<rowField, columnField, texts, cards, picks, tuning, cells, waiting, sent, gridLoading,
              autorun, opened, filtering, marking, sensitivity, moved, stale, acts>>

gridVars == <<rowField, columnField, texts, cards, picks, tuning>>
runVars == <<cells, waiting, sent, gridLoading, autorun, stale>>
overlayVars == <<opened, filtering, marking>>
cutVars == <<sensitivity, moved>>

NoCells == << >>
Closed == <<"closed">>
NotFiltering == [field |-> ""]
NotMarking == [cell |-> Closed]

-----------------------------------------------------------------------------
RowValues == IF rowField \in {"queries", "title"} THEN texts ELSE FacetValues[rowField]

ValuesOf(field) ==
    IF field = columnField THEN FacetValues[field]
    ELSE IF field = rowField THEN RowValues ELSE <<>>

\* Those of a sequence that are in a set, in their order.
Among(s, kept) ==
    LET first[n \in 0 .. Len(s)] ==
            IF n = 0 THEN <<>>
            ELSE IF s[n] \in kept THEN Append(first[n - 1], s[n]) ELSE first[n - 1]
    IN  first[Len(s)]

\* As many as there are is taken for all of them.
FilteredBy(values, field) ==
    IF field \notin DOMAIN picks \/ Cardinality(picks[field]) = Len(values) THEN values
    ELSE Among(values, picks[field])

Rows == IF rowField = "queries" THEN texts ELSE FilteredBy(RowValues, rowField)
Cols == FilteredBy(FacetValues[columnField], columnField)

\* A row of queries is known by its place, any other by its value.
Cell(i, c) == <<IF rowField = "queries" THEN [place |-> i] ELSE [value |-> Rows[i]], c>>

QueryOf(i) == IF rowField = "queries" THEN texts[i] ELSE tuning

\* The filters of other fields, the value of the row and that of the column.
Asks(i, c) ==
    [query |-> QueryOf(i),
     fields |-> {<<f, picks[f]>> : f \in {g \in DOMAIN picks \ {rowField, columnField} : picks[g] # {}}}
                \cup (IF rowField = "queries" THEN {} ELSE {<<rowField, {Rows[i]}>>})
                \cup {<<columnField, {c}>>}]

\* A row of queries that is blank is not searched for.
Skipped(i) == rowField = "queries" /\ QueryOf(i) = ""
Unsearched == [query |-> "", fields |-> {}]

\* Cells in the order of rows, and of columns in each.
CellOrder == [n \in 1 .. Len(Rows) * Len(Cols) |->
              <<((n - 1) \div Len(Cols)) + 1, Cols[((n - 1) % Len(Cols)) + 1]>>]

\* The cells of blank rows, which are empty at once, and the searches of the others.
BlankCells ==
    [k \in {Cell(p[1], p[2]) : p \in {q \in ToSet(CellOrder) : Skipped(q[1])}} |->
        [asks |-> Unsearched, marked |-> ""]]
Searches ==
    LET order == Among(CellOrder, {p \in ToSet(CellOrder) : ~Skipped(p[1])})
    IN  [n \in DOMAIN order |-> [cell |-> Cell(order[n][1], order[n][2]),
                                 asks |-> Asks(order[n][1], order[n][2])]]

HasQuery == rowField \in {"queries", "title"} => \E i \in DOMAIN texts : texts[i] # ""

-----------------------------------------------------------------------------
\* The address may name rows, columns, queries, filters of any field and a run.
HeatInit ==
    /\ rowField \in RowFields /\ columnField \in HeatFields
    /\ texts \in {<<t>> : t \in IF rowField = "queries" THEN TypedTexts ELSE {""}}
    /\ tuning \in IF rowField = "queries" THEN {""} ELSE TypedTexts
    /\ cards = << >>
    /\ picks \in {<< >>} \cup {f :> {FacetValues[f][1]} : f \in HeatFields}
    /\ cells = NoCells /\ waiting = <<>> /\ sent = {} /\ gridLoading = FALSE
    /\ autorun \in BOOLEAN
    /\ opened = Closed /\ filtering = NotFiltering /\ marking = NotMarking
    /\ sensitivity = "given" /\ moved = FALSE
    /\ stale = FALSE
    /\ acts = 0

-----------------------------------------------------------------------------
(* A run.                                                                  *)

Put(grid, cell, asks) ==
    [k \in DOMAIN grid \cup {cell} |-> IF k = cell THEN [asks |-> asks, marked |-> ""] ELSE grid[k]]

\* executeGridSearch, up to its first batch; a highlight under way will not know of it.
Generate ==
    /\ UNCHANGED <<gridVars, overlayVars, sensitivity>>
    /\ IF Cols = <<>>
       THEN cells' = NoCells /\ UNCHANGED <<waiting, sent, gridLoading, stale, moved>>
       ELSE /\ cells' = BlankCells
            /\ waiting' = Searches
            /\ gridLoading' = TRUE
            /\ moved' = FALSE
            /\ stale' = (marking # NotMarking)
            /\ UNCHANGED sent

RunFromAddress ==
    /\ autorun /\ ~gridLoading
    /\ Rows # <<>> /\ Cols # <<>> /\ HasQuery
    /\ autorun' = FALSE
    /\ Generate
    /\ UNCHANGED acts

BeginBatch ==
    /\ gridLoading /\ sent = {} /\ waiting # <<>>
    /\ sent' = ToSet(SubSeq(waiting, 1, IF Len(waiting) < BatchSize THEN Len(waiting)
                                          ELSE BatchSize))
    /\ waiting' = SubSeq(waiting, BatchSize + 1, Len(waiting))
    /\ UNCHANGED <<gridVars, cells, gridLoading, autorun, stale, overlayVars, cutVars, acts>>

\* An answer, or the empty one of a search that failed.  Scores move the sensitivity to
\* the best fifth of their range, if there are any: those of searches with a query.
AnswerCell(t, found) ==
    /\ t \in sent
    /\ sent' = sent \ {t}
    /\ cells' = Put(cells, t.cell, t.asks)
    /\ sensitivity' = IF found /\ t.asks.query # "" /\ ~moved THEN "auto" ELSE sensitivity
    /\ UNCHANGED <<gridVars, waiting, gridLoading, autorun, stale, overlayVars, moved, acts>>

EndOfRun ==
    /\ gridLoading /\ sent = {} /\ waiting = <<>>
    /\ gridLoading' = FALSE
    /\ UNCHANGED <<gridVars, cells, waiting, sent, autorun, stale, overlayVars, cutVars, acts>>

-----------------------------------------------------------------------------
(* The user, who first has what the address asks for.                      *)

Acts ==
    /\ acts < MaxActs /\ acts' = acts + 1
    /\ ~(autorun /\ ~gridLoading /\ Rows # <<>> /\ Cols # <<>> /\ HasQuery)

NoOverlay == opened = Closed /\ filtering = NotFiltering

\* The effect of rows, columns and filters; what a run still brings is not stopped.
Clears ==
    /\ cells' = NoCells
    /\ stale' = gridLoading
    /\ UNCHANGED <<waiting, sent, gridLoading, autorun>>

PressGenerate ==
    /\ Acts /\ NoOverlay
    /\ ~gridLoading /\ HasQuery
    /\ Generate
    /\ UNCHANGED autorun

ChooseRows(f) ==
    /\ Acts /\ NoOverlay
    /\ f # rowField /\ rowField' = f
    /\ Clears
    /\ UNCHANGED <<columnField, texts, cards, picks, tuning, overlayVars, cutVars>>

ChooseColumns(f) ==
    /\ Acts /\ NoOverlay
    /\ f # columnField /\ columnField' = f
    /\ Clears
    /\ UNCHANGED <<rowField, texts, cards, picks, tuning, overlayVars, cutVars>>

WithoutCard(i) == [k \in DOMAIN cards \ {i} |-> cards[k]]

\* handleRowQueryChange: typing into a row.
TypeInRow(i, t) ==
    /\ Acts /\ NoOverlay
    /\ rowField \in {"queries", "title"}
    /\ t # texts[i]
    /\ ~(rowField = "title" /\ i \in DOMAIN cards)
    /\ texts' = [texts EXCEPT ![i] = t]
    /\ cards' = IF rowField = "title" THEN WithoutCard(i) ELSE cards
    /\ Clears
    /\ UNCHANGED <<rowField, columnField, picks, tuning, overlayVars, cutVars>>

\* A title is suggested and chosen, or typed and confirmed.
ChooseTitle(i, t) ==
    /\ Acts /\ NoOverlay
    /\ rowField = "title" /\ i \notin DOMAIN cards
    /\ t # ""
    /\ texts' = [texts EXCEPT ![i] = t]
    /\ cards' = [k \in DOMAIN cards \cup {i} |-> IF k = i THEN t ELSE cards[k]]
    /\ IF t # texts[i] THEN Clears ELSE UNCHANGED runVars
    /\ UNCHANGED <<rowField, columnField, picks, tuning, overlayVars, cutVars>>

ClearTitle(i) ==
    /\ Acts /\ NoOverlay
    /\ rowField = "title" /\ i \in DOMAIN cards
    /\ texts' = [texts EXCEPT ![i] = ""]
    /\ cards' = WithoutCard(i)
    /\ Clears
    /\ UNCHANGED <<rowField, columnField, picks, tuning, overlayVars, cutVars>>

AddRow ==
    /\ Acts /\ NoOverlay
    /\ rowField \in {"queries", "title"} /\ Len(texts) < MaxRows
    /\ texts' = Append(texts, "")
    /\ Clears
    /\ UNCHANGED <<rowField, columnField, cards, picks, tuning, overlayVars, cutVars>>

\* mutant: the effect does not depend on the rows typed
RemoveRowOnly(i) ==
    /\ Acts /\ NoOverlay
    /\ rowField \in {"queries", "title"} /\ Len(texts) > 1
    /\ texts' = RemoveAt(texts, i)
    /\ cards' = WithoutCard(i)
    /\ UNCHANGED runVars
    /\ UNCHANGED <<rowField, columnField, picks, tuning, overlayVars, cutVars>>

\* The rows below move up; the cards of their titles stay where they were.
RemoveRow(i) ==
    /\ Acts /\ NoOverlay
    /\ rowField \in {"queries", "title"} /\ Len(texts) > 1
    /\ texts' = RemoveAt(texts, i)
    /\ cards' = WithoutCard(i)
    /\ Clears
    /\ UNCHANGED <<rowField, columnField, picks, tuning, overlayVars, cutVars>>

\* The query beside the grid is no reason to clear it.
Tune(t) ==
    /\ Acts /\ NoOverlay
    /\ rowField # "queries" /\ t # tuning
    /\ tuning' = t
    /\ stale' = (stale \/ gridLoading \/ cells # NoCells)
    /\ UNCHANGED <<rowField, columnField, texts, cards, picks, cells, waiting, sent, gridLoading,
                   autorun, overlayVars, cutVars>>

MoveSlider ==
    /\ Acts /\ NoOverlay
    /\ ~moved /\ moved' = TRUE /\ sensitivity' = "user"
    /\ UNCHANGED <<gridVars, runVars, overlayVars>>

\* A filter that was not there begins with every value, which is a change, too.
OpenFilter(f) ==
    /\ Acts /\ NoOverlay
    /\ f \in {rowField, columnField} \ {"queries"}
    /\ filtering' = [field |-> f, before |-> IF f \in DOMAIN picks THEN picks[f]
                                             ELSE ToSet(ValuesOf(f))]
    /\ IF f \in DOMAIN picks
       THEN UNCHANGED <<picks, runVars>>
       ELSE picks' = picks @@ f :> ToSet(ValuesOf(f)) /\ Clears
    /\ UNCHANGED <<rowField, columnField, texts, cards, tuning, opened, marking, cutVars>>

Pick(values) ==
    /\ Acts
    /\ filtering # NotFiltering
    /\ picks' = [picks EXCEPT ![filtering.field] = values]
    /\ Clears
    /\ UNCHANGED <<rowField, columnField, texts, cards, tuning, overlayVars, cutVars>>

\* Apply, the cross or a click beside; or cancel, which puts back what was there.
CloseFilter(keep) ==
    /\ filtering # NotFiltering
    /\ filtering' = NotFiltering
    /\ IF keep THEN UNCHANGED <<picks, runVars>>
       ELSE picks' = [picks EXCEPT ![filtering.field] = filtering.before] /\ Clears
    /\ UNCHANGED <<rowField, columnField, texts, cards, tuning, opened, marking, cutVars, acts>>

OpenCell(i, c) ==
    /\ Acts /\ NoOverlay
    /\ i \in DOMAIN Rows /\ c \in ToSet(Cols)
    /\ Cell(i, c) \in DOMAIN cells
    /\ opened' = Cell(i, c)
    /\ marking' = IF QueryOf(i) # "" /\ marking = NotMarking
                  THEN [cell |-> Cell(i, c), query |-> QueryOf(i)] ELSE marking
    /\ UNCHANGED <<gridVars, runVars, filtering, cutVars>>

CloseCell ==
    /\ opened # Closed
    /\ opened' = Closed
    /\ UNCHANGED <<gridVars, runVars, filtering, marking, cutVars, acts>>

\* handleHeatmapHighlight, after its await: if the cell is still there.
MatchesArrive(found) ==
    /\ marking # NotMarking
    /\ marking' = NotMarking
    /\ cells' = IF found /\ marking.cell \in DOMAIN cells
                THEN [cells EXCEPT ![marking.cell].marked = marking.query] ELSE cells
    /\ UNCHANGED <<gridVars, waiting, sent, gridLoading, autorun, stale, opened, filtering,
                   cutVars, acts>>

HeatNext ==
    \/ RunFromAddress \/ BeginBatch \/ EndOfRun
    \/ \E t \in sent, found \in BOOLEAN : AnswerCell(t, found)
    \/ PressGenerate
    \/ \E f \in RowFields : ChooseRows(f)
    \/ \E f \in HeatFields : ChooseColumns(f)
    \/ \E i \in DOMAIN texts :
          \/ \E t \in TypedTexts : TypeInRow(i, t) \/ ChooseTitle(i, t)
          \/ ClearTitle(i) \/ RemoveRow(i)
    \/ AddRow
    \/ \E t \in TypedTexts : Tune(t)
    \/ MoveSlider
    \/ \E f \in RowFields : OpenFilter(f)
    \/ \E values \in SUBSET ToSet(ValuesOf(filtering.field)) : Pick(values)
    \/ \E keep \in BOOLEAN : CloseFilter(keep)
    \/ \E i \in DOMAIN Rows, c \in ToSet(Cols) : OpenCell(i, c)
    \/ CloseCell
    \/ \E found \in BOOLEAN : MatchesArrive(found)

HeatSpec == HeatInit /\ [][HeatNext]_heatVars

-----------------------------------------------------------------------------
(* Properties.                                                             *)

\* What a cell shows answers the search that its row, its column, the filters and the
\* query say now, and what is marked in it was found with that query; a grid that has
\* been asked for and is complete has all its cells, and the one looked at is among
\* them - unless the grid was changed while a run went on, the query beside it after,
\* or a highlight outlasted its run (executeGridSearch, buildCellKey,
\* handleHeatmapHighlight and the effect that clears).
CellsAnswerTheirHeads ==
    ~stale =>
        /\ \A i \in DOMAIN Rows, j \in DOMAIN Cols :
              LET cell == Cell(i, Cols[j])
              IN  cell \in DOMAIN cells =>
                     /\ cells[cell].asks = IF Skipped(i) THEN Unsearched ELSE Asks(i, Cols[j])
                     /\ cells[cell].marked \in {"", cells[cell].asks.query}
        /\ ~gridLoading /\ cells # NoCells =>
              \A i \in DOMAIN Rows, j \in DOMAIN Cols : Cell(i, Cols[j]) \in DOMAIN cells
        /\ opened # Closed => opened \in DOMAIN cells
=============================================================================
