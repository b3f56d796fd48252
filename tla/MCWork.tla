------------------------------- MODULE MCWork -------------------------------
(***************************************************************************)
(* Small instances of work that is done on documents and for questions:    *)
(* batch jobs, the parser, the parts of a long file, the chunks, the fields*)
(* and the contents of a document, A2A tasks, the turns of a research      *)
(* thread, a search, a research tree, the tables, the heatmap and the log of*)
(* the web client.  They share no state: a behaviour is one of one of them,*)
(* chosen at the start, while the others rest, so that one run goes        *)
(* through them all.                                                       *)
(***************************************************************************)
EXTENDS PartitionRuns, FieldsMerge, ParseRun, ParseParts, DocumentChunks, ContentsTags,
        A2ATasks, ResearchTurn, SearchRequest, ResearchTree,
        PagedTables, HeatmapGrid, SearchLog, TLC

ThreeDocs == 1 .. 3
Same == [d \in Docs |-> d]
TwoYears == [d \in Docs |-> IF d = 1 THEN 2 ELSE 1]

AsWritten ==
    "parse" :> {"status", "toc"} @@ "index" :> {"status"} @@ "tagger" :> {"toc"}
    @@ "approve" :> {"approved"} @@ "edit" :> {"toc"}

\* Titles are named for what they match; "terms" matches a pattern of the annexes
\* without being called one ("terms of reference").
TitleMatches ==
    "plain" :> {} @@ "contents" :> {"front_matter"} @@ "summary" :> {"executive_summary"}
    @@ "annex" :> {"annexes"} @@ "terms" :> {"annexes"}

Entry(t, l, p, f) == [title |-> t, level |-> l, page |-> p, front |-> f]

ThreeParses ==
    "marked" :> <<Entry("contents", 1, 2, TRUE), Entry("plain", 1, 3, TRUE),
                  Entry("terms", 1, 7, FALSE), Entry("plain", 1, 8, FALSE)>>
    @@ "unmarked" :> <<Entry("summary", 1, 0, FALSE), Entry("plain", 1, 3, FALSE),
                       Entry("annex", 2, 4, FALSE), Entry("plain", 1, 7, FALSE)>>
    @@ "short" :> <<Entry("summary", 1, 3, FALSE), Entry("annex", 1, 8, FALSE)>>

ThreeCounts == "marked" :> 9 @@ "unmarked" :> 0 @@ "short" :> 9

\* The first chunk lies before all that has a page in one of the contents, under two of
\* their titles.
SomeChunks ==
    {[page |-> 2, headings |-> <<"summary", "annex", "terms">>],
     [page |-> 5, headings |-> <<"summary">>], [page |-> 8, headings |-> <<>>]}

\* An item of a page, or of more, at a place under a heading, with its size and words.
Item(kind, on, order, heading, size, says) ==
    [kind |-> kind, pages |-> on, place |-> order, heading |-> heading, size |-> size,
     says |-> says, parts |-> 1, cites |-> {}, number |-> 0]
Footnote(kind, page, heading, size, number, says) ==
    [Item(kind, {page}, 9, heading, size, says) EXCEPT !.number = number]
Citing(item, numbers) == [item EXCEPT !.cites = numbers]

\* A report with a footnote before the text that cites it, a number that is used
\* again and a paragraph longer than a chunk; a brief in which a line recurs.
TwoPapers ==
    "report" :> <<Citing(Item("text", {1, 2}, 1, "none", 4, "a"), {2}),
                  Footnote("note", 1, "none", 2, 1, "n1"),
                  Citing(Item("text", {2}, 2, "none", 2, "b"), {1}),
                  Footnote("enclosed", 2, "none", 1, 2, "n2"),
                  Citing([Item("text", {3}, 1, "end", 6, "c") EXCEPT !.parts = 2], {2}),
                  Footnote("note", 3, "end", 2, 2, "n3")>>
    @@ "brief" :> <<Item("structure", {1}, 1, "end", 1, "h"),
                    Item("table", {1, 2}, 2, "end", 3, "t"),
                    Item("silent", {1}, 3, "none", 0, "p"),
                    Item("text", {1}, 4, "none", 2, "b"),
                    Citing(Item("text", {1}, 5, "none", 2, "b"), {3}),
                    Footnote("unnumbered", 1, "none", 1, 0, "n4")>>

\* Four reports, one without a row; a passage that recurs in a newer report, and one
\* in a report whose year is no number.
FourReports == {"old", "new", "french", "stray"}
ThreeRegistered == FourReports \ {"stray"}
TitlesOf == "old" :> "t" @@ "new" :> "t" @@ "french" :> "u" @@ "stray" :> "t"
Languages == "old" :> "en" @@ "new" :> "en" @@ "french" :> "fr" @@ "stray" :> "en"
NoYear == -1
YearsOf == "old" :> 1 @@ "new" :> 2 @@ "french" :> NoYear @@ "stray" :> 2
OldMentioned == {"old"}
FiveIds == 1 .. 5
OfReport == <<"old", "old", "new", "french", "stray">>
Passage(text, size, bare, section, dense, sparse, rerank) ==
    [text |-> text, size |-> size, bare |-> bare, section |-> section,
     dense |-> dense, sparse |-> sparse, rerank |-> rerank]
FivePassages ==
    <<Passage("a", 4, 3, "findings", 9, 2, -2), Passage("b", 3, 1, "context", 8, 6, 4),
      Passage("a", 4, 3, "findings", 7, 7, 1), Passage("b", 2, 2, "findings", 6, 9, 3),
      Passage("d", 4, 4, "findings", 5, 1, 2)>>
OnePassage == [c \in FiveIds |-> Passage("e", 4, 3, "context", 8, 8, 5)]
Recency == 0 :> 2 @@ 1 :> 1 @@ 2 :> 4 @@ NoYear :> 2

\* Every ranking under every filter of chunks and under every filter of documents; and,
\* for two passages of a section, every way to change the ranking.
SimpleQuestion ==
    [mode |-> "scroll", limit |-> 1, title |-> Unasked, language |-> Unasked, sections |-> {},
     minSize |-> 0, rerank |-> "no", candidates |-> 0, recency |-> FALSE, boost |-> "none",
     auto |-> FALSE, dedup |-> FALSE]
SomeQuestions ==
    {[SimpleQuestion EXCEPT !.mode = m, !.limit = n, !.sections = s, !.minSize = z, !.dedup = d] :
        m \in Modes, n \in {1, 2, 4}, s \in {{}, {"findings"}}, z \in {0, 3}, d \in BOOLEAN}
    \cup
    {[SimpleQuestion EXCEPT !.mode = m, !.limit = 2, !.title = t[1], !.language = t[2]] :
        m \in Modes, t \in {<<"t", "fr">>, <<"none", "fr">>, <<Unasked, "fr">>, <<Unasked, "zz">>}}
    \cup
    {[SimpleQuestion EXCEPT !.mode = m, !.limit = 2, !.sections = {"findings"}, !.minSize = z,
                            !.rerank = r[1], !.candidates = r[2], !.recency = y,
                            !.boost = b, !.auto = a, !.dedup = TRUE] :
        m \in {"dense", "hybrid"}, z \in {0, 3}, y \in BOOLEAN, a \in BOOLEAN,
        r \in {<<"yes", 0>>, <<"yes", 1>>, <<"unavailable", 0>>}, b \in {"none", "some", "only"}}

\* Rows two of which are alike in two columns, and one without a figure (a year, a cost);
\* the servers of documents and activity do not know the kind.
ThreeRows == 1 .. 3
AlikeInPairs == "date" :> <<1, 2, 2>> @@ "figure" :> <<2, 1, 9>> @@ "kind" :> <<3, 1, 3>>
AllButTwo == [t \in Tables |-> IF t \in {"documents", "activity"}
                               THEN {"date", "figure"} ELSE {"date", "figure", "kind"}]
YearOrDate == [t \in Tables |-> IF t = "documents" THEN "figure" ELSE "date"]
TwoFilters == "all" :> ThreeRows @@ "no" :> {2, 3}
TwoTexts == "" :> ThreeRows @@ "x" :> {1, 3}

\* Two fields; a row more of one of them.
TwoFacets == "type" :> <<"e", "r">> @@ "year" :> <<"1">>

VARIABLE work

documentVars == <<vars, mergeVars, parseVars, partsVars, chunkVars, contentsVars, taskVars,
                  turnVars, searchVars, treeVars>>
webVars == <<tableVars, heatVars, logVars>>

workVars == <<work, documentVars, webVars>>

WorkInit ==
    /\ work \in {"partition", "merge", "parse", "parts", "chunks", "contents", "tasks",
                "turn", "search", "tree", "tables", "heatmap", "log", "stars"}
    /\ Init /\ (work # "partition" => status = [d \in Docs |-> "downloaded"])
    /\ MergeInit /\ ParseInit
    /\ PartsInit /\ (work # "parts" => pages = 1)
    /\ ChunksInit /\ (work # "chunks" => paper = "brief")
    /\ ContentsInit /\ (work # "contents" => toc = "short")
    /\ TaskInit /\ TurnInit
    /\ SearchInit /\ (work # "search" => wanted = SimpleQuestion)
    /\ TreeInit
    /\ TableInit /\ (work # "tables" => table = "usage")
    /\ HeatInit
    /\ (work # "heatmap" => /\ rowField = "title" /\ columnField = "type" /\ tuning = ""
                           /\ picks = NoCells /\ autorun = FALSE)
    /\ LogInit /\ (work # "stars" => starKind = "search_result")

BesidePartition ==
    UNCHANGED <<work, mergeVars, parseVars, partsVars, chunkVars, contentsVars,
              taskVars, turnVars, searchVars, treeVars, webVars>>
BesideMerge ==
    UNCHANGED <<work, vars, parseVars, partsVars, chunkVars, contentsVars, taskVars,
              turnVars, searchVars, treeVars, webVars>>
BesideParse ==
    UNCHANGED <<work, vars, mergeVars, partsVars, chunkVars, contentsVars, taskVars,
              turnVars, searchVars, treeVars, webVars>>
BesideParts ==
    UNCHANGED <<work, vars, mergeVars, parseVars, chunkVars, contentsVars, taskVars,
              turnVars, searchVars, treeVars, webVars>>
BesideChunks ==
    UNCHANGED <<work, vars, mergeVars, parseVars, partsVars, contentsVars, taskVars,
              turnVars, searchVars, treeVars, webVars>>
BesideContents ==
    UNCHANGED <<work, vars, mergeVars, parseVars, partsVars, chunkVars, taskVars,
              turnVars, searchVars, treeVars, webVars>>
BesideTasks ==
    UNCHANGED <<work, vars, mergeVars, parseVars, partsVars, chunkVars,
              contentsVars, turnVars, searchVars, treeVars, webVars>>
BesideTurn ==
    UNCHANGED <<work, vars, mergeVars, parseVars, partsVars, chunkVars,
              contentsVars, taskVars, searchVars, treeVars, webVars>>
BesideSearch ==
    UNCHANGED <<work, vars, mergeVars, parseVars, partsVars, chunkVars,
              contentsVars, taskVars, turnVars, treeVars, webVars>>
BesideTree ==
    UNCHANGED <<work, vars, mergeVars, parseVars, partsVars, chunkVars,
              contentsVars, taskVars, turnVars, searchVars, webVars>>
BesideTables == UNCHANGED <<work, documentVars, heatVars, logVars>>
BesideHeatmap == UNCHANGED <<work, documentVars, tableVars, logVars>>
BesideLog == UNCHANGED <<work, documentVars, tableVars, heatVars>>

\* A stream stores nothing, so one handler has one; and a second caller has one id, which
\* it shares with the first.
ForTasks ==
    \A h \in Handlers :
        /\ running'[h].how = "stream" => running'[h] = [id |-> 1, owner |-> "p", how |-> "stream"] /\ h = 1
        /\ running'[h].how = "send" /\ running'[h].owner = "q" => running'[h].id = 1

\* A call of the log of either kind is under way at most, and one answer for the tree;
\* what is found for a topic and what a node has is something;
\* the page strays from the first search, and is followed until it does from the second.
\* What is sent for the first one after that, of which nothing is promised, does not wait.
ForLog ==
    /\ rated' = 0 /\ signs' = 0 /\ strayed' \subseteq {1}
    /\ \A m, k \in mail' : m.call = k.call => m = k
    /\ ~(digs' # 0 /\ whole' # NoSearch)
    /\ ~(shownOf' = NoSearch /\ shownOf # NoSearch /\ logId' = logId)
    /\ (\E m \in mail : m.id \in strayed) =>
            mail' # mail /\ Cardinality(mail') <= Cardinality(mail)

\* For the stars searches are logged but their summaries are not, which have no part in them.
ForStars ==
    /\ mail # {} => mail' = {}
    /\ \A m \in mail' : m.call = "post"
    /\ streamOf' \in {NoSearch, submits} /\ textOf' # Failed
    /\ treeOf' = NoSearch /\ digs' = 0
    /\ starKind = "search_result" => textOf' = NoSearch

\* A research tree is followed until an answer is left behind: nothing but the shape
\* of the tree is promised after that.
WorkNext ==
    \/ work = "partition" /\ Next /\ BesidePartition
    \/ work = "merge" /\ MergeNext /\ BesideMerge
    \/ work = "parse" /\ ParseNext /\ BesideParse
    \/ work = "parts" /\ PartsNext /\ BesideParts
    \/ work = "chunks" /\ ChunksNext /\ BesideChunks
    \/ work = "contents" /\ ContentsNext /\ BesideContents
    \/ work = "tasks" /\ TaskNext /\ ForTasks /\ BesideTasks
    \/ work = "turn" /\ TurnNext /\ BesideTurn
    \/ work = "search" /\ SearchNext /\ BesideSearch
    \/ work = "tree" /\ ~disturbed /\ TreeNext /\ BesideTree
    \/ work = "tables" /\ TableNext /\ BesideTables
    \/ work = "heatmap" /\ HeatNext /\ BesideHeatmap
    \/ work = "log" /\ LogNext /\ ForLog /\ BesideLog
    \/ work = "stars" /\ LogNext /\ ForStars /\ BesideLog

WorkSpec == WorkInit /\ [][WorkNext]_workVars

=============================================================================
