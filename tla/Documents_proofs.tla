--------------------------- MODULE Documents_proofs ---------------------------
(***************************************************************************)
(* The system fields of one document, for any fields and any writers with  *)
(* any changes to make: what their overlapping merges leave in its two     *)
(* copies.  What one parse of the parser leaves to the next.  What the     *)
(* tables that list documents and the rest show, for any rows and columns, *)
(* and what the cells of the heatmap hold, for any values and texts.       *)
(***************************************************************************)
EXTENDS FieldsMerge, ParseRun, PagedTables, HeatmapGrid, FiniteSetTheorems, SequenceTheorems,
        WellFoundedInduction, TLAPS

-----------------------------------------------------------------------------
(* merge_doc_sys_fields                                                    *)

AtIt == {"loaded", "merging"}

MergeTypeOK ==
    /\ column \in [Fields -> Values]
    /\ json \in [Fields -> Values]
    /\ intended \in [Fields -> Values]
    /\ writer \in [Writers -> [at : {"before", "after"} \union AtIt, doc : [Fields -> Values],
                               read : [Fields -> Values], late : BOOLEAN]]
    /\ mixed \in BOOLEAN
    /\ misled \in BOOLEAN
    /\ reverted \in BOOLEAN

\* Of writers that have never overlapped one is at it at a time, and it has read
\* what is still there; an editor that is not late holds the columns as they are, but
\* for the contents when it has read the JSON after an overlap.
MergeInv ==
    /\ CopiesAgree
    /\ ColumnsHold
    /\ ~mixed => \A w \in Writers : writer[w].at \in AtIt =>
          /\ \A v \in Writers \ {w} : writer[v].at \notin AtIt
          /\ writer[w].at = "merging" => writer[w].read = json
          /\ w \in Editors => writer[w].doc = column
    /\ \A w \in Editors : writer[w].at \in AtIt /\ ~writer[w].late =>
          \A f \in Fields : writer[w].doc[f] = column[f] \/ (f \in FromJson /\ misled)

MergeIInv == MergeTypeOK /\ MergeInv

LEMMA MergeStarts == MergeInit => MergeIInv
<1> SUFFICES ASSUME MergeInit PROVE MergeIInv
  OBVIOUS
<1>1. Untouched \in [Fields -> Values]
  BY DEF Untouched, Values
<1>2. MergeTypeOK
  BY <1>1 DEF MergeInit, MergeTypeOK
<1>3. MergeInv
  BY MergeAssumption DEF MergeInit, MergeInv, CopiesAgree, ColumnsHold, AtIt
<1> QED
  BY <1>2, <1>3 DEF MergeIInv

\* What a writer is given is of the type of a value, field by field.
LEMMA MergedValues ==
    ASSUME MergeTypeOK, NEW w \in Writers, NEW f \in Fields
    PROVE  Merged(w, f) \in Values
BY DEF MergeTypeOK, Merged, GivenValue, Values

LEMMA LoadMerges ==
    ASSUME MergeIInv, NEW w \in Writers, LoadDoc(w)
    PROVE  MergeIInv'
<1> USE DEF AtIt
<1>0. Document \in [Fields -> Values]
  BY DEF MergeIInv, MergeTypeOK, Document
<1>1. MergeTypeOK'
  BY <1>0 DEF MergeIInv, MergeTypeOK, LoadDoc, Mixes
<1>2. /\ writer'[w] = [writer[w] EXCEPT !.at = "loaded", !.doc = Document]
      /\ \A v \in Writers \ {w} : writer'[v] = writer[v]
  BY DEF MergeIInv, MergeTypeOK, LoadDoc
<1>3. /\ writer'[w].at = "loaded"
      /\ writer'[w].doc = Document
  BY <1>2 DEF MergeIInv, MergeTypeOK
<1>4. ~mixed' => ~mixed /\ \A v \in Writers \ {w} : writer[v].at \notin AtIt
  BY DEF LoadDoc, Mixes
<1>5. UNCHANGED <<column, json, intended, reverted>> /\ misled' = (misled \/ mixed)
  BY DEF LoadDoc
<1>6. (CopiesAgree /\ ColumnsHold)'
  BY <1>4, <1>5 DEF MergeIInv, MergeInv, CopiesAgree, ColumnsHold
<1>7. ~mixed => Document = column
  <2>1. ~mixed => json = column
    BY DEF MergeIInv, MergeInv, CopiesAgree
  <2> QED
    BY <2>1 DEF Document, MergeIInv, MergeTypeOK
<1>8. \A f \in Fields : Document[f] = column[f] \/ (f \in FromJson /\ misled')
  <2>1. CASE mixed
    BY <1>5, <2>1 DEF Document
  <2>2. CASE ~mixed
    BY <1>7, <2>2
  <2> QED
    BY <2>1, <2>2
<1>9. \A v \in Writers \ {w} : writer'[v] = writer[v]
  BY <1>2
<1>10. (~mixed => \A v \in Writers : writer[v].at \in AtIt =>
          /\ \A u \in Writers \ {v} : writer[u].at \notin AtIt
          /\ writer[v].at = "merging" => writer[v].read = json
          /\ v \in Editors => writer[v].doc = column)'
  BY <1>3, <1>4, <1>5, <1>7, <1>9 DEF MergeIInv, MergeInv
<1>11. (\A v \in Editors : writer[v].at \in AtIt /\ ~writer[v].late =>
          \A f \in Fields : writer[v].doc[f] = column[f] \/ (f \in FromJson /\ misled))'
  BY <1>3, <1>5, <1>8, <1>9, MergeAssumption DEF MergeIInv, MergeInv
<1> QED
  BY <1>1, <1>6, <1>10, <1>11 DEF MergeIInv, MergeInv

LEMMA ReadMerges ==
    ASSUME MergeIInv, NEW w \in Writers, ReadFields(w)
    PROVE  MergeIInv'
<1> USE DEF AtIt
<1>1. MergeTypeOK'
  BY DEF MergeIInv, MergeTypeOK, ReadFields, Mixes
<1>2. /\ writer'[w] = [writer[w] EXCEPT !.at = "merging", !.read = json]
      /\ \A v \in Writers \ {w} : writer'[v] = writer[v]
  BY DEF MergeIInv, MergeTypeOK, ReadFields
<1>3. /\ writer'[w].at = "merging" /\ writer'[w].read = json
      /\ writer'[w].doc = writer[w].doc /\ writer'[w].late = writer[w].late
      /\ w \in Editors => writer[w].at = "loaded"
  BY <1>2 DEF MergeIInv, MergeTypeOK, ReadFields
<1>4. ~mixed' => ~mixed /\ \A v \in Writers \ {w} : writer[v].at \notin AtIt
  BY DEF ReadFields, Mixes
<1>5. UNCHANGED <<column, json, intended, misled, reverted>>
  BY DEF ReadFields
<1>6. (CopiesAgree /\ ColumnsHold)'
  BY <1>4, <1>5 DEF MergeIInv, MergeInv, CopiesAgree, ColumnsHold
<1>7. \A v \in Writers : /\ writer'[v].doc = writer[v].doc /\ writer'[v].late = writer[v].late
                         /\ v \in Editors => (writer'[v].at \in AtIt <=> writer[v].at \in AtIt)
  BY <1>2, <1>3
<1>8. (~mixed => \A v \in Writers : writer[v].at \in AtIt =>
          /\ \A u \in Writers \ {v} : writer[u].at \notin AtIt
          /\ writer[v].at = "merging" => writer[v].read = json
          /\ v \in Editors => writer[v].doc = column)'
  BY <1>2, <1>3, <1>4, <1>5 DEF MergeIInv, MergeInv
<1>9. (\A v \in Editors : writer[v].at \in AtIt /\ ~writer[v].late =>
          \A f \in Fields : writer[v].doc[f] = column[f] \/ (f \in FromJson /\ misled))'
  BY <1>5, <1>7, MergeAssumption DEF MergeIInv, MergeInv
<1> QED
  BY <1>1, <1>6, <1>8, <1>9 DEF MergeIInv, MergeInv

LEMMA WriteMerges ==
    ASSUME MergeIInv, NEW w \in Writers, WriteFields(w)
    PROVE  MergeIInv'
<1> USE DEF AtIt
<1>1. /\ writer[w].at = "merging"
      /\ \A v \in Writers \ {w} : writer'[v].at = writer[v].at /\ writer'[v].doc = writer[v].doc
                                  /\ writer'[v].read = writer[v].read
      /\ \A v \in Writers \ {w} : writer[v].at \in AtIt => writer'[v].late
      /\ writer'[w].at = "after"
  BY DEF MergeIInv, MergeTypeOK, WriteFields
<1>2. MergeTypeOK'
  <2>1. column' \in [Fields -> Values] /\ json' \in [Fields -> Values]
    BY MergedValues DEF MergeIInv, MergeTypeOK, WriteFields
  <2>2. intended' \in [Fields -> Values]
    BY DEF MergeIInv, MergeTypeOK, WriteFields, Values
  <2>3. writer' \in [Writers -> [at : {"before", "after"} \union AtIt, doc : [Fields -> Values],
                                 read : [Fields -> Values], late : BOOLEAN]]
    <3>1. Untouched \in [Fields -> Values]
      BY DEF Untouched, Values
    <3> QED
      BY <3>1 DEF MergeIInv, MergeTypeOK, WriteFields
  <2> QED
    BY <2>1, <2>2, <2>3 DEF MergeIInv, MergeTypeOK, WriteFields
<1>3. ColumnsHold'
  <2> SUFFICES ASSUME ~reverted', NEW f \in Fields
               PROVE  column'[f] = intended'[f] \/ (f \in FromJson /\ misled')
    BY DEF ColumnsHold
  <2>1. column[f] = intended[f] \/ (f \in FromJson /\ misled')
    BY DEF WriteFields, MergeIInv, MergeInv, ColumnsHold
  <2>2. w \in Editors => writer[w].doc[f] = column[f] \/ (f \in FromJson /\ misled')
    BY <1>1 DEF WriteFields, MergeIInv, MergeInv
  <2>3. /\ column'[f] = IF f \in Assigned(w) THEN Merged(w, f) ELSE column[f]
        /\ intended'[f] = IF f \in Meant[w] THEN w ELSE intended[f]
    BY DEF WriteFields
  <2> QED
    BY <2>1, <2>2, <2>3 DEF Assigned, Given, Merged, GivenValue
<1>4. CopiesAgree'
  <2> SUFFICES ASSUME ~mixed', NEW f \in Fields
               PROVE  column'[f] = intended'[f] /\ json'[f] = intended'[f]
    BY <1>2 DEF CopiesAgree, MergeTypeOK
  <2>1. column = intended /\ json = intended /\ writer[w].read = json
        /\ (w \in Editors => writer[w].doc = column)
    BY <1>1 DEF WriteFields, MergeIInv, MergeInv, CopiesAgree
  <2> QED
    BY <2>1 DEF WriteFields, Assigned, Given, Merged, GivenValue
<1>5. ~mixed' => \A v \in Writers : writer'[v].at \notin AtIt
  BY <1>1 DEF WriteFields, MergeIInv, MergeInv
<1>6. \A v \in Editors : writer'[v].at \in AtIt => writer'[v].late
  BY <1>1, MergeAssumption
<1> QED
  BY <1>2, <1>3, <1>4, <1>5, <1>6, MergeAssumption DEF MergeIInv, MergeInv

LEMMA MergeStep == MergeIInv /\ [MergeNext]_mergeVars => MergeIInv'
<1> SUFFICES ASSUME MergeIInv, [MergeNext]_mergeVars PROVE MergeIInv'
  OBVIOUS
<1>1. ASSUME NEW w \in Writers, LoadDoc(w) PROVE MergeIInv'
  BY <1>1, LoadMerges
<1>2. ASSUME NEW w \in Writers, ReadFields(w) PROVE MergeIInv'
  BY <1>2, ReadMerges
<1>3. ASSUME NEW w \in Writers, WriteFields(w) PROVE MergeIInv'
  BY <1>3, WriteMerges
<1>4. CASE UNCHANGED mergeVars
  BY <1>4 DEF mergeVars, MergeIInv, MergeTypeOK, MergeInv, CopiesAgree, ColumnsHold
<1> QED
  BY <1>1, <1>2, <1>3, <1>4 DEF MergeNext

\* However many writers a document has and whatever they change: while no two
\* overlap both copies of every field hold what was last meant for it, and as
\* long as no late editor has written the columns always do, those of the contents unless
\* an editor has read these from the JSON after an overlap (merge_doc_sys_fields,
\* get_document).
THEOREM MergesAlwaysHold == MergeSpec => []MergesHold
<1>1. MergeIInv => MergesHold
  BY DEF MergeIInv, MergeInv, MergesHold
<1> QED
  BY <1>1, MergeStarts, MergeStep, PTL DEF MergeSpec

-----------------------------------------------------------------------------
(* _parse_direct and _parse_in_subprocess                                  *)

ParseTypeOK ==
    /\ parser \in {"idle", "parsing", "retrying", "joining", "stopping"}
    /\ noOcr \in BOOLEAN
    /\ built \in {"none", "plain", "ocr", "lost"}
    /\ child \in {"none", "running", "told", "exited", "killed"}
    /\ handedIn \in {"nothing", "parsed", "error"}
    /\ sound \in BOOLEAN

\* Only a second attempt has a converter of another mode than the parser is
\* configured for, and only where OCR was configured to come second; without one
\* nothing is parsed.  A child is at work only while its call waits for it.
ParseInv ==
    /\ parser # "retrying" /\ built # "lost" => noOcr = NoOcr /\ built \in {"none", Mode(NoOcr)}
    /\ parser = "parsing" =>
          \/ built = Mode(NoOcr) /\ tried = <<Mode(NoOcr)>>
          \/ built = "lost" /\ tried = <<>>
    /\ parser = "retrying" => NoOcr /\ ~noOcr /\ built = "ocr" /\ tried = <<"plain", "ocr">>
    /\ child = "running" => parser = "joining"
    /\ child = "told" => parser = "stopping"

ParseIInv == ParseTypeOK /\ FirstAsConfigured /\ ParseInv

LEMMA ParseStarts == ParseInit => ParseIInv
BY ParseAssumption DEF ParseInit, ParseIInv, ParseTypeOK, FirstAsConfigured, ParseInv

LEMMA PairByAppend ==
    ASSUME NEW S, NEW a \in S, NEW b \in S
    PROVE  Append(<<a>>, b) = <<a, b>>
<1>1. <<a>> \in Seq(S) /\ <<a, b>> \in Seq(S) /\ Len(<<a>>) = 1 /\ Len(<<a, b>>) = 2
  OBVIOUS
<1>2. Append(<<a>>, b) \in Seq(S) /\ Len(Append(<<a>>, b)) = 2
  BY <1>1, AppendProperties
<1>3. \A i \in 1 .. 2 : Append(<<a>>, b)[i] = <<a, b>>[i]
  BY <1>1
<1> QED
  BY <1>1, <1>2, <1>3, SeqEqual

LEMMA ModesDiffer == Mode(NoOcr) \in {"plain", "ocr"} /\ (NoOcr => Mode(NoOcr) = "plain")
BY DEF Mode

LEMMA ParseStep == ParseIInv /\ [ParseNext]_parseVars => ParseIInv'
<1> SUFFICES ASSUME ParseIInv, [ParseNext]_parseVars PROVE ParseIInv'
  OBVIOUS
<1> USE ParseAssumption, ModesDiffer
    DEF ParseIInv, ParseTypeOK, FirstAsConfigured, ParseInv, Returns
<1>1. CASE ParseHere
  <2>1. \/ built' = Mode(NoOcr) /\ tried' = <<Mode(NoOcr)>>
        \/ built' = "lost" /\ tried' = <<>>
    BY <1>1 DEF ParseHere, SetUp
  <2>2. noOcr' = noOcr /\ (built' # "lost" => noOcr = NoOcr)
    BY <1>1 DEF ParseHere, SetUp
  <2>3. ParseTypeOK'
    BY <1>1, <2>1 DEF ParseHere
  <2>4. FirstAsConfigured'
    BY <2>1
  <2>5. ParseInv'
    BY <1>1, <2>1, <2>2 DEF ParseHere
  <2> QED
    BY <2>3, <2>4, <2>5
<1>2. ASSUME NEW found \in {"words", "few words", "nothing", "error"}, ParsedHere(found)
      PROVE  ParseIInv'
  <2>1. CASE Retries(found)
    <3>1. NoOcr /\ tried = <<"plain">>
      BY <1>2, <2>1 DEF ParsedHere, Retries, Gives
    <3>2. Append(<<"plain">>, "ocr") = <<"plain", "ocr">>
      BY PairByAppend
    <3>3. tried' = <<"plain", "ocr">>
      BY <1>2, <2>1, <3>1, <3>2 DEF ParsedHere
    <3> QED
      BY <1>2, <2>1, <3>1, <3>3 DEF ParsedHere
  <2>2. CASE ~Retries(found)
    BY <1>2, <2>2 DEF ParsedHere
  <2> QED
    BY <2>1, <2>2
<1>3. ASSUME NEW found \in {"words", "few words", "nothing", "error"}, RetriedHere(found)
      PROVE  ParseIInv'
  BY <1>3 DEF RetriedHere
<1>4. ASSUME NEW found \in {"words", "few words", "nothing", "error"}, RetryUnbuilt(found)
      PROVE  ParseIInv'
  BY <1>4 DEF RetryUnbuilt
<1>5. CASE StartChild
  BY <1>5 DEF StartChild, SetUp
<1>6. CASE ChildEnds
  BY <1>6 DEF ChildEnds
<1>7. CASE ChildKilled
  BY <1>7 DEF ChildKilled
<1>8. CASE Joined
  BY <1>8 DEF Joined
<1>9. CASE TimesOut
  BY <1>9 DEF TimesOut
<1>10. CASE GivesUp
  BY <1>10 DEF GivesUp
<1>11. CASE UNCHANGED parseVars
  BY <1>11 DEF parseVars
<1> QED
  BY <1>1, <1>2, <1>3, <1>4, <1>5, <1>6, <1>7, <1>8, <1>9, <1>10, <1>11 DEF ParseNext

\* However the parser is configured and whatever became of the documents before:
\* one is first parsed in the mode configured, by OCR only in a second attempt,
\* and no child outlives its call (_retry_with_ocr, _parse_in_subprocess).
THEOREM ParsesStayApart == ParseSpec => []ParsesAreApart
<1>1. ParseIInv => ParsesAreApart
  BY DEF ParseIInv, ParseTypeOK, ParseInv, ParsesAreApart, NoChildLeft
<1> QED
  BY <1>1, ParseStarts, ParseStep, PTL DEF ParseSpec

-----------------------------------------------------------------------------
(* The tables of the web client.                                           *)

ControlOf == [page : Nat \ {0}, column : Columns, order : {"asc", "desc"},
              filter : DOMAIN Kept, text : DOMAIN TextFinds]
TableRequest == [for : ControlOf, total : Int]

TableTypeOK ==
    /\ table \in Tables
    /\ rowsThere \subseteq TableRows
    /\ controls \in ControlOf
    /\ requested \in Seq(TableRequest)
    /\ dialog \in {None} \union ControlOf
    /\ table # "documents" => dialog = None

\* What was asked for is what the controls say, or the documents' table will ask again.
Meets(c) ==
    /\ ~statsLoad /\ ~typing => UpToOrder(c, controls)
    /\ table # "documents" => c = controls

Newest == requested[Len(requested)]

\* The newest request and the answer to it meet the controls; neither is older than
\* what has happened to the rows.
FollowInv ==
    /\ latest = "flying" => requested # <<>> /\ Meets(Newest.for)
    /\ latest = "shown" => visible.for \in ControlOf /\ Meets(visible.for)
CountInv ==
    untouched =>
      /\ latest = "flying" => \E c \in ControlOf : /\ c = Newest.for
                                                  /\ Newest.total \in {-1, Cardinality(Answering(c))}
      /\ latest = "shown" => \E c \in ControlOf : /\ c = visible.for
                                                 /\ visible.total = Cardinality(Answering(c))
                                                 /\ visible.rows \in PagesFor(c)

TableIInv == TableTypeOK /\ FollowInv /\ CountInv

LEMMA AnsweringIsFinite ==
    ASSUME rowsThere \subseteq TableRows, NEW c
    PROVE  IsFiniteSet(Answering(c)) /\ Cardinality(Answering(c)) \in Nat
BY TablesAssumption, FS_Subset, FS_CardinalityType, Answering(c) \in SUBSET TableRows DEF Answering

LEMMA NewestProperties ==
    ASSUME requested \in Seq(TableRequest), requested # <<>>
    PROVE  /\ Len(requested) \in 1 .. Len(requested)
           /\ Newest \in TableRequest /\ Newest.for \in ControlOf
<1>1. Len(requested) \in Nat \ {0}
  BY EmptySeq
<1>2. Len(requested) \in 1 .. Len(requested)
  BY <1>1
<1>3. Newest \in TableRequest
  BY <1>2, ElementOfSeq DEF Newest
<1> QED
  BY <1>2, <1>3 DEF TableRequest

LEMMA SameAnswers ==
    ASSUME UNCHANGED <<table, rowsThere>>, NEW c
    PROVE  Answering(c)' = Answering(c) /\ PagesFor(c)' = PagesFor(c)
<1>1. Answering(c)' = Answering(c)
  BY DEF Answering, Heard
<1>2. SortedBy(c.column)' = SortedBy(c.column)
  BY DEF SortedBy
<1>3. \A s : PageOf(c, s)' = PageOf(c, s)
  BY DEF PageOf
<1> QED
  BY <1>1, <1>2, <1>3 DEF PagesFor, InItsOrder, Earlier, EmptyAtEnd

\* A new request for c.
SentFor(c) ==
    /\ requested' \in Seq(TableRequest) /\ requested' # <<>>
    /\ Newest'.for = c /\ Newest'.total = -1
    /\ latest' = "flying"

LEMMA AppendSends ==
    ASSUME requested \in Seq(TableRequest), NEW c \in ControlOf,
           requested' = Append(requested, [for |-> c, total |-> -1])
    PROVE  /\ requested' \in Seq(TableRequest) /\ requested' # <<>>
           /\ Newest'.for = c /\ Newest'.total = -1
<1>1. [for |-> c, total |-> -1] \in TableRequest
  BY DEF TableRequest
<1> DEFINE e == [for |-> c, total |-> -1]
<1>2. e.for = c /\ e.total = -1
  OBVIOUS
<1> HIDE DEF e
<1>3. /\ Append(requested, e) \in Seq(TableRequest)
      /\ Append(requested, e) # <<>>
      /\ Len(Append(requested, e)) = Len(requested) + 1
      /\ Append(requested, e)[Len(requested) + 1] = e
  BY <1>1, AppendProperties DEF e
<1>4. requested' = Append(requested, e)
  BY DEF e
<1>5. Newest' = e
  BY <1>3, <1>4 DEF Newest
<1> QED
  BY <1>2, <1>3, <1>4, <1>5

LEMMA SendOne ==
    ASSUME requested \in Seq(TableRequest), NEW c \in ControlOf, Send(<<c>>)
    PROVE  SentFor(c)
<1> DEFINE e == [for |-> c, total |-> -1]
           cs == <<c>>
<1>1. requested' = requested \o [k \in DOMAIN cs |-> [for |-> cs[k], total |-> -1]]
  BY DEF Send
<1>2. [k \in DOMAIN cs |-> [for |-> cs[k], total |-> -1]] = <<e>>
  OBVIOUS
<1>3. e \in TableRequest
  BY DEF TableRequest
<1> HIDE DEF e
<1>4. requested \o <<e>> = Append(requested, e)
  BY <1>3, AppendIsConcat
<1>5. requested' = Append(requested, [for |-> c, total |-> -1])
  BY <1>1, <1>2, <1>4 DEF e
<1> QED
  BY <1>5, AppendSends DEF SentFor, Send

LEMMA ConcatTwo ==
    ASSUME NEW a, NEW b
    PROVE  <<a>> \o <<b>> = <<a, b>>
<1>1. <<a>> \in Seq({a, b}) /\ b \in {a, b} /\ a \in {a, b}
  OBVIOUS
<1>2. Append(<<a>>, b) = <<a>> \o <<b>>
  BY <1>1, AppendIsConcat
<1>3. Append(<<a>>, b) = <<a, b>>
  BY <1>1, PairByAppend
<1> QED
  BY <1>2, <1>3

LEMMA SendTwo ==
    ASSUME requested \in Seq(TableRequest), NEW c \in ControlOf, NEW d \in ControlOf,
           Send(<<c>> \o IfNewPage(d)), d.page = controls.page => c = d
    PROVE  SentFor(d)
<1>1. CASE d.page = controls.page
  <2>1. <<c>> \o IfNewPage(d) = <<c>>
    BY <1>1 DEF IfNewPage
  <2> QED
    BY <1>1, <2>1, SendOne
<1>2. CASE d.page # controls.page
  <2> DEFINE e == [for |-> c, total |-> -1]
             f == [for |-> d, total |-> -1]
             cs == <<c, d>>
  <2>1. <<c>> \o IfNewPage(d) = cs
    <3>1. IfNewPage(d) = <<d>>
      BY <1>2 DEF IfNewPage
    <3>2. <<c>> \o <<d>> = <<c, d>>
      BY ConcatTwo
    <3> QED
      BY <3>1, <3>2
  <2>2. /\ requested' = requested \o [k \in DOMAIN cs |-> [for |-> cs[k], total |-> -1]]
        /\ latest' = "flying"
    BY <2>1 DEF Send
  <2>3. [k \in DOMAIN cs |-> [for |-> cs[k], total |-> -1]] = <<e, f>>
    OBVIOUS
  <2>4. e \in TableRequest /\ f \in TableRequest
    BY DEF TableRequest
  <2>5. f.for = d /\ f.total = -1
    OBVIOUS
  <2> HIDE DEF e, f
  <2>6. <<e, f>> \in Seq(TableRequest) /\ Len(<<e, f>>) = 2 /\ <<e, f>>[2] = f
    BY <2>4
  <2>7. requested' = requested \o <<e, f>>
    BY <2>2, <2>3
  <2>8. /\ requested' \in Seq(TableRequest)
        /\ Len(requested') = Len(requested) + 2
        /\ requested'[Len(requested) + 2] = f
    <3>1. \A i \in 1 .. Len(requested) + Len(<<e, f>>) : (requested \o <<e, f>>)[i] =
              IF i <= Len(requested) THEN requested[i] ELSE <<e, f>>[i - Len(requested)]
      BY <2>6, ConcatProperties
    <3>2. Len(requested) \in Nat
      OBVIOUS
    <3>3. (requested \o <<e, f>>)[Len(requested) + 2] = <<e, f>>[2]
      BY <2>6, <3>1, <3>2
    <3> QED
      BY <2>6, <2>7, <3>3, ConcatProperties
  <2>9. requested' # <<>> /\ Newest' = f
    BY <2>8 DEF Newest
  <2> QED
    BY <2>2, <2>5, <2>8, <2>9 DEF SentFor
<1> QED
  BY <1>1, <1>2

TypesAfter ==
    /\ table' \in Tables
    /\ rowsThere' \subseteq TableRows
    /\ controls' \in ControlOf
    /\ dialog' \in {None} \union ControlOf
    /\ table' # "documents" => dialog' = None

\* A request for what the controls say makes the invariant true.
LEMMA SentIsFine ==
    ASSUME NEW c \in ControlOf, SentFor(c), Meets(c)', TypesAfter
    PROVE  TableIInv'
<1>1. TableTypeOK'
  BY DEF TableTypeOK, SentFor, TypesAfter
<1>2. FollowInv'
  <2>1. Meets(Newest.for)'
    BY DEF SentFor, Meets
  <2> QED
    BY <2>1 DEF FollowInv, SentFor
<1>3. CountInv'
  BY DEF CountInv, SentFor
<1> QED
  BY <1>1, <1>2, <1>3 DEF TableIInv

\* So does the loss of the newest request.
LEMMA LostIsFine ==
    ASSUME latest' = "lost", requested' \in Seq(TableRequest), TypesAfter
    PROVE  TableIInv'
BY DEF TableIInv, TableTypeOK, TypesAfter, FollowInv, CountInv

\* Whatever leaves requests and answers alone and does not turn from what was asked for.
LEMMA NothingSent ==
    ASSUME TableIInv, TypesAfter, UNCHANGED <<requested, visible, latest>>,
           \A c \in ControlOf : Meets(c) => Meets(c)',
           untouched' => untouched /\ UNCHANGED <<table, rowsThere>>
    PROVE  TableIInv'
<1>1. TableTypeOK'
  BY DEF TableIInv, TableTypeOK, TypesAfter
<1>2. FollowInv'
  <2>1. CASE latest = "flying"
    <3>1. PICK c \in ControlOf : c = Newest.for
      BY <2>1, NewestProperties DEF TableIInv, TableTypeOK, FollowInv
    <3>2. Newest' = Newest
      BY DEF Newest
    <3>3. Meets(c)'
      BY <2>1, <3>1 DEF TableIInv, FollowInv
    <3>4. Meets(Newest.for)'
      BY <3>1, <3>2, <3>3 DEF Meets
    <3> QED
      BY <2>1, <3>4 DEF TableIInv, FollowInv
  <2>2. CASE latest = "shown"
    <3>1. PICK c \in ControlOf : c = visible.for
      BY <2>2 DEF TableIInv, FollowInv
    <3>2. Meets(c)'
      BY <2>2, <3>1 DEF TableIInv, FollowInv
    <3>3. Meets(visible.for)'
      BY <3>1, <3>2 DEF Meets
    <3> QED
      BY <2>2, <3>1, <3>3 DEF TableIInv, FollowInv
  <2> QED
    BY <2>1, <2>2 DEF FollowInv
<1>3. CountInv'
  <2> SUFFICES ASSUME untouched' PROVE CountInv'
    BY DEF CountInv
  <2>1. UNCHANGED <<table, rowsThere, requested, visible, latest, Newest>> /\ untouched
    BY DEF Newest
  <2>2. \A c : Answering(c)' = Answering(c) /\ PagesFor(c)' = PagesFor(c)
    BY <2>1, SameAnswers
  <2> QED
    BY <2>1, <2>2 DEF TableIInv, CountInv
<1> QED
  BY <1>1, <1>2, <1>3 DEF TableIInv

\* The controls after each way to set them.
LEMMA ControlsStayTyped ==
    ASSUME controls \in ControlOf
    PROVE  /\ OnFirstPage(controls) \in ControlOf
           /\ \A by \in Columns : Sorted(by) \in ControlOf
           /\ \A by \in Columns : UpToOrder(Sorted(by), controls)
           /\ \A by \in Columns : OnFirstPage(Sorted(by)) \in ControlOf
           /\ \A f \in DOMAIN Kept : [controls EXCEPT !.filter = f] \in ControlOf
           /\ \A f \in DOMAIN Kept : OnFirstPage([controls EXCEPT !.filter = f]) \in ControlOf
           /\ \A t \in DOMAIN TextFinds : [controls EXCEPT !.text = t] \in ControlOf
           /\ \A t \in DOMAIN TextFinds : OnFirstPage([controls EXCEPT !.text = t]) \in ControlOf
           /\ \A p \in Nat \ {0} : [controls EXCEPT !.page = p] \in ControlOf
<1>1. \A c \in ControlOf : OnFirstPage(c) \in ControlOf
  BY DEF ControlOf, OnFirstPage
<1>2. ASSUME NEW by \in Columns
      PROVE  /\ Sorted(by) \in ControlOf /\ UpToOrder(Sorted(by), controls)
             /\ OnFirstPage(Sorted(by)) \in ControlOf
  <2>1. PICK o \in {"asc", "desc"} :
            Sorted(by) = [controls EXCEPT !.column = by, !.order = o]
    BY DEF Sorted
  <2>2. [controls EXCEPT !.column = by, !.order = o] \in ControlOf
    BY DEF ControlOf
  <2>3. UpToOrder([controls EXCEPT !.column = by, !.order = o], controls)
    BY DEF ControlOf, UpToOrder
  <2> QED
    BY <1>1, <2>1, <2>2, <2>3
<1>3. ASSUME NEW f \in DOMAIN Kept PROVE [controls EXCEPT !.filter = f] \in ControlOf
  BY DEF ControlOf
<1>4. ASSUME NEW t \in DOMAIN TextFinds PROVE [controls EXCEPT !.text = t] \in ControlOf
  BY DEF ControlOf
<1>5. \A p \in Nat \ {0} : [controls EXCEPT !.page = p] \in ControlOf
  BY DEF ControlOf
<1> QED
  BY <1>1, <1>2, <1>3, <1>4, <1>5

LEMMA FirstPageOnce ==
    ASSUME NEW c \in ControlOf
    PROVE  OnFirstPage(c).page = c.page => OnFirstPage(c) = c
BY DEF OnFirstPage, ControlOf

LEMMA SendNow ==
    ASSUME TableIInv, controls' \in ControlOf, Send(<<controls'>>),
           UNCHANGED <<table, rowsThere, dialog>>
    PROVE  TableIInv'
<1>1. PICK c \in ControlOf : c = controls'
  OBVIOUS
<1>2. SentFor(c)
  <2>1. Send(<<c>>)
    BY <1>1
  <2> QED
    BY <2>1, SendOne DEF TableIInv, TableTypeOK
<1>3. Meets(c)'
  BY <1>1 DEF Meets, UpToOrder
<1> QED
  BY <1>2, <1>3, SentIsFine DEF TypesAfter, TableIInv, TableTypeOK

\* Whoever turns to the first page may ask for the old page before.
LEMMA SendBoth ==
    ASSUME TableIInv, NEW c \in ControlOf, controls' = OnFirstPage(c), c.page = controls.page,
           Send(<<c>> \o IfNewPage(controls')), controls' \in ControlOf,
           UNCHANGED <<table, rowsThere, dialog>>
    PROVE  TableIInv'
<1>1. PICK d \in ControlOf : d = controls'
  OBVIOUS
<1>2. d.page = controls.page => c = d
  BY <1>1, FirstPageOnce
<1>3. SentFor(d)
  <2>1. Send(<<c>> \o IfNewPage(d))
    BY <1>1
  <2> QED
    BY <1>2, <2>1, SendTwo DEF TableIInv, TableTypeOK
<1>4. Meets(d)'
  BY <1>1 DEF Meets, UpToOrder
<1> QED
  BY <1>3, <1>4, SentIsFine DEF TypesAfter, TableIInv, TableTypeOK

LEMMA LoadSends ==
    ASSUME TableIInv, LoadFromFirst, UNCHANGED <<table, rowsThere, dialog>>
    PROVE  TableIInv'
<1>1. PICK c \in ControlOf : c = controls
  BY DEF TableIInv, TableTypeOK
<1>2. controls' = OnFirstPage(c) /\ Send(<<c>> \o IfNewPage(controls'))
  BY <1>1 DEF LoadFromFirst
<1>3. controls' \in ControlOf
  BY <1>1, <1>2, ControlsStayTyped
<1> QED
  BY <1>1, <1>2, <1>3, SendBoth

LEMMA AfterRemoval ==
    ASSUME requested \in Seq(TableRequest), NEW k \in DOMAIN requested
    PROVE  /\ RemoveAt(requested, k) \in Seq(TableRequest)
           /\ k # Len(requested) => /\ RemoveAt(requested, k) # <<>>
                                    /\ RemoveAt(requested, k)[Len(RemoveAt(requested, k))] = Newest
<1>1. PICK s \in Seq(TableRequest) : s = requested
  OBVIOUS
<1> DEFINE n == Len(s)
           a == SubSeq(s, 1, k - 1)
           b == SubSeq(s, k + 1, n)
<1>2. n \in Nat /\ k \in 1 .. n
  BY <1>1
<1>3. \A i \in 1 .. n : s[i] \in TableRequest
  BY ElementOfSeq
<1>4. a \in Seq(TableRequest) /\ Len(a) = k - 1
  <2>1. \A i \in 1 .. k - 1 : s[i] \in TableRequest
    BY <1>2, <1>3
  <2>2. k - 1 \in Int
    BY <1>2
  <2> QED
    BY <1>2, <2>1, <2>2, SubSeqProperties
<1>5. /\ b \in Seq(TableRequest) /\ Len(b) = n - k
      /\ k < n => b[n - k] = s[n]
  <2>1. \A i \in k + 1 .. n : s[i] \in TableRequest
    BY <1>2, <1>3
  <2>2. k + 1 \in Int /\ n \in Int
    BY <1>2
  <2>3. /\ b \in Seq(TableRequest)
        /\ Len(b) = IF k + 1 <= n THEN n - (k + 1) + 1 ELSE 0
        /\ \A i \in 1 .. n - (k + 1) + 1 : b[i] = s[k + 1 + i - 1]
    BY <2>1, <2>2, SubSeqProperties
  <2> HIDE DEF b
  <2>4. Len(b) = n - k
    BY <1>2, <2>3
  <2>5. ASSUME k < n PROVE b[n - k] = s[n]
    <3>1. n - k \in 1 .. n - (k + 1) + 1
      BY <1>2, <2>5
    <3>2. b[n - k] = s[k + 1 + (n - k) - 1]
      BY <2>3, <3>1
    <3>3. k + 1 + (n - k) - 1 = n
      BY <1>2
    <3> QED
      BY <3>2, <3>3
  <2> QED
    BY <2>3, <2>4, <2>5
<1>6. RemoveAt(s, k) = a \o b
  BY DEF RemoveAt
<1> HIDE DEF a, b
<1>7. /\ a \o b \in Seq(TableRequest)
      /\ Len(a \o b) = n - 1
      /\ \A i \in 1 .. n - 1 : (a \o b)[i] = IF i <= k - 1 THEN a[i] ELSE b[i - (k - 1)]
  <2>1. Len(a) + Len(b) = n - 1
    BY <1>2, <1>4, <1>5
  <2>2. /\ a \o b \in Seq(TableRequest)
        /\ Len(a \o b) = Len(a) + Len(b)
        /\ \A i \in 1 .. Len(a) + Len(b) :
              (a \o b)[i] = IF i <= Len(a) THEN a[i] ELSE b[i - Len(a)]
    BY <1>4, <1>5, ConcatProperties
  <2> QED
    BY <1>4, <2>1, <2>2
<1>8. ASSUME k # n PROVE a \o b # <<>> /\ (a \o b)[n - 1] = s[n]
  <2>1. n - 1 \in 1 .. n - 1 /\ ~(n - 1 <= k - 1) /\ k < n /\ (n - 1) - (k - 1) = n - k
    BY <1>2, <1>8
  <2> QED
    BY <1>5, <1>7, <2>1
<1> QED
  BY <1>1, <1>6, <1>7, <1>8 DEF Newest

LEMMA SpokenFor ==
    ASSUME TableIInv, NEW k \in DOMAIN requested, CountRows(k)
    PROVE  TableIInv'
<1> DEFINE m == Cardinality(Answering(requested[k].for))
           n == Len(requested)
<1>1. requested \in Seq(TableRequest) /\ k \in 1 .. n /\ n \in Nat
  BY DEF TableIInv, TableTypeOK
<1>2. m \in Nat
  BY AnsweringIsFinite DEF TableIInv, TableTypeOK
<1>3. requested' = [requested EXCEPT ![k].total = m]
  BY DEF CountRows
<1>4. requested[k] \in TableRequest
  BY <1>1, ElementOfSeq
<1> HIDE DEF m
<1>5. requested' \in Seq(TableRequest) /\ Len(requested') = n
  BY <1>1, <1>2, <1>3, <1>4 DEF TableRequest
<1>6. /\ requested' # <<>>
      /\ Newest'.for = Newest.for
      /\ Newest'.total = Newest.total \/ (Newest'.total = m /\ k = n)
  <2>1. requested[n] \in TableRequest
    BY <1>1, ElementOfSeq
  <2>2. requested'[n] = IF k = n THEN [requested[n] EXCEPT !.total = m] ELSE requested[n]
    BY <1>1, <1>3
  <2> QED
    BY <1>1, <1>5, <2>1, <2>2 DEF Newest, TableRequest
<1>7. TableTypeOK'
  BY <1>5 DEF CountRows, TableIInv, TableTypeOK
<1>8. PICK c \in ControlOf : c = Newest.for
  BY <1>1, EmptySeq, NewestProperties
<1>9. /\ Meets(c) => Meets(c)'
      /\ \A d : Answering(d)' = Answering(d) /\ PagesFor(d)' = PagesFor(d)
  BY SameAnswers DEF CountRows, Meets
<1>10. FollowInv'
  <2>1. latest = "flying" => Meets(Newest.for)'
    BY <1>6, <1>8, <1>9 DEF TableIInv, FollowInv, Meets
  <2>2. latest = "shown" => Meets(visible.for)'
    BY DEF CountRows, TableIInv, FollowInv, Meets
  <2> QED
    BY <1>6, <2>1, <2>2 DEF CountRows, TableIInv, FollowInv
<1>11. CountInv'
  <2>1. ASSUME untouched, latest = "flying"
        PROVE  c = Newest'.for /\ Newest'.total \in {-1, Cardinality(Answering(c))}
    <3>1. k = n => m = Cardinality(Answering(c))
      BY <1>8 DEF m, Newest
    <3> QED
      BY <1>6, <1>8, <2>1, <3>1 DEF TableIInv, CountInv
  <2> QED
    BY <1>9, <2>1 DEF CountRows, TableIInv, CountInv
<1> QED
  BY <1>7, <1>10, <1>11 DEF TableIInv

\* What is shown was asked for last, or what was asked for last is still under way.
LEMMA AnsweredFor ==
    ASSUME TableIInv, NEW k \in DOMAIN requested, PageArrives(k)
    PROVE  TableIInv'
<1>1. /\ requested \in Seq(TableRequest) /\ requested # <<>>
      /\ k \in 1 .. Len(requested) /\ Len(requested) \in Nat
  BY DEF TableIInv, TableTypeOK
<1>2. /\ RemoveAt(requested, k) \in Seq(TableRequest)
      /\ k # Len(requested) => /\ RemoveAt(requested, k) # <<>>
                               /\ RemoveAt(requested, k)[Len(RemoveAt(requested, k))] = Newest
  BY <1>1, AfterRemoval
<1>3. /\ requested' \in Seq(TableRequest)
      /\ k # Len(requested) => requested' # <<>> /\ Newest' = Newest
  BY <1>2 DEF PageArrives, Newest
<1>4. UNCHANGED <<table, rowsThere, controls, statsLoad, typing, dialog, untouched>>
  BY DEF PageArrives
<1>5. TypesAfter
  BY <1>4 DEF TypesAfter, TableIInv, TableTypeOK
<1>6. CASE latest = "flying" /\ k = Len(requested)
  <2>1. latest' = "shown"
    BY <1>6 DEF PageArrives, AfterAnswer
  <2>2. PICK c \in ControlOf : c = Newest.for
    BY <1>1, NewestProperties
  <2>3. /\ visible'.for = c /\ visible'.total = Newest.total
        /\ visible'.rows \in PagesFor(c)
        /\ Newest.total # -1
    BY <1>6, <2>2 DEF PageArrives, Newest
  <2>4. Meets(c)'
    BY <1>4, <1>6, <2>2 DEF TableIInv, FollowInv, Meets
  <2>5. FollowInv'
    <3>1. Meets(visible.for)'
      BY <2>3, <2>4 DEF Meets
    <3> QED
      BY <2>1, <2>3, <3>1 DEF FollowInv
  <2>6. CountInv'
    <3> SUFFICES ASSUME untouched'
                 PROVE  /\ visible'.total = Cardinality(Answering(c)')
                        /\ visible'.rows \in PagesFor(c)'
      BY <2>1, <2>3 DEF CountInv
    <3>1. Newest.total = Cardinality(Answering(c))
      BY <1>4, <1>6, <2>2, <2>3 DEF TableIInv, CountInv
    <3>2. Answering(c)' = Answering(c) /\ PagesFor(c)' = PagesFor(c)
      BY <1>4, SameAnswers
    <3> QED
      BY <2>3, <3>1, <3>2
  <2>7. TableTypeOK'
    BY <1>3, <1>5 DEF TypesAfter, TableTypeOK
  <2> QED
    BY <2>5, <2>6, <2>7 DEF TableIInv
<1>7. CASE latest = "flying" /\ k # Len(requested)
  <2>1. latest' = "flying"
    BY <1>7 DEF PageArrives, AfterAnswer
  <2>2. requested' # <<>> /\ Newest' = Newest
    BY <1>3, <1>7
  <2>3. PICK c \in ControlOf : c = Newest.for
    BY <1>1, NewestProperties
  <2>4. Meets(Newest.for)'
    BY <1>4, <1>7, <2>2 DEF TableIInv, FollowInv, Meets
  <2>5. Answering(c)' = Answering(c)
    BY <1>4, SameAnswers
  <2>6. CountInv'
    BY <1>4, <1>7, <2>1, <2>2, <2>3, <2>5 DEF TableIInv, CountInv
  <2> QED
    BY <1>3, <1>5, <2>1, <2>2, <2>4, <2>6 DEF TableIInv, TypesAfter, TableTypeOK, FollowInv
<1>8. CASE latest # "flying"
  <2>1. latest' \notin {"flying", "shown"}
    BY <1>8 DEF PageArrives, AfterAnswer
  <2> QED
    BY <1>3, <1>5, <2>1 DEF TableIInv, TypesAfter, TableTypeOK, FollowInv, CountInv
<1> QED
  BY <1>6, <1>7, <1>8

LEMMA FailedFor ==
    ASSUME TableIInv, NEW k \in DOMAIN requested, PageFails(k)
    PROVE  TableIInv'
<1>1. /\ requested \in Seq(TableRequest) /\ requested # <<>>
      /\ k \in 1 .. Len(requested) /\ Len(requested) \in Nat
  BY DEF TableIInv, TableTypeOK
<1>2. /\ RemoveAt(requested, k) \in Seq(TableRequest)
      /\ k # Len(requested) => /\ RemoveAt(requested, k) # <<>>
                               /\ RemoveAt(requested, k)[Len(RemoveAt(requested, k))] = Newest
  BY <1>1, AfterRemoval
<1>3. /\ requested' \in Seq(TableRequest)
      /\ k # Len(requested) => requested' # <<>> /\ Newest' = Newest
  BY <1>2 DEF PageFails, Newest
<1>4. UNCHANGED <<table, rowsThere, controls, visible, statsLoad, typing, dialog, untouched>>
  BY DEF PageFails
<1>5. TableTypeOK'
  BY <1>3, <1>4 DEF TableIInv, TableTypeOK
<1>6. CASE latest = "flying" /\ k = Len(requested)
  <2>1. latest' = "lost"
    BY <1>6 DEF PageFails, AfterAnswer
  <2> QED
    BY <1>5, <2>1 DEF TableIInv, FollowInv, CountInv
<1>7. CASE ~(latest = "flying" /\ k = Len(requested))
  <2>1. latest' = latest
    BY <1>7 DEF PageFails, AfterAnswer
  <2>2. latest = "flying" => requested' # <<>> /\ Newest' = Newest
    BY <1>3, <1>7
  <2>3. FollowInv'
    BY <1>4, <2>1, <2>2 DEF TableIInv, FollowInv, Meets
  <2>4. CountInv'
    <3>1. \A c : Answering(c)' = Answering(c) /\ PagesFor(c)' = PagesFor(c)
      BY <1>4, SameAnswers
    <3> QED
      BY <1>4, <2>1, <2>2, <3>1 DEF TableIInv, CountInv
  <2> QED
    BY <1>5, <2>3, <2>4 DEF TableIInv
<1> QED
  BY <1>6, <1>7

LEMMA TablesStart == TableInit => TableIInv
<1> SUFFICES ASSUME TableInit PROVE TableIInv
  OBVIOUS
<1>1. FirstColumn \in Columns
  BY TablesAssumption
<1>2. controls \in ControlOf
  <2>1. PICK p \in {1, 2}, t \in DOMAIN TextFinds :
            controls = [page |-> p, column |-> FirstColumn, order |-> "desc",
                        filter |-> "all", text |-> t]
    BY DEF TableInit
  <2>2. "all" \in DOMAIN Kept
    BY TablesAssumption
  <2>3. p \in Nat \ {0}
    OBVIOUS
  <2> QED
    BY <1>1, <2>1, <2>2, <2>3 DEF ControlOf
<1>3. [for |-> controls, total |-> -1] \in TableRequest
  BY <1>2 DEF TableRequest
<1>4. /\ requested \in Seq(TableRequest) /\ requested # <<>>
      /\ Newest.for = controls /\ Newest.total = -1
  <2> DEFINE e == [for |-> controls, total |-> -1]
  <2>1. requested = <<e>> /\ e.for = controls /\ e.total = -1 /\ e \in TableRequest
    BY <1>3 DEF TableInit
  <2> HIDE DEF e
  <2> QED
    BY <2>1 DEF Newest
<1>5. Meets(Newest.for)
  BY <1>4 DEF Meets, UpToOrder
<1>6. TableTypeOK
  BY <1>2, <1>4 DEF TableInit, TableTypeOK
<1>7. FollowInv
  BY <1>4, <1>5 DEF TableInit, FollowInv
<1>8. CountInv
  BY <1>2, <1>4 DEF TableInit, CountInv
<1> QED
  BY <1>6, <1>7, <1>8 DEF TableIInv

LEMMA TablesInductive == TableIInv /\ [TableNext]_tableVars => TableIInv'
<1>1. ASSUME TableIInv, UNCHANGED tableVars PROVE TableIInv'
  <2>1. UNCHANGED <<table, rowsThere, controls, requested, visible, statsLoad, typing, dialog,
                    latest, untouched>>
    BY <1>1 DEF tableVars
  <2>2. \A c \in ControlOf : Meets(c) => Meets(c)'
    BY <2>1 DEF Meets
  <2>3. TypesAfter
    BY <1>1, <2>1 DEF TypesAfter, TableIInv, TableTypeOK
  <2> QED
    BY <1>1, <2>1, <2>2, <2>3, NothingSent
<1>2. ASSUME TableIInv, TableNext PROVE TableIInv'
  <2>1. controls \in ControlOf /\ TableTypeOK
    BY <1>2 DEF TableIInv, TableTypeOK
  <2>2. ASSUME NEW by \in Columns, ClickSort(by) PROVE TableIInv'
    <3>1. CASE table = "documents"
      <4>1. /\ controls' = Sorted(by) /\ table' = "documents" /\ table = "documents"
            /\ UNCHANGED <<table, rowsThere, requested, visible, statsLoad,
                           typing, dialog, latest, untouched>>
        BY <2>2, <3>1 DEF ClickSort
      <4>2. controls' \in ControlOf /\ UpToOrder(controls', controls)
        BY <2>1, <4>1, ControlsStayTyped
      <4>3. \A c \in ControlOf : Meets(c) => Meets(c)'
        BY <4>1, <4>2 DEF Meets, UpToOrder
      <4> QED
        BY <1>2, <2>1, <4>1, <4>2, <4>3, NothingSent DEF TypesAfter, TableTypeOK
    <3>2. CASE table # "documents"
      BY <1>2, <2>1, <2>2, <3>2, SendNow, ControlsStayTyped DEF ClickSort
    <3> QED
      BY <3>1, <3>2
  <2>3. ASSUME NEW f \in DOMAIN Kept, SetFilter(f) PROVE TableIInv'
    <3> DEFINE here == [controls EXCEPT !.filter = f]
    <3>1. /\ controls' = OnFirstPage(here) /\ controls' \in ControlOf
          /\ here \in ControlOf /\ here.page = controls.page
          /\ UNCHANGED <<table, rowsThere, dialog>>
      BY <2>1, <2>3, ControlsStayTyped DEF SetFilter, ControlOf
    <3>2. CASE table = "audit"
      <4>1. Send(<<here>> \o IfNewPage(controls'))
        BY <2>3, <3>1, <3>2 DEF SetFilter, AuditSends
      <4>2. PICK c \in ControlOf : c = here
        BY <3>1
      <4> HIDE DEF here
      <4> QED
        BY <1>2, <3>1, <4>1, <4>2, SendBoth
    <3>3. CASE table # "audit"
      BY <1>2, <2>3, <3>1, <3>3, SendNow DEF SetFilter
    <3> QED
      BY <3>2, <3>3
  <2>4. ASSUME SetLocalFilter PROVE TableIInv'
    <3>1. controls' = controls
      BY <2>4 DEF SetLocalFilter
    <3>2. Send(<<controls'>>)
      BY <2>4, <3>1 DEF SetLocalFilter
    <3> QED
      BY <1>2, <2>1, <2>4, <3>1, <3>2, SendNow DEF SetLocalFilter
  <2>5. ASSUME NEW t \in DOMAIN TextFinds, SubmitText(t) PROVE TableIInv'
    BY <1>2, <2>1, <2>5, SendNow, ControlsStayTyped DEF SubmitText
  <2>6. ASSUME NEW t \in DOMAIN TextFinds, Type(t) PROVE TableIInv'
    <3>1. /\ table = "documents" /\ table' = "documents" /\ typing' = TRUE
          /\ controls' \in ControlOf
          /\ UNCHANGED <<table, rowsThere, requested, visible, statsLoad,
                         dialog, latest, untouched>>
      BY <2>1, <2>6, ControlsStayTyped DEF Type
    <3>2. \A c \in ControlOf : Meets(c)'
      BY <3>1 DEF Meets
    <3> QED
      BY <1>2, <2>1, <3>1, <3>2, NothingSent DEF TypesAfter, TableTypeOK
  <2>7. ASSUME TextSettles PROVE TableIInv'
    <3>1. CASE statsLoad
      <4>1. UNCHANGED <<table, rowsThere, controls, requested, visible, statsLoad,
                        dialog, latest, untouched>>
        BY <2>7, <3>1 DEF TextSettles
      <4>2. \A c \in ControlOf : Meets(c) => Meets(c)'
        BY <3>1, <4>1 DEF Meets
      <4> QED
        BY <1>2, <2>1, <4>1, <4>2, NothingSent DEF TypesAfter, TableTypeOK
    <3>2. CASE ~statsLoad
      BY <1>2, <2>7, <3>2, LoadSends DEF TextSettles
    <3> QED
      BY <3>1, <3>2
  <2>8. ASSUME StatsArrive PROVE TableIInv'
    <3>1. \A c \in ControlOf : Meets(c) => Meets(c)'
      BY <2>8 DEF StatsArrive, Meets
    <3> QED
      BY <1>2, <2>1, <2>8, <3>1, NothingSent DEF StatsArrive, TypesAfter, TableTypeOK
  <2>9. ASSUME Refresh PROVE TableIInv'
    BY <1>2, <2>9, LoadSends DEF Refresh
  <2>10. ASSUME NEW p \in Nat \ {0}, TurnPage(p) PROVE TableIInv'
    BY <1>2, <2>1, <2>10, SendNow, ControlsStayTyped DEF TurnPage
  <2>11. ASSUME BeginDialog PROVE TableIInv'
    <3>1. \A c \in ControlOf : Meets(c) => Meets(c)'
      BY <2>11 DEF BeginDialog, Meets
    <3> QED
      BY <1>2, <2>1, <2>11, <3>1, NothingSent DEF BeginDialog, TypesAfter, TableTypeOK
  <2>12. ASSUME NEW done \in BOOLEAN, EndDialog(done) PROVE TableIInv'
    <3>1. /\ dialog' = None /\ dialog # None
          /\ UNCHANGED <<table, rowsThere, controls, visible, statsLoad, typing>>
      BY <2>12 DEF EndDialog
    <3>2. TypesAfter /\ table = "documents"
      BY <2>1, <3>1 DEF TypesAfter, TableTypeOK
    <3>3. CASE done
      <4>1. PICK c \in ControlOf : c = dialog
        BY <2>1, <3>1 DEF TableTypeOK
      <4>2. /\ requested' = Append(requested, [for |-> c, total |-> -1])
            /\ latest' = IF UpToOrder(c, controls) THEN "flying" ELSE "lost"
        BY <2>12, <3>3, <4>1 DEF EndDialog
      <4>3. /\ requested' \in Seq(TableRequest) /\ requested' # <<>>
            /\ Newest'.for = c /\ Newest'.total = -1
        BY <2>1, <4>2, AppendSends DEF TableTypeOK
      <4>4. CASE UpToOrder(c, controls)
        <5>1. SentFor(c)
          BY <4>2, <4>3, <4>4 DEF SentFor
        <5>2. Meets(c)'
          BY <3>1, <3>2, <4>4 DEF Meets, UpToOrder
        <5> QED
          BY <3>2, <5>1, <5>2, SentIsFine
      <4>5. CASE ~UpToOrder(c, controls)
        BY <3>2, <4>2, <4>3, <4>5, LostIsFine
      <4> QED
        BY <4>4, <4>5
    <3>4. CASE ~done
      <4>1. UNCHANGED <<requested, latest, untouched>>
        BY <2>12, <3>4 DEF EndDialog
      <4>2. \A c \in ControlOf : Meets(c) => Meets(c)'
        BY <3>1 DEF Meets
      <4> QED
        BY <1>2, <3>1, <3>2, <4>1, <4>2, NothingSent
    <3> QED
      BY <3>3, <3>4
  <2>13. ASSUME RowsChange PROVE TableIInv'
    <3>1. \A c \in ControlOf : Meets(c) => Meets(c)'
      BY <2>13 DEF RowsChange, Meets
    <3>2. rowsThere' \subseteq TableRows
      BY <2>1, <2>13 DEF RowsChange, TableTypeOK
    <3> QED
      BY <1>2, <2>1, <2>13, <3>1, <3>2, NothingSent DEF RowsChange, TypesAfter, TableTypeOK
  <2>14. ASSUME NEW p \in 1 .. Cardinality(TableRows), TurnPage(p) PROVE TableIInv'
    <3>1. Cardinality(TableRows) \in Nat
      BY TablesAssumption, FS_CardinalityType
    <3>2. p \in Nat \ {0}
      BY <3>1
    <3> QED
      BY <2>10, <2>14, <3>2
  <2> QED
    BY <1>2, <2>2, <2>3, <2>4, <2>5, <2>6, <2>7, <2>8, <2>9, <2>11, <2>12, <2>13, <2>14,
       SpokenFor, AnsweredFor, FailedFor DEF TableNext
<1> QED
  BY <1>1, <1>2

\* A sequence takes at most as many values as there are places.
LEMMA ValuesBound ==
    ASSUME NEW s, NEW a \in Int, NEW b \in Int, a <= b + 1
    PROVE  /\ IsFiniteSet({s[i] : i \in a .. b})
           /\ Cardinality({s[i] : i \in a .. b}) <= b - a + 1
<1> DEFINE I == a .. b
           T == {s[i] : i \in I}
           f == [i \in I |-> s[i]]
<1>1. IsFiniteSet(I) /\ Cardinality(I) = b - a + 1
  <2>1. IsFiniteSet(I) /\ Cardinality(I) = IF a > b THEN 0 ELSE b - a + 1
    BY FS_Interval
  <2> QED
    BY <2>1
<1>2. f \in Surjection(I, T)
  BY DEF Surjection
<1> HIDE DEF I, T, f
<1>3. IsFiniteSet(T) /\ Cardinality(T) <= Cardinality(I)
  BY <1>1, <1>2, FS_Surjection
<1> QED
  BY <1>1, <1>3 DEF T, I

InPlaces(S, c, col, s) ==
    /\ Cardinality(S) \in Nat
    /\ s \in [1 .. Cardinality(S) -> S]
    /\ \A r \in S : \E p \in 1 .. Cardinality(S) : s[p] = r
    /\ \A p \in 1 .. Cardinality(S) :
          /\ Cardinality({q \in S : Earlier(c, col, q, s[p])}) < p
          /\ p <= Cardinality(S) - Cardinality({q \in S : Earlier(c, col, s[p], q)})

\* In a list of everything in order, whatever comes before a row has a place before it.
LEMMA PlacesInOrder ==
    ASSUME NEW S, IsFiniteSet(S), NEW c, NEW col \in Columns, S \subseteq TableRows,
           NEW s \in SetToSeqs(S), InItsOrder(c, col, s)
    PROVE  InPlaces(S, c, col, s)
<1> DEFINE n == Cardinality(S)
<1>1. n \in Nat
  BY FS_CardinalityType
<1>2. s \in [1 .. n -> S] /\ \A i, j \in 1 .. n : i # j => s[i] # s[j]
  BY DEF SetToSeqs
<1>3. IsFiniteSet(1 .. n) /\ Cardinality(1 .. n) = n
  <2>1. Cardinality(1 .. n) = IF 1 > n THEN 0 ELSE n - 1 + 1
    BY <1>1, FS_Interval
  <2> QED
    BY <1>1, <2>1, FS_Interval
<1>4. s \in Injection(1 .. n, S)
  BY <1>2 DEF Injection, IsInjective
<1>5. s \in Surjection(1 .. n, S)
  BY <1>3, <1>4, FS_Injection
<1>6. \A r \in S : \E p \in 1 .. n : s[p] = r
  BY <1>5 DEF Surjection
<1>7. \A r, q \in S : KeyOf[col][r] \in Int /\ KeyOf[col][q] \in Int
  BY TablesAssumption
<1>8. \A r \in S : ~Earlier(c, col, r, r)
  BY <1>7 DEF Earlier
<1>9. \A i, j \in 1 .. n : i < j => ~Earlier(c, col, s[j], s[i])
  BY <1>2 DEF InItsOrder
<1> HIDE DEF n
<1>10. ASSUME NEW p \in 1 .. n
       PROVE  /\ Cardinality({q \in S : Earlier(c, col, q, s[p])}) < p
              /\ p <= n - Cardinality({q \in S : Earlier(c, col, s[p], q)})
  <2> DEFINE A == {q \in S : Earlier(c, col, q, s[p])}
             B == {q \in S : Earlier(c, col, s[p], q)}
             C == {s[i] : i \in 1 .. p - 1}
             D == {s[i] : i \in p + 1 .. n}
  <2>1. A \subseteq C
    <3> SUFFICES ASSUME NEW q \in A PROVE q \in C
      OBVIOUS
    <3>1. PICK i \in 1 .. n : s[i] = q
      BY <1>6
    <3>2. Earlier(c, col, s[i], s[p]) /\ s[p] \in S
      BY <1>2, <3>1
    <3>3. i # p /\ ~(p < i)
      BY <1>8, <1>9, <3>2
    <3>4. i \in 1 .. p - 1
      BY <1>1, <3>3
    <3> QED
      BY <3>1, <3>4
  <2>2. B \subseteq D
    <3> SUFFICES ASSUME NEW q \in B PROVE q \in D
      OBVIOUS
    <3>1. PICK i \in 1 .. n : s[i] = q
      BY <1>6
    <3>2. Earlier(c, col, s[p], s[i]) /\ s[p] \in S
      BY <1>2, <3>1
    <3>3. i # p /\ ~(i < p)
      BY <1>8, <1>9, <3>2
    <3>4. i \in p + 1 .. n
      BY <1>1, <3>3
    <3> QED
      BY <3>1, <3>4
  <2>3. IsFiniteSet(C) /\ Cardinality(C) <= p - 1
    <3>1. 1 \in Int /\ p - 1 \in Int /\ 1 <= (p - 1) + 1 /\ (p - 1) - 1 + 1 = p - 1
      BY <1>1
    <3>2. IsFiniteSet(C) /\ Cardinality(C) <= (p - 1) - 1 + 1
      BY <3>1, ValuesBound
    <3> QED
      BY <3>1, <3>2
  <2>4. IsFiniteSet(D) /\ Cardinality(D) <= n - p
    <3>1. p + 1 \in Int /\ n \in Int /\ p + 1 <= n + 1 /\ n - (p + 1) + 1 = n - p
      BY <1>1
    <3>2. IsFiniteSet(D) /\ Cardinality(D) <= n - (p + 1) + 1
      BY <3>1, ValuesBound
    <3> QED
      BY <3>1, <3>2
  <2> HIDE DEF A, B, C, D
  <2>5. Cardinality(A) <= Cardinality(C) /\ Cardinality(A) \in Nat /\ Cardinality(C) \in Nat
    BY <2>1, <2>3, FS_Subset, FS_CardinalityType
  <2>6. Cardinality(B) <= Cardinality(D) /\ Cardinality(B) \in Nat /\ Cardinality(D) \in Nat
    BY <2>2, <2>4, FS_Subset, FS_CardinalityType
  <2>7. Cardinality(A) < p
    BY <1>1, <2>3, <2>5
  <2>8. p <= n - Cardinality(B)
    BY <1>1, <2>4, <2>6
  <2> QED
    BY <2>7, <2>8 DEF A, B
<1> QED
  BY <1>1, <1>2, <1>6, <1>10 DEF n, InPlaces

PieceOf(s, c, n) ==
    \A k \in DOMAIN PageOf(c, s) :
       /\ (c.page - 1) * RowsPerPage + k \in 1 .. n
       /\ PageOf(c, s)[k] = s[(c.page - 1) * RowsPerPage + k]

\* A page is a piece of the list from its first place on.
LEMMA PageIsPiece ==
    ASSUME NEW n \in Nat, NEW S, NEW s \in [1 .. n -> S], NEW c \in ControlOf, table # "usage"
    PROVE  PieceOf(s, c, n)
<1>1. Len(s) = n
  <2>1. s \in Seq(S)
    BY SeqDef
  <2> QED
    BY <2>1, LenProperties
<1> DEFINE start == (c.page - 1) * RowsPerPage
           end == IF c.page * RowsPerPage < n THEN c.page * RowsPerPage ELSE n
<1>2. start \in Nat /\ end \in Int /\ end <= n
  <2>9. c.page \in Nat \ {0} /\ RowsPerPage \in Nat
    BY TablesAssumption DEF ControlOf
  <2>1. c.page - 1 \in Nat /\ c.page \in Nat /\ RowsPerPage \in Nat
    BY <2>9
  <2>2. \A x, y \in Nat : x * y \in Nat
    OBVIOUS
  <2>3. start \in Nat /\ c.page * RowsPerPage \in Nat
    BY <2>1, <2>2
  <2> QED
    BY <2>3
<1>3. PageOf(c, s) = SubSeq(s, start + 1, end)
  BY <1>1 DEF PageOf
<1> HIDE DEF start, end
<1>4. PageOf(c, s) = [i \in 1 .. (end - (start + 1) + 1) |-> s[i + (start + 1) - 1]]
  BY <1>2, <1>3
<1> SUFFICES ASSUME NEW k \in DOMAIN PageOf(c, s)
             PROVE  start + k \in 1 .. n /\ PageOf(c, s)[k] = s[start + k]
  BY DEF start, PieceOf
<1>5. k \in 1 .. (end - (start + 1) + 1)
  BY <1>4
<1>6. start + k \in 1 .. n /\ k + (start + 1) - 1 = start + k
  BY <1>2, <1>5
<1> QED
  BY <1>4, <1>5, <1>6

\* For any rows, columns, filters, texts and any number of requests in flight, whatever
\* order they are answered in or fail: at rest a table shows the page its controls
\* say, in their order and with their count (the effects of the web client's tables
\* and the routes that answer them).
THEOREM TablesAlwaysFollow == TableSpec => []TablesFollowControls
<1>1. TableIInv => TablesFollowControls
  <2> SUFFICES ASSUME TableIInv, requested = <<>>, latest = "shown", ~statsLoad, ~typing
               PROVE  TablesFollowControls
    BY DEF TablesFollowControls
  <2>1. PICK c \in ControlOf : c = visible.for
    BY DEF TableIInv, FollowInv
  <2>2. UpToOrder(c, controls) /\ (table # "documents" => c = controls)
    BY <2>1 DEF TableIInv, FollowInv, Meets
  <2> DEFINE open == table = "documents" /\ c.filter = "no"
             kept == {r \in rowsThere \cap TextFinds[c.text] : open \/ r \in Kept[c.filter]}
             rows == visible.rows
             start == (c.page - 1) * RowsPerPage
             col == SortedBy(c.column)
             shown == {rows[k] : k \in DOMAIN rows}
  <2>3. ASSUME untouched
        PROVE  /\ visible.total = Cardinality(kept)
               /\ shown \subseteq kept
               /\ table # "usage" =>
                     \A k \in DOMAIN rows :
                        /\ Cardinality({q \in kept : Earlier(c, col, q, rows[k])}) < start + k
                        /\ start + k <= Cardinality(kept)
                                         - Cardinality({q \in kept : Earlier(c, col, rows[k], q)})
               /\ table = "usage" => shown = kept
    <3>1. rowsThere \subseteq TableRows
      BY DEF TableIInv, TableTypeOK
    <3>2. Answering(c) = kept
      <4>1. CASE open
        BY <3>1, <4>1, TablesAssumption DEF Answering, Heard
      <4>2. CASE ~open
        BY <4>2 DEF Answering, Heard
      <4> QED
        BY <4>1, <4>2
    <3>3. visible.total = Cardinality(kept) /\ rows \in PagesFor(c)
      BY <2>1, <2>3, <3>2 DEF TableIInv, CountInv
    <3>4. PICK S : S = kept
      OBVIOUS
    <3>5. S \subseteq TableRows /\ IsFiniteSet(S)
      BY <3>1, <3>2, <3>4, AnsweringIsFinite
    <3>6. PICK s \in SetToSeqs(S) : InItsOrder(c, col, s) /\ rows = PageOf(c, s)
      BY <3>2, <3>3, <3>4 DEF PagesFor
    <3>7. col \in Columns
      <4>1. c.column \in Columns
        BY DEF ControlOf
      <4>2. table \in Tables
        BY DEF TableIInv, TableTypeOK
      <4>3. Instead[table] \in Columns
        BY <4>2, TablesAssumption
      <4> QED
        BY <4>1, <4>3 DEF SortedBy
    <3> DEFINE n == Cardinality(S)
    <3>8. /\ n \in Nat /\ s \in [1 .. n -> S]
          /\ \A r \in S : \E p \in 1 .. n : s[p] = r
          /\ \A p \in 1 .. n :
                 /\ Cardinality({q \in S : Earlier(c, col, q, s[p])}) < p
                 /\ p <= n - Cardinality({q \in S : Earlier(c, col, s[p], q)})
      <4> HIDE DEF col
      <4>1. InPlaces(S, c, col, s)
        BY <3>5, <3>6, <3>7, PlacesInOrder
      <4> QED
        BY <4>1 DEF InPlaces
    <3> HIDE DEF n, kept, col
    <3>9. CASE table = "usage"
      <4>1. rows = s
        BY <3>6, <3>9 DEF PageOf
      <4>2. shown = S
        BY <3>8, <4>1
      <4> QED
        BY <3>3, <3>4, <3>9, <4>2
    <3>10. CASE table # "usage"
      <4>1. \A k \in DOMAIN rows : start + k \in 1 .. n /\ rows[k] = s[start + k]
        <5>1. \A k \in DOMAIN PageOf(c, s) : /\ start + k \in 1 .. n
                                              /\ PageOf(c, s)[k] = s[start + k]
          <6>1. n \in Nat /\ s \in [1 .. n -> S]
            BY <3>8
          <6>2. PieceOf(s, c, n)
            BY <3>10, <6>1, PageIsPiece
          <6> QED
            BY <6>2 DEF PieceOf
        <5> QED
          BY <3>6, <5>1
      <4>2. shown \subseteq S
        BY <3>8, <4>1
      <4> HIDE DEF start, shown, rows
      <4>3. \A k \in DOMAIN rows :
               /\ Cardinality({q \in S : Earlier(c, col, q, rows[k])}) < start + k
               /\ start + k <= n - Cardinality({q \in S : Earlier(c, col, rows[k], q)})
        BY <3>8, <4>1
      <4> QED
        BY <3>3, <3>4, <3>10, <4>2, <4>3 DEF n
    <3> QED
      BY <3>9, <3>10
  <2> QED
    BY <2>1, <2>2, <2>3 DEF TablesFollowControls
<1> QED
  BY <1>1, TablesStart, TablesInductive, PTL DEF TableSpec

-----------------------------------------------------------------------------
(* The heatmap of the web client.                                          *)

Under == {p \in Nat \X Nat : p[1] < p[2]}

\* A non-empty set of natural numbers has a least element.
LEMMA LeastOf ==
    ASSUME NEW T \in SUBSET Nat, T # {}
    PROVE  \E m \in T : \A k \in T : m <= k
<1>1. IsWellFoundedOn(Under, Nat)
  BY NatLessThanWellFounded DEF Under, OpToRel
<1>2. PICK m \in T : \A k \in T : <<k, m>> \notin Under
  BY <1>1, WFMin
<1>3. m \in Nat /\ \A k \in T : k \in Nat
  OBVIOUS
<1>4. \A k \in T : ~(k < m)
  BY <1>2, <1>3 DEF Under
<1> QED
  BY <1>3, <1>4

\* One more element of s, if it is to be kept.
More(s, kept, n, was) == IF s[n] \in kept THEN Append(was, s[n]) ELSE was

\* What Among has after n elements.
Firsts(s, kept, n, f) ==
    f = [m \in 0 .. n |-> IF m = 0 THEN <<>> ELSE More(s, kept, m, f[m - 1])]

LEMMA FirstsExist ==
    ASSUME NEW s, NEW kept, NEW L \in Nat
    PROVE  \E f : Firsts(s, kept, L, f)
<1> DEFINE T == {n \in Nat : ~\E f : Firsts(s, kept, n, f)}
<1>1. ASSUME T # {} PROVE FALSE
  <2>1. PICK m \in T : \A k \in T : m <= k
    BY <1>1, LeastOf
  <2>2. m \in Nat /\ ~\E f : Firsts(s, kept, m, f)
    BY <2>1
  <2>3. m # 0
    <3> SUFFICES ASSUME m = 0 PROVE FALSE
      OBVIOUS
    <3> DEFINE g == [j \in 0 .. 0 |-> <<>>]
    <3>1. g = [j \in 0 .. 0 |-> IF j = 0 THEN <<>> ELSE More(s, kept, j, g[j - 1])]
      OBVIOUS
    <3>2. Firsts(s, kept, 0, g)
      BY <3>1 DEF Firsts
    <3> QED
      BY <2>2, <3>2
  <2>4. m - 1 \in Nat /\ ~(m <= m - 1)
    BY <2>2, <2>3
  <2>5. PICK f : Firsts(s, kept, m - 1, f)
    BY <2>1, <2>4
  <2> DEFINE g == [j \in 0 .. m |-> IF j = m THEN More(s, kept, m, f[m - 1]) ELSE f[j]]
  <2>6. ASSUME NEW j \in 0 .. m
        PROVE  g[j] = IF j = 0 THEN <<>> ELSE More(s, kept, j, g[j - 1])
    <3>1. CASE j = 0
      <4>1. 0 \in 0 .. m - 1 /\ 0 # m
        BY <2>2, <2>3
      <4>2. f[0] = <<>>
        BY <2>5, <4>1 DEF Firsts
      <4> QED
        BY <3>1, <4>1, <4>2
    <3>2. CASE j # 0 /\ j # m
      <4>1. j \in 0 .. m - 1 /\ j - 1 \in 0 .. m /\ j - 1 # m
        BY <2>2, <3>2
      <4>2. f[j] = More(s, kept, j, f[j - 1])
        BY <2>5, <3>2, <4>1 DEF Firsts
      <4>3. g[j] = f[j] /\ g[j - 1] = f[j - 1]
        BY <3>2, <4>1
      <4> QED
        BY <3>2, <4>2, <4>3
    <3>3. CASE j = m
      <4>1. j - 1 \in 0 .. m /\ j - 1 # m /\ j # 0
        BY <2>2, <2>3, <3>3
      <4>2. g[j] = More(s, kept, j, f[j - 1]) /\ g[j - 1] = f[j - 1]
        BY <3>3, <4>1
      <4> QED
        BY <4>1, <4>2
    <3> QED
      BY <3>1, <3>2, <3>3
  <2>7. g = [j \in 0 .. m |-> g[j]]
    OBVIOUS
  <2> HIDE DEF g
  <2>8. g = [j \in 0 .. m |-> IF j = 0 THEN <<>> ELSE More(s, kept, j, g[j - 1])]
    BY <2>6, <2>7
  <2>9. Firsts(s, kept, m, g)
    BY <2>8 DEF Firsts
  <2> QED
    BY <2>2, <2>9
<1> QED
  BY <1>1

\* The elements of s that are kept, in a sequence of such elements.
LEMMA AmongProperties ==
    ASSUME NEW S, NEW s \in Seq(S), NEW kept
    PROVE  /\ Among(s, kept) \in Seq(S)
           /\ ToSet(Among(s, kept)) = ToSet(s) \cap kept
<1> DEFINE L == Len(s)
           first == CHOOSE f : f = [n \in 0 .. L |-> IF n = 0 THEN <<>>
                                      ELSE IF s[n] \in kept THEN Append(f[n - 1], s[n]) ELSE f[n - 1]]
           Sound(n) == /\ first[n] \in Seq(S)
                       /\ ToSet(first[n]) = {s[i] : i \in 1 .. n} \cap kept
           T == {n \in 0 .. L : ~Sound(n)}
<1>1. L \in Nat /\ \A n \in 1 .. L : s[n] \in S
  BY LenProperties, ElementOfSeq
<1>2. Among(s, kept) = first[L]
  BY DEF Among
<1>3. first = [n \in 0 .. L |-> IF n = 0 THEN <<>>
                  ELSE IF s[n] \in kept THEN Append(first[n - 1], s[n]) ELSE first[n - 1]]
  <2>1. PICK f : Firsts(s, kept, L, f)
    BY <1>1, FirstsExist
  <2>2. f = [n \in 0 .. L |-> IF n = 0 THEN <<>>
                  ELSE IF s[n] \in kept THEN Append(f[n - 1], s[n]) ELSE f[n - 1]]
    BY <2>1 DEF Firsts, More
  <2> QED
    BY <2>2
<1>4. /\ first[0] = <<>>
      /\ \A n \in 1 .. L : first[n] = IF s[n] \in kept THEN Append(first[n - 1], s[n])
                                                     ELSE first[n - 1]
  <2> HIDE DEF first
  <2>1. 0 \in 0 .. L /\ \A n \in 1 .. L : n \in 0 .. L /\ n # 0
    BY <1>1
  <2> QED
    BY <1>3, <2>1
<1> HIDE DEF first, L
<1>5. ASSUME T # {} PROVE FALSE
  <2> T \in SUBSET Nat
    BY <1>1
  <2>1. PICK m \in T : \A k \in T : m <= k
    <3> HIDE DEF T
    <3> QED
      BY <1>5, LeastOf
  <2>2. m \in 0 .. L /\ ~Sound(m)
    BY <2>1
  <2>3. m # 0
    <3>1. <<>> \in Seq(S) /\ ToSet(<<>>) = {} /\ {s[i] : i \in 1 .. 0} = {}
      BY DEF ToSet
    <3> QED
      BY <1>4, <2>2, <3>1
  <2>4. m \in 1 .. L /\ m - 1 \in 0 .. L /\ ~(m <= m - 1)
    BY <1>1, <2>2, <2>3
  <2>5. Sound(m - 1)
    BY <2>1, <2>4
  <2>6. {s[i] : i \in 1 .. m} = {s[i] : i \in 1 .. m - 1} \cup {s[m]}
    <3>1. \A i : i \in 1 .. m <=> (i \in 1 .. m - 1 \/ i = m)
      BY <1>1, <2>4
    <3> QED
      BY <3>1
  <2>7. PICK x \in Seq(S) : x = first[m - 1]
    BY <2>5
  <2>8. CASE s[m] \in kept
    <3>1. first[m] = Append(x, s[m]) /\ s[m] \in S
      BY <1>1, <1>4, <2>4, <2>7, <2>8
    <3>2. Append(x, s[m]) \in Seq(S) /\ ToSet(Append(x, s[m])) = ToSet(x) \cup {s[m]}
      <4>1. /\ Append(x, s[m]) \in Seq(S) /\ Len(Append(x, s[m])) = Len(x) + 1
            /\ \A i \in 1 .. Len(x) : Append(x, s[m])[i] = x[i]
            /\ Append(x, s[m])[Len(x) + 1] = s[m]
        BY <3>1, AppendProperties
      <4>2. /\ DOMAIN x = 1 .. Len(x) /\ Len(x) \in Nat
            /\ DOMAIN Append(x, s[m]) = 1 .. Len(x) + 1
        BY <4>1, LenProperties
      <4>3. \A i : i \in 1 .. Len(x) + 1 <=> (i \in 1 .. Len(x) \/ i = Len(x) + 1)
        BY <4>2
      <4> QED
        BY <4>1, <4>2, <4>3 DEF ToSet
    <3> QED
      BY <2>2, <2>5, <2>6, <2>7, <2>8, <3>1, <3>2
  <2>9. CASE s[m] \notin kept
    <3>1. first[m] = first[m - 1]
      BY <1>4, <2>4, <2>9
    <3> QED
      BY <2>2, <2>5, <2>6, <2>9, <3>1
  <2> QED
    BY <2>8, <2>9
<1>6. Sound(L)
  <2>1. L \in 0 .. L
    BY <1>1
  <2> QED
    BY <1>5, <2>1
<1>7. ToSet(s) = {s[i] : i \in 1 .. L}
  BY DEF ToSet, L
<1> QED
  BY <1>2, <1>6, <1>7

-----------------------------------------------------------------------------
GridTypeOK ==
    /\ rowField \in RowFields /\ columnField \in HeatFields
    /\ texts \in Seq(TypedTexts)

LEMMA GridSequences ==
    ASSUME GridTypeOK
    PROVE  Rows \in Seq(STRING) /\ Cols \in Seq(STRING)
<1>1. texts \in Seq(STRING)
  BY HeatmapAssumption, SeqMonotonic DEF GridTypeOK
<1>2. \A v \in Seq(STRING) : \A f : FilteredBy(v, f) \in Seq(STRING)
  BY AmongProperties DEF FilteredBy
<1>3. FacetValues[columnField] \in Seq(STRING)
  BY HeatmapAssumption DEF GridTypeOK
<1>4. RowValues \in Seq(STRING)
  BY <1>1, HeatmapAssumption DEF GridTypeOK, RowValues, RowFields
<1> QED
  BY <1>1, <1>2, <1>3, <1>4 DEF Rows, Cols

RowOf(n, C) == ((n - 1) \div C) + 1
ColOf(n, C) == ((n - 1) % C) + 1

\* Every place of a grid has its turn.
LEMMA PlacesInTurn ==
    ASSUME NEW R \in Nat, NEW C \in Nat \ {0}
    PROVE  /\ R * C \in Nat
           /\ \A n \in 1 .. R * C : RowOf(n, C) \in 1 .. R /\ ColOf(n, C) \in 1 .. C
           /\ \A i \in 1 .. R, j \in 1 .. C :
                 \E n \in 1 .. R * C : RowOf(n, C) = i /\ ColOf(n, C) = j
<1>1. R * C \in Nat
  OBVIOUS
<1>2. ASSUME NEW n \in 1 .. R * C
      PROVE  RowOf(n, C) \in 1 .. R /\ ColOf(n, C) \in 1 .. C
  <2>1. n - 1 \in Nat /\ n - 1 < R * C
    BY <1>1
  <2>2. PICK q \in Nat, r \in 0 .. C - 1 :
            q = (n - 1) \div C /\ r = (n - 1) % C /\ n - 1 = C * q + r
    BY <2>1
  <2>3. q < R
    <3> SUFFICES ASSUME q >= R PROVE FALSE
      BY <2>2
    <3>1. q - R \in Nat /\ C * (q - R) \in Nat
      OBVIOUS
    <3>2. C * (q - R) = C * q - C * R /\ C * R = R * C
      OBVIOUS
    <3> QED
      BY <1>1, <2>1, <2>2, <3>1, <3>2
  <2> QED
    BY <2>2, <2>3 DEF RowOf, ColOf
<1>3. ASSUME NEW i \in 1 .. R, NEW j \in 1 .. C
      PROVE  \E n \in 1 .. R * C : RowOf(n, C) = i /\ ColOf(n, C) = j
  <2> DEFINE q == i - 1
             r == j - 1
             n == C * q + r + 1
  <2>1. q \in Nat /\ r \in 0 .. C - 1 /\ q <= R - 1 /\ C * q \in Nat
    OBVIOUS
  <2>2. n \in 1 .. R * C
    <3>1. (R - 1) - q \in Nat /\ C * ((R - 1) - q) \in Nat
      BY <2>1
    <3>2. C * ((R - 1) - q) = R * C - C - C * q
      BY <2>1
    <3> QED
      BY <1>1, <2>1, <3>1, <3>2
  <2>3. (n - 1) \div C = q /\ (n - 1) % C = r
    <3>1. n - 1 = C * q + r
      BY <2>1
    <3> HIDE DEF n, q, r
    <3> QED
      BY <2>1, <3>1
  <2>4. q + 1 = i /\ r + 1 = j
    OBVIOUS
  <2> HIDE DEF n, q, r
  <2>5. RowOf(n, C) = i /\ ColOf(n, C) = j
    BY <2>3, <2>4 DEF RowOf, ColOf
  <2> QED
    BY <2>2, <2>5
<1> QED
  BY <1>1, <1>2, <1>3

LEMMA CellOrderProperties ==
    ASSUME GridTypeOK, Cols # <<>>
    PROVE  /\ CellOrder \in Seq(Nat \X STRING)
           /\ ToSet(CellOrder) = (DOMAIN Rows) \X ToSet(Cols)
<1> DEFINE R == Len(Rows)
           C == Len(Cols)
<1>1. /\ DOMAIN Rows = 1 .. R /\ R \in Nat
      /\ DOMAIN Cols = 1 .. C /\ C \in Nat \ {0}
      /\ \A j \in 1 .. C : Cols[j] \in STRING
  BY GridSequences, LenProperties, EmptySeq, ElementOfSeq
<1> DEFINE M == R * C
<1>2. /\ M \in Nat
      /\ \A n \in 1 .. M : RowOf(n, C) \in 1 .. R /\ ColOf(n, C) \in 1 .. C
      /\ \A i \in 1 .. R, j \in 1 .. C : \E n \in 1 .. M : RowOf(n, C) = i /\ ColOf(n, C) = j
  <2> HIDE DEF R, C
  <2> QED
    BY <1>1, PlacesInTurn
<1>3. CellOrder = [n \in 1 .. M |-> <<RowOf(n, C), Cols[ColOf(n, C)]>>]
  BY DEF CellOrder, RowOf, ColOf
<1> HIDE DEF R, C, M
<1>4. CellOrder \in Seq(Nat \X STRING)
  <2>1. \A n \in 1 .. M : <<RowOf(n, C), Cols[ColOf(n, C)]>> \in Nat \X STRING
    BY <1>1, <1>2
  <2> QED
    BY <1>3, <1>2, <2>1, SeqDef
<1>6. ToSet(CellOrder) = {<<RowOf(n, C), Cols[ColOf(n, C)]>> : n \in 1 .. M}
  BY <1>3 DEF ToSet
<1>7. ToSet(Cols) = {Cols[j] : j \in 1 .. C}
  BY <1>1 DEF ToSet
<1>8. ASSUME NEW p \in ToSet(CellOrder) PROVE p \in (DOMAIN Rows) \X ToSet(Cols)
  <2>1. PICK n \in 1 .. M : p = <<RowOf(n, C), Cols[ColOf(n, C)]>>
    BY <1>6
  <2>2. RowOf(n, C) \in DOMAIN Rows /\ Cols[ColOf(n, C)] \in ToSet(Cols)
    BY <1>1, <1>2, <1>7
  <2> QED
    BY <2>1, <2>2
<1>9. ASSUME NEW p \in (DOMAIN Rows) \X ToSet(Cols) PROVE p \in ToSet(CellOrder)
  <2>1. PICK i \in 1 .. R, j \in 1 .. C : p = <<i, Cols[j]>>
    BY <1>1, <1>7
  <2>2. PICK n \in 1 .. M : RowOf(n, C) = i /\ ColOf(n, C) = j
    BY <1>2
  <2> QED
    BY <1>6, <2>1, <2>2
<1> QED
  BY <1>4, <1>8, <1>9

\* Two rows and columns that go by the same cell ask for the same.
LEMMA CellTells ==
    ASSUME NEW i, NEW k, NEW c, NEW d, Cell(i, c) = Cell(k, d)
    PROVE  /\ c = d /\ QueryOf(i) = QueryOf(k)
           /\ Skipped(i) <=> Skipped(k)
           /\ Asks(i, c) = Asks(k, d)
<1>1. CASE rowField = "queries"
  <2>1. i = k /\ c = d
    BY <1>1 DEF Cell
  <2> QED
    BY <2>1
<1>2. CASE rowField # "queries"
  <2>1. Rows[i] = Rows[k] /\ c = d
    BY <1>2 DEF Cell
  <2>2. QueryOf(i) = QueryOf(k) /\ ~Skipped(i) /\ ~Skipped(k)
    BY <1>2 DEF QueryOf, Skipped
  <2> QED
    BY <1>2, <2>1, <2>2 DEF Asks
<1> QED
  BY <1>1, <1>2

LEMMA SameHeads ==
    ASSUME UNCHANGED <<rowField, columnField, texts, picks, tuning>>
    PROVE  /\ Rows' = Rows /\ Cols' = Cols
           /\ \A i, c : Cell(i, c)' = Cell(i, c) /\ Asks(i, c)' = Asks(i, c)
           /\ \A i : QueryOf(i)' = QueryOf(i) /\ (Skipped(i)' <=> Skipped(i))
<1>1. Rows' = Rows /\ Cols' = Cols
  BY DEF Rows, Cols, RowValues, FilteredBy
<1>2. \A i : QueryOf(i)' = QueryOf(i)
  BY DEF QueryOf
<1>3. \A i : Skipped(i)' <=> Skipped(i)
  BY <1>2 DEF Skipped
<1>4. \A i, c : Cell(i, c)' = Cell(i, c)
  BY <1>1 DEF Cell
<1>5. \A i, c : Asks(i, c)' = Asks(i, c)
  BY <1>1, <1>2 DEF Asks
<1> QED
  BY <1>1, <1>2, <1>3, <1>4, <1>5

UnderWay == sent \cup ToSet(waiting)

\* A search under way is that of a cell of the grid as it is.
IsAsked(t) ==
    \E i \in DOMAIN Rows, c \in ToSet(Cols) :
        t.cell = Cell(i, c) /\ t.asks = Asks(i, c) /\ ~Skipped(i)

\* What a cell of row i and column c has to hold.
Answers(v, i, c) ==
    /\ v.asks = IF Skipped(i) THEN Unsearched ELSE Asks(i, c)
    /\ v.marked \in {"", v.asks.query}

CellsRight ==
    \A i \in DOMAIN Rows, c \in ToSet(Cols) :
        Cell(i, c) \in DOMAIN cells => Answers(cells[Cell(i, c)], i, c)
CellsComplete ==
    cells # NoCells \/ gridLoading =>
        \A i \in DOMAIN Rows, c \in ToSet(Cols) :
            Cell(i, c) \in DOMAIN cells \/ \E t \in UnderWay : t.cell = Cell(i, c)
\* A highlight is one of the grid as it is, if its cell is still there.
MarkingRight ==
    marking # NotMarking =>
        /\ gridLoading => marking.cell \in DOMAIN cells
        /\ marking.cell \in DOMAIN cells =>
              \A i \in DOMAIN Rows, c \in ToSet(Cols) :
                  Cell(i, c) = marking.cell => QueryOf(i) = marking.query

GridFresh ==
    /\ CellsRight /\ CellsComplete /\ MarkingRight
    /\ \A t \in UnderWay : IsAsked(t)
    /\ opened # Closed => opened \in DOMAIN cells

RunInv ==
    /\ GridTypeOK
    /\ waiting \in Seq(ToSet(waiting))
    /\ \A k \in DOMAIN cells : cells[k] = [asks |-> cells[k].asks, marked |-> cells[k].marked]
    /\ ~gridLoading => waiting = <<>> /\ sent = {}
    /\ autorun => cells = NoCells /\ waiting = <<>> /\ sent = {} /\ opened = Closed
    /\ opened = Closed \/ filtering = NotFiltering

HeatIInv == RunInv /\ (stale \/ GridFresh)

LEMMA NothingUnderWay ==
    waiting = <<>> /\ sent = {} => UnderWay = {}
BY DEF UnderWay, ToSet

\* A grid that was cleared is right.
EmptyGrid ==
    /\ cells = NoCells /\ ~gridLoading
    /\ waiting = <<>> /\ sent = {} /\ opened = Closed
LEMMA EmptyIsFresh == EmptyGrid => GridFresh
<1> SUFFICES ASSUME EmptyGrid PROVE GridFresh
  OBVIOUS
<1>1. DOMAIN cells = {} /\ UnderWay = {}
  BY NothingUnderWay DEF EmptyGrid, NoCells
<1> QED
  BY <1>1 DEF EmptyGrid, GridFresh, CellsRight, CellsComplete, MarkingRight

LEMMA EmptyIsFreshNext == EmptyGrid' => GridFresh'
<1> SUFFICES ASSUME EmptyGrid' PROVE GridFresh'
  OBVIOUS
<1>1. DOMAIN cells' = {} /\ UnderWay' = {}
  BY DEF EmptyGrid, NoCells, UnderWay, ToSet
<1> QED
  BY <1>1 DEF EmptyGrid, GridFresh, CellsRight, CellsComplete, MarkingRight

LEMMA OneText ==
    ASSUME NEW t \in TypedTexts
    PROVE  <<t>> \in Seq(TypedTexts)
OBVIOUS

LEMMA HeatStarts == HeatInit => HeatIInv
<1> SUFFICES ASSUME HeatInit PROVE HeatIInv
  OBVIOUS
<1>1. GridTypeOK
  <2>1. PICK t \in (IF rowField = "queries" THEN TypedTexts ELSE {""}) : texts = <<t>>
    BY DEF HeatInit
  <2>2. t \in TypedTexts
    BY HeatmapAssumption
  <2>3. rowField \in RowFields /\ columnField \in HeatFields
    BY DEF HeatInit
  <2>4. PICK u : u = t
    OBVIOUS
  <2>5. u \in TypedTexts /\ texts = <<u>>
    BY <2>1, <2>2, <2>4
  <2>6. texts \in Seq(TypedTexts)
    BY <2>5, OneText
  <2> QED
    BY <2>3, <2>6 DEF GridTypeOK
<1>2. EmptyGrid
  BY DEF HeatInit, EmptyGrid
<1>3. \A k \in DOMAIN cells : cells[k] = [asks |-> cells[k].asks, marked |-> cells[k].marked]
  <2>1. DOMAIN cells = {}
    <3>1. cells = NoCells
      BY DEF HeatInit
    <3> QED
      BY <3>1 DEF NoCells
  <2> QED
    BY <2>1
<1>4. waiting \in Seq(ToSet(waiting))
  <2>1. waiting = <<>> /\ <<>> \in Seq(ToSet(waiting))
    BY EmptySeq DEF HeatInit
  <2> QED
    BY <2>1
<1> QED
  BY <1>1, <1>2, <1>3, <1>4, EmptyIsFresh DEF HeatInit, RunInv, HeatIInv, EmptyGrid

\* Rows, columns or filters change: what a run still brings makes the grid stale.
LEMMA ClearsKeep ==
    ASSUME HeatIInv, Clears, GridTypeOK', opened' = Closed
    PROVE  HeatIInv'
<1>1. RunInv'
  BY DEF HeatIInv, RunInv, Clears, NoCells
<1>2. ASSUME ~stale' PROVE GridFresh'
  BY <1>2, EmptyIsFreshNext DEF EmptyGrid, Clears, HeatIInv, RunInv
<1> QED
  BY <1>1, <1>2 DEF HeatIInv

\* Nothing that cells depend on changes.
LEMMA GridStays ==
    ASSUME HeatIInv, UNCHANGED <<rowField, columnField, texts, picks, tuning>>,
           UNCHANGED <<runVars, marking>>,
           opened' = Closed \/ (opened' = opened /\ filtering' = filtering)
    PROVE  HeatIInv'
<1>1. /\ Rows' = Rows /\ Cols' = Cols
      /\ \A i, c : Cell(i, c)' = Cell(i, c) /\ Asks(i, c)' = Asks(i, c)
      /\ \A i : QueryOf(i)' = QueryOf(i) /\ (Skipped(i)' <=> Skipped(i))
  BY SameHeads
<1>2. UNCHANGED <<cells, waiting, sent, gridLoading, autorun, stale, marking, UnderWay>>
  BY DEF runVars, UnderWay
<1>3. RunInv'
  BY <1>2 DEF HeatIInv, RunInv, GridTypeOK
<1>4. ASSUME GridFresh PROVE GridFresh'
  <2>1. CellsRight'
    BY <1>1, <1>2, <1>4 DEF GridFresh, CellsRight, Answers
  <2>2. CellsComplete'
    BY <1>1, <1>2, <1>4 DEF GridFresh, CellsComplete
  <2>3. MarkingRight'
    BY <1>1, <1>2, <1>4 DEF GridFresh, MarkingRight
  <2>4. \A t \in UnderWay' : IsAsked(t)'
    BY <1>1, <1>2, <1>4 DEF GridFresh, IsAsked
  <2> QED
    BY <1>2, <1>4, <2>1, <2>2, <2>3, <2>4 DEF GridFresh
<1> QED
  BY <1>2, <1>3, <1>4 DEF HeatIInv

LEMMA GenerateKeeps ==
    ASSUME HeatIInv, Generate, ~gridLoading, opened = Closed,
           autorun' => autorun /\ (Rows = <<>> \/ Cols = <<>>)
    PROVE  HeatIInv'
<1>1. UNCHANGED <<rowField, columnField, texts, picks, tuning, opened, filtering, marking>>
  BY DEF Generate, gridVars, overlayVars
<1>2. /\ Rows' = Rows /\ Cols' = Cols
      /\ \A i, c : Cell(i, c)' = Cell(i, c) /\ Asks(i, c)' = Asks(i, c)
      /\ \A i : QueryOf(i)' = QueryOf(i) /\ (Skipped(i)' <=> Skipped(i))
  BY <1>1, SameHeads
<1>3. waiting = <<>> /\ sent = {} /\ GridTypeOK /\ GridTypeOK'
  BY <1>1 DEF HeatIInv, RunInv, GridTypeOK
<1>4. CASE Cols = <<>>
  <2>1. cells' = NoCells /\ UNCHANGED <<waiting, sent, gridLoading, stale>>
    BY <1>4 DEF Generate
  <2>2. EmptyGrid'
    BY <1>1, <1>3, <2>1 DEF EmptyGrid
  <2>3. RunInv'
    BY <1>1, <1>3, <2>1 DEF HeatIInv, RunInv, NoCells
  <2> QED
    BY <2>2, <2>3, EmptyIsFreshNext DEF HeatIInv
<1>5. CASE Cols # <<>>
  <2> DEFINE open == {p \in ToSet(CellOrder) : ~Skipped(p[1])}
             order == Among(CellOrder, open)
             task(p) == [cell |-> Cell(p[1], p[2]), asks |-> Asks(p[1], p[2])]
             v == [asks |-> Unsearched, marked |-> ""]
             blank == {Cell(p[1], p[2]) : p \in {q \in ToSet(CellOrder) : Skipped(q[1])}}
  <2>1. /\ CellOrder \in Seq(Nat \X STRING)
        /\ ToSet(CellOrder) = (DOMAIN Rows) \X ToSet(Cols)
    BY <1>3, <1>5, CellOrderProperties
  <2>2. order \in Seq(Nat \X STRING) /\ ToSet(order) = open
    BY <2>1, AmongProperties
  <2>3. /\ cells' = [k \in blank |-> v]
        /\ waiting' = [n \in DOMAIN order |-> task(order[n])]
        /\ gridLoading' /\ (stale' <=> marking # NotMarking) /\ sent' = sent
    <3>1. cells' = BlankCells /\ waiting' = Searches
      BY <1>5 DEF Generate
    <3>2. gridLoading' /\ (stale' <=> marking # NotMarking) /\ sent' = sent
      BY <1>5 DEF Generate
    <3>3. BlankCells = [k \in blank |-> v]
      BY DEF BlankCells
    <3>4. Searches = [n \in DOMAIN order |-> task(order[n])]
      BY DEF Searches
    <3> HIDE DEF blank, v, order, task
    <3> QED
      BY <3>1, <3>2, <3>3, <3>4
  <2>4. waiting' \in Seq(ToSet(waiting')) /\ ToSet(waiting') = {task(p) : p \in open}
    <3>1. DOMAIN order = 1 .. Len(order) /\ Len(order) \in Nat
      BY <2>2, LenProperties
    <3> HIDE DEF order, task, open
    <3>2. DOMAIN waiting' = 1 .. Len(order) /\ \A n \in 1 .. Len(order) : waiting'[n] = task(order[n])
      BY <2>3, <3>1
    <3>3. waiting' \in [1 .. Len(order) -> ToSet(waiting')]
      BY <2>3, <3>1, <3>2 DEF ToSet
    <3>4. waiting' \in Seq(ToSet(waiting'))
      BY <3>1, <3>3, SeqDef
    <3>5. ToSet(waiting') = {task(order[n]) : n \in 1 .. Len(order)}
      BY <3>2 DEF ToSet
    <3>6. open = {order[n] : n \in 1 .. Len(order)}
      BY <2>2, <3>1 DEF ToSet
    <3> QED
      BY <3>4, <3>5, <3>6
  <2>5. UnderWay' = {task(p) : p \in open}
    BY <1>3, <2>3, <2>4 DEF UnderWay
  <2>6. DOMAIN cells' = blank /\ \A k \in blank : cells'[k] = v
    <3> HIDE DEF blank, v
    <3> QED
      BY <2>3
  <2>7. \A k : k \in blank <=>
            \E i \in DOMAIN Rows, c \in ToSet(Cols) : Skipped(i) /\ k = Cell(i, c)
    <3>1. ASSUME NEW k \in blank
          PROVE  \E i \in DOMAIN Rows, c \in ToSet(Cols) : Skipped(i) /\ k = Cell(i, c)
      <4>1. PICK p \in ToSet(CellOrder) : Skipped(p[1]) /\ k = Cell(p[1], p[2])
        BY <3>1
      <4>2. p[1] \in DOMAIN Rows /\ p[2] \in ToSet(Cols)
        BY <2>1, <4>1
      <4> QED
        BY <4>1, <4>2
    <3>2. ASSUME NEW i \in DOMAIN Rows, NEW c \in ToSet(Cols), Skipped(i)
          PROVE  Cell(i, c) \in blank
      <4>1. PICK p : p = <<i, c>>
        OBVIOUS
      <4>2. p \in ToSet(CellOrder) /\ p[1] = i /\ p[2] = c
        BY <2>1, <4>1
      <4>3. p \in {q \in ToSet(CellOrder) : Skipped(q[1])} /\ Cell(p[1], p[2]) = Cell(i, c)
        BY <3>2, <4>2
      <4> QED
        BY <4>3
    <3> QED
      BY <3>1, <3>2
  <2>10. v.asks = Unsearched /\ v.marked = "" /\ v = [asks |-> v.asks, marked |-> v.marked]
    OBVIOUS
  <2> HIDE DEF blank, order, task, v
  <2>8. RunInv'
    <3>1. \A k \in DOMAIN cells' :
              cells'[k] = [asks |-> cells'[k].asks, marked |-> cells'[k].marked]
      BY <2>6, <2>10
    <3>2. autorun' => cells' = NoCells /\ waiting' = <<>>
      <4> SUFFICES ASSUME autorun' PROVE cells' = NoCells /\ waiting' = <<>>
        OBVIOUS
      <4>1. DOMAIN Rows = {}
        BY <1>5
      <4>2. blank = {} /\ open = {}
        BY <2>1, <2>7, <4>1
      <4>3. ToSet(waiting') = {}
        BY <2>4, <4>2
      <4>4. waiting' = <<>>
        BY <2>4, <4>3, EmptySeq DEF ToSet
      <4>5. cells' = << >>
        BY <2>3, <4>2
      <4> QED
        BY <4>4, <4>5 DEF NoCells
    <3> QED
      BY <1>1, <1>3, <2>3, <2>4, <3>1, <3>2 DEF HeatIInv, RunInv
  <2>9. ASSUME ~stale' PROVE GridFresh'
    <3>1. marking' = NotMarking
      BY <1>1, <2>3, <2>9
    <3>2. ASSUME NEW i \in DOMAIN Rows, NEW c \in ToSet(Cols), Cell(i, c) \in blank
          PROVE  Answers(cells'[Cell(i, c)], i, c)
      <4>1. PICK k \in DOMAIN Rows, d \in ToSet(Cols) : Skipped(k) /\ Cell(i, c) = Cell(k, d)
        BY <2>7, <3>2
      <4>2. Skipped(i)
        BY <4>1, CellTells
      <4>3. cells'[Cell(i, c)] = v
        BY <2>6, <3>2
      <4> QED
        BY <2>10, <4>2, <4>3 DEF Answers
    <3>3. CellsRight'
      BY <1>2, <2>6, <3>2 DEF CellsRight, Answers
    <3>4. ASSUME NEW i \in DOMAIN Rows, NEW c \in ToSet(Cols)
          PROVE  Cell(i, c) \in blank \/ \E t \in UnderWay' : t.cell = Cell(i, c)
      <4>1. CASE Skipped(i)
        BY <2>7, <4>1
      <4>2. CASE ~Skipped(i)
        <5>1. <<i, c>> \in open
          BY <2>1, <4>2
        <5>2. task(<<i, c>>) \in UnderWay' /\ task(<<i, c>>).cell = Cell(i, c)
          BY <2>5, <5>1 DEF task
        <5> QED
          BY <5>2
      <4> QED
        BY <4>1, <4>2
    <3>5. CellsComplete'
      BY <1>2, <2>6, <3>4 DEF CellsComplete
    <3>6. ASSUME NEW t \in UnderWay' PROVE IsAsked(t)'
      <4>1. PICK p \in open : t = task(p)
        BY <2>5
      <4>2. PICK i \in DOMAIN Rows, c \in ToSet(Cols) : p = <<i, c>> /\ ~Skipped(i)
        BY <2>1, <4>1
      <4>3. t.cell = Cell(i, c) /\ t.asks = Asks(i, c)
        BY <4>1, <4>2 DEF task
      <4> QED
        BY <1>2, <4>2, <4>3 DEF IsAsked
    <3>7. MarkingRight'
      BY <3>1 DEF MarkingRight
    <3> QED
      BY <1>1, <3>3, <3>5, <3>6, <3>7 DEF GridFresh
  <2> QED
    BY <2>8, <2>9 DEF HeatIInv
<1> QED
  BY <1>4, <1>5

LEMMA BatchKeeps ==
    ASSUME HeatIInv, BeginBatch
    PROVE  HeatIInv'
<1> DEFINE L == Len(waiting)
           m == IF L < BatchSize THEN L ELSE BatchSize
<1>1. /\ DOMAIN waiting = 1 .. L /\ L \in Nat
      /\ BatchSize \in Nat \ {0} /\ m \in Nat /\ m <= L /\ waiting # <<>> /\ sent = {}
      /\ m = BatchSize \/ (m = L /\ L < BatchSize)
  <2>1. DOMAIN waiting = 1 .. L /\ L \in Nat
    BY LenProperties DEF HeatIInv, RunInv
  <2>2. BatchSize \in Nat \ {0} /\ waiting # <<>> /\ sent = {}
    BY HeatmapAssumption DEF BeginBatch
  <2> HIDE DEF L
  <2>3. m \in Nat /\ m <= L /\ (m = BatchSize \/ (m = L /\ L < BatchSize))
    BY <2>1, <2>2
  <2> QED
    BY <2>1, <2>2, <2>3
<1>2. /\ sent' = ToSet(SubSeq(waiting, 1, m))
      /\ waiting' = SubSeq(waiting, BatchSize + 1, L)
      /\ gridLoading /\ UNCHANGED <<gridVars, cells, gridLoading, autorun, stale, overlayVars>>
  BY DEF BeginBatch
<1> HIDE DEF m, L
<1>3. sent' = {waiting[i] : i \in 1 .. m}
  <2>1. SubSeq(waiting, 1, m) = [i \in 1 .. m |-> waiting[i]]
    <3>1. \A i \in 1 .. m : i + 1 - 1 = i
      BY <1>1
    <3>2. SubSeq(waiting, 1, m) = [i \in 1 .. (m - 1 + 1) |-> waiting[i + 1 - 1]]
      BY <1>1
    <3>3. m - 1 + 1 = m
      BY <1>1
    <3> QED
      BY <3>1, <3>2, <3>3
  <2> QED
    BY <1>2, <2>1 DEF ToSet
<1>4. /\ waiting' \in Seq(ToSet(waiting))
      /\ Len(waiting') = IF BatchSize + 1 <= L THEN L - (BatchSize + 1) + 1 ELSE 0
      /\ \A i \in 1 .. L - (BatchSize + 1) + 1 : waiting'[i] = waiting[BatchSize + 1 + i - 1]
  <2>1. PICK a \in Int : a = BatchSize + 1
    BY <1>1
  <2>2. \A i \in a .. L : waiting[i] \in ToSet(waiting)
    BY <1>1, <2>1 DEF ToSet
  <2>3. L \in Int
    BY <1>1
  <2>4. /\ SubSeq(waiting, a, L) \in Seq(ToSet(waiting))
        /\ Len(SubSeq(waiting, a, L)) = IF a <= L THEN L - a + 1 ELSE 0
        /\ \A i \in 1 .. L - a + 1 : SubSeq(waiting, a, L)[i] = waiting[a + i - 1]
    BY <2>2, <2>3, SubSeqProperties
  <2> QED
    BY <1>2, <2>1, <2>4
<1>5. DOMAIN waiting' = 1 .. Len(waiting') /\ Len(waiting') \in Nat
  BY <1>4, LenProperties
<1>6. waiting' \in Seq(ToSet(waiting'))
  <2>1. waiting' \in [1 .. Len(waiting') -> ToSet(waiting')]
    <3>1. waiting' = [i \in 1 .. Len(waiting') |-> waiting'[i]]
      BY <1>4, LenProperties
    <3> QED
      BY <1>5, <3>1 DEF ToSet
  <2> QED
    BY <1>5, <2>1, SeqDef
<1>7. UnderWay' = UnderWay
  <2>1. ToSet(waiting') \subseteq ToSet(waiting)
    <3>1. \A i \in 1 .. Len(waiting') : waiting'[i] \in ToSet(waiting)
      BY <1>4, ElementOfSeq
    <3> QED
      BY <1>5, <3>1 DEF ToSet
  <2>2. sent' \subseteq ToSet(waiting)
    BY <1>1, <1>3 DEF ToSet
  <2>3. ASSUME NEW t \in ToSet(waiting) PROVE t \in sent' \/ t \in ToSet(waiting')
    <3>1. PICK i \in 1 .. L : t = waiting[i]
      BY <1>1 DEF ToSet
    <3>2. CASE i <= m
      BY <1>1, <1>3, <3>1, <3>2
    <3>3. CASE i > m
      <4>1. m = BatchSize /\ BatchSize + 1 <= L /\ i - BatchSize \in 1 .. L - (BatchSize + 1) + 1
        BY <1>1, <3>1, <3>3
      <4>2. BatchSize + 1 + (i - BatchSize) - 1 = i
        BY <1>1, <3>1
      <4>3. waiting'[i - BatchSize] = waiting[i] /\ i - BatchSize \in DOMAIN waiting'
        BY <1>4, <1>5, <4>1, <4>2
      <4> QED
        BY <3>1, <4>3 DEF ToSet
    <3> QED
      BY <1>1, <3>2, <3>3
  <2> QED
    BY <1>1, <2>1, <2>2, <2>3 DEF UnderWay
<1>8. /\ Rows' = Rows /\ Cols' = Cols
      /\ \A i, c : Cell(i, c)' = Cell(i, c) /\ Asks(i, c)' = Asks(i, c)
      /\ \A i : QueryOf(i)' = QueryOf(i) /\ (Skipped(i)' <=> Skipped(i))
  BY <1>2, SameHeads DEF gridVars
<1>9. UNCHANGED <<cells, gridLoading, autorun, stale, opened, filtering, marking>> /\ gridLoading
  BY <1>2 DEF overlayVars
<1>10. ~autorun
  BY <1>1 DEF HeatIInv, RunInv
<1>11. RunInv'
  BY <1>2, <1>6, <1>9, <1>10 DEF HeatIInv, RunInv, GridTypeOK, gridVars
<1>12. ASSUME GridFresh PROVE GridFresh'
  <2>1. CellsRight'
    BY <1>8, <1>9, <1>12 DEF GridFresh, CellsRight, Answers
  <2>2. CellsComplete'
    BY <1>7, <1>8, <1>9, <1>12 DEF GridFresh, CellsComplete
  <2>3. MarkingRight'
    BY <1>8, <1>9, <1>12 DEF GridFresh, MarkingRight
  <2>4. \A t \in UnderWay' : IsAsked(t)'
    BY <1>7, <1>8, <1>12 DEF GridFresh, IsAsked
  <2> QED
    BY <1>9, <1>12, <2>1, <2>2, <2>3, <2>4 DEF GridFresh
<1> QED
  BY <1>9, <1>11, <1>12 DEF HeatIInv

\* What both ends of a search and of a run have in common.
LEMMA AnswerKeeps ==
    ASSUME HeatIInv, NEW t \in sent, NEW found \in BOOLEAN, AnswerCell(t, found)
    PROVE  HeatIInv'
<1> DEFINE v == [asks |-> t.asks, marked |-> ""]
<1>1. /\ sent' = sent \ {t} /\ cells' = Put(cells, t.cell, t.asks)
      /\ UNCHANGED <<rowField, columnField, texts, picks, tuning, waiting, gridLoading, autorun,
                     stale, opened, filtering, marking>>
  BY DEF AnswerCell, gridVars, overlayVars
<1>2. /\ DOMAIN cells' = DOMAIN cells \cup {t.cell}
      /\ cells'[t.cell] = v
      /\ \A k \in DOMAIN cells : k # t.cell => cells'[k] = cells[k]
  <2> HIDE DEF v
  <2>1. cells' = [k \in DOMAIN cells \cup {t.cell} |-> IF k = t.cell THEN v ELSE cells[k]]
    BY <1>1 DEF Put, v
  <2> QED
    BY <2>1
<1>3. v.asks = t.asks /\ v.marked = "" /\ v = [asks |-> v.asks, marked |-> v.marked]
  OBVIOUS
<1> HIDE DEF v
<1>4. /\ Rows' = Rows /\ Cols' = Cols
      /\ \A i, c : Cell(i, c)' = Cell(i, c) /\ Asks(i, c)' = Asks(i, c)
      /\ \A i : QueryOf(i)' = QueryOf(i) /\ (Skipped(i)' <=> Skipped(i))
  BY <1>1, SameHeads
<1>5. gridLoading /\ ~autorun
  BY DEF HeatIInv, RunInv
<1>6. RunInv'
  <2>1. GridTypeOK' /\ waiting' \in Seq(ToSet(waiting'))
    BY <1>1 DEF HeatIInv, RunInv, GridTypeOK
  <2>2. \A k \in DOMAIN cells' : cells'[k] = [asks |-> cells'[k].asks, marked |-> cells'[k].marked]
    BY <1>2, <1>3 DEF HeatIInv, RunInv
  <2>3. gridLoading' /\ ~autorun' /\ (opened' = Closed \/ filtering' = NotFiltering)
    BY <1>1, <1>5 DEF HeatIInv, RunInv
  <2> QED
    BY <2>1, <2>2, <2>3 DEF RunInv
<1>7. ASSUME GridFresh PROVE GridFresh'
  <2>1. t \in UnderWay /\ UnderWay' \cup {t} = UnderWay \cup {t} /\ UnderWay' \subseteq UnderWay
    BY <1>1 DEF UnderWay
  <2>2. PICK k \in DOMAIN Rows, d \in ToSet(Cols) :
            t.cell = Cell(k, d) /\ t.asks = Asks(k, d) /\ ~Skipped(k)
    BY <1>7, <2>1 DEF GridFresh, IsAsked
  <2>3. CellsRight'
    <3> SUFFICES ASSUME NEW i \in DOMAIN Rows, NEW c \in ToSet(Cols), Cell(i, c) \in DOMAIN cells'
                 PROVE  Answers(cells'[Cell(i, c)], i, c)
      BY <1>4 DEF CellsRight, Answers
    <3>1. CASE Cell(i, c) = t.cell
      <4>1. ~Skipped(i) /\ Asks(i, c) = Asks(k, d)
        BY <2>2, <3>1, CellTells
      <4>2. cells'[Cell(i, c)] = v /\ v.asks = Asks(i, c)
        BY <1>2, <1>3, <2>2, <3>1, <4>1
      <4> QED
        BY <1>3, <4>1, <4>2 DEF Answers
    <3>2. CASE Cell(i, c) # t.cell
      <4>1. Cell(i, c) \in DOMAIN cells /\ cells'[Cell(i, c)] = cells[Cell(i, c)]
        BY <1>2, <3>2
      <4> QED
        BY <1>7, <4>1 DEF GridFresh, CellsRight
    <3> QED
      BY <3>1, <3>2
  <2>4. CellsComplete'
    <3> SUFFICES ASSUME NEW i \in DOMAIN Rows, NEW c \in ToSet(Cols)
                 PROVE  Cell(i, c) \in DOMAIN cells' \/ \E u \in UnderWay' : u.cell = Cell(i, c)
      BY <1>4 DEF CellsComplete
    <3>1. Cell(i, c) \in DOMAIN cells \/ \E u \in UnderWay : u.cell = Cell(i, c)
      BY <1>5, <1>7 DEF GridFresh, CellsComplete
    <3> QED
      BY <1>2, <2>1, <3>1
  <2>5. MarkingRight'
    <3> SUFFICES ASSUME marking # NotMarking
                 PROVE  /\ marking.cell \in DOMAIN cells'
                        /\ \A i \in DOMAIN Rows, c \in ToSet(Cols) :
                               Cell(i, c) = marking.cell => QueryOf(i) = marking.query
      BY <1>1, <1>4 DEF MarkingRight
    <3>1. marking.cell \in DOMAIN cells
      BY <1>5, <1>7 DEF GridFresh, MarkingRight
    <3> QED
      BY <1>2, <1>7, <3>1 DEF GridFresh, MarkingRight
  <2>6. \A u \in UnderWay' : IsAsked(u)'
    BY <1>4, <1>7, <2>1 DEF GridFresh, IsAsked
  <2>7. opened' # Closed => opened' \in DOMAIN cells'
    BY <1>1, <1>2, <1>7 DEF GridFresh
  <2> QED
    BY <2>3, <2>4, <2>5, <2>6, <2>7 DEF GridFresh
<1> QED
  BY <1>1, <1>6, <1>7 DEF HeatIInv

LEMMA EndKeeps ==
    ASSUME HeatIInv, EndOfRun
    PROVE  HeatIInv'
<1>1. /\ ~gridLoading' /\ gridLoading /\ sent = {} /\ waiting = <<>>
      /\ UNCHANGED <<rowField, columnField, texts, picks, tuning, cells, waiting, sent, autorun,
                     stale, opened, filtering, marking>>
  BY DEF EndOfRun, gridVars, overlayVars
<1>2. /\ Rows' = Rows /\ Cols' = Cols
      /\ \A i, c : Cell(i, c)' = Cell(i, c) /\ Asks(i, c)' = Asks(i, c)
      /\ \A i : QueryOf(i)' = QueryOf(i) /\ (Skipped(i)' <=> Skipped(i))
  BY <1>1, SameHeads
<1>3. UnderWay = {} /\ UnderWay' = {}
  BY <1>1, NothingUnderWay DEF UnderWay
<1>4. RunInv'
  BY <1>1 DEF HeatIInv, RunInv, GridTypeOK
<1>5. ASSUME GridFresh PROVE GridFresh'
  <2>1. CellsRight'
    BY <1>1, <1>2, <1>5 DEF GridFresh, CellsRight, Answers
  <2>2. CellsComplete'
    BY <1>1, <1>2, <1>3, <1>5 DEF GridFresh, CellsComplete
  <2>3. MarkingRight'
    BY <1>1, <1>2, <1>5 DEF GridFresh, MarkingRight
  <2> QED
    BY <1>1, <1>3, <1>5, <2>1, <2>2, <2>3 DEF GridFresh
<1> QED
  BY <1>1, <1>4, <1>5 DEF HeatIInv

LEMMA OpenKeeps ==
    ASSUME HeatIInv, NEW k \in DOMAIN Rows, NEW d \in ToSet(Cols), OpenCell(k, d)
    PROVE  HeatIInv'
<1>1. /\ Cell(k, d) \in DOMAIN cells /\ opened' = Cell(k, d) /\ filtering = NotFiltering
      /\ UNCHANGED <<rowField, columnField, texts, picks, tuning, cells, waiting, sent, gridLoading,
                     autorun, stale, filtering>>
      /\ marking' = marking \/ marking' = [cell |-> Cell(k, d), query |-> QueryOf(k)]
  BY DEF OpenCell, NoOverlay, gridVars, runVars
<1>2. /\ Rows' = Rows /\ Cols' = Cols
      /\ \A i, c : Cell(i, c)' = Cell(i, c) /\ Asks(i, c)' = Asks(i, c)
      /\ \A i : QueryOf(i)' = QueryOf(i) /\ (Skipped(i)' <=> Skipped(i))
  BY <1>1, SameHeads
<1>3. UnderWay' = UnderWay
  BY <1>1 DEF UnderWay
<1>4. cells # NoCells
  BY <1>1 DEF NoCells
<1>5. RunInv'
  BY <1>1, <1>4 DEF HeatIInv, RunInv, GridTypeOK
<1>6. ASSUME GridFresh PROVE GridFresh'
  <2>1. CellsRight'
    BY <1>1, <1>2, <1>6 DEF GridFresh, CellsRight, Answers
  <2>2. CellsComplete'
    BY <1>1, <1>2, <1>3, <1>6 DEF GridFresh, CellsComplete
  <2>3. MarkingRight'
    <3>1. CASE marking' = marking
      BY <1>1, <1>2, <1>6, <3>1 DEF GridFresh, MarkingRight
    <3>2. CASE marking' = [cell |-> Cell(k, d), query |-> QueryOf(k)]
      <4>1. marking'.cell = Cell(k, d) /\ marking'.query = QueryOf(k)
        BY <3>2
      <4>2. \A i \in DOMAIN Rows, c \in ToSet(Cols) :
                Cell(i, c) = marking'.cell => QueryOf(i) = marking'.query
        BY <4>1, CellTells
      <4> QED
        BY <1>1, <1>2, <4>1, <4>2 DEF MarkingRight
    <3> QED
      BY <1>1, <3>1, <3>2
  <2>4. \A t \in UnderWay' : IsAsked(t)'
    BY <1>2, <1>3, <1>6 DEF GridFresh, IsAsked
  <2> QED
    BY <1>1, <2>1, <2>2, <2>3, <2>4 DEF GridFresh
<1> QED
  BY <1>1, <1>5, <1>6 DEF HeatIInv

LEMMA MatchesKeep ==
    ASSUME HeatIInv, NEW found \in BOOLEAN, MatchesArrive(found)
    PROVE  HeatIInv'
<1>1. /\ marking # NotMarking /\ marking' = NotMarking
      /\ UNCHANGED <<rowField, columnField, texts, picks, tuning, waiting, sent, gridLoading,
                     autorun, stale, opened, filtering>>
  BY DEF MatchesArrive, gridVars
<1>2. /\ Rows' = Rows /\ Cols' = Cols
      /\ \A i, c : Cell(i, c)' = Cell(i, c) /\ Asks(i, c)' = Asks(i, c)
      /\ \A i : QueryOf(i)' = QueryOf(i) /\ (Skipped(i)' <=> Skipped(i))
  BY <1>1, SameHeads
<1>3. UnderWay' = UnderWay
  BY <1>1 DEF UnderWay
<1>4. PICK m, q : m = marking.cell /\ q = marking.query
  OBVIOUS
<1>5. \/ cells' = cells
      \/ m \in DOMAIN cells /\ cells' = [cells EXCEPT ![m].marked = q]
  BY <1>4 DEF MatchesArrive
<1>6. /\ DOMAIN cells' = DOMAIN cells
      /\ \A k \in DOMAIN cells :
            /\ cells'[k] = [asks |-> cells'[k].asks, marked |-> cells'[k].marked]
            /\ cells'[k].asks = cells[k].asks
            /\ cells'[k].marked = cells[k].marked \/ (k = m /\ cells'[k].marked = q)
  <2>1. \A k \in DOMAIN cells : cells[k] = [asks |-> cells[k].asks, marked |-> cells[k].marked]
    BY DEF HeatIInv, RunInv
  <2>2. CASE cells' = cells
    BY <2>1, <2>2
  <2>3. CASE m \in DOMAIN cells /\ cells' = [cells EXCEPT ![m].marked = q]
    <3>1. PICK e : e = [cells[m] EXCEPT !.marked = q]
      OBVIOUS
    <3>2. /\ DOMAIN cells' = DOMAIN cells
          /\ \A k \in DOMAIN cells : cells'[k] = IF k = m THEN e ELSE cells[k]
      BY <2>3, <3>1
    <3>3. PICK a, b : cells[m] = [asks |-> a, marked |-> b]
      BY <2>1, <2>3
    <3>4. e = [asks |-> a, marked |-> q]
      BY <3>1, <3>3
    <3>5. e.asks = cells[m].asks /\ e.marked = q /\ e = [asks |-> e.asks, marked |-> e.marked]
      BY <3>3, <3>4
    <3> QED
      BY <2>1, <3>2, <3>5
  <2> QED
    BY <1>5, <2>2, <2>3
<1>7. cells = NoCells <=> cells' = NoCells
  <2>1. CASE cells' = cells
    BY <2>1
  <2>2. CASE m \in DOMAIN cells
    BY <1>6, <2>2 DEF NoCells
  <2> QED
    BY <1>5, <2>1, <2>2
<1>8. RunInv'
  BY <1>1, <1>6, <1>7 DEF HeatIInv, RunInv, GridTypeOK
<1>9. ASSUME GridFresh PROVE GridFresh'
  <2>1. CellsRight'
    <3> SUFFICES ASSUME NEW i \in DOMAIN Rows, NEW c \in ToSet(Cols), Cell(i, c) \in DOMAIN cells
                 PROVE  Answers(cells'[Cell(i, c)], i, c)
      BY <1>2, <1>6 DEF CellsRight, Answers
    <3>1. Answers(cells[Cell(i, c)], i, c)
      BY <1>9 DEF GridFresh, CellsRight
    <3>2. PICK k : k = Cell(i, c)
      OBVIOUS
    <3>3. CASE cells'[k].marked = cells[k].marked
      BY <1>6, <3>1, <3>2, <3>3 DEF Answers
    <3>4. CASE k = m /\ cells'[k].marked = q
      <4>1. QueryOf(i) = q
        BY <1>1, <1>4, <1>9, <3>2, <3>4 DEF GridFresh, MarkingRight
      <4>2. cells'[k].asks.query = QueryOf(i)
        <5>1. cells'[k].asks = IF Skipped(i) THEN Unsearched ELSE Asks(i, c)
          BY <1>6, <3>1, <3>2 DEF Answers
        <5>2. Unsearched.query = "" /\ Asks(i, c).query = QueryOf(i)
          BY DEF Unsearched, Asks
        <5>3. Skipped(i) => QueryOf(i) = ""
          BY DEF Skipped
        <5> QED
          BY <5>1, <5>2, <5>3
      <4> QED
        BY <1>6, <3>1, <3>2, <3>4, <4>1, <4>2 DEF Answers
    <3> QED
      BY <1>6, <3>2, <3>3, <3>4
  <2>2. CellsComplete'
    BY <1>1, <1>2, <1>3, <1>6, <1>7, <1>9 DEF GridFresh, CellsComplete
  <2>3. MarkingRight'
    BY <1>1 DEF MarkingRight
  <2>4. \A t \in UnderWay' : IsAsked(t)'
    BY <1>2, <1>3, <1>9 DEF GridFresh, IsAsked
  <2> QED
    BY <1>1, <1>6, <1>9, <2>1, <2>2, <2>3, <2>4 DEF GridFresh
<1> QED
  BY <1>1, <1>8, <1>9 DEF HeatIInv

LEMMA TextsWithout ==
    ASSUME NEW S, NEW s \in Seq(S), NEW k \in DOMAIN s
    PROVE  RemoveAt(s, k) \in Seq(S)
<1>1. Len(s) \in Nat /\ k \in 1 .. Len(s) /\ \A i \in 1 .. Len(s) : s[i] \in S
  BY LenProperties, ElementOfSeq
<1>2. SubSeq(s, 1, k - 1) \in Seq(S)
  <2>1. k - 1 \in Int /\ \A i \in 1 .. k - 1 : s[i] \in S
    BY <1>1
  <2> QED
    BY <2>1, SubSeqProperties
<1>3. SubSeq(s, k + 1, Len(s)) \in Seq(S)
  <2>1. k + 1 \in Int /\ Len(s) \in Int /\ \A i \in k + 1 .. Len(s) : s[i] \in S
    BY <1>1
  <2> QED
    BY <2>1, SubSeqProperties
<1> QED
  BY <1>2, <1>3, ConcatProperties DEF RemoveAt

\* The rows that are typed stay rows that are typed.
LEMMA TextsStay ==
    ASSUME GridTypeOK, NEW i \in DOMAIN texts
    PROVE  /\ \A t \in TypedTexts : [texts EXCEPT ![i] = t] \in Seq(TypedTexts)
           /\ RemoveAt(texts, i) \in Seq(TypedTexts)
           /\ Append(texts, "") \in Seq(TypedTexts)
<1>1. texts \in Seq(TypedTexts) /\ i \in 1 .. Len(texts) /\ "" \in TypedTexts
  BY LenProperties, HeatmapAssumption DEF GridTypeOK
<1>2. \A t \in TypedTexts : [texts EXCEPT ![i] = t] \in Seq(TypedTexts)
  BY <1>1, ExceptSeq
<1>3. Append(texts, "") \in Seq(TypedTexts)
  BY <1>1, AppendProperties
<1> QED
  BY <1>1, <1>2, <1>3, TextsWithout

\* The user changes rows or columns, with nothing over the grid.
LEMMA HeadsKeep ==
    ASSUME HeatIInv, NoOverlay, UNCHANGED overlayVars, Clears,
           rowField' \in RowFields, columnField' \in HeatFields, texts' \in Seq(TypedTexts)
    PROVE  HeatIInv'
<1>1. opened' = Closed /\ GridTypeOK'
  BY DEF NoOverlay, overlayVars, GridTypeOK
<1> QED
  BY <1>1, ClearsKeep

LEMMA RowsKeep ==
    ASSUME HeatIInv, NEW i \in DOMAIN texts, NEW t \in TypedTexts,
           TypeInRow(i, t) \/ ChooseTitle(i, t) \/ ClearTitle(i) \/ RemoveRow(i)
    PROVE  HeatIInv'
<1>1. GridTypeOK /\ rowField \in RowFields /\ columnField \in HeatFields /\ "" \in TypedTexts
  BY HeatmapAssumption DEF HeatIInv, RunInv, GridTypeOK
<1>2. CASE TypeInRow(i, t)
  BY <1>1, <1>2, TextsStay, HeadsKeep DEF TypeInRow
<1>3. CASE ChooseTitle(i, t)
  <2>1. /\ NoOverlay /\ texts' = [texts EXCEPT ![i] = t]
        /\ UNCHANGED <<rowField, columnField, picks, tuning, overlayVars>>
        /\ IF t # texts[i] THEN Clears ELSE UNCHANGED runVars
    BY <1>3 DEF ChooseTitle
  <2>2. CASE t # texts[i]
    BY <1>1, <2>1, <2>2, TextsStay, HeadsKeep
  <2>3. CASE t = texts[i]
    <3>1. texts' = texts
      <4>1. texts = [j \in DOMAIN texts |-> texts[j]]
        <5>1. texts \in [1 .. Len(texts) -> TypedTexts]
          BY <1>1, LenProperties DEF GridTypeOK
        <5> QED
          BY <5>1
      <4> QED
        BY <2>1, <2>3, <4>1
    <3>2. UNCHANGED <<runVars, marking, opened, filtering>>
      BY <2>1, <2>3 DEF overlayVars
    <3> QED
      BY <2>1, <3>1, <3>2, GridStays
  <2> QED
    BY <2>2, <2>3
<1>4. CASE ClearTitle(i)
  BY <1>1, <1>4, TextsStay, HeadsKeep DEF ClearTitle
<1>5. CASE RemoveRow(i)
  BY <1>1, <1>5, TextsStay, HeadsKeep DEF RemoveRow
<1> QED
  BY <1>2, <1>3, <1>4, <1>5

LEMMA AddKeeps ==
    ASSUME HeatIInv, AddRow
    PROVE  HeatIInv'
<1>1. GridTypeOK /\ rowField \in RowFields /\ columnField \in HeatFields
  BY DEF HeatIInv, RunInv, GridTypeOK
<1>2. Append(texts, "") \in Seq(TypedTexts)
  BY <1>1, HeatmapAssumption, AppendProperties DEF GridTypeOK
<1> QED
  BY <1>1, <1>2, HeadsKeep DEF AddRow

\* The query beside the grid changes: only a grid that was cleared is not stale.
LEMMA TuneKeeps ==
    ASSUME HeatIInv, NEW t \in TypedTexts, Tune(t)
    PROVE  HeatIInv'
<1>1. /\ opened = Closed /\ filtering = NotFiltering
      /\ stale' = (stale \/ gridLoading \/ cells # NoCells)
      /\ UNCHANGED <<rowField, columnField, texts, cells, waiting, sent, gridLoading, autorun,
                     opened, filtering>>
  BY DEF Tune, NoOverlay, overlayVars
<1>2. RunInv'
  BY <1>1 DEF HeatIInv, RunInv, GridTypeOK
<1>3. ASSUME ~stale' PROVE GridFresh'
  <2>1. ~gridLoading /\ cells = NoCells
    BY <1>1, <1>3
  <2>2. waiting = <<>> /\ sent = {}
    BY <2>1 DEF HeatIInv, RunInv
  <2> QED
    BY <1>1, <2>1, <2>2, EmptyIsFreshNext DEF EmptyGrid
<1> QED
  BY <1>2, <1>3 DEF HeatIInv

\* A filter is opened, edited or closed, over a grid that shows no cell.
LEMMA FiltersKeep ==
    ASSUME HeatIInv,
           \/ \E f \in RowFields : OpenFilter(f)
           \/ \E values \in SUBSET ToSet(ValuesOf(filtering.field)) : Pick(values)
           \/ \E keep \in BOOLEAN : CloseFilter(keep)
    PROVE  HeatIInv'
<1>1. UNCHANGED <<rowField, columnField, texts, tuning, opened, marking>>
  BY DEF OpenFilter, Pick, CloseFilter, overlayVars
<1>2. opened = Closed
  BY DEF HeatIInv, RunInv, OpenFilter, Pick, CloseFilter, NoOverlay
<1>3. Clears \/ UNCHANGED <<picks, runVars>>
  BY DEF OpenFilter, Pick, CloseFilter
<1>4. CASE Clears
  BY <1>1, <1>2, <1>4, ClearsKeep DEF HeatIInv, RunInv, GridTypeOK
<1>5. CASE UNCHANGED <<picks, runVars>>
  BY <1>1, <1>2, <1>5, GridStays
<1> QED
  BY <1>3, <1>4, <1>5

LEMMA RunsKeep ==
    ASSUME HeatIInv, RunFromAddress \/ PressGenerate
    PROVE  HeatIInv'
<1>1. CASE RunFromAddress
  <2>1. autorun /\ ~gridLoading /\ ~autorun' /\ Generate
    BY <1>1 DEF RunFromAddress
  <2>2. opened = Closed
    BY <2>1 DEF HeatIInv, RunInv
  <2> QED
    BY <2>1, <2>2, GenerateKeeps
<1>2. CASE PressGenerate
  <2>1. ~gridLoading /\ HasQuery /\ opened = Closed /\ Generate /\ autorun' = autorun
    BY <1>2 DEF PressGenerate, NoOverlay
  <2>2. ~(autorun /\ ~gridLoading /\ Rows # <<>> /\ Cols # <<>> /\ HasQuery)
    BY <1>2 DEF PressGenerate, Acts
  <2>3. autorun' => autorun /\ (Rows = <<>> \/ Cols = <<>>)
    BY <2>1, <2>2
  <2> QED
    BY <2>1, <2>3, GenerateKeeps
<1> QED
  BY <1>1, <1>2

LEMMA HeatInductive == HeatIInv /\ [HeatNext]_heatVars => HeatIInv'
<1> SUFFICES ASSUME HeatIInv, [HeatNext]_heatVars PROVE HeatIInv'
  OBVIOUS
<1> USE DEF HeatNext
<1>1. CASE UNCHANGED heatVars
  <2>1. UNCHANGED <<rowField, columnField, texts, picks, tuning, runVars, marking, opened,
                    filtering>>
    BY <1>1 DEF heatVars, runVars
  <2> QED
    BY <2>1, GridStays
<1>2. CASE RunFromAddress \/ PressGenerate
  BY <1>2, RunsKeep
<1>3. CASE BeginBatch
  BY <1>3, BatchKeeps
<1>4. CASE EndOfRun
  BY <1>4, EndKeeps
<1>5. CASE \E t \in sent, found \in BOOLEAN : AnswerCell(t, found)
  BY <1>5, AnswerKeeps
<1>6. CASE \E f \in RowFields : ChooseRows(f)
  <2>1. columnField \in HeatFields /\ texts \in Seq(TypedTexts)
    BY DEF HeatIInv, RunInv, GridTypeOK
  <2> QED
    BY <1>6, <2>1, HeadsKeep DEF ChooseRows
<1>7. CASE \E f \in HeatFields : ChooseColumns(f)
  <2>1. rowField \in RowFields /\ texts \in Seq(TypedTexts)
    BY DEF HeatIInv, RunInv, GridTypeOK
  <2> QED
    BY <1>7, <2>1, HeadsKeep DEF ChooseColumns
<1>8. CASE \E i \in DOMAIN texts :
              \/ \E t \in TypedTexts : TypeInRow(i, t) \/ ChooseTitle(i, t)
              \/ ClearTitle(i) \/ RemoveRow(i)
  <2>1. "" \in TypedTexts
    BY HeatmapAssumption
  <2> QED
    BY <1>8, <2>1, RowsKeep
<1>9. CASE AddRow
  BY <1>9, AddKeeps
<1>10. CASE \E t \in TypedTexts : Tune(t)
  BY <1>10, TuneKeeps
<1>11. CASE MoveSlider \/ CloseCell
  <2>1. /\ UNCHANGED <<rowField, columnField, texts, picks, tuning, runVars, marking>>
        /\ opened' = Closed \/ (opened' = opened /\ filtering' = filtering)
    BY <1>11 DEF MoveSlider, CloseCell, gridVars, overlayVars
  <2> QED
    BY <2>1, GridStays
<1>12. CASE \/ \E f \in RowFields : OpenFilter(f)
            \/ \E values \in SUBSET ToSet(ValuesOf(filtering.field)) : Pick(values)
            \/ \E keep \in BOOLEAN : CloseFilter(keep)
  BY <1>12, FiltersKeep
<1>13. CASE \E i \in DOMAIN Rows, c \in ToSet(Cols) : OpenCell(i, c)
  BY <1>13, OpenKeeps
<1>14. CASE \E found \in BOOLEAN : MatchesArrive(found)
  BY <1>14, MatchesKeep
<1> QED
  BY <1>1, <1>2, <1>3, <1>4, <1>5, <1>6, <1>7, <1>8, <1>9, <1>10, <1>11, <1>12, <1>13, <1>14

LEMMA FreshAnswers == HeatIInv => CellsAnswerTheirHeads
<1> SUFFICES ASSUME HeatIInv, ~stale
             PROVE  CellsAnswerTheirHeads
  BY DEF CellsAnswerTheirHeads
<1>1. GridFresh /\ RunInv
  BY DEF HeatIInv
<1>2. \A j \in DOMAIN Cols : Cols[j] \in ToSet(Cols)
  BY DEF ToSet
<1>3. ASSUME NEW i \in DOMAIN Rows, NEW j \in DOMAIN Cols, Cell(i, Cols[j]) \in DOMAIN cells
      PROVE  /\ cells[Cell(i, Cols[j])].asks = IF Skipped(i) THEN Unsearched ELSE Asks(i, Cols[j])
             /\ cells[Cell(i, Cols[j])].marked \in {"", cells[Cell(i, Cols[j])].asks.query}
  BY <1>1, <1>2, <1>3 DEF GridFresh, CellsRight, Answers
<1>4. ASSUME ~gridLoading, cells # NoCells, NEW i \in DOMAIN Rows, NEW j \in DOMAIN Cols
      PROVE  Cell(i, Cols[j]) \in DOMAIN cells
  <2>1. UnderWay = {}
    BY <1>1, <1>4, NothingUnderWay DEF RunInv
  <2> QED
    BY <1>1, <1>2, <1>4, <2>1 DEF GridFresh, CellsComplete
<1>5. opened # Closed => opened \in DOMAIN cells
  BY <1>1 DEF GridFresh
<1> QED
  BY <1>3, <1>4, <1>5 DEF CellsAnswerTheirHeads

\* However often rows, columns, filters and the query change, whatever runs go on and
\* whichever answers come late: a grid that is not stale shows in each cell what its row,
\* its column, the filters and the query ask for, with highlights of that query; one that
\* was asked for and is complete has all its cells, the one looked at among them
\* (executeGridSearch, buildCellKey and handleHeatmapHighlight of the heatmap tab).
THEOREM CellsAlwaysAnswer == HeatSpec => []CellsAnswerTheirHeads
<1>1. HeatInit => HeatIInv
  BY HeatStarts
<1>2. HeatIInv /\ [HeatNext]_heatVars => HeatIInv'
  BY HeatInductive
<1>3. HeatIInv => CellsAnswerTheirHeads
  BY FreshAnswers
<1> QED
  BY <1>1, <1>2, <1>3, PTL DEF HeatSpec

===============================================================================
