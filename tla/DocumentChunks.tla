---------------------------- MODULE DocumentChunks ----------------------------
(***************************************************************************)
(* A parsed document is cut into the chunks that search finds: Docling's   *)
(* HybridChunker cuts it, each chunk's elements are collected, chunks of   *)
(* nothing but a few words are dropped, footnotes are moved to where they  *)
(* are cited, the text is rebuilt from the elements, chunks of equal text  *)
(* are dropped, and what is too long to embed is cut off or refused.       *)
(* Images, which are attached by geometry, and tables recovered from the   *)
(* text of their cells are left out.                                       *)
(***************************************************************************)
EXTENDS Integers, Sequences, FiniteSets, FiniteSetsExt, Functions

CONSTANTS
    Papers,
    ItemsOf,    \* the items of each paper in reading order
    MinSize,    \* min_substantive_size
    EmbedLimit, \* max tokens of the embedding models
    Strategy    \* oversize_chunks_strategy: "truncate" or "stop"

(***************************************************************************)
(* An item has a kind, the pages it stands on and its place on a page, the *)
(* heading it stands under, its size, what it says, the parts HybridChunker*)
(* must cut it into (more than one if it is longer than a chunk), the      *)
(* numbers of footnotes it cites and, a footnote, its own number.  Kinds:  *)
(*   "text"                                                                *)
(*   "structure"  a list item, a heading, a caption                        *)
(*   "note"       a footnote, "12 See ..."                                 *)
(*   "enclosed"   a footnote, "(12) See ...", whose number is read from the*)
(*                cleaned text only                                        *)
(*   "unnumbered" a footnote, "12See ...": a reference of no number        *)
(*   "table"                                                               *)
(*   "silent"     an item whose text is not taken: a picture, a formula    *)
(***************************************************************************)
Kinds == {"text", "structure", "note", "enclosed", "unnumbered", "table", "silent"}

ASSUME ChunksAssumption ==
    /\ \A p \in Papers :
          /\ Len(ItemsOf[p]) \in Nat /\ DOMAIN ItemsOf[p] = 1 .. Len(ItemsOf[p])
          /\ \A i \in DOMAIN ItemsOf[p] :
                /\ ItemsOf[p][i].kind \in Kinds
                /\ ItemsOf[p][i].pages \in SUBSET Nat /\ ItemsOf[p][i].pages # {}
                /\ IsFiniteSet(ItemsOf[p][i].pages)
                /\ ItemsOf[p][i].place \in Int
                /\ ItemsOf[p][i].parts \in Nat \ {0}
    /\ Strategy \in {"truncate", "stop"}

VARIABLES
    paper,
    cutting,    \* "none", "reading", "mending", "embedding", "done" or "failed"
    cuts,       \* what HybridChunker gives: runs of pieces, first and last
    readUpTo,   \* the last of them that was read
    chunks,     \* [page, heading, elements, whole]; an element is an item on a page
    registry,   \* the numbers of the footnotes of the document
    notes,      \* number -> element: the first definition in a chunk that was kept
    mended      \* the last chunk whose footnotes are in place

chunkVars == <<paper, cutting, cuts, readUpTo, chunks, registry, notes, mended>>

Items == ItemsOf[paper]
Nobody == [n \in {} |-> 0]

ChunksInit ==
    /\ paper \in Papers
    /\ cutting = "none"
    /\ cuts = <<>>
    /\ readUpTo = 0
    /\ chunks = <<>>
    /\ registry = {}
    /\ notes = Nobody
    /\ mended = 0

-----------------------------------------------------------------------------
\* The members of a set in an order, given as the pairs of it, and what a list has
\* at some of its places.
InTurn(S, order) ==
    [k \in 1 .. Cardinality(S) |->
        CHOOSE c \in S : Cardinality({x \in S : <<x, c>> \in order}) = k - 1]
Rising(places) == InTurn(places, {p \in places \X places : p[1] < p[2]})
Picked(s, places) == [n \in 1 .. Cardinality(places) |-> s[Rising(places)[n]]]

-----------------------------------------------------------------------------
(* HybridChunker.                                                          *)

\* which item each piece is of
PiecesUpTo(i) == Cardinality(UNION {{j} \X (1 .. Items[j].parts) : j \in 1 .. i})
Pieces ==
    [k \in 1 .. PiecesUpTo(Len(Items)) |-> Min({i \in DOMAIN Items : k <= PiecesUpTo(i)})]

\* a cut falls between the parts of an item and wherever the heading changes, and
\* may fall between any two items
MustCut == {k \in 1 .. Len(Pieces) - 1 :
              \/ Pieces[k] = Pieces[k + 1]
              \/ Items[Pieces[k]].heading # Items[Pieces[k + 1]].heading}

Runs(ends) ==
    LET last == Rising((ends \union {Len(Pieces)}) \ {0})
    IN  [n \in DOMAIN last |-> <<IF n = 1 THEN 1 ELSE last[n - 1] + 1, last[n]>>]

HybridChunk(ends) ==
    /\ cutting = "none"
    /\ MustCut \subseteq ends
    /\ cuts' = Runs(ends)
    /\ readUpTo' = 0
    /\ chunks' = <<>>
    /\ cutting' = "reading"
    /\ UNCHANGED <<paper, registry, notes, mended>>

\* the items of a run, whole also where the run only has a part of them
Inside(run) == {i \in DOMAIN Items : \E k \in run[1] .. run[2] : Pieces[k] = i}

\* the length of the run's own text
SizeOf(run) ==
    SumFunction([k \in run[1] .. run[2] |-> Items[Pieces[k]].size \div Items[Pieces[k]].parts])

-----------------------------------------------------------------------------
(* Chunker: one chunk.                                                     *)

\* an element for each page an item stands on, with all of its text; one for a table
ElementsOf(run) ==
    {e \in [item : Inside(run), page : UNION {Items[i].pages : i \in Inside(run)}] :
        /\ Items[e.item].kind # "silent"
        /\ e.page \in Items[e.item].pages
        /\ Items[e.item].kind = "table" => e.page = Min(Items[e.item].pages)}

KindOf(e) == Items[e.item].kind
IsReference(e) == KindOf(e) \in {"note", "enclosed", "unnumbered"}
HasNumber(e) == KindOf(e) \in {"note", "enclosed"}
NumberOf(e) == Items[e.item].number

\* few words and no list item, heading or caption among the elements
IsNoise(run) ==
    /\ SizeOf(run) < MinSize
    /\ \A e \in ElementsOf(run) : KindOf(e) # "structure"

Substantive(run) == ~IsNoise(run)

ChunkOf(run) ==
    [page |-> Min(UNION {Items[i].pages : i \in Inside(run)}),
     heading |-> Items[Pieces[run[1]]].heading,
     elements |-> ElementsOf(run),
     whole |-> TRUE]

ReadChunk ==
    /\ cutting = "reading"
    /\ readUpTo < Len(cuts)
    /\ readUpTo' = readUpTo + 1
    /\ chunks' = IF IsNoise(cuts[readUpTo + 1]) THEN chunks
                 ELSE Append(chunks, ChunkOf(cuts[readUpTo + 1]))
    /\ UNCHANGED <<paper, cutting, cuts, registry, notes, mended>>

\* whatever is raised is caught, and the document has no chunks
ChunkingFails ==
    /\ cutting \in {"none", "reading", "mending"}
    /\ cutting' = "failed"
    /\ chunks' = <<>>
    /\ UNCHANGED <<paper, cuts, readUpTo, registry, notes, mended>>

-----------------------------------------------------------------------------
(* post_process_chunks.                                                    *)

Precedes(d, e) ==
    \/ d.page < e.page
    \/ d.page = e.page /\ Items[d.item].place < Items[e.item].place
    \/ d.page = e.page /\ Items[d.item].place = Items[e.item].place /\ d.item < e.item
InOrder(elements) == InTurn(elements, {p \in elements \X elements : Precedes(p[1], p[2])})

\* the first definition of each number, chunk by chunk
Defining(c, n) == {e \in c.elements : HasNumber(e) /\ NumberOf(e) = n}
NotesIn(cs) ==
    [n \in UNION {{NumberOf(e) : e \in {e \in cs[k].elements : HasNumber(e)}} : k \in DOMAIN cs} |->
        LET first == Min({k \in DOMAIN cs : Defining(cs[k], n) # {}})
        IN  InOrder(Defining(cs[first], n))[1]]

\* the registry reads the items of the document, not yet cleaned
SurveyNotes ==
    /\ cutting = "reading"
    /\ readUpTo = Len(cuts)
    /\ registry' = {Items[i].number : i \in {i \in DOMAIN Items : Items[i].kind = "note"}}
    /\ notes' = NotesIn(chunks)
    /\ mended' = 0
    /\ cutting' = "mending"
    /\ UNCHANGED <<paper, cuts, readUpTo, chunks>>

Cited(elements) ==
    registry \intersect UNION {Items[e.item].cites : e \in {e \in elements : ~IsReference(e)}}

\* a numbered footnote stays where its number is cited
Relevant(elements) == {e \in elements : HasNumber(e) => NumberOf(e) \in Cited(elements)}

Added(elements, defined) ==
    LET missing == Cited(elements) \ {NumberOf(e) : e \in {e \in elements : HasNumber(e)}}
    IN  {defined[n] : n \in missing \intersect DOMAIN defined}

Mended(c, defined) ==
    [c EXCEPT !.elements = Relevant(@) \union Added(@, defined)]

\* looks for the definitions in the chunks as they are by now
MendFromRest ==
    /\ cutting = "mending"
    /\ mended < Len(chunks)
    /\ mended' = mended + 1
    /\ chunks' = [chunks EXCEPT ![mended + 1] = Mended(@, NotesIn(chunks))]
    /\ UNCHANGED <<paper, cutting, cuts, readUpTo, registry, notes>>
MendChunk ==
    /\ cutting = "mending"
    /\ mended < Len(chunks)
    /\ mended' = mended + 1
    /\ chunks' = [chunks EXCEPT ![mended + 1] = Mended(@, notes)]
    /\ UNCHANGED <<paper, cutting, cuts, readUpTo, registry, notes>>

-----------------------------------------------------------------------------
(* What is left of the chunks.                                             *)

\* headings, then what the elements say, in their order
TextOf(c) == <<c.heading, [k \in DOMAIN InOrder(c.elements) |-> Items[InOrder(c.elements)[k].item].says]>>
LengthOf(c) == SumFunction([e \in c.elements |-> Items[e.item].size])
IsEmpty(c) == c.elements = {} /\ c.heading = "none"

Deduplicate ==
    /\ cutting = "mending"
    /\ mended = Len(chunks)
    /\ LET first(k) == \A j \in 1 .. k - 1 :
                          <<chunks[j].page, TextOf(chunks[j])>> # <<chunks[k].page, TextOf(chunks[k])>>
       IN  chunks' = Picked(chunks, {k \in DOMAIN chunks : first(k)})
    /\ cutting' = "embedding"
    /\ UNCHANGED <<paper, cuts, readUpTo, registry, notes, mended>>

\* _filter_valid_chunks
FilterValid ==
    /\ cutting = "embedding"
    /\ LET valid == Picked(chunks, {k \in DOMAIN chunks : ~IsEmpty(chunks[k])})
           fits(c) == LengthOf(c) <= EmbedLimit
       IN  /\ chunks' = [k \in DOMAIN valid |-> [valid[k] EXCEPT !.whole = fits(valid[k])]]
           /\ cutting' = IF \/ chunks = <<>>
                            \/ Strategy = "stop" /\ \E k \in DOMAIN valid : ~fits(valid[k])
                         THEN "failed" ELSE "done"
    /\ UNCHANGED <<paper, cuts, readUpTo, registry, notes, mended>>

ChunksNext ==
    \/ \E ends \in SUBSET (1 .. Len(Pieces) - 1) : HybridChunk(ends)
    \/ ReadChunk
    \/ ChunkingFails
    \/ SurveyNotes
    \/ MendChunk
    \/ Deduplicate
    \/ FilterValid

ChunksSpec == ChunksInit /\ [][ChunksNext]_chunkVars

-----------------------------------------------------------------------------
\* A chunk has the numbered footnotes that its own text cites, all that are
\* defined in any chunk that was not dropped as noise, and no other.
NotesFollow ==
    LET read == UNION {ElementsOf(cuts[k]) : k \in {k \in DOMAIN cuts : Substantive(cuts[k])}}
        defined == {NumberOf(e) : e \in {e \in read : HasNumber(e)}}
    IN  \A k \in DOMAIN chunks :
           {NumberOf(e) : e \in {e \in chunks[k].elements : HasNumber(e)}}
               = Cited(chunks[k].elements) \intersect defined

\* Every run that is not noise is in a chunk of its page and heading, with all it
\* says but the footnotes it does not cite.
TextIsKept ==
    \A r \in {k \in DOMAIN cuts : Substantive(cuts[k])} :
        LET own == ElementsOf(cuts[r])
            said == {Items[e.item].says : e \in Relevant(own)}
        IN  \/ said = {}
            \/ \E k \in DOMAIN chunks :
                  /\ chunks[k].page = ChunkOf(cuts[r]).page
                  /\ chunks[k].heading = ChunkOf(cuts[r]).heading
                  /\ said \subseteq {Items[e.item].says : e \in chunks[k].elements}

\* What is indexed is the document: nothing but noise and uncited footnotes is
\* lost between its chunks, and a footnote is where it is cited.  This is of the
\* elements: of a chunk that is not whole the end of the text is cut off.
ChunksAreWhole == cutting \in {"embedding", "done"} => NotesFollow /\ TextIsKept
=============================================================================
