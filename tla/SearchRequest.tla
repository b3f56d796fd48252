---------------------------- MODULE SearchRequest ----------------------------
(***************************************************************************)
(* GET /search: a question is turned into a filter, Qdrant ranks the points*)
(* of chunks by meaning, by words or by both, their rows are read to filter*)
(* and rerank them, read again to show them, and what is shown is boosted, *)
(* cut and rid of repeated texts.  Meanwhile the pipeline may rewrite rows *)
(* and points.  Scores are integers; Qdrant is taken to rank exactly.      *)
(***************************************************************************)
EXTENDS Integers, Sequences, FiniteSets, FiniteSetsExt

CONSTANTS
    Reports,      \* the documents
    Registered,       \* SUBSET Reports: those with a row
    TitleOf, LanguageOf, YearOf,   \* [Reports -> ...]; year 0 is no year
    Mentions,     \* SUBSET Reports: those that match a field value named in the question
    ChunkIds,       \* chunk ids, SUBSET Int
    PaperOf,      \* [ChunkIds -> Reports]
    InitiallyIn,  \* [ChunkIds -> [text, size, bare, section, dense, sparse, rerank], or Gone]
    Later,        \* the same, once the document is indexed again
    Questions,    \* requests, see Question
    FetchLimit,   \* SEARCH_FETCH_LIMIT; 0: unset
    Recent,       \* [years -> Int] what recency adds to a score
    Gone,         \* no row, no point
    Unasked,          \* no filter
    NotAYear,     \* a year int() refuses
    MaxRewrites   \* bound: rows and points rewritten during the request

Modes == {"scroll", "dense", "sparse", "hybrid"}
Question ==
    [mode : Modes, limit : Nat \ {0}, title : STRING, language : STRING,
     sections : SUBSET STRING, minSize : Nat, rerank : {"no", "yes", "unavailable"},
     candidates : Nat, recency : BOOLEAN, boost : {"none", "some", "only"},
     auto : BOOLEAN, dedup : BOOLEAN]

ASSUME SearchAssumption ==
    /\ Registered \subseteq Reports
    /\ \A some \in SUBSET Reports : some # Unasked
    /\ ChunkIds \subseteq Int /\ IsFiniteSet(ChunkIds)
    /\ \A c \in ChunkIds : PaperOf[c] \in Reports
    /\ InitiallyIn = [c \in ChunkIds |-> InitiallyIn[c]]
    /\ \A c \in ChunkIds : \A p \in {InitiallyIn[c], Later[c]} :
          p # Gone => /\ p.size \in Nat /\ p.bare \in Nat
                      /\ p.dense \in Int /\ p.sparse \in Int /\ p.rerank \in Int
    /\ \A d \in Reports : YearOf[d] \in Int /\ Recent[YearOf[d]] \in Int
    /\ \A q \in Questions : /\ q.mode \in Modes /\ q.limit \in Nat \ {0}
                            /\ q.minSize \in Nat /\ q.candidates \in Nat
    /\ FetchLimit \in Nat

VARIABLES
    held, vectors,  \* what the rows and the points of chunks hold, or Gone
    place,          \* where the request is
    wanted,          \* the request
    narrowed,       \* the documents its filter names, or Unasked
    byMeaning,      \* the dense half of a hybrid search
    hits,           \* the points found: [id, score, section]
    given,          \* the answer: [id, paper, text, score]
    rewrites, calm  \* how many rewrites; ghost: there was none since the request began

searchVars == <<held, vectors, place, wanted, narrowed, byMeaning, hits, given, rewrites, calm>>

SearchInit ==
    /\ held = InitiallyIn /\ vectors = InitiallyIn
    /\ place = "idle"
    /\ wanted \in Questions
    /\ narrowed = Unasked
    /\ byMeaning = <<>> /\ hits = <<>> /\ given = <<>>
    /\ rewrites = 0 /\ calm = TRUE

-----------------------------------------------------------------------------
\* The members of a set, the best first and those of one score in their order.
Ahead(score, x, c) == score[x] > score[c] \/ (score[x] = score[c] /\ x < c)
ByScore(S, score) ==
    [k \in 1 .. Cardinality(S) |->
        CHOOSE c \in S : Cardinality({x \in S : Ahead(score, x, c)}) = k - 1]

\* Python's sort by score, descending and stable, and what else is done with lists.
Ranked(s) ==
    LET order == ByScore(DOMAIN s, [i \in DOMAIN s |-> s[i].score])
    IN  [k \in DOMAIN s |-> s[order[k]]]
Only(s, kept) ==
    LET order == ByScore(kept, [i \in kept |-> 0])
    IN  [k \in 1 .. Cardinality(kept) |-> s[order[k]]]
Top(s, n) == [k \in 1 .. Min({n, Len(s)}) |-> s[k]]

Hit(c, n, section) == [id |-> c, score |-> n, section |-> section]
Rated(h, n) == Hit(h.id, n, h.section)

\* The pipeline takes a chunk away or writes it anew, row and point apart.
RewriteChunk(c) ==
    /\ place \notin {"idle", "done", "failed"}
    /\ rewrites < MaxRewrites
    /\ rewrites' = rewrites + 1
    /\ calm' = FALSE
    /\ \E p \in {Gone, Later[c]} :
          \/ p # held[c] /\ held' = [held EXCEPT ![c] = p] /\ UNCHANGED vectors
          \/ p # vectors[c] /\ vectors' = [vectors EXCEPT ![c] = p] /\ UNCHANGED held
    /\ UNCHANGED <<place, wanted, narrowed, byMeaning, hits, given>>

-----------------------------------------------------------------------------
(* search: filters.                                                        *)

\* _convert_language_to_doc_ids drops a language nobody has; _handle_title_filter
\* puts the documents of a title in the place of those of a language.
SpeaksIt(l) == {d \in Registered : LanguageOf[d] = l}
Titled(t) == {d \in Registered : TitleOf[d] = t}
NarrowedBy(q) ==
    IF q.title # Unasked THEN Titled(q.title)
    ELSE IF q.language # Unasked /\ SpeaksIt(q.language) # {} THEN SpeaksIt(q.language)
    ELSE Unasked

AskNothing ==
    /\ place = "idle"
    /\ wanted.title # Unasked /\ Titled(wanted.title) = {}
    /\ place' = "done"
    /\ UNCHANGED <<held, vectors, wanted, narrowed, byMeaning, hits, given, rewrites, calm>>

Ask ==
    /\ place = "idle"
    /\ wanted.title # Unasked => Titled(wanted.title) # {}
    /\ narrowed' = NarrowedBy(wanted)
    /\ place' = "search"
    /\ UNCHANGED <<held, vectors, wanted, byMeaning, hits, given, rewrites, calm>>

-----------------------------------------------------------------------------
(* search_chunks.                                                          *)

\* _build_query_filter, on the payload of a point
PassesFilter(c) ==
    /\ vectors[c] # Gone
    /\ narrowed # Unasked => PaperOf[c] \in narrowed
    /\ wanted.sections # {} => vectors[c].section \in wanted.sections
Matching == {c \in ChunkIds : PassesFilter(c)}

Window ==
    IF FetchLimit >= 1 THEN FetchLimit
    ELSE IF wanted.minSize > 0 THEN 2 * wanted.limit ELSE wanted.limit

\* what Qdrant scores by; an empty question is only filtered, by scroll_filtered_chunks
Score(mode, c) ==
    CASE mode = "scroll" -> 0
      [] mode = "dense"  -> vectors[c].dense
      [] mode = "sparse" -> vectors[c].sparse
RankedBy(mode) == ByScore(Matching, [c \in Matching |-> Score(mode, c)])

\* Qdrant's answer: the points that pass, the best n of them
Found(mode, n) ==
    LET order == RankedBy(mode)
    IN  Top([k \in 1 .. Cardinality(Matching) |->
                Hit(order[k], Score(mode, order[k]), vectors[order[k]].section)], n)

QueryOnce ==
    /\ place = "search"
    /\ wanted.mode # "hybrid"
    /\ hits' = Found(wanted.mode, IF wanted.mode = "scroll" THEN wanted.limit ELSE Window)
    /\ place' = IF wanted.mode = "scroll" THEN "build" ELSE "adjust"
    /\ UNCHANGED <<held, vectors, wanted, narrowed, byMeaning, given, rewrites, calm>>

QueryByMeaning ==
    /\ place = "search"
    /\ wanted.mode = "hybrid"
    /\ byMeaning' = Found("dense", 3 * Window)
    /\ place' = "words"
    /\ UNCHANGED <<held, vectors, wanted, narrowed, hits, given, rewrites, calm>>

\* _merge_hybrid_results with equal weights: each list adds 1 / (60 + rank), and
\* the best are cut at the limit before rows are looked at
RankIn(s, c) == IF \E k \in DOMAIN s : s[k].id = c
                THEN 100000 \div (60 + CHOOSE k \in DOMAIN s : s[k].id = c) ELSE 0
OnlyIn(s, t) == Only(s, {i \in DOMAIN s : \A k \in DOMAIN t : t[k].id # s[i].id})
Fused(dense, sparse, n) ==
    LET both == dense \o OnlyIn(sparse, dense)
        score(c) == RankIn(dense, c) + RankIn(sparse, c)
    IN  Top(Ranked([k \in DOMAIN both |-> Rated(both[k], score(both[k].id))]), n)

QueryByWords ==
    /\ place = "words"
    /\ hits' = Fused(byMeaning, Found("sparse", 3 * Window), wanted.limit)
    /\ byMeaning' = <<>>
    /\ place' = "adjust"
    /\ UNCHANGED <<held, vectors, wanted, narrowed, given, rewrites, calm>>

\* the section of the row, else of the payload
SectionOf(h) == IF held[h.id] # Gone THEN held[h.id].section ELSE h.section
SizeOfRow(h) == IF held[h.id] # Gone THEN held[h.id].size ELSE 0
InSection(h) == wanted.sections = {} \/ SectionOf(h) \in wanted.sections
LargeEnough(h) == SizeOfRow(h) >= wanted.minSize

\* rerank_results: the first candidates by the reranker, the rest after them as
\* they were; a reranker that is not available leaves the order alone
RerankScore(h) == IF held[h.id] # Gone THEN held[h.id].rerank ELSE 0
Reranked(s) ==
    LET n == IF wanted.candidates = 0 THEN Len(s) ELSE Min({wanted.candidates, Len(s)})
        first == Ranked([k \in 1 .. n |-> Rated(s[k], RerankScore(s[k]))])
    IN  IF wanted.rerank = "yes"
        THEN Top([k \in DOMAIN s |-> IF k <= n THEN first[k] ELSE s[k]], wanted.limit) ELSE s

WithRecency(s) ==
    IF wanted.recency
    THEN Ranked([k \in DOMAIN s |->
            Rated(s[k], s[k].score + Recent[YearOf[PaperOf[s[k].id]]])])
    ELSE s

Suitable(s) == Only(s, {i \in DOMAIN s : InSection(s[i]) /\ LargeEnough(s[i])})
AdjustedTop(s) == WithRecency(Reranked(Suitable(Top(s, wanted.limit))))
    \* mutant: the limit is applied before the rows are looked at
Adjusted(s) == Top(WithRecency(Reranked(Suitable(s))), wanted.limit)

Adjust ==
    /\ place = "adjust"
    /\ hits' = Adjusted(hits)
    /\ place' = "build"
    /\ UNCHANGED <<held, vectors, wanted, narrowed, byMeaning, given, rewrites, calm>>

-----------------------------------------------------------------------------
(* search: results.                                                        *)

\* _build_search_results, from rows read once more: a chunk whose row has gone
\* since has no text
Blank == ""
TextOfRow(h) == IF held[h.id] # Gone THEN held[h.id].text ELSE Blank
BareSize(h) == IF held[h.id] # Gone THEN held[h.id].bare ELSE 0
Presentable(h) ==
    /\ PaperOf[h.id] \in Registered
    /\ wanted.minSize > 0 => BareSize(h) >= wanted.minSize
Result(h, n) == [id |-> h.id, paper |-> PaperOf[h.id], text |-> TextOfRow(h), score |-> n]
Built(s) ==
    LET kept == Top(Only(s, {i \in DOMAIN s : Presentable(s[i])}), wanted.limit)
    IN  [k \in DOMAIN kept |-> Result(kept[k], kept[k].score)]

\* apply_field_boost with a weight of one half, or of one, which excludes
Mentioned(r) == r.paper \in Mentions
Size(n) == IF n < 0 THEN -n ELSE n
Boosted(s) ==
    LET left == IF wanted.boost = "only" THEN Only(s, {i \in DOMAIN s : Mentioned(s[i])}) ELSE s
        more(n) == IF wanted.boost = "only" THEN Size(n) ELSE Size(n) \div 2
    IN  IF wanted.boost = "none" THEN s
        ELSE Ranked([k \in DOMAIN left |-> IF Mentioned(left[k])
                        THEN Result(left[k], left[k].score + more(left[k].score)) ELSE left[k]])

\* _apply_auto_min_score_filter: what is below the 30th percentile goes
AboveWorst(s) ==
    LET falling == Ranked(s)
        n == Len(s)
        threshold == falling[n - (3 * n) \div 10].score
    IN  IF wanted.auto /\ s # <<>> THEN Only(s, {i \in DOMAIN s : s[i].score >= threshold}) ELSE s

\* _deduplicate_results: of results with the same text the one of the newest
\* document stays, in the place of the first
Newer(r, old) ==
    \/ YearOf[r.paper] > YearOf[old.paper]
    \/ YearOf[r.paper] = YearOf[old.paper] /\ r.score > old.score
WithResult(kept, r) ==
    LET same == {k \in DOMAIN kept : kept[k].text = r.text}
    IN  IF same = {} THEN Append(kept, r)
        ELSE [k \in DOMAIN kept |-> IF k \in same /\ Newer(r, kept[k]) THEN r ELSE kept[k]]
Deduplicated(s) ==
    LET kept[n \in 0 .. Len(s)] == IF n = 0 THEN <<>> ELSE WithResult(kept[n - 1], s[n])
    IN  IF wanted.dedup THEN kept[Len(s)] ELSE s

\* int() of a year that is none, reached when two texts are compared
Unreadable(s) ==
    wanted.dedup /\ \E i, j \in DOMAIN s :
        i # j /\ s[i].text = s[j].text /\ YearOf[s[i].paper] = NotAYear

Improved(s) == AboveWorst(Boosted(Built(s)))

Build ==
    /\ place = "build"
    /\ ~Unreadable(Improved(hits))
    /\ given' = Deduplicated(Improved(hits))
    /\ place' = "done"
    /\ UNCHANGED <<held, vectors, wanted, narrowed, byMeaning, hits, rewrites, calm>>

\* a year that is none, or a store or a model that fails: an error of 500
SearchFails ==
    /\ place \in {"search", "words", "adjust", "build"}
    /\ place' = "failed"
    /\ UNCHANGED <<held, vectors, wanted, narrowed, byMeaning, hits, given, rewrites, calm>>

SearchNext ==
    \/ \E c \in ChunkIds : RewriteChunk(c)
    \/ AskNothing \/ Ask \/ QueryOnce \/ QueryByMeaning \/ QueryByWords \/ Adjust \/ Build
    \/ SearchFails

SearchSpec == SearchInit /\ [][SearchNext]_searchVars

-----------------------------------------------------------------------------
(* What a reader takes an answer for.                                      *)

\* never more than was wanted for, nothing of other documents, no text twice, also
\* while the index is rewritten; and if it is not, nothing but what was wanted for
WithinTheQuestion ==
    /\ Len(given) <= wanted.limit
    /\ \A i \in DOMAIN given :
          /\ given[i].paper \in Registered
          /\ wanted.title # Unasked => TitleOf[given[i].paper] = wanted.title
          /\ wanted.dedup => \A j \in DOMAIN given : given[i].text = given[j].text => i = j
          /\ calm => /\ held[given[i].id].bare >= wanted.minSize
                     /\ wanted.sections # {} => held[given[i].id].section \in wanted.sections

\* of the documents with a text, one of the newest is shown
NewestAreShown ==
    wanted.dedup /\ wanted.boost # "only" /\ ~wanted.auto =>
        \A i \in DOMAIN given : \A k \in DOMAIN hits :
            Presentable(hits[k]) /\ TextOfRow(hits[k]) = given[i].text =>
                YearOf[PaperOf[hits[k].id]] <= YearOf[given[i].paper]

\* what a chunk is worth to a question: its score, or what its ranks add up to if
\* they are among those a half of a hybrid search returns
RankBy(mode, c) == CHOOSE k \in 1 .. Cardinality(Matching) : RankedBy(mode)[k] = c
ByRank(n) == IF n <= 3 * Window THEN 100000 \div (60 + n) ELSE 0
Worth(c) ==
    IF wanted.mode = "hybrid" THEN ByRank(RankBy("dense", c)) + ByRank(RankBy("sparse", c))
    ELSE Score(wanted.mode, c)
Plain == wanted.rerank # "yes" /\ wanted.boost = "none" /\ ~wanted.recency /\ ~wanted.auto

\* short chunks are left out after the search, so there must be enough to choose from
Eligible == {c \in Matching : wanted.mode = "scroll" \/ held[c].size >= wanted.minSize}
EnoughFound ==
    /\ Window >= wanted.limit
    /\ wanted.minSize = 0 \/ (wanted.mode # "hybrid" /\ Cardinality(Matching) <= Window)

\* a question that asks for no more than a ranking gets the best there are, from
\* all that match it
BestAreShown ==
    /\ calm /\ Plain /\ EnoughFound
    /\ wanted.title # Unasked => Titled(wanted.title) # {}
    => LET chosen == {hits[k].id : k \in DOMAIN hits} IN
       /\ Cardinality(chosen) = Min({wanted.limit, Cardinality(Eligible)})
       /\ \A c \in Eligible \ chosen, d \in chosen : Worth(c) <= Worth(d)
       /\ {given[i].text : i \in DOMAIN given}
             = {held[c].text : c \in {d \in chosen : /\ PaperOf[d] \in Registered
                                                     /\ held[d].bare >= wanted.minSize}}

\* An answer holds what was wanted for and, of what the index holds, the best;
\* among equal texts the newest.
AnswersAreTheBest == place = "done" => WithinTheQuestion /\ NewestAreShown /\ BestAreShown
=============================================================================
