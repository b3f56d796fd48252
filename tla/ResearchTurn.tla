---------------------------- MODULE ResearchTurn ----------------------------
(***************************************************************************)
(* The searches of the research assistant and the numbers its citations    *)
(* carry through a conversation.  A turn of a thread starts a tracker from *)
(* the sources of the turns before; the model calls the search tool, and   *)
(* the calls of one message run in threads of their own; every result not  *)
(* seen before gets the next number; at the end the sources of the whole   *)
(* thread are sent and stored with the answer.                             *)
(***************************************************************************)
EXTENDS Naturals, Sequences, FiniteSets, SequencesExt, FiniteSetsExt

CONSTANTS
    Chunks,
    ToolCalls,    \* threads that run search_documents
    MaxHits,      \* bound: results of a search
    MaxSearches,  \* MAX_SEARCHES
    MaxTurns      \* bound: turns of the thread

ASSUME TurnAssumption == MaxSearches \in Nat \ {0} /\ MaxHits \in Nat

VARIABLES
    turn,      \* turns begun
    asking,    \* a turn is under way
    asked,     \* Len(per_query)
    numbered,  \* set of [chunk, index]: all_results with their numbers
    seen,      \* SUBSET Chunks: _seen_ids
    count,     \* _global_result_count
    call,      \* [ToolCalls -> where a call is, the hits it has still to number
               \* and the numbers it has shown the model, 0 for "[?]"]
    prior,     \* set of [chunk, index]: prior_sources
    messages,  \* Seq of sets of [chunk, index]: the sources stored with answers
    overlap,   \* history: two calls searched at once
    restarted, \* history: a turn began without the sources of the thread
    unkept,    \* history: a turn with sources of its own was not stored
    cited      \* history: all of [chunk, index] that was ever given a number

turnVars == <<turn, asking, asked, numbered, seen, count, call, prior, messages, overlap,
              restarted, unkept, cited>>

NoCall == [at |-> "idle", hits |-> <<>>, shown |-> <<>>]

TurnInit ==
    /\ turn = 0
    /\ asking = FALSE
    /\ asked = 0
    /\ numbered = {}
    /\ seen = {}
    /\ count = 0
    /\ call = [c \in ToolCalls |-> NoCall]
    /\ prior = {}
    /\ messages = <<>>
    /\ overlap = FALSE
    /\ restarted = FALSE
    /\ unkept = FALSE
    /\ cited = {}

\* _extract_prior_sources: one source per number, the later message wins
History ==
    LET all == UNION ToSet(messages)
        last(i) == SelectLastInSeq(messages, LAMBDA m : \E s \in m : s.index = i)
    IN  {s \in all : s \in messages[last(s.index)]}

\* SearchTracker.__init__: the count goes on from the highest number
CountedFromOne(sources) == 0
CountedFrom(sources) == Max({s.index : s \in sources} \union {0})

\* _load_conversation_history: a thread that cannot be read has no history, and a
\* client that is signed in sends none
BeginTurn(read) ==
    LET sources == IF read THEN History ELSE {}
    IN  /\ ~asking
        /\ turn < MaxTurns
        /\ turn' = turn + 1
        /\ asking' = TRUE
        /\ asked' = 0
        /\ numbered' = {}
        /\ prior' = sources
        /\ seen' = {s.chunk : s \in sources}
        /\ count' = CountedFrom(sources)
        /\ restarted' = (restarted \/ sources # History)
        /\ UNCHANGED <<call, messages, overlap, unkept, cited>>

\* the limit is looked at before the search
UnderLimit == asked < MaxSearches

Search(c) ==
    /\ asking
    /\ call[c].at = "idle"
    /\ UnderLimit
    /\ call' = [call EXCEPT ![c] = [NoCall EXCEPT !.at = "searching"]]
    /\ overlap' = (overlap \/ \E d \in ToolCalls : call[d].at # "idle")
    /\ UNCHANGED <<turn, asking, asked, numbered, seen, count, prior, messages, restarted, unkept,
                   cited>>

\* the answer of the database, empty when it failed; the search is noted
Answered(c, hits) ==
    /\ call[c].at = "searching"
    /\ asked' = asked + 1
    /\ call' = [call EXCEPT ![c].at = "testing", ![c].hits = hits]
    /\ UNCHANGED <<turn, asking, numbered, seen, count, prior, messages, overlap, restarted, unkept,
                   cited>>

\* a hit seen before keeps no number; a new one advances the count
Known(c) ==
    /\ call[c].at = "testing"
    /\ call[c].hits # <<>>
    /\ Head(call[c].hits) \in seen
    /\ call' = [call EXCEPT ![c].hits = Tail(@), ![c].shown = Append(@, 0)]
    /\ UNCHANGED <<turn, asking, asked, numbered, seen, count, prior, messages, overlap, restarted,
                   unkept, cited>>

NextNumber(c) ==
    /\ call[c].at = "testing"
    /\ call[c].hits # <<>>
    /\ Head(call[c].hits) \notin seen
    /\ count' = count + 1
    /\ call' = [call EXCEPT ![c].at = "numbering"]
    /\ UNCHANGED <<turn, asking, asked, numbered, seen, prior, messages, overlap, restarted, unkept,
                   cited>>

\* it takes what the count is by now
Number(c) ==
    /\ call[c].at = "numbering"
    /\ numbered' = numbered \union {[chunk |-> Head(call[c].hits), index |-> count]}
    /\ cited' = cited \union {[chunk |-> Head(call[c].hits), index |-> count]}
    /\ seen' = seen \union {Head(call[c].hits)}
    /\ call' = [call EXCEPT ![c] = [at |-> "testing", hits |-> Tail(@.hits),
                                    shown |-> Append(@.shown, count)]]
    /\ UNCHANGED <<turn, asking, asked, count, prior, messages, overlap, restarted, unkept>>

Answer(c) ==
    /\ call[c].at = "testing"
    /\ call[c].hits = <<>>
    /\ call' = [call EXCEPT ![c] = NoCall]
    /\ UNCHANGED <<turn, asking, asked, numbered, seen, count, prior, messages, overlap, restarted,
                   unkept, cited>>

\* get_sources, and _persist_conversation, which may fail: the turn is shown to
\* the user either way
EndTurn(persisted) ==
    /\ asking
    /\ \A c \in ToolCalls : call[c].at = "idle"
    /\ asking' = FALSE
    /\ messages' = IF persisted THEN Append(messages, prior \union numbered) ELSE messages
    /\ unkept' = (unkept \/ (~persisted /\ numbered # {}))
    /\ UNCHANGED <<turn, asked, numbered, seen, count, call, prior, overlap, restarted, cited>>

Results == UNION {[1 .. n -> Chunks] : n \in 0 .. MaxHits}

TurnNext ==
    \/ \E read \in BOOLEAN : BeginTurn(read)
    \/ \E c \in ToolCalls :
          \/ Search(c)
          \/ \E hits \in Results : IsInjective(hits) /\ Answered(c, hits)
          \/ Known(c)
          \/ NextNumber(c)
          \/ Number(c)
          \/ Answer(c)
    \/ \E persisted \in BOOLEAN : EndTurn(persisted)

TurnSpec == TurnInit /\ [][TurnNext]_turnVars

-----------------------------------------------------------------------------
OneForOne(sources) == \A r, s \in sources : (r.index = s.index) <=> (r.chunk = s.chunk)

\* While searches do not overlap and the thread can be read, the sources of a turn are
\* numbered from 1 without gaps, and over all the answers that are stored no chunk
\* has two numbers and no number two chunks, whichever turns between were not stored:
\* so a marker of an earlier answer still resolves, and the position MCP uses as a
\* label is the number.  That holds of every number that was ever shown as long as the
\* turns are stored; those of a turn that was not are used again.
CitationsAreStable ==
    ~overlap /\ ~restarted =>
        /\ asking =>
              /\ {s.index : s \in prior \union numbered} = 1 .. Cardinality(prior \union numbered)
              /\ OneForOne((UNION ToSet(messages)) \union prior \union numbered)
        /\ ~unkept => OneForOne(cited)

=============================================================================
