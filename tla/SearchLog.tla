----------------------------- MODULE SearchLog -----------------------------
(***************************************************************************)
(* The log of the searches of a page of the web client, and the stars that *)
(* are given to their results and summaries.  The page names its searches  *)
(* by a state that it renews as it asks; a search is logged when it is     *)
(* answered, its summary when that has streamed, by calls nobody waits     *)
(* for.  Stars are stored under the name the page has when they are given. *)
(* Digging deeper, a new topic and saved research put other summaries and  *)
(* trees on the page, under the name of the search that was logged last.   *)
(***************************************************************************)
EXTENDS Integers, FiniteSets

CONSTANTS
    MaxSubmits,    \* bound: searches asked
    MaxRatings,    \* bound: stars given
    MaxSigns,      \* bound: times the visitor signs in or out
    MaxDigs        \* bound: topics whose searches are under way

StarKinds == {"search_result", "ai_summary"}
NoSearch == 0
Failed == -1       \* the text of a summary that failed
Elsewhere == -2    \* of a topic or of saved research, not of a search of the page
NotFinding == [of |-> NoSearch]
NoStar == [rid |-> 0, score |-> 0]

ASSUME LogAssumption == {MaxSubmits, MaxRatings, MaxSigns, MaxDigs} \subseteq Nat

VARIABLES
    pageId,       \* the name of the page's search
    finding,      \* the search under way: [of, logAs]
    shownOf,      \* the search whose results are shown
    logId,        \* the name under which summaries are logged
    streamOf, textOf, treeOf,   \* the searches of the stream, of the summary and of its tree
    busy, deeper,  \* aiSummaryLoading, isDrilldown
    digs, whole,  \* topics being searched; the tree that is being summarised as a whole
    strayed,       \* history: the names under which the page went elsewhere
    signedIn,
    loggedIds, mail,   \* names logged; calls nobody waits for
    activityRows,      \* the log: SUBSET [id, owner, of, bare, summary, tree, marked]
    starKind,         \* the kind of stars that is followed: the page keeps two, apart
    ratings,      \* [names -> [rid, score, of]]
    asks,         \* stars on their way
    star, starReads, overtaken,   \* the star shown; the reads of it; it may be another's
    submits, answered, rated, signs

submitVars == <<submits, rated, signs>>
summaryVars == <<streamOf, textOf, treeOf, busy, deeper>>
digVars == <<digs, whole, strayed>>
ratingVars == <<starKind, ratings, asks, star, overtaken>>
logVars == <<pageId, finding, shownOf, logId, summaryVars, digVars, signedIn,
             loggedIds, mail, activityRows, ratingVars, starReads, answered, submitVars>>

Owner == IF signedIn THEN "user" ELSE "visitor"

Enabled ==
    signedIn /\ (IF starKind = "search_result" THEN shownOf # NoSearch ELSE textOf # NoSearch)

\* mutant: the stars are read once, whatever search follows
ReadStarsOnce ==
    starReads' = starReads \cup IF Enabled' /\ ~Enabled THEN {pageId'} ELSE {}

\* The effect of useRatings: what is shown is read again for another name, or once enabled.
ReadStars ==
    starReads' = starReads \cup
        IF Enabled' /\ (~Enabled \/ pageId' # pageId) THEN {pageId'} ELSE {}

Stored(ref) ==
    IF ref \in DOMAIN ratings THEN [rid |-> ratings[ref].rid, score |-> ratings[ref].score]
    ELSE NoStar

-----------------------------------------------------------------------------
LogInit ==
    /\ pageId = 1 /\ finding = NotFinding /\ shownOf = NoSearch /\ logId = NoSearch
    /\ streamOf = NoSearch /\ textOf = NoSearch /\ treeOf = NoSearch
    /\ busy = FALSE /\ deeper = FALSE /\ digs = 0 /\ whole = NoSearch /\ strayed = {}
    /\ signedIn = FALSE /\ loggedIds = {} /\ mail = {} /\ activityRows = {}
    /\ starKind \in StarKinds /\ ratings = << >> /\ asks = {} /\ star = NoStar
    /\ starReads = {} /\ overtaken = FALSE
    /\ submits = 0 /\ answered = 0 /\ rated = 0 /\ signs = 0

\* A search is asked; it will be logged under the name of the render that asks.
LogSubmit ==
    /\ finding = NotFinding /\ submits < MaxSubmits
    /\ finding' = [of |-> submits + 1, logAs |-> pageId]
    /\ pageId' = submits + 2 /\ submits' = submits + 1
    /\ UNCHANGED <<shownOf, logId, summaryVars, digVars, signedIn, loggedIds, mail,
                   activityRows, ratingVars, answered, rated, signs>>
    /\ ReadStars

Post(bare) ==
    [call |-> "post", id |-> finding.logAs, owner |-> Owner, of |-> finding.of, bare |-> bare]

\* Answered, a search is logged; what is found is summarised, and a tree and a summary
\* under way are given up.  Nothing found, the summary is emptied and all else goes on.
LogAnswer(bare) ==
    /\ finding # NotFinding
    /\ finding' = NotFinding /\ answered' = answered + 1
    /\ shownOf' = IF bare THEN NoSearch ELSE finding.of
    /\ logId' = finding.logAs
    /\ loggedIds' = loggedIds \cup {finding.logAs}
    /\ mail' = mail \cup IF finding.logAs \in loggedIds THEN {} ELSE {Post(bare)}
    /\ textOf' = NoSearch
    /\ streamOf' = IF bare THEN streamOf ELSE finding.of
    /\ treeOf' = IF bare THEN treeOf ELSE NoSearch
    /\ busy' = (busy \/ ~bare) /\ deeper' = (deeper /\ bare)
    /\ UNCHANGED <<pageId, digVars, signedIn, activityRows, ratingVars, submitVars>>
    /\ ReadStars

SearchBreaks ==
    /\ finding # NotFinding /\ finding' = NotFinding
    /\ UNCHANGED <<pageId, shownOf, logId, summaryVars, digVars, signedIn, loggedIds,
                   mail, activityRows, ratingVars, starReads, answered, submitVars>>

\* mutant: a summary is logged under the name that the page has by now
PatchPage(summary, tree) ==
    [call |-> "patch", id |-> pageId, owner |-> Owner, summary |-> summary, tree |-> tree,
     row |-> << >>]

Patch(summary, tree) ==
    [call |-> "patch", id |-> logId, owner |-> Owner, summary |-> summary, tree |-> tree,
     row |-> << >>]

\* Nothing is logged before a search is.
Tell(summary, tree) == IF logId = NoSearch THEN {} ELSE {Patch(summary, tree)}

\* The summary is no longer loading: it is logged if it is there, is no error and not
\* that of a node below the root.
Tells(summary) == busy /\ ~deeper /\ summary \notin {NoSearch, Failed}

SummaryToken ==
    /\ streamOf # NoSearch /\ textOf # streamOf
    /\ textOf' = streamOf
    /\ UNCHANGED <<pageId, finding, shownOf, logId, streamOf, treeOf, busy, deeper, digVars,
                   signedIn, loggedIds, mail, activityRows, ratingVars, answered, submitVars>>
    /\ ReadStars

StreamStops(failed) ==
    /\ streamOf # NoSearch /\ streamOf' = NoSearch
    /\ textOf' = IF failed THEN Failed ELSE textOf
    /\ busy' = FALSE
    /\ mail' = mail \cup IF Tells(textOf') THEN Tell(textOf', treeOf) ELSE {}
    /\ UNCHANGED <<pageId, finding, shownOf, logId, treeOf, deeper, digVars, signedIn, loggedIds,
                   activityRows, ratingVars, answered, submitVars>>
    /\ ReadStars

Stray == strayed' = strayed \cup {logId}

\* Summarised anew for some of the results that are there, with the question that is in
\* the search box; a summary under way and the tree are given up.
SummariseAgain(typed) ==
    /\ shownOf # NoSearch
    /\ streamOf' = IF typed THEN Elsewhere ELSE shownOf
    /\ textOf' = NoSearch /\ treeOf' = NoSearch /\ busy' = TRUE /\ deeper' = FALSE
    /\ IF streamOf' = logId THEN UNCHANGED strayed ELSE Stray
    /\ UNCHANGED <<pageId, finding, shownOf, logId, digs, whole, signedIn, loggedIds, mail,
                   activityRows, ratingVars, answered, submitVars>>
    /\ ReadStars

-----------------------------------------------------------------------------
(* The tree of the summary and what leads away from it.                    *)

RootOf == IF treeOf = NoSearch THEN textOf ELSE treeOf

\* startDrilldown: a part of the summary is made a topic below it, or one on its own.
Dig(anew) ==
    /\ ~busy /\ textOf \notin {NoSearch, Failed} /\ digs < MaxDigs
    /\ digs' = digs + 1 /\ busy' = TRUE /\ textOf' = NoSearch
    /\ deeper' = ~anew
    /\ treeOf' = IF anew THEN NoSearch ELSE RootOf
    /\ mail' = mail \cup IF anew \/ deeper THEN {} ELSE Tell(NoSearch, RootOf)
    /\ IF anew THEN Stray ELSE UNCHANGED strayed
    /\ UNCHANGED <<pageId, finding, shownOf, logId, streamOf, whole, signedIn, loggedIds,
                   activityRows, ratingVars, answered, submitVars>>
    /\ ReadStars

\* The topic's summary is streamed into whatever is shown by then.
DigAnswers ==
    /\ digs > 0 /\ digs' = digs - 1
    /\ shownOf' \in {NoSearch, Elsewhere}
    /\ streamOf' = Elsewhere /\ textOf' = NoSearch /\ busy' = TRUE
    /\ IF deeper THEN UNCHANGED strayed ELSE Stray
    /\ UNCHANGED <<pageId, finding, logId, treeOf, deeper, whole, signedIn, loggedIds, mail,
                   activityRows, ratingVars, answered, submitVars>>
    /\ ReadStars
DigFails ==
    /\ digs > 0 /\ digs' = digs - 1
    /\ textOf' = Failed /\ busy' = FALSE
    /\ UNCHANGED <<pageId, finding, shownOf, logId, streamOf, treeOf, deeper, whole, strayed,
                   signedIn, loggedIds, mail, activityRows, ratingVars, answered, submitVars>>
    /\ ReadStars

\* A topic is added below the root, beside what is shown.
TreeGrows ==
    /\ treeOf # NoSearch \/ (~busy /\ textOf \notin {NoSearch, Failed})
    /\ treeOf' = RootOf /\ mail' = mail \cup Tell(NoSearch, RootOf)
    /\ UNCHANGED <<pageId, finding, shownOf, logId, streamOf, textOf, busy, deeper, digVars,
                   signedIn, loggedIds, activityRows, ratingVars, starReads, answered, submitVars>>

\* Every way through the tree gives up the stream; to where the page is, nothing else.
StayThere ==
    /\ treeOf # NoSearch
    /\ streamOf' = NoSearch
    /\ UNCHANGED <<pageId, finding, shownOf, logId, textOf, treeOf, busy, deeper, digVars, signedIn,
                   loggedIds, mail, activityRows, ratingVars, starReads, answered, submitVars>>
GoTo(root) ==
    /\ treeOf # NoSearch /\ (root => deeper)
    /\ streamOf' = NoSearch /\ busy' = FALSE /\ deeper' = ~root
    /\ IF root THEN textOf' = treeOf /\ shownOf' = treeOf
       ELSE textOf' \in {NoSearch, Elsewhere} /\ shownOf' \in {NoSearch, Elsewhere}
    /\ mail' = mail \cup IF root /\ busy THEN Tell(treeOf, treeOf) ELSE {}
    /\ UNCHANGED <<pageId, finding, logId, treeOf, digVars, signedIn, loggedIds, activityRows,
                   ratingVars, answered, submitVars>>
    /\ ReadStars

\* The node that is shown is removed; what it shows stays.
RemoveShown ==
    /\ deeper /\ deeper' = FALSE
    /\ Stray
    /\ UNCHANGED <<pageId, finding, shownOf, logId, streamOf, textOf, treeOf, busy, digs, whole,
                   signedIn, loggedIds, mail, activityRows, ratingVars, starReads, answered,
                   submitVars>>

\* A summary of the whole tree becomes that of the root, and the one on the page.
AskWhole ==
    /\ treeOf # NoSearch /\ whole = NoSearch
    /\ whole' = treeOf
    /\ UNCHANGED <<pageId, finding, shownOf, logId, summaryVars, digs, strayed, signedIn,
                   loggedIds, mail, activityRows, ratingVars, starReads, answered, submitVars>>
WholeAnswers ==
    /\ whole # NoSearch /\ whole' = NoSearch
    /\ textOf' = whole /\ treeOf' = IF treeOf = NoSearch THEN NoSearch ELSE whole
    /\ IF whole = logId THEN UNCHANGED strayed ELSE Stray
    /\ UNCHANGED <<pageId, finding, shownOf, logId, streamOf, busy, deeper, digs, signedIn,
                   loggedIds, mail, activityRows, ratingVars, answered, submitVars>>
    /\ ReadStars
WholeFails ==
    /\ whole # NoSearch /\ whole' = NoSearch
    /\ UNCHANGED <<pageId, finding, shownOf, logId, summaryVars, digs, strayed, signedIn,
                   loggedIds, mail, activityRows, ratingVars, starReads, answered, submitVars>>

\* handleLoadResearch: saved research is shown; its tree is sent if it has more branches,
\* its summary if one was loading.
LoadResearch(branches) ==
    /\ textOf' = Elsewhere /\ treeOf' = Elsewhere /\ shownOf' = Elsewhere
    /\ busy' = FALSE /\ deeper' = FALSE
    /\ mail' = mail \cup (IF busy THEN Tell(Elsewhere, Elsewhere) ELSE {})
                    \cup (IF branches THEN Tell(NoSearch, Elsewhere) ELSE {})
    /\ Stray
    /\ UNCHANGED <<pageId, finding, logId, streamOf, digs, whole, signedIn, loggedIds,
                   activityRows, ratingVars, answered, submitVars>>
    /\ ReadStars

-----------------------------------------------------------------------------
SignInOrOut ==
    /\ signs < MaxSigns /\ signs' = signs + 1
    /\ signedIn' = ~signedIn
    /\ UNCHANGED <<pageId, finding, shownOf, logId, summaryVars, digVars, loggedIds, mail,
                   activityRows, ratingVars, answered, submits, rated>>
    /\ ReadStars

-----------------------------------------------------------------------------
\* What arrives is handled; what is lost, or finds no row of its sender, leaves no trace.
LogArrives(m) ==
    /\ m.call = "post"
    /\ activityRows' = activityRows \cup
        {[id |-> m.id, owner |-> m.owner, of |-> m.of, bare |-> m.bare,
          summary |-> NoSearch, tree |-> NoSearch, marked |-> FALSE]}
    /\ mail' = mail \ {m}

PatchReads(m) ==
    /\ m.call = "patch" /\ m.row = << >>
    /\ \E r \in activityRows :
        /\ r.id = m.id /\ r.owner = m.owner
        /\ mail' = (mail \ {m}) \cup {[m EXCEPT !.row = <<r>>]}
    /\ UNCHANGED activityRows

\* The columns it has are written; the filters, the tree among them, as it has read them.
PatchWrites(m) ==
    /\ m.call = "patch" /\ m.row # << >>
    /\ activityRows' =
        {IF r.id = m.id /\ r.owner = m.owner
         THEN [r EXCEPT !.summary = IF m.summary # NoSearch THEN m.summary ELSE @,
                        !.tree = IF m.tree # NoSearch THEN m.tree ELSE m.row[1].tree]
         ELSE r : r \in activityRows}
    /\ mail' = mail \ {m}

MailIsLost(m) ==
    /\ m.call = "patch" => m.row = << >>
    /\ mail' = mail \ {m} /\ UNCHANGED activityRows

Mail(m) ==
    /\ LogArrives(m) \/ PatchReads(m) \/ PatchWrites(m) \/ MailIsLost(m)
    /\ UNCHANGED <<pageId, finding, shownOf, logId, summaryVars, digVars, signedIn, loggedIds,
                   ratingVars, starReads, answered, submitVars>>

-----------------------------------------------------------------------------
NewAsk ==
    [ref |-> pageId, number |-> rated + 1, at |-> "sent", saved |-> NoStar,
     of |-> IF starKind = "search_result" THEN shownOf ELSE textOf]

Rate ==
    /\ Enabled /\ shownOf # NoSearch /\ rated < MaxRatings
    /\ rated' = rated + 1 /\ asks' = asks \cup {NewAsk}
    /\ UNCHANGED <<pageId, finding, shownOf, logId, summaryVars, digVars, signedIn, loggedIds, mail,
                   activityRows, starKind, ratings, star, overtaken, starReads, answered, submits,
                   signs>>

RatingLooks(a) ==
    /\ a.at = "sent"
    /\ asks' = (asks \ {a}) \cup {[a EXCEPT !.at = "looked", !.saved = Stored(a.ref)]}
    /\ UNCHANGED <<ratings, star, overtaken, activityRows>>

\* The rating that was found is changed, or one is added; it fails if meanwhile that one
\* was removed, or another was added (the table takes one for a name).
RatingStores(a) ==
    /\ a.at = "looked"
    /\ IF Stored(a.ref).rid # a.saved.rid
       THEN asks' = asks \ {a} /\ UNCHANGED ratings
       ELSE LET rid == IF a.saved = NoStar THEN a.number ELSE a.saved.rid IN
            /\ ratings' = [n \in DOMAIN ratings \cup {a.ref} |->
                            IF n = a.ref THEN [rid |-> rid, score |-> a.number, of |-> a.of]
                            ELSE ratings[n]]
            /\ asks' = (asks \ {a}) \cup
                    {[a EXCEPT !.at = "stored", !.saved = [rid |-> rid, score |-> a.number]]}
    /\ UNCHANGED <<star, overtaken, activityRows>>

\* The user's row of that name is marked, and the page shows what was saved.
RatingAnswers(a) ==
    /\ a.at = "stored" /\ asks' = asks \ {a}
    /\ activityRows' = {IF r.id = a.ref /\ r.owner = "user" THEN [r EXCEPT !.marked = TRUE]
                        ELSE r : r \in activityRows}
    /\ star' = a.saved
    /\ overtaken' = (overtaken \/ a.ref # pageId \/ \E b \in asks \ {a} : b.ref = a.ref)
    /\ UNCHANGED ratings

RatingIsLost(a) ==
    /\ a.at = "sent" /\ asks' = asks \ {a}
    /\ UNCHANGED <<ratings, star, overtaken, activityRows>>

Rating(a) ==
    /\ RatingLooks(a) \/ RatingStores(a) \/ RatingAnswers(a) \/ RatingIsLost(a)
    /\ UNCHANGED <<pageId, finding, shownOf, logId, summaryVars, digVars, signedIn, loggedIds, mail,
                   starKind, starReads, answered, submitVars>>

\* The star that is shown is removed, if it is still stored.
RemoveRating ==
    /\ Enabled /\ shownOf # NoSearch /\ star # NoStar
    /\ \E n \in DOMAIN ratings : ratings[n].rid = star.rid
    /\ ratings' = [n \in {m \in DOMAIN ratings : ratings[m].rid # star.rid} |-> ratings[n]]
    /\ star' = NoStar
    /\ overtaken' = (overtaken \/ \E a \in asks : a.at = "stored" /\ a.saved.rid = star.rid)
    /\ UNCHANGED <<pageId, finding, shownOf, logId, summaryVars, digVars, signedIn, loggedIds, mail,
                   activityRows, starKind, asks, starReads, answered, submitVars>>

\* A read replaces what is shown, whatever name the page has by now.
StarsAnswer(ref) ==
    /\ starReads' = starReads \ {ref}
    /\ \/ /\ star' = IF signedIn THEN Stored(ref) ELSE NoStar
          /\ overtaken' = ~(ref = pageId /\ signedIn /\ (overtaken => asks = {}))
       \/ UNCHANGED star /\ overtaken' = TRUE
    /\ UNCHANGED <<pageId, finding, shownOf, logId, summaryVars, digVars, signedIn, loggedIds, mail,
                   activityRows, starKind, ratings, asks, answered, submitVars>>

LogNext ==
    \/ LogSubmit \/ SearchBreaks \/ \E bare \in BOOLEAN : LogAnswer(bare)
    \/ SummaryToken \/ \E failed \in BOOLEAN : StreamStops(failed)
    \/ (\E typed \in BOOLEAN : SummariseAgain(typed)) \/ SignInOrOut
    \/ (\E anew \in BOOLEAN : Dig(anew)) \/ DigAnswers \/ DigFails
    \/ TreeGrows \/ StayThere \/ (\E root \in BOOLEAN : GoTo(root)) \/ RemoveShown
    \/ AskWhole \/ WholeAnswers \/ WholeFails
    \/ \E branches \in BOOLEAN : LoadResearch(branches)
    \/ \E m \in mail : Mail(m)
    \/ Rate \/ RemoveRating
    \/ \E a \in asks : Rating(a)
    \/ \E ref \in starReads : StarsAnswer(ref)

LogSpec == LogInit /\ [][LogNext]_logVars

-----------------------------------------------------------------------------
(* Every search that is answered is logged once, under a name of its own; and the    *)
(* summary and the tree that its row holds are those of this search, whichever       *)
(* summary was streaming as it was answered - unless it found nothing, when that of  *)
(* an earlier one is not stopped, or the page has strayed since it was answered:     *)
(* began a new topic, left or removed the node that a topic was dug for before it    *)
(* was found, loaded saved research, summarised another question or results that are *)
(* not the search's, or got the summary of a whole tree that was there before.  The  *)
(* next search that is answered is told of truly again.                              *)
LogTellsItsSearch ==
    /\ Cardinality(loggedIds) = answered
    /\ \A r \in activityRows :
        /\ \A s \in activityRows : r.id = s.id \/ r.of = s.of => r = s
        /\ r.bare \/ r.id \in strayed \/ {r.summary, r.tree} \subseteq {NoSearch, r.of}

(* The star beside a result or the summary is the one stored under the name of the   *)
(* page, when nothing is under way and no answer overtook another.               *)
StarsAreStored ==
    Enabled /\ starReads = {} /\ asks = {} /\ ~overtaken => star = Stored(pageId)

=============================================================================
