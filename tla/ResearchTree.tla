----------------------------- MODULE ResearchTree -----------------------------
(***************************************************************************)
(* The research tree of the web client: one summary is shown, that of the  *)
(* current node; answers to searches, summaries, saves and loads come back *)
(* in any order while the user goes on.  An investigation is a topic: that *)
(* of a search is the root's, a phrase, a fact or an added question has one*)
(* of its own.  A text is known by the topic it is about, 0 if there is none*)
(* yet, however far it got and also if it says that it failed.             *)
(***************************************************************************)
EXTENDS Integers, Sequences, SequencesExt, FiniteSetsExt, TLC

CONSTANTS
    MaxTopics,  \* bound: topics looked into
    MaxSaves,   \* bound: how often research is saved
    MaxLoads    \* bound: how often it is loaded

ASSUME ResearchTreeAssumption == MaxTopics \in Nat /\ MaxSaves \in Nat /\ MaxLoads \in Nat

VARIABLES
    tree,       \* drilldownTree: [ids -> [up, topic, text]], NoTree if null
    current,    \* currentNodeId, Root if null
    counter,    \* idCounter
    onPage,     \* aiSummary
    loading,    \* aiSummaryLoading
    live,       \* the topic of the stream that is not aborted, or 0
    query,      \* the topic in the search box
    topics,     \* how many there were
    searching,  \* the topic of the search in flight, or 0
    drills,     \* topics whose search is in flight, to be shown
    adds,       \* [id, topic]: nodes whose search and summary are in flight
    facts,      \* the same, of key facts, one after the other
    global,     \* the topic of the root a global summary is made for, or 0
    stored,     \* saved research: [tree, query, first (its topic when first saved), gone]
    savedId,    \* savedResearchId, or 0
    saving,     \* {} or {[to, tree, query]}: the save in flight
    opening,    \* the research whose load is in flight, or 0
    saves, loads, \* how often so far
    disturbed   \* ghost: an answer was left behind, see Disturbing

bounds == <<saves, loads>>
topicVars == <<query, topics>>
nodeVars == <<tree, current, counter>>
pageVars == <<onPage, loading, live>>
shownVars == <<nodeVars, pageVars>>
flightVars == <<searching, drills, adds, facts, global>>
storeVars == <<stored, savedId, saving, opening, bounds>>
treeVars == <<topicVars, shownVars, flightVars, storeVars, disturbed>>

Root == 0
NoTree == <<>>
NoSummary == 0

TreeInit ==
    /\ tree = NoTree /\ current = Root /\ counter = 0
    /\ onPage = NoSummary /\ loading = FALSE /\ live = 0
    /\ query = 0 /\ topics = 0
    /\ searching = 0 /\ drills = {} /\ adds = {} /\ facts = <<>> /\ global = 0
    /\ stored = <<>> /\ savedId = 0 /\ saving = {} /\ opening = 0 /\ saves = 0 /\ loads = 0
    /\ disturbed = FALSE

-----------------------------------------------------------------------------
(* useDrilldownTree.                                                       *)

Node(up, t, text) == [up |-> up, topic |-> t, text |-> text]
HasGraph == Cardinality(DOMAIN tree) > 1
Snapshot(id) == IF id \in DOMAIN tree THEN [tree EXCEPT ![id].text = onPage] ELSE tree
WithChildren(tr, up, n, text) ==
    IF up \in DOMAIN tr
    THEN [id \in DOMAIN tr \cup (counter + 1 .. counter + n) |->
             IF id \in DOMAIN tr THEN tr[id] ELSE Node(up, topics + id - counter, text)]
    ELSE tr
Updated(id, text) == IF id \in DOMAIN tree THEN [tree EXCEPT ![id].text = text] ELSE tree

\* startDrilldown and addChildNode: the root is made of what is shown when there is
\* none, else what is shown is put into the current node first
Rooted ==
    IF tree = NoTree THEN [id \in {Root} |-> Node(Root, query, onPage)]
    ELSE Snapshot(current)

\* removeNode takes a node away with all below it
Below(id) ==
    LET under[n \in DOMAIN tree] == n = id \/ (n # Root /\ under[tree[n].up])
    IN  {n \in DOMAIN tree : under[n]}

HighestId(tr) == Max(DOMAIN tr)

Disturbing(left) == disturbed' = (disturbed \/ left)
SameTopics == UNCHANGED topicVars
NewTopic(t) == topics < MaxTopics /\ t = topics + 1 /\ topics' = t

-----------------------------------------------------------------------------
(* The summary on the page.                                                *)

\* launchSummaryStream aborts the stream before and shows nothing yet
Launch(t) == live' = t /\ loading' = TRUE /\ onPage' = NoSummary

\* onToken; onDone; onError or a request that fails
StreamToken ==
    /\ live # 0
    /\ onPage' = live
    /\ UNCHANGED <<topicVars, nodeVars, loading, live, flightVars, storeVars, disturbed>>
StreamEnds ==
    /\ live # 0
    /\ onPage' = live /\ loading' = FALSE /\ live' = 0
    /\ UNCHANGED <<topicVars, nodeVars, flightVars, storeVars, disturbed>>

-----------------------------------------------------------------------------
(* performSearch and startAiSummaryStream.                                 *)

\* isSearchingRef: one at a time
AskSearch(t) ==
    /\ searching = 0
    /\ NewTopic(t)
    /\ query' = t /\ searching' = t
    /\ UNCHANGED <<shownVars, drills, adds, facts, global, storeVars, disturbed>>

StartOver(t) ==
    /\ tree' = NoTree /\ current' = Root /\ UNCHANGED counter
    /\ savedId' = 0
    /\ Launch(t)
    /\ Disturbing(drills # {})

SearchAnswers ==
    /\ searching # 0
    /\ StartOver(searching)
    /\ searching' = 0
    /\ UNCHANGED <<topicVars, drills, adds, facts, global, stored, saving, opening, bounds>>

\* no results: the summary goes, the tree and a stream stay; an error: nothing
SearchFindsNothing ==
    /\ searching # 0
    /\ searching' = 0
    /\ onPage' \in {onPage, NoSummary}
    /\ UNCHANGED <<topicVars, nodeVars, loading, live, drills, adds, facts, global, storeVars,
                   disturbed>>

\* another choice in the carousel of a search's results
Regenerate ==
    /\ query # 0 /\ (onPage # NoSummary \/ live # 0)
    /\ StartOver(query)
    /\ UNCHANGED <<topicVars, flightVars, stored, saving, opening, bounds>>

-----------------------------------------------------------------------------
(* Drilling down: startDrilldown of App.                                   *)

Selectable == ~loading /\ onPage # NoSummary
Unlike == tree = NoTree /\ query # onPage

Drill(t) ==
    /\ Selectable
    /\ NewTopic(t)
    /\ counter' = counter + 1
    /\ tree' = WithChildren(Rooted, current, 1, NoSummary)
    /\ current' = counter'
    /\ onPage' = NoSummary /\ loading' = TRUE /\ UNCHANGED live
    /\ drills' = drills \cup {t}
    /\ Disturbing(Unlike)
    /\ UNCHANGED <<query, searching, adds, facts, global, storeVars>>

\* "new topic" forgets the tree, though not under which id it was saved
DrillAnew(t) ==
    /\ Selectable
    /\ NewTopic(t)
    /\ tree' = NoTree /\ current' = Root /\ UNCHANGED counter
    /\ query' = t
    /\ onPage' = NoSummary /\ loading' = TRUE /\ UNCHANGED live
    /\ drills' = drills \cup {t}
    /\ UNCHANGED <<searching, adds, facts, global, storeVars, disturbed>>

DrillAnswers(t) ==
    /\ t \in drills
    /\ drills' = drills \ {t}
    /\ Launch(t)
    /\ UNCHANGED <<topicVars, nodeVars, searching, adds, facts, global, storeVars, disturbed>>
DrillFails(t) ==
    /\ t \in drills
    /\ drills' = drills \ {t}
    /\ onPage' = t /\ loading' = FALSE /\ UNCHANGED live
    /\ UNCHANGED <<topicVars, nodeVars, searching, adds, facts, global, storeVars, disturbed>>

\* navigateDrilldownToNode: aborts the stream, also if the node is the current one
NavigateStreaming(id) ==   \* mutant: the stream is not aborted
    /\ HasGraph /\ id \in DOMAIN tree \ {current}
    /\ tree' = Snapshot(current)
    /\ current' = id
    /\ onPage' = tree[id].text /\ loading' = FALSE
    /\ Disturbing(drills # {})
    /\ UNCHANGED <<topicVars, counter, live, flightVars, storeVars>>
Navigate(id) ==
    /\ HasGraph /\ id \in DOMAIN tree
    /\ live' = 0
    /\ IF id = current
       THEN UNCHANGED <<tree, current, onPage, loading>> /\ Disturbing(live # 0 /\ loading)
       ELSE /\ tree' = Snapshot(current)
            /\ current' = id
            /\ onPage' = tree[id].text /\ loading' = FALSE
            /\ Disturbing(drills # {})
    /\ UNCHANGED <<topicVars, counter, flightVars, storeVars>>

-----------------------------------------------------------------------------
(* Nodes that are researched beside the page.                              *)

\* handleFindOutMore: a node for each key fact, then one after the other
FindOutMore(first, n) ==
    /\ ~loading /\ onPage # NoSummary
    /\ facts = <<>>
    /\ first = topics + 1 /\ topics' = topics + n /\ topics' <= MaxTopics
    /\ counter' = counter + n
    /\ tree' = WithChildren(Rooted, current, n, NoSummary)
    /\ facts' = [k \in 1 .. n |-> [id |-> counter + k, topic |-> topics + k]]
    /\ Disturbing(Unlike)
    /\ UNCHANGED <<query, current, pageVars, searching, drills, adds, global, storeVars>>

FactAnswers ==
    /\ facts # <<>>
    /\ tree' = Updated(Head(facts).id, Head(facts).topic)
    /\ facts' = Tail(facts)
    /\ UNCHANGED <<topicVars, current, counter, pageVars, searching, drills, adds, global,
                   storeVars, disturbed>>

\* handleAddNodeToTree
AddNode(up, t) ==
    /\ HasGraph /\ up \in DOMAIN tree
    /\ NewTopic(t)
    /\ counter' = counter + 1
    /\ tree' = WithChildren(tree, up, 1, t)
    /\ adds' = adds \cup {[id |-> counter', topic |-> t]}
    /\ UNCHANGED <<query, current, pageVars, searching, drills, facts, global, storeVars,
                   disturbed>>
AddAnswers(a) ==
    /\ a \in adds
    /\ adds' = adds \ {a}
    /\ tree' = Updated(a.id, a.topic)
    /\ UNCHANGED <<topicVars, current, counter, pageVars, searching, drills, facts, global,
                   storeVars, disturbed>>

RemoveNode(id) ==
    /\ HasGraph /\ id \in DOMAIN tree \ {Root}
    /\ tree' = [n \in DOMAIN tree \ Below(id) |-> tree[n]]
    /\ current' = IF current = id THEN Root ELSE current
    /\ Disturbing(current \in Below(id))
    /\ UNCHANGED <<topicVars, counter, pageVars, flightVars, storeVars>>

\* handleGenerateGlobalSummary; the answer is put into the root and on the page,
\* whatever node and whatever tree are there by then
AskGlobal ==
    /\ HasGraph /\ global = 0
    /\ \E id \in DOMAIN tree : tree[id].text # NoSummary
    /\ global' = tree[Root].topic
    /\ UNCHANGED <<topicVars, shownVars, searching, drills, adds, facts, storeVars, disturbed>>
GlobalAnswers ==
    /\ global # 0
    /\ global' = 0
    /\ tree' = Updated(Root, global)
    /\ onPage' = global /\ UNCHANGED <<loading, live>>
    /\ Disturbing(tree = NoTree \/ current # Root \/ tree[Root].topic # global)
    /\ UNCHANGED <<topicVars, current, counter, searching, drills, adds, facts, storeVars>>
GlobalFails ==
    /\ global # 0
    /\ global' = 0
    /\ UNCHANGED <<topicVars, shownVars, searching, drills, adds, facts, storeVars, disturbed>>

-----------------------------------------------------------------------------
(* Saved research.                                                         *)

\* handleSaveResearch sends the tree with what is shown in the current node
SaveTree ==
    /\ tree # NoTree /\ saving = {}
    /\ saves < MaxSaves /\ saves' = saves + 1
    /\ saving' = {[to |-> savedId, tree |-> Snapshot(current), query |-> query]}
    /\ UNCHANGED <<topicVars, shownVars, flightVars, stored, savedId, opening, loads, disturbed>>

\* save_research makes a row, update_research rewrites the tree of one
SaveAnswers(s) ==
    /\ s \in saving
    /\ saving' = {}
    /\ IF s.to = 0
       THEN /\ stored' = Append(stored,
                            [tree |-> s.tree, query |-> s.query, first |-> s.tree[Root].topic,
                             gone |-> FALSE])
            /\ savedId' = Len(stored')
       ELSE /\ ~stored[s.to].gone
            /\ stored' = [stored EXCEPT ![s.to].tree = s.tree]
            /\ UNCHANGED savedId
    /\ UNCHANGED <<topicVars, shownVars, flightVars, opening, bounds, disturbed>>
SaveFails ==
    /\ saving # {}
    /\ saving' = {}
    /\ UNCHANGED <<topicVars, shownVars, flightVars, stored, savedId, opening, bounds, disturbed>>

\* delete_research, from the list of what was saved
Delete(i) ==
    /\ i \in DOMAIN stored /\ ~stored[i].gone
    /\ stored' = [stored EXCEPT ![i].gone = TRUE]
    /\ UNCHANGED <<topicVars, shownVars, flightVars, savedId, saving, opening, bounds, disturbed>>

Load(i) ==
    /\ i \in DOMAIN stored /\ ~stored[i].gone
    /\ loads < MaxLoads /\ loads' = loads + 1
    /\ opening' = i
    /\ UNCHANGED <<topicVars, shownVars, flightVars, stored, savedId, saving, saves, disturbed>>

\* handleLoadResearch aborts nothing, and the ids go on from those of the tree
LoadAnswers ==
    /\ opening # 0 /\ ~stored[opening].gone
    /\ opening' = 0
    /\ tree' = stored[opening].tree /\ current' = Root /\ counter' = HighestId(tree')
    /\ query' = stored[opening].query
    /\ onPage' = tree'[Root].text /\ loading' = FALSE /\ UNCHANGED live
    /\ savedId' = opening
    /\ Disturbing(live # 0 \/ drills # {} \/ adds # {} \/ facts # <<>> \/ global # 0)
    /\ UNCHANGED <<topics, flightVars, stored, saving, bounds>>
LoadFails ==
    /\ opening # 0
    /\ opening' = 0
    /\ UNCHANGED <<topicVars, shownVars, flightVars, stored, savedId, saving, bounds, disturbed>>

-----------------------------------------------------------------------------
TreeNext ==
    \/ StreamToken \/ StreamEnds
    \/ \E t \in 1 .. MaxTopics : \/ AskSearch(t) \/ Drill(t) \/ DrillAnew(t)
                                 \/ \E id \in DOMAIN tree : AddNode(id, t)
                                 \/ \E n \in 1 .. 2 : FindOutMore(t, n)
    \/ SearchAnswers \/ SearchFindsNothing \/ Regenerate
    \/ \E t \in drills : DrillAnswers(t) \/ DrillFails(t)
    \/ \E id \in DOMAIN tree : Navigate(id) \/ RemoveNode(id)
    \/ FactAnswers \/ \E a \in adds : AddAnswers(a)
    \/ AskGlobal \/ GlobalAnswers \/ GlobalFails
    \/ SaveTree \/ (\E s \in saving : SaveAnswers(s)) \/ SaveFails
    \/ \E i \in DOMAIN stored : Delete(i) \/ Load(i)
    \/ LoadAnswers \/ LoadFails

TreeSpec == TreeInit /\ [][TreeNext]_treeVars

-----------------------------------------------------------------------------
\* The nodes are a tree, and ids are given once (useDrilldownTree, getMaxIdCounter).
NodesAreATree ==
    tree # NoTree => /\ Root \in DOMAIN tree
                     /\ \A id \in DOMAIN tree \ {Root} : /\ id <= counter
                                                         /\ tree[id].up \in DOMAIN tree
                                                         /\ tree[id].up < id

OwnText(node, text) == text \in {NoSummary, node.topic}

\* However answers, aborted streams, new searches and saved trees interleave, each
\* node has its own summary, what is shown is the current node's, and what loads is
\* on its way - unless the user leaves an answer behind: goes to another node or
\* starts anew before a drilldown's search is back, removes the node that is shown,
\* loads a tree while answers are due, gets a global summary away from the root, or
\* branches off a summary when another question is in the search box.
AnswersFindTheirNode ==
    /\ NodesAreATree
    /\ ~disturbed =>
          /\ \A id \in DOMAIN tree : OwnText(tree[id], tree[id].text)
          /\ tree # NoTree => current \in DOMAIN tree
                              /\ OwnText(tree[current], onPage)
          /\ loading => live # 0 \/ drills # {}

\* Research that was saved is not replaced by research into something else: a new
\* topic is "the same shape a fresh top-level search would produce" (App.tsx).
SavedIsKept == \A i \in DOMAIN stored : stored[i].tree[Root].topic = stored[i].first
=============================================================================
