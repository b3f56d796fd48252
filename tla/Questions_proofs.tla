--------------------------- MODULE Questions_proofs ---------------------------
(***************************************************************************)
(* What becomes of a question that is asked: the tasks the A2A server      *)
(* keeps, the answer that is streamed, the log of the searches and their   *)
(* stars, the numbers of the sources in a thread, and the research tree.   *)
(***************************************************************************)
EXTENDS A2ATasks, AnswerStream, SearchLog, ResearchTurn, ResearchTree, FiniteSetTheorems,
        SequenceTheorems, WellFoundedInduction, TLAPS

-----------------------------------------------------------------------------
(* a2a_server: _tasks                                                      *)

Submission == [id : Ids, owner : Owners, how : {"send", "stream"}]
TaskEntry == [id : Ids, owner : Owners, state : {"completed", "failed", "canceled"}]

TaskTypeOK ==
    /\ store \in Seq(TaskEntry)
    /\ running \in [Handlers -> {NoTask} \union Submission]
    /\ newer \in [Ids -> Nat]

\* Each id is there once, and the number of newer ones tells its place from the end;
\* what is not there has been overtaken by as many as the store takes.
PlacesInv ==
    /\ Len(store) <= MaxTasks
    /\ \A n, m \in DOMAIN store : store[n].id = store[m].id => n = m
    /\ \A n \in DOMAIN store : newer[store[n].id] = Len(store) - n
    /\ \A i \in Ids : ~Holds(i) => newer[i] = MaxTasks

TaskIInv == TaskTypeOK /\ PlacesInv

LEMMA StoreProperties ==
    ASSUME TaskTypeOK
    PROVE  /\ Len(store) \in Nat /\ DOMAIN store = 1 .. Len(store)
           /\ \A n \in 1 .. Len(store) : store[n] \in TaskEntry /\ store[n].id \in Ids
           /\ MaxTasks \in Nat /\ MaxTasks > 0
<1>1. store \in Seq(TaskEntry) /\ Len(store) \in Nat /\ DOMAIN store = 1 .. Len(store)
  BY LenProperties DEF TaskTypeOK
<1>2. \A n \in 1 .. Len(store) : store[n] \in TaskEntry
  BY <1>1, ElementOfSeq
<1> QED
  BY <1>1, <1>2, TasksAssumption DEF TaskEntry

\* An entry in the place of another one of the same id.
LEMMA ReplacedKeepsPlaces ==
    ASSUME TaskIInv, NEW k \in DOMAIN store, NEW e \in TaskEntry, e.id = store[k].id,
           store' = [store EXCEPT ![k] = e], newer' = newer
    PROVE  store' \in Seq(TaskEntry) /\ PlacesInv'
<1>1. Len(store) \in Nat /\ DOMAIN store = 1 .. Len(store)
  BY StoreProperties DEF TaskIInv
<1>2. store' \in Seq(TaskEntry) /\ Len(store') = Len(store) /\ DOMAIN store' = DOMAIN store
  <2>1. k \in 1 .. Len(store) /\ store \in Seq(TaskEntry)
    BY <1>1 DEF TaskIInv, TaskTypeOK
  <2>2. store' \in Seq(TaskEntry) /\ Len(store') = Len(store)
    BY <2>1, ExceptSeq
  <2> QED
    BY <1>1, <2>2, LenProperties
<1>3. \A n \in DOMAIN store : store'[n].id = store[n].id
  BY <1>1
<1>4. \A i : Holds(i)' <=> Holds(i)
  BY <1>2, <1>3 DEF Holds
<1> QED
  BY <1>2, <1>3, <1>4 DEF TaskIInv, PlacesInv

LEMMA PlaceOf ==
    ASSUME NEW i, Holds(i)
    PROVE  Place(i) \in DOMAIN store /\ store[Place(i)].id = i
BY DEF Holds, Place

LEMMA SentStores ==
    ASSUME TaskIInv, NEW h \in Handlers, NEW outcome \in {"completed", "failed"}, EndSent(h, outcome)
    PROVE  TaskIInv'
<1> DEFINE i == running[h].id
           e == [id |-> i, owner |-> running[h].owner, state |-> outcome]
<1>1. running[h] \in Submission
  BY DEF EndSent, TaskIInv, TaskTypeOK, NoTask
<1>2. i \in Ids /\ e \in TaskEntry
  BY <1>1 DEF Submission, TaskEntry
<1>3. running' \in [Handlers -> {NoTask} \union Submission]
  BY DEF EndSent, TaskIInv, TaskTypeOK
<1>4. e.id = i
  OBVIOUS
<1> HIDE DEF e, i
<1>5. CASE Holds(i)
  <2>1. store' = [store EXCEPT ![Place(i)] = e] /\ newer' = newer
    BY <1>5 DEF EndSent, i, e
  <2> QED
    BY <1>2, <1>3, <1>4, <1>5, <2>1, PlaceOf, ReplacedKeepsPlaces DEF TaskIInv, TaskTypeOK
<1>6. CASE ~Holds(i)
  <2> DEFINE longer == Append(store, e)
             full == Len(longer) > MaxTasks
  <2>1. /\ store' = WithoutOldest(longer)
        /\ newer' = [j \in Ids |-> IF j = i THEN 0
                                   ELSE IF newer[j] < MaxTasks THEN newer[j] + 1 ELSE newer[j]]
    BY <1>6 DEF EndSent, i, e
  <2>2. /\ Len(store) \in Nat /\ DOMAIN store = 1 .. Len(store) /\ store \in Seq(TaskEntry)
        /\ \A n \in 1 .. Len(store) : store[n] \in TaskEntry /\ store[n].id \in Ids
        /\ MaxTasks \in Nat /\ MaxTasks > 0
    BY StoreProperties DEF TaskIInv, TaskTypeOK
  <2>3. /\ longer \in Seq(TaskEntry) /\ longer # <<>> /\ Len(longer) = Len(store) + 1
        /\ \A n \in 1 .. Len(store) : longer[n] = store[n]
        /\ longer[Len(store) + 1] = e
    BY <1>2, <2>2, AppendProperties
  <2> HIDE DEF longer
  <2>4. newer' \in [Ids -> Nat]
    BY <2>1, <2>2 DEF TaskIInv, TaskTypeOK
  \* places of the longer sequence
  <2>5. \A n \in 1 .. Len(longer) : longer[n].id \in Ids /\ newer'[longer[n].id] = Len(longer) - n
    <3> SUFFICES ASSUME NEW n \in 1 .. Len(longer)
                 PROVE  longer[n].id \in Ids /\ newer'[longer[n].id] = Len(longer) - n
      OBVIOUS
    <3>1. CASE n = Len(store) + 1
      BY <1>2, <1>4, <2>1, <2>2, <2>3, <3>1
    <3>2. CASE n \in 1 .. Len(store)
      <4>1. longer[n] = store[n] /\ store[n].id \in Ids /\ store[n].id # i
        BY <1>6, <2>2, <2>3, <3>2 DEF Holds
      <4>2. newer[store[n].id] = Len(store) - n /\ Len(store) <= MaxTasks
        BY <2>2, <3>2 DEF TaskIInv, PlacesInv
      <4>3. newer[store[n].id] < MaxTasks
        BY <2>2, <3>2, <4>2
      <4>4. newer'[store[n].id] = newer[store[n].id] + 1
        BY <2>1, <4>1, <4>3
      <4> QED
        BY <2>2, <2>3, <3>2, <4>1, <4>2, <4>4
    <3> QED
      BY <2>2, <2>3, <3>1, <3>2
  <2>6. \A j \in Ids : (\A n \in 1 .. Len(longer) : longer[n].id # j) => newer'[j] = MaxTasks
    <3> SUFFICES ASSUME NEW j \in Ids, \A n \in 1 .. Len(longer) : longer[n].id # j
                 PROVE  newer'[j] = MaxTasks
      OBVIOUS
    <3>1. j # i
      BY <1>4, <2>2, <2>3
    <3>2. ~Holds(j)
      BY <2>2, <2>3 DEF Holds
    <3>3. newer[j] = MaxTasks
      BY <3>2 DEF TaskIInv, PlacesInv
    <3> QED
      BY <2>1, <2>2, <3>1, <3>3
  <2>7. \A n, m \in 1 .. Len(longer) : longer[n].id = longer[m].id => n = m
    BY <2>2, <2>3, <2>5
  <2>8. CASE ~full
    <3>1. store' = longer
      BY <2>1, <2>8 DEF WithoutOldest
    <3>2. Len(store') <= MaxTasks /\ DOMAIN store' = 1 .. Len(store') /\ Len(store') = Len(longer)
      BY <2>2, <2>3, <2>8, <3>1, LenProperties
    <3> QED
      BY <1>3, <2>3, <2>4, <2>5, <2>6, <2>7, <3>1, <3>2 DEF TaskIInv, TaskTypeOK, PlacesInv, Holds
  <2>9. CASE full
    <3>1. store' = Tail(longer)
      BY <2>1, <2>9 DEF WithoutOldest
    <3>2. /\ store' \in Seq(TaskEntry) /\ Len(store') = Len(longer) - 1
          /\ \A n \in 1 .. Len(store') : store'[n] = longer[n + 1]
      BY <2>3, <3>1, HeadTailProperties
    <3>3. Len(store) <= MaxTasks /\ Len(longer) = MaxTasks + 1 /\ Len(store') = MaxTasks
          /\ DOMAIN store' = 1 .. MaxTasks
      <4>1. Len(store) <= MaxTasks
        BY DEF TaskIInv, PlacesInv
      <4>2. Len(longer) = MaxTasks + 1 /\ Len(store') = MaxTasks
        <5>1. Len(longer) = Len(store) + 1 /\ Len(longer) > MaxTasks
          BY <2>3, <2>9
        <5>2. Len(store) \in Nat /\ MaxTasks \in Nat
          BY <2>2
        <5>3. Len(longer) = MaxTasks + 1
          BY <4>1, <5>1, <5>2
        <5> QED
          BY <3>2, <5>2, <5>3
      <4>3. DOMAIN store' = 1 .. Len(store')
        BY <3>2, LenProperties
      <4> QED
        BY <4>1, <4>2, <4>3
    <3>4. \A n \in DOMAIN store' : newer'[store'[n].id] = Len(store') - n
      BY <2>2, <2>5, <3>2, <3>3
    <3>5. \A n, m \in DOMAIN store' : store'[n].id = store'[m].id => n = m
      BY <2>2, <2>7, <3>2, <3>3
    <3>6. \A j \in Ids : ~Holds(j)' => newer'[j] = MaxTasks
      <4> SUFFICES ASSUME NEW j \in Ids, \A n \in 1 .. MaxTasks : store'[n].id # j
                   PROVE  newer'[j] = MaxTasks
        BY <3>3 DEF Holds
      <4>1. CASE j = longer[1].id
        BY <2>2, <2>5, <3>3, <4>1
      <4>2. CASE j # longer[1].id
        <5>1. \A n \in 1 .. Len(longer) : longer[n].id # j
          <6> SUFFICES ASSUME NEW n \in 1 .. Len(longer), n # 1 PROVE longer[n].id # j
            BY <4>2
          <6>1. n - 1 \in 1 .. MaxTasks /\ (n - 1) + 1 = n
            BY <2>2, <3>3
          <6> QED
            BY <3>2, <3>3, <6>1
        <5> QED
          BY <2>6, <5>1
      <4> QED
        BY <4>1, <4>2
    <3> QED
      BY <1>3, <2>2, <2>4, <3>2, <3>3, <3>4, <3>5, <3>6 DEF TaskIInv, TaskTypeOK, PlacesInv
  <2> QED
    BY <2>8, <2>9
<1> QED
  BY <1>5, <1>6

LEMMA TaskStep == TaskIInv /\ [TaskNext]_taskVars => TaskIInv'
<1> SUFFICES ASSUME TaskIInv, [TaskNext]_taskVars PROVE TaskIInv'
  OBVIOUS
<1>1. ASSUME UNCHANGED <<store, newer>>, running' \in [Handlers -> {NoTask} \union Submission]
      PROVE  TaskIInv'
  BY <1>1 DEF TaskIInv, TaskTypeOK, PlacesInv, Holds
<1>2. ASSUME NEW h \in Handlers, NEW i \in Ids, NEW p \in Owners, NEW how \in {"send", "stream"},
             Submit(h, i, p, how)
      PROVE  TaskIInv'
  <2>1. running' \in [Handlers -> {NoTask} \union Submission]
    BY <1>2 DEF Submit, TaskIInv, TaskTypeOK, Submission
  <2> QED
    BY <1>1, <1>2, <2>1 DEF Submit
<1>3. ASSUME NEW h \in Handlers, NoText(h) \/ EndStreamed(h) PROVE TaskIInv'
  <2>1. running' \in [Handlers -> {NoTask} \union Submission]
    BY <1>3 DEF NoText, EndStreamed, TaskIInv, TaskTypeOK
  <2> QED
    BY <1>1, <1>3, <2>1 DEF NoText, EndStreamed
<1>4. ASSUME NEW h \in Handlers, NEW outcome \in {"completed", "failed"}, EndSent(h, outcome)
      PROVE  TaskIInv'
  BY <1>4, SentStores
<1>5. ASSUME NEW p \in Owners, NEW i \in Ids, Cancel(p, i) PROVE TaskIInv'
  <2> DEFINE k == Place(i)
             e == [store[k] EXCEPT !.state = "canceled", !.owner = p]
  <2>1. k \in DOMAIN store /\ store[k] \in TaskEntry
    BY <1>5, PlaceOf, StoreProperties DEF Cancel, Owns, TaskIInv
  <2>2. e \in TaskEntry /\ e.id = store[k].id
    BY <2>1 DEF TaskEntry
  <2>3. store' = [store EXCEPT ![k] = e] /\ newer' = newer /\ running' = running
    BY <1>5 DEF Cancel
  <2> HIDE DEF k, e
  <2> QED
    BY <2>1, <2>2, <2>3, ReplacedKeepsPlaces DEF TaskIInv, TaskTypeOK
<1>6. CASE UNCHANGED taskVars
  BY <1>1, <1>6 DEF taskVars, TaskIInv, TaskTypeOK
<1> QED
  BY <1>2, <1>3, <1>4, <1>5, <1>6 DEF TaskNext

\* For any callers, ids they share and handlers at work, and any size of the store:
\* a task is kept until as many newer ones as the store takes came, and not longer
\* (_handle_tasks_send).
THEOREM TasksAlwaysKept == TaskSpec => []LastTasksAreKept
<1>1. TaskInit => TaskIInv
  <2> SUFFICES ASSUME TaskInit PROVE TaskIInv
    OBVIOUS
  <2>1. store = <<>> /\ store \in Seq(TaskEntry) /\ Len(store) = 0 /\ DOMAIN store = {}
    BY EmptySeq DEF TaskInit
  <2> QED
    BY <2>1, TasksAssumption DEF TaskInit, TaskIInv, TaskTypeOK, PlacesInv
<1>2. TaskIInv => LastTasksAreKept
  <2> SUFFICES ASSUME TaskIInv, NEW i \in Ids PROVE Holds(i) <=> newer[i] < MaxTasks
    BY DEF LastTasksAreKept
  <2>1. ASSUME Holds(i) PROVE newer[i] < MaxTasks
    <3>1. PICK n \in DOMAIN store : store[n].id = i
      BY <2>1 DEF Holds
    <3>2. n \in 1 .. Len(store) /\ Len(store) \in Nat /\ MaxTasks \in Nat
      BY <3>1, StoreProperties DEF TaskIInv
    <3>3. newer[i] = Len(store) - n /\ Len(store) <= MaxTasks
      BY <3>1 DEF TaskIInv, PlacesInv
    <3> QED
      BY <3>2, <3>3
  <2>2. ASSUME ~Holds(i) PROVE ~(newer[i] < MaxTasks)
    BY <2>2, TasksAssumption DEF TaskIInv, PlacesInv
  <2> QED
    BY <2>1, <2>2
<1> QED
  BY <1>1, <1>2, TaskStep, PTL DEF TaskSpec

-----------------------------------------------------------------------------
(* stream_research_response                                                *)

Spoken == Texts \union {""}
Events == {Note, Sentinel} \union {Token(t) : t \in Texts}
Closings == {<<>>, <<"done">>, <<"sources", "done">>, <<"error">>}

StreamTypeOK ==
    /\ mode \in {"normal", "deep"}
    /\ agent \in {"running", "ended", "failed", "exhausted", "cancelled"}
    /\ queue \in Seq(Events)
    /\ reader \in {"reading", "closing", "cancelled", "over"}
    /\ buffer \in Spoken
    /\ tokens \in Seq(Spoken)
    /\ ending \in Closings
    /\ produced \in Spoken

Carries(t) == t = produced \/ <<produced, t>> \in Within
NewestText == tokens[Len(tokens)]

\* What the reader has of the last text: still held back, or sent on.
Delivered ==
    produced # "" => IF buffer # "" THEN Carries(buffer)
                     ELSE tokens # <<>> /\ Carries(NewestText)

\* Or the text is on its way, behind all others.
OnItsWay ==
    \E n \in 1 .. Len(queue) :
        /\ queue[n].kind = "token" /\ queue[n].text = produced
        /\ \A m \in 1 .. Len(queue) : m > n => queue[m].kind # "token"
NoneOnItsWay == \A m \in 1 .. Len(queue) : queue[m].kind # "token"

QueueInv ==
    /\ mode = "normal" => queue = <<>>
    /\ \A n \in 1 .. Len(queue) : queue[n] = Sentinel => agent # "running" /\ n = Len(queue)
    /\ mode = "deep" /\ reader = "closing" => queue = <<>>

ReaderInv ==
    /\ reader # "over" => ending = <<>> /\ saved = "nothing"
    /\ reader = "closing" => agent \in {"ended", "failed", "exhausted"}
    /\ ending # <<>> => agent # "running"
    /\ agent = "cancelled" => reader = "over"
    /\ reader \in {"reading", "closing"} => OnItsWay \/ (NoneOnItsWay /\ Delivered)

StreamIInv == StreamTypeOK /\ QueueInv /\ ReaderInv /\ AnswerArrivesOnce

LEMMA EventKinds ==
    /\ \A e \in Events : e.kind \in {"note", "sentinel", "token"}
    /\ \A e \in Events : e.kind = "token" => e.text \in Texts
    /\ \A e \in Events : e = Sentinel <=> e.kind = "sentinel"
    /\ Note \in Events /\ Sentinel \in Events /\ Note # Sentinel /\ Note.kind = "note"
    /\ \A t \in Texts : Token(t) \in Events /\ Token(t).kind = "token" /\ Token(t).text = t
<1>1. Note.kind = "note" /\ Sentinel.kind = "sentinel"
  BY DEF Note, Sentinel
<1>2. \A t \in Texts : Token(t).kind = "token" /\ Token(t).text = t
  BY DEF Token
<1>3. \A e \in Events : e = Note \/ e = Sentinel \/ \E t \in Texts : e = Token(t)
  BY DEF Events
<1>4. Note \in Events /\ Sentinel \in Events /\ \A t \in Texts : Token(t) \in Events
  BY DEF Events
<1> QED
  BY <1>1, <1>2, <1>3, <1>4

\* What is sent on when the buffer is emptied.
LEMMA FlushSends ==
    ASSUME StreamTypeOK
    PROVE  /\ Flushed \in Seq(Spoken)
           /\ Delivered /\ produced # "" => Flushed # <<>> /\ Carries(Flushed[Len(Flushed)])
<1>1. CASE buffer = ""
  BY <1>1 DEF Flushed, Delivered, NewestText, StreamTypeOK
<1>2. CASE buffer # ""
  <2>1. /\ Append(tokens, buffer) \in Seq(Spoken) /\ Append(tokens, buffer) # <<>>
        /\ Append(tokens, buffer)[Len(Append(tokens, buffer))] = buffer
    BY AppendProperties DEF StreamTypeOK
  <2> QED
    BY <1>2, <2>1 DEF Flushed, Delivered
<1> QED
  BY <1>1, <1>2

\* A text that is taken is the one held back, or contained in it; anything else
\* sends on what was held back.
LEMMA TakeDelivers ==
    ASSUME StreamTypeOK, NEW e \in Events, Take(e)
    PROVE  /\ buffer' \in Spoken /\ tokens' \in Seq(Spoken)
           /\ e.kind = "token" /\ e.text = produced' => Delivered'
           /\ e.kind # "token" /\ Delivered /\ produced' = produced => Delivered'
<1>1. CASE e.kind = "token"
  <2>1. e.text \in Texts /\ tokens' = tokens /\ buffer' = IF Adds(e.text) THEN e.text ELSE buffer
    BY <1>1, EventKinds DEF Take
  <2>2. buffer' \in Spoken
    BY <2>1 DEF StreamTypeOK, Spoken
  <2>3. ASSUME e.text = produced', produced' # "" PROVE buffer' # "" /\ Carries(buffer)'
    BY <2>1, <2>3 DEF Adds, Carries
  <2> QED
    BY <1>1, <2>1, <2>2, <2>3 DEF Delivered, StreamTypeOK
<1>2. CASE e.kind # "token"
  <2>1. buffer' = "" /\ tokens' = Flushed
    BY <1>2 DEF Take
  <2>2. ASSUME Delivered, produced' = produced PROVE Delivered'
    BY <2>1, <2>2, FlushSends DEF Delivered, NewestText, Carries
  <2> QED
    BY <1>2, <2>1, <2>2, FlushSends DEF Spoken
<1> QED
  BY <1>1, <1>2

\* An event at the end of the queue.
LEMMA QueueGrows ==
    ASSUME StreamTypeOK, NEW e \in Events, queue' = Append(queue, e),
           OnItsWay \/ (NoneOnItsWay /\ Delivered),
           UNCHANGED <<buffer, tokens>>,
           produced' = IF e.kind = "token" THEN e.text ELSE produced
    PROVE  OnItsWay' \/ (NoneOnItsWay' /\ Delivered')
<1>1. /\ queue \in Seq(Events) /\ Len(queue) \in Nat /\ Len(queue') = Len(queue) + 1
      /\ \A n \in 1 .. Len(queue) : queue'[n] = queue[n]
      /\ queue'[Len(queue) + 1] = e
  BY AppendProperties, LenProperties DEF StreamTypeOK
<1>2. CASE e.kind = "token"
  <2>1. Len(queue) + 1 \in 1 .. Len(queue') /\ \A m \in 1 .. Len(queue') : ~(m > Len(queue) + 1)
    BY <1>1
  <2> QED
    BY <1>1, <1>2, <2>1 DEF OnItsWay
<1>3. CASE e.kind # "token" /\ OnItsWay
  <2>1. PICK n \in 1 .. Len(queue) :
           /\ queue[n].kind = "token" /\ queue[n].text = produced
           /\ \A m \in 1 .. Len(queue) : m > n => queue[m].kind # "token"
    BY <1>3 DEF OnItsWay
  <2>2. n \in 1 .. Len(queue') /\ queue'[n] = queue[n] /\ produced' = produced
    BY <1>1, <1>3
  <2>3. \A m \in 1 .. Len(queue') : m > n => queue'[m].kind # "token"
    BY <1>1, <1>3, <2>1
  <2> QED
    BY <2>1, <2>2, <2>3 DEF OnItsWay
<1>4. CASE e.kind # "token" /\ NoneOnItsWay /\ Delivered
  <2>1. NoneOnItsWay'
    BY <1>1, <1>4 DEF NoneOnItsWay
  <2>2. Delivered'
    BY <1>4 DEF Delivered, Carries, NewestText
  <2> QED
    BY <2>1, <2>2
<1> QED
  BY <1>2, <1>3, <1>4

\* An event off the head of the queue; the sentinel is the last there is.
LEMMA QueueShrinks ==
    ASSUME StreamTypeOK, OnItsWay \/ (NoneOnItsWay /\ Delivered),
           queue # <<>>, queue' = Tail(queue), produced' = produced,
           \/ Head(queue) # Sentinel /\ Take(Head(queue))
           \/ Head(queue) = Sentinel /\ UNCHANGED <<buffer, tokens>>
    PROVE  OnItsWay' \/ (NoneOnItsWay' /\ Delivered')
<1>1. /\ queue \in Seq(Events) /\ Len(queue) \in Nat /\ Len(queue) > 0 /\ Len(queue') = Len(queue) - 1
      /\ \A n \in 1 .. Len(queue') : queue'[n] = queue[n + 1]
      /\ Head(queue) \in Events /\ Head(queue) = queue[1]
  BY HeadTailProperties, LenProperties, EmptySeq DEF StreamTypeOK
<1>2. \A m \in 1 .. Len(queue) : m = 1 \/ (m - 1 \in 1 .. Len(queue') /\ queue'[m - 1] = queue[m])
  BY <1>1
<1>3. ASSUME NEW n \in 1 .. Len(queue), n > 1, queue[n].kind = "token", queue[n].text = produced,
             \A m \in 1 .. Len(queue) : m > n => queue[m].kind # "token"
      PROVE  OnItsWay'
  <2>1. n - 1 \in 1 .. Len(queue') /\ queue'[n - 1] = queue[n]
    BY <1>2, <1>3
  <2>2. \A m \in 1 .. Len(queue') : m > n - 1 => queue'[m].kind # "token"
    BY <1>1, <1>3
  <2> QED
    BY <1>3, <2>1, <2>2 DEF OnItsWay
<1>4. ASSUME \A m \in 1 .. Len(queue) : m > 1 => queue[m].kind # "token" PROVE NoneOnItsWay'
  BY <1>1, <1>4 DEF NoneOnItsWay
<1>5. ASSUME queue[1].kind = "token", queue[1].text = produced,
             \A m \in 1 .. Len(queue) : m > 1 => queue[m].kind # "token"
      PROVE  NoneOnItsWay' /\ Delivered'
  BY <1>1, <1>4, <1>5, TakeDelivers, EventKinds
<1>6. CASE OnItsWay
  <2>1. PICK n \in 1 .. Len(queue) :
           /\ queue[n].kind = "token" /\ queue[n].text = produced
           /\ \A m \in 1 .. Len(queue) : m > n => queue[m].kind # "token"
    BY <1>6 DEF OnItsWay
  <2>2. CASE n = 1
    BY <1>5, <2>1, <2>2
  <2>3. CASE n > 1
    BY <1>3, <2>1, <2>3
  <2> QED
    BY <1>1, <2>2, <2>3
<1>7. CASE NoneOnItsWay /\ Delivered
  <2>1. NoneOnItsWay' /\ queue[1].kind # "token"
    BY <1>1, <1>4, <1>7 DEF NoneOnItsWay
  <2>2. CASE Head(queue) # Sentinel
    BY <1>1, <1>7, <2>1, <2>2, TakeDelivers
  <2>3. CASE Head(queue) = Sentinel
    BY <1>7, <2>1, <2>3 DEF Delivered, Carries, NewestText
  <2> QED
    BY <2>1, <2>2, <2>3
<1> QED
  BY <1>6, <1>7

LEMMA ClosingWords ==
    /\ <<>> \o <<"done">> = <<"done">>
    /\ <<>> \o <<"sources", "done">> = <<"sources", "done">>
    /\ Append(<<>>, "error") = <<"error">>
<1> DEFINE S == {"sources", "done", "error"}
<1>1. <<>> \in Seq(S) /\ <<"done">> \in Seq(S) /\ <<"sources", "done">> \in Seq(S) /\ <<"error">> \in Seq(S)
  BY EmptySeq
<1>2. Append(<<>>, "error") = <<>> \o <<"error">>
  BY <1>1, AppendIsConcat
<1> QED
  BY <1>1, <1>2, ConcatEmptySeq

LEMMA FinishCloses ==
    ASSUME StreamTypeOK, ending = <<>>, saved = "nothing", UNCHANGED fixed,
           NEW texts \in Seq(Spoken), FinishStream(texts)
    PROVE  /\ ending' \in Closings /\ ending' # <<>> /\ tokens' = texts /\ reader' = "over"
           /\ ClosesOnce'
<1>1. ending' \in {<<"sources", "done">>, <<"done">>}
  BY ClosingWords DEF FinishStream
<1>2. ending' # <<>> /\ ending'[Len(ending')] = "done" /\ ending' \in Closings
  <2>1. /\ <<"done">> # <<>> /\ Len(<<"done">>) = 1 /\ <<"done">>[1] = "done"
    OBVIOUS
  <2>2. /\ <<"sources", "done">> # <<>> /\ Len(<<"sources", "done">>) = 2
        /\ <<"sources", "done">>[2] = "done"
    OBVIOUS
  <2>3. CASE ending' = <<"done">>
    BY <2>1, <2>3 DEF Closings
  <2>4. CASE ending' = <<"sources", "done">>
    BY <2>2, <2>4 DEF Closings
  <2> QED
    BY <1>1, <2>3, <2>4
<1>3. tokens' = texts /\ reader' = "over"
  BY DEF FinishStream
<1>4. saved' # "nothing" => saved' = IF tokens' = <<>> THEN "" ELSE tokens'[Len(tokens')]
  BY <1>3 DEF FinishStream, WhatIsStored
<1> QED
  BY <1>2, <1>3, <1>4 DEF ClosesOnce, Closings

LEMMA CloseStep == StreamIInv /\ CloseStream => StreamIInv'
<1> SUFFICES ASSUME StreamIInv, CloseStream PROVE StreamIInv'
  OBVIOUS
<1> USE DEF StreamIInv
<1>1. /\ ending = <<>> /\ saved = "nothing" /\ queue = <<>> /\ agent \in {"ended", "failed", "exhausted"}
      /\ reader = "closing" /\ UNCHANGED <<mode, agent, queue, produced>> /\ UNCHANGED fixed /\ buffer' = ""
  BY DEF CloseStream, ReaderInv, QueueInv, StreamTypeOK, fixed
<1>2. Delivered
  <2>1. Len(queue) = 0
    BY <1>1, EmptySeq
  <2>2. ~OnItsWay
    BY <2>1 DEF OnItsWay
  <2> QED
    BY <1>1, <2>2 DEF ReaderInv
<1>3. Flushed \in Seq(Spoken) /\ tokens \in Seq(Spoken)
  BY FlushSends DEF StreamTypeOK
<1>4. /\ ending' \in Closings /\ ending' # <<>> /\ tokens' \in Seq(Spoken) /\ reader' = "over"
      /\ ClosesOnce'
      /\ agent = "ended" => tokens' = Flushed
  <2>1. CASE agent = "ended"
    <3>1. FinishStream(Flushed)
      BY <2>1 DEF CloseStream
    <3> QED
      BY <1>1, <1>3, <2>1, <3>1, FinishCloses
  <2>2. CASE agent # "ended"
    <3> DEFINE texts == IF mode = "deep" THEN Flushed ELSE tokens
    <3>1. texts \in Seq(Spoken) /\ FailStream(texts)
      BY <1>3, <2>2 DEF CloseStream
    <3> HIDE DEF texts
    <3>2. CASE FinishStream(texts)
      BY <1>1, <2>2, <3>1, <3>2, FinishCloses
    <3>3. CASE ~FinishStream(texts)
      <4>1. ending' = <<"error">> /\ tokens' = texts /\ reader' = "over" /\ saved' = "nothing"
        BY <1>1, <3>1, <3>3, ClosingWords DEF FailStream
      <4> QED
        BY <2>2, <3>1, <4>1 DEF ClosesOnce, Closings
    <3> QED
      BY <3>2, <3>3
  <2> QED
    BY <2>1, <2>2
<1>5. LastTextArrives'
  <2>1. produced # "" => Flushed # <<>> /\ Carries(Flushed[Len(Flushed)])
    BY <1>2, FlushSends
  <2> QED
    BY <1>1, <1>4, <2>1 DEF LastTextArrives, Carries
<1>6. StreamTypeOK'
  BY <1>1, <1>4 DEF StreamTypeOK, Spoken
<1>7. QueueInv' /\ ReaderInv'
  BY <1>1, <1>4 DEF QueueInv, ReaderInv
<1> QED
  BY <1>4, <1>5, <1>6, <1>7 DEF AnswerArrivesOnce

LEMMA AgentStepStep ==
    ASSUME StreamIInv, NEW e \in {Note} \union {Token(t) : t \in Texts}, AgentStep(e)
    PROVE  StreamIInv'
<1> USE DEF StreamIInv
<1>1. e \in Events /\ e # Sentinel /\ e.kind \in {"note", "token"}
  BY EventKinds DEF Events
<1>2. /\ agent = "running" /\ UNCHANGED <<agent, reader, ending, saved>> /\ mode' = mode
      /\ ending = <<>> /\ reader # "closing"
      /\ produced' = IF e.kind = "token" THEN e.text ELSE produced
  BY DEF AgentStep, fixed, ReaderInv
<1>3. produced' \in Spoken
  BY <1>1, <1>2, EventKinds DEF StreamTypeOK, Spoken
<1>4. ClosesOnce' /\ LastTextArrives'
  BY <1>2 DEF AnswerArrivesOnce, ClosesOnce, LastTextArrives
<1>5. CASE mode = "deep"
  <2>1. queue' = Append(queue, e) /\ UNCHANGED <<buffer, tokens>>
    BY <1>5 DEF AgentStep
  <2>2. /\ queue' \in Seq(Events) /\ Len(queue) \in Nat /\ Len(queue') = Len(queue) + 1
        /\ \A n \in 1 .. Len(queue) : queue'[n] = queue[n]
        /\ queue'[Len(queue) + 1] = e
    BY <1>1, <2>1, AppendProperties, LenProperties DEF StreamTypeOK
  <2>3. QueueInv'
    BY <1>1, <1>2, <1>5, <2>2 DEF QueueInv
  <2>4. ReaderInv'
    BY <1>1, <1>2, <2>1, QueueGrows DEF ReaderInv
  <2>5. StreamTypeOK'
    BY <1>2, <1>3, <2>1, <2>2 DEF StreamTypeOK
  <2> QED
    BY <1>4, <2>3, <2>4, <2>5 DEF AnswerArrivesOnce
<1>6. CASE mode = "normal"
  <2>1. Take(e) /\ queue' = queue /\ queue = <<>> /\ reader = "reading"
    BY <1>6 DEF AgentStep, QueueInv
  <2>2. Len(queue) = 0 /\ ~OnItsWay /\ NoneOnItsWay'
    BY <2>1, EmptySeq DEF OnItsWay, NoneOnItsWay
  <2>3. Delivered
    BY <2>1, <2>2 DEF ReaderInv
  <2>4. Delivered' /\ buffer' \in Spoken /\ tokens' \in Seq(Spoken)
    BY <1>1, <1>2, <2>1, <2>3, TakeDelivers
  <2>5. QueueInv'
    BY <1>2, <1>6, <2>1 DEF QueueInv
  <2>6. ReaderInv'
    BY <1>2, <2>2, <2>4 DEF ReaderInv
  <2>7. StreamTypeOK'
    BY <1>2, <1>3, <2>1, <2>4 DEF StreamTypeOK
  <2> QED
    BY <1>4, <2>5, <2>6, <2>7 DEF AnswerArrivesOnce
<1> QED
  BY <1>5, <1>6 DEF StreamTypeOK

LEMMA AgentStopsStep ==
    ASSUME StreamIInv, NEW how \in {"ended", "failed", "exhausted"}, AgentStops(how)
    PROVE  StreamIInv'
<1> USE DEF StreamIInv
<1>1. /\ agent = "running" /\ agent' = how /\ mode' = mode
      /\ UNCHANGED <<buffer, tokens, ending, saved, produced>>
      /\ reader # "closing" /\ ending = <<>>
  BY DEF AgentStops, fixed, ReaderInv
<1>2. ClosesOnce' /\ LastTextArrives'
  BY <1>1 DEF AnswerArrivesOnce, ClosesOnce, LastTextArrives
<1>3. CASE mode = "deep"
  <2>1. queue' = Append(queue, Sentinel) /\ reader' = reader
    BY <1>3 DEF AgentStops
  <2>2. /\ queue' \in Seq(Events) /\ Len(queue) \in Nat /\ Len(queue') = Len(queue) + 1
        /\ \A n \in 1 .. Len(queue) : queue'[n] = queue[n]
        /\ queue'[Len(queue) + 1] = Sentinel
    BY <2>1, EventKinds, AppendProperties, LenProperties DEF StreamTypeOK
  <2>3. QueueInv'
    BY <1>1, <1>3, <2>1, <2>2 DEF QueueInv
  <2>4. Sentinel \in Events /\ Sentinel.kind # "token"
    BY EventKinds DEF Sentinel
  <2>5. ReaderInv'
    BY <1>1, <2>1, <2>4, QueueGrows DEF ReaderInv
  <2>6. StreamTypeOK'
    BY <1>1, <2>1, <2>2 DEF StreamTypeOK
  <2> QED
    BY <1>2, <2>3, <2>5, <2>6 DEF AnswerArrivesOnce
<1>4. CASE mode = "normal"
  <2>1. queue' = queue /\ reader = "reading" /\ reader' = "closing"
    BY <1>4 DEF AgentStops
  <2>2. QueueInv'
    BY <1>1, <1>4, <2>1, EmptySeq DEF QueueInv
  <2>3. OnItsWay' = OnItsWay /\ NoneOnItsWay' = NoneOnItsWay /\ Delivered' = Delivered
    BY <1>1, <2>1 DEF OnItsWay, NoneOnItsWay, Delivered, Carries, NewestText
  <2>4. ReaderInv'
    BY <1>1, <2>1, <2>3 DEF ReaderInv
  <2>5. StreamTypeOK'
    BY <1>1, <2>1 DEF StreamTypeOK
  <2>6. ClosesOnce'
    BY <1>1, <2>1 DEF AnswerArrivesOnce, ClosesOnce, ReaderInv
  <2> QED
    BY <1>2, <2>2, <2>4, <2>5, <2>6 DEF AnswerArrivesOnce
<1> QED
  BY <1>3, <1>4 DEF StreamTypeOK

LEMMA ReadStep == StreamIInv /\ ReadEvent => StreamIInv'
<1> SUFFICES ASSUME StreamIInv, ReadEvent PROVE StreamIInv'
  OBVIOUS
<1> USE DEF StreamIInv
<1>1. /\ mode = "deep" /\ mode' = mode /\ reader = "reading" /\ queue # <<>> /\ queue' = Tail(queue)
      /\ UNCHANGED <<agent, ending, saved, produced>> /\ ending = <<>> /\ saved = "nothing"
      /\ \/ Head(queue) # Sentinel /\ Take(Head(queue)) /\ reader' = reader
         \/ Head(queue) = Sentinel /\ UNCHANGED <<buffer, tokens>> /\ reader' = "closing"
  BY DEF ReadEvent, fixed, ReaderInv
<1>2. /\ queue' \in Seq(Events) /\ Len(queue) \in Nat /\ Len(queue) > 0 /\ Len(queue') = Len(queue) - 1
      /\ \A n \in 1 .. Len(queue') : queue'[n] = queue[n + 1]
      /\ Head(queue) \in Events /\ Head(queue) = queue[1]
  BY <1>1, HeadTailProperties, LenProperties, EmptySeq DEF StreamTypeOK
<1>3. buffer' \in Spoken /\ tokens' \in Seq(Spoken)
  BY <1>1, <1>2, TakeDelivers DEF StreamTypeOK
<1>4. StreamTypeOK'
  BY <1>1, <1>2, <1>3 DEF StreamTypeOK
<1>5. OnItsWay' \/ (NoneOnItsWay' /\ Delivered')
  BY <1>1, QueueShrinks DEF ReaderInv
<1>6. ASSUME Head(queue) = Sentinel PROVE agent \in {"ended", "failed", "exhausted", "cancelled"} /\ queue' = <<>>
  <2>1. agent # "running" /\ Len(queue) = 1
    BY <1>2, <1>6 DEF QueueInv
  <2>2. Len(queue') = 0
    BY <1>2, <2>1
  <2> QED
    BY <1>2, <2>1, <2>2, EmptySeq DEF StreamTypeOK
<1>7. QueueInv'
  <2>1. \A n \in 1 .. Len(queue') : queue'[n] = Sentinel => agent' # "running" /\ n = Len(queue')
    <3> SUFFICES ASSUME NEW n \in 1 .. Len(queue'), queue'[n] = Sentinel
                 PROVE  agent' # "running" /\ n = Len(queue')
      OBVIOUS
    <3>1. n + 1 \in 1 .. Len(queue) /\ queue[n + 1] = Sentinel
      BY <1>2
    <3>2. agent # "running" /\ n + 1 = Len(queue)
      BY <3>1 DEF QueueInv
    <3>3. agent' = agent
      BY <1>1
    <3>4. n = Len(queue')
      BY <1>2, <3>2
    <3> QED
      BY <3>2, <3>3, <3>4
  <2> QED
    BY <1>1, <1>6, <2>1 DEF QueueInv
<1>8. agent # "cancelled"
  BY <1>1 DEF ReaderInv
<1>9. ReaderInv'
  BY <1>1, <1>5, <1>6, <1>8 DEF ReaderInv
<1>10. AnswerArrivesOnce'
  BY <1>1 DEF AnswerArrivesOnce, ClosesOnce, LastTextArrives
<1> QED
  BY <1>4, <1>7, <1>9, <1>10

LEMMA StreamStep == StreamIInv /\ [StreamNext]_streamVars => StreamIInv'
<1> SUFFICES ASSUME StreamIInv, [StreamNext]_streamVars PROVE StreamIInv'
  OBVIOUS
<1>1. ASSUME UNCHANGED <<mode, agent, queue, reader, buffer, tokens, ending, saved, produced>>
      PROVE  StreamIInv'
  <2>1. StreamTypeOK'
    BY <1>1 DEF StreamIInv, StreamTypeOK
  <2>2. QueueInv'
    BY <1>1 DEF StreamIInv, QueueInv
  <2>3. OnItsWay' = OnItsWay /\ NoneOnItsWay' = NoneOnItsWay /\ Delivered' = Delivered
    BY <1>1 DEF OnItsWay, NoneOnItsWay, Delivered, Carries, NewestText
  <2>4. ReaderInv'
    BY <1>1, <2>3 DEF StreamIInv, ReaderInv
  <2>5. AnswerArrivesOnce'
    BY <1>1 DEF StreamIInv, AnswerArrivesOnce, ClosesOnce, LastTextArrives
  <2> QED
    BY <2>1, <2>2, <2>4, <2>5 DEF StreamIInv
<1>2. ASSUME NEW e \in {Note} \union {Token(t) : t \in Texts}, AgentStep(e) PROVE StreamIInv'
  BY <1>2, AgentStepStep
<1>3. CASE SilentStep
  BY <1>1, <1>3 DEF SilentStep, fixed, flow
<1>4. ASSUME NEW how \in {"ended", "failed", "exhausted"}, AgentStops(how) PROVE StreamIInv'
  BY <1>4, AgentStopsStep
<1>5. CASE ReadEvent
  BY <1>5, ReadStep
<1>6. CASE CloseStream
  BY <1>6, CloseStep
<1>7. CASE Cancelled
  <2>1. /\ UNCHANGED <<mode, queue, tokens, ending, saved, produced>> /\ reader = "reading" /\ buffer' = ""
        /\ reader' = IF mode = "deep" THEN "cancelled" ELSE "over"
        /\ agent' = IF mode = "deep" THEN agent ELSE "cancelled"
    BY <1>7 DEF Cancelled, fixed
  <2>2. StreamTypeOK'
    BY <2>1 DEF StreamIInv, StreamTypeOK, Spoken
  <2>3. QueueInv'
    BY <2>1 DEF StreamIInv, QueueInv
  <2>4. ReaderInv'
    BY <2>1 DEF StreamIInv, ReaderInv
  <2>5. AnswerArrivesOnce'
    BY <2>1 DEF StreamIInv, ReaderInv, AnswerArrivesOnce, ClosesOnce, LastTextArrives
  <2> QED
    BY <2>2, <2>3, <2>4, <2>5 DEF StreamIInv
<1>8. CASE AgentAwaited
  <2>1. /\ UNCHANGED <<mode, agent, queue, buffer, tokens, ending, saved, produced>>
        /\ reader = "cancelled" /\ reader' = "over"
    BY <1>8 DEF AgentAwaited, fixed
  <2>2. StreamTypeOK'
    BY <2>1 DEF StreamIInv, StreamTypeOK
  <2>3. QueueInv'
    BY <2>1 DEF StreamIInv, QueueInv
  <2>4. ReaderInv'
    BY <2>1 DEF StreamIInv, ReaderInv
  <2>5. AnswerArrivesOnce'
    BY <2>1 DEF StreamIInv, ReaderInv, AnswerArrivesOnce, ClosesOnce, LastTextArrives
  <2> QED
    BY <2>2, <2>3, <2>4, <2>5 DEF StreamIInv
<1>9. CASE UNCHANGED streamVars
  BY <1>1, <1>9 DEF streamVars, fixed
<1> QED
  BY <1>2, <1>3, <1>4, <1>5, <1>6, <1>7, <1>8, <1>9 DEF StreamNext

\* For any texts and any of them contained in others, any limit of steps, and
\* whatever the agent, the queue and a reader that is cancelled do: a stream closes
\* once, with the last text of an agent that ended by itself, and that is what is
\* stored (stream_research_response).
THEOREM AnswerAlwaysArrives == StreamSpec => []AnswerArrivesOnce
<1>1. StreamInit => StreamIInv
  <2> SUFFICES ASSUME StreamInit PROVE StreamIInv
    OBVIOUS
  <2>1. /\ queue = <<>> /\ queue \in Seq(Events) /\ tokens = <<>> /\ tokens \in Seq(Spoken) /\ Len(queue) = 0
    BY EmptySeq DEF StreamInit
  <2>2. "" \in Spoken
    BY DEF Spoken
  <2>3. StreamTypeOK
    <3>1. ending \in Closings
      BY DEF StreamInit, Closings
    <3> QED
      BY <2>1, <2>2, <3>1 DEF StreamInit, StreamTypeOK
  <2>4. QueueInv
    <3>1. 1 .. Len(queue) = {}
      BY <2>1
    <3>2. queue = <<>>
      BY DEF StreamInit
    <3> QED
      BY <3>1, <3>2 DEF QueueInv
  <2>5. ReaderInv
    <3>1. NoneOnItsWay
      BY <2>1 DEF NoneOnItsWay
    <3>2. Delivered
      BY DEF StreamInit, Delivered
    <3> QED
      BY <3>1, <3>2 DEF StreamInit, ReaderInv
  <2>6. AnswerArrivesOnce
    BY DEF StreamInit, AnswerArrivesOnce, ClosesOnce, LastTextArrives
  <2> QED
    BY <2>3, <2>4, <2>5, <2>6 DEF StreamIInv
<1>2. StreamIInv => AnswerArrivesOnce
  BY DEF StreamIInv
<1> QED
  BY <1>1, <1>2, StreamStep, PTL DEF StreamSpec

-----------------------------------------------------------------------------
(* App.tsx and the activity routes: the log of searches                    *)

Whose == {"user", "visitor"}
LogRow == [id : Nat, owner : Whose, of : Nat, bare : BOOLEAN, summary : Int, tree : Int,
           marked : BOOLEAN]
PostCall == [call : {"post"}, id : Nat, owner : Whose, of : Nat, bare : BOOLEAN]
PatchCall == [call : {"patch"}, id : Nat, owner : Whose, summary : Int, tree : Int,
              row : {<< >>} \union {<<r>> : r \in LogRow}]

PageTypeOK ==
    /\ shownOf \in Int /\ streamOf \in Int /\ textOf \in Int
    /\ treeOf \in Int /\ treeOf # Failed /\ whole \in Int /\ whole # Failed
    /\ deeper => treeOf # NoSearch

\* The page names the search it asks next by how many it asked.
LogTypeOK ==
    /\ submits \in Nat /\ pageId = submits + 1
    /\ finding # NotFinding => submits > 0 /\ finding = [of |-> submits, logAs |-> submits]
    /\ logId \in Nat /\ PageTypeOK
    /\ loggedIds \subseteq 1 .. submits
    /\ mail \subseteq PostCall \union PatchCall
    /\ activityRows \subseteq LogRow

AllBare(i) ==
    /\ \A m \in mail : m.call = "post" /\ m.id = i => m.bare
    /\ \A r \in activityRows : r.id = i => r.bare
Fits(t, i) == t \in {NoSearch, i}

\* Nothing is promised of a search that found nothing, nor when the page has strayed.
Excused(i) == AllBare(i) \/ i \in strayed

CountsInv ==
    /\ IsFiniteSet(loggedIds) /\ Cardinality(loggedIds) = answered
    /\ finding # NotFinding => submits \notin loggedIds

\* What is named is logged, on its way or lost, and never twice.
NamesInv ==
    /\ \A r \in activityRows : r.id \in loggedIds /\ r.of = r.id
    /\ \A r, s \in activityRows : r.id = s.id => r = s
    /\ \A m \in mail : m.id \in loggedIds
    /\ \A m \in mail : m.call = "post" => m.of = m.id
    /\ \A m \in mail, r \in activityRows : m.call = "post" => r.id # m.id
    /\ \A m, k \in mail : m.call = "post" /\ k.call = "post" /\ m.id = k.id => m = k

\* Rows and what is sent for them have a summary and a tree of their own search,
\* unless that is excused.
RowFits(r) == r.bare \/ r.id \in strayed \/ (Fits(r.summary, r.id) /\ Fits(r.tree, r.id))
TextsInv ==
    /\ \A r \in activityRows : RowFits(r)
    /\ \A m \in mail : m.call = "patch" =>
          \/ Excused(m.id)
          \/ /\ Fits(m.summary, m.id) /\ Fits(m.tree, m.id)
             /\ m.row # << >> => Fits(m.row[1].tree, m.id)

\* So has the page, which summarises what was logged last; its summary may be that of
\* a topic while a node below the root is shown.
PageFits ==
    /\ Fits(treeOf, logId)
    /\ deeper \/ (Fits(streamOf, logId) /\ (Fits(textOf, logId) \/ textOf = Failed))
PageInv ==
    /\ logId = NoSearch \/ logId \in loggedIds
    /\ Excused(logId) \/ PageFits

LogIInv == LogTypeOK /\ CountsInv /\ NamesInv /\ TextsInv /\ PageInv

LEMMA CallFields ==
    /\ \A m \in PostCall : m.call = "post" /\ m.id \in Nat /\ m.of \in Nat /\ m.owner \in Whose /\ m.bare \in BOOLEAN
    /\ \A m \in PatchCall : m.call = "patch" /\ m.id \in Nat /\ m.owner \in Whose
    /\ \A m \in PatchCall : m.summary \in Int /\ m.tree \in Int
    /\ \A m \in PatchCall : m.row # << >> => m.row[1] \in LogRow
    /\ \A r \in LogRow : r.id \in Nat /\ r.of \in Nat /\ r.tree \in Int
BY DEF PostCall, PatchCall, LogRow

\* A search stays bare while no post is added, and rows only for posts.
LEMMA BareKept ==
    ASSUME \A m \in mail' : m.call = "post" => m \in mail,
           \A r \in activityRows' :
              \/ \E s \in activityRows : s.id = r.id /\ (s.bare => r.bare)
              \/ \E m \in mail : m.call = "post" /\ m.id = r.id /\ (m.bare => r.bare)
    PROVE  \A i : AllBare(i) => AllBare(i)'
BY DEF AllBare

\* What may be told of the search that was logged last: its own, or anything if excused.
MayTell(m) ==
    /\ logId # NoSearch
    /\ \E summary, grown \in Int :
          /\ m = Patch(summary, grown)
          /\ \/ AllBare(logId) \/ logId \in strayed'
             \/ Fits(summary, logId) /\ Fits(grown, logId)

\* Steps of the page that stay with the search or stray, and send at most patches.
LEMMA PageSteps ==
    ASSUME LogIInv, UNCHANGED <<pageId, submits, logId, loggedIds, activityRows, answered>>,
           finding' \in {finding, NotFinding}, strayed \subseteq strayed',
           PageTypeOK', AllBare(logId) \/ logId \in strayed' \/ PageFits',
           NEW sent, mail' = mail \union sent, \A m \in sent : MayTell(m)
    PROVE  LogIInv'
<1>1. \A m \in sent :
         /\ m \in PatchCall /\ m.call = "patch" /\ m.id = logId /\ m.row = << >> /\ logId \in loggedIds
         /\ \/ AllBare(logId) \/ logId \in strayed'
            \/ Fits(m.summary, logId) /\ Fits(m.tree, logId)
  <2> SUFFICES ASSUME NEW m \in sent
               PROVE  /\ m \in PatchCall /\ m.call = "patch" /\ m.id = logId /\ m.row = << >>
                      /\ logId \in loggedIds
                      /\ \/ AllBare(logId) \/ logId \in strayed'
                         \/ Fits(m.summary, logId) /\ Fits(m.tree, logId)
    OBVIOUS
  <2>1. PICK summary, grown \in Int :
           /\ m = Patch(summary, grown)
           /\ \/ AllBare(logId) \/ logId \in strayed'
              \/ Fits(summary, logId) /\ Fits(grown, logId)
    BY DEF MayTell
  <2>2. logId \in Nat /\ logId \in loggedIds
    BY DEF LogIInv, LogTypeOK, PageInv, MayTell
  <2>3. /\ m \in PatchCall /\ m.call = "patch" /\ m.id = logId /\ m.row = << >>
        /\ m.summary = summary /\ m.tree = grown
    BY <2>1, <2>2 DEF Patch, PatchCall, Owner, Whose
  <2> QED
    BY <2>1, <2>2, <2>3
<1>2. LogTypeOK'
  <2>1. mail' \subseteq PostCall \union PatchCall
    BY <1>1 DEF LogIInv, LogTypeOK
  <2> QED
    BY <2>1 DEF LogIInv, LogTypeOK
<1>3. CountsInv'
  BY DEF LogIInv, CountsInv
<1>4. \A i : AllBare(i)' <=> AllBare(i)
  BY <1>1 DEF AllBare
<1>5. NamesInv'
  BY <1>1 DEF LogIInv, NamesInv
<1>6. TextsInv'
  <2>1. \A r \in activityRows' : RowFits(r)'
    BY DEF LogIInv, TextsInv, RowFits
  <2>2. \A m \in mail : m.call = "patch" =>
           \/ Excused(m.id)'
           \/ /\ Fits(m.summary, m.id) /\ Fits(m.tree, m.id)
              /\ m.row # << >> => Fits(m.row[1].tree, m.id)
    BY <1>4 DEF LogIInv, TextsInv, Excused
  <2>3. \A m \in sent : Excused(m.id)' \/ (Fits(m.summary, m.id) /\ Fits(m.tree, m.id) /\ m.row = << >>)
    BY <1>1, <1>4 DEF Excused
  <2> QED
    BY <2>1, <2>2, <2>3 DEF TextsInv
<1>7. PageInv'
  BY <1>4 DEF LogIInv, PageInv, Excused
<1> QED
  BY <1>2, <1>3, <1>5, <1>6, <1>7 DEF LogIInv

LEMMA QuietSteps ==
    ASSUME LogIInv, UNCHANGED <<pageId, submits, logId, loggedIds, activityRows, answered, mail>>,
           finding' \in {finding, NotFinding}, strayed \subseteq strayed',
           PageTypeOK', AllBare(logId) \/ logId \in strayed' \/ PageFits'
    PROVE  LogIInv'
<1> DEFINE sent == {}
<1>1. mail' = mail \union sent /\ \A m \in sent : MayTell(m)
  OBVIOUS
<1> HIDE DEF sent
<1> QED
  BY <1>1, PageSteps

\* What the page has, where it promises something.
LEMMA PageHas ==
    ASSUME LogIInv
    PROVE  /\ PageTypeOK
           /\ AllBare(logId) \/ logId \in strayed \/ PageFits
           /\ NoSearch \in Int /\ Elsewhere \in Int /\ Failed \in Int
           /\ NoSearch # Failed /\ Elsewhere # Failed /\ NoSearch # Elsewhere
BY DEF LogIInv, LogTypeOK, PageInv, Excused, NoSearch, Elsewhere, Failed

\* Steps that leave the page's summary alone.
LEMMA OtherSteps ==
    ASSUME LogIInv, UNCHANGED <<pageId, submits, logId, loggedIds, activityRows, answered, mail,
                                shownOf, streamOf, textOf, treeOf, whole, deeper, strayed>>,
           finding' \in {finding, NotFinding}
    PROVE  LogIInv'
<1>1. (PageFits' <=> PageFits) /\ (PageTypeOK' <=> PageTypeOK)
  BY DEF PageFits, PageTypeOK, Fits
<1> QED
  BY <1>1, PageHas, QuietSteps

LEMMA SubmitLogs == LogIInv /\ LogSubmit => LogIInv'
<1> SUFFICES ASSUME LogIInv, LogSubmit PROVE LogIInv'
  OBVIOUS
<1>1. /\ finding' = [of |-> submits + 1, logAs |-> pageId]
      /\ pageId' = submits + 2 /\ submits' = submits + 1
      /\ UNCHANGED <<shownOf, logId, streamOf, textOf, treeOf, deeper, whole, strayed, loggedIds, mail,
                     activityRows, answered>>
  BY DEF LogSubmit, summaryVars, digVars
<1>2. LogTypeOK'
  <2>1. /\ submits \in Nat /\ pageId = submits + 1 /\ loggedIds \subseteq 1 .. submits
        /\ mail \subseteq PostCall \union PatchCall /\ activityRows \subseteq LogRow
    BY DEF LogIInv, LogTypeOK
  <2>2. submits' \in Nat /\ pageId' = submits' + 1 /\ submits' > 0 /\ loggedIds' \subseteq 1 .. submits'
        /\ finding' = [of |-> submits', logAs |-> submits']
    BY <1>1, <2>1
  <2> QED
    BY <1>1, <2>1, <2>2 DEF LogIInv, LogTypeOK, PageTypeOK
<1>3. CountsInv'
  BY <1>1 DEF LogIInv, LogTypeOK, CountsInv
<1>4. \A i : AllBare(i)' <=> AllBare(i)
  BY <1>1 DEF AllBare
<1>5. NamesInv'
  BY <1>1 DEF LogIInv, NamesInv
<1>6. TextsInv'
  BY <1>1, <1>4 DEF LogIInv, TextsInv, RowFits, Excused
<1>7. PageInv'
  BY <1>1, <1>4 DEF LogIInv, PageInv, PageFits, Excused
<1> QED
  BY <1>2, <1>3, <1>5, <1>6, <1>7 DEF LogIInv

LEMMA AnswerLogs ==
    ASSUME LogIInv, NEW bare \in BOOLEAN, LogAnswer(bare)
    PROVE  LogIInv'
<1> DEFINE n == submits
           p == Post(bare)
<1>1. n \in Nat /\ n > 0 /\ finding.of = n /\ finding.logAs = n /\ n \notin loggedIds /\ n # NoSearch
  BY DEF LogAnswer, LogIInv, LogTypeOK, CountsInv, NoSearch
<1>2. p \in PostCall /\ p.call = "post" /\ p.id = n /\ p.of = n /\ (p.bare <=> bare)
  BY <1>1 DEF Post, PostCall, Owner, Whose
<1> HIDE DEF p
<1>3. /\ finding' = NotFinding /\ answered' = answered + 1 /\ logId' = n
      /\ loggedIds' = loggedIds \union {n} /\ mail' = mail \union {p}
      /\ shownOf' = IF bare THEN NoSearch ELSE n
      /\ textOf' = NoSearch
      /\ streamOf' = IF bare THEN streamOf ELSE n
      /\ treeOf' = IF bare THEN treeOf ELSE NoSearch
      /\ deeper' = (deeper /\ bare)
      /\ UNCHANGED <<pageId, submits, activityRows, whole, strayed>> /\ n' = n
  BY <1>1 DEF LogAnswer, submitVars, digVars, p
<1> HIDE DEF n
<1>4. LogTypeOK'
  <2>1. loggedIds' \subseteq 1 .. submits'
    <3>1. loggedIds \subseteq 1 .. n /\ n' = n /\ n \in 1 .. n
      BY <1>1, <1>3 DEF LogIInv, LogTypeOK, n
    <3> QED
      BY <1>3, <3>1 DEF n
  <2>2. mail' \subseteq PostCall \union PatchCall /\ activityRows' \subseteq LogRow
    BY <1>2, <1>3 DEF LogIInv, LogTypeOK
  <2>3. shownOf' \in Int /\ logId' \in Nat /\ textOf' \in Int
    BY <1>1, <1>3 DEF NoSearch
  <2>4. PageTypeOK'
    BY <1>1, <1>3, <2>3, PageHas DEF PageTypeOK
  <2> QED
    BY <1>3, <2>1, <2>2, <2>3, <2>4 DEF LogIInv, LogTypeOK
<1>5. CountsInv'
  <2>1. IsFiniteSet(loggedIds') /\ Cardinality(loggedIds') = Cardinality(loggedIds) + 1
    BY <1>1, <1>3, FS_AddElement DEF LogIInv, CountsInv
  <2> QED
    BY <1>3, <2>1 DEF LogIInv, CountsInv
<1>6. \A i \in loggedIds : AllBare(i)' <=> AllBare(i)
  BY <1>1, <1>2, <1>3 DEF AllBare
<1>7. NamesInv'
  BY <1>1, <1>2, <1>3 DEF LogIInv, NamesInv
<1>8. TextsInv'
  <2>1. \A r \in activityRows' : RowFits(r)'
    BY <1>3 DEF LogIInv, TextsInv, RowFits
  <2>2. \A m \in mail : m.id \in loggedIds
    BY DEF LogIInv, NamesInv
  <2>3. \A m \in mail' : m.call = "patch" => m \in mail
    BY <1>2, <1>3
  <2> QED
    BY <1>3, <1>6, <2>1, <2>2, <2>3 DEF LogIInv, TextsInv, Excused
<1>9. PageInv'
  <2>1. bare => AllBare(n)'
    <3>1. \A r \in activityRows' : r.id # n
      BY <1>1, <1>3 DEF LogIInv, NamesInv
    <3>2. \A m \in mail' : m.id = n => m = p
      BY <1>1, <1>3 DEF LogIInv, NamesInv
    <3> QED
      BY <1>2, <1>3, <3>1, <3>2 DEF AllBare
  <2>2. ~bare => PageFits'
    BY <1>3 DEF PageFits, Fits
  <2>3. logId' \in loggedIds'
    BY <1>3
  <2> QED
    BY <1>3, <2>1, <2>2, <2>3 DEF PageInv, Excused
<1> QED
  BY <1>4, <1>5, <1>7, <1>8, <1>9 DEF LogIInv

LEMMA MailLogs ==
    ASSUME LogIInv, NEW m \in mail, Mail(m)
    PROVE  LogIInv'
<1>1. /\ UNCHANGED <<pageId, submits, finding, shownOf, logId, streamOf, textOf, treeOf, deeper, whole,
                     strayed, loggedIds, answered>>
      /\ LogArrives(m) \/ PatchReads(m) \/ PatchWrites(m) \/ MailIsLost(m)
  BY DEF Mail, summaryVars, digVars, submitVars
<1>2. m \in PostCall \union PatchCall /\ mail \subseteq PostCall \union PatchCall /\ activityRows \subseteq LogRow
  BY DEF LogIInv, LogTypeOK
\* what is to show of each kind of step
<1>3. ASSUME mail' \subseteq PostCall \union PatchCall, activityRows' \subseteq LogRow,
             NamesInv', TextsInv', \A i : AllBare(i) => AllBare(i)'
      PROVE  LogIInv'
  <2>1. LogTypeOK'
    BY <1>1, <1>3 DEF LogIInv, LogTypeOK, PageTypeOK
  <2>2. CountsInv'
    BY <1>1 DEF LogIInv, CountsInv
  <2>3. PageInv'
    BY <1>1, <1>3 DEF LogIInv, PageInv, PageFits, Excused
  <2> QED
    BY <1>3, <2>1, <2>2, <2>3 DEF LogIInv
<1>4. CASE LogArrives(m)
  <2> DEFINE r == [id |-> m.id, owner |-> m.owner, of |-> m.of, bare |-> m.bare,
                   summary |-> NoSearch, tree |-> NoSearch, marked |-> FALSE]
  <2>1. m \in PostCall /\ m.call = "post"
    BY <1>2, <1>4, CallFields DEF LogArrives
  <2>2. r \in LogRow /\ r.id = m.id /\ r.of = m.of /\ r.summary = NoSearch /\ r.tree = NoSearch
    <3>1. m.id \in Nat /\ m.owner \in Whose /\ m.of \in Nat /\ m.bare \in BOOLEAN
      BY <2>1, CallFields
    <3>2. NoSearch \in Int
      BY DEF NoSearch
    <3> QED
      BY <3>1, <3>2 DEF LogRow
  <2>3. m.bare => r.bare
    OBVIOUS
  <2>4. activityRows' = activityRows \union {r} /\ mail' = mail \ {m}
    BY <1>4 DEF LogArrives
  <2> HIDE DEF r
  <2>5. \A i : AllBare(i) => AllBare(i)'
    <3>1. \A k \in mail' : k \in mail
      BY <2>4
    <3>2. \A s \in activityRows' :
             \/ \E t \in activityRows : t.id = s.id /\ (t.bare => s.bare)
             \/ \E k \in mail : k.call = "post" /\ k.id = s.id /\ (k.bare => s.bare)
      BY <2>1, <2>2, <2>3, <2>4
    <3> QED
      BY <3>1, <3>2, BareKept
  <2>6. NamesInv'
    <3> USE DEF LogIInv, NamesInv
    <3>1. \A s \in activityRows' : s.id \in loggedIds' /\ s.of = s.id
      BY <1>1, <2>1, <2>2, <2>4
    <3>2. \A s, t \in activityRows' : s.id = t.id => s = t
      BY <2>1, <2>2, <2>4
    <3>3. \A k \in mail', s \in activityRows' : k.call = "post" => s.id # k.id
      BY <2>1, <2>2, <2>4
    <3>4. \A k \in mail' : k.id \in loggedIds' /\ (k.call = "post" => k.of = k.id)
      BY <1>1, <2>4
    <3>5. \A k, l \in mail' : k.call = "post" /\ l.call = "post" /\ k.id = l.id => k = l
      BY <2>4
    <3> QED
      BY <3>1, <3>2, <3>3, <3>4, <3>5
  <2>7. TextsInv'
    BY <1>1, <2>2, <2>4, <2>5 DEF LogIInv, TextsInv, RowFits, Excused, Fits
  <2> QED
    BY <1>2, <1>3, <2>2, <2>4, <2>5, <2>6, <2>7
<1>5. CASE PatchReads(m)
  <2>1. PICK r \in activityRows : r.id = m.id /\ mail' = (mail \ {m}) \union {[m EXCEPT !.row = <<r>>]}
    BY <1>5 DEF PatchReads
  <2> DEFINE k == [m EXCEPT !.row = <<r>>]
  <2>2. m \in PatchCall /\ m.call = "patch" /\ activityRows' = activityRows /\ r \in LogRow
    BY <1>2, <1>5, CallFields DEF PatchReads
  <2>3. /\ k \in PatchCall /\ k.call = "patch" /\ k.id = m.id /\ k.summary = m.summary /\ k.tree = m.tree
        /\ k.row = <<r>>
    BY <2>2 DEF PatchCall
  <2>4. mail' = (mail \ {m}) \union {k}
    BY <2>1
  <2> HIDE DEF k
  <2>5. \A i : AllBare(i) => AllBare(i)'
    <3>1. \A l \in mail' : l.call = "post" => l \in mail
      BY <2>3, <2>4
    <3> QED
      BY <2>2, <3>1, BareKept
  <2>6. NamesInv'
    <3> USE DEF LogIInv, NamesInv
    <3>1. \A l \in mail' : l.id \in loggedIds'
      BY <1>1, <2>3, <2>4
    <3>2. \A l \in mail' : l.call = "post" => l \in mail
      BY <2>3, <2>4
    <3> QED
      BY <1>1, <2>2, <3>1, <3>2
  <2>7. Excused(m.id) \/ Fits(r.tree, m.id)
    <3>1. r.bare => AllBare(m.id)
      <4>1. \A s \in activityRows : s.id = m.id => s = r
        BY <2>1 DEF LogIInv, NamesInv
      <4>2. \A l \in mail : l.call = "post" => l.id # m.id
        BY <2>1 DEF LogIInv, NamesInv
      <4> QED
        BY <4>1, <4>2 DEF AllBare
    <3>2. r.bare \/ r.id \in strayed \/ Fits(r.tree, r.id)
      BY DEF LogIInv, TextsInv, RowFits
    <3> QED
      BY <2>1, <3>1, <3>2 DEF Excused
  <2>8. TextsInv'
    <3>1. \A s \in activityRows' : RowFits(s)'
      BY <1>1, <2>2 DEF LogIInv, TextsInv, RowFits
    <3>2. Excused(k.id)' \/ (Fits(k.summary, k.id) /\ Fits(k.tree, k.id) /\ Fits(k.row[1].tree, k.id))
      BY <1>1, <2>2, <2>3, <2>5, <2>7 DEF LogIInv, TextsInv, Excused
    <3>3. \A l \in mail' : l = k \/ l \in mail
      BY <2>4
    <3> QED
      BY <1>1, <2>5, <3>1, <3>2, <3>3 DEF LogIInv, TextsInv, Excused
  <2> QED
    BY <1>2, <1>3, <2>2, <2>3, <2>4, <2>5, <2>6, <2>8
<1>6. CASE PatchWrites(m)
  <2> DEFINE summary(r) == IF m.summary # NoSearch THEN m.summary ELSE r.summary
             sentTree == IF m.tree # NoSearch THEN m.tree ELSE m.row[1].tree
             after(r) == IF r.id = m.id /\ r.owner = m.owner
                         THEN [r EXCEPT !.summary = summary(r), !.tree = sentTree] ELSE r
  <2>1. m \in PatchCall /\ m.call = "patch" /\ m.row # << >> /\ mail' = mail \ {m}
    BY <1>2, <1>6, CallFields DEF PatchWrites
  <2>2. activityRows' = {after(r) : r \in activityRows}
    BY <1>6 DEF PatchWrites
  <2>3. sentTree \in Int /\ \A r \in LogRow : summary(r) \in Int
    BY <2>1, CallFields DEF LogRow
  <2> HIDE DEF sentTree, summary
  <2>4. \A r \in LogRow : after(r) \in LogRow /\ after(r).id = r.id /\ after(r).of = r.of
    BY <2>3 DEF LogRow
  <2>5. \A r \in LogRow : r.bare => after(r).bare
    BY DEF LogRow
  <2>6. \A r \in LogRow : \/ after(r) = r
                          \/ r.id = m.id /\ after(r).summary = summary(r) /\ after(r).tree = sentTree
    BY DEF LogRow
  <2> HIDE DEF after
  <2>7. \A i : AllBare(i) => AllBare(i)'
    <3>1. \A k \in mail' : k \in mail
      BY <2>1
    <3>2. \A s \in activityRows' : \E r \in activityRows : r.id = s.id /\ (r.bare => s.bare)
      BY <1>2, <2>2, <2>4, <2>5
    <3> QED
      BY <3>1, <3>2, BareKept
  <2>8. NamesInv'
    <3> USE DEF LogIInv, NamesInv
    <3>1. \A s \in activityRows' : s.id \in loggedIds' /\ s.of = s.id
      BY <1>1, <1>2, <2>2, <2>4
    <3>2. \A s, t \in activityRows' : s.id = t.id => s = t
      BY <1>2, <2>2, <2>4
    <3>3. \A k \in mail', s \in activityRows' : k.call = "post" => s.id # k.id
      BY <1>2, <2>1, <2>2, <2>4
    <3> QED
      BY <1>1, <2>1, <3>1, <3>2, <3>3
  <2>9. Excused(m.id) \/ (Fits(sentTree, m.id) /\ Fits(m.summary, m.id))
    BY <2>1 DEF LogIInv, TextsInv, Fits, sentTree
  <2>10. TextsInv'
    <3>1. \A r \in activityRows : RowFits(after(r))
      <4> SUFFICES ASSUME NEW r \in activityRows, ~after(r).bare, r.id \notin strayed
                   PROVE  Fits(after(r).summary, r.id) /\ Fits(after(r).tree, r.id)
        BY <1>2, <2>4 DEF RowFits
      <4>1. r \in LogRow /\ ~r.bare
        BY <1>2, <2>5
      <4>2. Fits(r.summary, r.id) /\ Fits(r.tree, r.id)
        BY <4>1 DEF LogIInv, TextsInv, RowFits
      <4>3. CASE after(r) = r
        BY <4>2, <4>3
      <4>4. CASE r.id = m.id /\ after(r).summary = summary(r) /\ after(r).tree = sentTree
        <5>1. ~Excused(m.id)
          BY <4>1, <4>4 DEF AllBare, Excused
        <5> QED
          BY <2>9, <4>2, <4>4, <5>1 DEF Fits, summary
      <4> QED
        BY <2>6, <4>1, <4>3, <4>4
    <3>2. \A s \in activityRows' : RowFits(s)'
      BY <1>1, <2>2, <3>1 DEF RowFits
    <3> QED
      BY <1>1, <2>1, <2>7, <3>2 DEF LogIInv, TextsInv, Excused
  <2> QED
    BY <1>2, <1>3, <2>1, <2>2, <2>4, <2>7, <2>8, <2>10
<1>7. CASE MailIsLost(m)
  <2>1. mail' = mail \ {m} /\ activityRows' = activityRows
    BY <1>7 DEF MailIsLost
  <2>2. \A i : AllBare(i) => AllBare(i)'
    BY <2>1 DEF AllBare
  <2>3. NamesInv'
    BY <1>1, <2>1 DEF LogIInv, NamesInv
  <2>4. TextsInv'
    BY <1>1, <2>1, <2>2 DEF LogIInv, TextsInv, RowFits, Excused
  <2> QED
    BY <1>2, <1>3, <2>1, <2>2, <2>3, <2>4
<1> QED
  BY <1>1, <1>4, <1>5, <1>6, <1>7

LEMMA MarkLogs ==
    ASSUME LogIInv, NEW a \in asks, Rating(a)
    PROVE  LogIInv'
<1>1. /\ UNCHANGED <<pageId, submits, finding, shownOf, logId, streamOf, textOf, treeOf, deeper, whole,
                     strayed, loggedIds, mail, answered>>
      /\ \/ activityRows' = activityRows
         \/ activityRows' = {IF r.id = a.ref /\ r.owner = "user" THEN [r EXCEPT !.marked = TRUE]
                             ELSE r : r \in activityRows}
  BY DEF Rating, summaryVars, digVars, submitVars, RatingLooks, RatingStores, RatingAnswers, RatingIsLost
<1>2. CASE activityRows' = activityRows
  BY <1>1, <1>2, OtherSteps
<1>3. CASE activityRows' = {IF r.id = a.ref /\ r.owner = "user" THEN [r EXCEPT !.marked = TRUE]
                            ELSE r : r \in activityRows}
  <2> DEFINE after(r) == IF r.id = a.ref /\ r.owner = "user" THEN [r EXCEPT !.marked = TRUE] ELSE r
  <2>1. activityRows \subseteq LogRow /\ activityRows' = {after(r) : r \in activityRows}
    BY <1>3 DEF LogIInv, LogTypeOK
  <2>2. \A r \in LogRow : /\ after(r) \in LogRow /\ after(r).id = r.id /\ after(r).of = r.of
                          /\ after(r).summary = r.summary /\ after(r).tree = r.tree
    BY DEF LogRow
  <2>3. \A r \in LogRow : r.bare => after(r).bare
    BY DEF LogRow
  <2> HIDE DEF after
  <2>4. \A i : AllBare(i) => AllBare(i)'
    <3>1. \A s \in activityRows' : \E r \in activityRows : r.id = s.id /\ (r.bare => s.bare)
      BY <2>1, <2>2, <2>3
    <3> QED
      BY <1>1, <3>1, BareKept
  <2>5. LogTypeOK'
    BY <1>1, <2>1, <2>2 DEF LogIInv, LogTypeOK, PageTypeOK
  <2>6. CountsInv'
    BY <1>1 DEF LogIInv, CountsInv
  <2>7. NamesInv'
    <3> USE DEF LogIInv, NamesInv
    <3>1. \A s \in activityRows' : s.id \in loggedIds' /\ s.of = s.id
      BY <1>1, <2>1, <2>2
    <3>2. \A s, t \in activityRows' : s.id = t.id => s = t
      BY <2>1, <2>2
    <3>3. \A k \in mail', s \in activityRows' : k.call = "post" => s.id # k.id
      BY <1>1, <2>1, <2>2
    <3> QED
      BY <1>1, <3>1, <3>2, <3>3
  <2>8. TextsInv'
    <3>1. \A r \in activityRows : RowFits(after(r))
      BY <2>1, <2>2, <2>3 DEF LogIInv, TextsInv, RowFits
    <3>2. \A s \in activityRows' : RowFits(s)'
      BY <1>1, <2>1, <3>1 DEF RowFits
    <3> QED
      BY <1>1, <2>4, <3>2 DEF LogIInv, TextsInv, Excused
  <2>9. PageInv'
    BY <1>1, <2>4 DEF LogIInv, PageInv, PageFits, Excused
  <2> QED
    BY <2>5, <2>6, <2>7, <2>8, <2>9 DEF LogIInv
<1> QED
  BY <1>1, <1>2, <1>3

\* What is told: nothing before a search is logged, and then one patch.
LEMMA TellSends ==
    ASSUME NEW summary \in Int, NEW grown \in Int,
           AllBare(logId) \/ logId \in strayed' \/ (Fits(summary, logId) /\ Fits(grown, logId))
    PROVE  \A m \in Tell(summary, grown) : MayTell(m)
BY DEF Tell, MayTell

\* The stream of the summary.
LEMMA StreamLogs ==
    ASSUME LogIInv, SummaryToken \/ \E failed \in BOOLEAN : StreamStops(failed)
    PROVE  LogIInv'
<1>1. CASE SummaryToken
  <2>1. /\ UNCHANGED <<pageId, submits, logId, loggedIds, activityRows, answered, finding, strayed,
                       shownOf, streamOf, treeOf, whole, deeper, mail>>
        /\ textOf' = streamOf
    BY <1>1 DEF SummaryToken, digVars, submitVars
  <2>2. PageFits => PageFits'
    BY <2>1 DEF PageFits, Fits
  <2>3. PageTypeOK'
    BY <2>1, PageHas DEF PageTypeOK
  <2> QED
    BY <2>1, <2>2, <2>3, PageHas, QuietSteps
<1>2. ASSUME NEW failed \in BOOLEAN, StreamStops(failed) PROVE LogIInv'
  <2> DEFINE sent == IF Tells(textOf') THEN Tell(textOf', treeOf) ELSE {}
  <2>1. /\ UNCHANGED <<pageId, submits, logId, loggedIds, activityRows, answered, finding, strayed,
                       shownOf, treeOf, whole, deeper>>
        /\ streamOf' = NoSearch /\ textOf' \in {textOf, Failed}
        /\ mail' = mail \union sent
    BY <1>2 DEF StreamStops, digVars, submitVars
  <2>2. PageFits => PageFits'
    BY <2>1 DEF PageFits, Fits
  <2>3. PageFits /\ Tells(textOf') => Fits(textOf', logId) /\ Fits(treeOf, logId)
    BY <2>1 DEF PageFits, Tells
  <2>4. textOf' \in Int /\ treeOf' \in Int
    BY <2>1, PageHas DEF PageTypeOK
  <2>5. \A m \in sent : MayTell(m)
    <3>1. CASE Tells(textOf')
      <4>1. \/ AllBare(logId) \/ logId \in strayed'
            \/ Fits(textOf', logId) /\ Fits(treeOf', logId)
        BY <2>1, <2>3, <3>1, PageHas
      <4> QED
        BY <2>1, <2>4, <3>1, <4>1, TellSends
    <3>2. CASE ~Tells(textOf')
      BY <3>2
    <3> QED
      BY <3>1, <3>2
  <2>6. PageTypeOK'
    BY <2>1, PageHas DEF PageTypeOK
  <2> HIDE DEF sent
  <2> QED
    BY <2>1, <2>2, <2>5, <2>6, PageHas, PageSteps
<1> QED
  BY <1>1, <1>2

LEMMA AgainLogs ==
    ASSUME LogIInv, NEW typed \in BOOLEAN, SummariseAgain(typed)
    PROVE  LogIInv'
<1>1. /\ UNCHANGED <<pageId, submits, logId, loggedIds, activityRows, answered, finding, shownOf, whole, mail>>
      /\ streamOf' \in {Elsewhere, shownOf} /\ textOf' = NoSearch /\ treeOf' = NoSearch /\ deeper' = FALSE
      /\ IF streamOf' = logId THEN strayed' = strayed ELSE strayed' = strayed \union {logId}
  BY DEF SummariseAgain, Stray, submitVars
<1>2. logId \in strayed' \/ PageFits'
  BY <1>1 DEF PageFits, Fits
<1>3. PageTypeOK' /\ mail' = mail
  BY <1>1, PageHas DEF PageTypeOK
<1>4. strayed \subseteq strayed'
  BY <1>1
<1> QED
  BY <1>1, <1>2, <1>3, <1>4, QuietSteps

\* Digging starts below the root of the search, or strays.
LEMMA DigLogs ==
    ASSUME LogIInv, NEW anew \in BOOLEAN, Dig(anew)
    PROVE  LogIInv'
<1> DEFINE sent == IF anew \/ deeper THEN {} ELSE Tell(NoSearch, RootOf)
<1>1. /\ UNCHANGED <<pageId, submits, logId, loggedIds, activityRows, answered, finding, shownOf,
                     streamOf, whole>>
      /\ textOf \notin {NoSearch, Failed} /\ textOf' = NoSearch /\ deeper' = ~anew
      /\ treeOf' = IF anew THEN NoSearch ELSE RootOf
      /\ mail' = mail \union sent
      /\ IF anew THEN strayed' = strayed \union {logId} ELSE strayed' = strayed
  BY DEF Dig, Stray, submitVars
<1>2. RootOf \in Int /\ RootOf \notin {NoSearch, Failed} /\ NoSearch \in Int
  BY <1>1, PageHas DEF RootOf, PageTypeOK
<1>3. PageFits => Fits(RootOf, logId)
  BY <1>1, PageHas DEF PageFits, RootOf, PageTypeOK
<1>4. AllBare(logId) \/ logId \in strayed' \/ PageFits'
  BY <1>1, <1>3, PageHas DEF PageFits, Fits
<1>5. \A m \in sent : MayTell(m)
  <2>1. ~anew => AllBare(logId) \/ logId \in strayed' \/ (Fits(NoSearch, logId) /\ Fits(RootOf, logId))
    BY <1>1, <1>3, PageHas DEF Fits
  <2> QED
    BY <1>2, <2>1, TellSends
<1> HIDE DEF sent
<1>6. PageTypeOK'
  BY <1>1, <1>2, PageHas DEF PageTypeOK
<1>7. strayed \subseteq strayed'
  BY <1>1
<1> QED
  BY <1>1, <1>4, <1>5, <1>6, <1>7, PageSteps

LEMMA TopicLogs ==
    ASSUME LogIInv, DigAnswers \/ DigFails
    PROVE  LogIInv'
<1>1. /\ UNCHANGED <<pageId, submits, logId, loggedIds, activityRows, answered, finding, treeOf, deeper, whole>>
      /\ mail' = mail
  BY DEF DigAnswers, DigFails, submitVars
<1>2. CASE DigAnswers
  <2>1. /\ shownOf' \in {NoSearch, Elsewhere} /\ streamOf' = Elsewhere /\ textOf' = NoSearch
        /\ IF deeper THEN strayed' = strayed ELSE strayed' = strayed \union {logId}
    BY <1>2 DEF DigAnswers, Stray
  <2>2. AllBare(logId) \/ logId \in strayed' \/ PageFits'
    BY <1>1, <2>1, PageHas DEF PageFits
  <2>3. PageTypeOK'
    BY <1>1, <2>1, PageHas DEF PageTypeOK
  <2>4. strayed \subseteq strayed'
    BY <2>1
  <2> QED
    BY <1>1, <2>1, <2>2, <2>3, <2>4, PageHas, QuietSteps
<1>3. CASE DigFails
  <2>1. UNCHANGED <<shownOf, streamOf, strayed>> /\ textOf' = Failed
    BY <1>3 DEF DigFails
  <2>2. PageFits => PageFits'
    BY <1>1, <2>1 DEF PageFits
  <2>3. PageTypeOK'
    BY <1>1, <2>1, PageHas DEF PageTypeOK
  <2> QED
    BY <1>1, <2>1, <2>2, <2>3, PageHas, QuietSteps
<1> QED
  BY <1>2, <1>3

LEMMA GrowLogs ==
    ASSUME LogIInv, TreeGrows
    PROVE  LogIInv'
<1> DEFINE sent == Tell(NoSearch, RootOf)
<1>1. /\ UNCHANGED <<pageId, submits, logId, loggedIds, activityRows, answered, finding, shownOf,
                     streamOf, textOf, deeper, whole, strayed>>
      /\ treeOf # NoSearch \/ textOf \notin {NoSearch, Failed}
      /\ treeOf' = RootOf /\ mail' = mail \union sent
  BY DEF TreeGrows, digVars, submitVars
<1>2. RootOf \in Int /\ RootOf \notin {NoSearch, Failed} /\ NoSearch \in Int
  BY <1>1, PageHas DEF RootOf, PageTypeOK
<1>3. PageFits => Fits(RootOf, logId)
  BY <1>1, PageHas DEF PageFits, RootOf, PageTypeOK
<1>4. PageFits => PageFits'
  BY <1>1, <1>3 DEF PageFits
<1>5. AllBare(logId) \/ logId \in strayed' \/ (Fits(NoSearch, logId) /\ Fits(RootOf, logId))
  BY <1>1, <1>3, PageHas DEF Fits
<1>6. \A m \in sent : MayTell(m)
  BY <1>2, <1>5, TellSends
<1>7. PageTypeOK'
  BY <1>1, <1>2, PageHas DEF PageTypeOK
<1> HIDE DEF sent
<1> QED
  BY <1>1, <1>4, <1>6, <1>7, PageHas, PageSteps

\* To another node, and to the root: which has the summary of the search.
LEMMA GoLogs ==
    ASSUME LogIInv, StayThere \/ \E root \in BOOLEAN : GoTo(root)
    PROVE  LogIInv'
<1>1. CASE StayThere
  <2>1. /\ UNCHANGED <<pageId, submits, logId, loggedIds, activityRows, answered, finding, shownOf,
                       textOf, treeOf, deeper, whole, strayed>>
        /\ streamOf' = NoSearch /\ mail' = mail
    BY <1>1 DEF StayThere, digVars, submitVars
  <2>2. PageFits => PageFits'
    BY <2>1 DEF PageFits, Fits
  <2>3. PageTypeOK'
    BY <2>1, PageHas DEF PageTypeOK
  <2> QED
    BY <2>1, <2>2, <2>3, PageHas, QuietSteps
<1>2. ASSUME NEW root \in BOOLEAN, GoTo(root) PROVE LogIInv'
  <2> DEFINE sent == IF root /\ busy THEN Tell(treeOf, treeOf) ELSE {}
  <2>1. /\ UNCHANGED <<pageId, submits, logId, loggedIds, activityRows, answered, finding, treeOf,
                       whole, strayed>>
        /\ treeOf # NoSearch /\ streamOf' = NoSearch /\ deeper' = ~root
        /\ IF root THEN textOf' = treeOf /\ shownOf' = treeOf
           ELSE textOf' \in {NoSearch, Elsewhere} /\ shownOf' \in {NoSearch, Elsewhere}
        /\ mail' = mail \union sent
    BY <1>2 DEF GoTo, digVars, submitVars
  <2>2. PageFits => PageFits'
    BY <2>1 DEF PageFits, Fits
  <2>3. \A m \in sent : MayTell(m)
    <3>1. AllBare(logId) \/ logId \in strayed' \/ (Fits(treeOf, logId) /\ Fits(treeOf, logId))
      BY <2>1, PageHas DEF PageFits
    <3> QED
      BY <3>1, PageHas, TellSends DEF PageTypeOK
  <2>4. PageTypeOK'
    BY <2>1, PageHas DEF PageTypeOK
  <2> HIDE DEF sent
  <2> QED
    BY <2>1, <2>2, <2>3, <2>4, PageHas, PageSteps
<1> QED
  BY <1>1, <1>2

LEMMA RemoveLogs ==
    ASSUME LogIInv, RemoveShown
    PROVE  LogIInv'
<1>1. /\ UNCHANGED <<pageId, submits, logId, loggedIds, activityRows, answered, finding, shownOf,
                     streamOf, textOf, treeOf, whole>>
      /\ deeper' = FALSE /\ strayed' = strayed \union {logId} /\ mail' = mail
  BY DEF RemoveShown, Stray, submitVars
<1>2. logId \in strayed' /\ strayed \subseteq strayed'
  BY <1>1
<1>3. PageTypeOK'
  BY <1>1, PageHas DEF PageTypeOK
<1> QED
  BY <1>1, <1>2, <1>3, QuietSteps

\* The summary of the whole tree: that of the search, or it strays.
LEMMA WholeLogs ==
    ASSUME LogIInv, AskWhole \/ WholeAnswers \/ WholeFails
    PROVE  LogIInv'
<1>1. /\ UNCHANGED <<pageId, submits, logId, loggedIds, activityRows, answered, finding, shownOf,
                     streamOf, deeper>>
      /\ mail' = mail /\ whole' \in {treeOf, NoSearch}
  BY DEF AskWhole, WholeAnswers, WholeFails, summaryVars, submitVars
<1>2. CASE AskWhole \/ WholeFails
  <2>1. UNCHANGED <<textOf, treeOf, strayed>>
    BY <1>2 DEF AskWhole, WholeFails, summaryVars
  <2>2. PageFits => PageFits'
    BY <1>1, <2>1 DEF PageFits
  <2>3. PageTypeOK'
    BY <1>1, <2>1, PageHas DEF PageTypeOK
  <2> QED
    BY <1>1, <2>1, <2>2, <2>3, PageHas, QuietSteps
<1>3. CASE WholeAnswers
  <2>1. /\ whole # NoSearch /\ textOf' = whole
        /\ treeOf' = IF treeOf = NoSearch THEN NoSearch ELSE whole
        /\ IF whole = logId THEN strayed' = strayed ELSE strayed' = strayed \union {logId}
    BY <1>3 DEF WholeAnswers, Stray
  <2>2. AllBare(logId) \/ logId \in strayed' \/ PageFits'
    BY <1>1, <2>1, PageHas DEF PageFits, Fits
  <2>3. strayed \subseteq strayed'
    BY <2>1
  <2>4. PageTypeOK'
    BY <1>1, <2>1, PageHas DEF PageTypeOK
  <2> QED
    BY <1>1, <2>2, <2>3, <2>4, QuietSteps
<1> QED
  BY <1>2, <1>3

LEMMA ResearchLogs ==
    ASSUME LogIInv, NEW branches \in BOOLEAN, LoadResearch(branches)
    PROVE  LogIInv'
<1> DEFINE sent == (IF busy THEN Tell(Elsewhere, Elsewhere) ELSE {})
                      \union (IF branches THEN Tell(NoSearch, Elsewhere) ELSE {})
<1>1. /\ UNCHANGED <<pageId, submits, logId, loggedIds, activityRows, answered, finding, streamOf, whole>>
      /\ textOf' = Elsewhere /\ treeOf' = Elsewhere /\ shownOf' = Elsewhere /\ deeper' = FALSE
      /\ strayed' = strayed \union {logId} /\ mail' = mail \union sent
  BY DEF LoadResearch, Stray, submitVars
<1>2. logId \in strayed' /\ strayed \subseteq strayed'
  BY <1>1
<1>3. \A m \in sent : MayTell(m)
  BY <1>2, PageHas, TellSends
<1>4. PageTypeOK'
  BY <1>1, PageHas DEF PageTypeOK
<1> HIDE DEF sent
<1> QED
  BY <1>1, <1>2, <1>3, <1>4, PageSteps

LEMMA LogStep == LogIInv /\ [LogNext]_logVars => LogIInv'
<1> SUFFICES ASSUME LogIInv, [LogNext]_logVars PROVE LogIInv'
  OBVIOUS
<1>1. CASE LogSubmit
  BY <1>1, SubmitLogs
<1>2. CASE SearchBreaks
  BY <1>2, OtherSteps DEF SearchBreaks, summaryVars, digVars, submitVars
<1>3. ASSUME NEW bare \in BOOLEAN, LogAnswer(bare) PROVE LogIInv'
  BY <1>3, AnswerLogs
<1>4. CASE SummaryToken \/ \E failed \in BOOLEAN : StreamStops(failed)
  BY <1>4, StreamLogs
<1>5. ASSUME NEW typed \in BOOLEAN, SummariseAgain(typed) PROVE LogIInv'
  BY <1>5, AgainLogs
<1>6. CASE SignInOrOut
  BY <1>6, OtherSteps DEF SignInOrOut, summaryVars, digVars
<1>7. ASSUME NEW anew \in BOOLEAN, Dig(anew) PROVE LogIInv'
  BY <1>7, DigLogs
<1>8. CASE DigAnswers \/ DigFails
  BY <1>8, TopicLogs
<1>9. CASE TreeGrows
  BY <1>9, GrowLogs
<1>10. CASE StayThere \/ \E root \in BOOLEAN : GoTo(root)
  BY <1>10, GoLogs
<1>11. CASE RemoveShown
  BY <1>11, RemoveLogs
<1>12. CASE AskWhole \/ WholeAnswers \/ WholeFails
  BY <1>12, WholeLogs
<1>13. ASSUME NEW branches \in BOOLEAN, LoadResearch(branches) PROVE LogIInv'
  BY <1>13, ResearchLogs
<1>14. ASSUME NEW m \in mail, Mail(m) PROVE LogIInv'
  BY <1>14, MailLogs
<1>15. CASE Rate \/ RemoveRating
  BY <1>15, OtherSteps DEF Rate, RemoveRating, summaryVars, digVars, submitVars
<1>16. ASSUME NEW a \in asks, Rating(a) PROVE LogIInv'
  BY <1>16, MarkLogs
<1>17. ASSUME NEW ref \in starReads, StarsAnswer(ref) PROVE LogIInv'
  BY <1>17, OtherSteps DEF StarsAnswer, summaryVars, digVars, submitVars
<1>18. CASE UNCHANGED logVars
  BY <1>18, OtherSteps DEF logVars, summaryVars, digVars, submitVars
<1>19. LogNext =>
          \/ LogSubmit \/ SearchBreaks \/ \E bare \in BOOLEAN : LogAnswer(bare)
          \/ SummaryToken \/ \E failed \in BOOLEAN : StreamStops(failed)
          \/ (\E typed \in BOOLEAN : SummariseAgain(typed)) \/ SignInOrOut
          \/ (\E anew \in BOOLEAN : Dig(anew)) \/ DigAnswers \/ DigFails
          \/ TreeGrows \/ StayThere \/ (\E root \in BOOLEAN : GoTo(root)) \/ RemoveShown
          \/ AskWhole \/ WholeAnswers \/ WholeFails
          \/ \E branches \in BOOLEAN : LoadResearch(branches)
          \/ \E m \in mail : Mail(m)
          \/ Rate \/ RemoveRating
          \/ \E a \in asks : Rating(a)
          \/ \E ref \in starReads : StarsAnswer(ref)
  BY DEF LogNext
<1> QED
  BY <1>1, <1>2, <1>3, <1>4, <1>5, <1>6, <1>7, <1>8, <1>9, <1>10, <1>11, <1>12, <1>13, <1>14,
     <1>15, <1>16, <1>17, <1>18, <1>19

\* For any number of searches, topics, ratings and visits: each search that is answered
\* is logged once, and its row is given its own summary and tree, unless it found
\* nothing or the page has strayed since (performSearch, startDrilldown,
\* handleLoadResearch, logSearchActivity, update_activity).
THEOREM LogAlwaysTells == LogSpec => []LogTellsItsSearch
<1>1. LogInit => LogIInv
  <2> SUFFICES ASSUME LogInit PROVE LogIInv
    OBVIOUS
  <2>1. LogTypeOK
    BY DEF LogInit, LogTypeOK, PageTypeOK, NoSearch, NotFinding, Failed
  <2>2. CountsInv
    BY FS_EmptySet DEF LogInit, CountsInv
  <2>3. NamesInv /\ TextsInv
    BY DEF LogInit, NamesInv, TextsInv
  <2>4. PageInv
    BY DEF LogInit, PageInv, PageFits, Fits
  <2> QED
    BY <2>1, <2>2, <2>3, <2>4 DEF LogIInv
<1>2. LogIInv => LogTellsItsSearch
  <2> SUFFICES ASSUME LogIInv PROVE LogTellsItsSearch
    OBVIOUS
  <2>1. Cardinality(loggedIds) = answered
    BY DEF LogIInv, CountsInv
  <2>2. \A r, s \in activityRows : r.id = s.id \/ r.of = s.of => r = s
    BY DEF LogIInv, NamesInv
  <2>3. \A r \in activityRows :
           r.bare \/ r.id \in strayed \/ {r.summary, r.tree} \subseteq {NoSearch, r.of}
    <3> SUFFICES ASSUME NEW r \in activityRows, ~r.bare, r.id \notin strayed
                 PROVE  {r.summary, r.tree} \subseteq {NoSearch, r.of}
      OBVIOUS
    <3>1. Fits(r.summary, r.id) /\ Fits(r.tree, r.id) /\ r.of = r.id
      BY DEF LogIInv, NamesInv, TextsInv, RowFits
    <3> QED
      BY <3>1 DEF Fits
  <2> QED
    BY <2>1, <2>2, <2>3 DEF LogTellsItsSearch
<1> QED
  BY <1>1, <1>2, LogStep, PTL DEF LogSpec

-----------------------------------------------------------------------------
(* useRatings and the ratings routes                                       *)

IsAsk(a) ==
    /\ a = [ref |-> a.ref, number |-> a.number, at |-> a.at, saved |-> a.saved, of |-> a.of]
    /\ a.number \in Nat /\ a.number <= rated

AsksInv ==
    /\ rated \in Nat
    /\ \A a \in asks : IsAsk(a)
    /\ \A a, b \in asks : a.number = b.number => a = b

StoredFor(ref) == {a \in asks : a.at = "stored" /\ a.ref = ref}

\* While no answer has overtaken another: what is shown is what is stored, or the
\* answer to what was stored is due; and it will show what is stored, or another of
\* the same name is due.
StarInv ==
    ~overtaken =>
        /\ Enabled /\ pageId \notin starReads => star = Stored(pageId) \/ StoredFor(pageId) # {}
        /\ \A a \in asks : a.at = "stored" => a.saved = Stored(a.ref) \/ StoredFor(a.ref) \ {a} # {}

StarIInv == AsksInv /\ StarInv

\* Steps of the page: what is shown is read for a new name, and when it is enabled.
LEMMA ReadsFollow ==
    ASSUME StarIInv, UNCHANGED <<rated, ratings, asks, star, overtaken>>,
           Enabled' => (Enabled /\ pageId' = pageId) \/ pageId' \in starReads',
           starReads \subseteq starReads'
    PROVE  StarIInv'
<1>1. AsksInv'
  BY DEF StarIInv, AsksInv, IsAsk
<1>2. \A ref : Stored(ref)' = Stored(ref) /\ StoredFor(ref)' = StoredFor(ref)
  BY DEF Stored, StoredFor
<1>3. ASSUME ~overtaken', Enabled', pageId' \notin starReads'
      PROVE  star' = Stored(pageId)' \/ StoredFor(pageId)' # {}
  <2>1. ~overtaken /\ Enabled /\ pageId' = pageId /\ pageId \notin starReads
    BY <1>3
  <2>2. star = Stored(pageId) \/ StoredFor(pageId) # {}
    BY <2>1 DEF StarIInv, StarInv
  <2> QED
    BY <2>1, <2>2 DEF Stored, StoredFor
<1>4. ASSUME ~overtaken', NEW a \in asks', a.at = "stored"
      PROVE  a.saved = Stored(a.ref)' \/ StoredFor(a.ref)' \ {a} # {}
  <2>1. a.saved = Stored(a.ref) \/ StoredFor(a.ref) \ {a} # {}
    BY <1>4 DEF StarIInv, StarInv
  <2> QED
    BY <2>1 DEF Stored, StoredFor
<1> QED
  BY <1>1, <1>3, <1>4 DEF StarIInv, StarInv

\* An ask that has not been stored comes, goes or looks.
LEMMA AsksCome ==
    ASSUME StarIInv, UNCHANGED <<pageId, shownOf, textOf, signedIn, starKind, starReads, ratings, star, overtaken>>,
           AsksInv', \A ref : StoredFor(ref)' = StoredFor(ref), \A a \in asks' : a.at = "stored" => a \in asks
    PROVE  StarIInv'
<1>1. Enabled' = Enabled
  BY DEF Enabled
<1>2. \A ref : Stored(ref)' = Stored(ref)
  BY DEF Stored
<1>3. Stored(pageId)' = Stored(pageId) /\ StoredFor(pageId)' = StoredFor(pageId)
  BY DEF Stored, StoredFor
<1>4. ASSUME ~overtaken', NEW a \in asks', a.at = "stored"
      PROVE  a.saved = Stored(a.ref)' \/ StoredFor(a.ref)' \ {a} # {}
  <2>1. a.saved = Stored(a.ref) \/ StoredFor(a.ref) \ {a} # {}
    BY <1>4 DEF StarIInv, StarInv
  <2> QED
    BY <2>1 DEF Stored
<1> QED
  BY <1>1, <1>3, <1>4 DEF StarIInv, StarInv

LEMMA AskMoves ==
    ASSUME AsksInv, NEW a \in asks, NEW b, IsAsk(b), b.number = a.number,
           asks' = (asks \ {a}) \union {b} \/ asks' = asks \ {a}, rated' = rated
    PROVE  AsksInv' /\ (b \in asks => b = a)
BY DEF AsksInv, IsAsk

Moved(a, at, kept) == [a EXCEPT !.at = at, !.saved = kept]

LEMMA AskChanged ==
    ASSUME NEW a, IsAsk(a), NEW at, NEW kept
    PROVE  /\ IsAsk(Moved(a, at, kept))
           /\ Moved(a, at, kept).number = a.number /\ Moved(a, at, kept).ref = a.ref
           /\ Moved(a, at, kept).at = at /\ Moved(a, at, kept).saved = kept
<1> DEFINE b == [a EXCEPT !.at = at, !.saved = kept]
<1>1. b = [ref |-> a.ref, number |-> a.number, at |-> at, saved |-> kept, of |-> a.of]
  <2> DEFINE Fields == [ref : {a.ref}, number : {a.number}, at : {a.at, at}, saved : {a.saved, kept}, of : {a.of}]
  <2>1. a \in Fields
    BY DEF IsAsk
  <2>2. b \in Fields /\ b.at = at /\ b.saved = kept
    BY <2>1
  <2> HIDE DEF b
  <2> QED
    BY <2>2
<1> QED
  BY <1>1 DEF IsAsk, Moved

LEMMA RatingsShown ==
    ASSUME StarIInv, NEW a \in asks, Rating(a)
    PROVE  StarIInv'
<1>1. UNCHANGED <<pageId, shownOf, textOf, signedIn, starKind, starReads, rated>>
  BY DEF Rating, summaryVars, submitVars
<1>2. AsksInv /\ IsAsk(a)
  BY DEF StarIInv, AsksInv
<1>3. Enabled' = Enabled
  BY <1>1 DEF Enabled
<1>4. CASE RatingLooks(a)
  <2> DEFINE b == Moved(a, "looked", Stored(a.ref))
  <2>1. a.at = "sent" /\ asks' = (asks \ {a}) \union {b} /\ UNCHANGED <<ratings, star, overtaken>>
    BY <1>4 DEF RatingLooks, Moved
  <2>2. IsAsk(b) /\ b.number = a.number /\ b.at = "looked"
    BY <1>2, AskChanged
  <2> HIDE DEF b
  <2>3. AsksInv'
    BY <1>1, <1>2, <2>1, <2>2, AskMoves
  <2>4. \A ref : StoredFor(ref)' = StoredFor(ref)
    BY <2>1, <2>2 DEF StoredFor
  <2>5. \A c \in asks' : c.at = "stored" => c \in asks
    BY <2>1, <2>2
  <2> QED
    BY <1>1, <2>1, <2>3, <2>4, <2>5, AsksCome
<1>5. CASE (RatingStores(a) /\ Stored(a.ref).rid # a.saved.rid) \/ RatingIsLost(a)
  <2>1. a.at # "stored" /\ asks' = asks \ {a} /\ UNCHANGED <<ratings, star, overtaken>>
    BY <1>5 DEF RatingStores, RatingIsLost
  <2>2. AsksInv'
    BY <1>1, <1>2, <2>1, AskMoves
  <2>3. \A ref : StoredFor(ref)' = StoredFor(ref)
    BY <2>1 DEF StoredFor
  <2>4. \A c \in asks' : c \in asks
    BY <2>1
  <2> QED
    BY <1>1, <2>1, <2>2, <2>3, <2>4, AsksCome
<1>6. CASE RatingStores(a) /\ Stored(a.ref).rid = a.saved.rid
  <2> DEFINE rid == IF a.saved = NoStar THEN a.number ELSE a.saved.rid
             b == Moved(a, "stored", [rid |-> rid, score |-> a.number])
  <2>1. /\ a.at = "looked" /\ asks' = (asks \ {a}) \union {b} /\ UNCHANGED <<star, overtaken>>
        /\ ratings' = [n \in DOMAIN ratings \union {a.ref} |->
                        IF n = a.ref THEN [rid |-> rid, score |-> a.number, of |-> a.of] ELSE ratings[n]]
    BY <1>6 DEF RatingStores, Moved
  <2>2. /\ IsAsk(b) /\ b.number = a.number /\ b.at = "stored" /\ b.ref = a.ref
        /\ b.saved = [rid |-> rid, score |-> a.number]
    BY <1>2, AskChanged
  <2> HIDE DEF b, rid
  <2>3. AsksInv' /\ (b \in asks => b = a)
    BY <1>1, <1>2, <2>1, <2>2, AskMoves
  <2>4. b \notin asks
    BY <2>1, <2>2, <2>3
  <2>5. Stored(a.ref)' = [rid |-> rid, score |-> a.number]
    BY <2>1 DEF Stored
  <2>6. \A ref : ref # a.ref => Stored(ref)' = Stored(ref)
    BY <2>1 DEF Stored
  <2>7. \A ref : StoredFor(ref)' = IF ref = a.ref THEN StoredFor(ref) \union {b} ELSE StoredFor(ref)
    BY <2>1, <2>2 DEF StoredFor
  <2>8. ASSUME ~overtaken', Enabled', pageId' \notin starReads'
        PROVE  star' = Stored(pageId)' \/ StoredFor(pageId)' # {}
    <3>1. star = Stored(pageId) \/ StoredFor(pageId) # {}
      BY <1>1, <1>3, <2>1, <2>8 DEF StarIInv, StarInv
    <3>2. CASE pageId = a.ref
      BY <1>1, <2>1, <2>2, <3>2 DEF StoredFor
    <3>3. CASE pageId # a.ref
      <4>1. Stored(pageId)' = Stored(pageId) /\ StoredFor(pageId)' = StoredFor(pageId)
        BY <1>1, <2>1, <2>2, <3>3 DEF Stored, StoredFor
      <4> QED
        BY <2>1, <3>1, <4>1
    <3> QED
      BY <3>2, <3>3
  <2>9. ASSUME ~overtaken', NEW c \in asks', c.at = "stored"
        PROVE  c.saved = Stored(c.ref)' \/ StoredFor(c.ref)' \ {c} # {}
    <3>1. CASE c = b
      <4>1. c.ref = a.ref /\ c.saved = [rid |-> rid, score |-> a.number]
        BY <2>2, <3>1
      <4> QED
        BY <2>1, <4>1 DEF Stored
    <3>2. CASE c # b
      <4>1. c \in asks /\ (c.saved = Stored(c.ref) \/ StoredFor(c.ref) \ {c} # {})
        BY <2>1, <2>9, <3>2 DEF StarIInv, StarInv
      <4>2. CASE c.ref = a.ref
        BY <2>7, <3>2, <4>2
      <4>3. CASE c.ref # a.ref
        BY <2>6, <2>7, <4>1, <4>3
      <4> QED
        BY <4>2, <4>3
    <3> QED
      BY <3>1, <3>2
  <2> QED
    BY <2>3, <2>8, <2>9 DEF StarIInv, StarInv
<1>7. CASE RatingAnswers(a)
  <2>1. /\ a.at = "stored" /\ asks' = asks \ {a} /\ star' = a.saved /\ ratings' = ratings
        /\ overtaken' = (overtaken \/ a.ref # pageId \/ \E b \in asks \ {a} : b.ref = a.ref)
    BY <1>7 DEF RatingAnswers
  <2>2. AsksInv'
    BY <1>1, <1>2, <2>1, AskMoves
  <2>3. ASSUME ~overtaken' PROVE /\ ~overtaken /\ a.ref = pageId /\ \A b \in asks' : b.ref # pageId
                                 /\ a.saved = Stored(pageId)
    <3>1. ~overtaken /\ a.ref = pageId /\ \A b \in asks' : b.ref # pageId
      BY <2>1, <2>3
    <3>2. a.saved = Stored(a.ref) \/ StoredFor(a.ref) \ {a} # {}
      BY <2>1, <3>1 DEF StarIInv, StarInv
    <3>3. StoredFor(a.ref) \ {a} = {}
      BY <2>1, <3>1 DEF StoredFor
    <3> QED
      BY <3>1, <3>2, <3>3
  <2>4. Stored(pageId)' = Stored(pageId)
    BY <1>1, <2>1 DEF Stored
  <2>5. ASSUME ~overtaken', NEW c \in asks', c.at = "stored"
        PROVE  c.saved = Stored(c.ref)' \/ StoredFor(c.ref)' \ {c} # {}
    <3>1. c \in asks /\ c.ref # a.ref /\ ~overtaken
      BY <2>1, <2>3, <2>5
    <3>2. c.saved = Stored(c.ref) \/ StoredFor(c.ref) \ {c} # {}
      BY <2>5, <3>1 DEF StarIInv, StarInv
    <3>3. Stored(c.ref)' = Stored(c.ref)
      BY <2>1 DEF Stored
    <3>4. StoredFor(c.ref)' = StoredFor(c.ref)
      BY <2>1, <3>1 DEF StoredFor
    <3> QED
      BY <3>2, <3>3, <3>4
  <2> QED
    BY <2>1, <2>2, <2>3, <2>4, <2>5 DEF StarIInv, StarInv
<1> QED
  BY <1>4, <1>5, <1>6, <1>7 DEF Rating, RatingStores

LEMMA RemovalShown ==
    ASSUME StarIInv, RemoveRating
    PROVE  StarIInv'
<1> DEFINE kept == {m \in DOMAIN ratings : ratings[m].rid # star.rid}
<1>1. /\ UNCHANGED <<pageId, shownOf, textOf, signedIn, starKind, asks, starReads, rated>>
      /\ Enabled /\ star # NoStar /\ star' = NoStar
      /\ ratings' = [n \in kept |-> ratings[n]]
      /\ overtaken' = (overtaken \/ \E a \in asks : a.at = "stored" /\ a.saved.rid = star.rid)
  BY DEF RemoveRating, summaryVars, submitVars
<1>2. AsksInv'
  BY <1>1 DEF StarIInv, AsksInv, IsAsk
<1>3. \A ref : IF Stored(ref).rid = star.rid THEN Stored(ref)' = NoStar ELSE Stored(ref)' = Stored(ref)
  BY <1>1 DEF Stored, NoStar
<1>4. ASSUME ~overtaken', Enabled', pageId' \notin starReads'
      PROVE  star' = Stored(pageId)' \/ StoredFor(pageId)' # {}
  <2>1. ~overtaken /\ pageId \notin starReads
    BY <1>1, <1>4
  <2>2. star = Stored(pageId) \/ StoredFor(pageId) # {}
    BY <1>1, <2>1 DEF StarIInv, StarInv
  <2>3. StoredFor(pageId)' = StoredFor(pageId)
    BY <1>1 DEF StoredFor
  <2>4. star = Stored(pageId) => Stored(pageId)' = NoStar
    BY <1>1 DEF Stored, NoStar
  <2> QED
    BY <1>1, <2>2, <2>3, <2>4
<1>5. ASSUME ~overtaken', NEW a \in asks', a.at = "stored"
      PROVE  a.saved = Stored(a.ref)' \/ StoredFor(a.ref)' \ {a} # {}
  <2>1. a \in asks /\ ~overtaken /\ a.saved.rid # star.rid
    BY <1>1, <1>5
  <2>2. a.saved = Stored(a.ref) \/ StoredFor(a.ref) \ {a} # {}
    BY <1>5, <2>1 DEF StarIInv, StarInv
  <2>3. StoredFor(a.ref)' = StoredFor(a.ref)
    BY <1>1 DEF StoredFor
  <2> QED
    BY <1>3, <2>1, <2>2, <2>3
<1> QED
  BY <1>2, <1>4, <1>5 DEF StarIInv, StarInv

LEMMA StarStep == StarIInv /\ [LogNext]_logVars => StarIInv'
<1> SUFFICES ASSUME StarIInv, [LogNext]_logVars PROVE StarIInv'
  OBVIOUS
<1>1. CASE LogSubmit \/ SignInOrOut \/ SummaryToken \/ DigAnswers \/ DigFails \/ WholeAnswers
  <2>1. UNCHANGED <<rated, ratings, asks, star, overtaken>> /\ ReadStars
    BY <1>1 DEF LogSubmit, SignInOrOut, SummaryToken, DigAnswers, DigFails, WholeAnswers, ratingVars, submitVars
  <2> QED
    BY <2>1, ReadsFollow DEF ReadStars
<1>2. ASSUME NEW b \in BOOLEAN,
             \/ LogAnswer(b) \/ StreamStops(b) \/ SummariseAgain(b)
             \/ Dig(b) \/ GoTo(b) \/ LoadResearch(b)
      PROVE  StarIInv'
  <2>1. UNCHANGED <<rated, ratings, asks, star, overtaken>> /\ ReadStars
    BY <1>2 DEF LogAnswer, StreamStops, SummariseAgain, Dig, GoTo, LoadResearch, ratingVars, submitVars
  <2> QED
    BY <2>1, ReadsFollow DEF ReadStars
<1>3. ASSUME UNCHANGED <<pageId, shownOf, textOf, signedIn, starKind, starReads, rated, ratings, asks, star, overtaken>>
      PROVE  StarIInv'
  BY <1>3, ReadsFollow DEF Enabled
<1>4. CASE \/ SearchBreaks \/ TreeGrows \/ StayThere \/ RemoveShown \/ AskWhole \/ WholeFails
          \/ UNCHANGED logVars
  BY <1>3, <1>4 DEF SearchBreaks, TreeGrows, StayThere, RemoveShown, AskWhole, WholeFails, logVars,
                    summaryVars, ratingVars, submitVars
<1>5. ASSUME NEW m \in mail, Mail(m) PROVE StarIInv'
  BY <1>3, <1>5 DEF Mail, summaryVars, ratingVars, submitVars
<1>6. CASE Rate
  <2>1. /\ UNCHANGED <<pageId, shownOf, textOf, signedIn, starKind, starReads, ratings, star, overtaken>>
        /\ rated' = rated + 1 /\ asks' = asks \union {NewAsk}
    BY <1>6 DEF Rate, summaryVars
  <2>2. rated \in Nat /\ NewAsk.number = rated + 1 /\ NewAsk.at = "sent"
        /\ NewAsk = [ref |-> NewAsk.ref, number |-> NewAsk.number, at |-> NewAsk.at, saved |-> NewAsk.saved,
                     of |-> NewAsk.of]
    BY DEF NewAsk, StarIInv, AsksInv
  <2>3. \A a \in asks : a.number \in Nat /\ a.number <= rated
                        /\ a = [ref |-> a.ref, number |-> a.number, at |-> a.at, saved |-> a.saved, of |-> a.of]
    BY DEF StarIInv, AsksInv, IsAsk
  <2>4. AsksInv'
    <3>1. rated' \in Nat
      BY <2>1, <2>2
    <3>2. \A a \in asks' : IsAsk(a)'
      BY <2>1, <2>2, <2>3 DEF IsAsk
    <3>3. \A a, b \in asks' : a.number = b.number => a = b
      BY <2>1, <2>2, <2>3 DEF StarIInv, AsksInv
    <3> QED
      BY <3>1, <3>2, <3>3 DEF AsksInv
  <2>5. \A ref : StoredFor(ref)' = StoredFor(ref)
    BY <2>1, <2>2 DEF StoredFor
  <2>6. \A a \in asks' : a.at = "stored" => a \in asks
    BY <2>1, <2>2
  <2> QED
    BY <2>1, <2>4, <2>5, <2>6, AsksCome
<1>7. CASE RemoveRating
  BY <1>7, RemovalShown
<1>8. ASSUME NEW a \in asks, Rating(a) PROVE StarIInv'
  BY <1>8, RatingsShown
<1>9. ASSUME NEW ref \in starReads, StarsAnswer(ref) PROVE StarIInv'
  <2>1. /\ UNCHANGED <<pageId, shownOf, textOf, signedIn, starKind, ratings, asks, rated>>
        /\ \/ /\ star' = IF signedIn THEN Stored(ref) ELSE NoStar
              /\ overtaken' = ~(ref = pageId /\ signedIn /\ (overtaken => asks = {}))
           \/ overtaken' = TRUE
    BY <1>9 DEF StarsAnswer, summaryVars, submitVars
  <2>2. AsksInv'
    BY <2>1 DEF StarIInv, AsksInv, IsAsk
  <2>3. ASSUME ~overtaken' PROVE star' = Stored(pageId)' /\ (~overtaken \/ asks = {})
    <3>1. star' = Stored(pageId) /\ (~overtaken \/ asks = {})
      BY <2>1, <2>3
    <3> QED
      BY <2>1, <3>1 DEF Stored
  <2>4. ASSUME ~overtaken', NEW a \in asks', a.at = "stored"
        PROVE  a.saved = Stored(a.ref)' \/ StoredFor(a.ref)' \ {a} # {}
    <3>1. ~overtaken /\ a \in asks
      BY <2>1, <2>3, <2>4
    <3>2. a.saved = Stored(a.ref) \/ StoredFor(a.ref) \ {a} # {}
      BY <2>4, <3>1 DEF StarIInv, StarInv
    <3> QED
      BY <2>1, <3>2 DEF Stored, StoredFor
  <2> QED
    BY <2>2, <2>3, <2>4 DEF StarIInv, StarInv
<1> QED
  BY <1>1, <1>2, <1>4, <1>5, <1>6, <1>7, <1>8, <1>9 DEF LogNext

\* For any number of searches and stars and either kind of them: the star that is
\* shown is the one stored under the name of the page, when nothing is under way and
\* no answer overtook another (useRatings).
THEOREM StarsAlwaysStored == LogSpec => []StarsAreStored
<1>1. LogInit => StarIInv
  <2> SUFFICES ASSUME LogInit PROVE StarIInv
    OBVIOUS
  <2>1. AsksInv
    BY DEF LogInit, AsksInv
  <2>2. StarInv
    BY DEF LogInit, StarInv, Enabled
  <2> QED
    BY <2>1, <2>2 DEF StarIInv
<1>2. StarIInv => StarsAreStored
  BY DEF StarIInv, StarInv, StarsAreStored, StoredFor
<1> QED
  BY <1>1, <1>2, StarStep, PTL DEF LogSpec

-----------------------------------------------------------------------------
(* services/assistant: the numbers of the sources of a thread               *)

Mark == [chunk : Chunks, index : Nat]
ACall == [at : {"idle", "searching", "testing", "numbering"}, hits : Seq(Chunks), shown : Seq(Nat)]

TurnTypes ==
    /\ turn \in Nat
    /\ asking \in BOOLEAN
    /\ count \in Nat
    /\ call \in [ToolCalls -> ACall]
    /\ messages \in Seq(SUBSET Mark)

\* numbered from 1 without gaps, one number for a chunk and one chunk for a number
WellNumbered(S) ==
    /\ S \in SUBSET Mark
    /\ IsFiniteSet(S)
    /\ {s.index : s \in S} = 1 .. Cardinality(S)
    /\ \A r, s \in S : (r.index = s.index) <=> (r.chunk = s.chunk)

OneCall ==
    /\ \A c, d \in ToolCalls : call[c].at # "idle" /\ call[d].at # "idle" => c = d
    /\ ~asking => \A c \in ToolCalls : call[c].at = "idle"

\* each answer keeps the sources of the ones before it
ThreadInv ==
    /\ \A i \in 1 .. Len(messages) : WellNumbered(messages[i])
    /\ \A i, j \in 1 .. Len(messages) : i <= j => messages[i] \subseteq messages[j]

LastSources == IF messages = <<>> THEN {} ELSE messages[Len(messages)]
Sources == prior \union numbered

\* the count is ahead of the sources while a call is between taking its number
\* and writing it down
SourcesInv ==
    asking =>
      /\ prior = LastSources
      /\ WellNumbered(Sources)
      /\ seen = {s.chunk : s \in Sources}
      /\ (\A c \in ToolCalls : call[c].at # "numbering") => count = Cardinality(Sources)
      /\ \A c \in ToolCalls : call[c].at = "numbering" =>
            /\ call[c].hits # <<>>
            /\ Head(call[c].hits) \notin seen
            /\ count = Cardinality(Sources) + 1

\* what was ever numbered, if all of it was stored
CitedInv == ~unkept => cited = IF asking THEN Sources ELSE LastSources

Apart == TurnTypes /\ OneCall /\ ThreadInv /\ SourcesInv
InTurn == ~overlap /\ ~restarted

TurnIInv ==
    /\ overlap \in BOOLEAN /\ restarted \in BOOLEAN /\ unkept \in BOOLEAN
    /\ InTurn => Apart /\ CitedInv

LEMMA SourcesGrow ==
    ASSUME NEW S, WellNumbered(S), NEW chunk \in Chunks, chunk \notin {s.chunk : s \in S}
    PROVE  /\ WellNumbered(S \union {[chunk |-> chunk, index |-> Cardinality(S) + 1]})
           /\ Cardinality(S \union {[chunk |-> chunk, index |-> Cardinality(S) + 1]})
                = Cardinality(S) + 1
<1> DEFINE m == Cardinality(S)
           new == [chunk |-> chunk, index |-> m + 1]
<1>1. m \in Nat
  BY FS_CardinalityType DEF WellNumbered
<1>2. new \notin S /\ new \in Mark /\ new.chunk = chunk /\ new.index = m + 1
  BY <1>1 DEF Mark
<1>3. IsFiniteSet(S \union {new}) /\ Cardinality(S \union {new}) = m + 1
  BY <1>2, FS_AddElement DEF WellNumbered
<1>4. {s.index : s \in S \union {new}} = {s.index : s \in S} \union {m + 1}
  BY <1>2
<1>5. {s.index : s \in S \union {new}} = 1 .. m + 1
  BY <1>1, <1>4 DEF WellNumbered
<1>6. \A s \in S : s.chunk # chunk /\ s.index # m + 1
  <2>1. \A s \in S : s.index \in 1 .. m
    BY DEF WellNumbered
  <2> QED
    BY <1>1, <2>1
<1>7. \A r, s \in S \union {new} : (r.index = s.index) <=> (r.chunk = s.chunk)
  BY <1>2, <1>6 DEF WellNumbered
<1> QED
  BY <1>2, <1>3, <1>5, <1>7 DEF WellNumbered

LEMMA LastIsWellNumbered ==
    ASSUME TurnTypes, ThreadInv
    PROVE  WellNumbered(LastSources)
<1>1. CASE messages = <<>>
  <2>1. LastSources = {}
    BY <1>1 DEF LastSources
  <2>2. IsFiniteSet({}) /\ Cardinality({}) = 0
    BY FS_EmptySet
  <2>3. 1 .. 0 = {}
    OBVIOUS
  <2> QED
    BY <2>1, <2>2, <2>3 DEF WellNumbered
<1>2. CASE messages # <<>>
  BY <1>2 DEF TurnTypes, ThreadInv, LastSources
<1> QED
  BY <1>1, <1>2

LEMMA AllAreInTheLast ==
    ASSUME TurnTypes, ThreadInv
    PROVE  UNION ToSet(messages) = LastSources
<1>1. UNION ToSet(messages) = UNION {messages[i] : i \in 1 .. Len(messages)}
  BY DEF TurnTypes, ToSet
<1>2. CASE messages = <<>>
  BY <1>1, <1>2 DEF LastSources
<1>3. CASE messages # <<>>
  <2>1. Len(messages) \in 1 .. Len(messages) /\ LastSources = messages[Len(messages)]
    BY <1>3 DEF TurnTypes, LastSources
  <2>2. \A i \in 1 .. Len(messages) : messages[i] \subseteq LastSources
    BY <2>1 DEF TurnTypes, ThreadInv
  <2> QED
    BY <1>1, <2>1, <2>2
<1> QED
  BY <1>2, <1>3

\* _extract_prior_sources finds the sources of the last answer.
LEMMA HistoryIsTheLast ==
    ASSUME TurnTypes, ThreadInv
    PROVE  History = LastSources
<1> DEFINE at(i) == {n \in 1 .. Len(messages) : \E s \in messages[n] : s.index = i}
           last(i) == IF at(i) # {} THEN Max(at(i)) ELSE 0
<1>1. History = {s \in UNION ToSet(messages) : s \in messages[last(s.index)]}
  BY DEF History, SelectLastInSeq
<1>2. ASSUME NEW s \in LastSources PROVE messages[last(s.index)] = LastSources
  <2>1. messages # <<>> /\ LastSources = messages[Len(messages)]
    BY <1>2 DEF LastSources
  <2>2. Len(messages) \in at(s.index)
    BY <2>1 DEF TurnTypes
  <2>3. \A n \in at(s.index) : n \in Nat /\ n <= Len(messages)
    BY DEF TurnTypes
  <2>4. Max(at(s.index)) = Len(messages)
    <3> DEFINE I == at(s.index)
    <3>1. Len(messages) \in I /\ \A n \in I : n \in Nat /\ Len(messages) >= n
      BY <2>2, <2>3 DEF TurnTypes
    <3> HIDE DEF I
    <3>2. Max(I) \in I /\ \A n \in I : Max(I) >= n
      BY <3>1 DEF Max
    <3>3. Max(I) = Len(messages)
      BY <3>1, <3>2, <3>3 DEF TurnTypes
    <3> QED
      BY <3>3 DEF I
  <2> QED
    BY <2>1, <2>2, <2>4
<1> QED
  BY <1>1, <1>2, AllAreInTheLast

LEMMA CountGoesOn ==
    ASSUME NEW S, WellNumbered(S)
    PROVE  CountedFrom(S) = Cardinality(S)
<1> DEFINE m == Cardinality(S)
           I == {s.index : s \in S} \union {0}
<1>1. m \in Nat
  BY FS_CardinalityType DEF WellNumbered
<1>2. I = 0 .. m
  BY <1>1 DEF WellNumbered
<1>3. m \in I /\ \A n \in I : n \in Nat /\ m >= n
  BY <1>1, <1>2
<1>4. CountedFrom(S) = Max(I)
  BY DEF CountedFrom
<1> HIDE DEF m, I
<1>5. Max(I) \in I /\ \A n \in I : Max(I) >= n
  BY <1>3 DEF Max
<1> QED
  BY <1>3, <1>4, <1>5 DEF m

\* What a call does to its own record, and the calls that are not idle.
LEMMA CallChanges ==
    ASSUME TurnTypes, OneCall, asking, NEW c \in ToolCalls, NEW r \in ACall,
           call' = [call EXCEPT ![c] = r], asking' = asking,
           \A d \in ToolCalls \ {c} : call[d].at = "idle"
    PROVE  /\ call' \in [ToolCalls -> ACall]
           /\ OneCall'
           /\ call'[c] = r
           /\ \A d \in ToolCalls \ {c} : call'[d].at = "idle"
<1>1. /\ call' \in [ToolCalls -> ACall]
      /\ call'[c] = r
      /\ \A d \in ToolCalls \ {c} : call'[d] = call[d]
  BY DEF TurnTypes
<1> QED
  BY <1>1 DEF OneCall

LEMMA TurnBegins ==
    ASSUME TurnIInv, NEW read \in BOOLEAN, BeginTurn(read), InTurn, ~restarted'
    PROVE  Apart'
<1>1. /\ Apart /\ ~asking /\ asking' = TRUE /\ numbered' = {} /\ prior' = History
      /\ turn' = turn + 1
      /\ seen' = {s.chunk : s \in History} /\ count' = CountedFrom(History)
      /\ UNCHANGED <<call, messages>>
  BY DEF TurnIInv, InTurn, BeginTurn
<1>2. TurnTypes /\ OneCall /\ ThreadInv /\ SourcesInv
  BY <1>1 DEF Apart
<1>3. prior' = LastSources /\ LastSources' = LastSources /\ Sources' = LastSources
  BY <1>1, <1>2, HistoryIsTheLast DEF LastSources, Sources
<1>4. WellNumbered(LastSources)
  BY <1>2, LastIsWellNumbered
<1>5. count' = Cardinality(LastSources) /\ seen' = {s.chunk : s \in LastSources}
  BY <1>1, <1>2, <1>4, HistoryIsTheLast, CountGoesOn
<1>6. Cardinality(LastSources) \in Nat
  BY <1>4, FS_CardinalityType DEF WellNumbered
<1>7. TurnTypes'
  BY <1>1, <1>2, <1>5, <1>6 DEF TurnTypes
<1>8. \A c \in ToolCalls : call'[c].at = "idle"
  BY <1>1, <1>2 DEF OneCall
<1>9. OneCall' /\ ThreadInv'
  BY <1>1, <1>2, <1>8 DEF OneCall, ThreadInv
<1>10. SourcesInv'
  BY <1>3, <1>4, <1>5, <1>8 DEF SourcesInv
<1> QED
  BY <1>7, <1>9, <1>10 DEF Apart

\* An action of a call leaves the thread alone.
LEMMA ThreadStays ==
    ASSUME TurnTypes, ThreadInv, SourcesInv, asking, asking' = asking,
           UNCHANGED <<turn, prior, messages>>
    PROVE  /\ ThreadInv'
           /\ prior' = LastSources'
           /\ turn' \in Nat /\ asking' \in BOOLEAN /\ messages' \in Seq(SUBSET Mark)
BY DEF ThreadInv, SourcesInv, LastSources, TurnTypes

LEMMA SearchBegins ==
    ASSUME TurnIInv, NEW c \in ToolCalls, Search(c), InTurn, ~overlap'
    PROVE  Apart'
<1>1. /\ Apart /\ asking /\ asking' = asking
      /\ \A d \in ToolCalls : call[d].at = "idle"
      /\ call' = [call EXCEPT ![c] = [NoCall EXCEPT !.at = "searching"]]
      /\ UNCHANGED <<turn, asking, asked, numbered, seen, count, prior, messages>>
  BY DEF TurnIInv, InTurn, Search
<1>2. TurnTypes /\ OneCall /\ ThreadInv /\ SourcesInv
  BY <1>1 DEF Apart
<1> DEFINE r == [NoCall EXCEPT !.at = "searching"]
<1>3. r = [at |-> "searching", hits |-> <<>>, shown |-> <<>>]
  BY DEF NoCall
<1>4. r \in ACall /\ r.at = "searching"
  <2> HIDE DEF r
  <2> QED
    BY <1>3 DEF ACall
<1> HIDE DEF r
<1>5. /\ call' \in [ToolCalls -> ACall] /\ OneCall' /\ call'[c] = r
      /\ \A d \in ToolCalls \ {c} : call'[d].at = "idle"
  BY <1>1, <1>2, <1>4, CallChanges DEF r
<1>6. \A d \in ToolCalls : call'[d].at # "numbering" /\ call[d].at # "numbering"
  BY <1>1, <1>4, <1>5
<1>7. TurnTypes'
  BY <1>1, <1>2, <1>5 DEF TurnTypes
<1>8. SourcesInv'
  BY <1>1, <1>2, <1>6, ThreadStays DEF SourcesInv, Sources
<1> QED
  BY <1>1, <1>2, <1>5, <1>7, <1>8, ThreadStays DEF Apart

\* A call that was not idle is the only one.
LEMMA OthersAreIdle ==
    ASSUME OneCall, NEW c \in ToolCalls, call[c].at # "idle"
    PROVE  asking /\ \A d \in ToolCalls \ {c} : call[d].at = "idle"
BY DEF OneCall

\* A call that takes no number leaves the sources as they were.
LEMMA CallMovesOn ==
    ASSUME TurnIInv, NEW c \in ToolCalls, InTurn, NEW r \in ACall,
           call[c].at \notin {"idle", "numbering"}, r.at # "numbering",
           call' = [call EXCEPT ![c] = r],
           UNCHANGED <<turn, asking, numbered, seen, count, prior, messages>>
    PROVE  Apart'
<1>1. TurnTypes /\ OneCall /\ ThreadInv /\ SourcesInv
  BY DEF TurnIInv, InTurn, Apart
<1>2. asking /\ asking' = asking /\ \A d \in ToolCalls \ {c} : call[d].at = "idle"
  BY <1>1, OthersAreIdle
<1>3. /\ call' \in [ToolCalls -> ACall] /\ OneCall' /\ call'[c] = r
      /\ \A d \in ToolCalls \ {c} : call'[d].at = "idle"
  BY <1>1, <1>2, CallChanges
<1>4. \A d \in ToolCalls : call'[d].at # "numbering" /\ call[d].at # "numbering"
  BY <1>2, <1>3
<1>5. TurnTypes'
  BY <1>1, <1>3 DEF TurnTypes
<1>6. SourcesInv'
  BY <1>1, <1>2, <1>4, ThreadStays DEF SourcesInv, Sources
<1> QED
  BY <1>1, <1>2, <1>3, <1>5, <1>6, ThreadStays DEF Apart

Given(old, at, hits) == [old EXCEPT !.at = at, !.hits = hits]
Shown(old, hits, shown) == [old EXCEPT !.hits = hits, !.shown = shown]

LEMMA FieldsSet ==
    ASSUME NEW old \in ACall, NEW at, NEW hits, NEW shown
    PROVE  /\ Given(old, at, hits) = [at |-> at, hits |-> hits, shown |-> old.shown]
           /\ Shown(old, hits, shown) = [at |-> old.at, hits |-> hits, shown |-> shown]
<1> DEFINE Fields == [at : {old.at, at}, hits : {old.hits, hits}, shown : {old.shown, shown}]
           one == [old EXCEPT !.at = at, !.hits = hits]
           two == [old EXCEPT !.hits = hits, !.shown = shown]
<1>1. old \in Fields
  BY DEF ACall
<1>2. one \in Fields /\ one.at = at /\ one.hits = hits /\ one.shown = old.shown
  BY <1>1
<1>3. two \in Fields /\ two.at = old.at /\ two.hits = hits /\ two.shown = shown
  BY <1>1
<1> HIDE DEF one, two
<1>4. one = [at |-> at, hits |-> hits, shown |-> old.shown]
  BY <1>2
<1>5. two = [at |-> old.at, hits |-> hits, shown |-> shown]
  BY <1>3
<1> QED
  BY <1>4, <1>5 DEF one, two, Given, Shown

LEMMA SearchAnswered ==
    ASSUME TurnIInv, NEW c \in ToolCalls, NEW hits \in Results, Answered(c, hits), InTurn
    PROVE  Apart'
<1>1. TurnTypes /\ call[c] \in ACall /\ call[c].at = "searching"
  BY DEF TurnIInv, InTurn, Apart, TurnTypes, Answered
<1>2. hits \in Seq(Chunks)
  BY TurnAssumption DEF Results
<1> DEFINE r == [at |-> "testing", hits |-> hits, shown |-> call[c].shown]
<1>3. r \in ACall /\ r.at = "testing"
  BY <1>1, <1>2 DEF ACall
<1>4. call' = [call EXCEPT ![c] = r]
  <2> DEFINE old == call[c]
  <2>1. call' = [call EXCEPT ![c] = [old EXCEPT !.at = "testing", !.hits = hits]]
    BY DEF Answered
  <2>2. r = Given(old, "testing", hits)
    BY <1>1, FieldsSet
  <2> HIDE DEF old, r
  <2> QED
    BY <2>1, <2>2 DEF Given
<1>5. UNCHANGED <<turn, asking, numbered, seen, count, prior, messages>>
  BY DEF Answered
<1> HIDE DEF r
<1> QED
  BY <1>1, <1>3, <1>4, <1>5, CallMovesOn

LEMMA HitIsKnown ==
    ASSUME TurnIInv, NEW c \in ToolCalls, Known(c), InTurn
    PROVE  Apart'
<1>1. TurnTypes /\ call[c] \in ACall /\ call[c].at = "testing" /\ call[c].hits # <<>>
  BY DEF TurnIInv, InTurn, Apart, TurnTypes, Known
<1> DEFINE r == [at |-> "testing", hits |-> Tail(call[c].hits), shown |-> Append(call[c].shown, 0)]
<1>2. Tail(call[c].hits) \in Seq(Chunks) /\ Append(call[c].shown, 0) \in Seq(Nat)
  BY <1>1 DEF ACall
<1>3. r \in ACall /\ r.at = "testing"
  BY <1>2 DEF ACall
<1>4. call' = [call EXCEPT ![c] = r]
  <2> DEFINE old == call[c]
  <2>1. call' = [call EXCEPT ![c] = [old EXCEPT !.hits = Tail(@), !.shown = Append(@, 0)]]
    BY DEF Known
  <2>2. r = Shown(old, Tail(old.hits), Append(old.shown, 0))
    <3>1. \A hits, shown : Shown(old, hits, shown) = [at |-> old.at, hits |-> hits, shown |-> shown]
      BY <1>1, FieldsSet
    <3>2. Shown(old, Tail(old.hits), Append(old.shown, 0))
            = [at |-> old.at, hits |-> Tail(old.hits), shown |-> Append(old.shown, 0)]
      BY <3>1
    <3> QED
      BY <1>1, <3>2
  <2> HIDE DEF old, r
  <2> QED
    BY <2>1, <2>2 DEF Shown
<1>5. UNCHANGED <<turn, asking, numbered, seen, count, prior, messages>>
  BY DEF Known
<1> HIDE DEF r
<1> QED
  BY <1>1, <1>3, <1>4, <1>5, CallMovesOn

LEMMA CallAnswers ==
    ASSUME TurnIInv, NEW c \in ToolCalls, Answer(c), InTurn
    PROVE  Apart'
<1>1. NoCall \in ACall /\ NoCall.at = "idle"
  BY DEF NoCall, ACall
<1>2. /\ call[c].at = "testing" /\ call' = [call EXCEPT ![c] = NoCall]
      /\ UNCHANGED <<turn, asking, numbered, seen, count, prior, messages>>
  BY DEF Answer
<1> QED
  BY <1>1, <1>2, CallMovesOn

LEMMA NumberTaken ==
    ASSUME TurnIInv, NEW c \in ToolCalls, NextNumber(c), InTurn
    PROVE  Apart'
<1>1. /\ TurnTypes /\ OneCall /\ ThreadInv /\ SourcesInv
      /\ call[c] \in ACall /\ call[c].at = "testing" /\ call[c].hits # <<>>
      /\ Head(call[c].hits) \notin seen /\ count' = count + 1
      /\ UNCHANGED <<turn, asking, asked, numbered, seen, prior, messages, overlap>>
  BY DEF TurnIInv, InTurn, Apart, TurnTypes, NextNumber
<1> DEFINE r == [at |-> "numbering", hits |-> call[c].hits, shown |-> call[c].shown]
<1>2. r \in ACall /\ r.at = "numbering" /\ r.hits = call[c].hits
  BY <1>1 DEF ACall
<1>3. call' = [call EXCEPT ![c] = r]
  <2> DEFINE old == call[c]
  <2>1. call' = [call EXCEPT ![c] = [old EXCEPT !.at = "numbering"]]
    BY DEF NextNumber
  <2>2. r = [old EXCEPT !.at = "numbering"]
    BY <1>1 DEF ACall
  <2> HIDE DEF old, r
  <2> QED
    BY <2>1, <2>2
<1> HIDE DEF r
<1>4. asking /\ asking' = asking /\ \A d \in ToolCalls \ {c} : call[d].at = "idle"
  BY <1>1, OthersAreIdle
<1>5. /\ call' \in [ToolCalls -> ACall] /\ OneCall' /\ call'[c] = r
      /\ \A d \in ToolCalls \ {c} : call'[d].at = "idle"
  BY <1>1, <1>2, <1>3, <1>4, CallChanges
<1>6. \A d \in ToolCalls : call[d].at # "numbering"
  BY <1>1, <1>4
<1>7. /\ WellNumbered(Sources) /\ Sources' = Sources /\ seen' = {s.chunk : s \in Sources}
      /\ count' = Cardinality(Sources) + 1
  BY <1>1, <1>4, <1>6 DEF SourcesInv, Sources
<1>8. TurnTypes'
  BY <1>1, <1>5 DEF TurnTypes
<1>9. \A d \in ToolCalls : call'[d].at = "numbering" => d = c
  BY <1>5
<1>10. /\ call'[c].at = "numbering" /\ call'[c].hits # <<>> /\ Head(call'[c].hits) \notin seen'
  BY <1>1, <1>2, <1>5
<1>11. SourcesInv'
  BY <1>1, <1>4, <1>7, <1>9, <1>10, ThreadStays DEF SourcesInv
<1> QED
  BY <1>1, <1>4, <1>5, <1>8, <1>11, ThreadStays DEF Apart

LEMMA HitIsNumbered ==
    ASSUME TurnIInv, NEW c \in ToolCalls, Number(c), InTurn
    PROVE  Apart'
<1> DEFINE chunk == Head(call[c].hits)
           new == [chunk |-> chunk, index |-> count]
<1>1. /\ TurnTypes /\ OneCall /\ ThreadInv /\ SourcesInv
      /\ call[c] \in ACall /\ call[c].at = "numbering"
      /\ numbered' = numbered \union {new} /\ seen' = seen \union {chunk}
      /\ UNCHANGED <<turn, asking, asked, count, prior, messages, overlap>>
  BY DEF TurnIInv, InTurn, Apart, TurnTypes, Number
<1> DEFINE r == [at |-> "testing", hits |-> Tail(call[c].hits), shown |-> Append(call[c].shown, count)]
<1>2. asking /\ asking' = asking /\ \A d \in ToolCalls \ {c} : call[d].at = "idle"
  BY <1>1, OthersAreIdle
<1>3. /\ call[c].hits # <<>> /\ chunk \notin seen /\ count = Cardinality(Sources) + 1
      /\ WellNumbered(Sources) /\ seen = {s.chunk : s \in Sources}
  BY <1>1, <1>2 DEF SourcesInv
<1>4. /\ chunk \in Chunks /\ Tail(call[c].hits) \in Seq(Chunks)
      /\ Append(call[c].shown, count) \in Seq(Nat)
  BY <1>1, <1>3 DEF ACall, TurnTypes
<1>5. r \in ACall /\ r.at = "testing"
  BY <1>4 DEF ACall
<1>6. call' = [call EXCEPT ![c] = r]
  BY <1>1 DEF Number, TurnTypes, ACall
<1> HIDE DEF r
<1>7. /\ call' \in [ToolCalls -> ACall] /\ OneCall' /\ call'[c] = r
      /\ \A d \in ToolCalls \ {c} : call'[d].at = "idle"
  BY <1>1, <1>2, <1>5, <1>6, CallChanges
<1>8. \A d \in ToolCalls : call'[d].at # "numbering"
  BY <1>5, <1>7
<1>9. Sources' = Sources \union {new}
  BY <1>1 DEF Sources
<1>10. WellNumbered(Sources') /\ Cardinality(Sources') = count
  BY <1>3, <1>4, <1>9, SourcesGrow
<1>11. seen' = {s.chunk : s \in Sources'}
  <2>1. {s.chunk : s \in Sources \union {new}} = {s.chunk : s \in Sources} \union {chunk}
    <3>1. new.chunk = chunk
      OBVIOUS
    <3> HIDE DEF new, chunk
    <3> QED
      BY <3>1
  <2> QED
    BY <1>1, <1>3, <1>9, <2>1
<1>12. TurnTypes'
  BY <1>1, <1>7 DEF TurnTypes
<1>13. SourcesInv'
  BY <1>1, <1>2, <1>8, <1>10, <1>11, ThreadStays DEF SourcesInv
<1> QED
  BY <1>1, <1>2, <1>7, <1>12, <1>13, ThreadStays DEF Apart

LEMMA TurnEnds ==
    ASSUME TurnIInv, NEW persisted \in BOOLEAN, EndTurn(persisted), InTurn
    PROVE  Apart'
<1>1. /\ TurnTypes /\ OneCall /\ ThreadInv /\ SourcesInv /\ asking /\ asking' = FALSE
      /\ \A c \in ToolCalls : call[c].at = "idle"
      /\ UNCHANGED <<turn, count, call>>
  BY DEF TurnIInv, InTurn, Apart, EndTurn
<1>2. WellNumbered(Sources) /\ prior = LastSources
  BY <1>1 DEF SourcesInv
<1>3. OneCall' /\ SourcesInv'
  BY <1>1 DEF OneCall, SourcesInv
<1>4. CASE messages' = messages
  BY <1>1, <1>3, <1>4 DEF TurnTypes, ThreadInv, Apart
<1>5. CASE messages' = Append(messages, Sources)
  <2>1. Sources \in SUBSET Mark
    BY <1>2 DEF WellNumbered
  <2>2. messages' \in Seq(SUBSET Mark) /\ Len(messages') = Len(messages) + 1
    BY <1>1, <1>5, <2>1 DEF TurnTypes
  <2>3. /\ \A i \in 1 .. Len(messages) : messages'[i] = messages[i]
        /\ messages'[Len(messages) + 1] = Sources
    BY <1>1, <1>5, <2>1 DEF TurnTypes
  <2>4. \A i \in 1 .. Len(messages) : messages[i] \subseteq Sources
    <3> SUFFICES ASSUME NEW i \in 1 .. Len(messages) PROVE messages[i] \subseteq Sources
      OBVIOUS
    <3>1. messages # <<>> /\ Len(messages) \in 1 .. Len(messages) /\ i <= Len(messages)
      BY <1>1 DEF TurnTypes
    <3>2. messages[i] \subseteq LastSources
      BY <1>1, <3>1 DEF ThreadInv, LastSources
    <3> QED
      BY <1>2, <3>2 DEF Sources
  <2>5. \A i \in 1 .. Len(messages') : i \in 1 .. Len(messages) \/ i = Len(messages) + 1
    BY <1>1, <2>2 DEF TurnTypes
  <2>6. \A i \in 1 .. Len(messages') : WellNumbered(messages'[i])
    BY <1>1, <1>2, <2>3, <2>5 DEF ThreadInv
  <2>7. ASSUME NEW i \in 1 .. Len(messages'), NEW j \in 1 .. Len(messages'), i <= j
        PROVE  messages'[i] \subseteq messages'[j]
    <3>1. CASE j \in 1 .. Len(messages)
      <4>1. i \in 1 .. Len(messages)
        BY <1>1, <2>7, <3>1 DEF TurnTypes
      <4> QED
        BY <1>1, <2>3, <2>7, <3>1, <4>1 DEF ThreadInv
    <3>2. CASE j = Len(messages) + 1
      BY <2>3, <2>4, <2>5, <3>2
    <3> QED
      BY <2>5, <3>1, <3>2
  <2>8. ThreadInv'
    BY <2>6, <2>7 DEF ThreadInv
  <2> QED
    BY <1>1, <1>3, <2>2, <2>8 DEF TurnTypes, Apart
<1> QED
  BY <1>4, <1>5 DEF EndTurn, Sources

\* Numbers are shown as they are written down, and a turn that is stored keeps them.
LEMMA CitedStays ==
    ASSUME TurnIInv, TurnNext, InTurn, ~restarted'
    PROVE  CitedInv'
<1>1. CitedInv /\ SourcesInv /\ TurnTypes /\ ThreadInv
  BY DEF TurnIInv, Apart
<1>2. ASSUME UNCHANGED <<asking, prior, numbered, messages, unkept, cited>> PROVE CitedInv'
  BY <1>1, <1>2 DEF CitedInv, Sources, LastSources
<1>3. ASSUME NEW read \in BOOLEAN, BeginTurn(read) PROVE CitedInv'
  <2>1. /\ ~asking /\ asking' /\ numbered' = {} /\ prior' = History
        /\ UNCHANGED <<messages, unkept, cited>>
    BY <1>3 DEF BeginTurn
  <2>2. Sources' = LastSources
    BY <1>1, <2>1, HistoryIsTheLast DEF Sources
  <2> QED
    BY <1>1, <2>1, <2>2 DEF CitedInv
<1>4. ASSUME NEW c \in ToolCalls, Number(c) PROVE CitedInv'
  <2> DEFINE new == [chunk |-> Head(call[c].hits), index |-> count]
  <2>1. /\ numbered' = numbered \union {new} /\ cited' = cited \union {new}
        /\ UNCHANGED <<asking, prior, messages, unkept>>
    BY <1>4 DEF Number
  <2>2. asking
    <3>1. call[c].at # "idle"
      BY <1>4 DEF Number
    <3> QED
      BY <3>1 DEF TurnIInv, Apart, OneCall
  <2> HIDE DEF new
  <2> QED
    BY <1>1, <2>1, <2>2 DEF CitedInv, Sources
<1>5. ASSUME NEW persisted \in BOOLEAN, EndTurn(persisted) PROVE CitedInv'
  <2>1. /\ asking /\ asking' = FALSE /\ cited' = cited
        /\ messages' = IF persisted THEN Append(messages, Sources) ELSE messages
        /\ unkept' = (unkept \/ (~persisted /\ numbered # {}))
    BY <1>5 DEF EndTurn, Sources
  <2>2. CASE persisted
    <3>1. Sources \in SUBSET Mark /\ messages \in Seq(SUBSET Mark)
      BY <1>1, <2>1 DEF SourcesInv, WellNumbered, TurnTypes
    <3>2. messages' # <<>> /\ messages'[Len(messages')] = Sources
      BY <2>1, <2>2, <3>1
    <3> QED
      BY <1>1, <2>1, <3>2 DEF CitedInv, LastSources
  <2>3. CASE ~persisted
    <3>1. ~unkept' => numbered = {} /\ Sources = LastSources
      BY <1>1, <2>1, <2>3 DEF SourcesInv, Sources
    <3> QED
      BY <1>1, <2>1, <2>3, <3>1 DEF CitedInv, LastSources
  <2> QED
    BY <2>2, <2>3
<1>6. ASSUME NEW c \in ToolCalls,
             \/ Search(c) \/ (\E hits \in Results : Answered(c, hits))
             \/ Known(c) \/ NextNumber(c) \/ Answer(c)
      PROVE  CitedInv'
  BY <1>2, <1>6 DEF Search, Answered, Known, NextNumber, Answer
<1> QED
  BY <1>3, <1>4, <1>5, <1>6 DEF TurnNext

LEMMA TurnStep == TurnIInv /\ [TurnNext]_turnVars => TurnIInv'
<1> SUFFICES ASSUME TurnIInv, [TurnNext]_turnVars PROVE TurnIInv'
  OBVIOUS
<1>1. CASE UNCHANGED turnVars
  BY <1>1 DEF turnVars, TurnIInv, InTurn, Apart, CitedInv, TurnTypes, OneCall, ThreadInv, SourcesInv,
              Sources, LastSources
<1>2. ASSUME TurnNext
      PROVE  /\ overlap' \in BOOLEAN /\ restarted' \in BOOLEAN /\ unkept' \in BOOLEAN
             /\ InTurn' => InTurn
  <2>1. CASE UNCHANGED <<overlap, restarted, unkept>>
    BY <2>1 DEF TurnIInv, InTurn
  <2>2. ASSUME NEW c \in ToolCalls, Search(c)
        PROVE  overlap' \in BOOLEAN /\ (~overlap' => ~overlap) /\ UNCHANGED <<restarted, unkept>>
    BY <2>2 DEF Search, TurnIInv
  <2>3. ASSUME NEW read \in BOOLEAN, BeginTurn(read)
        PROVE  restarted' \in BOOLEAN /\ (~restarted' => ~restarted) /\ UNCHANGED <<overlap, unkept>>
    BY <2>3 DEF BeginTurn, TurnIInv
  <2>4. ASSUME NEW persisted \in BOOLEAN, EndTurn(persisted)
        PROVE  unkept' \in BOOLEAN /\ UNCHANGED <<overlap, restarted>>
    BY <2>4 DEF EndTurn, TurnIInv
  <2>5. ASSUME NEW c \in ToolCalls,
               (\E hits \in Results : Answered(c, hits)) \/ Known(c) \/ NextNumber(c)
               \/ Number(c) \/ Answer(c)
        PROVE  UNCHANGED <<overlap, restarted, unkept>>
    BY <2>5 DEF Answered, Known, NextNumber, Number, Answer
  <2> QED
    BY <1>2, <2>1, <2>2, <2>3, <2>4, <2>5 DEF TurnNext, TurnIInv, InTurn
<1>3. ASSUME TurnNext, InTurn' PROVE Apart'
  <2>1. InTurn /\ ~overlap' /\ ~restarted'
    BY <1>2, <1>3 DEF InTurn
  <2>2. ASSUME NEW read \in BOOLEAN, BeginTurn(read) PROVE Apart'
    BY <2>1, <2>2, TurnBegins
  <2>3. ASSUME NEW c \in ToolCalls, Search(c) PROVE Apart'
    BY <2>1, <2>3, SearchBegins
  <2>4. ASSUME NEW c \in ToolCalls, NEW hits \in Results, Answered(c, hits) PROVE Apart'
    BY <2>1, <2>4, SearchAnswered
  <2>5. ASSUME NEW c \in ToolCalls, Known(c) PROVE Apart'
    BY <2>1, <2>5, HitIsKnown
  <2>6. ASSUME NEW c \in ToolCalls, NextNumber(c) PROVE Apart'
    BY <2>1, <2>6, NumberTaken
  <2>7. ASSUME NEW c \in ToolCalls, Number(c) PROVE Apart'
    BY <2>1, <2>7, HitIsNumbered
  <2>8. ASSUME NEW c \in ToolCalls, Answer(c) PROVE Apart'
    BY <2>1, <2>8, CallAnswers
  <2>9. ASSUME NEW persisted \in BOOLEAN, EndTurn(persisted) PROVE Apart'
    BY <2>1, <2>9, TurnEnds
  <2> QED
    BY <1>3, <2>2, <2>3, <2>4, <2>5, <2>6, <2>7, <2>8, <2>9 DEF TurnNext
<1>4. ASSUME TurnNext, InTurn' PROVE CitedInv'
  BY <1>2, <1>4, CitedStays DEF InTurn
<1> QED
  BY <1>1, <1>2, <1>3, <1>4 DEF TurnIInv

\* For any number of calls, hits, searches and turns: while no two searches overlap and the
\* thread can be read, the sources of a turn are numbered from 1 without gaps, one number
\* is one chunk over all the stored answers and, if every turn is stored, over all that
\* was ever shown (SearchTracker, get_sources, _load_conversation_history).
THEOREM CitationsAlwaysStable == TurnSpec => []CitationsAreStable
<1>1. TurnInit => TurnIInv
  <2> SUFFICES ASSUME TurnInit PROVE Apart /\ CitedInv
    BY DEF TurnInit, TurnIInv
  <2>1. NoCall \in ACall /\ NoCall.at = "idle"
    BY DEF NoCall, ACall
  <2>2. TurnTypes
    <3>1. turn \in Nat /\ count \in Nat /\ asking \in BOOLEAN
      BY DEF TurnInit
    <3>3. messages \in Seq(SUBSET Mark)
      BY DEF TurnInit
    <3>2. call \in [ToolCalls -> ACall]
      BY <2>1 DEF TurnInit
    <3> QED
      BY <3>1, <3>2, <3>3 DEF TurnTypes
  <2>3. OneCall
    BY <2>1 DEF TurnInit, OneCall
  <2>4. Len(messages) = 0 /\ 1 .. 0 = {}
    BY DEF TurnInit
  <2>5. ThreadInv /\ SourcesInv
    BY <2>4 DEF TurnInit, ThreadInv, SourcesInv
  <2>6. CitedInv
    BY DEF TurnInit, CitedInv, LastSources
  <2> QED
    BY <2>2, <2>3, <2>5, <2>6 DEF Apart
<1>2. TurnIInv => CitationsAreStable
  <2> SUFFICES ASSUME TurnIInv, InTurn
               PROVE  /\ asking => /\ {s.index : s \in Sources} = 1 .. Cardinality(Sources)
                                   /\ OneForOne((UNION ToSet(messages)) \union prior \union numbered)
                      /\ ~unkept => OneForOne(cited)
    BY DEF CitationsAreStable, Sources, InTurn
  <2>1. TurnTypes /\ ThreadInv /\ SourcesInv /\ CitedInv /\ WellNumbered(LastSources)
    BY LastIsWellNumbered DEF TurnIInv, Apart
  <2>2. asking => (UNION ToSet(messages)) \union prior \union numbered = Sources
    BY <2>1, AllAreInTheLast DEF Sources, SourcesInv
  <2>3. asking => WellNumbered(Sources)
    BY <2>1 DEF SourcesInv
  <2>4. ~unkept => WellNumbered(cited)
    BY <2>1, <2>3 DEF CitedInv
  <2> QED
    BY <2>2, <2>3, <2>4 DEF WellNumbered, OneForOne
<1> QED
  BY <1>1, <1>2, TurnStep, PTL DEF TurnSpec

-----------------------------------------------------------------------------
(* ResearchTree                                                            *)

\* Less-than on the natural numbers.
Under == {p \in Nat \X Nat : p[1] < p[2]}

\* A non-empty set of natural numbers has a least element.
LEMMA LeastOf ==
    ASSUME NEW T \in SUBSET Nat, T # {}
    PROVE  \E m \in T : \A k \in T : m <= k
<1>1. IsWellFoundedOn(Under, Nat)
  BY NatLessThanWellFounded DEF Under, OpToRel
<1>2. PICK m \in T : \A k \in T : <<k, m>> \notin Under
  BY <1>1, WFMin
<1>3. m \in Nat /\ \A k \in T : k \in Nat
  OBVIOUS
<1>4. \A k \in T : ~(k < m)
  BY <1>2, <1>3 DEF Under
<1> QED
  BY <1>3, <1>4

-----------------------------------------------------------------------------
(* useDrilldownTree                                                        *)

\* Nodes are records; the root is 0, and any other is above its parent and no higher than c.
IsNode(x) == x = Node(x.up, x.topic, x.text)
TreeUpTo(tr, c) ==
    /\ tr = [id \in DOMAIN tr |-> tr[id]]
    /\ DOMAIN tr \subseteq 0 .. c
    /\ \A id \in DOMAIN tr : IsNode(tr[id])
    /\ tr # NoTree => Root \in DOMAIN tr
    /\ \A id \in DOMAIN tr \ {Root} : tr[id].up \in DOMAIN tr /\ tr[id].up < id
OwnTexts(tr) == \A id \in DOMAIN tr : OwnText(tr[id], tr[id].text)

LEMMA NodeFields ==
    ASSUME NEW up, NEW t, NEW text
    PROVE  /\ IsNode(Node(up, t, text))
           /\ Node(up, t, text).up = up /\ Node(up, t, text).topic = t
           /\ Node(up, t, text).text = text
BY DEF IsNode, Node

LEMMA NoTreeUpTo ==
    ASSUME NEW c \in Nat
    PROVE  TreeUpTo(NoTree, c) /\ OwnTexts(NoTree) /\ DOMAIN NoTree = {}
<1>1. DOMAIN NoTree = {}
  BY DEF NoTree
<1>2. NoTree = [id \in DOMAIN NoTree |-> NoTree[id]]
  BY DEF NoTree
<1> QED
  BY <1>1, <1>2 DEF TreeUpTo, OwnTexts

\* Another text in one node.
LEMMA TextPut ==
    ASSUME NEW c \in Nat, NEW tr, TreeUpTo(tr, c), NEW i \in DOMAIN tr, NEW text,
           NEW new, new = [tr EXCEPT ![i].text = text]
    PROVE  /\ TreeUpTo(new, c) /\ DOMAIN new = DOMAIN tr
           /\ new[i].text = text
           /\ \A id \in DOMAIN tr : new[id].topic = tr[id].topic
           /\ OwnTexts(tr) /\ OwnText(tr[i], text) => OwnTexts(new)
<1>1. /\ DOMAIN new = DOMAIN tr /\ new = [id \in DOMAIN new |-> new[id]]
      /\ \A id \in DOMAIN tr \ {i} : new[id] = tr[id]
      /\ new[i] = [tr[i] EXCEPT !.text = text]
  BY DEF TreeUpTo
<1>2. tr[i] = Node(tr[i].up, tr[i].topic, tr[i].text)
  BY DEF TreeUpTo, IsNode
<1>3. new[i] = Node(tr[i].up, tr[i].topic, text)
  BY <1>1, <1>2 DEF Node
<1>4. /\ new[i].up = tr[i].up /\ new[i].topic = tr[i].topic /\ new[i].text = text
      /\ IsNode(new[i])
  BY <1>3, NodeFields
<1>5. \A id \in DOMAIN tr : /\ IsNode(new[id]) /\ new[id].up = tr[id].up
                            /\ new[id].topic = tr[id].topic
  BY <1>1, <1>4 DEF TreeUpTo
<1>6. TreeUpTo(new, c)
  <2>1. Root \in DOMAIN tr
    BY NoTreeUpTo DEF TreeUpTo
  <2> QED
    BY <1>1, <1>5, <2>1 DEF TreeUpTo
<1>7. ASSUME OwnTexts(tr), OwnText(tr[i], text) PROVE OwnTexts(new)
  BY <1>1, <1>4, <1>7 DEF OwnTexts, OwnText
<1> QED
  BY <1>1, <1>4, <1>5, <1>6, <1>7

\* Snapshot, Updated: of a tree that may not have the node.
TextIn(tr, c, i, text, new) ==
    /\ TreeUpTo(new, c) /\ DOMAIN new = DOMAIN tr
    /\ \A id \in DOMAIN tr : new[id].topic = tr[id].topic
    /\ OwnTexts(tr) /\ (i \in DOMAIN tr => OwnText(tr[i], text)) => OwnTexts(new)

LEMMA TextPutMaybe ==
    ASSUME NEW c \in Nat, NEW tr, TreeUpTo(tr, c), NEW i, NEW text,
           NEW new, new = IF i \in DOMAIN tr THEN [tr EXCEPT ![i].text = text] ELSE tr
    PROVE  TextIn(tr, c, i, text, new)
<1>1. CASE i \in DOMAIN tr
  <2>1. new = [tr EXCEPT ![i].text = text]
    BY <1>1
  <2>2. /\ TreeUpTo(new, c) /\ DOMAIN new = DOMAIN tr
        /\ new[i].text = text
        /\ \A id \in DOMAIN tr : new[id].topic = tr[id].topic
        /\ OwnTexts(tr) /\ OwnText(tr[i], text) => OwnTexts(new)
    BY <1>1, <2>1, TextPut
  <2> QED
    BY <1>1, <2>2 DEF TextIn
<1>2. CASE i \notin DOMAIN tr
  <2>1. new = tr
    BY <1>2
  <2> QED
    BY <1>2, <2>1 DEF TextIn
<1> QED
  BY <1>1, <1>2

\* A tree with n nodes of the next topics below one node, if that is there.
Grown(tr, up, n, text, new) ==
    /\ TreeUpTo(new, counter + n)
    /\ DOMAIN tr \subseteq DOMAIN new
    /\ DOMAIN new \subseteq DOMAIN tr \cup (counter + 1 .. counter + n)
    /\ \A id \in DOMAIN tr : new[id] = tr[id]
    /\ up \in DOMAIN tr => \A id \in counter + 1 .. counter + n : id \in DOMAIN new
    /\ \A id \in DOMAIN new \ DOMAIN tr : new[id] = Node(up, topics + id - counter, text)

LEMMA ChildrenAdded ==
    ASSUME counter \in Nat, NEW tr, TreeUpTo(tr, counter), NEW up, NEW n \in Nat, NEW text
    PROVE  Grown(tr, up, n, text, WithChildren(tr, up, n, text))
<1> DEFINE new == WithChildren(tr, up, n, text)
<1> HIDE DEF new
<1> SUFFICES Grown(tr, up, n, text, new)
  BY DEF new
<1> DEFINE c == counter
           ids == c + 1 .. c + n
<1>0. 0 .. c \subseteq 0 .. c + n /\ c \in Nat /\ c + n \in Nat
  OBVIOUS
<1>1. \A id \in ids : id \notin 0 .. c /\ id \in 0 .. c + n /\ \A m \in 0 .. c : m < id
  OBVIOUS
<1>2. TreeUpTo(tr, c + n)
  BY <1>0 DEF TreeUpTo
<1>3. CASE up \notin DOMAIN tr
  <2>1. new = tr
    BY <1>3 DEF WithChildren, new
  <2> QED
    BY <1>2, <1>3, <2>1 DEF Grown
<1>4. CASE up \in DOMAIN tr
  <2>1. new = [id \in DOMAIN tr \cup ids |->
                  IF id \in DOMAIN tr THEN tr[id] ELSE Node(up, topics + id - counter, text)]
    BY <1>4 DEF WithChildren, new
  <2> HIDE DEF c, ids
  <2>2. /\ DOMAIN new = DOMAIN tr \cup ids /\ new = [id \in DOMAIN new |-> new[id]]
        /\ \A id \in DOMAIN tr : new[id] = tr[id]
        /\ \A id \in DOMAIN new \ DOMAIN tr : new[id] = Node(up, topics + id - counter, text)
    BY <2>1
  <2>3. \A id \in DOMAIN new \ DOMAIN tr : IsNode(new[id]) /\ new[id].up = up
    BY <2>2, NodeFields
  <2>4. up \in 0 .. c
    BY <1>4 DEF TreeUpTo, c
  <2>5. DOMAIN new \subseteq 0 .. c + n
    BY <1>1, <1>2, <2>2 DEF TreeUpTo
  <2>6. Root \in DOMAIN new
    BY <1>0, <1>4, <2>2, NoTreeUpTo DEF TreeUpTo
  <2>7. \A id \in DOMAIN new : IsNode(new[id])
    BY <2>2, <2>3 DEF TreeUpTo
  <2>8. ASSUME NEW id \in DOMAIN new \ {Root} PROVE new[id].up \in DOMAIN new /\ new[id].up < id
    <3>1. CASE id \in DOMAIN tr
      BY <2>2, <2>8, <3>1 DEF TreeUpTo
    <3>2. CASE id \notin DOMAIN tr
      BY <1>1, <1>4, <2>2, <2>3, <2>4, <2>8, <3>2
    <3> QED
      BY <3>1, <3>2
  <2>9. TreeUpTo(new, c + n)
    BY <2>2, <2>5, <2>6, <2>7, <2>8 DEF TreeUpTo
  <2> QED
    BY <2>2, <2>9 DEF c, ids, Grown
<1> QED
  BY <1>3, <1>4

\* Of the nodes before m, those that are below id.
Sorts(tr, id, m, S) ==
    \A n \in DOMAIN tr : n < m => (n \in S <=> n = id \/ (n # Root /\ tr[n].up \in S))

LEMMA BelowIsSorted ==
    ASSUME NEW c \in Nat, NEW tr, TreeUpTo(tr, c), NEW id, NEW m \in Nat
    PROVE  \E S : Sorts(tr, id, m, S)
<1> DEFINE T == {k \in Nat : ~\E S : Sorts(tr, id, k, S)}
<1>0. DOMAIN tr \subseteq Nat
  <2>1. 0 .. c \subseteq Nat
    OBVIOUS
  <2> QED
    BY <2>1 DEF TreeUpTo
<1>1. ASSUME T # {} PROVE FALSE
  <2>1. PICK k \in T : \A j \in T : k <= j
    <3>1. T \in SUBSET Nat
      OBVIOUS
    <3> QED
      BY <1>1, <3>1, LeastOf
  <2>2. k \in Nat /\ ~\E S : Sorts(tr, id, k, S)
    BY <2>1
  <2>3. k # 0
    <3>1. Sorts(tr, id, 0, {})
      BY <1>0 DEF Sorts
    <3> QED
      BY <2>2, <3>1
  <2>4. k - 1 \in Nat /\ ~(k <= k - 1)
    BY <2>2, <2>3
  <2>5. PICK S : Sorts(tr, id, k - 1, S)
    BY <2>1, <2>4
  <2> DEFINE R == {n \in DOMAIN tr : \/ n < k - 1 /\ n \in S
                                     \/ n = k - 1 /\ (n = id \/ (n # Root /\ tr[n].up \in S))}
  <2>6. ASSUME NEW n \in DOMAIN tr, n < k
        PROVE  n \in R <=> n = id \/ (n # Root /\ tr[n].up \in R)
    <3>1. ASSUME n # Root PROVE tr[n].up \in R <=> tr[n].up \in S
      <4>1. tr[n].up \in DOMAIN tr /\ tr[n].up < n
        BY <3>1 DEF TreeUpTo
      <4>2. tr[n].up < k - 1 /\ tr[n].up # k - 1
        BY <1>0, <2>2, <2>6, <4>1
      <4> QED
        BY <4>1, <4>2
    <3>2. CASE n < k - 1
      <4>1. n # k - 1
        BY <1>0, <2>2, <3>2
      <4>2. n \in R <=> n \in S
        BY <3>2, <4>1
      <4>3. n \in S <=> n = id \/ (n # Root /\ tr[n].up \in S)
        BY <2>5, <3>2 DEF Sorts
      <4> HIDE DEF R
      <4> QED
        BY <3>1, <4>2, <4>3
    <3>3. CASE ~(n < k - 1)
      <4>1. n = k - 1
        BY <1>0, <2>2, <2>6, <3>3
      <4>2. n \in R <=> n = id \/ (n # Root /\ tr[n].up \in S)
        BY <3>3, <4>1
      <4> HIDE DEF R
      <4> QED
        BY <3>1, <4>2
    <3> QED
      BY <3>2, <3>3
  <2>7. Sorts(tr, id, k, R)
    BY <2>6 DEF Sorts
  <2> QED
    BY <2>2, <2>7
<1> QED
  BY <1>1

\* removeNode leaves no node whose parent it takes away, and not the root.
LEMMA BelowProperties ==
    ASSUME counter \in Nat, TreeUpTo(tree, counter), NEW id \in DOMAIN tree
    PROVE  /\ id \in Below(id)
           /\ id # Root => Root \notin Below(id)
           /\ \A n \in DOMAIN tree \ {Root} : n \notin Below(id) => tree[n].up \notin Below(id)
<1>1. PICK S : Sorts(tree, id, counter + 1, S)
  BY BelowIsSorted
<1>2. \A n \in DOMAIN tree : n \in S <=> n = id \/ (n # Root /\ tree[n].up \in S)
  <2>1. \A n \in 0 .. counter : n < counter + 1
    OBVIOUS
  <2> QED
    BY <1>1, <2>1 DEF Sorts, TreeUpTo
<1> DEFINE f == [n \in DOMAIN tree |-> n \in S]
           F == CHOOSE g : g = [n \in DOMAIN tree |-> n = id \/ (n # Root /\ g[tree[n].up])]
<1>3. \A n \in DOMAIN tree \ {Root} : tree[n].up \in DOMAIN tree
  BY DEF TreeUpTo
<1>4. f = [n \in DOMAIN tree |-> n = id \/ (n # Root /\ f[tree[n].up])]
  <2>1. \A n \in DOMAIN tree : f[n] = (n \in S)
    OBVIOUS
  <2>2. DOMAIN f = DOMAIN tree /\ f = [n \in DOMAIN tree |-> f[n]]
    OBVIOUS
  <2> HIDE DEF f
  <2>3. ASSUME NEW n \in DOMAIN tree
        PROVE  f[n] = (n = id \/ (n # Root /\ f[tree[n].up]))
    <3>1. n # Root => (f[tree[n].up] <=> tree[n].up \in S)
      BY <1>3, <2>1
    <3>2. f[n] <=> n = id \/ (n # Root /\ f[tree[n].up])
      BY <1>2, <2>1, <3>1
    <3>3. f[n] \in BOOLEAN
      <4>1. f[n] = TRUE \/ f[n] = FALSE
        <5>1. CASE n \in S
          BY <2>1, <5>1
        <5>2. CASE n \notin S
          BY <2>1, <5>2
        <5> QED
          BY <5>1, <5>2
      <4> QED
        BY <4>1
    <3> QED
      BY <3>2, <3>3
  <2> QED
    BY <2>2, <2>3
<1>5. F = [n \in DOMAIN tree |-> n = id \/ (n # Root /\ F[tree[n].up])]
  <2> HIDE DEF f
  <2> QED
    BY <1>4
<1>6. Below(id) = {n \in DOMAIN tree : F[n]}
  BY DEF Below
<1> HIDE DEF F, f
<1>7. \A n \in DOMAIN tree : F[n] = (n = id \/ (n # Root /\ F[tree[n].up]))
  BY <1>5, Zenon
<1>8. ASSUME id # Root PROVE Root \notin Below(id)
  BY <1>6, <1>7, <1>8
<1>9. ASSUME NEW n \in DOMAIN tree \ {Root}, n \notin Below(id) PROVE tree[n].up \notin Below(id)
  BY <1>3, <1>6, <1>7, <1>9
<1>10. id \in Below(id)
  BY <1>6, <1>7
<1> QED
  BY <1>8, <1>9, <1>10

-----------------------------------------------------------------------------
(* The summaries of the tree                                               *)

AnyTree(tr) == Root \in DOMAIN tr /\ \E c \in Nat : TreeUpTo(tr, c)

TreeTypeOK ==
    /\ counter \in Nat /\ topics \in Nat
    /\ TreeUpTo(tree, counter)
    /\ tree = NoTree => current = Root
    /\ facts \in Seq([id : Nat, topic : Nat])

Row(x) == x = [tree |-> x.tree, query |-> x.query, first |-> x.first, gone |-> x.gone]
StoreInv ==
    /\ stored \in Seq(ToSet(stored))
    /\ \A i \in DOMAIN stored : Row(stored[i]) /\ AnyTree(stored[i].tree)
    /\ \A s \in saving : AnyTree(s.tree)
    /\ opening # 0 => opening \in DOMAIN stored

\* The rest holds while no answer was left behind: also saved trees have their own texts,
OwnTextsInv ==
    /\ OwnTexts(tree)
    /\ \A i \in DOMAIN stored : OwnTexts(stored[i].tree)
    /\ \A s \in saving : OwnTexts(s.tree)

\* the stream and the one drilldown that may be under way are for the current node,
ShownInv ==
    /\ tree # NoTree => current \in DOMAIN tree /\ OwnText(tree[current], onPage)
    /\ loading => live # 0 \/ drills # {}
    /\ live # 0 => loading /\ (tree # NoTree => tree[current].topic = live)
    /\ drills # {} => loading /\ live = 0
    /\ \A t \in drills : t # 0 /\ drills = {t} /\ (tree # NoTree => tree[current].topic = t)

\* and what is researched beside the page is for the node of its id, if that is still there.
Awaited(a) == a.id \in 1 .. counter /\ (a.id \in DOMAIN tree => tree[a.id].topic = a.topic)
AwaitedInv == (\A a \in adds : Awaited(a)) /\ \A k \in DOMAIN facts : Awaited(facts[k])

TreeIInv == TreeTypeOK /\ StoreInv /\ (~disturbed => OwnTextsInv /\ ShownInv /\ AwaitedInv)

LEMMA TreeStarts == TreeInit => TreeIInv
<1> SUFFICES ASSUME TreeInit PROVE TreeIInv
  OBVIOUS
<1>1. DOMAIN NoTree = {} /\ TreeUpTo(NoTree, 0) /\ OwnTexts(NoTree)
  BY NoTreeUpTo
<1>2. facts = <<>> /\ stored = <<>>
  BY DEF TreeInit
<1>3. DOMAIN facts = {} /\ DOMAIN stored = {}
  <2>1. DOMAIN <<>> = {}
    OBVIOUS
  <2> QED
    BY <1>2, <2>1
<1>4. facts \in Seq([id : Nat, topic : Nat]) /\ stored \in Seq(ToSet(stored))
  BY <1>2, EmptySeq
<1>5. TreeTypeOK
  BY <1>1, <1>4 DEF TreeInit, TreeTypeOK
<1>6. StoreInv
  BY <1>3, <1>4 DEF TreeInit, StoreInv
<1>7. OwnTextsInv
  BY <1>1, <1>3 DEF TreeInit, OwnTextsInv
<1>8. ShownInv
  BY DEF TreeInit, ShownInv
<1>9. AwaitedInv
  BY <1>3 DEF TreeInit, AwaitedInv
<1> QED
  BY <1>5, <1>6, <1>7, <1>8, <1>9 DEF TreeIInv

-----------------------------------------------------------------------------
(* Steps on the page leave the nodes                                       *)

LEMMA NodesStay ==
    ASSUME TreeIInv, topics' \in Nat, ~disturbed' => ~disturbed,
           UNCHANGED <<tree, current, counter, adds, facts, stored, saving, opening>>
    PROVE  /\ TreeTypeOK' /\ StoreInv'
           /\ ~disturbed' => OwnTextsInv' /\ AwaitedInv'
<1>1. TreeTypeOK'
  BY DEF TreeIInv, TreeTypeOK
<1>2. StoreInv'
  BY DEF TreeIInv, StoreInv
<1>3. ASSUME ~disturbed' PROVE OwnTextsInv' /\ AwaitedInv'
  BY <1>3 DEF TreeIInv, OwnTextsInv, AwaitedInv, Awaited
<1> QED
  BY <1>1, <1>2, <1>3

LEMMA StreamSteps ==
    ASSUME TreeIInv, StreamToken \/ StreamEnds
    PROVE  TreeIInv'
<1>1. /\ UNCHANGED <<tree, current, counter, adds, facts, stored, saving, opening, topics, drills>>
      /\ disturbed' = disturbed /\ live # 0 /\ onPage' = live
      /\ \/ loading' = loading /\ live' = live
         \/ loading' = FALSE /\ live' = 0
  BY DEF StreamToken, StreamEnds, topicVars, nodeVars, flightVars, storeVars
<1>2. topics' \in Nat
  BY <1>1 DEF TreeIInv, TreeTypeOK
<1>3. ASSUME ~disturbed' PROVE ShownInv'
  <2>1. ShownInv /\ drills = {}
    BY <1>1, <1>3 DEF TreeIInv, ShownInv
  <2>2. tree # NoTree => tree[current].topic = live /\ current \in DOMAIN tree
    BY <1>1, <2>1 DEF ShownInv
  <2>3. tree' # NoTree => current' \in DOMAIN tree' /\ OwnText(tree'[current'], onPage')
    BY <1>1, <2>2 DEF OwnText
  <2>4. CASE loading' = loading /\ live' = live
    BY <1>1, <2>1, <2>2, <2>3, <2>4 DEF ShownInv
  <2>5. CASE loading' = FALSE /\ live' = 0
    BY <1>1, <2>1, <2>3, <2>5 DEF ShownInv
  <2> QED
    BY <1>1, <2>4, <2>5
<1> QED
  BY <1>1, <1>2, <1>3, NodesStay DEF TreeIInv

LEMMA SearchSteps ==
    ASSUME TreeIInv,
           \/ \E t \in 1 .. MaxTopics : AskSearch(t)
           \/ SearchFindsNothing \/ AskGlobal \/ GlobalFails
    PROVE  TreeIInv'
<1>1. /\ UNCHANGED <<tree, current, counter, adds, facts, stored, saving, opening, drills,
                     loading, live>>
      /\ disturbed' = disturbed /\ onPage' \in {onPage, NoSummary}
  BY DEF AskSearch, SearchFindsNothing, AskGlobal, GlobalFails, topicVars, nodeVars, pageVars,
         shownVars, flightVars, storeVars
<1>2. topics' \in Nat
  BY DEF TreeIInv, TreeTypeOK, AskSearch, SearchFindsNothing, AskGlobal, GlobalFails, topicVars,
         NewTopic
<1>3. ASSUME ~disturbed' PROVE ShownInv'
  BY <1>1, <1>3 DEF TreeIInv, ShownInv, OwnText
<1> QED
  BY <1>1, <1>2, <1>3, NodesStay DEF TreeIInv

LEMMA DrillReturns ==
    ASSUME TreeIInv, NEW t \in drills, DrillAnswers(t) \/ DrillFails(t)
    PROVE  TreeIInv'
<1>1. /\ UNCHANGED <<tree, current, counter, adds, facts, stored, saving, opening, topics>>
      /\ disturbed' = disturbed /\ drills' = drills \ {t}
      /\ \/ live' = t /\ loading' = TRUE /\ onPage' = NoSummary
         \/ live' = live /\ loading' = FALSE /\ onPage' = t
  BY DEF DrillAnswers, DrillFails, Launch, topicVars, nodeVars, storeVars
<1>2. topics' \in Nat
  BY <1>1 DEF TreeIInv, TreeTypeOK
<1>3. ASSUME ~disturbed' PROVE ShownInv'
  <2>1. ShownInv /\ drills' = {}
    BY <1>1, <1>3 DEF TreeIInv, ShownInv
  <2> QED
    BY <1>1, <2>1 DEF ShownInv, OwnText
<1> QED
  BY <1>1, <1>2, <1>3, NodesStay DEF TreeIInv

-----------------------------------------------------------------------------
(* Steps that change the nodes                                             *)

\* What is awaited stays so while nodes keep their topics and new ones have new ids.
KeepsTopics ==
    /\ counter' \in Nat /\ counter <= counter'
    /\ \A id \in DOMAIN tree' : id \in 1 .. counter =>
           id \in DOMAIN tree /\ tree'[id].topic = tree[id].topic

LEMMA AwaitedStay ==
    ASSUME TreeTypeOK, KeepsTopics, NEW a, Awaited(a)
    PROVE  a.id \in 1 .. counter' /\ (a.id \in DOMAIN tree' => tree'[a.id].topic = a.topic)
<1>1. 1 .. counter \subseteq 1 .. counter'
  BY DEF TreeTypeOK, KeepsTopics
<1> QED
  BY <1>1 DEF KeepsTopics, Awaited

LEMMA SameAwaited ==
    ASSUME TreeTypeOK, KeepsTopics, AwaitedInv, UNCHANGED <<adds, facts>>
    PROVE  AwaitedInv'
<1>1. ASSUME NEW a \in adds PROVE a.id \in 1 .. counter' /\ (a.id \in DOMAIN tree' => tree'[a.id].topic = a.topic)
  <2>1. PICK b : b = a
    OBVIOUS
  <2>2. Awaited(b)
    BY <2>1 DEF AwaitedInv
  <2> QED
    BY <2>1, <2>2, AwaitedStay
<1>2. ASSUME NEW k \in DOMAIN facts
      PROVE  /\ facts[k].id \in 1 .. counter'
             /\ facts[k].id \in DOMAIN tree' => tree'[facts[k].id].topic = facts[k].topic
  <2>1. PICK b : b = facts[k]
    OBVIOUS
  <2>2. Awaited(b)
    BY <2>1 DEF AwaitedInv
  <2> QED
    BY <2>1, <2>2, AwaitedStay
<1> QED
  BY <1>1, <1>2 DEF AwaitedInv, Awaited

\* A new search, another choice of results, or a new topic: the tree goes.
LEMMA TreeGone ==
    ASSUME TreeIInv, topics' \in Nat, ~disturbed' => ~disturbed, tree' = NoTree, current' = Root,
           UNCHANGED <<counter, adds, facts, stored, saving, opening>>
    PROVE  /\ TreeTypeOK' /\ StoreInv'
           /\ ~disturbed' => OwnTextsInv' /\ AwaitedInv'
<1>1. \A c \in Nat : TreeUpTo(NoTree, c) /\ OwnTexts(NoTree) /\ DOMAIN NoTree = {}
  BY NoTreeUpTo
<1>2. TreeTypeOK /\ StoreInv
  BY DEF TreeIInv
<1>3. TreeTypeOK'
  BY <1>1, <1>2 DEF TreeTypeOK
<1>4. StoreInv'
  BY <1>2 DEF StoreInv
<1>5. ASSUME ~disturbed' PROVE OwnTextsInv' /\ AwaitedInv'
  <2>1. OwnTextsInv /\ AwaitedInv
    BY <1>5 DEF TreeIInv
  <2>2. OwnTextsInv'
    <3>1. OwnTexts(tree')
      BY <1>1, <1>2 DEF TreeTypeOK
    <3> QED
      BY <2>1, <3>1 DEF OwnTextsInv
  <2>3. KeepsTopics
    BY <1>1, <1>2 DEF KeepsTopics, TreeTypeOK
  <2> QED
    BY <1>2, <2>1, <2>2, <2>3, SameAwaited
<1> QED
  BY <1>3, <1>4, <1>5

LEMMA StartOverKeeps ==
    ASSUME TreeIInv, SearchAnswers \/ Regenerate
    PROVE  TreeIInv'
<1>1. PICK t : t # 0 /\ StartOver(t)
  BY DEF SearchAnswers, Regenerate
<1>2. UNCHANGED <<counter, adds, facts, stored, saving, opening, drills, topics>>
  BY <1>1 DEF SearchAnswers, Regenerate, StartOver, topicVars, flightVars
<1>3. ASSUME ~disturbed' PROVE ~disturbed /\ drills = {}
  <2>1. Disturbing(drills # {})
    BY <1>1 DEF StartOver
  <2> QED
    BY <1>3, <2>1, Zenon DEF Disturbing
<1>4. /\ TreeTypeOK' /\ StoreInv'
      /\ ~disturbed' => OwnTextsInv' /\ AwaitedInv'
  <2>1. topics' \in Nat /\ tree' = NoTree /\ current' = Root
    BY <1>1, <1>2 DEF StartOver, TreeIInv, TreeTypeOK
  <2> QED
    BY <1>2, <1>3, <2>1, TreeGone
<1>5. ASSUME ~disturbed' PROVE ShownInv'
  <2>1. drills' = {} /\ tree' = NoTree /\ live' = t /\ loading' = TRUE
    BY <1>1, <1>2, <1>3, <1>5 DEF StartOver, Launch
  <2> QED
    BY <1>1, <2>1 DEF ShownInv
<1> QED
  BY <1>4, <1>5 DEF TreeIInv

LEMMA DrillAnewKeeps ==
    ASSUME TreeIInv, NEW t \in 1 .. MaxTopics, DrillAnew(t)
    PROVE  TreeIInv'
<1>1. /\ UNCHANGED <<counter, adds, facts, stored, saving, opening, live>>
      /\ disturbed' = disturbed /\ tree' = NoTree /\ current' = Root /\ ~loading /\ loading' = TRUE
      /\ drills' = drills \cup {t} /\ topics' \in Nat
  BY ResearchTreeAssumption DEF DrillAnew, Selectable, NewTopic, storeVars
<1>2. /\ TreeTypeOK' /\ StoreInv'
      /\ ~disturbed' => OwnTextsInv' /\ AwaitedInv'
  BY <1>1, TreeGone
<1>3. ASSUME ~disturbed' PROVE ShownInv'
  <2>1. live = 0 /\ drills = {}
    BY <1>1, <1>3 DEF TreeIInv, ShownInv
  <2>2. t # 0
    BY ResearchTreeAssumption
  <2> QED
    BY <1>1, <2>1, <2>2 DEF ShownInv
<1> QED
  BY <1>2, <1>3 DEF TreeIInv

\* What holds when the tree has changed but is there.
LEMMA NodesChange ==
    ASSUME TreeIInv, counter' \in Nat, topics' \in Nat, TreeUpTo(tree', counter'),
           Root \in DOMAIN tree', facts' \in Seq([id : Nat, topic : Nat]),
           UNCHANGED <<stored, saving, opening>>
    PROVE  /\ TreeTypeOK' /\ StoreInv' /\ tree' # NoTree
           /\ OwnTextsInv /\ OwnTexts(tree') => OwnTextsInv'
<1>1. tree' # NoTree
  BY NoTreeUpTo
<1>2. TreeTypeOK'
  BY <1>1 DEF TreeTypeOK
<1>3. StoreInv'
  BY DEF TreeIInv, StoreInv
<1>4. ASSUME OwnTextsInv, OwnTexts(tree') PROVE OwnTextsInv'
  BY <1>4 DEF OwnTextsInv
<1> QED
  BY <1>1, <1>2, <1>3, <1>4

LEMMA RootedProperties ==
    ASSUME TreeTypeOK
    PROVE  /\ TreeUpTo(Rooted, counter) /\ Root \in DOMAIN Rooted
           /\ tree # NoTree => DOMAIN Rooted = DOMAIN tree
           /\ tree = NoTree => DOMAIN Rooted = {Root} /\ current = Root
           /\ \A id \in DOMAIN tree : Rooted[id].topic = tree[id].topic
           /\ OwnTextsInv /\ ShownInv /\ ~Unlike =>
                 /\ OwnTexts(Rooted) /\ current \in DOMAIN Rooted
                 /\ OwnText(Rooted[current], onPage)
<1>1. CASE tree = NoTree
  <2> DEFINE one == [id \in {Root} |-> Node(Root, query, onPage)]
  <2>1. Rooted = one
    BY <1>1 DEF Rooted
  <2>2. DOMAIN one = {Root} /\ one = [id \in DOMAIN one |-> one[id]]
        /\ one[Root] = Node(Root, query, onPage)
    OBVIOUS
  <2> HIDE DEF one
  <2>3. /\ IsNode(one[Root]) /\ one[Root].topic = query /\ one[Root].text = onPage
    BY <2>2, NodeFields
  <2>4. Root \in 0 .. counter
    BY DEF TreeTypeOK, Root
  <2>5. TreeUpTo(one, counter)
    BY <2>2, <2>3, <2>4 DEF TreeUpTo
  <2>6. DOMAIN tree = {}
    BY <1>1, NoTreeUpTo
  <2>7. ~Unlike => OwnTexts(one) /\ OwnText(one[Root], onPage)
    BY <1>1, <2>2, <2>3 DEF Unlike, OwnTexts, OwnText
  <2>8. current = Root
    BY <1>1 DEF TreeTypeOK
  <2> QED
    BY <1>1, <2>1, <2>2, <2>5, <2>6, <2>7, <2>8
<1>2. CASE tree # NoTree
  <2>1. PICK tr : tr = tree
    OBVIOUS
  <2>2. PICK i : i = current
    OBVIOUS
  <2>3. PICK text : text = onPage
    OBVIOUS
  <2>4. PICK new : new = Rooted
    OBVIOUS
  <2>5. PICK c \in Nat : c = counter
    BY DEF TreeTypeOK
  <2>6. new = IF i \in DOMAIN tr THEN [tr EXCEPT ![i].text = text] ELSE tr
    BY <1>2, <2>1, <2>2, <2>3, <2>4 DEF Rooted, Snapshot
  <2>7. TreeUpTo(tr, c) /\ Root \in DOMAIN tr
    BY <1>2, <2>1, <2>5 DEF TreeTypeOK, TreeUpTo
  <2>8. /\ TreeUpTo(new, c) /\ DOMAIN new = DOMAIN tr
        /\ \A id \in DOMAIN tr : new[id].topic = tr[id].topic
        /\ OwnTexts(tr) /\ (i \in DOMAIN tr => OwnText(tr[i], text)) => OwnTexts(new)
    <3>1. TextIn(tr, c, i, text, new)
      BY <2>6, <2>7, TextPutMaybe
    <3> QED
      BY <3>1 DEF TextIn
  <2>9. ASSUME OwnTextsInv, ShownInv
        PROVE  OwnTexts(new) /\ i \in DOMAIN new /\ OwnText(new[i], text)
    <3>1. OwnTexts(tr) /\ i \in DOMAIN tr /\ OwnText(tr[i], text)
      BY <1>2, <2>1, <2>2, <2>3, <2>9 DEF OwnTextsInv, ShownInv
    <3> QED
      BY <2>8, <3>1 DEF OwnText
  <2> QED
    BY <1>2, <2>1, <2>2, <2>3, <2>4, <2>5, <2>7, <2>8, <2>9
<1> QED
  BY <1>1, <1>2

\* startDrilldown, handleFindOutMore: children of the current node, which may be made first.
LEMMA CurrentGrows ==
    ASSUME TreeIInv, NEW n \in Nat, tree' = WithChildren(Rooted, current, n, NoSummary),
           counter' = counter + n
    PROVE  /\ TreeUpTo(tree', counter') /\ Root \in DOMAIN tree' /\ counter' \in Nat
           /\ KeepsTopics
           /\ \A id \in DOMAIN tree' \ DOMAIN Rooted :
                 tree'[id] = Node(current, topics + id - counter, NoSummary)
           /\ OwnTextsInv /\ ShownInv /\ ~Unlike =>
                 /\ OwnTexts(tree') /\ current \in DOMAIN tree'
                 /\ OwnText(tree'[current], onPage)
                 /\ tree # NoTree => tree'[current].topic = tree[current].topic
                 /\ \A id \in counter + 1 .. counter + n : id \in DOMAIN tree'
<1>1. TreeTypeOK
  BY DEF TreeIInv
<1>2. PICK tr : tr = Rooted
  OBVIOUS
<1>3. PICK up : up = current
  OBVIOUS
<1>4. PICK new : new = WithChildren(tr, up, n, NoSummary) /\ new = tree'
  BY <1>2, <1>3
<1>5. TreeUpTo(tr, counter) /\ counter \in Nat
  BY <1>1, <1>2, RootedProperties DEF TreeTypeOK
<1>6. /\ TreeUpTo(new, counter + n)
      /\ DOMAIN tr \subseteq DOMAIN new
      /\ DOMAIN new \subseteq DOMAIN tr \cup (counter + 1 .. counter + n)
      /\ \A id \in DOMAIN tr : new[id] = tr[id]
      /\ up \in DOMAIN tr => \A id \in counter + 1 .. counter + n : id \in DOMAIN new
      /\ \A id \in DOMAIN new \ DOMAIN tr : new[id] = Node(up, topics + id - counter, NoSummary)
  <2>1. Grown(tr, up, n, NoSummary, WithChildren(tr, up, n, NoSummary))
    BY <1>5, ChildrenAdded
  <2>2. Grown(tr, up, n, NoSummary, new)
    BY <1>4, <2>1
  <2> QED
    BY <2>2 DEF Grown
<1>7. counter' \in Nat /\ counter <= counter'
  BY <1>5
<1>8. Root \in DOMAIN new
  BY <1>1, <1>2, <1>6, RootedProperties
<1>9. ASSUME NEW id \in DOMAIN new, id \in 1 .. counter
      PROVE  id \in DOMAIN tree /\ new[id].topic = tree[id].topic
  <2>1. id \notin counter + 1 .. counter + n /\ id # Root
    BY <1>5, <1>9 DEF Root
  <2>2. id \in DOMAIN tr /\ new[id] = tr[id]
    BY <1>6, <2>1
  <2>3. id \in DOMAIN tree
    BY <1>1, <1>2, <2>1, <2>2, RootedProperties
  <2> QED
    BY <1>1, <1>2, <2>2, <2>3, RootedProperties
<1>10. KeepsTopics
  BY <1>4, <1>7, <1>9 DEF KeepsTopics
<1>11. ASSUME OwnTextsInv, ShownInv, ~Unlike
       PROVE  /\ OwnTexts(new) /\ up \in DOMAIN new
              /\ OwnText(new[up], onPage)
              /\ tree # NoTree => new[up].topic = tree[up].topic
              /\ \A id \in counter + 1 .. counter + n : id \in DOMAIN new
  <2>1. OwnTexts(tr) /\ up \in DOMAIN tr /\ OwnText(tr[up], onPage)
    BY <1>1, <1>2, <1>3, <1>11, RootedProperties
  <2>2. new[up] = tr[up] /\ up \in DOMAIN new
    BY <1>6, <2>1
  <2>3. ASSUME NEW id \in DOMAIN new PROVE OwnText(new[id], new[id].text)
    <3>1. CASE id \in DOMAIN tr
      BY <1>6, <2>1, <3>1 DEF OwnTexts
    <3>2. CASE id \notin DOMAIN tr
      <4>1. new[id] = Node(up, topics + id - counter, NoSummary)
        BY <1>6, <3>2
      <4> QED
        BY <4>1, NodeFields DEF OwnText
    <3> QED
      BY <3>1, <3>2
  <2>4. tree # NoTree => new[up].topic = tree[up].topic
    BY <1>1, <1>2, <2>1, <2>2, RootedProperties
  <2> QED
    BY <1>6, <2>1, <2>2, <2>3, <2>4 DEF OwnTexts
<1> QED
  BY <1>2, <1>3, <1>4, <1>6, <1>7, <1>8, <1>10, <1>11

LEMMA DrillKeeps ==
    ASSUME TreeIInv, NEW t \in 1 .. MaxTopics, Drill(t)
    PROVE  TreeIInv'
<1>1. /\ UNCHANGED <<adds, facts, stored, saving, opening, live>>
      /\ tree' = WithChildren(Rooted, current, 1, NoSummary) /\ counter' = counter + 1
      /\ current' = counter' /\ onPage' = NoSummary /\ ~loading /\ loading' = TRUE
      /\ drills' = drills \cup {t} /\ t = topics + 1 /\ topics' = t
  BY DEF Drill, Selectable, NewTopic, storeVars
<1>2. ASSUME ~disturbed' PROVE ~disturbed /\ ~Unlike
  <2>1. Disturbing(Unlike)
    BY DEF Drill
  <2> QED
    BY <1>2, <2>1, Zenon DEF Disturbing
<1>3. counter \in Nat /\ topics \in Nat /\ facts \in Seq([id : Nat, topic : Nat])
      /\ TreeTypeOK
  BY DEF TreeIInv, TreeTypeOK
<1>4. /\ TreeUpTo(tree', counter') /\ Root \in DOMAIN tree' /\ counter' \in Nat
      /\ KeepsTopics
      /\ \A id \in DOMAIN tree' \ DOMAIN Rooted :
            tree'[id] = Node(current, topics + id - counter, NoSummary)
      /\ OwnTextsInv /\ ShownInv /\ ~Unlike =>
            /\ OwnTexts(tree')
            /\ \A id \in counter + 1 .. counter + 1 : id \in DOMAIN tree'
  <2>1. 1 \in Nat
    OBVIOUS
  <2> QED
    BY <1>1, <2>1, CurrentGrows
<1>5. /\ TreeTypeOK' /\ StoreInv' /\ tree' # NoTree
      /\ OwnTextsInv /\ OwnTexts(tree') => OwnTextsInv'
  <2>1. topics' \in Nat
    BY <1>1, <1>3
  <2> QED
    BY <1>1, <1>3, <1>4, <2>1, NodesChange
<1>6. ASSUME ~disturbed' PROVE OwnTextsInv' /\ ShownInv' /\ AwaitedInv'
  <2>1. OwnTextsInv /\ ShownInv /\ AwaitedInv /\ ~Unlike
    BY <1>2, <1>6 DEF TreeIInv
  <2>2. OwnTextsInv' /\ AwaitedInv'
    BY <1>1, <1>3, <1>4, <1>5, <2>1, SameAwaited
  <2>3. live' = 0 /\ drills' = {t} /\ t # 0
    <3>1. live = 0 /\ drills = {}
      BY <1>1, <2>1 DEF ShownInv
    <3>2. t # 0
      BY <1>1, <1>3
    <3> QED
      BY <1>1, <3>1, <3>2
  <2>4. counter' \in DOMAIN tree' \ DOMAIN Rooted
    <3>1. counter + 1 \in DOMAIN tree'
      <4>1. counter + 1 \in counter + 1 .. counter + 1
        BY <1>3
      <4> QED
        BY <1>4, <2>1, <4>1
    <3>2. counter + 1 \notin 0 .. counter
      BY <1>3
    <3>3. DOMAIN Rooted \subseteq 0 .. counter
      BY <1>3, RootedProperties DEF TreeUpTo
    <3> QED
      BY <1>1, <3>1, <3>2, <3>3
  <2>5. tree'[counter'] = Node(current, t, NoSummary)
    <3>1. topics + counter' - counter = t
      BY <1>1, <1>3
    <3> QED
      BY <1>4, <2>4, <3>1
  <2>6. current' \in DOMAIN tree' /\ tree'[current'].topic = t
    BY <1>1, <2>4, <2>5, NodeFields
  <2>7. ShownInv'
    BY <1>1, <2>3, <2>6 DEF ShownInv, OwnText
  <2> QED
    BY <2>2, <2>7
<1> QED
  BY <1>5, <1>6 DEF TreeIInv

LEMMA FindOutMoreKeeps ==
    ASSUME TreeIInv, NEW first \in 1 .. MaxTopics, NEW n \in 1 .. 2, FindOutMore(first, n)
    PROVE  TreeIInv'
<1>1. /\ UNCHANGED <<adds, stored, saving, opening, live, current, onPage, loading, drills>>
      /\ tree' = WithChildren(Rooted, current, n, NoSummary) /\ counter' = counter + n
      /\ ~loading /\ topics' = topics + n
      /\ facts' = [k \in 1 .. n |-> [id |-> counter + k, topic |-> topics + k]]
  BY DEF FindOutMore, storeVars, pageVars
<1>2. ASSUME ~disturbed' PROVE ~disturbed /\ ~Unlike
  <2>1. Disturbing(Unlike)
    BY DEF FindOutMore
  <2> QED
    BY <1>2, <2>1, Zenon DEF Disturbing
<1>3. counter \in Nat /\ topics \in Nat /\ TreeTypeOK /\ n \in Nat
  BY DEF TreeIInv, TreeTypeOK
<1>4. /\ TreeUpTo(tree', counter') /\ Root \in DOMAIN tree' /\ counter' \in Nat
      /\ KeepsTopics
      /\ \A id \in DOMAIN tree' \ DOMAIN Rooted :
            tree'[id] = Node(current, topics + id - counter, NoSummary)
      /\ OwnTextsInv /\ ShownInv /\ ~Unlike =>
            /\ OwnTexts(tree') /\ current \in DOMAIN tree'
            /\ OwnText(tree'[current], onPage)
  BY <1>1, <1>3, CurrentGrows
<1>5. \A k \in 1 .. n : counter + k \in Nat /\ topics + k \in Nat
  BY <1>3
<1>6. facts' \in Seq([id : Nat, topic : Nat]) /\ DOMAIN facts' = 1 .. n
  <2>1. facts' \in [1 .. n -> [id : Nat, topic : Nat]]
    BY <1>1, <1>5
  <2>2. DOMAIN facts' = 1 .. n
    BY <1>1
  <2>3. facts' \in Seq([id : Nat, topic : Nat])
    <3> DEFINE S == [id : Nat, topic : Nat]
    <3>1. facts' \in [1 .. n -> S]
      BY <2>1
    <3> HIDE DEF S
    <3>2. Seq(S) = UNION {[1 .. k -> S] : k \in Nat}
      BY SeqDef
    <3>3. facts' \in Seq(S)
      BY <1>3, <3>1, <3>2
    <3> QED
      BY <3>3 DEF S
  <2> QED
    BY <2>2, <2>3
<1>7. /\ TreeTypeOK' /\ StoreInv' /\ tree' # NoTree
      /\ OwnTextsInv /\ OwnTexts(tree') => OwnTextsInv'
  <2>1. topics' \in Nat
    BY <1>1, <1>3
  <2> QED
    BY <1>1, <1>4, <1>6, <2>1, NodesChange
<1>8. ASSUME ~disturbed' PROVE OwnTextsInv' /\ ShownInv' /\ AwaitedInv'
  <2>1. OwnTextsInv /\ ShownInv /\ AwaitedInv /\ ~Unlike
    BY <1>2, <1>8 DEF TreeIInv
  <2>2. OwnTextsInv'
    BY <1>4, <1>7, <2>1
  <2>3. live' = 0 /\ drills' = {}
    BY <1>1, <2>1 DEF ShownInv
  <2>4. ShownInv'
    BY <1>1, <1>4, <2>1, <2>3 DEF ShownInv
  <2>5. ASSUME NEW a \in adds
        PROVE  a.id \in 1 .. counter' /\ (a.id \in DOMAIN tree' => tree'[a.id].topic = a.topic)
    <3>1. PICK b : b = a
      OBVIOUS
    <3>2. Awaited(b)
      BY <2>1, <3>1 DEF AwaitedInv
    <3> QED
      BY <1>3, <1>4, <3>1, <3>2, AwaitedStay
  <2>6. ASSUME NEW k \in 1 .. n
        PROVE  /\ facts'[k].id \in 1 .. counter'
               /\ facts'[k].id \in DOMAIN tree' => tree'[facts'[k].id].topic = facts'[k].topic
    <3>1. facts'[k].id = counter + k /\ facts'[k].topic = topics + k
      BY <1>1
    <3>2. counter + k \in 1 .. counter' /\ counter + k \notin 0 .. counter
          /\ topics + (counter + k) - counter = topics + k
      BY <1>1, <1>3
    <3>3. DOMAIN Rooted \subseteq 0 .. counter
      BY <1>3, RootedProperties DEF TreeUpTo
    <3>4. counter + k \in DOMAIN tree' => tree'[counter + k] = Node(current, topics + k, NoSummary)
      BY <1>4, <3>2, <3>3
    <3> QED
      BY <3>1, <3>2, <3>4, NodeFields
  <2>7. AwaitedInv'
    BY <1>1, <1>6, <2>5, <2>6 DEF AwaitedInv, Awaited
  <2> QED
    BY <2>2, <2>4, <2>7
<1> QED
  BY <1>7, <1>8 DEF TreeIInv

LEMMA AddNodeKeeps ==
    ASSUME TreeIInv, NEW up \in DOMAIN tree, NEW t \in 1 .. MaxTopics, AddNode(up, t)
    PROVE  TreeIInv'
<1>1. /\ UNCHANGED <<facts, stored, saving, opening, live, current, onPage, loading, drills>>
      /\ disturbed' = disturbed
      /\ tree' = WithChildren(tree, up, 1, t) /\ counter' = counter + 1
      /\ t = topics + 1 /\ topics' = t
      /\ adds' = adds \cup {[id |-> counter', topic |-> t]}
  BY DEF AddNode, NewTopic, storeVars, pageVars
<1>2. counter \in Nat /\ topics \in Nat /\ TreeTypeOK /\ facts \in Seq([id : Nat, topic : Nat])
      /\ TreeUpTo(tree, counter)
  BY DEF TreeIInv, TreeTypeOK
<1>3. Root \in DOMAIN tree /\ DOMAIN tree \subseteq 0 .. counter
  BY <1>2, NoTreeUpTo DEF TreeUpTo
<1>4. PICK tr : tr = tree
  OBVIOUS
<1>5. PICK new : new = WithChildren(tr, up, 1, t) /\ new = tree'
  BY <1>1, <1>4
<1>6. /\ TreeUpTo(new, counter + 1)
      /\ DOMAIN tr \subseteq DOMAIN new
      /\ DOMAIN new \subseteq DOMAIN tr \cup (counter + 1 .. counter + 1)
      /\ \A id \in DOMAIN tr : new[id] = tr[id]
      /\ \A id \in DOMAIN new \ DOMAIN tr : new[id] = Node(up, topics + id - counter, t)
  <2>1. TreeUpTo(tr, counter)
    BY <1>2, <1>4
  <2>2. PICK n \in Nat : n = 1
    OBVIOUS
  <2>3. Grown(tr, up, n, t, WithChildren(tr, up, n, t))
    BY <1>2, <2>1, ChildrenAdded
  <2>4. Grown(tr, up, 1, t, new)
    BY <1>5, <2>2, <2>3
  <2> QED
    BY <2>4 DEF Grown
<1>7. \A id \in DOMAIN new \ DOMAIN tr : id = counter + 1 /\ new[id] = Node(up, t, t)
  <2>1. \A id \in counter + 1 .. counter + 1 : id = counter + 1 /\ topics + id - counter = t
    BY <1>1, <1>2
  <2> QED
    BY <1>6, <2>1
<1>8. counter' \in Nat /\ counter <= counter' /\ topics' \in Nat /\ counter + 1 \notin 0 .. counter
      /\ counter' \in 1 .. counter'
  BY <1>1, <1>2
<1>9. KeepsTopics
  <2>1. ASSUME NEW id \in DOMAIN new, id \in 1 .. counter
        PROVE  id \in DOMAIN tr /\ new[id].topic = tr[id].topic
    <3>1. id # counter + 1
      BY <1>2, <2>1
    <3> QED
      BY <1>6, <1>7, <3>1
  <2> QED
    BY <1>4, <1>5, <1>8, <2>1 DEF KeepsTopics
<1>10. /\ TreeTypeOK' /\ StoreInv' /\ tree' # NoTree
       /\ OwnTextsInv /\ OwnTexts(tree') => OwnTextsInv'
  <2>1. TreeUpTo(tree', counter') /\ Root \in DOMAIN tree'
    BY <1>1, <1>3, <1>4, <1>5, <1>6
  <2> QED
    BY <1>1, <1>2, <1>8, <2>1, NodesChange
<1>11. ASSUME ~disturbed' PROVE OwnTextsInv' /\ ShownInv' /\ AwaitedInv'
  <2>1. OwnTextsInv /\ ShownInv /\ AwaitedInv
    BY <1>1, <1>11 DEF TreeIInv
  <2>2. OwnTextsInv'
    <3>1. ASSUME NEW id \in DOMAIN new PROVE OwnText(new[id], new[id].text)
      <4>1. CASE id \in DOMAIN tr
        BY <1>4, <1>6, <2>1, <4>1 DEF OwnTextsInv, OwnTexts
      <4>2. CASE id \notin DOMAIN tr
        BY <1>7, <4>2, NodeFields DEF OwnText
      <4> QED
        BY <4>1, <4>2
    <3> QED
      BY <1>5, <1>10, <2>1, <3>1 DEF OwnTexts
  <2>3. ShownInv'
    <3>1. tree # NoTree /\ current \in DOMAIN tree /\ tree'[current] = tree[current]
          /\ current \in DOMAIN tree'
      <4>1. tree # NoTree
        BY NoTreeUpTo
      <4> QED
        BY <1>4, <1>5, <1>6, <2>1, <4>1 DEF ShownInv
    <3> QED
      BY <1>1, <2>1, <3>1 DEF ShownInv
  <2>4. ASSUME NEW a \in adds'
        PROVE  a.id \in 1 .. counter' /\ (a.id \in DOMAIN tree' => tree'[a.id].topic = a.topic)
    <3>1. PICK b : b = a
      OBVIOUS
    <3>2. CASE b \in adds
      <4>1. Awaited(b)
        BY <2>1, <3>2 DEF AwaitedInv
      <4> QED
        BY <1>2, <1>9, <3>1, <4>1, AwaitedStay
    <3>3. CASE b = [id |-> counter', topic |-> t]
      <4>1. b.id = counter + 1 /\ b.topic = t /\ b.id \in 1 .. counter'
        BY <1>1, <1>8, <3>3
      <4>2. counter + 1 \notin DOMAIN tr
        BY <1>3, <1>4, <1>8
      <4>3. counter + 1 \in DOMAIN new => new[counter + 1].topic = t
        BY <1>7, <4>2, NodeFields
      <4> QED
        BY <1>5, <3>1, <4>1, <4>3
    <3> QED
      BY <1>1, <3>1, <3>2, <3>3
  <2>5. ASSUME NEW k \in DOMAIN facts
        PROVE  /\ facts[k].id \in 1 .. counter'
               /\ facts[k].id \in DOMAIN tree' => tree'[facts[k].id].topic = facts[k].topic
    <3>1. PICK b : b = facts[k]
      OBVIOUS
    <3>2. Awaited(b)
      BY <2>1, <3>1 DEF AwaitedInv
    <3> QED
      BY <1>2, <1>9, <3>1, <3>2, AwaitedStay
  <2>6. AwaitedInv'
    BY <1>1, <2>4, <2>5 DEF AwaitedInv, Awaited
  <2> QED
    BY <2>2, <2>3, <2>6
<1> QED
  BY <1>10, <1>11 DEF TreeIInv

\* Another text comes into a node, if it is there (Snapshot, Updated).
LEMMA TextComes ==
    ASSUME TreeIInv, NEW i, NEW text,
           tree' = IF i \in DOMAIN tree THEN [tree EXCEPT ![i].text = text] ELSE tree,
           UNCHANGED <<counter, topics, stored, saving, opening>>,
           tree = NoTree => current' = current,
           facts' \in Seq([id : Nat, topic : Nat])
    PROVE  /\ TreeTypeOK' /\ StoreInv'
           /\ KeepsTopics
           /\ DOMAIN tree' = DOMAIN tree /\ (tree' = NoTree <=> tree = NoTree)
           /\ \A id \in DOMAIN tree : tree'[id].topic = tree[id].topic
           /\ OwnTextsInv /\ (i \in DOMAIN tree => OwnText(tree[i], text)) => OwnTextsInv'
<1>1. TreeTypeOK /\ StoreInv /\ counter \in Nat /\ topics \in Nat /\ TreeUpTo(tree, counter)
  BY DEF TreeIInv, TreeTypeOK
<1>2. PICK tr, new : tr = tree /\ new = tree'
  OBVIOUS
<1>3. new = IF i \in DOMAIN tr THEN [tr EXCEPT ![i].text = text] ELSE tr
  BY <1>2
<1>4. PICK c \in Nat : c = counter
  BY <1>1
<1>5. TreeUpTo(tr, c)
  BY <1>1, <1>2, <1>4
<1>6. /\ TreeUpTo(new, c) /\ DOMAIN new = DOMAIN tr
      /\ \A id \in DOMAIN tr : new[id].topic = tr[id].topic
      /\ OwnTexts(tr) /\ (i \in DOMAIN tr => OwnText(tr[i], text)) => OwnTexts(new)
  <2>1. TextIn(tr, c, i, text, new)
    BY <1>3, <1>5, TextPutMaybe
  <2> QED
    BY <2>1 DEF TextIn
<1>7. new = NoTree <=> tr = NoTree
  <2>1. DOMAIN NoTree = {}
    BY NoTreeUpTo
  <2>2. tr # NoTree => Root \in DOMAIN tr
    BY <1>5 DEF TreeUpTo
  <2>3. tr = NoTree => new = tr
    BY <1>3, <2>1
  <2> QED
    BY <1>6, <2>1, <2>2, <2>3
<1>8. KeepsTopics
  BY <1>1, <1>2, <1>6 DEF KeepsTopics
<1>9. TreeTypeOK'
  BY <1>1, <1>2, <1>4, <1>6, <1>7 DEF TreeTypeOK
<1>10. StoreInv'
  BY <1>1 DEF StoreInv
<1>11. ASSUME OwnTextsInv, i \in DOMAIN tree => OwnText(tree[i], text)
       PROVE  OwnTextsInv'
  <2>1. OwnTexts(tree')
    BY <1>2, <1>6, <1>11 DEF OwnTextsInv
  <2> QED
    BY <1>11, <2>1 DEF OwnTextsInv
<1> QED
  BY <1>2, <1>6, <1>7, <1>8, <1>9, <1>10, <1>11

LEMMA NavigateKeeps ==
    ASSUME TreeIInv, NEW id \in DOMAIN tree, Navigate(id)
    PROVE  TreeIInv'
<1>1. /\ UNCHANGED <<counter, topics, adds, facts, drills, stored, saving, opening>>
      /\ live' = 0
  BY DEF Navigate, topicVars, flightVars, storeVars
<1>2. facts \in Seq([id : Nat, topic : Nat]) /\ topics \in Nat /\ TreeTypeOK
  BY DEF TreeIInv, TreeTypeOK
<1>3. tree # NoTree
  BY NoTreeUpTo
<1>4. CASE id = current
  <2>1. UNCHANGED <<tree, current, onPage, loading>> /\ Disturbing(live # 0 /\ loading)
    BY <1>4 DEF Navigate
  <2>2. ASSUME ~disturbed' PROVE ~disturbed /\ ~(live # 0 /\ loading)
    BY <2>1, <2>2, Zenon DEF Disturbing
  <2>3. /\ TreeTypeOK' /\ StoreInv'
        /\ ~disturbed' => OwnTextsInv' /\ AwaitedInv'
    BY <1>1, <1>2, <2>1, <2>2, NodesStay
  <2>4. ASSUME ~disturbed' PROVE ShownInv'
    <3>1. ShownInv /\ live = 0
      BY <2>2, <2>4 DEF TreeIInv, ShownInv
    <3> QED
      BY <1>1, <2>1, <3>1 DEF ShownInv
  <2> QED
    BY <2>3, <2>4 DEF TreeIInv
<1>5. CASE id # current
  <2>1. /\ tree' = Snapshot(current) /\ current' = id
        /\ onPage' = tree[id].text /\ loading' = FALSE
        /\ Disturbing(drills # {})
    BY <1>5 DEF Navigate
  <2>2. ASSUME ~disturbed' PROVE ~disturbed /\ drills = {}
    BY <2>1, <2>2, Zenon DEF Disturbing
  <2>3. PICK i, text : i = current /\ text = onPage
    OBVIOUS
  <2>4. tree' = IF i \in DOMAIN tree THEN [tree EXCEPT ![i].text = text] ELSE tree
    BY <2>1, <2>3 DEF Snapshot
  <2>5. /\ TreeTypeOK' /\ StoreInv'
        /\ KeepsTopics
        /\ DOMAIN tree' = DOMAIN tree
        /\ \A k \in DOMAIN tree : tree'[k].topic = tree[k].topic
        /\ OwnTextsInv /\ (i \in DOMAIN tree => OwnText(tree[i], text)) => OwnTextsInv'
    BY <1>1, <1>2, <1>3, <2>4, TextComes
  <2>6. ASSUME ~disturbed' PROVE OwnTextsInv' /\ ShownInv' /\ AwaitedInv'
    <3>1. OwnTextsInv /\ ShownInv /\ AwaitedInv /\ drills = {}
      BY <2>2, <2>6 DEF TreeIInv
    <3>2. OwnTextsInv'
      BY <1>3, <2>3, <2>5, <3>1 DEF ShownInv
    <3>3. OwnText(tree'[id], tree[id].text)
      BY <2>5, <3>1 DEF OwnTextsInv, OwnTexts, OwnText
    <3>4. ShownInv'
      BY <1>1, <2>1, <2>5, <3>1, <3>3 DEF ShownInv
    <3>5. AwaitedInv'
      BY <1>1, <1>2, <2>5, <3>1, SameAwaited
    <3> QED
      BY <3>2, <3>4, <3>5
  <2> QED
    BY <2>5, <2>6 DEF TreeIInv
<1> QED
  BY <1>4, <1>5

\* What is shown stays as it is while its node has its topic.
LEMMA ShownStays ==
    ASSUME ShownInv, DOMAIN tree' = DOMAIN tree, tree' = NoTree <=> tree = NoTree,
           \A id \in DOMAIN tree : tree'[id].topic = tree[id].topic,
           UNCHANGED <<current, onPage, loading, live, drills>>
    PROVE  ShownInv'
BY DEF ShownInv, OwnText

LEMMA FactKeeps ==
    ASSUME TreeIInv, FactAnswers
    PROVE  TreeIInv'
<1>1. /\ UNCHANGED <<counter, topics, current, onPage, loading, live, adds, drills, stored,
                     saving, opening>>
      /\ disturbed' = disturbed /\ facts # <<>> /\ facts' = Tail(facts)
      /\ tree' = Updated(Head(facts).id, Head(facts).topic)
  BY DEF FactAnswers, topicVars, pageVars, storeVars
<1>2. facts \in Seq([id : Nat, topic : Nat]) /\ TreeTypeOK
  BY DEF TreeIInv, TreeTypeOK
<1>3. /\ facts' \in Seq([id : Nat, topic : Nat]) /\ Head(facts) = facts[1] /\ 1 \in DOMAIN facts
      /\ DOMAIN facts' = 1 .. Len(facts) - 1 /\ DOMAIN facts = 1 .. Len(facts)
      /\ \A k \in 1 .. Len(facts) - 1 : facts'[k] = facts[k + 1]
  <2>1. /\ Tail(facts) \in Seq([id : Nat, topic : Nat]) /\ Len(Tail(facts)) = Len(facts) - 1
        /\ \A k \in 1 .. Len(Tail(facts)) : Tail(facts)[k] = facts[k + 1]
        /\ Head(facts) = facts[1] /\ Len(facts) \in Nat /\ Len(facts) # 0
    BY <1>1, <1>2, HeadTailProperties, EmptySeq, LenProperties
  <2>2. DOMAIN facts = 1 .. Len(facts) /\ DOMAIN Tail(facts) = 1 .. Len(Tail(facts))
    BY <1>2, <2>1, LenProperties
  <2> QED
    BY <1>1, <2>1, <2>2
<1>4. PICK i, text : i = facts[1].id /\ text = facts[1].topic
  OBVIOUS
<1>5. tree' = IF i \in DOMAIN tree THEN [tree EXCEPT ![i].text = text] ELSE tree
  BY <1>1, <1>3, <1>4 DEF Updated
<1>6. /\ TreeTypeOK' /\ StoreInv'
      /\ KeepsTopics
      /\ DOMAIN tree' = DOMAIN tree /\ (tree' = NoTree <=> tree = NoTree)
      /\ \A id \in DOMAIN tree : tree'[id].topic = tree[id].topic
      /\ OwnTextsInv /\ (i \in DOMAIN tree => OwnText(tree[i], text)) => OwnTextsInv'
  BY <1>1, <1>3, <1>5, TextComes
<1>7. ASSUME ~disturbed' PROVE OwnTextsInv' /\ ShownInv' /\ AwaitedInv'
  <2>1. OwnTextsInv /\ ShownInv /\ AwaitedInv
    BY <1>1, <1>7 DEF TreeIInv
  <2>2. i \in DOMAIN tree => OwnText(tree[i], text)
    BY <1>3, <1>4, <2>1 DEF AwaitedInv, Awaited, OwnText
  <2>3. ShownInv'
    BY <1>1, <1>6, <2>1, ShownStays
  <2>4. ASSUME NEW k \in 1 .. Len(facts) - 1
        PROVE  /\ facts'[k].id \in 1 .. counter'
               /\ facts'[k].id \in DOMAIN tree' => tree'[facts'[k].id].topic = facts'[k].topic
    <3>1. PICK b : b = facts[k + 1]
      OBVIOUS
    <3>2. k + 1 \in DOMAIN facts /\ b = facts'[k]
      <4>1. Len(facts) \in Nat
        BY <1>2, LenProperties
      <4>2. k + 1 \in 1 .. Len(facts)
        BY <4>1
      <4> QED
        BY <1>3, <3>1, <4>2
    <3>3. Awaited(b)
      BY <2>1, <3>1, <3>2 DEF AwaitedInv
    <3> QED
      BY <1>2, <1>6, <3>2, <3>3, AwaitedStay
  <2>5. ASSUME NEW a \in adds
        PROVE  a.id \in 1 .. counter' /\ (a.id \in DOMAIN tree' => tree'[a.id].topic = a.topic)
    <3>1. PICK b : b = a
      OBVIOUS
    <3>2. Awaited(b)
      BY <2>1, <3>1 DEF AwaitedInv
    <3> QED
      BY <1>2, <1>6, <3>1, <3>2, AwaitedStay
  <2>6. AwaitedInv'
    BY <1>1, <1>3, <2>4, <2>5 DEF AwaitedInv, Awaited
  <2> QED
    BY <1>6, <2>1, <2>2, <2>3, <2>6
<1> QED
  BY <1>6, <1>7 DEF TreeIInv

LEMMA AddAnswersKeeps ==
    ASSUME TreeIInv, NEW a \in adds, AddAnswers(a)
    PROVE  TreeIInv'
<1>1. /\ UNCHANGED <<counter, topics, current, onPage, loading, live, facts, drills, stored,
                     saving, opening>>
      /\ disturbed' = disturbed /\ adds' = adds \ {a} /\ tree' = Updated(a.id, a.topic)
  BY DEF AddAnswers, topicVars, pageVars, storeVars
<1>2. facts \in Seq([id : Nat, topic : Nat]) /\ TreeTypeOK
  BY DEF TreeIInv, TreeTypeOK
<1>3. PICK i, text : i = a.id /\ text = a.topic
  OBVIOUS
<1>4. tree' = IF i \in DOMAIN tree THEN [tree EXCEPT ![i].text = text] ELSE tree
  BY <1>1, <1>3 DEF Updated
<1>5. /\ TreeTypeOK' /\ StoreInv'
      /\ KeepsTopics
      /\ DOMAIN tree' = DOMAIN tree /\ (tree' = NoTree <=> tree = NoTree)
      /\ \A id \in DOMAIN tree : tree'[id].topic = tree[id].topic
      /\ OwnTextsInv /\ (i \in DOMAIN tree => OwnText(tree[i], text)) => OwnTextsInv'
  BY <1>1, <1>2, <1>4, TextComes
<1>6. ASSUME ~disturbed' PROVE OwnTextsInv' /\ ShownInv' /\ AwaitedInv'
  <2>1. OwnTextsInv /\ ShownInv /\ AwaitedInv
    BY <1>1, <1>6 DEF TreeIInv
  <2>2. i \in DOMAIN tree => OwnText(tree[i], text)
    BY <1>3, <2>1 DEF AwaitedInv, Awaited, OwnText
  <2>3. ShownInv'
    BY <1>1, <1>5, <2>1, ShownStays
  <2>4. ASSUME NEW b \in adds
        PROVE  b.id \in 1 .. counter' /\ (b.id \in DOMAIN tree' => tree'[b.id].topic = b.topic)
    <3>1. Awaited(b)
      BY <2>1 DEF AwaitedInv
    <3> QED
      BY <1>2, <1>5, <3>1, AwaitedStay
  <2>5. ASSUME NEW k \in DOMAIN facts
        PROVE  /\ facts[k].id \in 1 .. counter'
               /\ facts[k].id \in DOMAIN tree' => tree'[facts[k].id].topic = facts[k].topic
    <3>1. PICK b : b = facts[k]
      OBVIOUS
    <3>2. Awaited(b)
      BY <2>1, <3>1 DEF AwaitedInv
    <3> QED
      BY <1>2, <1>5, <3>1, <3>2, AwaitedStay
  <2>6. AwaitedInv'
    BY <1>1, <2>4, <2>5 DEF AwaitedInv, Awaited
  <2> QED
    BY <1>5, <2>1, <2>2, <2>3, <2>6
<1> QED
  BY <1>5, <1>6 DEF TreeIInv

LEMMA GlobalKeeps ==
    ASSUME TreeIInv, GlobalAnswers
    PROVE  TreeIInv'
<1>1. /\ UNCHANGED <<counter, topics, current, loading, live, adds, facts, drills, stored,
                     saving, opening>>
      /\ onPage' = global /\ tree' = Updated(Root, global)
      /\ Disturbing(tree = NoTree \/ current # Root \/ tree[Root].topic # global)
  BY DEF GlobalAnswers, topicVars, storeVars
<1>2. facts \in Seq([id : Nat, topic : Nat]) /\ TreeTypeOK
  BY DEF TreeIInv, TreeTypeOK
<1>3. ASSUME ~disturbed'
      PROVE  ~disturbed /\ tree # NoTree /\ current = Root /\ tree[Root].topic = global
  BY <1>1, <1>3, Zenon DEF Disturbing
<1>4. PICK i, text : i = Root /\ text = global
  OBVIOUS
<1>5. tree' = IF i \in DOMAIN tree THEN [tree EXCEPT ![i].text = text] ELSE tree
  BY <1>1, <1>4 DEF Updated
<1>6. /\ TreeTypeOK' /\ StoreInv'
      /\ KeepsTopics
      /\ DOMAIN tree' = DOMAIN tree /\ (tree' = NoTree <=> tree = NoTree)
      /\ \A id \in DOMAIN tree : tree'[id].topic = tree[id].topic
      /\ OwnTextsInv /\ (i \in DOMAIN tree => OwnText(tree[i], text)) => OwnTextsInv'
  BY <1>1, <1>2, <1>5, TextComes
<1>7. ASSUME ~disturbed' PROVE OwnTextsInv' /\ ShownInv' /\ AwaitedInv'
  <2>1. OwnTextsInv /\ ShownInv /\ AwaitedInv
    BY <1>3, <1>7 DEF TreeIInv
  <2>2. OwnText(tree[i], text)
    BY <1>3, <1>4, <1>7 DEF OwnText
  <2>3. ShownInv'
    BY <1>1, <1>3, <1>6, <1>7, <2>1 DEF ShownInv, OwnText
  <2> QED
    BY <1>1, <1>2, <1>6, <2>1, <2>2, <2>3, SameAwaited
<1> QED
  BY <1>6, <1>7 DEF TreeIInv

LEMMA RemoveKeeps ==
    ASSUME TreeIInv, NEW id \in DOMAIN tree, RemoveNode(id)
    PROVE  TreeIInv'
<1> DEFINE left == DOMAIN tree \ Below(id)
<1>1. /\ UNCHANGED <<counter, topics, onPage, loading, live, adds, facts, drills, stored,
                     saving, opening>>
      /\ id # Root /\ tree' = [n \in left |-> tree[n]]
      /\ current' = IF current = id THEN Root ELSE current
      /\ Disturbing(current \in Below(id))
  BY DEF RemoveNode, topicVars, pageVars, flightVars, storeVars
<1>2. /\ counter \in Nat /\ topics \in Nat /\ TreeTypeOK /\ facts \in Seq([id : Nat, topic : Nat])
      /\ TreeUpTo(tree, counter)
  BY DEF TreeIInv, TreeTypeOK
<1>3. ASSUME ~disturbed' PROVE ~disturbed /\ current \notin Below(id)
  BY <1>1, <1>3, Zenon DEF Disturbing
<1>4. /\ id \in Below(id) /\ Root \notin Below(id)
      /\ \A n \in DOMAIN tree \ {Root} : n \notin Below(id) => tree[n].up \notin Below(id)
  BY <1>1, <1>2, BelowProperties
<1>5. /\ DOMAIN tree' = left /\ tree' = [n \in DOMAIN tree' |-> tree'[n]]
      /\ \A n \in left : tree'[n] = tree[n]
  BY <1>1
<1>6. Root \in DOMAIN tree /\ tree # NoTree
  BY <1>2, NoTreeUpTo DEF TreeUpTo
<1>7. TreeUpTo(tree', counter')
  <2>1. \A n \in DOMAIN tree' \ {Root} : tree'[n].up \in DOMAIN tree' /\ tree'[n].up < n
    BY <1>2, <1>4, <1>5 DEF TreeUpTo
  <2>2. DOMAIN tree' \subseteq 0 .. counter' /\ \A n \in DOMAIN tree' : IsNode(tree'[n])
    BY <1>1, <1>2, <1>5 DEF TreeUpTo
  <2>3. Root \in DOMAIN tree'
    BY <1>4, <1>5, <1>6
  <2> QED
    BY <1>5, <2>1, <2>2, <2>3 DEF TreeUpTo
<1>8. /\ TreeTypeOK' /\ StoreInv' /\ tree' # NoTree
      /\ OwnTextsInv /\ OwnTexts(tree') => OwnTextsInv'
  <2>1. Root \in DOMAIN tree'
    BY <1>4, <1>5, <1>6
  <2> QED
    BY <1>1, <1>2, <1>7, <2>1, NodesChange
<1>9. KeepsTopics
  BY <1>1, <1>2, <1>5 DEF KeepsTopics
<1>10. ASSUME ~disturbed' PROVE OwnTextsInv' /\ ShownInv' /\ AwaitedInv'
  <2>1. OwnTextsInv /\ ShownInv /\ AwaitedInv /\ current \notin Below(id)
    BY <1>3, <1>10 DEF TreeIInv
  <2>2. OwnTextsInv'
    BY <1>5, <1>8, <2>1 DEF OwnTextsInv, OwnTexts
  <2>3. /\ current' = current /\ current \in DOMAIN tree /\ current \in DOMAIN tree'
        /\ tree'[current] = tree[current]
    BY <1>1, <1>4, <1>5, <1>6, <2>1 DEF ShownInv
  <2>4. ShownInv'
    BY <1>1, <1>6, <2>1, <2>3 DEF ShownInv
  <2> QED
    BY <1>1, <1>2, <1>9, <2>1, <2>2, <2>4, SameAwaited
<1> QED
  BY <1>8, <1>10 DEF TreeIInv

-----------------------------------------------------------------------------
(* Saved research                                                          *)

\* A function on 1 .. n is a sequence of what it gives.
LEMMA ListOfItsOwn ==
    ASSUME NEW n \in Nat, NEW f, f = [i \in 1 .. n |-> f[i]]
    PROVE  f \in Seq(ToSet(f)) /\ DOMAIN f = 1 .. n
<1> DEFINE S == ToSet(f)
<1>1. DOMAIN f = 1 .. n
  OBVIOUS
<1>2. \A i \in 1 .. n : f[i] \in S
  BY <1>1 DEF ToSet
<1> HIDE DEF S
<1>3. f \in [1 .. n -> S]
  BY <1>1, <1>2
<1>4. Seq(S) = UNION {[1 .. k -> S] : k \in Nat}
  BY SeqDef
<1>5. f \in Seq(S)
  BY <1>3, <1>4
<1> QED
  BY <1>1, <1>5 DEF S

\* Saving, deleting and asking for saved research change nothing on the page.
LEMMA StoreChanges ==
    ASSUME TreeIInv, StoreInv', disturbed' = disturbed,
           UNCHANGED <<topics, tree, current, counter, onPage, loading, live, drills, adds, facts>>,
           OwnTextsInv /\ ShownInv => /\ \A i \in DOMAIN stored' : OwnTexts(stored'[i].tree)
                                   /\ \A s \in saving' : OwnTexts(s.tree)
    PROVE  TreeIInv'
<1>1. TreeTypeOK'
  BY DEF TreeIInv, TreeTypeOK
<1>2. ASSUME ~disturbed' PROVE OwnTextsInv' /\ ShownInv' /\ AwaitedInv'
  <2>1. OwnTextsInv /\ ShownInv /\ AwaitedInv
    BY <1>2 DEF TreeIInv
  <2>2. OwnTextsInv'
    BY <2>1 DEF OwnTextsInv
  <2>3. ShownInv' /\ AwaitedInv'
    BY <2>1 DEF ShownInv, AwaitedInv, Awaited
  <2> QED
    BY <2>2, <2>3
<1> QED
  BY <1>1, <1>2 DEF TreeIInv

LEMMA SaveTreeKeeps ==
    ASSUME TreeIInv, SaveTree
    PROVE  TreeIInv'
<1>1. /\ UNCHANGED <<topics, tree, current, counter, onPage, loading, live, drills, adds, facts,
                     stored, opening, disturbed>>
      /\ tree # NoTree /\ saving' = {[to |-> savedId, tree |-> Snapshot(current), query |-> query]}
  BY DEF SaveTree, topicVars, nodeVars, pageVars, shownVars, flightVars
<1>2. TreeUpTo(tree, counter) /\ counter \in Nat
  BY DEF TreeIInv, TreeTypeOK
<1>3. PICK tr, i, text, new, c : /\ tr = tree /\ i = current /\ text = onPage
                                 /\ new = Snapshot(current) /\ c = counter
  OBVIOUS
<1>4. TextIn(tr, c, i, text, new)
  <2>1. new = IF i \in DOMAIN tr THEN [tr EXCEPT ![i].text = text] ELSE tr
    BY <1>3 DEF Snapshot
  <2>2. TreeUpTo(tr, c) /\ c \in Nat
    BY <1>2, <1>3
  <2> QED
    BY <2>1, <2>2, TextPutMaybe
<1>5. AnyTree(new)
  BY <1>1, <1>2, <1>3, <1>4 DEF TextIn, AnyTree, TreeUpTo
<1>6. \A s \in saving' : s.tree = new
  BY <1>1, <1>3
<1>7. StoreInv'
  BY <1>1, <1>5, <1>6 DEF TreeIInv, StoreInv
<1>8. ASSUME OwnTextsInv, ShownInv
      PROVE  /\ \A k \in DOMAIN stored' : OwnTexts(stored'[k].tree)
             /\ \A s \in saving' : OwnTexts(s.tree)
  <2>1. OwnTexts(tr) /\ OwnText(tr[i], text)
    BY <1>1, <1>3, <1>8 DEF OwnTextsInv, ShownInv
  <2>2. OwnTexts(new)
    BY <1>4, <2>1 DEF TextIn
  <2> QED
    BY <1>1, <1>6, <1>8, <2>2 DEF OwnTextsInv
<1> QED
  BY <1>1, <1>7, <1>8, StoreChanges

\* The rows of the store, old and new, with trees that were stored or are being saved.
RowsFrom(new, old, sent) ==
    /\ new \in Seq(ToSet(new)) /\ DOMAIN old \subseteq DOMAIN new
    /\ \A i \in DOMAIN new : /\ Row(new[i])
                             /\ \/ \E j \in DOMAIN old : new[i].tree = old[j].tree
                                \/ \E s \in sent : new[i].tree = s.tree

LEMMA RowsStored ==
    ASSUME TreeIInv, RowsFrom(stored', stored, saving), saving' \subseteq saving,
           opening' \in {0, opening} \cup DOMAIN stored, disturbed' = disturbed,
           UNCHANGED <<topics, tree, current, counter, onPage, loading, live, drills, adds, facts>>
    PROVE  TreeIInv'
<1>1. StoreInv
  BY DEF TreeIInv
<1>2. \A i \in DOMAIN stored' : Row(stored'[i]) /\ AnyTree(stored'[i].tree)
  BY <1>1 DEF StoreInv, RowsFrom
<1>3. opening' # 0 => opening' \in DOMAIN stored'
  BY <1>1 DEF StoreInv, RowsFrom
<1>4. StoreInv'
  BY <1>1, <1>2, <1>3 DEF StoreInv, RowsFrom
<1>5. OwnTextsInv => /\ \A i \in DOMAIN stored' : OwnTexts(stored'[i].tree)
                  /\ \A s \in saving' : OwnTexts(s.tree)
  BY DEF OwnTextsInv, RowsFrom
<1> QED
  BY <1>4, <1>5, StoreChanges

LEMMA RowsStay ==
    ASSUME StoreInv
    PROVE  RowsFrom(stored, stored, saving)
BY DEF StoreInv, RowsFrom

LEMMA RowAdded ==
    ASSUME StoreInv, NEW s \in saving, NEW x, Row(x), x.tree = s.tree
    PROVE  RowsFrom(Append(stored, x), stored, saving)
<1> DEFINE n == Len(stored)
           T == ToSet(stored) \cup {x}
<1>1. stored \in Seq(ToSet(stored)) /\ n \in Nat /\ DOMAIN stored = 1 .. n
      /\ stored \in [1 .. n -> ToSet(stored)]
  BY LenProperties DEF StoreInv
<1>2. stored \in Seq(T)
  <2>1. stored \in [1 .. n -> T]
    BY <1>1
  <2> HIDE DEF T, n
  <2>2. Seq(T) = UNION {[1 .. k -> T] : k \in Nat}
    BY SeqDef
  <2> QED
    BY <1>1, <2>1, <2>2
<1>3. x \in T
  OBVIOUS
<1>4. PICK new : new = Append(stored, x)
  OBVIOUS
<1> HIDE DEF T
<1>5. /\ new \in Seq(T) /\ Len(new) = n + 1
      /\ \A i \in 1 .. n : new[i] = stored[i]
      /\ new[n + 1] = x
  BY <1>2, <1>3, <1>4, AppendProperties
<1>6. DOMAIN new = 1 .. n + 1 /\ new = [i \in 1 .. n + 1 |-> new[i]]
  BY <1>5, LenProperties
<1> HIDE DEF n
<1>7. n + 1 \in Nat /\ 1 .. n \subseteq 1 .. n + 1 /\ \A i \in 1 .. n + 1 : i \in 1 .. n \/ i = n + 1
  BY <1>1
<1>8. new \in Seq(ToSet(new))
  BY <1>6, <1>7, ListOfItsOwn
<1>9. \A i \in DOMAIN new : new[i] = x \/ (i \in DOMAIN stored /\ new[i] = stored[i])
  BY <1>1, <1>5, <1>6, <1>7
<1>10. \A i \in DOMAIN stored : Row(stored[i])
  BY DEF StoreInv
<1> QED
  BY <1>1, <1>4, <1>6, <1>7, <1>8, <1>9, <1>10 DEF RowsFrom

LEMMA RowRewritten ==
    ASSUME StoreInv, NEW k, NEW x, Row(x), NEW new, new = [stored EXCEPT ![k] = x],
           \/ k \in DOMAIN stored /\ x.tree = stored[k].tree
           \/ \E s \in saving : x.tree = s.tree
    PROVE  RowsFrom(new, stored, saving)
<1> DEFINE n == Len(stored)
<1>1. stored \in Seq(ToSet(stored)) /\ n \in Nat /\ DOMAIN stored = 1 .. n
  BY LenProperties DEF StoreInv
<1> HIDE DEF n
<1>2. DOMAIN new = DOMAIN stored /\ new = [i \in 1 .. n |-> new[i]]
      /\ \A i \in DOMAIN stored : new[i] = IF i = k THEN x ELSE stored[i]
  BY <1>1
<1>3. new \in Seq(ToSet(new))
  BY <1>1, <1>2, ListOfItsOwn
<1>4. \A i \in DOMAIN new : new[i] = x \/ (i \in DOMAIN stored /\ new[i] = stored[i])
  BY <1>2
<1>5. \A i \in DOMAIN stored : Row(stored[i])
  BY DEF StoreInv
<1> QED
  BY <1>2, <1>3, <1>4, <1>5 DEF RowsFrom

LEMMA SaveAnswersKeeps ==
    ASSUME TreeIInv, NEW s \in saving, SaveAnswers(s)
    PROVE  TreeIInv'
<1>1. /\ UNCHANGED <<topics, tree, current, counter, onPage, loading, live, drills, adds, facts,
                     opening, disturbed>>
      /\ saving' = {}
      /\ \/ stored' = Append(stored,
                          [tree |-> s.tree, query |-> s.query, first |-> s.tree[Root].topic, gone |-> FALSE])
         \/ stored' = [stored EXCEPT ![s.to].tree = s.tree]
  BY DEF SaveAnswers, topicVars, nodeVars, pageVars, shownVars, flightVars, bounds
<1>2. StoreInv
  BY DEF TreeIInv
<1>3. RowsFrom(stored', stored, saving)
  <2>1. CASE stored' = Append(stored,
                          [tree |-> s.tree, query |-> s.query, first |-> s.tree[Root].topic, gone |-> FALSE])
    <3>1. PICK x : x = [tree |-> s.tree, query |-> s.query, first |-> s.tree[Root].topic, gone |-> FALSE]
      OBVIOUS
    <3>2. x.tree = s.tree /\ Row(x)
      BY <3>1 DEF Row
    <3>3. RowsFrom(Append(stored, x), stored, saving)
      BY <1>2, <3>2, RowAdded
    <3> QED
      BY <2>1, <3>1, <3>3
  <2>2. CASE stored' = [stored EXCEPT ![s.to].tree = s.tree]
    <3>1. PICK k : k = s.to
      OBVIOUS
    <3>2. CASE k \in DOMAIN stored
      <4>1. PICK x : x = [stored[k] EXCEPT !.tree = s.tree]
        OBVIOUS
      <4>2. stored[k] = [tree |-> stored[k].tree, query |-> stored[k].query,
                         first |-> stored[k].first, gone |-> stored[k].gone]
        BY <1>2, <3>2 DEF StoreInv, Row
      <4>3. x = [tree |-> s.tree, query |-> stored[k].query, first |-> stored[k].first,
                   gone |-> stored[k].gone]
        BY <4>1, <4>2
      <4>4. Row(x) /\ x.tree = s.tree
        BY <4>3 DEF Row
      <4>5. stored' = [stored EXCEPT ![k] = x]
        BY <2>2, <3>1, <4>1
      <4> QED
        BY <1>2, <4>4, <4>5, RowRewritten
    <3>3. CASE k \notin DOMAIN stored
      <4>1. stored \in Seq(ToSet(stored))
        BY <1>2 DEF StoreInv
      <4>2. stored = [i \in DOMAIN stored |-> stored[i]]
        BY <4>1, LenProperties
      <4>3. stored' = stored
        BY <2>2, <3>1, <3>3, <4>2
      <4> QED
        BY <1>2, <4>3, RowsStay
    <3> QED
      BY <3>2, <3>3
  <2> QED
    BY <1>1, <2>1, <2>2
<1> QED
  BY <1>1, <1>3, RowsStored

LEMMA DeleteKeeps ==
    ASSUME TreeIInv, NEW i \in DOMAIN stored, Delete(i)
    PROVE  TreeIInv'
<1>1. /\ UNCHANGED <<topics, tree, current, counter, onPage, loading, live, drills, adds, facts,
                     saving, opening, disturbed>>
      /\ stored' = [stored EXCEPT ![i].gone = TRUE]
  BY DEF Delete, topicVars, nodeVars, pageVars, shownVars, flightVars
<1>2. StoreInv
  BY DEF TreeIInv
<1>3. PICK x : x = [stored[i] EXCEPT !.gone = TRUE]
  OBVIOUS
<1>4. stored[i] = [tree |-> stored[i].tree, query |-> stored[i].query, first |-> stored[i].first,
                   gone |-> stored[i].gone]
  BY <1>2 DEF StoreInv, Row
<1>5. x = [tree |-> stored[i].tree, query |-> stored[i].query, first |-> stored[i].first, gone |-> TRUE]
  BY <1>3, <1>4
<1>6. Row(x) /\ x.tree = stored[i].tree
  BY <1>5 DEF Row
<1>7. PICK new : new = stored'
  OBVIOUS
<1>8. new = [stored EXCEPT ![i] = x]
  BY <1>1, <1>3, <1>7
<1>9. RowsFrom(new, stored, saving)
  BY <1>2, <1>6, <1>8, RowRewritten
<1> QED
  BY <1>1, <1>7, <1>9, RowsStored

LEMMA StoreAsked ==
    ASSUME TreeIInv, SaveFails \/ LoadFails \/ \E i \in DOMAIN stored : Load(i)
    PROVE  TreeIInv'
<1>1. /\ UNCHANGED <<topics, tree, current, counter, onPage, loading, live, drills, adds, facts,
                     stored, disturbed>>
      /\ saving' \in {{}, saving} /\ opening' \in {0, opening} \cup DOMAIN stored
  BY DEF SaveFails, LoadFails, Load, topicVars, nodeVars, pageVars, shownVars, flightVars, bounds
<1>2. StoreInv
  BY DEF TreeIInv
<1>3. RowsFrom(stored', stored, saving)
  BY <1>1, <1>2, RowsStay
<1> QED
  BY <1>1, <1>3, RowsStored

\* The highest id of a tree is its own, and no node's is higher.
LEMMA HighestOf ==
    ASSUME NEW c \in Nat, NEW S \in SUBSET (0 .. c), S # {}
    PROVE  Max(S) \in S /\ \A k \in S : k <= Max(S)
<1> DEFINE T == {m \in Nat : \A k \in S : k <= m}
<1>1. T \in SUBSET Nat /\ c \in T
  OBVIOUS
<1>2. PICK m \in T : \A k \in T : m <= k
  <2> HIDE DEF T
  <2> QED
    BY <1>1, LeastOf
<1>3. m \in Nat /\ \A k \in S : k <= m
  BY <1>2
<1>4. m \in S
  <2>1. ASSUME m \notin S PROVE FALSE
    <3>1. \A k \in S : k < m
      BY <1>3, <2>1
    <3>2. m # 0
      <4>1. PICK k : k \in S /\ k \in 0 .. c
        OBVIOUS
      <4> QED
        BY <3>1, <4>1
    <3>3. m - 1 \in Nat /\ ~(m <= m - 1)
      BY <1>3, <3>2
    <3>4. \A k \in S : k <= m - 1
      BY <1>3, <3>1
    <3> QED
      BY <1>2, <3>3, <3>4
  <2> QED
    BY <2>1
<1>5. \A k \in S : m >= k
  BY <1>3
<1>6. Max(S) \in S /\ \A k \in S : Max(S) >= k
  BY <1>4, <1>5 DEF Max
<1> QED
  BY <1>6

LEMMA LoadAnswersKeeps ==
    ASSUME TreeIInv, LoadAnswers
    PROVE  TreeIInv'
<1>1. /\ UNCHANGED <<topics, live, drills, adds, facts, stored, saving>>
      /\ opening # 0 /\ opening' = 0
      /\ tree' = stored[opening].tree /\ current' = Root /\ counter' = HighestId(tree')
      /\ onPage' = tree'[Root].text /\ loading' = FALSE
      /\ Disturbing(live # 0 \/ drills # {} \/ adds # {} \/ facts # <<>> \/ global # 0)
  BY DEF LoadAnswers, flightVars
<1>2. StoreInv /\ TreeTypeOK
  BY DEF TreeIInv
<1>3. ASSUME ~disturbed'
      PROVE  ~disturbed /\ live = 0 /\ drills = {} /\ adds = {} /\ facts = <<>>
  BY <1>1, <1>3, Zenon DEF Disturbing
<1>4. opening \in DOMAIN stored
  BY <1>1, <1>2 DEF StoreInv
<1>5. PICK tr : tr = tree'
  OBVIOUS
<1>6. AnyTree(tr)
  BY <1>1, <1>2, <1>4, <1>5 DEF StoreInv
<1>7. PICK c \in Nat : TreeUpTo(tr, c)
  BY <1>6 DEF AnyTree
<1>8. Root \in DOMAIN tr /\ DOMAIN tr \subseteq 0 .. c
  BY <1>6, <1>7 DEF AnyTree, TreeUpTo
<1>9. PICK m : m = Max(DOMAIN tr)
  OBVIOUS
<1>10. m \in DOMAIN tr /\ \A k \in DOMAIN tr : k <= m
  <2>1. DOMAIN tr \in SUBSET (0 .. c) /\ DOMAIN tr # {}
    BY <1>8
  <2> QED
    BY <1>9, <2>1, HighestOf
<1>11. m \in Nat /\ DOMAIN tr \subseteq 0 .. m
  BY <1>8, <1>10
<1>12. TreeUpTo(tr, m)
  BY <1>7, <1>11 DEF TreeUpTo
<1>13. counter' = m
  BY <1>1, <1>5, <1>9 DEF HighestId
<1>14. TreeTypeOK'
  <2>1. facts' \in Seq([id : Nat, topic : Nat]) /\ topics' \in Nat
    BY <1>1, <1>2 DEF TreeTypeOK
  <2> QED
    BY <1>1, <1>5, <1>11, <1>12, <1>13, <2>1 DEF TreeTypeOK
<1>15. StoreInv'
  BY <1>1, <1>2 DEF StoreInv
<1>16. ASSUME ~disturbed' PROVE OwnTextsInv' /\ ShownInv' /\ AwaitedInv'
  <2>1. OwnTextsInv
    BY <1>3, <1>16 DEF TreeIInv
  <2>2. OwnTexts(tr)
    BY <1>1, <1>4, <1>5, <2>1 DEF OwnTextsInv
  <2>3. OwnTextsInv'
    BY <1>1, <1>5, <2>1, <2>2 DEF OwnTextsInv
  <2>4. OwnText(tr[Root], tr[Root].text)
    BY <1>8, <2>2 DEF OwnTexts
  <2>5. ShownInv'
    BY <1>1, <1>3, <1>5, <1>8, <1>16, <2>4 DEF ShownInv
  <2>6. adds' = {} /\ DOMAIN facts' = {}
    <3>1. facts' = <<>>
      BY <1>1, <1>3, <1>16
    <3>2. DOMAIN <<>> = {}
      OBVIOUS
    <3> QED
      BY <1>1, <1>3, <1>16, <3>1, <3>2
  <2>7. AwaitedInv'
    BY <2>6 DEF AwaitedInv
  <2> QED
    BY <2>3, <2>5, <2>7
<1> QED
  BY <1>14, <1>15, <1>16 DEF TreeIInv

-----------------------------------------------------------------------------
LEMMA TreeInductive == TreeIInv /\ [TreeNext]_treeVars => TreeIInv'
<1> SUFFICES ASSUME TreeIInv, [TreeNext]_treeVars PROVE TreeIInv'
  OBVIOUS
<1>1. CASE UNCHANGED treeVars
  <2>1. UNCHANGED <<tree, current, counter, onPage, loading, live, topics, drills, adds, facts,
                    stored, saving, opening, disturbed>>
    BY <1>1 DEF treeVars, topicVars, shownVars, nodeVars, pageVars, flightVars, storeVars
  <2>2. StoreInv
    BY DEF TreeIInv
  <2>3. RowsFrom(stored', stored, saving)
    BY <2>1, <2>2, RowsStay
  <2> QED
    BY <2>1, <2>3, RowsStored
<1>2. CASE StreamToken \/ StreamEnds
  BY <1>2, StreamSteps
<1>3. ASSUME NEW t \in 1 .. MaxTopics,
             \/ AskSearch(t) \/ Drill(t) \/ DrillAnew(t)
             \/ \E id \in DOMAIN tree : AddNode(id, t)
             \/ \E n \in 1 .. 2 : FindOutMore(t, n)
      PROVE  TreeIInv'
  BY <1>3, SearchSteps, DrillKeeps, DrillAnewKeeps, AddNodeKeeps, FindOutMoreKeeps
<1>4. CASE SearchFindsNothing \/ AskGlobal \/ GlobalFails
  BY <1>4, SearchSteps
<1>5. CASE SearchAnswers \/ Regenerate
  BY <1>5, StartOverKeeps
<1>6. ASSUME NEW t \in drills, DrillAnswers(t) \/ DrillFails(t) PROVE TreeIInv'
  BY <1>6, DrillReturns
<1>7. ASSUME NEW id \in DOMAIN tree, Navigate(id) \/ RemoveNode(id) PROVE TreeIInv'
  BY <1>7, NavigateKeeps, RemoveKeeps
<1>8. CASE FactAnswers
  BY <1>8, FactKeeps
<1>9. ASSUME NEW a \in adds, AddAnswers(a) PROVE TreeIInv'
  BY <1>9, AddAnswersKeeps
<1>10. CASE GlobalAnswers
  BY <1>10, GlobalKeeps
<1>11. CASE SaveTree
  BY <1>11, SaveTreeKeeps
<1>12. ASSUME NEW s \in saving, SaveAnswers(s) PROVE TreeIInv'
  BY <1>12, SaveAnswersKeeps
<1>13. ASSUME NEW i \in DOMAIN stored, Delete(i) \/ Load(i) PROVE TreeIInv'
  BY <1>13, DeleteKeeps, StoreAsked
<1>14. CASE SaveFails \/ LoadFails
  BY <1>14, StoreAsked
<1>15. CASE LoadAnswers
  BY <1>15, LoadAnswersKeeps
<1> QED
  BY <1>1, <1>2, <1>3, <1>4, <1>5, <1>6, <1>7, <1>8, <1>9, <1>10, <1>11, <1>12, <1>13, <1>14, <1>15
     DEF TreeNext

LEMMA AnswersOfInductive == TreeIInv => AnswersFindTheirNode
<1> SUFFICES ASSUME TreeIInv PROVE AnswersFindTheirNode
  OBVIOUS
<1>1. TreeTypeOK /\ TreeUpTo(tree, counter) /\ counter \in Nat
  BY DEF TreeIInv, TreeTypeOK
<1>2. NodesAreATree
  BY <1>1 DEF NodesAreATree, TreeUpTo
<1>3. ASSUME ~disturbed PROVE OwnTextsInv /\ ShownInv
  BY <1>3 DEF TreeIInv
<1> QED
  BY <1>2, <1>3 DEF AnswersFindTheirNode, OwnTextsInv, OwnTexts, ShownInv

\* The nodes of the research tree are a tree whatever comes back when; and as long as no
\* answer was left behind, each has its own summary, the page shows the current one's, and
\* what loads is on its way: for any number of topics, saves and loads (App.tsx,
\* useDrilldownTree.ts).
THEOREM AnswersAlwaysFind == TreeSpec => []AnswersFindTheirNode
<1>1. TreeInit => TreeIInv
  BY TreeStarts
<1>2. TreeIInv /\ [TreeNext]_treeVars => TreeIInv'
  BY TreeInductive
<1>3. TreeIInv => AnswersFindTheirNode
  BY AnswersOfInductive
<1> QED
  BY <1>1, <1>2, <1>3, PTL DEF TreeSpec
=============================================================================
