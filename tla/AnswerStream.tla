---------------------------- MODULE AnswerStream ----------------------------
(***************************************************************************)
(* One research question from the agent to whoever asked.  The steps of    *)
(* the agent become events; the text of the model is held back until       *)
(* another event comes or the stream ends; sources and a done event, or an *)
(* error, close it.  In deep mode the agent runs in a task of its own and  *)
(* a queue with a sentinel lies between.  The web client shows the last    *)
(* text and the route stores it; the MCP and A2A tools join the texts and  *)
(* give up after a time.                                                   *)
(*                                                                         *)
(* The agent is LangGraph's: here it takes any steps until it ends, fails  *)
(* or reaches its recursion limit.                                         *)
(***************************************************************************)
EXTENDS Naturals, Sequences

CONSTANTS
    Texts,      \* what the model may write
    Within,     \* set of pairs: the first is contained in the second
    StepLimit   \* recursion_limit

ASSUME StreamAssumption == StepLimit \in Nat

VARIABLES
    mode,      \* "normal" or "deep"; stays as it is
    client,    \* "web" or "tool"; stays as it is
    carried,   \* tracker.prior_sources is not empty; stays as it is
    agent,     \* "running", "ended", "failed", "exhausted" or "cancelled"
    steps,     \* steps it has taken
    found,     \* tracker.all_results is not empty
    queue,     \* event_queue
    reader,    \* the coroutine that reads the stream: "reading", "closing" (it has
               \* left the loop), "cancelled" (it awaits the agent), "over"
    buffer,    \* token_buffer, "" when empty
    tokens,    \* Seq of texts sent on
    ending,    \* Seq of closing events sent on
    saved,     \* the stored answer, or "nothing"
    produced   \* history: the text of the last step that had any

streamVars == <<mode, client, carried, agent, steps, found, queue, reader, buffer, tokens,
                ending, saved, produced>>
fixed == <<mode, client, carried>>
flow == <<queue, reader, buffer, tokens, ending, saved>>

StreamInit ==
    /\ mode \in {"normal", "deep"}
    /\ client \in {"web", "tool"}
    /\ carried \in BOOLEAN
    /\ agent = "running"
    /\ steps = 0
    /\ found = FALSE
    /\ queue = <<>>
    /\ reader = "reading"
    /\ buffer = ""
    /\ tokens = <<>>
    /\ ending = <<>>
    /\ saved = "nothing"
    /\ produced = ""

Sentinel == [kind |-> "sentinel"]
Note == [kind |-> "note"]                      \* phase, plan, search_status
Token(t) == [kind |-> "token", text |-> t]

\* keeps the shorter of two texts
AddsNothingLonger(t) == buffer = "" \/ <<buffer, t>> \notin Within
\* _is_duplicate_or_subset
Adds(t) == buffer = "" \/ <<t, buffer>> \notin Within
Flushed == IF buffer = "" THEN tokens ELSE Append(tokens, buffer)

\* the body of the loops in _stream_normal_research and _stream_deep_research
Take(e) ==
    IF e.kind = "token"
    THEN buffer' = (IF Adds(e.text) THEN e.text ELSE buffer) /\ UNCHANGED tokens
    ELSE buffer' = "" /\ tokens' = Flushed

\* what the event generator stores with the done event
WhatIsStored(events, texts) ==
    IF client = "web" /\ events # <<>> /\ events[Len(events)] = "done"
    THEN IF texts = <<>> THEN "" ELSE texts[Len(texts)]
    ELSE saved

\* _yield_sources_and_done
FinishStream(texts) ==
    /\ ending' = ending \o (IF found \/ carried THEN <<"sources", "done">> ELSE <<"done">>)
    /\ tokens' = texts
    /\ saved' = WhatIsStored(ending', texts)
    /\ reader' = "over"

\* _handle_stream_error
FailStream(texts) ==
    IF agent = "exhausted" /\ found
    THEN FinishStream(texts)
    ELSE /\ ending' = Append(ending, "error")
         /\ tokens' = texts
         /\ reader' = "over"
         /\ UNCHANGED saved

-----------------------------------------------------------------------------
\* A step of the agent: text, something to report (a plan, a search that may
\* have found something) or nothing (_events_from_step).
AgentStep(e) ==
    /\ agent = "running"
    /\ steps < StepLimit
    /\ mode = "normal" => reader = "reading"
    /\ steps' = steps + 1
    /\ found' \in IF e = Note THEN {found, TRUE} ELSE {found}
    /\ produced' = IF e.kind = "token" THEN e.text ELSE produced
    /\ IF mode = "deep"
       THEN queue' = Append(queue, e) /\ UNCHANGED <<buffer, tokens>>
       ELSE Take(e) /\ UNCHANGED queue
    /\ UNCHANGED <<fixed, agent, reader, ending, saved>>

SilentStep ==
    /\ agent = "running"
    /\ steps < StepLimit
    /\ mode = "normal" => reader = "reading"
    /\ steps' = steps + 1
    /\ UNCHANGED <<fixed, agent, found, flow, produced>>

\* the sentinel is put only after a run that went well
AgentStopsQuietly(how) ==
    /\ agent = "running"
    /\ how = "exhausted" => steps = StepLimit
    /\ mode = "normal" => reader = "reading"
    /\ agent' = how
    /\ queue' = IF mode = "deep" /\ how = "ended" THEN Append(queue, Sentinel) ELSE queue
    /\ reader' = IF mode = "normal" THEN "closing" ELSE reader
    /\ UNCHANGED <<fixed, steps, found, buffer, tokens, ending, saved, produced>>

\* it ends, raises, or meets its recursion limit; `finally` puts the sentinel
AgentStops(how) ==
    /\ agent = "running"
    /\ how = "exhausted" => steps = StepLimit
    /\ mode = "normal" => reader = "reading"
    /\ agent' = how
    /\ queue' = IF mode = "deep" THEN Append(queue, Sentinel) ELSE queue
    /\ reader' = IF mode = "normal" THEN "closing" ELSE reader
    /\ UNCHANGED <<fixed, steps, found, buffer, tokens, ending, saved, produced>>

\* event_queue.get
ReadEvent ==
    /\ mode = "deep"
    /\ reader = "reading"
    /\ queue # <<>>
    /\ queue' = Tail(queue)
    /\ IF Head(queue) = Sentinel
       THEN reader' = "closing" /\ UNCHANGED <<buffer, tokens>>
       ELSE Take(Head(queue)) /\ UNCHANGED reader
    /\ UNCHANGED <<fixed, agent, steps, found, ending, saved, produced>>

\* An error reaches the reader of a normal stream at once, without what is in
\* the buffer; a deep one sends the buffer on first.
CloseStream ==
    /\ reader = "closing"
    /\ buffer' = ""
    /\ IF agent = "ended" THEN FinishStream(Flushed)
       ELSE FailStream(IF mode = "deep" THEN Flushed ELSE tokens)
    /\ UNCHANGED <<fixed, agent, steps, found, queue, produced>>

\* The tool's wait_for runs out, whenever that is, or the browser goes away: the
\* reader is cancelled.  A normal agent is cancelled with it; a deep one is awaited by
\* `finally`, and wait_for awaits the reader.
Cancelled ==
    /\ reader = "reading"
    /\ reader' = IF mode = "deep" THEN "cancelled" ELSE "over"
    /\ agent' = IF mode = "deep" THEN agent ELSE "cancelled"
    /\ buffer' = ""
    /\ UNCHANGED <<fixed, steps, found, queue, tokens, ending, saved, produced>>

AgentAwaited ==
    /\ reader = "cancelled"
    /\ agent # "running"
    /\ reader' = "over"
    /\ UNCHANGED <<fixed, agent, steps, found, queue, buffer, tokens, ending, saved,
                   produced>>

StreamNext ==
    \/ \E e \in {Note} \union {Token(t) : t \in Texts} : AgentStep(e)
    \/ SilentStep
    \/ \E how \in {"ended", "failed", "exhausted"} : AgentStops(how)
    \/ ReadEvent
    \/ CloseStream
    \/ Cancelled
    \/ AgentAwaited

\* The coroutines run when they can; the agent takes its steps or stops.
StreamFair ==
    \/ \E e \in {Note} \union {Token(t) : t \in Texts} : AgentStep(e)
    \/ SilentStep
    \/ \E how \in {"ended", "failed", "exhausted"} : AgentStops(how)
    \/ ReadEvent
    \/ CloseStream
    \/ AgentAwaited
StreamSpec == StreamInit /\ [][StreamNext]_streamVars

-----------------------------------------------------------------------------
\* A stream closes once: done or error comes last, never both, sources only
\* right before done; a reader that was cancelled gets neither.  What is stored
\* with a thread is what the browser showed at the end, and nothing is stored
\* of a stream that failed or was left.
ClosesOnce ==
    /\ ending \in {<<>>, <<"done">>, <<"sources", "done">>, <<"error">>}
    /\ ending # <<>> => reader = "over"
    /\ saved # "nothing" =>
          /\ ending # <<>> /\ ending[Len(ending)] = "done"
          /\ saved = IF tokens = <<>> THEN "" ELSE tokens[Len(tokens)]

\* If the agent ended by itself, the last text sent on has the last text the
\* model wrote, however texts, reports and the queue interleave.
LastTextArrives ==
    agent = "ended" /\ ending # <<>> /\ produced # "" =>
        /\ tokens # <<>>
        /\ LET t == tokens[Len(tokens)] IN t = produced \/ <<produced, t>> \in Within

\* Both, of stream_research_response and the route that stores what it says.
AnswerArrivesOnce == ClosesOnce /\ LastTextArrives
=============================================================================
