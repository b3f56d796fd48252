------------------------------ MODULE A2ATasks ------------------------------
(***************************************************************************)
(* The task endpoint of the A2A server.  A task that is sent runs to its   *)
(* end before it is stored; a streamed one is not stored at all.  The      *)
(* store is a dictionary in the order of first insertion, of bounded size, *)
(* and gives up its first key.  A task without an id of its own takes the  *)
(* id of the JSON-RPC request, so callers may share ids.                   *)
(***************************************************************************)
EXTENDS Naturals, Sequences, SequencesExt

CONSTANTS
    Ids,       \* task ids, among them those two callers count up from 1
    Owners,    \* principals, NoPrincipal among them where callers are not asked who they are
    Handlers,  \* coroutines of handle_a2a_request
    MaxTasks   \* _MAX_TASKS

ASSUME TasksAssumption == MaxTasks \in Nat \ {0}

VARIABLES
    store,    \* Seq of [id, owner, state]: _tasks
    running,  \* [Handlers -> [id, owner, how] or NoTask] submissions under way
    newer     \* history: [Ids -> keys inserted since this one was, up to MaxTasks]

taskVars == <<store, running, newer>>

NoTask == [how |-> "none"]
NoPrincipal == "nobody"    \* None

TaskInit ==
    /\ store = <<>>
    /\ running = [h \in Handlers |-> NoTask]
    /\ newer = [i \in Ids |-> MaxTasks]

Holds(i) == \E n \in DOMAIN store : store[n].id = i
Place(i) == CHOOSE n \in DOMAIN store : store[n].id = i

\* tasks/send, message/send, tasks/sendSubscribe, message/stream: up to the
\* first await
Submit(h, i, p, how) ==
    /\ running[h] = NoTask
    /\ running' = [running EXCEPT ![h] = [id |-> i, owner |-> p, how |-> how]]
    /\ UNCHANGED <<store, newer>>

\* handle_task raises outside its try when the message has no text: the caller
\* gets an internal error and nothing is stored
NoText(h) ==
    /\ running[h] # NoTask
    /\ running' = [running EXCEPT ![h] = NoTask]
    /\ UNCHANGED <<store, newer>>

\* gives up the one before the newest key
WithoutRecent(s) == IF Len(s) > MaxTasks THEN RemoveAt(s, Len(s) - 1) ELSE s
WithoutOldest(s) == IF Len(s) > MaxTasks THEN Tail(s) ELSE s

\* _handle_tasks_send after handle_task: a key that is there keeps its place
EndSent(h, outcome) ==
    LET i == running[h].id
        e == [id |-> i, owner |-> running[h].owner, state |-> outcome]
    IN  /\ running[h].how = "send"
        /\ store' = IF Holds(i) THEN [store EXCEPT ![Place(i)] = e]
                    ELSE WithoutOldest(Append(store, e))
        /\ newer' = IF Holds(i) THEN newer
                    ELSE [j \in Ids |-> IF j = i THEN 0
                                        ELSE IF newer[j] < MaxTasks THEN newer[j] + 1 ELSE newer[j]]
        /\ running' = [running EXCEPT ![h] = NoTask]

\* the last event of handle_task_streaming
EndStreamed(h) ==
    /\ running[h].how = "stream"
    /\ running' = [running EXCEPT ![h] = NoTask]
    /\ UNCHANGED <<store, newer>>

\* _check_task_ownership
Owns(p, i) == Holds(i) /\ (NoPrincipal \in {p, store[Place(i)].owner} \/ store[Place(i)].owner = p)

\* inserts the cancelled task anew, at the end
CancelAnew(p, i) ==
    /\ Owns(p, i)
    /\ store[Place(i)].state # "completed"
    /\ store' = Append(RemoveAt(store, Place(i)),
                [store[Place(i)] EXCEPT !.state = "canceled", !.owner = p])
    /\ UNCHANGED <<running, newer>>

\* _handle_tasks_cancel: what the store has has ended, so it cancels failed ones, and
\* makes them the caller's
Cancel(p, i) ==
    /\ Owns(p, i)
    /\ store[Place(i)].state # "completed"
    /\ store' = [store EXCEPT ![Place(i)].state = "canceled", ![Place(i)].owner = p]
    /\ UNCHANGED <<running, newer>>

TaskNext ==
    \/ \E h \in Handlers :
          \/ \E i \in Ids, p \in Owners, how \in {"send", "stream"} : Submit(h, i, p, how)
          \/ NoText(h)
          \/ \E outcome \in {"completed", "failed"} : EndSent(h, outcome)
          \/ EndStreamed(h)
    \/ \E p \in Owners, i \in Ids : Cancel(p, i)

TaskSpec == TaskInit /\ [][TaskNext]_taskVars

-----------------------------------------------------------------------------
\* A stored id is given up only after MaxTasks newer ones were inserted, and
\* then it is, whatever ids are stored over and cancelled in between.
LastTasksAreKept == \A i \in Ids : Holds(i) <=> newer[i] < MaxTasks
=============================================================================
