----------------------- MODULE DocPipelineIndex_proofs -----------------------
(***************************************************************************)
(* Proofs about DocPipeline with one orchestrator: a document that reads   *)
(* 'indexed' is whole in both stores and stays indexed until someone       *)
(* withdraws it, the pipeline implements PublishedIndex, and a run that    *)
(* reports no failure leaves every document it collected in order.         *)
(***************************************************************************)
EXTENDS DocPipeline_proofs

OneOrchestrator == \A o1, o2 \in Orchs : o1 = o2

\* What the invariant says of one worker, and of one document.
OwnFresh(w) == pc[w] \in BeforeIndex =>
                  (status[DocOf(w)] = "indexed" => seen[w].st = "indexed")
OwnUnmarked(w) == pc[w] \in InIndex =>
                  status[DocOf(w)] # "indexed" /\ seen[w].st # "indexed"
OwnProgress(w) ==
    pc[w] \in InIndex \union {"backup"} /\ DocOf(w) \notin pruned =>
    LET d == DocOf(w) IN
    /\ pc[w] = "wipePoints" => rows[d] = {}
    /\ pc[w] = "embed" =>
          /\ todo[w] \subseteq PartsOf[d]
          /\ rows[d] = PartsOf[d] \ todo[w]
          /\ points[d] = PartsOf[d] \ todo[w]
    /\ pc[w] = "storePoints" =>
          /\ todo[w] \subseteq PartsOf[d]
          /\ rows[d] = (PartsOf[d] \ todo[w]) \union {cur[w]}
          /\ points[d] = PartsOf[d] \ todo[w]
    /\ pc[w] \in {"merge", "backup"} => rows[d] = PartsOf[d] /\ points[d] = PartsOf[d]
Own(w) == OwnFresh(w) /\ OwnUnmarked(w) /\ OwnProgress(w)
Complete(d) == Marked(d) => rows[d] = PartsOf[d] /\ points[d] = PartsOf[d]

Parted ==
    /\ TypedTasks
    /\ QueueFresh
    /\ \A w \in Workers : Own(w)
    /\ \A d \in Docs : Complete(d)

LEMMA PartedIsIndInv == Parted <=> IndInv
BY DEF Parted, IndInv, TypedTasks, CopyFresh, Unmarked, Progress, IndexedComplete,
       Own, OwnFresh, OwnUnmarked, OwnProgress, Complete, Marked

\* With one orchestrator a document is in one busy worker at most, and not
\* also waiting in the queue.
LEMMA Alone ==
    ASSUME OneOrchestrator, TypedTasks, NEW w \in Workers, Active(w)
    PROVE  /\ \A v \in Workers \ {w} : Active(v) => DocOf(v) # DocOf(w)
           /\ \A o \in Orchs : \A i \in taken[o] + 1 .. Len(batch[o]) :
                 batch[o][i] # DocOf(w)
<1> DEFINE p == PoolOf[w]
<1>1. /\ p \in Orchs
      /\ \A o \in Orchs : o = p
      /\ at[w] \in 1 .. Len(batch[p])
      /\ at[w] \in 1 .. taken[p]
      /\ taken[p] \in Nat
      /\ Distinct(batch[p])
      /\ batch[p] \in Seq(Docs)
  BY DocOfType, PoolAssumption
     DEF OneOrchestrator, TypedTasks, TypeOK, Tasks, Handed, HoldsTask
<1>2. ASSUME NEW v \in Workers \ {w}, Active(v) PROVE DocOf(v) # DocOf(w)
  <2>1. PoolOf[v] = p /\ at[v] \in 1 .. Len(batch[p])
    BY <1>1, <1>2, DocOfType
  <2>2. at[v] # at[w]
    BY <1>2, <2>1 DEF TypedTasks, Tasks, OwnTask
  <2> QED
    BY <1>1, <2>1, <2>2 DEF DocOf, Distinct
<1>3. ASSUME NEW i \in taken[p] + 1 .. Len(batch[p]) PROVE batch[p][i] # DocOf(w)
  <2>1. i \in 1 .. Len(batch[p]) /\ i # at[w]
    BY <1>1
  <2> QED
    BY <1>1, <2>1 DEF DocOf, Distinct
<1> QED
  BY <1>1, <1>2, <1>3

\* A step of one worker that touches nothing but its own document.
OwnStep(w) ==
    /\ Active(w)
    /\ UNCHANGED <<phase, batch, snap, taken>>
    /\ \A v \in Workers \ {w} :
          /\ (pc[v])' = pc[v] /\ (at[v])' = at[v] /\ (seen[v])' = seen[v]
          /\ (todo[v])' = todo[v] /\ (cur[v])' = cur[v]
    /\ \A d \in Docs \ {DocOf(w)} :
          /\ (status[d])' = status[d] /\ (rows[d])' = rows[d] /\ (points[d])' = points[d]
          /\ (d \in pruned)' <=> d \in pruned

LEMMA OwnStepKeeps ==
    ASSUME OneOrchestrator, Parted, NEW w \in Workers, OwnStep(w),
           TypedTasks', Own(w)', NEW e, e = DocOf(w), Complete(e)'
    PROVE  Parted'
<1>0. TypedTasks /\ QueueFresh /\ (\A v \in Workers : Own(v)) /\ (\A d \in Docs : Complete(d))
  BY DEF Parted
<1>1. QueueFresh'
  <2> SUFFICES ASSUME NEW o \in Orchs, (phase[o] = "running")',
                      NEW i \in taken'[o] + 1 .. Len(batch'[o]),
                      status'[batch'[o][i]] = "indexed"
               PROVE  snap'[o][batch'[o][i]].st = "indexed"
    BY DEF QueueFresh
  <2>1. /\ i \in taken[o] + 1 .. Len(batch[o])
        /\ batch[o][i] # DocOf(w)
        /\ taken[o] \in Nat /\ batch[o] \in Seq(Docs)
    <3>1. taken[o] \in Nat /\ batch[o] \in Seq(Docs)
      BY <1>0 DEF TypedTasks, TypeOK
    <3>2. i \in taken[o] + 1 .. Len(batch[o])
      BY DEF OwnStep
    <3> QED
      BY <1>0, <3>1, <3>2, Alone DEF OwnStep
  <2>2. batch[o][i] \in Docs
    BY <2>1
  <2> QED
    BY <1>0, <2>1, <2>2 DEF OwnStep, QueueFresh
<1>2. ASSUME NEW v \in Workers PROVE Own(v)'
  <2>1. CASE v = w
    BY <2>1
  <2>2. CASE v # w /\ Active(v)
    <3>1. DocOf(v) \in Docs /\ DocOf(v) # DocOf(w) /\ DocOf(v)' = DocOf(v)
      BY <1>0, <2>2, Alone, DocOfType DEF OwnStep, DocOf
    <3> QED
      BY <1>0, <2>2, <3>1 DEF OwnStep, Own, OwnFresh, OwnUnmarked, OwnProgress
  <2>3. CASE v # w /\ ~Active(v)
    BY <2>3 DEF OwnStep, Active, Own, OwnFresh, OwnUnmarked, OwnProgress, BeforeIndex, InIndex
  <2> QED
    BY <2>1, <2>2, <2>3
<1>3. ASSUME NEW d \in Docs PROVE Complete(d)'
  BY <1>0 DEF OwnStep, Complete, Marked
<1> QED
  BY <1>1, <1>2, <1>3 DEF Parted

\* Every step of a worker but Take is such a step and keeps its own part.
LEMMA WorkerOwn ==
    ASSUME OneOrchestrator, Parted, NEW w \in Workers, Active(w),
           WorkerStep(w) \/ WorkerFault(w), NEW d, d = DocOf(w)
    PROVE  OwnStep(w) /\ Own(w)' /\ Complete(d)'
<1>0. TypeOK /\ Own(w) /\ d \in Docs /\ Complete(d) /\ InHand
  BY DocOfType DEF Parted, TypedTasks, Tasks
<1> USE <1>0 DEF TypeOK, store, run, admin, OwnStep, Own, OwnFresh, OwnUnmarked,
        OwnProgress, Complete, Marked, BeforeIndex, InIndex, DocOf, Active
<1>1. CASE MemoryRefused(w) /\ UNCHANGED admin
  BY <1>1 DEF MemoryRefused, Return, Forget, NoCopy
<1>2. CASE RejectUntitled(w) /\ UNCHANGED admin
  BY <1>2 DEF RejectUntitled, Goto, WriteStatus
<1>3. CASE BeginParse(w) /\ UNCHANGED admin
  BY <1>3 DEF BeginParse, Step, Goto, WriteStatus
<1>4. CASE SkipParse(w) /\ UNCHANGED admin
  BY <1>4 DEF SkipParse, Step, Goto
<1>5. CASE ParseOk(w) /\ UNCHANGED admin
  BY <1>5 DEF ParseOk, Goto, WriteStatus
<1>6. CASE ParseFail(w) /\ UNCHANGED admin
  BY <1>6 DEF ParseFail, Goto, WriteStatus
<1>7. CASE BeginSummarize(w) /\ UNCHANGED admin
  BY <1>7 DEF BeginSummarize, Goto, WriteStatus, Reload
<1>8. CASE SkipSummarize(w) /\ UNCHANGED admin
  BY <1>8 DEF SkipSummarize, Step, Goto
<1>9. CASE SummarizeOk(w) /\ UNCHANGED admin
  BY <1>9 DEF SummarizeOk, Goto, WriteStatus
<1>10. CASE SummarizeFail(w) /\ UNCHANGED admin
  BY <1>10 DEF SummarizeFail, Goto, WriteStatus
<1>11. CASE TagReload(w) /\ UNCHANGED admin
  BY <1>11 DEF TagReload, Goto, Reload
<1>12. CASE SkipTag(w) /\ UNCHANGED admin
  BY <1>12 DEF SkipTag, Step, Goto
<1>13. CASE BeginTag(w) /\ UNCHANGED admin
  BY <1>13 DEF BeginTag, Step, Goto, WriteStatus
<1>14. CASE TagOk(w) /\ UNCHANGED admin
  BY <1>14 DEF TagOk, Goto, WriteStatus
<1>15. CASE TagFail(w) /\ UNCHANGED admin
  BY <1>15 DEF TagFail, Goto
<1>16. CASE IndexReload(w) /\ UNCHANGED admin
  BY <1>16 DEF IndexReload, Goto, Reload, WillIndex, IndexStatuses
<1>17. CASE SkipIndex(w) /\ UNCHANGED admin
  BY <1>17 DEF SkipIndex, Step, Goto
<1>18. CASE BeginIndex(w) /\ UNCHANGED admin
  BY <1>18 DEF BeginIndex, Step, Goto, WriteStatus
<1>19. CASE WipeRows(w)
  BY <1>19 DEF WipeRows, Step, Goto
<1>20. CASE WipePoints(w) /\ UNCHANGED admin
  BY <1>20 DEF WipePoints
<1>21. CASE StorePoints(w) /\ UNCHANGED admin
  <2>1. /\ UNCHANGED <<rows, status, run, at, seen, pruned>>
        /\ todo'[w] = todo[w] \ {cur[w]}
        /\ pc[w] = "storePoints" /\ pc'[w] = "embed"
        /\ DocOf(w)' = d
        /\ cur[w] \in todo[w]
    BY <1>21 DEF StorePoints, InHand
  <2>2. OwnFresh(w)' /\ OwnUnmarked(w)'
    BY <2>1
  <2>3. ASSUME d \notin pruned PROVE OwnProgress(w)'
    <3>1. todo[w] \subseteq PartsOf[d]
      BY <2>1, <2>3
    <3>2. /\ (PartsOf[d] \ todo[w]) \union {cur[w]} = PartsOf[d] \ (todo[w] \ {cur[w]})
          /\ todo[w] \ {cur[w]} \subseteq PartsOf[d]
      BY <2>1, <3>1
    <3>3. /\ rows[d] = PartsOf[d] \ (todo[w] \ {cur[w]})
          /\ points'[d] = PartsOf[d] \ (todo[w] \ {cur[w]})
      BY <1>21, <2>1, <2>3, <3>2 DEF StorePoints
    <3> QED
      BY <2>1, <3>2, <3>3
  <2>4. ASSUME d \in pruned PROVE OwnProgress(w)'
    BY <2>1, <2>4
  <2>5. OwnStep(w) /\ Complete(d)'
    BY <1>21 DEF StorePoints
  <2> QED
    BY <2>2, <2>3, <2>4, <2>5
<1>22. CASE RewriteDoc(w) /\ UNCHANGED admin
  BY <1>22 DEF RewriteDoc, Step, Goto, WriteStatus
<1>23. CASE MarkIndexed(w) /\ UNCHANGED admin
  BY <1>23 DEF MarkIndexed, Step, Goto, WriteStatus
<1>24. CASE IndexFail(w) /\ UNCHANGED admin
  BY <1>24 DEF IndexFail, WriteStatus
<1>25. CASE Finish(w) /\ UNCHANGED admin
  BY <1>25 DEF Finish, Return, Forget, NoCopy
<1>26. CASE WorkerRaises(w) /\ UNCHANGED admin
  BY <1>26 DEF WorkerRaises, Return, Forget, NoCopy
<1>27. CASE WorkerKilled(w) /\ UNCHANGED admin
  BY <1>27 DEF WorkerKilled, Forget, NoCopy
<1>28. ASSUME NEW b \in Parts, StoreRows(w, b), UNCHANGED admin PROVE OwnStep(w) /\ Own(w)' /\ Complete(d)'
  BY <1>28 DEF StoreRows
<1>30. CASE ConfirmIndexed(w) /\ UNCHANGED admin
  BY <1>30 DEF ConfirmIndexed, Goto, WriteStatus
<1>29. ~Take(w)
  BY DEF Take
<1> QED
  BY <1>1, <1>2, <1>3, <1>4, <1>5, <1>6, <1>7, <1>8, <1>9, <1>10, <1>11, <1>12,
     <1>13, <1>14, <1>15, <1>16, <1>17, <1>18, <1>19, <1>20, <1>21, <1>22, <1>23,
     <1>24, <1>25, <1>26, <1>27, <1>28, <1>29, <1>30
     DEF WorkerStep, WorkerFault

\* Nothing is marked, and nothing else that the invariant speaks of changes.
LEMMA NothingMarked ==
    ASSUME Parted, TypedTasks',
           UNCHANGED <<phase, batch, snap, taken, local>>, pruned \subseteq pruned',
           \A d \in Docs : status'[d] = "indexed" => status[d] = "indexed",
           \A d \in Docs : d \notin pruned' => rows'[d] = rows[d] /\ points'[d] = points[d]
    PROVE  Parted'
<1>1. QueueFresh'
  BY DEF Parted, TypedTasks, TypeOK, QueueFresh
<1>2. ASSUME NEW w \in Workers PROVE Own(w)'
  <2>1. DocOf(w)' = DocOf(w) /\ UNCHANGED <<pc, at, seen, todo, cur>>
    BY DEF DocOf, local
  <2>2. CASE Active(w)
    BY <2>1, <2>2, DocOfType DEF Parted, Own, OwnFresh, OwnUnmarked, OwnProgress
  <2>3. CASE ~Active(w)
    BY <2>1, <2>3 DEF Active, Own, OwnFresh, OwnUnmarked, OwnProgress, BeforeIndex, InIndex
  <2> QED
    BY <2>2, <2>3
<1>3. \A d \in Docs : Complete(d)'
  BY DEF Parted, Complete, Marked
<1> QED
  BY <1>1, <1>2, <1>3 DEF Parted

LEMMA TakeParted ==
    ASSUME OneOrchestrator, Parted, TypedTasks', NEW w \in Workers, Take(w),
           UNCHANGED admin
    PROVE  Parted'
<1> DEFINE o == PoolOf[w]
           i == taken[o] + 1
<1>0. TypeOK /\ QueueFresh
  BY DEF Parted, TypedTasks
<1>1. /\ o \in Orchs /\ phase[o] = "running"
      /\ taken[o] \in Nat /\ batch[o] \in Seq(Docs)
      /\ i \in 1 .. Len(batch[o])
      /\ i \in taken[o] + 1 .. Len(batch[o])
      /\ batch[o][i] \in Docs
      /\ pc[w] = "idle"
  BY <1>0, PoolAssumption DEF Take, TypeOK
<1>2. /\ UNCHANGED <<store, phase, batch, snap, todo, cur, pruned>>
      /\ taken' = [taken EXCEPT ![o] = i]
      /\ pc' = [pc EXCEPT ![w] = "start"]
      /\ at' = [at EXCEPT ![w] = i]
      /\ seen' = [seen EXCEPT ![w] = snap[o][batch[o][i]]]
  BY DEF Take, admin
<1>3. QueueFresh'
  <2> SUFFICES ASSUME NEW q \in Orchs, (phase[q] = "running")',
                      NEW k \in taken'[q] + 1 .. Len(batch'[q]),
                      status'[batch'[q][k]] = "indexed"
               PROVE  snap'[q][batch'[q][k]].st = "indexed"
    BY DEF QueueFresh
  <2>1. taken[q] \in Nat /\ Len(batch[q]) \in Nat
    BY <1>0 DEF TypeOK
  <2>2. taken'[q] = (IF q = o THEN i ELSE taken[q])
    BY <1>0, <1>2 DEF TypeOK
  <2>3. k \in taken[q] + 1 .. Len(batch[q])
    BY <1>2, <2>1, <2>2
  <2> QED
    BY <1>0, <1>2, <2>3 DEF QueueFresh, store
<1>4. Own(w)'
  <2>1. DocOf(w)' = batch[o][i]
    BY <1>0, <1>1, <1>2 DEF DocOf, TypeOK
  <2>2. pc'[w] = "start" /\ seen'[w] = snap[o][batch[o][i]] /\ status' = status
    BY <1>0, <1>2 DEF TypeOK, store
  <2>3. status[batch[o][i]] = "indexed" => snap[o][batch[o][i]].st = "indexed"
    BY <1>0, <1>1 DEF QueueFresh
  <2> QED
    BY <2>1, <2>2, <2>3 DEF Own, OwnFresh, OwnUnmarked, OwnProgress, InIndex, BeforeIndex
<1>5. ASSUME NEW v \in Workers, v # w PROVE Own(v)'
  BY <1>0, <1>2, <1>5 DEF Parted, TypeOK, store, DocOf, Own, OwnFresh, OwnUnmarked, OwnProgress
<1>6. \A d \in Docs : Complete(d)'
  BY <1>2 DEF Parted, Complete, Marked, store
<1> QED
  BY <1>3, <1>4, <1>5, <1>6 DEF Parted

LEMMA SubmitParted ==
    ASSUME OneOrchestrator, Parted, TypedTasks', NEW o \in Orchs, NEW p, NEW s \in Seq(Docs),
           NEW st \in [Docs -> Status], phase[o] # "running", Submit(o, p, s, st),
           UNCHANGED pruned,
           \A d \in Docs : st[d] = "indexed" => status[d] = "indexed"
    PROVE  Parted'
<1>0. TypeOK /\ HoldsTask
  BY DEF Parted, TypedTasks, Tasks
<1>1. QueueFresh'
  <2> SUFFICES ASSUME NEW q \in Orchs, NEW i \in taken'[q] + 1 .. Len(batch'[q]),
                      status'[batch'[q][i]] = "indexed"
               PROVE  snap'[q][batch'[q][i]].st = "indexed"
    BY DEF QueueFresh
  <2>1. q = o
    BY DEF OneOrchestrator
  <2>2. batch'[o] = s /\ taken'[o] = 0 /\ status' = st
    BY <1>0 DEF Submit, TypeOK
  <2>3. i \in DOMAIN s /\ s[i] \in Docs
    BY <2>1, <2>2
  <2>4. snap'[o][s[i]] = [st |-> st[s[i]], out |-> out[s[i]]]
    BY <1>0, <2>3 DEF Submit, TypeOK
  <2> QED
    BY <2>1, <2>2, <2>4
<1>2. ASSUME NEW w \in Workers PROVE Own(w)'
  <2>1. PoolOf[w] = o
    BY PoolAssumption DEF OneOrchestrator
  <2>2. ~Active(w) /\ pc' = pc
    BY <1>0, <2>1 DEF HoldsTask, Submit, local
  <2> QED
    BY <2>2 DEF Active, Own, OwnFresh, OwnUnmarked, OwnProgress, BeforeIndex, InIndex
<1>3. \A d \in Docs : Complete(d)'
  BY DEF Parted, Complete, Marked, Submit
<1> QED
  BY <1>1, <1>2, <1>3 DEF Parted

LEMMA CloseParted ==
    ASSUME OneOrchestrator, Parted, TypedTasks', NEW o \in Orchs, NEW how,
           how # "running", CloseRun(o, how), UNCHANGED pruned
    PROVE  Parted'
<1>0. TypeOK
  BY DEF Parted, TypedTasks
<1>1. QueueFresh'
  BY <1>0 DEF CloseRun, QueueFresh, OneOrchestrator, TypeOK
<1>2. ASSUME NEW w \in Workers PROVE Own(w)'
  <2>1. PoolOf[w] = o
    BY PoolAssumption DEF OneOrchestrator
  <2>2. pc'[w] = "idle"
    BY <2>1 DEF CloseRun, Forget
  <2> QED
    BY <2>2 DEF Own, OwnFresh, OwnUnmarked, OwnProgress, BeforeIndex, InIndex
<1>3. \A d \in Docs : Complete(d)'
  BY DEF Parted, Complete, Marked, CloseRun, store
<1> QED
  BY <1>1, <1>2, <1>3 DEF Parted

LEMMA ActiveStep ==
    ASSUME NEW w \in Workers, WorkerStep(w) \/ WorkerFault(w), ~Take(w)
    PROVE  Active(w)
BY DEF WorkerStep, WorkerFault, Active, BeforeIndex, InIndex, MemoryRefused, RejectUntitled,
   BeginParse, SkipParse, ParseOk, ParseFail, BeginSummarize, SkipSummarize,
   SummarizeOk, SummarizeFail, TagReload, SkipTag, BeginTag, TagOk, TagFail,
   IndexReload, SkipIndex, BeginIndex, WipeRows, WipePoints, StorePoints,
   StoreRows, RewriteDoc, MarkIndexed, ConfirmIndexed, IndexFail, Finish,
   WorkerRaises, WorkerKilled

LEMMA WorkerParted ==
    ASSUME OneOrchestrator, Parted, TypedTasks', NEW w \in Workers,
           WorkerStep(w) \/ WorkerFault(w)
    PROVE  Parted'
<1>1. CASE Take(w)
  <2>1. UNCHANGED admin
    BY <1>1 DEF WorkerStep, WorkerFault, Take, WipeRows
  <2> QED
    BY <1>1, <2>1, TakeParted
<1>2. CASE ~Take(w)
  <2>1. Active(w)
    BY <1>2, ActiveStep
  <2> QED
    BY <2>1, WorkerOwn, OwnStepKeeps
<1> QED
  BY <1>1, <1>2

LEMMA OrchParted ==
    ASSUME OneOrchestrator, Parted, TypedTasks', NEW o \in Orchs, OrchStep(o)
    PROVE  Parted'
<1>0. UNCHANGED pruned
  BY DEF OrchStep, admin
<1>1. CASE Settle(o)
  <2>1. \A d \in Docs : status'[d] = "indexed" => status[d] = "indexed"
    BY <1>1 DEF OrchStep, SettleOk, SettleFail, SettleEmpty, SettleError,
       SettleErrorAgain, SettleRaised, SettleTimeout, EndRun, CloseRun, store, MarkStopped, WriteStatus,
       Parted, TypedTasks, TypeOK
  <2> QED
    BY <1>0, <1>1, <2>1, NothingMarked DEF Settle
<1>2. CASE EndRun(o)
  BY <1>0, <1>2, CloseParted DEF EndRun
<1> QED
  BY <1>1, <1>2 DEF OrchStep, SettleOk, SettleFail, SettleEmpty, SettleError,
     SettleErrorAgain, SettleRaised, SettleTimeout

LEMMA ControlParted ==
    ASSUME OneOrchestrator, Parted, TypedTasks', NEW o \in Orchs, Control(o)
    PROVE  Parted'
<1>0. status \in [Docs -> Status] /\ UNCHANGED pruned
  BY DEF Parted, TypedTasks, TypeOK, Control
<1>1. ASSUME NEW p \in Plans, NEW s \in Batches, StartRun(o, p, s) PROVE Parted'
  <2> DEFINE st == [d \in Docs |-> IF status[d] \in OcrStatuses(p)
                                   THEN "downloaded" ELSE status[d]]
  <2>1. /\ st \in [Docs -> Status]
        /\ \A d \in Docs : st[d] = "indexed" => status[d] = "indexed"
    BY <1>0 DEF Status, Ready
  <2>2. phase[o] # "running" /\ Submit(o, p, s, st)
    BY <1>1 DEF StartRun, Free
  <2> HIDE DEF st
  <2> QED
    BY <1>0, <2>1, <2>2, BatchesAreSequences, SubmitParted
<1>2. ASSUME NEW p \in Plans, NEW d \in Docs, StartTargeted(o, p, d) PROVE Parted'
  BY <1>0, <1>2, SingletonBatch, SubmitParted DEF StartTargeted, Free
<1>3. ASSUME NEW d \in Docs, StartReprocess(o, d) PROVE Parted'
  <2> DEFINE st == [status EXCEPT ![d] = "downloaded"]
  <2>1. /\ st \in [Docs -> Status]
        /\ \A e \in Docs : st[e] = "indexed" => status[e] = "indexed"
    BY <1>0 DEF Status, Ready
  <2>2. phase[o] # "running" /\ Submit(o, FullPlan, <<d>>, st)
    BY <1>3 DEF StartReprocess, Free
  <2> HIDE DEF st
  <2> QED
    BY <1>0, <2>1, <2>2, SingletonBatch, SubmitParted
<1>4. CASE AbortRun(o) /\ UNCHANGED task
  BY <1>0, <1>4, CloseParted DEF AbortRun
<1> QED
  BY <1>1, <1>2, <1>3, <1>4 DEF Control

LEMMA AdminParted ==
    ASSUME Parted, TypedTasks', Admin
    PROVE  Parted'
<1> USE DEF Admin, DeleteRows, DeletePoints, RequestReprocess, RequestFails,
        ReprocessFails, ReprocessOver, ResetFailed, ListFailed, store
<1>1. \A d \in Docs : status'[d] = "indexed" => status[d] = "indexed"
  BY DEF Parted, TypedTasks, TypeOK
<1>2. \A d \in Docs : d \notin pruned' => rows'[d] = rows[d] /\ points'[d] = points[d]
  <2>1. rows \in [Docs -> SUBSET Parts] /\ points \in [Docs -> SUBSET Parts]
    BY DEF Parted, TypedTasks, TypeOK
  <2>2. \/ rows' = rows /\ points' = points
        \/ \E e \in Docs : /\ e \in pruned'
                           /\ \/ rows' = [rows EXCEPT ![e] = {}] /\ points' = points
                              \/ points' = [points EXCEPT ![e] = {}] /\ rows' = rows
    OBVIOUS
  <2> QED
    BY <2>1, <2>2
<1>3. UNCHANGED <<phase, batch, snap, taken, local>> /\ pruned \subseteq pruned'
  BY DEF run
<1> QED
  BY <1>1, <1>2, <1>3, NothingMarked

LEMMA InitParted == Init => Parted
<1> SUFFICES ASSUME Init PROVE Parted
  OBVIOUS
<1>1. TypedTasks
  BY InitTyped
<1>2. \A d \in Docs : status[d] # "indexed"
  BY DEF Init
<1> QED
  BY <1>1, <1>2 DEF Init, Parted, QueueFresh, Own, OwnFresh, OwnUnmarked, OwnProgress,
     Complete, Marked, BeforeIndex, InIndex

LEMMA PartedStep ==
    ASSUME OneOrchestrator
    PROVE  Parted /\ [Next]_vars => Parted'
<1> SUFFICES ASSUME Parted, [Next]_vars PROVE Parted'
  OBVIOUS
<1>0. TypedTasks'
  BY TypedTasksStep DEF Parted
<1>1. ASSUME NEW w \in Workers, WorkerStep(w) \/ WorkerFault(w) PROVE Parted'
  BY <1>0, <1>1, WorkerParted
<1>2. ASSUME NEW o \in Orchs, OrchStep(o) PROVE Parted'
  BY <1>0, <1>2, OrchParted
<1>3. ASSUME NEW o \in Orchs, Control(o) PROVE Parted'
  BY <1>0, <1>3, ControlParted
<1>4. CASE Admin
  BY <1>0, <1>4, AdminParted
<1>5. CASE UNCHANGED vars
  BY <1>0, <1>5, NothingMarked DEF vars, store, run, admin
<1> QED
  BY <1>1, <1>2, <1>3, <1>4, <1>5 DEF Next

(***************************************************************************)
(* With one orchestrator, however its workers fail, time out or are late,  *)
(* and whatever administrators queue or reset, a document that reads       *)
(* 'indexed' has exactly its own chunks in Postgres and in Qdrant.         *)
(***************************************************************************)
THEOREM IndexedIsComplete ==
    ASSUME OneOrchestrator
    PROVE  Spec => []IndexedComplete
<1>1. Parted => IndexedComplete
  BY DEF Parted, Complete, Marked, IndexedComplete
<1>2. Parted /\ [Next]_vars => Parted'
  BY PartedStep
<1> QED
  BY <1>1, <1>2, InitParted, PTL DEF Spec

-----------------------------------------------------------------------------
(* The refinement.  What is published of a document follows from its mark  *)
(* when marked documents are complete, and a step changes one mark at most. *)

SameMarks(S) == \A e \in S : Marked(e)' = Marked(e)

LEMMA WorkerMarks ==
    ASSUME OneOrchestrator, Parted, NEW w \in Workers, WorkerStep(w) \/ WorkerFault(w)
    PROVE  \E d : SameMarks(Docs \ {d})
<1>1. CASE Take(w)
  BY <1>1 DEF WorkerStep, WorkerFault, Take, WipeRows, admin, store, SameMarks, Marked
<1>2. CASE ~Take(w)
  <2>1. Active(w)
    BY <1>2, ActiveStep
  <2>2. OwnStep(w)
    BY <2>1, WorkerOwn
  <2> QED
    BY <2>2 DEF OwnStep, SameMarks, Marked
<1> QED
  BY <1>1, <1>2

LEMMA OrchMarks ==
    ASSUME Parted, NEW o \in Orchs, OrchStep(o)
    PROVE  \E d : SameMarks(Docs \ {d})
<1> DEFINE d == batch[o][got[o] + 1]
<1>1. status' = status \/ status' = [status EXCEPT ![d] = "stopped"]
  BY DEF OrchStep, SettleOk, SettleFail, SettleEmpty, SettleError, SettleErrorAgain, SettleRaised,
     SettleTimeout, EndRun, CloseRun, store, MarkStopped, WriteStatus
<1> HIDE DEF d
<1>2. SameMarks(Docs \ {d})
  BY <1>1 DEF OrchStep, admin, SameMarks, Marked, Parted, TypedTasks, TypeOK
<1> QED
  BY <1>2

LEMMA ControlMarks ==
    ASSUME Parted, NEW o \in Orchs, Control(o)
    PROVE  \E d : SameMarks(Docs \ {d})
<1>0. status \in [Docs -> Status] /\ UNCHANGED pruned
  BY DEF Parted, TypedTasks, TypeOK, Control
<1>1. ASSUME NEW p \in Plans, NEW s \in Batches, StartRun(o, p, s)
      PROVE  SameMarks(Docs)
  BY <1>0, <1>1 DEF StartRun, Submit, OcrStatuses, SameMarks, Marked
<1>2. ASSUME NEW p \in Plans, NEW d \in Docs, StartTargeted(o, p, d)
      PROVE  SameMarks(Docs)
  BY <1>0, <1>2 DEF StartTargeted, Submit, SameMarks, Marked
<1>3. ASSUME NEW d \in Docs, StartReprocess(o, d)
      PROVE  SameMarks(Docs \ {d})
  BY <1>0, <1>3 DEF StartReprocess, Submit, SameMarks, Marked
<1>4. CASE AbortRun(o) /\ UNCHANGED task
  BY <1>0, <1>4 DEF AbortRun, CloseRun, store, SameMarks, Marked
<1> QED
  BY <1>1, <1>2, <1>3, <1>4 DEF Control, SameMarks

LEMMA AdminMarks ==
    ASSUME Parted, Admin
    PROVE  \E d : SameMarks(Docs \ {d})
<1>0. status \in [Docs -> Status]
  BY DEF Parted, TypedTasks, TypeOK
<1>1. ASSUME NEW d \in Docs,
             \/ DeleteRows(d) \/ DeletePoints(d) \/ RequestReprocess(d) \/ RequestFails(d)
             \/ ReprocessFails(d) \/ ReprocessOver(d) \/ ResetFailed(d)
      PROVE  SameMarks(Docs \ {d})
  BY <1>0, <1>1 DEF DeleteRows, DeletePoints, RequestReprocess, RequestFails,
     ReprocessFails, ReprocessOver, ResetFailed, store, SameMarks, Marked
<1>2. ASSUME NEW s \in Resettable, ListFailed(s)
      PROVE  SameMarks(Docs)
  BY <1>2 DEF ListFailed, store, SameMarks, Marked
<1> QED
  BY <1>1, <1>2 DEF Admin, SameMarks

LEMMA OneMark ==
    ASSUME OneOrchestrator, Parted, Next
    PROVE  \E d : SameMarks(Docs \ {d})
BY WorkerMarks, OrchMarks, ControlMarks, AdminMarks DEF Next

PublishedView == <<[d \in Docs |-> Marked(d)],
                   [d \in Docs |-> Shown(d, rows)], [d \in Docs |-> Shown(d, points)]>>

LEMMA PublishStep ==
    ASSUME OneOrchestrator, Parted, Parted', [Next]_vars
    PROVE  [Published!Next]_PublishedView
<1>1. /\ \A d \in Docs : Shown(d, rows) = (IF Marked(d) THEN PartsOf[d] ELSE {})
      /\ \A d \in Docs : Shown(d, points) = (IF Marked(d) THEN PartsOf[d] ELSE {})
      /\ \A d \in Docs : Shown(d, rows)' = (IF Marked(d)' THEN PartsOf[d] ELSE {})
      /\ \A d \in Docs : Shown(d, points)' = (IF Marked(d)' THEN PartsOf[d] ELSE {})
  BY DEF Parted, Complete, Shown, Marked
<1>2. CASE SameMarks(Docs)
  BY <1>1, <1>2 DEF PublishedView, SameMarks, Marked
<1>3. ASSUME NEW d, SameMarks(Docs \ {d}), ~SameMarks(Docs) PROVE Published!Next
  <2>1. d \in Docs /\ Marked(d)' # Marked(d)
    BY <1>3 DEF SameMarks
  <2>2. CASE ~Marked(d)
    <3>1. Marked(d)'
      BY <2>1, <2>2 DEF Marked
    <3>2. \A e \in Docs : Marked(e)' = (IF e = d THEN TRUE ELSE Marked(e))
      BY <1>3, <3>1 DEF SameMarks
    <3>3. [e \in Docs |-> Marked(e)]' = [[e \in Docs |-> Marked(e)] EXCEPT ![d] = TRUE]
      BY <3>2, Zenon
    <3>4. /\ [e \in Docs |-> Shown(e, rows)]'
                = [[e \in Docs |-> Shown(e, rows)] EXCEPT ![d] = PartsOf[d]]
          /\ [e \in Docs |-> Shown(e, points)]'
                = [[e \in Docs |-> Shown(e, points)] EXCEPT ![d] = PartsOf[d]]
      BY <1>1, <2>1, <3>1, <3>2
    <3>5. Published!Publish(d)
      BY <2>1, <2>2, <3>3, <3>4 DEF Published!Publish, Marked
    <3> QED
      BY <2>1, <3>5 DEF Published!Next
  <2>3. CASE Marked(d)
    <3>1. ~Marked(d)'
      BY <2>1, <2>3 DEF Marked
    <3>2. \A e \in Docs : Marked(e)' = (IF e = d THEN FALSE ELSE Marked(e))
      BY <1>3, <3>1 DEF SameMarks, Marked
    <3>3. [e \in Docs |-> Marked(e)]' = [[e \in Docs |-> Marked(e)] EXCEPT ![d] = FALSE]
      BY <3>2, Zenon
    <3>4. /\ [e \in Docs |-> Shown(e, rows)]'
                = [[e \in Docs |-> Shown(e, rows)] EXCEPT ![d] = {}]
          /\ [e \in Docs |-> Shown(e, points)]'
                = [[e \in Docs |-> Shown(e, points)] EXCEPT ![d] = {}]
      BY <1>1, <2>1, <3>1, <3>2
    <3>5. Published!Withdraw(d)
      BY <2>1, <2>3, <3>3, <3>4 DEF Published!Withdraw, Marked
    <3> QED
      BY <2>1, <3>5 DEF Published!Next
  <2> QED
    BY <2>2, <2>3
<1>4. CASE UNCHANGED vars
  BY <1>4 DEF vars, store, admin, PublishedView, Shown, Marked
<1> QED
  BY <1>2, <1>3, <1>4, OneMark

(***************************************************************************)
(* With one orchestrator the pipeline implements PublishedIndex: search    *)
(* sees a document appear whole and go whole, one document at a time.      *)
(***************************************************************************)
THEOREM PipelinePublishesWhole ==
    ASSUME OneOrchestrator
    PROVE  Spec => PublishesWhole
<1>1. Init => Published!Init
  BY DEF Init, Published!Init, Shown, Marked
<1>2. Parted /\ [Next]_vars => Parted'
  BY PartedStep
<1>3. Parted /\ Parted' /\ [Next]_vars => [Published!Next]_PublishedView
  BY PublishStep
<1> QED
  BY <1>1, <1>2, <1>3, InitParted, PTL DEF Spec, PublishesWhole, Published!Spec, PublishedView

-----------------------------------------------------------------------------
(* The invariant as a whole.                                               *)

\* With one orchestrator every step keeps what IndexedComplete rests on: no queued or
\* held copy is older than 'indexed', and the stores hold what the indexer has stored.
THEOREM IndInvAlways ==
    ASSUME OneOrchestrator
    PROVE  Spec => []IndInv
<1>1. Parted /\ [Next]_vars => Parted'
  BY PartedStep
<1> QED
  BY <1>1, InitParted, PartedIsIndInv, PTL DEF Spec

-----------------------------------------------------------------------------
(* An indexed document stays indexed until someone withdraws it.           *)

\* A worker that is past its checks holds a document that has a title, and one that
\* parses, summarizes or tags holds it as not indexed.
OwnKept(w) ==
    /\ pc[w] \in {"parsing", "summarizing", "tagBegin", "tagging"} => seen[w].st # "indexed"
    /\ pc[w] \notin {"idle", "start", "finish"} => DocOf(w) \notin Untitled
NoneUntitled == \A d \in Untitled : status[d] # "indexed"
KeptInv == Parted /\ NoneUntitled /\ \A w \in Workers : OwnKept(w)

\* The only worker step that could take a mark away is the rejection of a document
\* without a title, and such a document is never marked.
LEMMA WorkerKeepsMark ==
    ASSUME OneOrchestrator, Parted, NEW w \in Workers, Active(w), OwnKept(w), NoneUntitled,
           WorkerStep(w) \/ WorkerFault(w), NEW d, d = DocOf(w)
    PROVE  /\ OwnKept(w)'
           /\ status[d] = "indexed" => status'[d] = "indexed"
           /\ d \in Untitled => status'[d] # "indexed"
<1>0. TypeOK /\ OwnFresh(w) /\ OwnUnmarked(w) /\ d \in Docs /\ (d \in Untitled => status[d] # "indexed")
  BY DocOfType DEF Parted, TypedTasks, Own, NoneUntitled
<1> USE <1>0 DEF TypeOK, store, run, OwnFresh, OwnUnmarked, OwnKept, BeforeIndex, InIndex,
        DocOf, Active
<1>1. CASE MemoryRefused(w)
  BY <1>1 DEF MemoryRefused, Return, Forget, NoCopy
<1>2. CASE RejectUntitled(w)
  BY <1>2 DEF RejectUntitled, Goto, WriteStatus
<1>3. CASE BeginParse(w)
  BY <1>3 DEF BeginParse, WillParse, Step, Goto, WriteStatus
<1>4. CASE SkipParse(w)
  BY <1>4 DEF SkipParse, Step, Goto
<1>5. CASE ParseOk(w)
  BY <1>5 DEF ParseOk, Goto, WriteStatus
<1>6. CASE ParseFail(w)
  BY <1>6 DEF ParseFail, Goto, WriteStatus
<1>7. CASE BeginSummarize(w)
  BY <1>7 DEF BeginSummarize, WillSummarize, Goto, WriteStatus, Reload
<1>8. CASE SkipSummarize(w)
  BY <1>8 DEF SkipSummarize, Step, Goto
<1>9. CASE SummarizeOk(w)
  BY <1>9 DEF SummarizeOk, Goto, WriteStatus
<1>10. CASE SummarizeFail(w)
  BY <1>10 DEF SummarizeFail, Goto, WriteStatus
<1>11. CASE TagReload(w)
  BY <1>11 DEF TagReload, WillTag, Goto, Reload
<1>12. CASE SkipTag(w)
  BY <1>12 DEF SkipTag, Step, Goto
<1>13. CASE BeginTag(w)
  BY <1>13 DEF BeginTag, Step, Goto, WriteStatus
<1>14. CASE TagOk(w)
  BY <1>14 DEF TagOk, Goto, WriteStatus
<1>15. CASE TagFail(w)
  BY <1>15 DEF TagFail, Goto
<1>16. CASE IndexReload(w)
  BY <1>16 DEF IndexReload, Goto, Reload
<1>17. CASE SkipIndex(w)
  BY <1>17 DEF SkipIndex, Step, Goto
<1>18. CASE BeginIndex(w)
  BY <1>18 DEF BeginIndex, Step, Goto, WriteStatus
<1>19. CASE WipeRows(w)
  BY <1>19 DEF WipeRows, Step, Goto
<1>20. CASE WipePoints(w)
  BY <1>20 DEF WipePoints
<1>21. CASE StorePoints(w)
  BY <1>21 DEF StorePoints
<1>22. CASE RewriteDoc(w)
  BY <1>22 DEF RewriteDoc, Step, Goto, WriteStatus
<1>23. CASE MarkIndexed(w)
  BY <1>23 DEF MarkIndexed, Step, Goto, WriteStatus
<1>24. CASE ConfirmIndexed(w)
  BY <1>24 DEF ConfirmIndexed, Goto, WriteStatus
<1>25. CASE IndexFail(w)
  BY <1>25 DEF IndexFail, WriteStatus
<1>26. CASE Finish(w)
  BY <1>26 DEF Finish, Return, Forget, NoCopy
<1>27. CASE WorkerRaises(w)
  BY <1>27 DEF WorkerRaises, Return, Forget, NoCopy
<1>28. CASE WorkerKilled(w)
  BY <1>28 DEF WorkerKilled, Forget, NoCopy
<1>29. ASSUME NEW b \in Parts, StoreRows(w, b)
      PROVE  /\ OwnKept(w)'
             /\ status[d] = "indexed" => status'[d] = "indexed"
             /\ d \in Untitled => status'[d] # "indexed"
  BY <1>29 DEF StoreRows
<1>30. ~Take(w)
  BY DEF Take
<1> QED
  BY <1>1, <1>2, <1>3, <1>4, <1>5, <1>6, <1>7, <1>8, <1>9, <1>10, <1>11, <1>12, <1>13, <1>14, <1>15, <1>16, <1>17, <1>18, <1>19, <1>20, <1>21, <1>22, <1>23, <1>24, <1>25, <1>26, <1>27, <1>28, <1>29, <1>30
     DEF WorkerStep, WorkerFault

\* What an indexed document may become, as IndexedIsKept says.
StaysOr(d) ==
    status[d] = "indexed" =>
      \/ status'[d] \in {"indexed", "stopped", "queued"}
      \/ status'[d] = "downloaded" /\ (d \in listed \/ task[d] = "queued")
      \/ status'[d] = "error" /\ task[d] # "none"

KeptStep == KeptInv' /\ \A d \in Docs : StaysOr(d)

\* Steps that leave every worker's task and copy alone.
LEMMA OutsideKeeps ==
    ASSUME KeptInv, Parted', UNCHANGED <<pc, at, seen, batch>>,
           \A d \in Docs : StaysOr(d),
           \A d \in Docs : status'[d] = "indexed" => status[d] = "indexed"
    PROVE  KeptStep
<1>1. NoneUntitled'
  BY DocsAssumption DEF KeptInv, NoneUntitled
<1>2. \A w \in Workers : OwnKept(w)'
  BY DEF KeptInv, OwnKept, DocOf
<1> QED
  BY <1>1, <1>2 DEF KeptStep, KeptInv

\* Steps that end or begin a run: its workers are idle.
LEMMA IdleKeeps ==
    ASSUME OneOrchestrator, KeptInv, Parted', \A w \in Workers : pc'[w] = "idle",
           \A d \in Docs : StaysOr(d),
           \A d \in Docs : status'[d] = "indexed" => status[d] = "indexed"
    PROVE  KeptStep
<1>1. NoneUntitled'
  BY DocsAssumption DEF KeptInv, NoneUntitled
<1>2. \A w \in Workers : OwnKept(w)'
  BY DEF OwnKept
<1> QED
  BY <1>1, <1>2 DEF KeptStep, KeptInv

LEMMA SubmitKeeps ==
    ASSUME OneOrchestrator, KeptInv, Parted', NEW o \in Orchs, phase[o] # "running",
           NEW p, NEW s, NEW st, Submit(o, p, s, st),
           \A d \in Docs : StaysOr(d),
           \A d \in Docs : st[d] = "indexed" => status[d] = "indexed"
    PROVE  KeptStep
<1>1. ASSUME NEW w \in Workers PROVE pc'[w] = "idle"
  <2>1. PoolOf[w] = o
    BY PoolAssumption DEF OneOrchestrator
  <2>2. ~Active(w) /\ pc' = pc
    BY <2>1 DEF Submit, local, KeptInv, Parted, TypedTasks, Tasks, HoldsTask
  <2> QED
    BY <2>2 DEF Active
<1>2. status' = st
  BY DEF Submit
<1> QED
  BY <1>1, <1>2, IdleKeeps

LEMMA WorkerKept ==
    ASSUME OneOrchestrator, KeptInv, Parted', NEW w \in Workers, WorkerStep(w) \/ WorkerFault(w)
    PROVE  KeptStep
<1>0. TypeOK /\ PoolOf[w] \in Orchs
  BY PoolAssumption DEF KeptInv, Parted, TypedTasks
<1>1. CASE Take(w)
  <2>1. UNCHANGED <<status, batch>> /\ \A v \in Workers \ {w} : UNCHANGED <<pc[v], at[v], seen[v]>>
    BY <1>0, <1>1 DEF Take, store, TypeOK
  <2>2. pc'[w] = "start"
    BY <1>0, <1>1 DEF Take, TypeOK
  <2>3. \A v \in Workers : OwnKept(v)'
    BY <2>1, <2>2 DEF KeptInv, OwnKept, DocOf
  <2> QED
    BY <2>1, <2>3 DEF KeptStep, KeptInv, NoneUntitled, StaysOr
<1>2. CASE ~Take(w)
  <2>1. Active(w)
    BY <1>2, ActiveStep
  <2>2. OwnStep(w)
    BY <2>1, WorkerOwn DEF KeptInv
  <2>3. /\ OwnKept(w)'
        /\ status[DocOf(w)] = "indexed" => status'[DocOf(w)] = "indexed"
        /\ DocOf(w) \in Untitled => status'[DocOf(w)] # "indexed"
    BY <2>1, WorkerKeepsMark DEF KeptInv
  <2>4. ASSUME NEW v \in Workers, v # w PROVE OwnKept(v)'
    BY <2>2, <2>4 DEF KeptInv, OwnStep, OwnKept, DocOf
  <2>5. NoneUntitled'
    BY <2>2, <2>3, DocsAssumption DEF OwnStep, KeptInv, NoneUntitled
  <2>6. \A d \in Docs : StaysOr(d)
    BY <2>2, <2>3 DEF OwnStep, StaysOr
  <2> QED
    BY <2>3, <2>4, <2>5, <2>6 DEF KeptStep, KeptInv
<1> QED
  BY <1>1, <1>2

LEMMA KeptNext ==
    ASSUME OneOrchestrator, KeptInv, Parted', [Next]_vars
    PROVE  KeptStep
<1>0. TypeOK
  BY DEF KeptInv, Parted, TypedTasks
<1>c. ASSUME NEW o \in Orchs, NEW how, CloseRun(o, how) PROVE KeptStep
  <2>1. \A w \in Workers : pc'[w] = "idle"
    BY <1>c, PoolAssumption DEF CloseRun, Forget, OneOrchestrator
  <2>2. status' = status
    BY <1>c DEF CloseRun, store
  <2> QED
    BY <2>1, <2>2, IdleKeeps DEF StaysOr
<1>1. ASSUME NEW w \in Workers, WorkerStep(w) \/ WorkerFault(w) PROVE KeptStep
  BY <1>1, WorkerKept
<1>2. ASSUME NEW o \in Orchs, OrchStep(o) PROVE KeptStep
  <2>1. CASE EndRun(o)
    BY <1>c, <2>1 DEF EndRun
  <2>2. CASE Settle(o)
    <3>1. \A d \in Docs : status'[d] \in {status[d], "stopped"}
      BY <1>0, <1>2, <2>2 DEF OrchStep, SettleOk, SettleFail, SettleEmpty, SettleError,
         SettleErrorAgain, SettleRaised, SettleTimeout, EndRun, CloseRun, store, MarkStopped,
         WriteStatus, TypeOK
    <3>2. \A d \in Docs : StaysOr(d)
      BY <3>1 DEF StaysOr
    <3>3. UNCHANGED <<pc, at, seen, batch>>
      BY <2>2 DEF Settle, local
    <3> QED
      BY <3>1, <3>2, <3>3, OutsideKeeps
  <2> QED
    BY <1>2, <2>1, <2>2 DEF OrchStep, SettleOk, SettleFail, SettleEmpty, SettleError,
       SettleErrorAgain, SettleRaised, SettleTimeout
<1>3. ASSUME NEW o \in Orchs, Control(o) PROVE KeptStep
  <2>1. ASSUME NEW p \in Plans, NEW s \in Batches, StartRun(o, p, s) PROVE KeptStep
    <3> DEFINE st == [d \in Docs |-> IF status[d] \in OcrStatuses(p)
                                     THEN "downloaded" ELSE status[d]]
    <3>1. phase[o] # "running" /\ Submit(o, p, s, st) /\ status' = st
      BY <2>1 DEF StartRun, Free, Submit
    <3>2. \A d \in Docs : (status[d] = "indexed" => st[d] = "indexed") /\ (st[d] = "indexed" => status[d] = "indexed")
      BY DEF OcrStatuses
    <3>3. \A d \in Docs : StaysOr(d)
      BY <3>1, <3>2 DEF StaysOr
    <3> HIDE DEF st
    <3> QED
      BY <3>1, <3>2, <3>3, SubmitKeeps
  <2>2. ASSUME NEW p \in Plans, NEW d \in Docs, StartTargeted(o, p, d) PROVE KeptStep
    <3>1. phase[o] # "running" /\ Submit(o, p, <<d>>, status) /\ status' = status
      BY <2>2 DEF StartTargeted, Free, Submit
    <3> QED
      BY <3>1, SubmitKeeps DEF StaysOr
  <2>3. ASSUME NEW d \in Docs, StartReprocess(o, d) PROVE KeptStep
    <3> DEFINE st == [status EXCEPT ![d] = "downloaded"]
    <3>1. phase[o] # "running" /\ Submit(o, FullPlan, <<d>>, st) /\ status' = st /\ task[d] = "queued"
      BY <2>3 DEF StartReprocess, Free, Submit
    <3>2. \A e \in Docs : st[e] = "indexed" => status[e] = "indexed"
      BY <1>0 DEF TypeOK
    <3>3. \A e \in Docs : StaysOr(e)
      BY <1>0, <3>1 DEF StaysOr, TypeOK
    <3> HIDE DEF st
    <3> QED
      BY <3>1, <3>2, <3>3, SubmitKeeps
  <2>4. CASE AbortRun(o)
    BY <1>c, <2>4 DEF AbortRun
  <2> QED
    BY <1>3, <2>1, <2>2, <2>3, <2>4 DEF Control
<1>4. CASE Admin
  <2>1. UNCHANGED <<pc, at, seen, batch>>
    BY <1>4 DEF Admin, DeleteRows, DeletePoints, RequestReprocess, RequestFails,
       ReprocessFails, ReprocessOver, ResetFailed, ListFailed, run, local
  <2>2. \A d \in Docs : status'[d] = "indexed" => status[d] = "indexed"
    BY <1>0, <1>4 DEF Admin, DeleteRows, DeletePoints, RequestReprocess, RequestFails,
       ReprocessFails, ReprocessOver, ResetFailed, ListFailed, store, TypeOK
  <2>3. ASSUME NEW d \in Docs, status[d] = "indexed" PROVE StaysOr(d)
    <3>1. ASSUME NEW e \in Docs, ReprocessFails(e) PROVE StaysOr(d)
      <4>1. task[e] # "none"
        BY <3>1, RequestsAssumption DEF ReprocessFails, Requests
      <4> QED
        BY <1>0, <3>1, <4>1 DEF ReprocessFails, StaysOr, TypeOK
    <3> QED
      BY <1>0, <1>4, <3>1 DEF Admin, DeleteRows, DeletePoints, RequestReprocess, RequestFails,
         ReprocessOver, ResetFailed, ListFailed, store, StaysOr, TypeOK
  <2> QED
    BY <2>1, <2>2, <2>3, OutsideKeeps DEF StaysOr
<1>5. CASE UNCHANGED vars
  BY <1>5, OutsideKeeps DEF vars, store, run, local, StaysOr
<1> QED
  BY <1>1, <1>2, <1>3, <1>4, <1>5 DEF Next

(***************************************************************************)
(* With one orchestrator no run takes an indexed document back to an       *)
(* earlier stage by itself: only a failure report ('stopped') or an        *)
(* administrator's reprocess or reset withdraws it.                        *)
(***************************************************************************)
THEOREM IndexedStaysKept ==
    ASSUME OneOrchestrator
    PROVE  Spec => IndexedIsKept
<1> DEFINE Stays == \A d \in Docs : StaysOr(d)
<1>1. Init => KeptInv
  BY InitParted, DocsAssumption DEF Init, KeptInv, NoneUntitled, OwnKept
<1>2. KeptInv /\ [Next]_vars => KeptInv' /\ Stays
  BY PartedStep, KeptNext DEF KeptInv, KeptStep
<1>3. IndexedIsKept <=> [][Stays]_vars
  BY PTL DEF IndexedIsKept, StaysOr
<1> QED
  BY <1>1, <1>2, <1>3, PTL DEF Spec

-----------------------------------------------------------------------------
(* A run that reports no failure.                                          *)

Well == {"empty", "ok"}
EveryStage(p) == [p EXCEPT !.ocr = FALSE] = FullPlan

\* What a document may read, besides what the run has written.
Outer(d) == {"queued", "error"} \union (IF d \in Attended THEN {"downloaded"} ELSE {})
Reads(d, s) == status[d] \in {s} \union Outer(d)

\* What CleanRun asks of a document of run o, and of which of them.
InOrder(o, d) ==
    status[d] \in {"indexed", "queued", "error"}
        \union (IF ~EveryStage(plan[o]) THEN Ready
                ELSE IF d \in Attended THEN {"downloaded"} ELSE {})
Counted(o, d) == stats[o].failed = 0 /\ snap[o][d].st \in Collectable(plan[o])

\* As long as no stage has failed a worker's copy is what it wrote last, and with
\* every stage enabled no stage is skipped that the document still needs.
Fit(w) ==
    /\ pc[w] \in BeforeIndex \ {"index"} => tally[w] \in Well
    /\ pc[w] = "start" => seen[w].st \in Collectable(PlanOf(w)) /\ Reads(DocOf(w), seen[w].st)
    /\ pc[w] \in {"summarize", "tag", "index"} /\ tally[w] \in Well =>
          seen[w].st \in Ready /\ Reads(DocOf(w), seen[w].st)
    /\ pc[w] = "summarize" /\ EveryStage(PlanOf(w)) => seen[w].st # "downloaded"
    /\ pc[w] = "tag" /\ EveryStage(PlanOf(w)) => seen[w].st \in {"summarized", "tagged"}
    /\ pc[w] = "finish" /\ tally[w] \in Well => InOrder(PoolOf[w], DocOf(w))
OwnClean(w) == Active(w) /\ Counted(PoolOf[w], DocOf(w)) => Fit(w)

\* A task that waits finds its document as it was collected, one that was answered
\* well has left it in order.
TaskClean(o, i) ==
    Counted(o, batch[o][i]) =>
      /\ i > taken[o] => Reads(batch[o][i], snap[o][batch[o][i]].st)
      /\ verdict[o][i] \in Well => InOrder(o, batch[o][i])

\* Whoever settles a result that is not good reports a failure.
Settled(o) ==
    /\ stats[o].failed = 0 => \A i \in 1 .. got[o] : verdict[o][i] \in Well
    /\ phase[o] = "finished" => got[o] = Len(batch[o])

OthersClean ==
    /\ listed \subseteq Attended
    /\ \A w \in Workers : pc[w] = "idle" => tally[w] = "empty"

RunClean ==
    /\ OthersClean
    /\ \A w \in Workers : OwnClean(w)
    /\ \A o \in Orchs : Settled(o)
    /\ \A o \in Orchs : \A i \in 1 .. Len(batch[o]) : TaskClean(o, i)
CleanInv == Parted /\ BalanceInv /\ RunClean

LEMMA EveryStageHas ==
    ASSUME NEW p \in PlanSet, EveryStage(p)
    PROVE  p.parse /\ HasSummarizer(p) /\ HasTagger(p) /\ p.index
<1>1. /\ p.parse = [p EXCEPT !.ocr = FALSE].parse
      /\ p.summarize = [p EXCEPT !.ocr = FALSE].summarize
      /\ p.tag = [p EXCEPT !.ocr = FALSE].tag
      /\ p.index = [p EXCEPT !.ocr = FALSE].index
      /\ p.sumOn = [p EXCEPT !.ocr = FALSE].sumOn
      /\ p.tagOn = [p EXCEPT !.ocr = FALSE].tagOn
  BY DEF PlanSet
<1> QED
  BY <1>1 DEF EveryStage, FullPlan, HasSummarizer, HasTagger

LEMMA FitStep ==
    ASSUME TypedTasks, NEW w \in Workers, Active(w), WorkerStep(w), ~Finish(w), ~MemoryRefused(w),
           Fit(w)
    PROVE  Fit(w)'
<1> DEFINE d == DocOf(w)
           p == PlanOf(w)
<1>0. /\ status \in [Docs -> Status] /\ pc \in [Workers -> Locals]
      /\ seen \in [Workers -> Copy] /\ tally \in [Workers -> {"empty", "ok", "fail", "error"}]
      /\ d \in Docs /\ PoolOf[w] \in Orchs
      /\ EveryStage(p) => p.parse /\ HasSummarizer(p) /\ HasTagger(p) /\ p.index
      /\ Collectable(p) \subseteq Ready
  BY DocOfType, EveryStageHas DEF TypedTasks, TypeOK, PlanOf, Collectable, Ready
<1>a. ASSUME UNCHANGED <<run, at>>
      PROVE  /\ PlanOf(w)' = PlanOf(w) /\ DocOf(w)' = DocOf(w)
             /\ UNCHANGED plan
  BY <1>a DEF PlanOf, DocOf, run
<1> HIDE DEF d, p
<1> USE <1>0, <1>a DEF store, Fit, Reads, InOrder, BeforeIndex, InIndex, Ready, Well, Active, d, p
<1>1. CASE RejectUntitled(w)
  BY <1>1 DEF RejectUntitled, Goto, WriteStatus
<1>2. CASE BeginParse(w)
  BY <1>2 DEF BeginParse, Step, Goto, WriteStatus
<1>3. CASE SkipParse(w)
  BY <1>3 DEF SkipParse, WillParse, Step, Goto
<1>4. CASE ParseOk(w)
  BY <1>4 DEF ParseOk, Goto, WriteStatus
<1>5. CASE ParseFail(w)
  BY <1>5 DEF ParseFail, Goto
<1>6. CASE BeginSummarize(w)
  BY <1>6 DEF BeginSummarize, Goto, WriteStatus
<1>7. CASE SkipSummarize(w)
  BY <1>7 DEF SkipSummarize, WillSummarize, Step, Goto
<1>8. CASE SummarizeOk(w)
  BY <1>8 DEF SummarizeOk, Goto, WriteStatus
<1>9. CASE SummarizeFail(w)
  BY <1>9 DEF SummarizeFail, Goto, WriteStatus
<1>10. CASE TagReload(w)
  BY <1>10 DEF TagReload, Goto
<1>11. CASE SkipTag(w)
  BY <1>11 DEF SkipTag, Step, Goto
<1>12. CASE BeginTag(w)
  BY <1>12 DEF BeginTag, Step, Goto, WriteStatus
<1>13. CASE TagOk(w)
  BY <1>13 DEF TagOk, Goto, WriteStatus
<1>14. CASE TagFail(w)
  BY <1>14 DEF TagFail, Goto
<1>15. CASE IndexReload(w)
  BY <1>15 DEF IndexReload, Goto
<1>16. CASE SkipIndex(w)
  <2>1. /\ pc[w] = "index" /\ pc'[w] = "finish" /\ tally'[w] = tally[w]
        /\ UNCHANGED <<status, run, at>>
    BY <1>16 DEF SkipIndex, Step, Goto
  <2>2. ASSUME tally[w] \in Well PROVE InOrder(PoolOf[w], d)'
    <3>1. seen[w].st \in Ready /\ status[d] \in {seen[w].st} \union Outer(d)
      BY <2>1, <2>2
    <3>2. ~EveryStage(plan[PoolOf[w]])
      BY <1>16, <3>1 DEF SkipIndex, WillIndex, IndexStatuses, PlanOf
    <3> QED
      BY <2>1, <3>1, <3>2 DEF Outer
  <2> QED
    BY <2>1, <2>2
<1>17. CASE BeginIndex(w)
  BY <1>17 DEF BeginIndex, Step, Goto
<1>18. CASE WipeRows(w)
  BY <1>18 DEF WipeRows, Step, Goto
<1>19. CASE WipePoints(w)
  BY <1>19 DEF WipePoints
<1>20. CASE StorePoints(w)
  BY <1>20 DEF StorePoints
<1>21. CASE RewriteDoc(w)
  BY <1>21 DEF RewriteDoc, Step, Goto
<1>22. CASE MarkIndexed(w)
  BY <1>22 DEF MarkIndexed, Step, Goto
<1>23. CASE ConfirmIndexed(w)
  BY <1>23 DEF ConfirmIndexed, Goto, WriteStatus
<1>24. CASE IndexFail(w)
  BY <1>24 DEF IndexFail
<1>25. ASSUME NEW b \in Parts, StoreRows(w, b) PROVE Fit(w)'
  BY <1>25 DEF StoreRows
<1>26. ~Take(w)
  BY DEF Take
<1> QED
  BY <1>1, <1>2, <1>3, <1>4, <1>5, <1>6, <1>7, <1>8, <1>9, <1>10, <1>11, <1>12, <1>13, <1>14, <1>15, <1>16, <1>17, <1>18, <1>19, <1>20, <1>21, <1>22, <1>23, <1>24, <1>25, <1>26
     DEF WorkerStep

\* How a busy worker's step leaves the others and its run: it goes on, or its task ends.
Ends(w) ==
    /\ pc'[w] = "idle" /\ tally'[w] = "empty"
    /\ UNCHANGED status
    /\ \/ UNCHANGED verdict
       \/ \E v : /\ verdict' = [verdict EXCEPT ![PoolOf[w]][at[w]] = v]
                 /\ v \in Well => pc[w] = "finish" /\ v = tally[w]

LEMMA WorkerEffects ==
    ASSUME TypedTasks, NEW w \in Workers, Active(w), WorkerStep(w) \/ WorkerFault(w)
    PROVE  /\ UNCHANGED <<phase, plan, batch, snap, taken, got, stats, listed>>
           /\ \A v \in Workers \ {w} : tally'[v] = tally[v]
           /\ \/ Ends(w)
              \/ /\ WorkerStep(w) /\ ~Finish(w) /\ ~MemoryRefused(w)
                 /\ UNCHANGED verdict /\ Active(w)'
<1>0. ~Take(w) /\ UNCHANGED listed
  BY DEF Take, Active, WorkerStep, WorkerFault, admin
<1>1. ASSUME NEW v, Return(w, v), UNCHANGED store, v \in Well => pc[w] = "finish" /\ v = tally[w]
      PROVE  /\ UNCHANGED <<phase, plan, batch, snap, taken, got, stats>>
             /\ \A x \in Workers \ {w} : tally'[x] = tally[x]
             /\ Ends(w)
  BY <1>1 DEF Return, Forget, Ends, store
<1>2. CASE Finish(w)
  BY <1>0, <1>1, <1>2 DEF Finish
<1>3. CASE MemoryRefused(w)
  BY <1>0, <1>1, <1>3 DEF MemoryRefused, Well
<1>4. CASE WorkerRaises(w)
  BY <1>0, <1>1, <1>4 DEF WorkerRaises, Well
<1>5. CASE WorkerKilled(w)
  BY <1>0, <1>5 DEF WorkerKilled, Forget, Ends, store, run
<1>6. ASSUME ~Finish(w), ~MemoryRefused(w), WorkerStep(w)
      PROVE  UNCHANGED run /\ Active(w)'
  <2>1. GoesOn(w)
    BY <1>0, <1>6 DEF WorkerStep, GoesOn, Active, TypedTasks, TypeOK, BeforeIndex, InIndex, RejectUntitled,
       BeginParse, SkipParse, ParseOk, ParseFail, BeginSummarize, SkipSummarize, SummarizeOk,
       SummarizeFail, TagReload, SkipTag, BeginTag, TagOk, TagFail, IndexReload, SkipIndex,
       BeginIndex, WipeRows, WipePoints, StorePoints, StoreRows, RewriteDoc, MarkIndexed,
       ConfirmIndexed, IndexFail, Step, Goto
  <2> QED
    BY <2>1 DEF GoesOn
<1>7. ASSUME ~Finish(w), ~MemoryRefused(w), WorkerStep(w)
      PROVE  \A x \in Workers \ {w} : tally'[x] = tally[x]
  BY <1>0, <1>7 DEF WorkerStep, TypedTasks, TypeOK, RejectUntitled,
     BeginParse, SkipParse, ParseOk, ParseFail, BeginSummarize, SkipSummarize, SummarizeOk,
     SummarizeFail, TagReload, SkipTag, BeginTag, TagOk, TagFail, IndexReload, SkipIndex,
     BeginIndex, WipeRows, WipePoints, StorePoints, StoreRows, RewriteDoc, MarkIndexed,
     ConfirmIndexed, IndexFail, Step, Goto
<1> QED
  BY <1>0, <1>2, <1>3, <1>4, <1>5, <1>6, <1>7 DEF WorkerFault, run

LEMMA BusyClean ==
    ASSUME OneOrchestrator, CleanInv, TypeOK', NEW w \in Workers, Active(w),
           WorkerStep(w) \/ WorkerFault(w)
    PROVE  RunClean'
<1> DEFINE o == PoolOf[w]
           d == DocOf(w)
<1>0. /\ Parted /\ TypedTasks /\ TypeOK /\ OthersClean /\ OwnClean(w)
      /\ o \in Orchs /\ at[w] \in 1 .. taken[o] /\ verdict[o][at[w]] = "none"
      /\ taken[o] \in Nat /\ d \in Docs
  BY DocOfType, PoolAssumption DEF CleanInv, Parted, TypedTasks, TypeOK, Tasks, HoldsTask, BalanceInv, Unanswered,
     RunClean
<1>1. /\ UNCHANGED <<phase, plan, batch, snap, taken, got, stats, listed>>
      /\ \A v \in Workers \ {w} : tally'[v] = tally[v]
      /\ \/ Ends(w)
         \/ /\ WorkerStep(w) /\ ~Finish(w) /\ ~MemoryRefused(w)
            /\ UNCHANGED verdict /\ Active(w)'
  BY <1>0, WorkerEffects
<1>2. /\ \A v \in Workers \ {w} : UNCHANGED <<pc[v], at[v], seen[v]>>
      /\ \A e \in Docs \ {d} : status'[e] = status[e]
  BY <1>0, WorkerOwn DEF OwnStep
<1>3. ASSUME NEW q \in Orchs, NEW i, q # o \/ i # at[w] PROVE verdict'[q][i] = verdict[q][i]
  <2>1. CASE UNCHANGED verdict
    BY <2>1
  <2>2. CASE ~UNCHANGED verdict
    <3>1. PICK v : verdict' = [verdict EXCEPT ![o][at[w]] = v]
      BY <1>1, <2>2 DEF Ends
    <3>2. verdict \in [Orchs -> [Slots -> Verdicts]]
      BY <1>0 DEF TypeOK
    <3> HIDE DEF o
    <3> QED
      BY <1>0, <1>3, <3>1, <3>2
  <2> QED
    BY <2>1, <2>2
<1>4. OthersClean'
  BY <1>0, <1>1, <1>2 DEF OthersClean, Ends, Active
<1>5. ASSUME NEW v \in Workers, v # w PROVE OwnClean(v)'
  <2> SUFFICES ASSUME Active(v)', Counted(PoolOf[v], DocOf(v))' PROVE Fit(v)'
    BY DEF OwnClean
  <2>1. Active(v) /\ DocOf(v)' = DocOf(v) /\ PlanOf(v)' = PlanOf(v)
    BY <1>1, <1>2, <1>5 DEF Active, DocOf, PlanOf
  <2>2. DocOf(v) \in Docs \ {d}
    BY <1>0, <1>5, <2>1, Alone, DocOfType
  <2>3. Fit(v)
    BY <1>1, <2>1 DEF CleanInv, RunClean, OwnClean, Counted
  <2> QED
    BY <1>1, <1>2, <1>5, <2>1, <2>2, <2>3 DEF Fit, Reads, InOrder
<1>6. OwnClean(w)'
  <2> SUFFICES ASSUME Active(w)', Counted(o, d)' PROVE Fit(w)'
    BY DEF OwnClean
  <2>1. WorkerStep(w) /\ ~Finish(w) /\ ~MemoryRefused(w)
    BY <1>1 DEF Ends, Active
  <2>2. UNCHANGED at
    BY <1>0, <1>2, <2>1, WorkerKinds DEF GoesOn, Return, Forget, WorkerKilled, Active, Take
  <2>3. Counted(o, d)
    BY <1>1, <2>2 DEF Counted, DocOf
  <2> QED
    BY <1>0, <2>1, <2>3, FitStep DEF OwnClean
<1>7. ASSUME NEW q \in Orchs PROVE Settled(q)'
  <2>1. Settled(q)
    BY DEF CleanInv, RunClean
  <2>2. ASSUME stats[q].failed = 0, NEW i \in 1 .. got[q] PROVE verdict'[q][i] \in Well
    <3>1. verdict[q][i] \in Well
      BY <2>1, <2>2 DEF Settled
    <3>2. q # o \/ i # at[w]
      BY <1>0, <3>1 DEF Well
    <3> QED
      BY <1>3, <3>1, <3>2
  <2> QED
    BY <1>1, <2>1, <2>2 DEF Settled
<1>8. ASSUME NEW q \in Orchs, NEW i \in 1 .. Len(batch'[q]) PROVE TaskClean(q, i)'
  <2>1. /\ TaskClean(q, i) /\ i \in 1 .. Len(batch[q]) /\ q = o
        /\ batch[q] \in Seq(Docs) /\ batch[q][i] \in Docs
    BY <1>0, <1>1 DEF CleanInv, RunClean, OneOrchestrator, TypeOK
  <2>2. CASE i # at[w]
    <3>1. batch[q][i] # d
      BY <1>0, <2>1, <2>2, DocOfType DEF TypedTasks, Tasks, Handed, Distinct, DocOf
    <3>2. status'[batch[q][i]] = status[batch[q][i]] /\ verdict'[q][i] = verdict[q][i]
      BY <1>2, <1>3, <2>1, <2>2, <3>1
    <3> QED
      BY <1>1, <2>1, <3>2 DEF TaskClean, Counted, Reads, InOrder
  <2>3. CASE i = at[w]
    <3>1. ~(i > taken'[q]) /\ batch[q][i] = d /\ batch' = batch
      BY <1>0, <1>1, <2>1, <2>3 DEF DocOf
    <3>2. ASSUME Counted(q, batch[q][i])', verdict'[q][i] \in Well PROVE InOrder(q, batch[q][i])'
      <4>1. Ends(w) /\ verdict' # verdict
        BY <1>0, <1>1, <2>1, <2>3, <3>2 DEF Well
      <4>2. PICK v : /\ verdict' = [verdict EXCEPT ![o][at[w]] = v]
                     /\ v \in Well => pc[w] = "finish" /\ v = tally[w]
        BY <4>1 DEF Ends
      <4>3. verdict'[q][i] = v
        BY <1>0, <2>1, <2>3, <3>2, <4>2 DEF TypeOK, Well
      <4>4. pc[w] = "finish" /\ tally[w] \in Well
        BY <3>2, <4>2, <4>3
      <4>5. Counted(q, d)
        BY <1>1, <3>1, <3>2 DEF Counted
      <4>6. Fit(w)
        BY <1>0, <2>1, <4>5 DEF OwnClean
      <4>7. InOrder(q, d)
        BY <2>1, <4>4, <4>6 DEF Fit
      <4> QED
        BY <1>1, <3>1, <4>1, <4>7 DEF InOrder, Ends
    <3> QED
      BY <3>1, <3>2 DEF TaskClean
  <2> QED
    BY <2>2, <2>3
<1> QED
  BY <1>4, <1>5, <1>6, <1>7, <1>8 DEF RunClean

LEMMA TakeClean ==
    ASSUME OneOrchestrator, CleanInv, TypeOK', NEW w \in Workers, Take(w), UNCHANGED admin
    PROVE  RunClean'
<1> DEFINE o == PoolOf[w]
           n == taken[o] + 1
<1>a. TypeOK /\ OthersClean
  BY DEF CleanInv, BalanceInv, TypedTasks, RunClean
<1>b. o \in Orchs /\ taken[o] \in Nat /\ batch[o] \in Seq(Docs)
  BY <1>a, PoolAssumption DEF TypeOK
<1>c. n \in 1 .. Len(batch[o]) /\ n > taken[o]
  BY <1>b DEF Take
<1>d. pc[w] = "idle" /\ tally[w] = "empty"
  BY <1>a DEF OthersClean, Take
<1>0. /\ TypeOK /\ OthersClean
      /\ o \in Orchs /\ taken[o] \in Nat /\ batch[o] \in Seq(Docs)
      /\ n \in 1 .. Len(batch[o]) /\ n > taken[o]
      /\ pc[w] = "idle" /\ tally[w] = "empty"
  BY <1>a, <1>b, <1>c, <1>d
<1>1. /\ UNCHANGED <<status, phase, plan, batch, snap, got, verdict, stats, tally, listed>>
      /\ taken' = [taken EXCEPT ![o] = n]
      /\ pc' = [pc EXCEPT ![w] = "start"] /\ at' = [at EXCEPT ![w] = n]
      /\ seen' = [seen EXCEPT ![w] = snap[o][batch[o][n]]]
  BY DEF Take, store, admin
<1> HIDE DEF n
<1>2. OthersClean'
  BY <1>0, <1>1 DEF OthersClean, TypeOK
<1>3. OwnClean(w)'
  <2>1. pc'[w] = "start" /\ DocOf(w)' = batch[o][n] /\ seen'[w] = snap[o][batch[o][n]]
    BY <1>0, <1>1 DEF DocOf, TypeOK
  <2>2. TaskClean(o, n)
    BY <1>0 DEF CleanInv, RunClean
  <2> QED
    BY <1>0, <1>1, <2>1, <2>2 DEF OwnClean, Fit, TaskClean, Counted, Reads, Well, BeforeIndex, PlanOf
<1>4. ASSUME NEW v \in Workers, v # w PROVE OwnClean(v)'
  <2>1. UNCHANGED <<pc[v], at[v], seen[v]>>
    BY <1>0, <1>1, <1>4 DEF TypeOK
  <2>2. OwnClean(v)
    BY DEF CleanInv, RunClean
  <2> QED
    BY <1>1, <2>1, <2>2 DEF OwnClean, Fit, Counted, Reads, InOrder, Active, DocOf, PlanOf
<1>5. ASSUME NEW q \in Orchs PROVE Settled(q)'
  BY <1>1 DEF CleanInv, RunClean, Settled
<1>6. ASSUME NEW q \in Orchs, NEW i \in 1 .. Len(batch'[q]) PROVE TaskClean(q, i)'
  <2>1. TaskClean(q, i) /\ (i > taken'[q] => i > taken[q])
    BY <1>0, <1>1 DEF CleanInv, RunClean, TypeOK
  <2> QED
    BY <1>1, <2>1 DEF TaskClean, Counted, Reads, InOrder
<1> QED
  BY <1>2, <1>3, <1>4, <1>5, <1>6 DEF RunClean

\* Administrators may queue a document, fail it, or reset one of theirs.
LEMMA AdminClean ==
    ASSUME CleanInv, UNCHANGED <<run, local>>, listed' \subseteq Attended,
           \A d \in Docs : status'[d] \in {status[d]} \union Outer(d)
    PROVE  RunClean'
<1>0. TypedTasks /\ TypeOK
  BY DEF CleanInv, Parted, TypedTasks
<1>1. /\ UNCHANGED <<phase, plan, batch, snap, taken, got, verdict, stats, pc, at, seen, tally>>
  BY DEF run, local
<1>2. ASSUME NEW d \in Docs, NEW s, Reads(d, s) PROVE Reads(d, s)'
  BY <1>2 DEF Reads, Outer
<1>3. ASSUME NEW o \in Orchs, NEW d \in Docs, InOrder(o, d) PROVE InOrder(o, d)'
  BY <1>1, <1>3 DEF InOrder, Outer, Ready
<1>4. ASSUME NEW w \in Workers PROVE OwnClean(w)'
  <2> SUFFICES ASSUME Active(w)', Counted(PoolOf[w], DocOf(w))' PROVE Fit(w)'
    BY DEF OwnClean
  <2>1. Fit(w) /\ DocOf(w) \in Docs /\ PoolOf[w] \in Orchs
    BY <1>0, <1>1, DocOfType DEF CleanInv, RunClean, OwnClean, Counted, Active, DocOf
  <2>2. DocOf(w)' = DocOf(w) /\ PlanOf(w)' = PlanOf(w)
    BY <1>1 DEF DocOf, PlanOf
  <2>3. \A s : Reads(DocOf(w), s) => Reads(DocOf(w), s)'
    BY <1>2, <2>1, <2>2
  <2>4. InOrder(PoolOf[w], DocOf(w)) => InOrder(PoolOf[w], DocOf(w))'
    BY <1>3, <2>1, <2>2
  <2>5. seen'[w] = seen[w]
    BY <1>1
  <2> QED
    BY <1>1, <2>1, <2>2, <2>3, <2>4, <2>5 DEF Fit, Reads
<1>5. ASSUME NEW o \in Orchs, NEW i \in 1 .. Len(batch'[o]) PROVE TaskClean(o, i)'
  <2>1. TaskClean(o, i) /\ batch[o][i] \in Docs /\ batch' = batch
    BY <1>0, <1>1 DEF CleanInv, RunClean, TypeOK
  <2> DEFINE e == batch[o][i]
  <2>2. /\ Counted(o, e)' = Counted(o, e)
        /\ Reads(e, snap[o][e].st) => Reads(e, snap[o][e].st)'
        /\ InOrder(o, e) => InOrder(o, e)'
    BY <1>1, <1>2, <1>3, <2>1 DEF Counted, Reads
  <2> QED
    BY <1>1, <2>1, <2>2 DEF TaskClean
<1> QED
  BY <1>1, <1>4, <1>5 DEF CleanInv, RunClean, OthersClean, Settled

\* The orchestrator marks a document only when it reports a failure.
LEMMA SettleClean ==
    ASSUME OneOrchestrator, CleanInv, TypeOK', NEW o \in Orchs, OrchStep(o), ~EndRun(o)
    PROVE  RunClean'
<1>0. TypedTasks /\ TypeOK
  BY DEF CleanInv, Parted, TypedTasks
<1>1. /\ UNCHANGED <<phase, plan, batch, snap, taken, verdict, pc, at, seen, tally, listed>>
      /\ got' = [got EXCEPT ![o] = @ + 1] /\ phase[o] = "running" /\ got[o] \in Nat
  BY <1>0 DEF OrchStep, SettleOk, SettleFail, SettleEmpty, SettleError, SettleErrorAgain, SettleRaised,
     SettleTimeout, Settle, Waiting, local, admin, TypeOK
<1>2. stats[o].failed \in Nat
  BY <1>0 DEF TypeOK
<1>3. CASE stats'[o].failed = 0
  <2>1. SettleOk(o) \/ SettleEmpty(o)
    BY <1>0, <1>2, <1>3 DEF OrchStep, SettleFail, SettleError, SettleErrorAgain, SettleRaised,
       SettleTimeout, Count, TypeOK
  <2>2. /\ stats'[o].failed = stats[o].failed /\ status' = status
        /\ verdict[o][got[o] + 1] \in Well
    BY <1>0, <1>2, <2>1 DEF SettleOk, SettleEmpty, Count, Waiting, TypeOK, Well
  <2>3. ASSUME NEW q \in Orchs PROVE q = o
    BY DEF OneOrchestrator
  <2>4. ASSUME NEW w \in Workers PROVE OwnClean(w)'
    <3>1. OwnClean(w) /\ PoolOf[w] = o
      BY <2>3, PoolAssumption DEF CleanInv, RunClean
    <3> QED
      BY <1>1, <2>2, <3>1 DEF OwnClean, Fit, Counted, Reads, InOrder, Active, DocOf, PlanOf
  <2>5. Settled(o)'
    <3>1. \A i \in 1 .. got[o] : verdict[o][i] \in Well
      BY <1>3, <2>2 DEF CleanInv, RunClean, Settled
    <3>2. got'[o] = got[o] + 1
      BY <1>0, <1>1 DEF TypeOK
    <3>3. \A i \in 1 .. got'[o] : verdict'[o][i] \in Well
      BY <1>1, <2>2, <3>1, <3>2
    <3> QED
      BY <1>1, <3>3 DEF Settled
  <2>6. ASSUME NEW i \in 1 .. Len(batch'[o]) PROVE TaskClean(o, i)'
    <3>1. TaskClean(o, i)
      BY <1>1 DEF CleanInv, RunClean
    <3> QED
      BY <1>1, <2>2, <3>1 DEF TaskClean, Counted, Reads, InOrder
  <2>7. OthersClean'
    BY <1>1 DEF CleanInv, RunClean, OthersClean
  <2> QED
    BY <2>3, <2>4, <2>5, <2>6, <2>7 DEF RunClean
<1>4. CASE stats'[o].failed # 0
  <2>1. \A q \in Orchs : q = o
    BY DEF OneOrchestrator
  <2>2. \A d : ~Counted(o, d)'
    BY <1>4 DEF Counted
  <2>3. \A w \in Workers : OwnClean(w)'
    BY <2>1, <2>2, PoolAssumption DEF OwnClean
  <2>4. Settled(o)' /\ OthersClean'
    BY <1>1, <1>4 DEF CleanInv, RunClean, OthersClean, Settled
  <2>5. \A i \in 1 .. Len(batch'[o]) : TaskClean(o, i)'
    BY <2>2 DEF TaskClean
  <2> QED
    BY <2>1, <2>3, <2>4, <2>5 DEF RunClean
<1> QED
  BY <1>3, <1>4

LEMMA CloseClean ==
    ASSUME OneOrchestrator, CleanInv, NEW o \in Orchs, NEW how, CloseRun(o, how),
           how = "finished" => got[o] = Len(batch[o]), listed' = listed
    PROVE  RunClean'
<1>1. /\ UNCHANGED <<status, plan, batch, snap, taken, got, verdict, stats>>
      /\ phase' = [phase EXCEPT ![o] = how] /\ TypeOK
  BY DEF CloseRun, store, CleanInv, BalanceInv, TypedTasks
<1>2. \A w \in Workers : pc'[w] = "idle" /\ tally'[w] = "empty"
  BY PoolAssumption DEF CloseRun, Forget, OneOrchestrator
<1>3. OthersClean' /\ \A w \in Workers : OwnClean(w)'
  BY <1>2 DEF OthersClean, OwnClean, Active, CleanInv, RunClean
<1>4. ASSUME NEW q \in Orchs PROVE Settled(q)'
  <2>1. phase'[q] = how /\ q = o
    BY <1>1 DEF TypeOK, OneOrchestrator
  <2> QED
    BY <1>1, <2>1 DEF CleanInv, RunClean, Settled
<1>5. ASSUME NEW q \in Orchs, NEW i \in 1 .. Len(batch'[q]) PROVE TaskClean(q, i)'
  <2>1. TaskClean(q, i)
    BY <1>1 DEF CleanInv, RunClean
  <2> QED
    BY <1>1, <2>1 DEF TaskClean, Counted, Reads, InOrder
<1> QED
  BY <1>3, <1>4, <1>5 DEF RunClean

\* A new run has read its documents as they are.
LEMMA SubmitClean ==
    ASSUME OneOrchestrator, CleanInv, BalanceInv', NEW o \in Orchs, NEW p, NEW s \in Seq(Docs), NEW st,
           phase[o] # "running", Submit(o, p, s, st), listed' = listed
    PROVE  RunClean'
<1>1. /\ TypeOK /\ HoldsTask /\ UNCHANGED <<pc, at, tally>>
      /\ batch'[o] = s /\ taken'[o] = 0 /\ got'[o] = 0 /\ status' = st /\ phase'[o] = "running"
      /\ snap'[o] = [d \in Docs |-> IF \E i \in DOMAIN s : s[i] = d
                                    THEN [st |-> st[d], out |-> out[d]] ELSE NoCopy]
  BY DEF CleanInv, BalanceInv, TypedTasks, Tasks, TypeOK, Submit, local
<1>2. \A q \in Orchs : q = o
  BY DEF OneOrchestrator
<1>3. ASSUME NEW w \in Workers PROVE OwnClean(w)'
  BY <1>1, <1>2, PoolAssumption DEF HoldsTask, OwnClean, Active
<1>4. OthersClean'
  BY <1>1 DEF OthersClean, CleanInv, RunClean
<1>5. Settled(o)'
  BY <1>1 DEF Settled
<1>6. ASSUME NEW i \in 1 .. Len(batch'[o]) PROVE TaskClean(o, i)'
  <2>1. i \in DOMAIN s /\ s[i] \in Docs
    BY <1>1, <1>6
  <2>2. snap'[o][s[i]].st = status'[s[i]]
    BY <1>1, <2>1
  <2>3. i \in taken'[o] + 1 .. Len(batch'[o])
    BY <1>1, <1>6
  <2>4. verdict'[o][i] = "none"
    BY <2>3 DEF BalanceInv, Unanswered
  <2> QED
    BY <1>1, <2>2, <2>4 DEF TaskClean, Reads, Well
<1> QED
  BY <1>2, <1>3, <1>4, <1>5, <1>6 DEF RunClean

LEMMA CleanStep ==
    ASSUME OneOrchestrator, CleanInv, Parted', BalanceInv', [Next]_vars
    PROVE  RunClean'
<1>0. TypeOK /\ TypeOK' /\ listed \subseteq Attended
  BY DEF CleanInv, Parted, TypedTasks, RunClean, OthersClean
<1>1. ASSUME NEW w \in Workers, WorkerStep(w) \/ WorkerFault(w) PROVE RunClean'
  <2>1. CASE Take(w)
    <3>1. UNCHANGED admin
      BY <1>1, <2>1 DEF WorkerStep, WorkerFault, Take, WipeRows
    <3> QED
      BY <1>0, <2>1, <3>1, TakeClean
  <2>2. CASE ~Take(w)
    BY <1>0, <1>1, <2>2, ActiveStep, BusyClean
  <2> QED
    BY <2>1, <2>2
<1>2. ASSUME NEW o \in Orchs, OrchStep(o) PROVE RunClean'
  <2>1. CASE EndRun(o)
    BY <1>2, <2>1, CloseClean DEF EndRun, OrchStep, admin
  <2>2. CASE ~EndRun(o)
    BY <1>0, <1>2, <2>2, SettleClean
  <2> QED
    BY <2>1, <2>2
<1>3. ASSUME NEW o \in Orchs, Control(o) PROVE RunClean'
  <2>0. listed' = listed
    BY <1>3 DEF Control
  <2>1. ASSUME NEW p \in Plans, NEW s \in Batches, StartRun(o, p, s) PROVE RunClean'
    BY <2>0, <2>1, BatchesAreSequences, SubmitClean DEF StartRun, Free
  <2>2. ASSUME NEW p \in Plans, NEW d \in Docs, StartTargeted(o, p, d) PROVE RunClean'
    BY <2>0, <2>2, SingletonBatch, SubmitClean DEF StartTargeted, Free
  <2>3. ASSUME NEW d \in Docs, StartReprocess(o, d) PROVE RunClean'
    BY <2>0, <2>3, SingletonBatch, SubmitClean DEF StartReprocess, Free
  <2>4. CASE AbortRun(o)
    BY <2>0, <2>4, CloseClean DEF AbortRun
  <2> QED
    BY <1>3, <2>1, <2>2, <2>3, <2>4 DEF Control
<1>4. CASE Admin
  <2>1. UNCHANGED <<run, local>>
    BY <1>4 DEF Admin, DeleteRows, DeletePoints, RequestReprocess, RequestFails,
       ReprocessFails, ReprocessOver, ResetFailed, ListFailed
  <2>2. listed' \subseteq Attended
    BY <1>0, <1>4 DEF Admin, DeleteRows, DeletePoints, RequestReprocess, RequestFails,
       ReprocessFails, ReprocessOver, ResetFailed, ListFailed
  <2>3. \A d \in Docs : status'[d] \in {status[d]} \union Outer(d)
    BY <1>0, <1>4 DEF Admin, DeleteRows, DeletePoints, RequestReprocess, RequestFails,
       ReprocessFails, ReprocessOver, ResetFailed, ListFailed, store, Outer, TypeOK
  <2> QED
    BY <2>1, <2>2, <2>3, AdminClean
<1>5. CASE UNCHANGED vars
  BY <1>0, <1>5, AdminClean DEF vars, store, admin
<1> QED
  BY <1>1, <1>2, <1>3, <1>4, <1>5 DEF Next

(***************************************************************************)
(* With one orchestrator, of any number of workers and documents: when     *)
(* run() returns no failure, no document it collected by stage is left     *)
(* failed, stopped or half done, and with every stage enabled each one is  *)
(* indexed, unless an administrator has queued or reset it since.          *)
(***************************************************************************)
THEOREM CleanRunsAreClean ==
    ASSUME OneOrchestrator
    PROVE  Spec => []CleanRun
<1>1. Init => CleanInv
  <2> SUFFICES ASSUME Init PROVE CleanInv
    OBVIOUS
  <2>1. Parted /\ BalanceInv
    BY InitParted, InitBalance
  <2>2. OthersClean /\ \A w \in Workers : OwnClean(w)
    BY DEF Init, OthersClean, OwnClean, Active
  <2>3. ASSUME NEW o \in Orchs PROVE Settled(o) /\ \A i \in 1 .. Len(batch[o]) : TaskClean(o, i)
    <3>1. got[o] = 0 /\ batch[o] = << >> /\ phase[o] = "idle"
      BY DEF Init
    <3>2. 1 .. got[o] = {} /\ 1 .. Len(batch[o]) = {}
      BY <3>1
    <3> QED
      BY <3>1, <3>2 DEF Settled
  <2> QED
    BY <2>1, <2>2, <2>3 DEF CleanInv, RunClean
<1>2. CleanInv /\ [Next]_vars => CleanInv'
  BY PartedStep, BalanceStep, CleanStep DEF CleanInv
<1>3. CleanInv => CleanRun
  <2> SUFFICES ASSUME CleanInv, NEW o \in Orchs, phase[o] = "finished", stats[o].failed = 0,
                      NEW i \in 1 .. Len(batch[o]),
                      snap[o][batch[o][i]].st \in Collectable(plan[o])
               PROVE  InOrder(o, batch[o][i])
    BY DEF CleanRun, InOrder, EveryStage
  <2>1. Settled(o) /\ TaskClean(o, i)
    BY DEF CleanInv, RunClean
  <2>2. i \in 1 .. got[o]
    BY <2>1 DEF Settled
  <2>3. verdict[o][i] \in Well
    BY <2>1, <2>2 DEF Settled
  <2> QED
    BY <2>1, <2>3 DEF TaskClean, Counted
<1> QED
  BY <1>1, <1>2, <1>3, PTL DEF Spec

=============================================================================
