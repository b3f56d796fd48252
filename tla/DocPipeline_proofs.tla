-------------------------- MODULE DocPipeline_proofs --------------------------
(***************************************************************************)
(* Proofs about DocPipeline.                                               *)
(***************************************************************************)
EXTENDS DocPipeline, SequenceTheorems, FiniteSetTheorems, TLAPS

TypedTasks == TypeOK /\ Tasks

LEMMA SlotsNat == Slots \subseteq Nat
BY FS_CardinalityType, DocsAssumption DEF Slots

LEMMA BatchesAreSequences == \A s \in Batches : s \in Seq(Docs) /\ Distinct(s)
<1> SUFFICES ASSUME NEW s \in Batches PROVE s \in Seq(Docs) /\ Distinct(s)
  OBVIOUS
<1>1. PICK n \in Slots : s \in [1 .. n -> Docs]
  BY DEF Batches
<1>2. n \in Nat
  BY <1>1, SlotsNat
<1>3. s \in Seq(Docs)
  BY <1>1, <1>2, SeqDef
<1> QED
  BY <1>3 DEF Batches

LEMMA SingletonBatch ==
    ASSUME NEW d \in Docs PROVE <<d>> \in Seq(Docs) /\ Distinct(<<d>>)
BY DEF Distinct

\* The document of a busy worker.
LEMMA DocOfType ==
    ASSUME TypedTasks, NEW w \in Workers, Active(w)
    PROVE  /\ PoolOf[w] \in Orchs
           /\ at[w] \in 1 .. Len(batch[PoolOf[w]])
           /\ DocOf(w) \in Docs
<1>1. PoolOf[w] \in Orchs
  BY PoolAssumption
<1>2. batch[PoolOf[w]] \in Seq(Docs) /\ taken[PoolOf[w]] \in Nat
  BY <1>1 DEF TypedTasks, TypeOK
<1>3. at[w] \in 1 .. Len(batch[PoolOf[w]])
  BY <1>1, <1>2 DEF TypedTasks, Tasks, HoldsTask, Handed
<1> QED
  BY <1>1, <1>2, <1>3 DEF DocOf

LEMMA PartsOfDoc == \A d \in Docs : PartsOf[d] \subseteq Parts
BY DEF Parts

LEMMA InitTyped == Init => TypedTasks
<1> SUFFICES ASSUME Init PROVE TypedTasks
  OBVIOUS
<1> USE DEF Init
<1>1. FullPlan \in PlanSet
  BY DEF FullPlan, PlanSet
<1>2. TypeOK
  BY <1>1 DEF TypeOK, Requests, Status, Ready, Busy, Resettable, Copy, NoCopy, Verdicts, Locals
<1>3. Tasks
  BY DEF Tasks, Handed, HoldsTask, OwnTask, InHand, Active, Distinct
<1> QED
  BY <1>2, <1>3 DEF TypedTasks

LEMMA TakeCounts ==
    ASSUME TypeOK, NEW w \in Workers, Take(w)
    PROVE  taken' \in [Orchs -> Nat] /\ at' \in [Workers -> Nat]
<1>1. PoolOf[w] \in Orchs
  BY PoolAssumption
<1>2. taken[PoolOf[w]] \in Nat
  BY <1>1 DEF TypeOK
<1>3. taken[PoolOf[w]] + 1 \in Nat
  BY <1>2
<1>4. taken' \in [Orchs -> Nat]
  BY <1>3 DEF TypeOK, Take
<1>5. at' \in [Workers -> Nat]
  BY <1>3 DEF TypeOK, Take
<1> QED
  BY <1>4, <1>5

LEMMA WorkerTyped ==
    ASSUME TypedTasks, NEW w \in Workers, WorkerStep(w) \/ WorkerFault(w)
    PROVE  TypeOK'
<1> USE DEF TypedTasks, TypeOK, store, run, local
<1>0. /\ listed' \subseteq Docs /\ pruned' \subseteq Docs
      /\ task' \in [Docs -> Requests \union Orchs]
  BY DEF WorkerStep, WorkerFault, WipeRows, admin
<1> USE <1>0 DEF BeforeIndex, InIndex
<1>1. CASE Take(w)
  <2>1. PoolOf[w] \in Orchs
    BY PoolAssumption
  <2>2. /\ batch[PoolOf[w]] \in Seq(Docs)
        /\ taken[PoolOf[w]] + 1 \in 1 .. Len(batch[PoolOf[w]])
    BY <1>1, <2>1 DEF Take
  <2>3. snap[PoolOf[w]][batch[PoolOf[w]][taken[PoolOf[w]] + 1]] \in Copy
    BY <2>1, <2>2
  <2>4. taken' \in [Orchs -> Nat] /\ at' \in [Workers -> Nat]
    BY <1>1, TakeCounts
  <2> QED
    BY <1>1, <2>1, <2>3, <2>4 DEF Take, Locals
<1>2. CASE MemoryRefused(w)
  BY <1>2
     DEF MemoryRefused, Return, Forget, NoCopy, Locals, Copy, Status, Ready, Verdicts
<1>3. CASE RejectUntitled(w)
  BY <1>3
     DEF RejectUntitled, Goto, WriteStatus, Locals, Status, Ready, Busy, Resettable, Copy
<1>4. CASE BeginParse(w)
  BY <1>4
     DEF BeginParse, Step, Goto, WriteStatus, Locals, Status, Ready, Busy, Resettable, Copy
<1>5. CASE SkipParse(w)
  BY <1>5 DEF SkipParse, Step, Goto, Locals, Copy, Status, Ready
<1>6. CASE ParseOk(w)
  BY <1>6
     DEF ParseOk, Goto, WriteStatus, Locals, Status, Ready, Busy, Resettable, Copy
<1>7. CASE ParseFail(w)
  <2>1. status' \in [Docs -> Status]
    BY <1>7 DEF ParseFail, WriteStatus, Status, Resettable
  <2> QED
    BY <1>7, <2>1 DEF ParseFail, Goto, Locals
<1>8. CASE BeginSummarize(w)
  BY <1>8, DocOfType
     DEF BeginSummarize, Goto, WriteStatus, Reload, Locals, Status, Ready, Busy, Resettable, Copy, Active
<1>9. CASE SkipSummarize(w)
  BY <1>9 DEF SkipSummarize, Step, Goto, Locals, Copy, Status, Ready
<1>10. CASE SummarizeOk(w)
  <2>1. status' \in [Docs -> Status]
    BY <1>10 DEF SummarizeOk, WriteStatus, Status, Ready
  <2>2. seen' \in [Workers -> Copy]
    BY <1>10 DEF SummarizeOk, Goto, Copy, Status, Ready
  <2> QED
    BY <1>10, <2>1, <2>2 DEF SummarizeOk, Goto, Locals
<1>11. CASE SummarizeFail(w)
  BY <1>11
     DEF SummarizeFail, Goto, WriteStatus, Locals, Status, Ready, Busy, Resettable, Copy
<1>12. CASE TagReload(w)
  BY <1>12, DocOfType
     DEF TagReload, Goto, Reload, Locals, Copy, Status, Ready, Active
<1>13. CASE SkipTag(w)
  BY <1>13 DEF SkipTag, Step, Goto, Locals, Copy, Status, Ready
<1>14. CASE BeginTag(w)
  BY <1>14
     DEF BeginTag, Step, Goto, WriteStatus, Locals, Status, Ready, Busy, Resettable, Copy
<1>15. CASE TagOk(w)
  BY <1>15
     DEF TagOk, Goto, WriteStatus, Locals, Status, Ready, Busy, Resettable, Copy
<1>16. CASE TagFail(w)
  BY <1>16 DEF TagFail, Goto, Locals, Copy, Status, Ready
<1>17. CASE IndexReload(w)
  BY <1>17, DocOfType
     DEF IndexReload, Goto, Reload, Locals, Copy, Status, Ready, Active
<1>18. CASE SkipIndex(w)
  BY <1>18 DEF SkipIndex, Step, Goto, Locals, Copy, Status, Ready
<1>19. CASE BeginIndex(w)
  BY <1>19
     DEF BeginIndex, Step, Goto, WriteStatus, Locals, Status, Ready, Busy, Resettable, Copy
<1>20. CASE WipeRows(w)
  BY <1>20 DEF WipeRows, Step, Goto, Locals, Copy, Status, Ready
<1>21. CASE WipePoints(w)
  <2>1. Active(w)
    BY <1>21 DEF WipePoints, Active
  <2>2. PartsOf[DocOf(w)] \in SUBSET Parts
    BY <2>1, DocOfType, PartsOfDoc
  <2> QED
    BY <1>21, <2>2 DEF WipePoints, Locals
<1>22. CASE StorePoints(w)
  <2>1. cur[w] \in Parts
    BY <1>22 DEF StorePoints, Tasks, InHand
  <2> QED
    BY <1>22, <2>1 DEF StorePoints, Locals
<1>23. CASE RewriteDoc(w)
  BY <1>23, DocOfType
     DEF RewriteDoc, Step, Goto, WriteStatus, Locals, Status, Ready, Busy, Resettable, Copy, Active
<1>24. CASE MarkIndexed(w)
  BY <1>24
     DEF MarkIndexed, Step, Goto, WriteStatus, Locals, Status, Ready, Busy, Resettable, Copy
<1>25. CASE IndexFail(w)
  BY <1>25 DEF IndexFail, WriteStatus, Locals, Status, Ready, Busy, Resettable
<1>26. CASE Finish(w)
  BY <1>26
     DEF Finish, Return, Forget, NoCopy, Locals, Copy, Status, Ready, Verdicts
<1>27. CASE WorkerRaises(w)
  BY <1>27
     DEF WorkerRaises, Return, Forget, NoCopy, Active, Locals, Copy, Status, Ready, Verdicts
<1>28. CASE WorkerKilled(w)
  BY <1>28 DEF WorkerKilled, Forget, NoCopy, Active, Locals, Copy, Status, Ready
<1>29. ASSUME NEW b \in Parts, StoreRows(w, b) PROVE TypeOK'
  BY <1>29 DEF StoreRows, Locals
<1>30. CASE ConfirmIndexed(w)
  BY <1>30
     DEF ConfirmIndexed, Goto, WriteStatus, Locals, Status, Ready, Busy, Resettable, Copy
<1> QED
  BY <1>1, <1>2, <1>3, <1>4, <1>5, <1>6, <1>7, <1>8, <1>9, <1>10, <1>11, <1>12, <1>13, <1>14, <1>15, <1>16, <1>17, <1>18, <1>19, <1>20, <1>21, <1>22, <1>23, <1>24, <1>25, <1>26, <1>27, <1>28, <1>29, <1>30 DEF WorkerStep, WorkerFault

LEMMA CountTyped ==
    ASSUME TypeOK, NEW o \in Orchs, NEW a \in Nat, NEW b \in Nat, NEW c \in Nat,
           Count(o, a, b, c)
    PROVE  stats' \in [Orchs -> [processed : Nat, success : Nat, failed : Nat]]
<1>1. stats[o] \in [processed : Nat, success : Nat, failed : Nat]
  BY DEF TypeOK
<1>2. [processed |-> stats[o].processed + a, success |-> stats[o].success + b,
       failed |-> stats[o].failed + c]
        \in [processed : Nat, success : Nat, failed : Nat]
  BY <1>1
<1> QED
  BY <1>2 DEF TypeOK, Count

LEMMA StoppedTyped ==
    ASSUME TypeOK, NEW o \in Orchs, MarkStopped(o)
    PROVE  status' \in [Docs -> Status]
BY DEF TypeOK, MarkStopped, WriteStatus, Status, Resettable

LEMMA OrchTyped ==
    ASSUME TypedTasks, NEW o \in Orchs, OrchStep(o) \/ AbortRun(o), UNCHANGED admin
    PROVE  TypeOK'
<1>a. /\ TypeOK /\ listed' \subseteq Docs /\ pruned' \subseteq Docs
      /\ task' \in [Docs -> Requests \union Orchs]
  BY DEF TypedTasks, TypeOK, admin
<1>b. ASSUME status' \in [Docs -> Status], Settle(o),
             stats' \in [Orchs -> [processed : Nat, success : Nat, failed : Nat]]
      PROVE  TypeOK'
  BY <1>a, <1>b DEF TypeOK, Settle, local
<1>c. status \in [Docs -> Status]
  BY <1>a DEF TypeOK
<1>1. CASE SettleOk(o)
  <2>1. stats' \in [Orchs -> [processed : Nat, success : Nat, failed : Nat]]
    <3>1. Count(o, 1, 1, 0)
      BY <1>1 DEF SettleOk
    <3> QED
      BY <3>1, <1>a, CountTyped
  <2> QED
    BY <1>1, <2>1, <1>a, <1>b, <1>c DEF SettleOk
<1>2. CASE SettleFail(o)
  <2>1. stats' \in [Orchs -> [processed : Nat, success : Nat, failed : Nat]]
    <3>1. Count(o, 1, 0, 1)
      BY <1>2 DEF SettleFail
    <3> QED
      BY <3>1, <1>a, CountTyped
  <2> QED
    BY <1>2, <2>1, <1>a, <1>b, <1>c DEF SettleFail
<1>3. CASE SettleEmpty(o)
  <2>1. stats' \in [Orchs -> [processed : Nat, success : Nat, failed : Nat]]
    <3>1. Count(o, 1, 0, 0)
      BY <1>3 DEF SettleEmpty
    <3> QED
      BY <3>1, <1>a, CountTyped
  <2> QED
    BY <1>3, <2>1, <1>a, <1>b, <1>c DEF SettleEmpty
<1>4. CASE SettleError(o)
  <2>1. stats' \in [Orchs -> [processed : Nat, success : Nat, failed : Nat]]
    <3>1. Count(o, 1, 0, 1)
      BY <1>4 DEF SettleError
    <3> QED
      BY <3>1, <1>a, CountTyped
  <2> QED
    BY <1>4, <2>1, <1>a, <1>b, StoppedTyped DEF SettleError
<1>5. CASE SettleRaised(o)
  <2>1. stats' \in [Orchs -> [processed : Nat, success : Nat, failed : Nat]]
    <3>1. Count(o, 1, 0, 1) \/ Count(o, 0, 0, 1)
      BY <1>5 DEF SettleRaised
    <3> QED
      BY <3>1, <1>a, CountTyped
  <2> QED
    BY <1>5, <2>1, <1>a, <1>b, StoppedTyped DEF SettleRaised
<1>6. CASE SettleTimeout(o)
  <2>1. stats' \in [Orchs -> [processed : Nat, success : Nat, failed : Nat]]
    <3>1. Count(o, 0, 0, 1)
      BY <1>6 DEF SettleTimeout
    <3> QED
      BY <3>1, <1>a, CountTyped
  <2> QED
    BY <1>6, <2>1, <1>a, <1>b, StoppedTyped DEF SettleTimeout
<1>7. CASE EndRun(o)
  BY <1>7, <1>a DEF TypeOK, store, EndRun, CloseRun, Forget, NoCopy, Locals, Copy, Status, Ready
<1>8. CASE AbortRun(o)
  BY <1>8, <1>a DEF TypeOK, store, AbortRun, CloseRun, Forget, NoCopy, Locals, Copy, Status, Ready
<1>9. CASE SettleErrorAgain(o)
  <2>1. stats' \in [Orchs -> [processed : Nat, success : Nat, failed : Nat]]
    <3>1. Count(o, 1, 0, 2)
      BY <1>9 DEF SettleErrorAgain
    <3> QED
      BY <3>1, <1>a, CountTyped
  <2> QED
    BY <1>9, <2>1, <1>a, <1>b, StoppedTyped DEF SettleErrorAgain
<1> QED
  BY <1>1, <1>2, <1>3, <1>4, <1>5, <1>6, <1>7, <1>8, <1>9 DEF OrchStep

\* What Submit needs of its arguments, and what it gives.
LEMMA SubmitTyped ==
    ASSUME TypedTasks, NEW o \in Orchs, NEW p \in PlanSet, NEW s,
           s \in Seq(Docs), Distinct(s),
           NEW st \in [Docs -> Status], phase[o] # "running",
           Submit(o, p, s, st), listed' = listed, pruned' = pruned,
           task' \in [Docs -> Requests \union Orchs]
    PROVE  TypedTasks'
<1> USE DEF TypedTasks
<1>1. [d \in Docs |-> IF \E i \in DOMAIN s : s[i] = d
                      THEN [st |-> st[d], out |-> out[d]] ELSE NoCopy] \in [Docs -> Copy]
  BY DEF TypeOK, Copy, NoCopy, Status, Ready
<1>2. TypeOK'
  BY <1>1 DEF TypeOK, Submit, Verdicts, local
<1>3. Handed'
  BY DEF TypeOK, Submit, Tasks, Handed
<1>4. ASSUME NEW w \in Workers, PoolOf[w] = o PROVE ~Active(w)
  BY <1>4 DEF Tasks, HoldsTask
<1>5. HoldsTask' /\ OwnTask' /\ InHand'
  BY <1>4, PoolAssumption
     DEF TypeOK, Submit, Tasks, HoldsTask, OwnTask, InHand, Active, local
<1> QED
  BY <1>2, <1>3, <1>5 DEF Tasks

LEMMA AdminTyped ==
    ASSUME TypedTasks, Admin
    PROVE  TypedTasks'
<1> USE DEF Admin, DeleteRows, DeletePoints, RequestReprocess, RequestFails,
        ReprocessFails, ReprocessOver, ResetFailed, ListFailed, store
<1>1. UNCHANGED <<out, run, local>>
  OBVIOUS
<1>2. TypeOK'
  <2>1. status' \in [Docs -> Status]
    BY DEF TypedTasks, TypeOK, Status, Ready
  <2>2. listed' \subseteq Docs
    BY DocsAssumption DEF TypedTasks, TypeOK
  <2>3. task' \in [Docs -> Requests \union Orchs]
    BY DEF TypedTasks, TypeOK, Requests
  <2>4. pruned' \subseteq Docs
    BY DEF TypedTasks, TypeOK
  <2>5. rows' \in [Docs -> SUBSET Parts] /\ points' \in [Docs -> SUBSET Parts]
    BY DEF TypedTasks, TypeOK
  <2> QED
    BY <1>1, <2>1, <2>2, <2>3, <2>4, <2>5 DEF TypedTasks, TypeOK, run, local
<1>3. Tasks'
  BY <1>1 DEF TypedTasks, Tasks, Handed, HoldsTask, OwnTask, InHand, Active, Distinct,
         run, local
<1> QED
  BY <1>2, <1>3 DEF TypedTasks

-----------------------------------------------------------------------------
(* Steps of a worker as the task bookkeeping sees them.                    *)

Moves(w) ==
    /\ Active(w)
    /\ UNCHANGED <<run, at, todo, cur>>
    /\ \E l \in Locals \ {"idle", "storePoints"} : pc' = [pc EXCEPT ![w] = l]

LEMMA MovesKeepTasks ==
    ASSUME TypedTasks, NEW w \in Workers, Moves(w)
    PROVE  Tasks'
<1> USE DEF TypedTasks, Moves, run
<1>1. \A v \in Workers : Active(v)' = Active(v) /\ (pc[v] = "storePoints")' => pc[v] = "storePoints"
  BY DEF TypeOK, Active
<1>2. Handed'
  BY DEF Tasks, Handed
<1>3. HoldsTask' /\ OwnTask'
  BY <1>1 DEF Tasks, HoldsTask, OwnTask, Active, TypeOK
<1>4. InHand'
  BY <1>1 DEF Tasks, InHand, TypeOK
<1> QED
  BY <1>2, <1>3, <1>4 DEF Tasks

LEMMA ForgetKeepsTasks ==
    ASSUME TypedTasks, NEW W \in SUBSET Workers, Forget(W),
           UNCHANGED <<phase, batch, taken>>
    PROVE  Tasks'
<1> USE DEF TypedTasks, Forget
<1>1. Handed'
  BY DEF Tasks, Handed
<1>2. HoldsTask' /\ OwnTask'
  BY DEF Tasks, HoldsTask, OwnTask, Active, TypeOK
<1>3. InHand'
  BY DEF Tasks, InHand, TypeOK
<1> QED
  BY <1>1, <1>2, <1>3 DEF Tasks

LEMMA TakeKeepsTasks ==
    ASSUME TypedTasks, NEW w \in Workers, Take(w)
    PROVE  Tasks'
<1> USE DEF TypedTasks
<1> DEFINE o == PoolOf[w]
<1>1. o \in Orchs /\ taken[o] \in Nat /\ Len(batch[o]) \in Nat
  BY PoolAssumption DEF TypeOK
<1>2. Handed'
  BY <1>1 DEF Tasks, Handed, Take, TypeOK
<1>3. /\ phase[o] = "running" /\ UNCHANGED phase
      /\ taken' = [taken EXCEPT ![o] = taken[o] + 1]
      /\ at'[w] = taken[o] + 1
      /\ \A v \in Workers \ {w} : at'[v] = at[v] /\ Active(v)' = Active(v)
  BY DEF Take, TypeOK, Active
<1>4. HoldsTask'
  <2> SUFFICES ASSUME NEW v \in Workers, Active(v)'
               PROVE  (phase[PoolOf[v]] = "running")' /\ (at[v] \in 1 .. taken[PoolOf[v]])'
    BY DEF HoldsTask
  <2>1. CASE v = w
    BY <2>1, <1>1, <1>3 DEF TypeOK
  <2>2. CASE v # w
    <3>1. PoolOf[v] \in Orchs /\ taken[PoolOf[v]] \in Nat
      BY PoolAssumption DEF TypeOK
    <3>2. phase[PoolOf[v]] = "running" /\ at[v] \in 1 .. taken[PoolOf[v]]
      BY <2>2, <1>3 DEF Tasks, HoldsTask
    <3> QED
      BY <2>2, <1>1, <1>3, <3>1, <3>2 DEF TypeOK
  <2> QED
    BY <2>1, <2>2
<1>5. ASSUME NEW v \in Workers, v # w, Active(v), PoolOf[v] = o PROVE at[v] < taken[o] + 1
  BY <1>1, <1>5 DEF Tasks, HoldsTask
<1>6. OwnTask'
  BY <1>1, <1>3, <1>5 DEF Tasks, OwnTask
<1>7. InHand'
  BY DEF Tasks, InHand, Take, TypeOK
<1> QED
  BY <1>2, <1>4, <1>6, <1>7 DEF Tasks

LEMMA MovingSteps ==
    ASSUME TypedTasks, NEW w \in Workers,
           \/ RejectUntitled(w) \/ BeginParse(w) \/ SkipParse(w) \/ ParseOk(w) \/ ParseFail(w)
           \/ BeginSummarize(w) \/ SkipSummarize(w) \/ SummarizeOk(w) \/ SummarizeFail(w) \/ TagReload(w) \/ SkipTag(w) \/ BeginTag(w)
           \/ TagOk(w) \/ TagFail(w) \/ IndexReload(w) \/ SkipIndex(w)
           \/ BeginIndex(w) \/ WipeRows(w) \/ RewriteDoc(w) \/ MarkIndexed(w) \/ ConfirmIndexed(w)
    PROVE  Moves(w)
<1> USE DEF BeforeIndex, InIndex
<1>1. CASE BeginParse(w)
  BY <1>1 DEF BeginParse, Step, Goto, WriteStatus, Moves, Active, Locals
<1>2. CASE SkipParse(w)
  BY <1>2 DEF SkipParse, Step, Goto, Moves, Active, Locals
<1>3. CASE ParseOk(w)
  BY <1>3 DEF ParseOk, Goto, WriteStatus, Moves, Active, Locals
<1>4. CASE BeginSummarize(w)
  BY <1>4 DEF BeginSummarize, Goto, WriteStatus, Reload, Moves, Active, Locals
<1>5. CASE SkipSummarize(w)
  BY <1>5 DEF SkipSummarize, Step, Goto, Moves, Active, Locals
<1>6. CASE SummarizeOk(w)
  BY <1>6 DEF SummarizeOk, Goto, WriteStatus, Moves, Active, Locals
<1>7. CASE TagReload(w)
  BY <1>7 DEF TagReload, Goto, Reload, Moves, Active, Locals
<1>8. CASE SkipTag(w)
  BY <1>8 DEF SkipTag, Step, Goto, Moves, Active, Locals
<1>9. CASE BeginTag(w)
  BY <1>9 DEF BeginTag, Step, Goto, WriteStatus, Moves, Active, Locals
<1>10. CASE TagOk(w)
  BY <1>10 DEF TagOk, Goto, WriteStatus, Moves, Active, Locals
<1>11. CASE TagFail(w)
  BY <1>11 DEF TagFail, Goto, Moves, Active, Locals
<1>12. CASE IndexReload(w)
  BY <1>12 DEF IndexReload, Goto, Reload, Moves, Active, Locals
<1>13. CASE SkipIndex(w)
  BY <1>13 DEF SkipIndex, Step, Goto, Moves, Active, Locals
<1>14. CASE BeginIndex(w)
  BY <1>14 DEF BeginIndex, Step, Goto, WriteStatus, Moves, Active, Locals
<1>15. CASE WipeRows(w)
  BY <1>15 DEF WipeRows, Step, Goto, Moves, Active, Locals
<1>16. CASE RewriteDoc(w)
  BY <1>16 DEF RewriteDoc, Step, Goto, WriteStatus, Moves, Active, Locals
<1>17. CASE MarkIndexed(w)
  BY <1>17 DEF MarkIndexed, Step, Goto, WriteStatus, Moves, Active, Locals
<1>18. CASE ConfirmIndexed(w)
  BY <1>18 DEF ConfirmIndexed, Goto, WriteStatus, Moves, Active, Locals
<1>19. CASE RejectUntitled(w)
  BY <1>19 DEF RejectUntitled, Goto, WriteStatus, Moves, Active, Locals
<1>20. CASE ParseFail(w)
  BY <1>20 DEF ParseFail, Goto, Moves, Active, Locals
<1>21. CASE SummarizeFail(w)
  BY <1>21 DEF SummarizeFail, Goto, WriteStatus, Moves, Active, Locals
<1> QED
  BY <1>1, <1>2, <1>3, <1>4, <1>5, <1>6, <1>7, <1>8, <1>9, <1>10, <1>11, <1>12, <1>13, <1>14, <1>15, <1>16, <1>17,
     <1>18, <1>19, <1>20, <1>21

LEMMA WorkerKeepsTasks ==
    ASSUME TypedTasks, NEW w \in Workers, WorkerStep(w) \/ WorkerFault(w)
    PROVE  Tasks'
<1> USE DEF BeforeIndex, InIndex
<1>1. CASE Moves(w)
  BY <1>1, MovesKeepTasks
<1>2. CASE Take(w)
  BY <1>2, TakeKeepsTasks
<1>3. ASSUME NEW v, Return(w, v) PROVE Tasks'
  <2>1. {w} \in SUBSET Workers /\ Forget({w}) /\ UNCHANGED <<phase, batch, taken>>
    BY <1>3 DEF Return
  <2> QED
    BY <2>1, ForgetKeepsTasks
<1>4. CASE WorkerKilled(w)
  <2>1. {w} \in SUBSET Workers /\ Forget({w}) /\ UNCHANGED <<phase, batch, taken>>
    BY <1>4 DEF WorkerKilled, run
  <2> QED
    BY <2>1, ForgetKeepsTasks
\* The steps inside the indexer that also touch todo or cur.
<1>5. ASSUME NEW l \in Locals \ {"idle"}, Active(w), UNCHANGED <<run, at>>,
             pc' = [pc EXCEPT ![w] = l]
      PROVE  Handed' /\ HoldsTask' /\ OwnTask'
  BY <1>5 DEF TypedTasks, TypeOK, Tasks, Handed, HoldsTask, OwnTask, Active, run
<1>6. CASE WipePoints(w)
  <2>1. Handed' /\ HoldsTask' /\ OwnTask'
    BY <1>5, <1>6 DEF WipePoints, Active, Locals
  <2>2. InHand'
    BY <1>6 DEF WipePoints, TypedTasks, TypeOK, Tasks, InHand
  <2> QED
    BY <2>1, <2>2 DEF Tasks
<1>7. CASE StorePoints(w)
  <2>1. Handed' /\ HoldsTask' /\ OwnTask'
    BY <1>5, <1>7 DEF StorePoints, Active, Locals
  <2>2. InHand'
    BY <1>7 DEF StorePoints, TypedTasks, TypeOK, Tasks, InHand
  <2> QED
    BY <2>1, <2>2 DEF Tasks
<1>8. CASE IndexFail(w)
  <2>1. Handed' /\ HoldsTask' /\ OwnTask'
    BY <1>5, <1>8 DEF IndexFail, Active, Locals
  <2>2. InHand'
    BY <1>8 DEF IndexFail, TypedTasks, TypeOK, Tasks, InHand
  <2> QED
    BY <2>1, <2>2 DEF Tasks
<1>9. ASSUME NEW b \in Parts, StoreRows(w, b) PROVE Tasks'
  <2>1. Handed' /\ HoldsTask' /\ OwnTask'
    BY <1>5, <1>9 DEF StoreRows, Active, Locals
  <2>2. InHand'
    BY <1>9 DEF StoreRows, TypedTasks, TypeOK, Tasks, InHand
  <2> QED
    BY <2>1, <2>2 DEF Tasks
<1> QED
  BY <1>1, <1>2, <1>3, <1>4, <1>6, <1>7, <1>8, <1>9, MovingSteps
     DEF WorkerStep, WorkerFault, MemoryRefused, Finish, WorkerRaises

LEMMA OrchKeepsTasks ==
    ASSUME TypedTasks, NEW o \in Orchs, OrchStep(o) \/ AbortRun(o), UNCHANGED admin
    PROVE  Tasks'
<1>1. CASE Settle(o)
  BY <1>1 DEF Settle, TypedTasks, Tasks, Handed, HoldsTask, OwnTask, InHand, Active, local
<1>2. ASSUME NEW how, CloseRun(o, how) PROVE Tasks'
  <2>1. Handed'
    BY <1>2 DEF CloseRun, TypedTasks, Tasks, Handed
  <2>2. HoldsTask' /\ OwnTask' /\ InHand'
    BY <1>2, PoolAssumption
       DEF CloseRun, Forget, TypedTasks, TypeOK, Tasks, HoldsTask, OwnTask, InHand, Active
  <2> QED
    BY <2>1, <2>2 DEF Tasks
<1> QED
  BY <1>1, <1>2 DEF OrchStep, SettleOk, SettleFail, SettleEmpty, SettleError,
     SettleErrorAgain, SettleRaised, SettleTimeout, EndRun, AbortRun

LEMMA ControlTyped ==
    ASSUME TypedTasks, NEW o \in Orchs, Control(o)
    PROVE  TypedTasks'
<1>0. /\ listed' = listed /\ pruned' = pruned
      /\ status \in [Docs -> Status]
      /\ task \in [Docs -> Requests \union Orchs]
  BY DEF Control, TypedTasks, TypeOK
<1>1. ASSUME NEW p \in Plans, NEW s \in Batches, StartRun(o, p, s)
      PROVE  TypedTasks'
  <2> DEFINE st == [d \in Docs |-> IF status[d] \in OcrStatuses(p)
                                   THEN "downloaded" ELSE status[d]]
  <2>1. st \in [Docs -> Status]
    BY <1>0 DEF Status, Ready
  <2>2. phase[o] # "running" /\ Submit(o, p, s, st) /\ UNCHANGED task
    BY <1>1 DEF StartRun, Free
  <2> HIDE DEF st
  <2> QED
    BY <1>0, <2>1, <2>2, BatchesAreSequences, PlanAssumption, SubmitTyped
<1>2. ASSUME NEW p \in Plans, NEW d \in Docs, StartTargeted(o, p, d)
      PROVE  TypedTasks'
  BY <1>0, <1>2, SingletonBatch, PlanAssumption, SubmitTyped DEF StartTargeted, Free
<1>3. ASSUME NEW d \in Docs, StartReprocess(o, d)
      PROVE  TypedTasks'
  <2> DEFINE st == [status EXCEPT ![d] = "downloaded"]
  <2>1. st \in [Docs -> Status]
    BY <1>0 DEF Status, Ready
  <2>2. phase[o] # "running" /\ Submit(o, FullPlan, <<d>>, st)
    BY <1>3 DEF StartReprocess, Free
  <2>3. FullPlan \in PlanSet
    BY DEF FullPlan, PlanSet
  <2>4. task' \in [Docs -> Requests \union Orchs]
    BY <1>0, <1>3 DEF StartReprocess
  <2> HIDE DEF st
  <2> QED
    BY <1>0, <2>1, <2>2, <2>3, <2>4, SingletonBatch, SubmitTyped
<1>4. CASE AbortRun(o) /\ UNCHANGED task
  BY <1>0, <1>4, OrchTyped, OrchKeepsTasks DEF TypedTasks, admin
<1> QED
  BY <1>1, <1>2, <1>3, <1>4 DEF Control

LEMMA TypedTasksStep == TypedTasks /\ [Next]_vars => TypedTasks'
<1> SUFFICES ASSUME TypedTasks, [Next]_vars PROVE TypedTasks'
  OBVIOUS
<1>1. ASSUME NEW w \in Workers, WorkerStep(w) \/ WorkerFault(w) PROVE TypedTasks'
  BY <1>1, WorkerTyped, WorkerKeepsTasks DEF TypedTasks
<1>2. ASSUME NEW o \in Orchs, OrchStep(o) PROVE TypedTasks'
  BY <1>2, OrchTyped, OrchKeepsTasks DEF TypedTasks, OrchStep
<1>3. ASSUME NEW o \in Orchs, Control(o) PROVE TypedTasks'
  BY <1>3, ControlTyped
<1>4. CASE Admin
  BY <1>4, AdminTyped
<1>5. CASE UNCHANGED vars
  BY <1>5 DEF vars, store, run, local, admin, TypedTasks, TypeOK, Tasks, Handed, HoldsTask,
     OwnTask, InHand, Active, Distinct
<1> QED
  BY <1>1, <1>2, <1>3, <1>4, <1>5 DEF Next

LEMMA TypedTasksAlways == Spec => []TypedTasks
BY InitTyped, TypedTasksStep, PTL DEF Spec

-----------------------------------------------------------------------------
(* Every variable keeps its type in every reachable state.                 *)
THEOREM TypeCorrect == Spec => []TypeOK
<1>1. TypedTasks => TypeOK
  BY DEF TypedTasks
<1> QED
  BY <1>1, TypedTasksAlways, PTL

(***************************************************************************)
(* dedupe_docs_by_id and the pool's queue keep two workers of one run off  *)
(* the same document, for any number of documents, runs and workers, and   *)
(* however workers fail and orchestrators time out.                        *)
(***************************************************************************)
THEOREM OneWorker == Spec => []OneWorkerPerDoc
<1>1. TypedTasks => OneWorkerPerDoc
  <2> SUFFICES ASSUME TypedTasks, NEW v \in Workers, NEW w \in Workers,
                      Active(v), Active(w), PoolOf[v] = PoolOf[w], DocOf(v) = DocOf(w)
               PROVE  v = w
    BY DEF OneWorkerPerDoc
  <2>1. /\ PoolOf[w] \in Orchs
        /\ at[v] \in 1 .. Len(batch[PoolOf[w]])
        /\ at[w] \in 1 .. Len(batch[PoolOf[w]])
    BY DocOfType
  <2>2. batch[PoolOf[w]] \in Seq(Docs) /\ Distinct(batch[PoolOf[w]])
    BY <2>1 DEF TypedTasks, TypeOK, Tasks, Handed
  <2>3. at[v] = at[w]
    BY <2>1, <2>2 DEF DocOf, Distinct
  <2> QED
    BY <2>3 DEF TypedTasks, Tasks, OwnTask
<1> QED
  BY <1>1, TypedTasksAlways, PTL

-----------------------------------------------------------------------------
(* The totals of a run.                                                    *)

\* What a worker's step does to the run it works for.
GoesOn(w) ==
    /\ Active(w)
    /\ UNCHANGED <<run, at>>
    /\ \A v \in Workers : Active(v)' = Active(v)

LEMMA WorkerKinds ==
    ASSUME TypedTasks, NEW w \in Workers, WorkerStep(w) \/ WorkerFault(w)
    PROVE  \/ GoesOn(w)
           \/ Take(w)
           \/ \E v \in Verdicts \ {"none"} : Active(w) /\ Return(w, v)
           \/ WorkerKilled(w)
<1>1. CASE Moves(w)
  BY <1>1 DEF Moves, GoesOn, Active, TypedTasks, TypeOK
<1>2. ASSUME NEW l \in Locals \ {"idle"}, Active(w), UNCHANGED <<run, at>>,
             pc' = [pc EXCEPT ![w] = l]
      PROVE  GoesOn(w)
  BY <1>2 DEF GoesOn, Active, TypedTasks, TypeOK
<1>3. CASE WipePoints(w)
  BY <1>2, <1>3 DEF WipePoints, Active, Locals, InIndex
<1>4. CASE StorePoints(w)
  BY <1>2, <1>4 DEF StorePoints, Active, Locals, InIndex
<1>5. CASE IndexFail(w)
  BY <1>2, <1>5 DEF IndexFail, Active, Locals, InIndex
<1>6. ASSUME NEW b \in Parts, StoreRows(w, b) PROVE GoesOn(w)
  BY <1>2, <1>6 DEF StoreRows, Active, Locals, InIndex
<1>7. CASE Finish(w)
  <2>1. tally[w] \in Verdicts \ {"none"} /\ Active(w) /\ Return(w, tally[w])
    BY <1>7 DEF Finish, Active, TypedTasks, TypeOK, Verdicts
  <2> QED
    BY <2>1
<1>8. CASE MemoryRefused(w)
  <2>1. "error" \in Verdicts \ {"none"} /\ Active(w) /\ Return(w, "error")
    BY <1>8 DEF MemoryRefused, Active, Verdicts
  <2> QED
    BY <2>1
<1>9. CASE WorkerRaises(w)
  <2>1. "raised" \in Verdicts \ {"none"} /\ Active(w) /\ Return(w, "raised")
    BY <1>9 DEF WorkerRaises, Verdicts
  <2> QED
    BY <2>1
<1> QED
  BY <1>1, <1>3, <1>4, <1>5, <1>6, <1>7, <1>8, <1>9, MovingSteps DEF WorkerStep, WorkerFault

\* A task that waits or runs has not answered yet: an answer is given once, however
\* late.
Unanswered ==
    /\ \A o \in Orchs : \A i \in taken[o] + 1 .. Len(batch[o]) : verdict[o][i] = "none"
    /\ \A w \in Workers : Active(w) => verdict[PoolOf[w]][at[w]] = "none"

Returned(o, v) == {i \in 1 .. got[o] : verdict[o][i] = v}
Balanced(o) ==
    /\ got[o] <= stats[o].success + stats[o].failed + Cardinality(Returned(o, "empty"))
    /\ stats[o].success <= Cardinality(Returned(o, "ok"))
    /\ stats[o].success <= stats[o].processed
    /\ stats[o].processed <= got[o]

BalanceInv == TypedTasks /\ Unanswered /\ \A o \in Orchs : Balanced(o)

LEMMA ReturnedIsFinite ==
    ASSUME TypeOK, NEW o \in Orchs, NEW v
    PROVE  IsFiniteSet(Returned(o, v)) /\ Cardinality(Returned(o, v)) \in Nat
<1>1. IsFiniteSet(1 .. got[o])
  BY FS_Interval DEF TypeOK
<1>2. Returned(o, v) \in SUBSET (1 .. got[o])
  BY DEF Returned
<1> QED
  BY <1>1, <1>2, FS_Subset, FS_CardinalityType

\* Answers that come after a result was settled only add to those that were returned.
LEMMA AnswersOnlyAdd ==
    ASSUME TypeOK, TypeOK', NEW o \in Orchs, Balanced(o),
           got'[o] = got[o], stats'[o] = stats[o],
           \A i \in 1 .. got[o] : verdict[o][i] # "none" => verdict'[o][i] = verdict[o][i]
    PROVE  Balanced(o)'
<1>1. ASSUME NEW v, v # "none"
      PROVE  /\ Cardinality(Returned(o, v)) \in Nat /\ Cardinality(Returned(o, v)') \in Nat
             /\ Cardinality(Returned(o, v)) <= Cardinality(Returned(o, v)')
  <2>1. Returned(o, v) \in SUBSET Returned(o, v)'
    BY <1>1 DEF Returned
  <2>2. IsFiniteSet(Returned(o, v)') /\ Cardinality(Returned(o, v)') \in Nat
    <3>1. IsFiniteSet(1 .. got'[o])
      BY FS_Interval DEF TypeOK
    <3>2. Returned(o, v)' \in SUBSET (1 .. got'[o])
      BY DEF Returned
    <3> QED
      BY <3>1, <3>2, FS_Subset, FS_CardinalityType
  <2> QED
    BY <2>1, <2>2, FS_Subset, ReturnedIsFinite
<1>2. got[o] \in Nat /\ stats[o] \in [processed : Nat, success : Nat, failed : Nat]
  BY DEF TypeOK
<1>3. /\ Cardinality(Returned(o, "empty")) \in Nat /\ Cardinality(Returned(o, "empty")') \in Nat
      /\ Cardinality(Returned(o, "empty")) <= Cardinality(Returned(o, "empty")')
      /\ Cardinality(Returned(o, "ok")) \in Nat /\ Cardinality(Returned(o, "ok")') \in Nat
      /\ Cardinality(Returned(o, "ok")) <= Cardinality(Returned(o, "ok")')
  BY <1>1
<1> QED
  BY <1>2, <1>3 DEF Balanced

\* Settling a result: it is counted as returned, and in the totals.
LEMMA SettlingBalances ==
    ASSUME TypeOK, NEW o \in Orchs, Balanced(o), NEW v, Waiting(o, v), Settle(o),
           NEW a \in Nat, NEW b \in Nat, NEW c \in Nat, Count(o, a, b, c),
           a <= 1, b <= a, b = 1 => v = "ok",
           b + c >= 1 \/ v = "empty"
    PROVE  Balanced(o)'
<1> DEFINE n == got[o] + 1
<1>1. /\ got[o] \in Nat /\ got'[o] = n
      /\ verdict' = verdict /\ verdict[o][n] = v
      /\ stats[o] \in [processed : Nat, success : Nat, failed : Nat]
  BY DEF TypeOK, Settle, Waiting
<1>2. /\ stats'[o].processed = stats[o].processed + a
      /\ stats'[o].success = stats[o].success + b
      /\ stats'[o].failed = stats[o].failed + c
  BY DEF TypeOK, Count
<1>3. ASSUME NEW u
      PROVE  /\ Cardinality(Returned(o, u)) \in Nat
             /\ Cardinality(Returned(o, u)') = Cardinality(Returned(o, u)) + (IF u = v THEN 1 ELSE 0)
  <2>1. Returned(o, u)' = IF u = v THEN Returned(o, u) \union {n} ELSE Returned(o, u)
    BY <1>1 DEF Returned
  <2>2. n \notin Returned(o, u)
    BY <1>1 DEF Returned
  <2>3. IsFiniteSet(Returned(o, u)) /\ Cardinality(Returned(o, u)) \in Nat
    BY ReturnedIsFinite
  <2>4. Cardinality(Returned(o, u) \union {n}) = Cardinality(Returned(o, u)) + 1
    BY <2>2, <2>3, FS_AddElement
  <2> QED
    BY <2>1, <2>3, <2>4
<1>4. /\ Cardinality(Returned(o, "empty")) \in Nat
      /\ Cardinality(Returned(o, "empty")') >= Cardinality(Returned(o, "empty"))
      /\ v = "empty" => Cardinality(Returned(o, "empty")') = Cardinality(Returned(o, "empty")) + 1
      /\ Cardinality(Returned(o, "ok")) \in Nat
      /\ Cardinality(Returned(o, "ok")') >= Cardinality(Returned(o, "ok"))
      /\ b = 1 => Cardinality(Returned(o, "ok")') = Cardinality(Returned(o, "ok")) + 1
  BY <1>3
<1>5. /\ Cardinality(Returned(o, "empty")') \in Nat /\ Cardinality(Returned(o, "ok")') \in Nat
  BY <1>3
<1> QED
  BY <1>1, <1>2, <1>4, <1>5 DEF Balanced

LEMMA OthersBalance ==
    ASSUME TypeOK, TypeOK', NEW o \in Orchs, NEW q \in Orchs, q # o, Balanced(q),
           got'[q] = got[q], stats'[q] = stats[q], verdict'[q] = verdict[q]
    PROVE  Balanced(q)'
BY AnswersOnlyAdd

LEMMA SettleKeepsBalance ==
    ASSUME BalanceInv, TypedTasks', NEW o \in Orchs, OrchStep(o), ~EndRun(o)
    PROVE  BalanceInv'
<1>1. Settle(o) /\ \E a, b, c \in Nat : Count(o, a, b, c)
  BY DEF OrchStep, SettleOk, SettleFail, SettleEmpty, SettleError, SettleErrorAgain, SettleRaised,
         SettleTimeout
<1>2. TypeOK /\ TypeOK' /\ Balanced(o)
  BY DEF BalanceInv, TypedTasks
<1>3. Unanswered'
  BY <1>1 DEF BalanceInv, Unanswered, Settle, local, Active
<1>4. Balanced(o)'
  <2>1. CASE SettleOk(o)
    BY <1>2, <2>1, SettlingBalances DEF SettleOk
  <2>2. CASE SettleFail(o)
    BY <1>2, <2>2, SettlingBalances DEF SettleFail
  <2>3. CASE SettleEmpty(o)
    BY <1>2, <2>3, SettlingBalances DEF SettleEmpty
  <2>4. CASE SettleError(o)
    BY <1>2, <2>4, SettlingBalances DEF SettleError
  <2>5. CASE SettleErrorAgain(o)
    BY <1>2, <2>5, SettlingBalances DEF SettleErrorAgain
  <2>6. CASE SettleRaised(o)
    <3>1. CASE o \in Sequential
      BY <1>2, <2>6, <3>1, SettlingBalances DEF SettleRaised
    <3>2. CASE o \notin Sequential
      BY <1>2, <2>6, <3>2, SettlingBalances DEF SettleRaised
    <3> QED
      BY <3>1, <3>2
  <2>7. CASE SettleTimeout(o)
    BY <1>2, <2>7, SettlingBalances DEF SettleTimeout
  <2> QED
    BY <2>1, <2>2, <2>3, <2>4, <2>5, <2>6, <2>7 DEF OrchStep
<1>5. ASSUME NEW q \in Orchs, q # o PROVE Balanced(q)'
  <2>1. got'[q] = got[q] /\ stats'[q] = stats[q] /\ verdict'[q] = verdict[q]
    BY <1>1, <1>2, <1>5 DEF Settle, Count, TypeOK
  <2> QED
    BY <1>2, <1>5, <2>1, OthersBalance DEF BalanceInv
<1> QED
  BY <1>3, <1>4, <1>5 DEF BalanceInv

\* A worker answers for its own task, which had no answer.
LEMMA AnswerKeepsBalance ==
    ASSUME BalanceInv, TypedTasks', NEW w \in Workers, NEW v \in Verdicts, Active(w), Return(w, v)
    PROVE  BalanceInv'
<1> DEFINE o == PoolOf[w]
           i == at[w]
<1>0. TypeOK /\ TypeOK' /\ Tasks
  BY DEF BalanceInv, TypedTasks
<1>1. /\ o \in Orchs /\ verdict[o][i] = "none"
      /\ i \in Nat /\ i <= taken[o] /\ taken[o] \in Nat
  <2>1. o \in Orchs /\ taken[o] \in Nat
    BY <1>0, PoolAssumption DEF TypeOK
  <2>2. i \in 1 .. taken[o] /\ verdict[o][i] = "none"
    BY <1>0 DEF Tasks, HoldsTask, BalanceInv, Unanswered
  <2> QED
    BY <2>1, <2>2
<1>2. /\ verdict' = [verdict EXCEPT ![o][i] = v] /\ Forget({w})
      /\ UNCHANGED <<batch, taken, got, stats>>
  BY DEF Return
<1> HIDE DEF o, i
<1>3. ASSUME NEW q \in Orchs, NEW j, q # o \/ j # i PROVE verdict'[q][j] = verdict[q][j]
  BY <1>0, <1>1, <1>2, <1>3 DEF TypeOK
<1>4. \A q \in Orchs : \A j \in taken'[q] + 1 .. Len(batch'[q]) : verdict'[q][j] = "none"
  <2> SUFFICES ASSUME NEW q \in Orchs, NEW j \in taken'[q] + 1 .. Len(batch'[q])
               PROVE  verdict'[q][j] = "none"
    OBVIOUS
  <2>1. j \in taken[q] + 1 .. Len(batch[q]) /\ taken[q] \in Nat /\ Len(batch[q]) \in Nat
    BY <1>0, <1>1, <1>2 DEF TypeOK
  <2>2. q # o \/ j # i
    BY <1>0, <1>1, <2>1
  <2> QED
    BY <1>3, <2>1, <2>2 DEF BalanceInv, Unanswered
<1>5. ASSUME NEW x \in Workers, Active(x)' PROVE verdict'[PoolOf[x]][at'[x]] = "none"
  <2>1. x # w /\ Active(x) /\ at'[x] = at[x] /\ PoolOf[x] \in Orchs
    BY <1>0, <1>1, <1>2, <1>5, PoolAssumption DEF Forget, Active, TypeOK
  <2>2. PoolOf[x] # o \/ at[x] # i
    BY <1>0, <1>1, <2>1 DEF Tasks, OwnTask, o, i
  <2> QED
    BY <1>3, <2>1, <2>2 DEF BalanceInv, Unanswered
<1>6. ASSUME NEW q \in Orchs PROVE Balanced(q)'
  <2>1. \A j \in 1 .. got[q] : verdict[q][j] # "none" => verdict'[q][j] = verdict[q][j]
    BY <1>0, <1>1, <1>3
  <2>2. got'[q] = got[q] /\ stats'[q] = stats[q] /\ Balanced(q)
    BY <1>2 DEF BalanceInv
  <2> QED
    BY <1>0, <1>1, <2>1, <2>2, AnswersOnlyAdd
<1> QED
  BY <1>4, <1>5, <1>6 DEF BalanceInv, Unanswered

\* Whatever touches neither totals nor answers.
LEMMA QuietKeepsBalance ==
    ASSUME BalanceInv, TypedTasks', UNCHANGED <<got, stats, verdict, batch>>,
           \A o \in Orchs : taken[o] <= taken'[o],
           \A w \in Workers : Active(w)' =>
               \/ Active(w) /\ at'[w] = at[w]
               \/ at'[w] \in taken[PoolOf[w]] + 1 .. Len(batch[PoolOf[w]])
    PROVE  BalanceInv'
<1>1. TypeOK /\ TypeOK'
  BY DEF BalanceInv, TypedTasks
<1>2. \A q \in Orchs : Balanced(q)'
  BY <1>1, AnswersOnlyAdd DEF BalanceInv
<1>3. ASSUME NEW o \in Orchs, NEW i \in taken'[o] + 1 .. Len(batch'[o]) PROVE verdict'[o][i] = "none"
  <2>1. i \in taken[o] + 1 .. Len(batch[o])
    BY <1>1, <1>3 DEF TypeOK
  <2> QED
    BY <2>1 DEF BalanceInv, Unanswered
<1>4. ASSUME NEW w \in Workers, Active(w)' PROVE verdict'[PoolOf[w]][at'[w]] = "none"
  BY <1>4, PoolAssumption DEF BalanceInv, Unanswered
<1> QED
  BY <1>2, <1>3, <1>4 DEF BalanceInv, Unanswered

LEMMA WorkerKeepsBalance ==
    ASSUME BalanceInv, TypedTasks', NEW w \in Workers, WorkerStep(w) \/ WorkerFault(w)
    PROVE  BalanceInv'
<1>0. TypeOK /\ TypedTasks /\ PoolOf[w] \in Orchs
  BY PoolAssumption DEF BalanceInv, TypedTasks
<1>1. CASE GoesOn(w)
  <2>1. UNCHANGED <<got, stats, verdict, batch, taken, at>> /\ \A x \in Workers : Active(x)' = Active(x)
    BY <1>1 DEF GoesOn, run
  <2>2. \A o \in Orchs : taken[o] <= taken'[o]
    BY <1>0, <2>1 DEF TypeOK
  <2> QED
    BY <2>1, <2>2, QuietKeepsBalance
<1>2. CASE Take(w)
  <2>1. /\ UNCHANGED <<got, stats, verdict, batch>>
        /\ taken' = [taken EXCEPT ![PoolOf[w]] = @ + 1]
        /\ taken[PoolOf[w]] < Len(batch[PoolOf[w]])
        /\ at' = [at EXCEPT ![w] = taken[PoolOf[w]] + 1]
        /\ \A x \in Workers \ {w} : Active(x)' = Active(x)
    BY <1>0, <1>2 DEF Take, Active, TypeOK
  <2>2. \A o \in Orchs : taken[o] <= taken'[o]
    <3>1. ASSUME NEW o \in Orchs PROVE taken[o] \in Nat /\ taken'[o] \in {taken[o], taken[o] + 1}
      BY <1>0, <2>1 DEF TypeOK
    <3> QED
      BY <3>1
  <2>3. at'[w] \in taken[PoolOf[w]] + 1 .. Len(batch[PoolOf[w]])
    BY <1>0, <2>1 DEF TypeOK
  <2>4. \A x \in Workers \ {w} : at'[x] = at[x]
    BY <1>0, <2>1 DEF TypeOK
  <2> QED
    BY <2>1, <2>2, <2>3, <2>4, QuietKeepsBalance
<1>3. ASSUME NEW v \in Verdicts, Active(w), Return(w, v) PROVE BalanceInv'
  BY <1>3, AnswerKeepsBalance
<1>4. CASE WorkerKilled(w)
  <2>1. /\ UNCHANGED <<got, stats, verdict, batch, taken>>
        /\ \A x \in Workers : Active(x)' => Active(x) /\ at'[x] = at[x]
    BY <1>0, <1>4 DEF WorkerKilled, run, Forget, Active, TypeOK
  <2>2. \A o \in Orchs : taken[o] <= taken'[o]
    BY <1>0, <2>1 DEF TypeOK
  <2> QED
    BY <2>1, <2>2, QuietKeepsBalance
<1> QED
  BY <1>0, <1>1, <1>2, <1>3, <1>4, WorkerKinds

LEMMA SubmitStartsBalance ==
    ASSUME BalanceInv, TypedTasks', NEW o \in Orchs, NEW p, NEW s \in Seq(Docs), NEW st,
           Len(s) <= Cardinality(Docs), phase[o] # "running", Submit(o, p, s, st)
    PROVE  BalanceInv'
<1>1. /\ TypeOK /\ TypeOK' /\ HoldsTask
      /\ batch' = [batch EXCEPT ![o] = s] /\ taken' = [taken EXCEPT ![o] = 0]
      /\ got' = [got EXCEPT ![o] = 0]
      /\ verdict' = [verdict EXCEPT ![o] = [i \in Slots |-> "none"]]
      /\ stats' = [stats EXCEPT ![o] = [processed |-> 0, success |-> 0, failed |-> 0]]
      /\ UNCHANGED <<pc, at>>
  BY DEF BalanceInv, TypedTasks, Tasks, Submit, local
<1>2. \A i \in 1 .. Len(s) : i \in Slots
  BY FS_CardinalityType, DocsAssumption DEF Slots
<1>3. ASSUME NEW q \in Orchs, NEW i \in taken'[q] + 1 .. Len(batch'[q]) PROVE verdict'[q][i] = "none"
  <2>1. CASE q = o
    BY <1>1, <1>2, <1>3, <2>1 DEF TypeOK
  <2>2. CASE q # o
    BY <1>1, <1>3, <2>2 DEF TypeOK, BalanceInv, Unanswered
  <2> QED
    BY <2>1, <2>2
<1>4. ASSUME NEW w \in Workers, Active(w)' PROVE verdict'[PoolOf[w]][at'[w]] = "none"
  <2>1. Active(w) /\ PoolOf[w] \in Orchs /\ PoolOf[w] # o
    BY <1>1, <1>4, PoolAssumption DEF Active, HoldsTask
  <2> QED
    BY <1>1, <2>1 DEF TypeOK, BalanceInv, Unanswered
<1>5. Balanced(o)'
  <2>1. /\ got'[o] = 0
        /\ stats'[o].success = 0 /\ stats'[o].failed = 0 /\ stats'[o].processed = 0
    BY <1>1 DEF TypeOK
  <2>2. Returned(o, "empty")' = {} /\ Returned(o, "ok")' = {}
    BY <2>1 DEF Returned
  <2>3. Cardinality(Returned(o, "empty")') = 0 /\ Cardinality(Returned(o, "ok")') = 0
    BY <2>2, FS_EmptySet
  <2> QED
    BY <2>1, <2>2, <2>3 DEF Balanced
<1>6. ASSUME NEW q \in Orchs, q # o PROVE Balanced(q)'
  <2>1. got'[q] = got[q] /\ stats'[q] = stats[q] /\ verdict'[q] = verdict[q]
    BY <1>1, <1>6 DEF TypeOK
  <2> QED
    BY <1>1, <1>6, <2>1, OthersBalance DEF BalanceInv
<1> QED
  BY <1>3, <1>4, <1>5, <1>6 DEF BalanceInv, Unanswered

LEMMA BatchesFit == \A s \in Batches : Len(s) <= Cardinality(Docs)
<1> SUFFICES ASSUME NEW s \in Batches PROVE Len(s) <= Cardinality(Docs)
  OBVIOUS
<1>1. PICK n \in Slots : s \in [1 .. n -> Docs]
  BY DEF Batches
<1>2. Cardinality(Docs) \in Nat /\ n \in 1 .. Cardinality(Docs)
  BY FS_CardinalityType, DocsAssumption DEF Slots
<1>3. Len(s) = n
  BY <1>1, <1>2, BatchesAreSequences
<1> QED
  BY <1>2, <1>3

LEMMA SingletonFits ==
    ASSUME NEW d \in Docs PROVE Len(<<d>>) <= Cardinality(Docs)
<1>1. Cardinality({d}) = 1 /\ {d} \in SUBSET Docs
  BY FS_Singleton
<1> QED
  BY <1>1, FS_Subset, DocsAssumption

LEMMA BalanceStep == BalanceInv /\ [Next]_vars => BalanceInv'
<1> SUFFICES ASSUME BalanceInv, [Next]_vars PROVE BalanceInv'
  OBVIOUS
<1>0. TypeOK /\ TypedTasks'
  BY TypedTasksStep DEF BalanceInv, TypedTasks
<1>a. ASSUME UNCHANGED <<run, local>> PROVE BalanceInv'
  <2>1. /\ UNCHANGED <<got, stats, verdict, batch, taken, at>>
        /\ \A w \in Workers : Active(w)' = Active(w)
    BY <1>a DEF run, local, Active
  <2>2. \A o \in Orchs : taken[o] <= taken'[o]
    BY <1>0, <2>1 DEF TypeOK
  <2> QED
    BY <1>0, <2>1, <2>2, QuietKeepsBalance
<1>b. ASSUME NEW o \in Orchs, NEW how, CloseRun(o, how) PROVE BalanceInv'
  <2>1. /\ UNCHANGED <<got, stats, verdict, batch, taken>>
        /\ \A w \in Workers : Active(w)' => Active(w) /\ at'[w] = at[w]
    BY <1>0, <1>b DEF CloseRun, Forget, Active, TypeOK
  <2>2. \A q \in Orchs : taken[q] <= taken'[q]
    BY <1>0, <2>1 DEF TypeOK
  <2> QED
    BY <1>0, <2>1, <2>2, QuietKeepsBalance
<1>1. ASSUME NEW w \in Workers, WorkerStep(w) \/ WorkerFault(w) PROVE BalanceInv'
  BY <1>0, <1>1, WorkerKeepsBalance
<1>2. ASSUME NEW o \in Orchs, OrchStep(o) PROVE BalanceInv'
  <2>1. CASE EndRun(o)
    BY <1>b, <2>1 DEF EndRun
  <2>2. CASE ~EndRun(o)
    BY <1>0, <1>2, <2>2, SettleKeepsBalance
  <2> QED
    BY <2>1, <2>2
<1>3. ASSUME NEW o \in Orchs, Control(o) PROVE BalanceInv'
  <2>1. ASSUME NEW p \in Plans, NEW s \in Batches, StartRun(o, p, s) PROVE BalanceInv'
    BY <1>0, <2>1, BatchesAreSequences, BatchesFit, SubmitStartsBalance DEF StartRun, Free
  <2>2. ASSUME NEW p \in Plans, NEW d \in Docs, StartTargeted(o, p, d) PROVE BalanceInv'
    BY <1>0, <2>2, SingletonBatch, SingletonFits, SubmitStartsBalance DEF StartTargeted, Free
  <2>3. ASSUME NEW d \in Docs, StartReprocess(o, d) PROVE BalanceInv'
    BY <1>0, <2>3, SingletonBatch, SingletonFits, SubmitStartsBalance DEF StartReprocess, Free
  <2>4. CASE AbortRun(o)
    BY <1>b, <2>4 DEF AbortRun
  <2> QED
    BY <1>3, <2>1, <2>2, <2>3, <2>4 DEF Control
<1>4. CASE Admin
  BY <1>4, <1>a DEF Admin, DeleteRows, DeletePoints, RequestReprocess, RequestFails, ReprocessFails,
     ReprocessOver, ResetFailed, ListFailed
<1>5. CASE UNCHANGED vars
  BY <1>5, <1>a DEF vars
<1> QED
  BY <1>1, <1>2, <1>3, <1>4, <1>5 DEF Next

LEMMA InitBalance == Init => BalanceInv
<1> SUFFICES ASSUME Init PROVE BalanceInv
  OBVIOUS
<1>1. TypedTasks
  BY InitTyped
<1>2. Unanswered
  BY DEF Init, Unanswered, Active
<1>3. ASSUME NEW o \in Orchs PROVE Balanced(o)
  <2>1. /\ got[o] = 0
        /\ stats[o].success = 0 /\ stats[o].failed = 0 /\ stats[o].processed = 0
    BY DEF Init
  <2>2. Returned(o, "empty") = {} /\ Returned(o, "ok") = {}
    BY <2>1 DEF Returned
  <2>3. Cardinality({}) = 0
    BY FS_EmptySet
  <2> QED
    BY <2>1, <2>2, <2>3 DEF Balanced
<1> QED
  BY <1>1, <1>2, <1>3 DEF BalanceInv

\* For any number of documents, runs and workers, and however late answers come: no
\* document that a run settled goes unreported, and no success is invented
\* (_process_docs_parallel, run_processing).
THEOREM TotalsAlwaysBalance == Spec => []StatsBalance
<1>1. BalanceInv => StatsBalance
  BY DEF BalanceInv, StatsBalance, Balanced, Returned
<1> QED
  BY <1>1, InitBalance, BalanceStep, PTL DEF Spec

=============================================================================
