------------------------------ MODULE MCDocRuns ------------------------------
(***************************************************************************)
(* The orchestrator runs with a pool, or with --workers 1 under more       *)
(* command lines; which of the two is settled at the start.                *)
(***************************************************************************)
EXTENDS MCDocPipeline

Alone == INSTANCE DocPipeline WITH Sequential <- Orchs, Plans <- StagePlans

VARIABLE alone

EitherInit == Init /\ alone \in BOOLEAN
EitherNext == UNCHANGED alone /\ (IF alone THEN Alone!Next ELSE Next)
\* The fairness of LiveSpec, for the pool.
EitherSpec ==
    /\ EitherInit /\ [][EitherNext]_<<vars, alone>>
    /\ \A o \in Orchs : WF_<<vars, alone>>(~alone /\ OrchStep(o) /\ UNCHANGED alone)

\* A pool run comes to an end even if every worker hangs: res.get times out
\* (_process_docs_parallel); with --workers 1 it hangs with its document.
PoolRunsEnd == ~alone => RunsEnd
=============================================================================
