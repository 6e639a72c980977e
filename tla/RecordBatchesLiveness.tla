------------------------ MODULE RecordBatchesLiveness ------------------------
(***************************************************************************)
(* What record batches must eventually do.  Workers may fail any number of *)
(* times but not for ever: calm becomes TRUE after the last failure.       *)
(***************************************************************************)
EXTENDS RecordBatches

VARIABLE calm

liveVars == <<vars, calm>>

Calm == calm' = TRUE /\ UNCHANGED vars

LiveNext ==
    \/ Progress /\ UNCHANGED calm
    \/ ~calm /\ Failure /\ UNCHANGED calm
    \/ ~calm /\ Calm

\* A worker polls for ever and ends what it took up; a lease runs out in time.
Fairness ==
    /\ WF_liveVars(~calm /\ Calm)
    /\ \A w \in Worker : WF_liveVars(WorkerStep(w) /\ UNCHANGED calm)
    /\ \A j \in Job : WF_liveVars(Deserted(j) /\ LeaseExpires(j) /\ UNCHANGED calm)

LiveSpec == Init /\ calm = FALSE /\ [][LiveNext]_liveVars /\ Fairness

\* Every batch that was accepted ends: the batches around it do not starve it (the
\* ORDER BY and the share of claim_record_batch), and a lease that its worker let
\* run out is recovered.
BatchesEnd ==
    \A j \in Job : job[j].state = "queued" ~> job[j].state \notin {"queued", "running"}
=============================================================================
