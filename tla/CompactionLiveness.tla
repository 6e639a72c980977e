-------------------------- MODULE CompactionLiveness --------------------------
(***************************************************************************)
(* What the generation pipeline must eventually do.  Invocations may be    *)
(* killed and reads and writes may fail any number of times, but not for   *)
(* ever: calm becomes TRUE when the last failure has happened.             *)
(***************************************************************************)
EXTENDS Compaction

VARIABLE calm

liveVars == <<vars, calm>>

LiveInit == InitSeeded /\ calm = FALSE

Calm == calm' = TRUE /\ UNCHANGED vars

LiveNext ==
    \/ Progress /\ UNCHANGED calm
    \/ ~calm /\ Failure /\ UNCHANGED calm
    \/ ~calm /\ Calm

\* The schedule keeps firing, and an invocation that is not killed goes on.  A
\* message stays in the queue until it is acknowledged, and is delivered.  A lease
\* runs out in time.  The operator activates every candidate that is published.
Fairness ==
    /\ WF_liveVars(~calm /\ Calm)
    /\ \A c \in Cron : WF_liveVars(CronStep(c) /\ UNCHANGED calm)
    /\ \A w \in Worker : WF_liveVars(WorkerGoesOn(w) /\ UNCHANGED calm)
    /\ \A g \in Gen, d \in Delta :
         SF_liveVars(\E w \in Worker : MapReads(w, g, d) /\ UNCHANGED calm)
    /\ \A g \in Gen, p \in Prefix :
         SF_liveVars(\E w \in Worker :
            /\ ReduceClaims(w, g, p) \/ ReduceIsDuplicate(w, g, p)
            /\ UNCHANGED calm)
    /\ \A g \in Gen, p \in Prefix :
         WF_liveVars(LeaseExpires(g, p) /\ UNCHANGED calm)
    /\ \A a \in Admin : WF_liveVars(AdminGoesOn(a) /\ UNCHANGED calm)
    /\ \A g \in Gen :
         SF_liveVars(\E a \in Admin : ActivateBegins(a, g) /\ UNCHANGED calm)

LiveSpec == LiveInit /\ [][LiveNext]_liveVars /\ Fairness

\* Every generation that is started is finished, so that no later delta waits
\* behind it for ever (index.js startGeneration waits for the one in progress).
GenerationsFinish ==
    \A g \in Gen :
        gens[g].state = "mapping" ~> gens[g].state \in {"active", "rolled_back"}

\* Every registered delta becomes searchable, whole, whatever crashes, expired
\* leases and repeated deliveries happened on the way.
DeltasReachTheCatalog ==
    \A d \in Delta :
        delta[d].state = "registered" ~>
            \A p \in PrefixesOf[d] : d \in root.parts[p]
=============================================================================
