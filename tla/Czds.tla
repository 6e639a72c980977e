-------------------------------- MODULE Czds --------------------------------
(***************************************************************************)
(* The CZDS Worker (cloudflare/czds-worker): it reads the zone files that  *)
(* registries offer through ICANN.  The schedule creates a job and a       *)
(* Workflow for each due zone.  The Workflow has a stager - one of its own *)
(* steps or a container, as the zone is configured - download the file and *)
(* stage it in chunks, and announces them to the compaction Worker once all*)
(* are there.                                                              *)
(*                                                                         *)
(* A chunk is stored by a call of the Worker that outlives the stager that *)
(* made it, should that die or time out.  What a stager does within a call *)
(* is split at the awaits of the call.                                     *)
(***************************************************************************)
EXTENDS Integers, FiniteSets, FiniteSetsExt

CONSTANTS
    Zone,
    Length,         \* chunks of a zone file
    PageSize,       \* deltas announced at a time (100)
    Attempts,       \* how often a Workflow starts a stager (3, or 4 in a step)
    MaxDay,         \* bound on the days that pass
    MaxJobs,        \* bound on the jobs there are at a time
    MaxVersion,     \* bound on how often a zone file changes
    Cron, Stager,
    MaxFaults,      \* bound on the calls that fail and the processes that die
    OneBegins       \* no stager begins while a call of another is to store the
                    \* fingerprint of its own

ASSUME CzdsAssumption ==
    /\ Length \in Nat \ {0} /\ PageSize \in Nat \ {0} /\ Attempts \in Nat \ {0}
    /\ MaxDay \in Nat /\ MaxJobs \in Nat /\ MaxVersion \in Nat /\ MaxFaults \in Nat
    /\ OneBegins \in BOOLEAN

Day == 0..MaxDay
Version == 0..MaxVersion
Index == 0..(Length - 1)

\* job_id is a hash of the zone and the day.
Job == [zone: Zone, day: Day]

VARIABLES
    today,
    registry,     \* the version of each zone file on offer
    config,       \* CZDS_CONTAINER_ZONES and CZDS_STAGE_ONLY, as deployed
    zone,         \* czds_zones
    job,          \* czds_jobs
    row,          \* czds_job_deltas: the chunk each row counts
    object,       \* the chunk under the key of each row
    announced,    \* the chunks a delta-ready message was sent for
    workflow,     \* the Workflow of each job
    parser,       \* what the last stager of each job has come to
    cron, stager,
    faults,       \* how many calls failed and how many processes died
    outlived      \* history: jobs with a call that outlived its stager

vars == <<today, registry, config, zone, job, row, object, announced, workflow,
          parser, cron, stager, faults, outlived>>
world == <<today, registry, config>>
chunks == <<row, object>>
-----------------------------------------------------------------------------
Active == {"queued", "running", "staged"}
Never == -1
None == -1

JobRow == [state: {"absent", "complete", "failed"} \cup Active,
           version: Version \cup {None}]
NoRow == [state |-> "absent", version |-> None]

\* A chunk of a version of the file; the last of a download that breaks off is
\* not whole.
Chunk == [version: Version, whole: BOOLEAN]
NoChunk == [version |-> None, whole |-> FALSE]

Idle == [pc |-> "idle"]

CronJob == {Idle} \cup [pc: {"insert", "create", "uncreate", "mark"}, job: Job]

Run == [pc: {"none", "claim", "finish", "settle", "release", "fail", "ended"}]
    \cup [pc: {"start", "watch"}, attempt: 1..Attempts]
    \cup [pc: {"page"}, last: Index \cup {-1}]

\* mode is held for a stager its Workflow waits for, adrift for a step that was
\* timed out, and call for a call that is all that is left of a stager.
StagerJob == {Idle} \cup
    [pc: {"begin", "mark", "append", "put", "row", "complete", "settle"},
     job: Job, chunk: Chunk, i: 0..Length, mode: {"held", "adrift", "call"}]

TypeOK ==
    /\ today \in Day
    /\ registry \in [Zone -> Version]
    /\ config \in [contained: SUBSET Zone, stageOnly: BOOLEAN]
    /\ zone \in [Zone -> [attempted: Day \cup {Never}, completed: Day \cup {Never}]]
    /\ job \in [Job -> JobRow]
    /\ row \in [Job -> [Index -> Chunk \cup {NoChunk}]]
    /\ object \in [Job -> [Index -> Chunk \cup {NoChunk}]]
    /\ announced \subseteq Job \X Index
    /\ workflow \in [Job -> Run]
    /\ parser \in [Job -> {"idle", "running", "failed", "staged"}]
    /\ cron \in [Cron -> CronJob]
    /\ stager \in [Stager -> StagerJob]
    /\ faults \in 0..MaxFaults
    /\ outlived \subseteq Job

Init ==
    /\ today = 0
    /\ registry = [z \in Zone |-> 0]
    /\ config \in [contained: SUBSET Zone, stageOnly: BOOLEAN]
    /\ zone = [z \in Zone |-> [attempted |-> Never, completed |-> Never]]
    /\ job = [j \in Job |-> NoRow]
    /\ row = [j \in Job |-> [i \in Index |-> NoChunk]]
    /\ object = row
    /\ announced = {}
    /\ workflow = [j \in Job |-> [pc |-> "none"]]
    /\ parser = [j \in Job |-> "idle"]
    /\ cron = [c \in Cron |-> Idle]
    /\ stager = [s \in Stager |-> Idle]
    /\ faults = 0
    /\ outlived = {}

Fault == faults < MaxFaults /\ faults' = faults + 1

InContainer(j) == j.zone \in config.contained
-----------------------------------------------------------------------------
(* scheduleCzds, for one of the zones an invocation takes up *)

CronGoes(c, at) ==
    /\ cron' = [cron EXCEPT ![c] = at]
    /\ UNCHANGED <<world, chunks, announced, parser, stager, outlived>>

\* To come to pc with the same job.
CronTo(c, pc) == CronGoes(c, [cron[c] EXCEPT !.pc = pc])

ActiveOn(z) == {j \in Job : j.zone = z /\ job[j].state \in Active}

Due(z) ==
    /\ zone[z].completed < today /\ zone[z].attempted < today
    /\ ActiveOn(z) = {}

CronReads(c, z) ==
    /\ cron[c] = Idle
    /\ Due(z)
    /\ CronGoes(c, [pc |-> "insert", job |-> [zone |-> z, day |-> today]])
    /\ UNCHANGED <<zone, job, workflow, faults>>

\* INSERT OR IGNORE
CronInserts(c) ==
    /\ cron[c].pc = "insert"
    /\ Cardinality({j \in Job : job[j].state # "absent"}) < MaxJobs
    /\ IF job[cron[c].job].state = "absent"
       THEN /\ job' = [job EXCEPT ![cron[c].job].state = "queued"]
            /\ CronTo(c, "create")
       ELSE UNCHANGED job /\ CronGoes(c, Idle)
    /\ UNCHANGED <<zone, workflow, faults>>

Created(j) == [workflow EXCEPT ![j] = IF @.pc = "none" THEN [pc |-> "claim"] ELSE @]

\* A Workflow can be created once under its name.  A call that fails may have
\* created it all the same.
CronCreates(c) ==
    /\ cron[c].pc = "create"
    /\ LET j == cron[c].job IN
       \/ /\ workflow[j].pc = "none"
          /\ workflow' = Created(j)
          /\ CronTo(c, "mark")
          /\ UNCHANGED faults
       \/ /\ IF workflow[j].pc = "none" THEN Fault ELSE UNCHANGED faults
          /\ workflow' \in {workflow, Created(j)}
          /\ CronTo(c, "uncreate")
    /\ UNCHANGED <<zone, job>>

\* The invocation deletes the row, unless its job has begun, and throws.
CronUncreates(c) ==
    /\ cron[c].pc = "uncreate"
    /\ job' = IF job[cron[c].job].state = "queued" THEN [job EXCEPT ![cron[c].job] = NoRow] ELSE job
    /\ CronGoes(c, Idle)
    /\ UNCHANGED <<zone, workflow, faults>>

CronMarks(c) ==
    /\ cron[c].pc = "mark"
    /\ zone' = [zone EXCEPT ![cron[c].job.zone].attempted = cron[c].job.day]
    /\ CronGoes(c, Idle)
    /\ UNCHANGED <<job, workflow, faults>>

CronDies(c) ==
    /\ cron[c] # Idle
    /\ Fault
    /\ CronGoes(c, Idle)
    /\ UNCHANGED <<zone, job, workflow>>
-----------------------------------------------------------------------------
(* The Workflow: CzdsIngestionWorkflow.run *)

InCall == {"mark", "put", "row", "settle"}

\* The stager that the Workflow of j waits for.
Holds(s, j) == stager[s] # Idle /\ stager[s].job = j /\ stager[s].mode = "held"

\* The container of j stops, and with it the stager; the call it was in goes on.
ContainerStops(j) ==
    /\ InContainer(j)
    /\ parser' = [parser EXCEPT ![j] = "idle"]
    /\ stager' = [s \in Stager |->
                    IF ~Holds(s, j) THEN stager[s]
                    ELSE IF stager[s].pc \in InCall THEN [stager[s] EXCEPT !.mode = "call"]
                    ELSE Idle]
    /\ outlived' = IF \E s \in Stager : Holds(s, j) /\ stager[s].pc \in InCall
                   THEN outlived \cup {j} ELSE outlived

WorkflowGoes(j, at) ==
    /\ workflow' = [workflow EXCEPT ![j] = at]
    /\ UNCHANGED <<world, chunks, cron>>

Claimable(j) == job[j].state \in {"queued", "failed", "running"}

Claims(j) ==
    /\ workflow[j].pc = "claim"
    /\ IF Claimable(j)
       THEN /\ job' = [job EXCEPT ![j].state = "running"]
            /\ WorkflowGoes(j, [pc |-> "start", attempt |-> 1])
       ELSE /\ UNCHANGED job
            /\ WorkflowGoes(j, [pc |-> IF job[j].state = "complete" THEN "ended" ELSE "fail"])
    /\ UNCHANGED <<zone, announced, parser, stager, faults, outlived>>

\* A container that is at work, or done, is left to it.
Starts(j) ==
    /\ workflow[j].pc = "start"
    /\ \/ /\ job[j].state \in {"staged", "complete"}
          /\ WorkflowGoes(j, [pc |-> "finish"])
          /\ UNCHANGED <<parser, stager>>
       \/ /\ job[j].state \in {"absent", "failed"}
          /\ WorkflowGoes(j, [pc |-> "fail"])
          /\ UNCHANGED <<parser, stager>>
       \/ /\ job[j].state = "running"
          /\ WorkflowGoes(j, [workflow[j] EXCEPT !.pc = "watch"])
          /\ \/ /\ InContainer(j) /\ parser[j] \in {"running", "staged"}
                /\ UNCHANGED <<parser, stager>>
             \/ /\ ~(InContainer(j) /\ parser[j] \in {"running", "staged"})
                /\ parser' = [parser EXCEPT ![j] = "running"]
                /\ \E s \in Stager :
                     /\ stager[s] = Idle
                     /\ stager' = [stager EXCEPT ![s] =
                          [pc |-> "begin", job |-> j, i |-> 0, mode |-> "held",
                           chunk |-> [version |-> registry[j.zone], whole |-> TRUE]]]
    /\ UNCHANGED <<zone, job, announced, faults, outlived>>

NextAttempt(j) ==
    IF workflow[j].attempt < Attempts
    THEN [pc |-> "start", attempt |-> workflow[j].attempt + 1] ELSE [pc |-> "fail"]

\* (Here and below, an operator whose comment begins with "Faulty" is no part of
\* the model: it is a mistake the code could have made in the next definition.)
\* Faulty: a container that is gone is waited for.
HasEndedIfTold(j) == parser[j] \in {"staged", "failed"}

HasEnded(j) == parser[j] # "running"

\* The step returns or throws, or the container is inspected.
Watches(j) ==
    /\ workflow[j].pc = "watch"
    /\ HasEnded(j)
    /\ WorkflowGoes(j, IF parser[j] = "staged" THEN [pc |-> "finish"] ELSE NextAttempt(j))
    /\ UNCHANGED <<zone, job, announced, parser, stager, faults, outlived>>

\* The polls run out, or the time of the step does: it is given up, and goes on.
TimesOut(j) ==
    /\ workflow[j].pc = "watch"
    /\ parser[j] = "running"
    /\ Fault
    /\ WorkflowGoes(j, NextAttempt(j))
    /\ stager' = [s \in Stager |->
                    IF Holds(s, j) /\ ~InContainer(j)
                    THEN [stager[s] EXCEPT !.mode = "adrift"] ELSE stager[s]]
    /\ UNCHANGED <<zone, job, announced, parser, outlived>>

\* finishCzdsWorkflow, and publishCzdsJob up to its first page.
Finishes(j) ==
    /\ workflow[j].pc = "finish"
    /\ WorkflowGoes(j, IF job[j].state = "staged"
                       THEN IF config.stageOnly THEN [pc |-> "release"]
                            ELSE [pc |-> "page", last |-> -1]
                       ELSE IF job[j].state = "complete" /\ ~config.stageOnly
                            THEN [pc |-> "release"] ELSE [pc |-> "fail"])
    /\ UNCHANGED <<zone, job, announced, parser, stager, faults, outlived>>

Staged(j) == {i \in Index : row[j][i] # NoChunk}

\* Faulty: the pages are walked by their number, as if chunks began at 1.
PageFromOne(j, last) == {i \in Staged(j) : last + 1 < i /\ i <= last + 1 + PageSize}

Page(j, last) == {i \in Staged(j) : last < i /\ i <= last + PageSize}

Announces(j) ==
    /\ workflow[j].pc = "page"
    /\ LET page == Page(j, workflow[j].last) IN
       /\ announced' = announced \cup {<<j, i>> : i \in page}
       /\ WorkflowGoes(j, IF page = {} THEN [pc |-> "settle"]
                          ELSE [pc |-> "page", last |-> Max(page)])
    /\ UNCHANGED <<zone, job, parser, stager, faults, outlived>>

Settles(j) ==
    /\ workflow[j].pc = "settle"
    /\ job' = [job EXCEPT ![j].state = "complete"]
    /\ zone' = [zone EXCEPT ![j.zone].completed = today]
    /\ WorkflowGoes(j, [pc |-> "release"])
    /\ UNCHANGED <<announced, parser, stager, faults, outlived>>

\* releaseTerminalCzdsParser
Releases(j) ==
    /\ workflow[j].pc = "release"
    /\ WorkflowGoes(j, [pc |-> "ended"])
    /\ \/ ContainerStops(j)
       \/ ~InContainer(j) /\ UNCHANGED <<parser, stager, outlived>>
    /\ UNCHANGED <<zone, job, announced, faults>>

Failable(j) == job[j].state \notin {"absent", "complete"}

Fails(j) ==
    /\ workflow[j].pc = "fail"
    /\ job' = IF Failable(j) THEN [job EXCEPT ![j].state = "failed"] ELSE job
    /\ WorkflowGoes(j, [pc |-> "ended"])
    /\ UNCHANGED <<zone, announced, parser, stager, faults, outlived>>

\* The step that announces is run again, or no more.
WorkflowFails(j) ==
    /\ workflow[j].pc \in {"claim", "start", "finish", "page", "settle"}
    /\ Fault
    /\ \/ workflow[j].pc \in {"page", "settle"} /\ WorkflowGoes(j, [pc |-> "finish"])
       \/ WorkflowGoes(j, [pc |-> "fail"])
    /\ UNCHANGED <<zone, job, announced, parser, stager, outlived>>

\* An instance that failed may be restarted.
Restarts(j) ==
    /\ workflow[j].pc = "ended" /\ job[j].state \in {"failed", "complete"}
    /\ Fault
    /\ WorkflowGoes(j, [pc |-> "claim"])
    /\ UNCHANGED <<zone, job, announced, parser, stager, outlived>>
-----------------------------------------------------------------------------
(* The stager: stageCzdsJob, or processZone and the calls it makes *)

StagerGoes(s, at) ==
    /\ stager' = [stager EXCEPT ![s] = at]
    /\ UNCHANGED <<world, zone, announced, workflow, cron>>

\* The stager ends, and its Workflow is to know how, if it waits.
Ends(s, how) ==
    /\ StagerGoes(s, Idle)
    /\ parser' = IF stager[s].mode = "held" THEN [parser EXCEPT ![stager[s].job] = how] ELSE parser

\* The stager goes on, unless a call is all that is left of it.
Returns(s, at) ==
    /\ StagerGoes(s, IF stager[s].mode = "call" THEN Idle ELSE at)
    /\ UNCHANGED parser

\* To come to pc within the same call.
StagerTo(s, pc) == StagerGoes(s, [stager[s] EXCEPT !.pc = pc]) /\ UNCHANGED parser

\* Faulty: the fingerprint of a job is that of its last download.
BeginsAnew(s) == job[stager[s].job].state = "running"

MayBegin(s) ==
    /\ job[stager[s].job].state = "running"
    /\ job[stager[s].job].version \in {None, stager[s].chunk.version}

\* beginCzdsArtifact
Begins(s) ==
    /\ stager[s].pc = "begin"
    /\ OneBegins => \A t \in Stager : stager[t].pc = "mark" => stager[t].job # stager[s].job
    /\ IF MayBegin(s) THEN StagerTo(s, "mark") ELSE Ends(s, "failed")
    /\ UNCHANGED <<job, chunks, faults, outlived>>

Marks(s) ==
    /\ stager[s].pc = "mark"
    /\ job' = IF job[stager[s].job].state = "absent" THEN job
              ELSE [job EXCEPT ![stager[s].job].version = stager[s].chunk.version]
    /\ Returns(s, [stager[s] EXCEPT !.pc = "append"])
    /\ UNCHANGED <<chunks, faults, outlived>>

Last(j) == Max({-1} \cup Staged(j))

\* After a chunk comes the next, or the end of the file, or an error if the
\* download broke off.
AfterChunk(s) ==
    IF stager[s].i + 1 < Length
    THEN [stager[s] EXCEPT !.pc = "append", !.i = @ + 1]
    ELSE [stager[s] EXCEPT !.pc = "complete", !.i = Length]

NextChunk(s) ==
    IF stager[s].chunk.whole THEN Returns(s, AfterChunk(s)) ELSE Ends(s, "failed")

\* A chunk that is staged, with the same content.
Repeats(s) ==
    LET j == stager[s].job
        i == stager[s].i
    IN i <= Last(j) /\ row[j][i].whole = stager[s].chunk.whole /\ object[j][i] = stager[s].chunk

\* appendCzdsChunk
Appends(s) ==
    /\ stager[s].pc = "append"
    /\ LET j == stager[s].job IN
       \/ /\ job[j].state = "running" /\ Repeats(s)
          /\ NextChunk(s)
       \/ /\ job[j].state = "running" /\ stager[s].i = Last(j) + 1
          /\ StagerTo(s, "put")
       \/ /\ job[j].state = "running" => ~Repeats(s) /\ stager[s].i # Last(j) + 1
          /\ Ends(s, "failed")
    /\ UNCHANGED <<job, chunks, faults, outlived>>

\* writeChunk
Puts(s) ==
    /\ stager[s].pc = "put"
    /\ object' = [object EXCEPT ![stager[s].job][stager[s].i] = stager[s].chunk]
    /\ StagerTo(s, "row")
    /\ UNCHANGED <<job, row, faults, outlived>>

\* INSERT OR REPLACE
Writes(s) ==
    /\ stager[s].pc = "row"
    /\ row' = [row EXCEPT ![stager[s].job][stager[s].i] = stager[s].chunk]
    /\ NextChunk(s)
    /\ UNCHANGED <<job, object, faults, outlived>>

\* As many chunks, and as many names in them.
CountsMatch(j) == Staged(j) = Index /\ \A i \in Index : row[j][i].whole

\* completeCzdsArtifact
Completes(s) ==
    /\ stager[s].pc = "complete"
    /\ IF CountsMatch(stager[s].job) THEN StagerTo(s, "settle") ELSE Ends(s, "failed")
    /\ UNCHANGED <<job, chunks, faults, outlived>>

Stages(s) ==
    /\ stager[s].pc = "settle"
    /\ IF job[stager[s].job].state = "running"
       THEN job' = [job EXCEPT ![stager[s].job].state = "staged"] /\ Ends(s, "staged")
       ELSE UNCHANGED job /\ Ends(s, "failed")
    /\ UNCHANGED <<chunks, faults, outlived>>
-----------------------------------------------------------------------------
(* Failures of the stager *)

\* The download breaks off within a chunk; in a container, that chunk is posted
\* before the length is looked at.
BreaksOff(s) ==
    /\ stager[s].pc = "append" /\ stager[s].mode = "held"
    /\ InContainer(stager[s].job)
    /\ Fault
    /\ StagerGoes(s, [stager[s] EXCEPT !.chunk.whole = FALSE])
    /\ UNCHANGED <<job, chunks, parser, outlived>>

\* A call fails, of ICANN, the database or the store.
StagerThrows(s) ==
    /\ stager[s] # Idle
    /\ Fault
    /\ Ends(s, "failed")
    /\ UNCHANGED <<job, chunks, outlived>>

\* A container does not get the answer to a call that goes on.
AnswerIsLost(s) ==
    /\ stager[s].pc \in {"mark", "settle"} /\ stager[s].mode = "held"
    /\ InContainer(stager[s].job)
    /\ Fault
    /\ StagerGoes(s, [stager[s] EXCEPT !.mode = "call"])
    /\ parser' = [parser EXCEPT ![stager[s].job] = "failed"]
    /\ outlived' = outlived \cup {stager[s].job}
    /\ UNCHANGED <<job, chunks>>

\* It posts a chunk again, while the call it did not get the answer to goes on.
PostsAgain(s, t) ==
    /\ stager[s].pc \in {"put", "row"} /\ stager[s].mode = "held"
    /\ InContainer(stager[s].job)
    /\ stager[t] = Idle
    /\ Fault
    /\ stager' = [stager EXCEPT ![s].pc = "append", ![t] = [stager[s] EXCEPT !.mode = "call"]]
    /\ outlived' = outlived \cup {stager[s].job}
    /\ UNCHANGED <<world, zone, job, chunks, announced, workflow, parser, cron>>

ContainerDies(j) ==
    /\ parser[j] = "running"
    /\ Fault
    /\ ContainerStops(j)
    /\ UNCHANGED <<world, zone, job, chunks, announced, workflow, cron>>

\* reapTerminalCzdsParsers, and a container that is done and idles out.
Reaps(j) ==
    /\ job[j].state \in {"staged", "complete"}
    /\ parser[j] # "idle"
    /\ ContainerStops(j)
    /\ UNCHANGED <<world, zone, job, chunks, announced, workflow, cron, faults>>

Midnight ==
    /\ today < MaxDay
    /\ today' = today + 1
    /\ UNCHANGED <<registry, config, zone, job, chunks, announced, workflow, parser, cron,
                   stager, faults, outlived>>

FileChanges(z) ==
    /\ registry[z] < MaxVersion
    /\ registry' = [registry EXCEPT ![z] = @ + 1]
    /\ UNCHANGED <<today, config, zone, job, chunks, announced, workflow, parser, cron,
                   stager, faults, outlived>>
-----------------------------------------------------------------------------
CronStep(c) == CronInserts(c) \/ CronCreates(c) \/ CronUncreates(c) \/ CronMarks(c)

WorkflowStep(j) ==
    Claims(j) \/ Starts(j) \/ Watches(j) \/ Finishes(j) \/ Announces(j) \/ Settles(j)
    \/ Releases(j) \/ Fails(j)

StagerStep(s) ==
    Begins(s) \/ Marks(s) \/ Appends(s) \/ Puts(s) \/ Writes(s) \/ Completes(s) \/ Stages(s)

StagerFailure(s) ==
    \/ BreaksOff(s) \/ StagerThrows(s) \/ AnswerIsLost(s)
    \/ \E t \in Stager : PostsAgain(s, t)

Next ==
    \/ \E c \in Cron, z \in Zone : CronReads(c, z)
    \/ \E c \in Cron : CronStep(c) \/ CronDies(c)
    \/ \E j \in Job : WorkflowStep(j) \/ TimesOut(j) \/ WorkflowFails(j) \/ Restarts(j)
    \/ \E j \in Job : ContainerDies(j) \/ Reaps(j)
    \/ \E s \in Stager : StagerStep(s) \/ StagerFailure(s)
    \/ Midnight
    \/ \E z \in Zone : FileChanges(z)

Spec == Init /\ [][Next]_vars

\* Steps of an invocation, of a Workflow and of a stager are taken in the end;
\* schedules, failures and time may come or not.
LiveSpec ==
    /\ Spec
    /\ \A c \in Cron : WF_vars(CronStep(c))
    /\ \A j \in Job : WF_vars(WorkflowStep(j))
    /\ \A s \in Stager : WF_vars(StagerStep(s))
-----------------------------------------------------------------------------
(* Properties *)

\* A job that is staged or complete has every chunk of the one file its fingerprint
\* is of, in rows and objects alike, whatever stagers and calls were given up and
\* went on, and whichever files they read (beginCzdsArtifact, appendCzdsChunk,
\* completeCzdsArtifact).
StagedIsOneFile ==
    \A j \in Job : job[j].state \in {"staged", "complete"} =>
        \A i \in Index :
            /\ row[j][i].version = job[j].version
            /\ object[j][i].version = job[j].version
            /\ j \notin outlived => row[j][i].whole /\ object[j][i].whole

\* "publishes only after the full zone": chunks are announced only once all of them
\* are staged, and those of a complete job all have been (publishCzdsJob).
AnnouncedInFull ==
    \A j \in Job :
        /\ (\E i \in Index : <<j, i>> \in announced) => Staged(j) = Index
        /\ job[j].state = "complete" => \A i \in Index : <<j, i>> \in announced

\* An announced object is not written again with anything else (writeChunk).
AnnouncedIsImmutable ==
    [][\A a \in announced :
         LET old == object[a[1]][a[2]]
             new == object'[a[1]][a[2]]
         IN new.version = old.version /\ (a[1] \notin outlived => new = old)]_vars

\* A job that has begun comes to an end, however often its stagers fail, time out or
\* are killed.
JobsEnd ==
    \A j \in Job : job[j].state = "running" ~>
        \/ job[j].state \in {"complete", "failed"}
        \/ config.stageOnly /\ job[j].state = "staged"
=============================================================================
