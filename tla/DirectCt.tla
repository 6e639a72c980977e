------------------------------ MODULE DirectCt ------------------------------
(***************************************************************************)
(* The ingestion of certificate transparency logs by the Cloudflare        *)
(* deployment (cloudflare/ingest-worker): a schedule cuts the part of each *)
(* log past its cursor into jobs, queue deliveries fetch the entries of a  *)
(* job, store them as a delta, advance the cursor and announce the delta   *)
(* to the compaction Worker, which registers it.                           *)
(*                                                                         *)
(* Schedules (Cron, one for each log an invocation looks at) and queue     *)
(* deliveries (Worker) are sequences of steps separated by an await.  They *)
(* share the tables of the control database (a batch is atomic), an object *)
(* store and two at-least-once queues.  The content of an object is the    *)
(* range of log indices whose entries it holds.                            *)
(***************************************************************************)
EXTENDS Integers, FiniteSets

CONSTANTS
    Source,           \* rows of ct_sources that are enabled
    Static,           \* those of the Static CT protocol
    Reviewed,         \* those entered with a cursor: cursor_initialized = 1
    Horizon,          \* bound on the size of a log
    MaxJobs,          \* bound on the jobs there are
    RangeSize,        \* env.CT_RANGE_SIZE
    InitialBackfill,  \* env.CT_INITIAL_BACKFILL
    TileSize,         \* entries in a data tile of a static log (256)
    AnswerSizes,      \* the most entries each front end of a log returns
    Cron, Worker,
    LeasesRunOut,     \* whether a lease ever outlives its five minutes
    OneInitialises    \* whether a log without a cursor is scheduled by one
                      \* invocation at a time

ASSUME DirectCtAssumption ==
    /\ Static \subseteq Source
    /\ Reviewed \subseteq Source
    /\ Horizon \in Nat
    /\ MaxJobs \in Nat
    /\ RangeSize \in Nat \ {0}
    /\ InitialBackfill \in Nat \ {0}
    /\ TileSize \in Nat \ {0}
    /\ AnswerSizes \subseteq Nat \ {0} /\ AnswerSizes # {}
    /\ LeasesRunOut \in BOOLEAN
    /\ OneInitialises \in BOOLEAN

Index == 0..Horizon

\* job_id is a hash of the source, the start and the end a job is created with.
Job == [source: Source, start: Index, end: Index]

VARIABLES
    \* the logs
    tree,        \* the size each log reports
    \* the control database
    source,      \* ct_sources
    job,         \* ingest_jobs: the rows there are
    \* the object store: <<j, e>> if there is an object of j that ends at e
    objects,
    \* the queues
    jobMessages,
    deltaMessages,  \* every delta-ready message that was sent
    \* the invocations
    cron, worker,
    origin       \* history: where the cursor of each source began

vars == <<tree, source, job, objects, jobMessages, deltaMessages, cron, worker, origin>>
-----------------------------------------------------------------------------
\* A source whose retry_at has not passed is one no invocation takes up yet.
SourceRow == [next: Index, initialised: BOOLEAN]

\* live is FALSE when lease_expires_at is null or has passed.
JobRow == [state: {"absent", "queued", "running", "failed", "complete"},
           end: Index, live: BOOLEAN]

NoRow == [state |-> "absent", end |-> 0, live |-> FALSE]

Idle == [pc |-> "idle"]

CronJob == {Idle}
    \cup [pc: {"measure"}, source: Source, next: Index, initialised: BOOLEAN]
    \cup [pc: {"insert", "send", "unsend"}, job: Job]

WorkerJob == {Idle}
    \cup [pc: {"claim", "reload", "fetch", "commit", "notify"},
          job: Job, end: Index]
    \cup [pc: {"fail"}, job: Job]

TypeOK ==
    /\ tree \in [Source -> Index]
    /\ source \in [Source -> SourceRow]
    /\ job \in [Job -> JobRow]
    /\ objects \subseteq Job \X Index
    /\ jobMessages \subseteq Job
    /\ deltaMessages \subseteq Job \X Index
    /\ cron \in [Cron -> CronJob]
    /\ worker \in [Worker -> WorkerJob]
    /\ origin \in [Source -> Index]
-----------------------------------------------------------------------------
(* A log of any size, no job, and no entry fetched yet. *)

Init ==
    /\ tree \in [Source -> Index]
    /\ source = [s \in Source |-> [next |-> 0, initialised |-> s \in Reviewed]]
    /\ job = [j \in Job |-> NoRow]
    /\ objects = {}
    /\ jobMessages = {} /\ deltaMessages = {}
    /\ cron = [c \in Cron |-> Idle]
    /\ worker = [w \in Worker |-> Idle]
    /\ origin = [s \in Source |-> 0]

Lesser(m, n) == IF m < n THEN m ELSE n

AtLeast0(n) == IF n < 0 THEN 0 ELSE n

\* Entries are appended to a log.
TreeGrows(s) ==
    /\ \E n \in (tree[s] + 1)..Horizon : tree' = [tree EXCEPT ![s] = n]
    /\ UNCHANGED <<source, job, objects, jobMessages, deltaMessages, cron, worker, origin>>
-----------------------------------------------------------------------------
(* scheduleDirectCt, for one of the logs an invocation takes up *)

CronGoes(c, at) == cron' = [cron EXCEPT ![c] = at]

\* The row is read once, before anything is asked of the log.
CronReads(c, s) ==
    /\ cron[c].pc = "idle"
    /\ OneInitialises /\ ~source[s].initialised =>
         \A d \in Cron : cron[d].pc = "measure" => cron[d].source # s
    /\ CronGoes(c, [pc |-> "measure", source |-> s, next |-> source[s].next,
                    initialised |-> source[s].initialised])
    /\ UNCHANGED <<tree, source, job, objects, jobMessages, deltaMessages,
                   worker, origin>>

\* (Here and below, an operator whose comment begins with "Faulty" is no part of
\* the model: it is a mistake the code could have made in the next definition.)
\* Faulty: the first index of the next tile.
TileEndPast(start) == start + TileSize - (start % TileSize)

\* The last index of the tile that start lies in.
TileEnd(start) == start + TileSize - 1 - (start % TileSize)

\* The last index of the job: within the log, the range and the tile.
EndOf(s, start) ==
    LET end == Lesser(tree[s] - 1, start + RangeSize - 1)
    IN IF s \in Static THEN Lesser(end, TileEnd(start)) ELSE end

\* Faulty: a log that has nothing past start is scheduled too.
FromStartAtEnd(s, start) ==
    IF start > tree[s] THEN Idle
    ELSE [pc |-> "insert",
          job |-> [source |-> s, start |-> start, end |-> EndOf(s, start)]]

\* Where an invocation goes that is to schedule s from start.
FromStart(s, start) ==
    IF start >= tree[s] THEN Idle
    ELSE [pc |-> "insert",
          job |-> [source |-> s, start |-> start, end |-> EndOf(s, start)]]

CronMeasures(c) ==
    /\ cron[c].pc = "measure"
    /\ cron[c].initialised
    /\ CronGoes(c, FromStart(cron[c].source, cron[c].next))
    /\ UNCHANGED <<tree, source, job, objects, jobMessages, deltaMessages,
                   worker, origin>>

\* A discovered log has no cursor yet.  The invocation goes on from the start it
\* computed, whoever stored the cursor.
CronBegins(c) ==
    /\ cron[c].pc = "measure"
    /\ ~cron[c].initialised
    /\ LET s == cron[c].source
           start == AtLeast0(tree[s] - InitialBackfill)
       IN /\ IF source[s].initialised THEN UNCHANGED <<source, origin>>
             ELSE /\ source' = [source EXCEPT ![s] =
                                  [next |-> start, initialised |-> TRUE]]
                  /\ origin' = [origin EXCEPT ![s] = start]
          /\ CronGoes(c, FromStart(s, start))
    /\ UNCHANGED <<tree, job, objects, jobMessages, deltaMessages, worker>>

\* The log does not answer, and is left alone for an hour.
CronCannotMeasure(c) ==
    /\ cron[c].pc = "measure"
    /\ CronGoes(c, Idle)
    /\ UNCHANGED <<tree, source, job, objects, jobMessages, deltaMessages,
                   worker, origin>>

\* UNIQUE (source_id, start_index, end_index), for a row other than that of j.
Taken(j, end) ==
    \E k \in Job \ {j} :
        /\ job[k].state # "absent"
        /\ k.source = j.source /\ k.start = j.start
        /\ job[k].end = end

\* INSERT OR IGNORE; a job that is there already is not sent.
CronInserts(c) ==
    /\ cron[c].pc = "insert"
    /\ Cardinality({j \in Job : job[j].state # "absent"}) < MaxJobs
    /\ LET j == cron[c].job IN
       IF job[j].state = "absent" /\ ~Taken(j, j.end)
          THEN /\ job' = [job EXCEPT ![j] = [state |-> "queued", end |-> j.end,
                                            live |-> FALSE]]
               /\ CronGoes(c, [pc |-> "send", job |-> j])
          ELSE CronGoes(c, Idle) /\ UNCHANGED job
    /\ UNCHANGED <<tree, source, objects, jobMessages, deltaMessages, worker, origin>>

CronSends(c) ==
    /\ cron[c].pc = "send"
    /\ jobMessages' = jobMessages \cup {cron[c].job}
    /\ CronGoes(c, Idle)
    /\ UNCHANGED <<tree, source, job, objects, deltaMessages, worker,
                   origin>>

\* send() rejects, although the queue may have the message.
CronSendFails(c) ==
    /\ cron[c].pc = "send"
    /\ jobMessages' \in {jobMessages, jobMessages \cup {cron[c].job}}
    /\ CronGoes(c, [cron[c] EXCEPT !.pc = "unsend"])
    /\ UNCHANGED <<tree, source, job, objects, deltaMessages, worker,
                   origin>>

Unsent(j) == IF job[j].state = "queued" THEN [job EXCEPT ![j] = NoRow] ELSE job

CronUnsends(c) ==
    /\ cron[c].pc = "unsend"
    /\ job' = Unsent(cron[c].job)
    /\ CronGoes(c, Idle)
    /\ UNCHANGED <<tree, source, objects, jobMessages, deltaMessages, worker, origin>>
-----------------------------------------------------------------------------
(* queue(): processDirectCtJob *)

WorkerGoes(w, at) == worker' = [worker EXCEPT ![w] = at]

At(pc, j, end) == [pc |-> pc, job |-> j, end |-> end]

\* An acknowledged message may still be delivered again.
Acknowledged(messages, m) == {messages, messages \ {m}}

\* Faulty: the object of a job that is complete ends where the job was to end.
StoredEndAsPlanned(j) == j.end

\* object_key of a job that is complete names its last entry.
StoredEnd(j) == job[j].end

\* Where a delivery goes that has loaded the row of j.
AfterLoading(j, unfinished) ==
    IF job[j].state = "absent" THEN [pc |-> "fail", job |-> j]
    ELSE IF job[j].state = "complete" THEN At("notify", j, StoredEnd(j))
    ELSE unfinished

Loads(w, j) ==
    /\ worker[w].pc = "idle"
    /\ j \in jobMessages
    /\ WorkerGoes(w, AfterLoading(j, At("claim", j, job[j].end)))
    /\ UNCHANGED <<tree, source, job, objects, jobMessages, deltaMessages,
                   cron, origin>>

Claimable(j) ==
    \/ job[j].state \in {"queued", "failed"}
    \/ job[j].state = "running" /\ ~job[j].live

Claims(w) ==
    /\ worker[w].pc = "claim"
    /\ LET j == worker[w].job IN
       /\ Claimable(j)
       /\ job' = [job EXCEPT ![j].state = "running", ![j].live = TRUE]
    /\ WorkerGoes(w, [worker[w] EXCEPT !.pc = "fetch"])
    /\ UNCHANGED <<tree, source, objects, jobMessages, deltaMessages, cron, origin>>

ClaimRefused(w) ==
    /\ worker[w].pc = "claim"
    /\ ~Claimable(worker[w].job)
    /\ WorkerGoes(w, [worker[w] EXCEPT !.pc = "reload"])
    /\ UNCHANGED <<tree, source, job, objects, jobMessages, deltaMessages,
                   cron, origin>>

\* A row that is not complete by now has an active lease, and the delivery throws.
Reloads(w) ==
    /\ worker[w].pc = "reload"
    /\ LET j == worker[w].job IN
       WorkerGoes(w, AfterLoading(j, [pc |-> "fail", job |-> j]))
    /\ UNCHANGED <<tree, source, job, objects, jobMessages, deltaMessages,
                   cron, origin>>

\* How many entries a log may answer with when it is asked for those of j up to
\* last: get-entries may return fewer; a static log has them in one tile or the
\* delivery throws.
Answers(j, last) ==
    LET n == last - j.start + 1 IN
    IF j.source \notin Static THEN {Lesser(n, most) : most \in AnswerSizes}
    ELSE IF j.start \div TileSize = last \div TileSize THEN {n} ELSE {}

\* Where the object of j may end, if the entries up to last are asked for.
Ends(j, last) == {j.start + n - 1 : n \in Answers(j, last)}

\* The entries are fetched and the object put.
Fetches(w) ==
    /\ worker[w].pc = "fetch"
    /\ LET j == worker[w].job IN
       \E end \in Ends(j, worker[w].end) :
         /\ objects' = objects \cup {<<j, end>>}
         /\ WorkerGoes(w, At("commit", j, end))
    /\ UNCHANGED <<tree, source, job, jobMessages, deltaMessages, cron, origin>>

\* Faulty: the cursor moves past what was asked for.
CursorAfterPlanned(j, end) == j.end + 1

CursorAfter(j, end) == end + 1

\* Job and cursor are one batch, which looks at no lease.
Commits(w) ==
    /\ worker[w].pc = "commit"
    /\ LET j == worker[w].job
           end == worker[w].end
       IN /\ ~Taken(j, end)
          /\ job' = IF job[j].state = "absent" THEN job
                    ELSE [job EXCEPT ![j] = [state |-> "complete", end |-> end,
                                            live |-> FALSE]]
          /\ source' = [source EXCEPT ![j.source].next =
                          IF @ < CursorAfter(j, end) THEN CursorAfter(j, end) ELSE @]
    /\ WorkerGoes(w, [worker[w] EXCEPT !.pc = "notify"])
    /\ UNCHANGED <<tree, objects, jobMessages, deltaMessages, cron,
                   origin>>

\* The new end_index would repeat the range of another row.
CommitConflicts(w) ==
    /\ worker[w].pc = "commit"
    /\ Taken(worker[w].job, worker[w].end)
    /\ WorkerGoes(w, [pc |-> "fail", job |-> worker[w].job])
    /\ UNCHANGED <<tree, source, job, objects, jobMessages, deltaMessages,
                   cron, origin>>

Notifies(w) ==
    /\ worker[w].pc = "notify"
    /\ LET j == worker[w].job IN
       /\ deltaMessages' = deltaMessages \cup {<<j, worker[w].end>>}
       /\ jobMessages' \in Acknowledged(jobMessages, j)
    /\ WorkerGoes(w, Idle)
    /\ UNCHANGED <<tree, source, job, objects, cron, origin>>

\* Faulty: a failure of any kind sends the job back.
FailedEvenIfComplete(j) == job[j].state # "absent"

Failable(j) == job[j].state \notin {"absent", "complete"}

\* failJob: whoever holds the lease, it is gone.  The message is retried.
Fails(w) ==
    /\ worker[w].pc = "fail"
    /\ LET j == worker[w].job IN
       job' = IF Failable(j)
              THEN [job EXCEPT ![j].state = "failed", ![j].live = FALSE] ELSE job
    /\ WorkerGoes(w, Idle)
    /\ UNCHANGED <<tree, source, objects, jobMessages, deltaMessages, cron, origin>>
-----------------------------------------------------------------------------
(* Time and failure *)

LeaseExpires(j) ==
    /\ LeasesRunOut
    /\ job[j].live
    /\ job' = [job EXCEPT ![j].live = FALSE]
    /\ UNCHANGED <<tree, source, objects, jobMessages, deltaMessages, cron, worker, origin>>

CronDies(c) ==
    /\ cron[c] # Idle
    /\ CronGoes(c, Idle)
    /\ UNCHANGED <<tree, source, job, objects, jobMessages, deltaMessages,
                   worker, origin>>

\* A call of the log, the store, the database or the queue fails.
WorkerThrows(w) ==
    /\ worker[w].pc \in {"claim", "reload", "fetch", "commit", "notify"}
    /\ WorkerGoes(w, [pc |-> "fail", job |-> worker[w].job])
    /\ UNCHANGED <<tree, source, job, objects, jobMessages, deltaMessages,
                   cron, origin>>

\* The message of a delivery that dies is delivered again.
WorkerDies(w) ==
    /\ worker[w] # Idle
    /\ WorkerGoes(w, Idle)
    /\ UNCHANGED <<tree, source, job, objects, jobMessages, deltaMessages,
                   cron, origin>>
-----------------------------------------------------------------------------
CronStep(c) ==
    \/ \E s \in Source : CronReads(c, s)
    \/ CronMeasures(c) \/ CronCannotMeasure(c) \/ CronBegins(c)
    \/ CronInserts(c) \/ CronSends(c) \/ CronSendFails(c) \/ CronUnsends(c)

WorkerStep(w) ==
    \/ \E j \in jobMessages : Loads(w, j)
    \/ Claims(w) \/ ClaimRefused(w) \/ Reloads(w)
    \/ Fetches(w) \/ Commits(w) \/ CommitConflicts(w)
    \/ Notifies(w) \/ Fails(w)

Failure ==
    \/ \E c \in Cron : CronDies(c)
    \/ \E w \in Worker : WorkerThrows(w) \/ WorkerDies(w)

Next ==
    \/ \E s \in Source : TreeGrows(s)
    \/ \E c \in Cron : CronStep(c)
    \/ \E w \in Worker : WorkerStep(w)
    \/ \E j \in Job : LeaseExpires(j)
    \/ Failure

Spec == Init /\ [][Next]_vars
-----------------------------------------------------------------------------
(* Safety *)

\* The delta of a complete job has been announced, or its message is left and will
\* have it announced.
HandedOver(j) ==
    \/ job[j].state = "complete" /\ <<j, job[j].end>> \in deltaMessages
    \/ j \in jobMessages

\* No entry is skipped: whatever lies between where the cursor began and where it
\* is has been stored, in the delta of a job that is complete and that the
\* compaction Worker has or will have.  Jobs overlap and end early, schedules work
\* from old cursors, deliveries die between any two of the writes (index.js
\* scheduleDirectCt, processDirectCtJob).
EveryEntryIsHandedOver ==
    \A s \in Source : \A i \in origin[s]..(source[s].next - 1) :
        \E j \in Job :
            /\ j.source = s
            /\ job[j].state = "complete"
            /\ i \in j.start..job[j].end
            /\ <<j, job[j].end>> \in objects
            /\ HandedOver(j)

\* What is announced is the object of a complete job: it is stored, the cursor is
\* past it, and no other announcement of the same delta names another object,
\* which registerDelta would refuse for ever (index.js notifyDelta;
\* compaction-worker/src/index.js registerDelta).
AnnouncedDeltasAreComplete ==
    \A j \in Job, end \in Index :
        <<j, end>> \in deltaMessages =>
            /\ job[j].state = "complete" /\ job[j].end = end
            /\ <<j, end>> \in objects
            /\ source[j.source].next > end

\* The argument behind the two, as an inductive invariant: what a schedule and a
\* delivery may rely on of what they read before (index.js scheduleDirectCt,
\* processDirectCtJob).  A job begins at or before the cursor, so that moving the
\* cursor past its end leaves no gap; an unfinished delivery has its message; the
\* object a delivery is about to commit is the only one its job can have.
IsRange(j) ==
    /\ j.start <= j.end /\ j.end < Horizon
    /\ Ends(j, j.end) # {}
    /\ source[j.source].initialised
    /\ j.start <= source[j.source].next

RowsAreRanges ==
    \A j \in Job : job[j].state # "absent" =>
        /\ IsRange(j)
        /\ job[j].state # "complete" => job[j].end = j.end

CompleteRowsAreStored ==
    \A j \in Job : job[j].state = "complete" =>
        /\ ~job[j].live
        /\ job[j].end \in Ends(j, j.end)
        /\ source[j.source].next > job[j].end
        /\ <<j, job[j].end>> \in objects
        /\ HandedOver(j)

SchedulesAreBehind ==
    \A c \in Cron :
        /\ cron[c].pc = "measure" =>
             /\ source[cron[c].source].initialised <=> cron[c].initialised
             /\ cron[c].initialised => cron[c].next <= source[cron[c].source].next
             /\ ~cron[c].initialised =>
                  \A d \in Cron \ {c} :
                     cron[d].pc = "measure" => cron[d].source # cron[c].source
        /\ cron[c].pc \in {"insert", "send", "unsend"} => IsRange(cron[c].job)

DeliveriesHaveTheirMessage ==
    \A w \in Worker :
        /\ worker[w].pc # "idle" => HandedOver(worker[w].job)
        /\ worker[w].pc \in {"claim", "fetch"} => worker[w].end = worker[w].job.end
        /\ worker[w].pc \in {"fetch", "commit"} =>
             job[worker[w].job].state \in {"running", "failed", "complete"}
        /\ worker[w].pc = "commit" =>
             /\ worker[w].end \in Ends(worker[w].job, worker[w].job.end)
             /\ <<worker[w].job, worker[w].end>> \in objects
        /\ worker[w].pc = "notify" =>
             /\ job[worker[w].job].state = "complete"
             /\ job[worker[w].job].end = worker[w].end

HandOverInv ==
    /\ RowsAreRanges
    /\ CompleteRowsAreStored
    /\ SchedulesAreBehind
    /\ DeliveriesHaveTheirMessage
    /\ AnnouncedDeltasAreComplete
    /\ EveryEntryIsHandedOver

\* A range, once cut, is never cut differently: its row is there (INSERT OR IGNORE)
\* and the cursor stands until it is complete.  One that no answer of the log can
\* fill would stop the ingestion of the log for ever (index.js scheduleDirectCt;
\* static-ct.js staticRange).
EveryRangeCanBeFetched ==
    \A j \in Job : job[j].state \notin {"absent", "complete"} => Ends(j, job[j].end) # {}

\* A job that is complete stays as it is, although a late delivery of it may still
\* fail, or commit a second time (index.js processDirectCtJob, failJob).
CompleteIsFinal ==
    [][\A j \in Job : job[j].state = "complete" => job'[j] = job[j]]_vars

\* "a processing lease prevents concurrent delivery of the same range"
\* (test/worker.test.js:532): while no lease runs out, no two deliveries process
\* one job (index.js processDirectCtJob, failJob).  The code does not keep this: see
\* the README, section 5.
LeasePreventsConcurrentDelivery ==
    \A v, w \in Worker :
        /\ {worker[v].pc, worker[w].pc} \subseteq {"fetch", "commit"}
        /\ worker[v].job = worker[w].job
        => v = w
=============================================================================
