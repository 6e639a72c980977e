--------------------------- MODULE DirectCtProofs ---------------------------
(***************************************************************************)
(* Proofs about DirectCt: no entry of a log is skipped and no announced    *)
(* delta changes, for any number of logs, schedules and deliveries.        *)
(***************************************************************************)
EXTENDS DirectCt, TLAPS

\* The same range is always answered with as many entries.
SteadyLogs == \A m, n \in AnswerSizes : m = n

Inv == TypeOK /\ HandOverInv
-----------------------------------------------------------------------------
(* Ranges *)

LEMMA LesserFacts ==
    ASSUME NEW m \in Int, NEW n \in Int
    PROVE  /\ Lesser(m, n) \in {m, n}
           /\ Lesser(m, n) <= m /\ Lesser(m, n) <= n
BY DEF Lesser

LEMMA EndFacts ==
    ASSUME NEW j \in Job, NEW last \in Index, j.start <= last,
           NEW end \in Ends(j, last)
    PROVE  end \in Index /\ j.start <= end /\ end <= last
<1>1. j.start \in Nat /\ last \in Nat /\ last - j.start + 1 \in Nat \ {0}
  BY DirectCtAssumption DEF Job, Index
<1>2. PICK k \in Answers(j, last) : end = j.start + k - 1
  BY DEF Ends
<1>3. k \in Nat /\ 1 <= k /\ k <= last - j.start + 1
  BY <1>1, DirectCtAssumption DEF Answers, Lesser
<1> QED
  BY <1>1, <1>2, <1>3, DirectCtAssumption DEF Index

LEMMA OneEnd ==
    ASSUME SteadyLogs, NEW j \in Job, NEW last \in Index,
           NEW d \in Ends(j, last), NEW e \in Ends(j, last)
    PROVE  d = e
<1>1. \A m, n \in Answers(j, last) : m = n
  BY DEF Answers, SteadyLogs
<1> QED
  BY <1>1 DEF Ends

LEMMA TileFacts ==
    ASSUME NEW start \in Nat
    PROVE  TileEnd(start) \in Nat /\ start <= TileEnd(start)
<1> DEFINE r == start % TileSize
<1>1. TileSize \in Nat \ {0}
  BY DirectCtAssumption
<1>2. r \in Int /\ r <= TileSize - 1
  BY <1>1
<1>3. TileEnd(start) = start + TileSize - 1 - r
  BY DEF TileEnd
<1> HIDE DEF r
<1> QED
  BY <1>1, <1>2, <1>3

\* Two indices of which the second is at most the end of the tile of the first.
LEMMA SameTile ==
    ASSUME NEW t \in Nat \ {0}, NEW a \in Nat, NEW b \in Nat,
           a <= b, b <= a + t - 1 - (a % t)
    PROVE  a \div t = b \div t
<1>1. PICK q \in Int, r \in Int : q = a \div t /\ r = a % t
  OBVIOUS
<1>2. PICK p \in Int, s \in Int : p = b \div t /\ s = b % t
  OBVIOUS
<1>3. a = t * q + r /\ 0 <= r /\ r < t
  BY <1>1
<1>4. b = t * p + s /\ 0 <= s /\ s < t
  BY <1>2
<1>5. t * q - t < t * p /\ t * p < t * q + t
  BY <1>1, <1>3, <1>4
<1>6. CASE p >= q + 1
  <2>1. t * p >= t * (q + 1)
    BY <1>6
  <2> QED
    BY <1>5, <2>1
<1>7. CASE p <= q - 1
  <2>1. t * p <= t * (q - 1)
    BY <1>7
  <2> QED
    BY <1>5, <2>1
<1> QED
  BY <1>1, <1>2, <1>6, <1>7

\* A schedule that finds entries past start cuts a range that the log can answer.
LEMMA ScheduledRange ==
    ASSUME TypeOK, NEW s \in Source, NEW start \in Index, start < tree[s]
    PROVE  /\ [source |-> s, start |-> start, end |-> EndOf(s, start)] \in Job
           /\ start <= EndOf(s, start) /\ EndOf(s, start) < Horizon
           /\ Ends([source |-> s, start |-> start, end |-> EndOf(s, start)],
                   EndOf(s, start)) # {}
<1>1. tree[s] \in Index
  BY DEF TypeOK
<1>2. start \in Nat /\ tree[s] \in Nat /\ tree[s] <= Horizon
  BY <1>1, DirectCtAssumption DEF Index
<1> DEFINE e == Lesser(tree[s] - 1, start + RangeSize - 1)
<1>3. e \in Int /\ start <= e /\ e < Horizon
  BY <1>2, DirectCtAssumption DEF Lesser
<1>4. TileEnd(start) \in Nat /\ start <= TileEnd(start)
  BY <1>2, TileFacts
<1>5. EndOf(s, start) \in Int /\ start <= EndOf(s, start) /\ EndOf(s, start) < Horizon
  BY <1>3, <1>4, DirectCtAssumption DEF EndOf, Lesser
<1>6. s \in Static => start \div TileSize = EndOf(s, start) \div TileSize
  <2>1. s \in Static => EndOf(s, start) <= TileEnd(start)
    BY <1>3, <1>4 DEF EndOf, Lesser
  <2>2. EndOf(s, start) \in Nat /\ TileSize \in Nat \ {0}
    BY <1>2, <1>5, DirectCtAssumption
  <2> QED
    BY <1>2, <1>5, <2>1, <2>2, SameTile DEF TileEnd
<1>7. Answers([source |-> s, start |-> start, end |-> EndOf(s, start)],
              EndOf(s, start)) # {}
  BY <1>6, DirectCtAssumption DEF Answers
<1>8. Ends([source |-> s, start |-> start, end |-> EndOf(s, start)],
           EndOf(s, start)) # {}
  BY <1>7 DEF Ends
<1> QED
  BY <1>2, <1>5, <1>8, DirectCtAssumption DEF Job, Index
-----------------------------------------------------------------------------
(* Types *)

LEMMA DeliveryTypes ==
    ASSUME NEW d \in WorkerJob
    PROVE  /\ d.pc # "idle" => d.job \in Job
           /\ d.pc \in {"claim", "reload", "fetch", "commit", "notify"} =>
                d.end \in Index
BY DEF WorkerJob, Idle, At

\* A delivery that goes on keeps its job and its end.
LEMMA GoesOn ==
    ASSUME NEW d \in WorkerJob,
           d.pc \in {"claim", "reload", "fetch", "commit", "notify"}
    PROVE  /\ [d EXCEPT !.pc = "fetch"] = At("fetch", d.job, d.end)
           /\ [d EXCEPT !.pc = "reload"] = At("reload", d.job, d.end)
           /\ [d EXCEPT !.pc = "notify"] = At("notify", d.job, d.end)
           /\ [d EXCEPT !.pc = "fetch"] \in WorkerJob
           /\ [d EXCEPT !.pc = "reload"] \in WorkerJob
           /\ [d EXCEPT !.pc = "notify"] \in WorkerJob
<1>1. d \in [pc: {"claim", "reload", "fetch", "commit", "notify"}, job: Job, end: Index]
  BY DEF WorkerJob, Idle
<1> QED
  BY <1>1 DEF WorkerJob, At

LEMMA DeliveryIsTyped ==
    /\ Idle \in WorkerJob
    /\ \A j \in Job : [pc |-> "fail", job |-> j] \in WorkerJob
    /\ \A j \in Job, end \in Index :
         \A pc \in {"claim", "reload", "fetch", "commit", "notify"} :
            At(pc, j, end) \in WorkerJob
BY DEF WorkerJob, Idle, At

LEMMA ScheduleTypes ==
    ASSUME NEW d \in CronJob
    PROVE  /\ d.pc = "measure" =>
                d.source \in Source /\ d.next \in Index /\ d.initialised \in BOOLEAN
           /\ d.pc \in {"insert", "send", "unsend"} => d.job \in Job
           /\ d.pc = "send" => [d EXCEPT !.pc = "unsend"] = [pc |-> "unsend", job |-> d.job]
BY DEF CronJob, Idle

LEMMA ScheduleIsTyped ==
    /\ Idle \in CronJob
    /\ \A j \in Job : \A pc \in {"insert", "send", "unsend"} : [pc |-> pc, job |-> j] \in CronJob
    /\ \A s \in Source, n \in Index, b \in BOOLEAN :
         [pc |-> "measure", source |-> s, next |-> n, initialised |-> b] \in CronJob
BY DEF CronJob, Idle

LEMMA FromStartTyped ==
    ASSUME TypeOK, NEW s \in Source, NEW start \in Index
    PROVE  FromStart(s, start) \in CronJob
<1>1. tree[s] \in Int /\ start \in Int
  BY DirectCtAssumption DEF TypeOK, Index
<1>2. CASE start >= tree[s]
  BY <1>2, ScheduleIsTyped DEF FromStart
<1>3. CASE start < tree[s]
  <2> DEFINE j == [source |-> s, start |-> start, end |-> EndOf(s, start)]
  <2>1. j \in Job
    BY <1>3, ScheduledRange
  <2>2. FromStart(s, start) = [pc |-> "insert", job |-> j]
    BY <1>1, <1>3 DEF FromStart
  <2> QED
    BY <2>1, <2>2, ScheduleIsTyped
<1> QED
  BY <1>1, <1>2, <1>3

LEMMA StartTyped ==
    ASSUME TypeOK, NEW s \in Source
    PROVE  AtLeast0(tree[s] - InitialBackfill) \in Index
BY DirectCtAssumption DEF AtLeast0, TypeOK, Index

\* What a delivery that loads the row of a job leaves with.
LEMMA AfterLoadingTyped ==
    ASSUME TypeOK, NEW j \in Job, NEW unfinished \in WorkerJob
    PROVE  AfterLoading(j, unfinished) \in WorkerJob
<1>1. job[j].end \in Index
  BY DEF TypeOK, JobRow
<1> QED
  BY <1>1, DeliveryIsTyped DEF AfterLoading, StoredEnd

\* A commit moves the cursor within the log.
LEMMA CommitFacts ==
    ASSUME Inv, NEW w \in Worker, worker[w].pc = "commit"
    PROVE  /\ worker[w].job \in Job /\ worker[w].end \in Index
           /\ worker[w].job.source \in Source
           /\ worker[w].end \in Ends(worker[w].job, worker[w].job.end)
           /\ <<worker[w].job, worker[w].end>> \in objects
           /\ HandedOver(worker[w].job)
           /\ IsRange(worker[w].job)
           /\ job[worker[w].job].state \in {"running", "failed", "complete"}
           /\ worker[w].job.start <= worker[w].end
           /\ CursorAfter(worker[w].job, worker[w].end) \in Index
<1> DEFINE j == worker[w].job
<1>1. worker[w] \in WorkerJob
  BY DEF Inv, TypeOK
<1>2. j \in Job /\ worker[w].end \in Index
  BY <1>1, DeliveryTypes
<1>3. /\ worker[w].end \in Ends(j, j.end) /\ <<j, worker[w].end>> \in objects
      /\ HandedOver(j) /\ job[j].state \in {"running", "failed", "complete"}
  BY DEF Inv, HandOverInv, DeliveriesHaveTheirMessage
<1>4. IsRange(j)
  BY <1>2, <1>3 DEF Inv, HandOverInv, RowsAreRanges
<1>5. j.source \in Source /\ j.start \in Index /\ j.end \in Index
  BY <1>2 DEF Job
<1>6. j.start <= worker[w].end /\ worker[w].end <= j.end
  BY <1>2, <1>3, <1>4, <1>5, EndFacts DEF IsRange
<1>7. CursorAfter(j, worker[w].end) \in Index
  BY <1>2, <1>4, <1>5, <1>6, DirectCtAssumption DEF CursorAfter, IsRange, Index
<1> QED
  BY <1>2, <1>3, <1>4, <1>5, <1>6, <1>7

LEMMA TypeNext ==
    ASSUME Inv, [Next]_vars
    PROVE  TypeOK'
<1>1. TypeOK
  BY DEF Inv
<1> USE <1>1
<1>2. CASE UNCHANGED vars
  BY <1>2 DEF vars, TypeOK
<1>3. ASSUME NEW s \in Source, TreeGrows(s) PROVE TypeOK'
  <2>1. PICK n \in (tree[s] + 1)..Horizon : tree' = [tree EXCEPT ![s] = n]
    BY <1>3 DEF TreeGrows
  <2>2. n \in Index
    BY DirectCtAssumption DEF TypeOK, Index
  <2> QED
    BY <1>3, <2>1, <2>2 DEF TypeOK, TreeGrows
<1>4. ASSUME NEW j \in Job, LeaseExpires(j) PROVE TypeOK'
  BY <1>4 DEF TypeOK, LeaseExpires, JobRow
<1>5. ASSUME NEW c \in Cron, CronStep(c) \/ CronDies(c) PROVE TypeOK'
  <2>0. cron[c] \in CronJob
    BY DEF TypeOK
  <2>1. ASSUME NEW s \in Source, CronReads(c, s) PROVE TypeOK'
    <3>1. source[s].next \in Index /\ source[s].initialised \in BOOLEAN
      BY DEF TypeOK, SourceRow
    <3> QED
      BY <2>1, <3>1, ScheduleIsTyped DEF CronReads, CronGoes, TypeOK
  <2>2. CASE CronMeasures(c)
    <3>1. FromStart(cron[c].source, cron[c].next) \in CronJob
      BY <2>0, <2>2, ScheduleTypes, FromStartTyped DEF CronMeasures
    <3> QED
      BY <2>2, <3>1 DEF CronMeasures, CronGoes, TypeOK
  <2>3. CASE CronBegins(c)
    <3> DEFINE s == cron[c].source
               start == AtLeast0(tree[s] - InitialBackfill)
    <3>1. s \in Source /\ start \in Index
      BY <2>0, <2>3, ScheduleTypes, StartTyped DEF CronBegins
    <3>2. FromStart(s, start) \in CronJob
      BY <3>1, FromStartTyped
    <3>3. [next |-> start, initialised |-> TRUE] \in SourceRow
      BY <3>1 DEF SourceRow
    <3>4. source' \in [Source -> SourceRow] /\ origin' \in [Source -> Index]
      BY <2>3, <3>1, <3>3 DEF CronBegins, TypeOK
    <3>5. cron' \in [Cron -> CronJob]
      BY <2>3, <3>2 DEF CronBegins, CronGoes, TypeOK
    <3> QED
      BY <2>3, <3>4, <3>5 DEF CronBegins, TypeOK
  <2>4. CASE CronCannotMeasure(c) \/ CronDies(c)
    BY <2>4, ScheduleIsTyped DEF CronCannotMeasure, CronDies, CronGoes, TypeOK
  <2>5. CASE CronInserts(c)
    <3> DEFINE j == cron[c].job
    <3>1. j \in Job
      BY <2>0, <2>5, ScheduleTypes DEF CronInserts
    <3>2. [state |-> "queued", end |-> j.end, live |-> FALSE] \in JobRow
      BY <3>1 DEF Job, JobRow
    <3>3. job' \in [Job -> JobRow]
      BY <2>5, <3>1, <3>2 DEF CronInserts, TypeOK
    <3>4. cron' \in [Cron -> CronJob]
      BY <2>5, <3>1, ScheduleIsTyped DEF CronInserts, CronGoes, TypeOK
    <3> QED
      BY <2>5, <3>3, <3>4 DEF CronInserts, TypeOK
  <2>6. CASE CronSends(c) \/ CronSendFails(c)
    <3>1. cron[c].job \in Job /\ [cron[c] EXCEPT !.pc = "unsend"] \in CronJob
      BY <2>0, <2>6, ScheduleTypes, ScheduleIsTyped DEF CronSends, CronSendFails
    <3>2. cron' \in [Cron -> CronJob]
      BY <2>6, <3>1, ScheduleIsTyped DEF CronSends, CronSendFails, CronGoes, TypeOK
    <3>3. jobMessages' \subseteq Job
      BY <2>6, <3>1 DEF CronSends, CronSendFails, TypeOK
    <3> QED
      BY <2>6, <3>2, <3>3 DEF CronSends, CronSendFails, TypeOK
  <2>7. CASE CronUnsends(c)
    <3>1. NoRow \in JobRow
      BY DirectCtAssumption DEF NoRow, JobRow, Index
    <3>2. job' \in [Job -> JobRow]
      BY <2>7, <3>1 DEF CronUnsends, Unsent, TypeOK
    <3> QED
      BY <2>7, <3>2, ScheduleIsTyped DEF CronUnsends, CronGoes, TypeOK
  <2> QED
    BY <1>5, <2>1, <2>2, <2>3, <2>4, <2>5, <2>6, <2>7 DEF CronStep
<1>6. ASSUME NEW w \in Worker, WorkerStep(w) \/ WorkerThrows(w) \/ WorkerDies(w)
      PROVE  TypeOK'
  <2>0. worker[w] \in WorkerJob
    BY DEF TypeOK
  <2>1. ASSUME NEW j \in jobMessages, Loads(w, j) PROVE TypeOK'
    <3>1. j \in Job /\ job[j].end \in Index
      BY DEF TypeOK, JobRow
    <3>2. AfterLoading(j, At("claim", j, job[j].end)) \in WorkerJob
      BY <3>1, AfterLoadingTyped, DeliveryIsTyped
    <3> QED
      BY <2>1, <3>2 DEF Loads, WorkerGoes, TypeOK
  <2>2. CASE Claims(w)
    <3>1. [worker[w] EXCEPT !.pc = "fetch"] \in WorkerJob
      <4>1. worker[w].pc \in {"claim", "commit"}
        BY <2>2 DEF Claims
      <4> QED
        BY <2>0, <4>1, GoesOn
    <3>2. job' \in [Job -> JobRow]
      BY <2>2 DEF Claims, TypeOK, JobRow
    <3> QED
      BY <2>2, <3>1, <3>2 DEF Claims, WorkerGoes, TypeOK
  <2>3. CASE ClaimRefused(w)
    <3>1. [worker[w] EXCEPT !.pc = "reload"] \in WorkerJob
      <4>1. worker[w].pc \in {"claim", "commit"}
        BY <2>3 DEF ClaimRefused
      <4> QED
        BY <2>0, <4>1, GoesOn
    <3> QED
      BY <2>3, <3>1 DEF ClaimRefused, WorkerGoes, TypeOK
  <2>4. CASE Reloads(w)
    <3> DEFINE j == worker[w].job
    <3>1. j \in Job /\ [pc |-> "fail", job |-> j] \in WorkerJob
      BY <2>0, <2>4, DeliveryTypes, DeliveryIsTyped, DirectCtAssumption DEF Reloads
    <3>2. AfterLoading(j, [pc |-> "fail", job |-> j]) \in WorkerJob
      BY <3>1, AfterLoadingTyped
    <3> QED
      BY <2>4, <3>2 DEF Reloads, WorkerGoes, TypeOK
  <2>5. CASE Fetches(w)
    <3> DEFINE j == worker[w].job
    <3>1. PICK end \in Ends(j, worker[w].end) :
            objects' = objects \cup {<<j, end>>}
            /\ WorkerGoes(w, At("commit", j, end))
      BY <2>5 DEF Fetches
    <3>2. j \in Job /\ worker[w].end = j.end /\ IsRange(j)
      BY <2>0, <2>5, DeliveryTypes
      DEF Fetches, Inv, HandOverInv, DeliveriesHaveTheirMessage, RowsAreRanges
    <3>3. end \in Index
      BY <3>1, <3>2, EndFacts DEF IsRange, Job
    <3>4. At("commit", j, end) \in WorkerJob
      BY <3>2, <3>3, DeliveryIsTyped
    <3> QED
      BY <2>5, <3>1, <3>2, <3>3, <3>4 DEF Fetches, WorkerGoes, TypeOK
  <2>6. CASE Commits(w)
    <3> DEFINE j == worker[w].job
               end == worker[w].end
    <3>1. /\ j \in Job /\ end \in Index /\ j.source \in Source
          /\ CursorAfter(j, end) \in Index
      BY <2>6, CommitFacts DEF Commits
    <3>2. [state |-> "complete", end |-> end, live |-> FALSE] \in JobRow
      BY <3>1 DEF JobRow
    <3>3. job' \in [Job -> JobRow]
      BY <2>6, <3>1, <3>2 DEF Commits, TypeOK
    <3>4. source' \in [Source -> SourceRow]
      BY <2>6, <3>1 DEF Commits, TypeOK, SourceRow
    <3>5. [worker[w] EXCEPT !.pc = "notify"] \in WorkerJob
      <4>1. worker[w].pc \in {"claim", "commit"}
        BY <2>6 DEF Commits
      <4> QED
        BY <2>0, <4>1, GoesOn
    <3> QED
      BY <2>6, <3>3, <3>4, <3>5 DEF Commits, WorkerGoes, TypeOK
  <2>7. CASE CommitConflicts(w) \/ WorkerThrows(w)
    <3>1. worker[w].job \in Job
      BY <2>0, <2>7, DeliveryTypes DEF CommitConflicts, WorkerThrows
    <3>2. [pc |-> "fail", job |-> worker[w].job] \in WorkerJob
      BY <3>1, DeliveryIsTyped, DirectCtAssumption
    <3> QED
      BY <2>7, <3>2 DEF CommitConflicts, WorkerThrows, WorkerGoes, TypeOK
  <2>8. CASE Notifies(w)
    <3>1. worker[w].job \in Job /\ worker[w].end \in Index /\ Idle \in WorkerJob
      BY <2>0, <2>8, DeliveryTypes, DeliveryIsTyped DEF Notifies
    <3> QED
      BY <2>8, <3>1 DEF Notifies, Acknowledged, WorkerGoes, TypeOK
  <2>9. CASE Fails(w)
    <3>1. worker[w].job \in Job /\ Idle \in WorkerJob
      BY <2>0, <2>9, DeliveryTypes DEF Fails, WorkerJob
    <3>2. job' \in [Job -> JobRow]
      BY <2>9, <3>1 DEF Fails, TypeOK, JobRow
    <3> QED
      BY <2>9, <3>1, <3>2 DEF Fails, WorkerGoes, TypeOK
  <2>10. CASE WorkerDies(w)
    BY <2>10 DEF WorkerDies, WorkerGoes, WorkerJob, TypeOK
  <2> QED
    BY <1>6, <2>1, <2>2, <2>3, <2>4, <2>5, <2>6, <2>7, <2>8, <2>9, <2>10
    DEF WorkerStep
<1> QED
  BY <1>2, <1>3, <1>4, <1>5, <1>6 DEF Next, Failure
-----------------------------------------------------------------------------
(* What no step takes back *)

RowsPersist ==
    \A j \in Job :
        /\ job[j].state = "complete" => job'[j] = job[j]
        /\ job[j].state \in {"running", "failed", "complete"} =>
             job'[j].state \in {"running", "failed", "complete"}

SourcesPersist ==
    \A s \in Source :
        source[s].initialised =>
            /\ source'[s].initialised
            /\ source[s].next <= source'[s].next
            /\ origin'[s] = origin[s]

MessagesPersist ==
    /\ deltaMessages \subseteq deltaMessages'
    /\ \A j \in jobMessages :
         \/ j \in jobMessages'
         \/ job[j].state = "complete" /\ <<j, job[j].end>> \in deltaMessages'

Persists ==
    /\ objects \subseteq objects'
    /\ RowsPersist
    /\ SourcesPersist
    /\ MessagesPersist

\* A job that is complete is committed again as it is.
LEMMA CommitOfComplete ==
    ASSUME Inv, SteadyLogs, NEW w \in Worker, Commits(w),
           job[worker[w].job].state = "complete"
    PROVE  job[worker[w].job] =
             [state |-> "complete", end |-> worker[w].end, live |-> FALSE]
<1> DEFINE j == worker[w].job
<1>1. j \in Job /\ worker[w].end \in Ends(j, j.end)
  BY CommitFacts DEF Commits
<1>2. ~job[j].live /\ job[j].end \in Ends(j, j.end)
  BY <1>1 DEF Inv, HandOverInv, CompleteRowsAreStored
<1>3. j.end \in Index
  BY <1>1 DEF Job
<1>4. job[j].end = worker[w].end
  BY <1>1, <1>2, <1>3, OneEnd
<1>5. job[j] \in JobRow
  BY <1>1 DEF Inv, TypeOK
<1> QED
  BY <1>2, <1>4, <1>5 DEF JobRow

LEMMA StepPersists ==
    ASSUME Inv, SteadyLogs, [Next]_vars
    PROVE  Persists
<1>0. /\ job \in [Job -> JobRow] /\ source \in [Source -> SourceRow]
      /\ origin \in [Source -> Index] /\ jobMessages \subseteq Job
      /\ cron \in [Cron -> CronJob] /\ worker \in [Worker -> WorkerJob]
  BY DEF Inv, TypeOK
<1>01. \A s \in Source : source[s].next \in Int
  BY <1>0, DirectCtAssumption DEF SourceRow, Index
<1> DEFINE Same == UNCHANGED <<job, source, objects, jobMessages, deltaMessages, origin>>
<1>1. CASE Same
  BY <1>1, <1>01 DEF Persists, RowsPersist, SourcesPersist, MessagesPersist
<1>2. ASSUME NEW c \in Cron, CronBegins(c) PROVE Persists
  <2>1. cron[c].source \in Source
    BY <1>0, <1>2, ScheduleTypes DEF CronBegins
  <2>2. SourcesPersist
    BY <1>0, <1>01, <1>2, <2>1 DEF CronBegins, SourcesPersist
  <2> QED
    BY <1>2, <2>2 DEF CronBegins, Persists, RowsPersist, MessagesPersist
<1>3. ASSUME NEW c \in Cron, CronInserts(c) \/ CronUnsends(c) PROVE Persists
  <2>1. cron[c].job \in Job
    BY <1>0, <1>3, ScheduleTypes DEF CronInserts, CronUnsends
  <2>2. RowsPersist
    BY <1>0, <1>3, <2>1 DEF CronInserts, CronUnsends, Unsent, RowsPersist
  <2>3. UNCHANGED <<source, objects, jobMessages, deltaMessages, origin>>
    BY <1>3 DEF CronInserts, CronUnsends
  <2> QED
    BY <1>01, <2>2, <2>3 DEF Persists, SourcesPersist, MessagesPersist
<1>4. ASSUME NEW c \in Cron, CronSends(c) \/ CronSendFails(c) PROVE Persists
  BY <1>01, <1>4 DEF CronSends, CronSendFails, Persists, RowsPersist, SourcesPersist,
                     MessagesPersist
<1>5. ASSUME NEW w \in Worker, Claims(w) \/ Fails(w) PROVE Persists
  <2>1. worker[w].job \in Job
    BY <1>0, <1>5, DeliveryTypes DEF Claims, Fails
  <2>2. RowsPersist
    <3> DEFINE j == worker[w].job
    <3>1. CASE Claims(w)
      <4>1. job[j].state # "complete"
        BY <3>1 DEF Claims, Claimable
      <4>2. job' = [job EXCEPT ![j].state = "running", ![j].live = TRUE]
        BY <3>1 DEF Claims
      <4> QED
        BY <1>0, <2>1, <4>1, <4>2 DEF RowsPersist, JobRow
    <3>2. CASE Fails(w)
      <4>1. job' = IF Failable(j)
              THEN [job EXCEPT ![j].state = "failed", ![j].live = FALSE] ELSE job
        BY <3>2 DEF Fails
      <4> QED
        BY <1>0, <2>1, <4>1 DEF RowsPersist, JobRow, Failable
    <3> QED
      BY <1>5, <3>1, <3>2
  <2>3. UNCHANGED <<source, objects, jobMessages, deltaMessages, origin>>
    BY <1>5 DEF Claims, Fails
  <2> QED
    BY <1>01, <2>2, <2>3 DEF Persists, SourcesPersist, MessagesPersist
<1>6. ASSUME NEW w \in Worker, Fetches(w) PROVE Persists
  BY <1>01, <1>6 DEF Fetches, Persists, RowsPersist, SourcesPersist, MessagesPersist
<1>7. ASSUME NEW w \in Worker, Commits(w) PROVE Persists
  <2> DEFINE j == worker[w].job
             after == CursorAfter(j, worker[w].end)
  <2>1. j \in Job /\ j.source \in Source /\ after \in Int
    <3>1. worker[w].pc = "commit"
      BY <1>7 DEF Commits
    <3>2. j \in Job /\ j.source \in Source /\ after \in Index
      BY <3>1, CommitFacts
    <3> QED
      BY <3>2, DirectCtAssumption DEF Index
  <2>2. job[j].state = "complete" =>
          job[j] = [state |-> "complete", end |-> worker[w].end, live |-> FALSE]
    BY <1>7, CommitOfComplete
  <2>3. RowsPersist
    BY <1>0, <1>7, <2>1, <2>2 DEF Commits, RowsPersist
  <2>4. SourcesPersist
    BY <1>0, <1>01, <1>7, <2>1 DEF Commits, SourcesPersist, SourceRow
  <2> QED
    BY <1>7, <2>3, <2>4 DEF Commits, Persists, MessagesPersist
<1>8. ASSUME NEW w \in Worker, Notifies(w) PROVE Persists
  <2> DEFINE j == worker[w].job
  <2>1. job[j].state = "complete" /\ job[j].end = worker[w].end
    BY <1>8 DEF Notifies, Inv, HandOverInv, DeliveriesHaveTheirMessage
  <2>2. MessagesPersist
    BY <1>8, <2>1 DEF Notifies, Acknowledged, MessagesPersist
  <2> QED
    BY <1>01, <1>8, <2>2 DEF Notifies, Persists, RowsPersist, SourcesPersist
<1>9. ASSUME NEW j \in Job, LeaseExpires(j) PROVE Persists
  <2>1. job[j].state # "complete"
    BY <1>9 DEF LeaseExpires, Inv, HandOverInv, CompleteRowsAreStored
  <2>2. RowsPersist
    BY <1>0, <1>9, <2>1 DEF LeaseExpires, RowsPersist
  <2> QED
    BY <1>01, <1>9, <2>2 DEF LeaseExpires, Persists, SourcesPersist, MessagesPersist
<1>10. ASSUME NEW c \in Cron,
              \/ \E s \in Source : CronReads(c, s)
              \/ CronMeasures(c) \/ CronCannotMeasure(c) \/ CronDies(c)
       PROVE  Same
  BY <1>10 DEF CronReads, CronMeasures, CronCannotMeasure, CronDies
<1>11. ASSUME NEW w \in Worker,
              \/ \E j \in jobMessages : Loads(w, j)
              \/ ClaimRefused(w) \/ Reloads(w) \/ CommitConflicts(w)
              \/ WorkerThrows(w) \/ WorkerDies(w)
       PROVE  Same
  BY <1>11 DEF Loads, ClaimRefused, Reloads, CommitConflicts, WorkerThrows, WorkerDies
<1>12. ASSUME NEW s \in Source, TreeGrows(s) PROVE Same
  BY <1>12 DEF TreeGrows
<1>13. CASE UNCHANGED vars
  BY <1>1, <1>13 DEF vars
<1> HIDE DEF Same
<1> QED
  BY <1>1, <1>2, <1>3, <1>4, <1>5, <1>6, <1>7, <1>8, <1>9, <1>10, <1>11, <1>12, <1>13
  DEF Next, CronStep, WorkerStep, Failure
-----------------------------------------------------------------------------
(* What holds of a range, a schedule and a delivery goes on to hold *)

LEMMA HandedOverPersists ==
    ASSUME Persists, NEW j \in Job, HandedOver(j)
    PROVE  HandedOver(j)'
BY DEF Persists, RowsPersist, MessagesPersist, HandedOver

LEMMA RangePersists ==
    ASSUME TypeOK, TypeOK', Persists, NEW j \in Job, IsRange(j)
    PROVE  IsRange(j)'
<1>1. j.source \in Source /\ j.start \in Int
  BY DirectCtAssumption DEF Job, Index
<1>2. source[j.source].next \in Int /\ source'[j.source].next \in Int
  BY <1>1, DirectCtAssumption DEF TypeOK, SourceRow, Index
<1>3. Ends(j, j.end)' = Ends(j, j.end)
  BY DEF Ends, Answers
<1> QED
  BY <1>1, <1>2, <1>3 DEF Persists, SourcesPersist, IsRange

\* A job that is complete, as CompleteRowsAreStored has it.
Stored(j) ==
    /\ ~job[j].live
    /\ job[j].end \in Ends(j, j.end)
    /\ source[j.source].next > job[j].end
    /\ <<j, job[j].end>> \in objects
    /\ HandedOver(j)

LEMMA StoredPersists ==
    ASSUME TypeOK, TypeOK', RowsAreRanges, Persists, NEW j \in Job,
           job[j].state = "complete", Stored(j)
    PROVE  job'[j].state = "complete" /\ Stored(j)'
<1>1. job'[j] = job[j]
  BY DEF Persists, RowsPersist
<1>2. j.source \in Source /\ IsRange(j)
  BY DEF RowsAreRanges, Job
<1>3. source[j.source].next <= source'[j.source].next
  BY <1>2 DEF IsRange, Persists, SourcesPersist
<1>4. /\ source[j.source].next \in Int /\ source'[j.source].next \in Int
      /\ job[j].end \in Int
  BY <1>2, DirectCtAssumption DEF TypeOK, SourceRow, JobRow, Index
<1>5. source'[j.source].next > job'[j].end
  BY <1>1, <1>3, <1>4 DEF Stored
<1>6. HandedOver(j)'
  BY HandedOverPersists DEF Stored
<1>7. Ends(j, j.end)' = Ends(j, j.end)
  BY DEF Ends, Answers
<1> QED
  BY <1>1, <1>5, <1>6, <1>7 DEF Stored, Persists

\* What SchedulesAreBehind says of one schedule alone.
ScheduleOK(d) ==
    /\ d.pc = "measure" =>
         /\ source[d.source].initialised <=> d.initialised
         /\ d.initialised => d.next <= source[d.source].next
    /\ d.pc \in {"insert", "send", "unsend"} => IsRange(d.job)

\* What DeliveriesHaveTheirMessage says of one delivery.
DeliveryOK(d) ==
    /\ d.pc # "idle" => HandedOver(d.job)
    /\ d.pc \in {"claim", "fetch"} => d.end = d.job.end
    /\ d.pc \in {"fetch", "commit"} =>
         job[d.job].state \in {"running", "failed", "complete"}
    /\ d.pc = "commit" =>
         /\ d.end \in Ends(d.job, d.job.end)
         /\ <<d.job, d.end>> \in objects
    /\ d.pc = "notify" =>
         /\ job[d.job].state = "complete"
         /\ job[d.job].end = d.end

LEMMA DeliveryPersists ==
    ASSUME Persists, NEW d \in WorkerJob, DeliveryOK(d)
    PROVE  DeliveryOK(d)'
<1>1. CASE d.pc = "idle"
  BY <1>1 DEF DeliveryOK
<1>2. CASE d.pc # "idle"
  <2>1. d.job \in Job /\ HandedOver(d.job)
    BY <1>2, DeliveryTypes DEF DeliveryOK
  <2>2. HandedOver(d.job)'
    BY <2>1, HandedOverPersists
  <2>3. Ends(d.job, d.job.end)' = Ends(d.job, d.job.end)
    BY DEF Ends, Answers
  <2>4. /\ job[d.job].state = "complete" => job'[d.job] = job[d.job]
        /\ job[d.job].state \in {"running", "failed", "complete"} =>
             job'[d.job].state \in {"running", "failed", "complete"}
        /\ objects \subseteq objects'
    BY <2>1 DEF Persists, RowsPersist
  <2> QED
    BY <2>2, <2>3, <2>4 DEF DeliveryOK
<1> QED
  BY <1>1, <1>2
-----------------------------------------------------------------------------
(* Every step keeps each conjunct *)

LEMMA RowsStayRanges ==
    ASSUME Inv, TypeOK', Persists, [Next]_vars
    PROVE  RowsAreRanges'
<1> DEFINE RowOK(j) == job[j].state # "absent" =>
              IsRange(j) /\ (job[j].state # "complete" => job[j].end = j.end)
<1>0. /\ job \in [Job -> JobRow] /\ cron \in [Cron -> CronJob]
      /\ worker \in [Worker -> WorkerJob] /\ TypeOK
  BY DEF Inv, TypeOK
<1>1. \A j \in Job : RowOK(j)
  BY DEF Inv, HandOverInv, RowsAreRanges
<1>2. \A j \in Job : IsRange(j) => IsRange(j)'
  BY <1>0, RangePersists
<1>3. ASSUME NEW j \in Job,
             \/ job'[j] = job[j]
             \/ job'[j].state = "absent"
             \/ job[j].state # "absent" /\ job'[j].state = "complete"
             \/ /\ job[j].state \notin {"absent", "complete"}
                /\ job'[j].end = job[j].end
      PROVE  RowOK(j)'
  BY <1>1, <1>2, <1>3
<1>4. CASE UNCHANGED job
  BY <1>3, <1>4 DEF RowsAreRanges
<1>5. ASSUME NEW c \in Cron, CronInserts(c) PROVE RowsAreRanges'
  <2>1. PICK i \in Job : i = cron[c].job /\ IsRange(i)
    BY <1>0, <1>5, ScheduleTypes
    DEF CronInserts, Inv, HandOverInv, SchedulesAreBehind
  <2>2. \/ UNCHANGED job
        \/ job' = [job EXCEPT ![i] = [state |-> "queued", end |-> i.end, live |-> FALSE]]
    BY <1>5, <2>1 DEF CronInserts
  <2>3. RowOK(i)'
    <3>1. job'[i] = job[i] \/ (job'[i].state = "queued" /\ job'[i].end = i.end)
      BY <1>0, <2>2
    <3>2. CASE job'[i] = job[i]
      BY <1>3, <3>2
    <3>3. CASE job'[i].state = "queued" /\ job'[i].end = i.end
      BY <1>2, <2>1, <3>3
    <3> QED
      BY <3>1, <3>2, <3>3
  <2>4. \A j \in Job \ {i} : job'[j] = job[j]
    BY <1>0, <2>2
  <2> QED
    BY <1>3, <2>3, <2>4 DEF RowsAreRanges
<1>6. ASSUME NEW c \in Cron, CronUnsends(c) PROVE RowsAreRanges'
  <2>1. \A j \in Job : job'[j] = job[j] \/ job'[j].state = "absent"
    BY <1>0, <1>6 DEF CronUnsends, Unsent, NoRow
  <2> QED
    BY <1>3, <2>1 DEF RowsAreRanges
<1>7. ASSUME NEW w \in Worker, Claims(w) PROVE RowsAreRanges'
  <2> DEFINE i == worker[w].job
  <2>1. /\ job' = [job EXCEPT ![i].state = "running", ![i].live = TRUE]
        /\ job[i].state \notin {"absent", "complete"}
    BY <1>7 DEF Claims, Claimable
  <2>2. \A j \in Job : job'[j] = job[j] \/ (j = i /\ job'[j].end = job[j].end)
    BY <1>0, <2>1 DEF JobRow
  <2> QED
    BY <1>3, <2>1, <2>2 DEF RowsAreRanges
<1>8. ASSUME NEW w \in Worker, Fails(w) PROVE RowsAreRanges'
  <2> DEFINE i == worker[w].job
  <2>1. CASE ~Failable(i)
    BY <1>4, <1>8, <2>1 DEF Fails
  <2>2. CASE Failable(i)
    <3>1. /\ job' = [job EXCEPT ![i].state = "failed", ![i].live = FALSE]
          /\ job[i].state \notin {"absent", "complete"}
      BY <1>8, <2>2 DEF Fails, Failable
    <3>2. \A j \in Job : job'[j] = job[j] \/ (j = i /\ job'[j].end = job[j].end)
      BY <1>0, <3>1 DEF JobRow
    <3> QED
      BY <1>3, <3>1, <3>2 DEF RowsAreRanges
  <2> QED
    BY <2>1, <2>2
<1>9. ASSUME NEW w \in Worker, Commits(w) PROVE RowsAreRanges'
  <2> DEFINE i == worker[w].job
  <2>1. job[i].state # "absent"
    BY <1>9, CommitFacts DEF Commits
  <2>2. job' = [job EXCEPT ![i] = [state |-> "complete", end |-> worker[w].end,
                                  live |-> FALSE]]
    BY <1>9, <2>1 DEF Commits
  <2>3. \A j \in Job : job'[j] = job[j] \/ (j = i /\ job'[j].state = "complete")
    BY <1>0, <2>2
  <2> QED
    BY <1>3, <2>1, <2>3 DEF RowsAreRanges
<1>10. ASSUME NEW i \in Job, LeaseExpires(i) PROVE RowsAreRanges'
  <2>1. job[i].state # "complete"
    BY <1>10 DEF LeaseExpires, Inv, HandOverInv, CompleteRowsAreStored
  <2>2. job' = [job EXCEPT ![i].live = FALSE]
    BY <1>10 DEF LeaseExpires
  <2>3. \A j \in Job : job'[j] = job[j]
          \/ (j = i /\ job'[j].end = job[j].end /\ job'[j].state = job[j].state)
    BY <1>0, <2>2 DEF JobRow
  <2> QED
    BY <1>3, <2>1, <2>3 DEF RowsAreRanges
<1>11. \/ UNCHANGED job
       \/ \E c \in Cron : CronInserts(c) \/ CronUnsends(c)
       \/ \E w \in Worker : Claims(w) \/ Fails(w) \/ Commits(w)
       \/ \E i \in Job : LeaseExpires(i)
  BY DEF Next, CronStep, WorkerStep, Failure, vars, TreeGrows, CronReads, CronMeasures,
         CronCannotMeasure, CronBegins, CronSends, CronSendFails, CronDies, Loads,
         ClaimRefused, Reloads, Fetches, CommitConflicts, Notifies, WorkerThrows,
         WorkerDies
<1> QED
  BY <1>4, <1>5, <1>6, <1>7, <1>8, <1>9, <1>10, <1>11

LEMMA CompleteRowsStayStored ==
    ASSUME Inv, TypeOK', Persists, [Next]_vars
    PROVE  CompleteRowsAreStored'
<1>0. /\ job \in [Job -> JobRow] /\ source \in [Source -> SourceRow] /\ TypeOK
      /\ RowsAreRanges
  BY DEF Inv, TypeOK, HandOverInv
<1>1. \A j \in Job : job[j].state = "complete" => Stored(j)
  BY DEF Inv, HandOverInv, CompleteRowsAreStored, Stored
<1>2. \A j \in Job : job[j].state = "complete" => job'[j].state = "complete" /\ Stored(j)'
  BY <1>0, <1>1, StoredPersists
<1>3. SUFFICES ASSUME NEW j \in Job, job'[j].state = "complete"
               PROVE  Stored(j)'
  BY DEF CompleteRowsAreStored, Stored
<1>4. CASE job[j].state = "complete"
  BY <1>2, <1>4
<1>5. CASE job[j].state # "complete"
  <2>1. ASSUME NEW c \in Cron, CronInserts(c) \/ CronUnsends(c) PROVE FALSE
    BY <1>0, <1>3, <1>5, <2>1 DEF CronInserts, CronUnsends, Unsent, NoRow
  <2>2. ASSUME NEW w \in Worker, Claims(w) \/ Fails(w) PROVE FALSE
    BY <1>0, <1>3, <1>5, <2>2 DEF Claims, Fails, JobRow
  <2>3. ASSUME NEW i \in Job, LeaseExpires(i) PROVE FALSE
    BY <1>0, <1>3, <1>5, <2>3 DEF LeaseExpires, JobRow
  <2>4. PICK w \in Worker : Commits(w)
    BY <1>3, <1>5, <2>1, <2>2, <2>3
    DEF Next, CronStep, WorkerStep, Failure, vars, TreeGrows, CronReads, CronMeasures,
        CronCannotMeasure, CronBegins, CronSends, CronSendFails, CronDies, Loads,
        ClaimRefused, Reloads, Fetches, CommitConflicts, Notifies, WorkerThrows,
        WorkerDies
  <2>5. PICK i \in Job, end \in Index : i = worker[w].job /\ end = worker[w].end
    BY <2>4, CommitFacts DEF Commits
  <2>6. /\ i.source \in Source /\ end \in Ends(i, i.end) /\ <<i, end>> \in objects
        /\ HandedOver(i) /\ IsRange(i) /\ job[i].state # "absent"
        /\ CursorAfter(i, end) \in Index
    BY <2>4, <2>5, CommitFacts DEF Commits
  <2>7. job' = [job EXCEPT ![i] = [state |-> "complete", end |-> end, live |-> FALSE]]
    BY <2>4, <2>5, <2>6 DEF Commits
  <2>8. i = j
    BY <1>0, <1>3, <1>5, <2>7
  <2>9. ~job'[i].live /\ job'[i].end = end
    BY <1>0, <2>7
  <2>10. source' = [source EXCEPT ![i.source].next =
                      IF @ < CursorAfter(i, end) THEN CursorAfter(i, end) ELSE @]
    BY <2>4, <2>5 DEF Commits
  <2>11. source'[i.source].next > end
    <3>1. source[i.source].next \in Int /\ end \in Int
      BY <1>0, <2>6, DirectCtAssumption DEF SourceRow, Index
    <3>2. \/ source'[i.source].next = source[i.source].next
             /\ ~(source[i.source].next < end + 1)
          \/ source'[i.source].next = end + 1
      BY <1>0, <2>6, <2>10 DEF SourceRow, CursorAfter
    <3> QED
      BY <3>1, <3>2
  <2>12. HandedOver(i)'
    BY <2>6, HandedOverPersists
  <2>13. Ends(i, i.end)' = Ends(i, i.end) /\ <<i, end>> \in objects'
    BY <2>6 DEF Ends, Answers, Persists
  <2> QED
    BY <2>6, <2>8, <2>9, <2>11, <2>12, <2>13 DEF Stored
<1> QED
  BY <1>4, <1>5

LEMMA SchedulesStayBehind ==
    ASSUME OneInitialises, Inv, TypeOK', Persists, [Next]_vars
    PROVE  SchedulesAreBehind'
<1> DEFINE Alone(c) == cron[c].pc = "measure" /\ ~cron[c].initialised =>
              \A d \in Cron \ {c} :
                 cron[d].pc = "measure" => cron[d].source # cron[c].source
<1>0. cron \in [Cron -> CronJob] /\ source \in [Source -> SourceRow] /\ TypeOK
  BY DEF Inv, TypeOK
<1>1. \A c \in Cron : ScheduleOK(cron[c]) /\ Alone(c)
  BY DEF Inv, HandOverInv, SchedulesAreBehind, ScheduleOK
<1>2. SUFFICES \A c \in Cron : ScheduleOK(cron[c])' /\ Alone(c)'
  BY DEF SchedulesAreBehind, ScheduleOK
<1>3. \A s \in Source : source[s].next \in Int /\ source'[s].next \in Int
  BY DirectCtAssumption DEF Inv, TypeOK, SourceRow, Index
\* A schedule stays behind while its log goes on to have a cursor or none.
<1>4. ASSUME NEW d \in CronJob, ScheduleOK(d),
             d.pc = "measure" =>
               (source'[d.source].initialised <=> source[d.source].initialised)
      PROVE  ScheduleOK(d)'
  <2>1. CASE d.pc = "measure"
    <3>0. d.source \in Source /\ d.next \in Index
      BY <2>1, ScheduleTypes
    <3>1. d.source \in Source /\ d.next \in Int
      BY <3>0, DirectCtAssumption DEF Index
    <3>2. source[d.source].initialised => source[d.source].next <= source'[d.source].next
      BY <3>1 DEF Persists, SourcesPersist
    <3> QED
      BY <1>3, <1>4, <2>1, <3>1, <3>2 DEF ScheduleOK
  <2>2. CASE d.pc # "measure"
    <3>1. d.pc \in {"insert", "send", "unsend"} => d.job \in Job
      BY ScheduleTypes
    <3> QED
      BY <1>0, <1>4, <2>2, <3>1, RangePersists DEF ScheduleOK
  <2> QED
    BY <2>1, <2>2
\* A step of one schedule, after which it waits for no answer of a log.
<1>5. ASSUME NEW c \in Cron, NEW x \in CronJob, cron' = [cron EXCEPT ![c] = x],
             ScheduleOK(x)', x.pc # "measure",
             \A d \in Cron \ {c} : cron[d].pc = "measure" =>
               (source'[cron[d].source].initialised <=> source[cron[d].source].initialised)
      PROVE  \A d \in Cron : ScheduleOK(cron[d])' /\ Alone(d)'
  <2>1. cron'[c] = x /\ \A d \in Cron \ {c} : cron'[d] = cron[d] /\ cron[d] \in CronJob
    BY <1>0, <1>5
  <2>2. \A d \in Cron : Alone(d)'
    BY <1>1, <1>5, <2>1
  <2>3. ASSUME NEW d \in Cron \ {c} PROVE ScheduleOK(cron[d])'
    <3>1. PICK e \in CronJob : e = cron[d]
      BY <2>1
    <3>2. ScheduleOK(e)'
      BY <1>1, <1>4, <1>5, <3>1
    <3> QED
      BY <2>1, <3>1, <3>2 DEF ScheduleOK
  <2>4. ScheduleOK(cron[c])'
    BY <1>5, <2>1 DEF ScheduleOK
  <2> QED
    BY <2>2, <2>3, <2>4
<1>6. CASE UNCHANGED cron /\ \A s \in Source : source'[s].initialised <=> source[s].initialised
  <2>1. ASSUME NEW c \in Cron PROVE ScheduleOK(cron[c])' /\ Alone(c)'
    <3>1. PICK d \in CronJob : d = cron[c] /\ d = cron'[c]
      BY <1>0, <1>6
    <3>2. d.pc = "measure" => d.source \in Source
      BY <3>1, ScheduleTypes
    <3>3. ScheduleOK(d)'
      BY <1>1, <1>4, <1>6, <3>1, <3>2
    <3> QED
      BY <1>1, <1>6, <3>1, <3>3 DEF ScheduleOK
  <2> QED
    BY <2>1
<1>7. ASSUME NEW c \in Cron, NEW s \in Source, CronReads(c, s)
      PROVE  \A d \in Cron : ScheduleOK(cron[d])' /\ Alone(d)'
  <2> DEFINE x == [pc |-> "measure", source |-> s, next |-> source[s].next,
                   initialised |-> source[s].initialised]
  <2>1. cron'[c] = x /\ \A d \in Cron \ {c} : cron'[d] = cron[d] /\ cron[d] \in CronJob
    BY <1>0, <1>7 DEF CronReads, CronGoes
  <2>2. UNCHANGED source
    BY <1>7 DEF CronReads
  <2>3. ~source[s].initialised =>
          \A d \in Cron : cron[d].pc = "measure" => cron[d].source # s
    BY <1>7 DEF CronReads
  <2>4. \A d \in Cron \ {c} : cron[d].pc = "measure" =>
          (source[cron[d].source].initialised <=> cron[d].initialised)
    BY <1>1 DEF ScheduleOK
  <2>5. \A d \in Cron : Alone(d)'
    BY <1>1, <2>1, <2>2, <2>3, <2>4
  <2>6. ASSUME NEW d \in Cron \ {c} PROVE ScheduleOK(cron[d])'
    <3>1. PICK e \in CronJob : e = cron[d]
      BY <2>1
    <3>2. ScheduleOK(e)'
      BY <1>1, <1>4, <2>2, <3>1
    <3> QED
      BY <2>1, <3>1, <3>2 DEF ScheduleOK
  <2>7. ScheduleOK(cron[c])'
    BY <1>3, <2>1, <2>2 DEF ScheduleOK
  <2> QED
    BY <2>5, <2>6, <2>7
\* The job a schedule cuts begins where the cursor was or before.
<1>8. ASSUME NEW s \in Source, NEW start \in Index, NEW x \in CronJob,
             x = FromStart(s, start), source'[s].initialised, start <= source'[s].next
      PROVE  ScheduleOK(x)' /\ x.pc # "measure"
  <2>0. tree[s] \in Int /\ start \in Int
    BY <1>0, DirectCtAssumption DEF TypeOK, Index
  <2>1. CASE start >= tree[s]
    BY <1>8, <2>1 DEF FromStart, Idle, ScheduleOK
  <2>2. CASE start < tree[s]
    <3>1. PICK j \in Job :
            /\ j = [source |-> s, start |-> start, end |-> EndOf(s, start)]
            /\ start <= EndOf(s, start) /\ EndOf(s, start) < Horizon
            /\ Ends(j, EndOf(s, start)) # {}
      BY <1>0, <2>2, ScheduledRange
    <3>2. x = [pc |-> "insert", job |-> j]
      BY <1>8, <2>0, <2>2, <3>1 DEF FromStart
    <3>3. j.source = s /\ j.start = start /\ j.start <= j.end /\ j.end < Horizon
      BY <3>1
    <3>4. Ends(j, j.end)' = Ends(j, j.end) /\ Ends(j, j.end) # {}
      BY <3>1 DEF Ends, Answers
    <3>5. IsRange(j)'
      BY <1>8, <3>3, <3>4 DEF IsRange
    <3> QED
      BY <3>2, <3>5 DEF ScheduleOK
  <2> QED
    BY <2>0, <2>1, <2>2
<1>9. ASSUME NEW c \in Cron, CronMeasures(c)
      PROVE  \A d \in Cron : ScheduleOK(cron[d])' /\ Alone(d)'
  <2>1. /\ cron[c].source \in Source /\ cron[c].next \in Index
        /\ source[cron[c].source].initialised
        /\ cron[c].next <= source[cron[c].source].next
    <3>1. cron[c] \in CronJob
      BY <1>0
    <3> QED
      BY <1>1, <1>9, <3>1, ScheduleTypes DEF CronMeasures, ScheduleOK
  <2>2. UNCHANGED source
    BY <1>9 DEF CronMeasures
  <2>3. PICK x \in CronJob : x = FromStart(cron[c].source, cron[c].next)
    BY <1>0, <2>1, FromStartTyped
  <2>4. ScheduleOK(x)' /\ x.pc # "measure"
    BY <1>8, <2>1, <2>2, <2>3
  <2>5. cron' = [cron EXCEPT ![c] = x]
    BY <1>9, <2>3 DEF CronMeasures, CronGoes
  <2> QED
    BY <1>5, <2>2, <2>4, <2>5
<1>10. ASSUME NEW c \in Cron, CronBegins(c)
       PROVE  \A d \in Cron : ScheduleOK(cron[d])' /\ Alone(d)'
  <2>1. PICK s \in Source : s = cron[c].source
    BY <1>0, <1>10, ScheduleTypes DEF CronBegins
  <2>2. PICK start \in Index : start = AtLeast0(tree[s] - InitialBackfill)
    BY <1>0, StartTyped
  <2>3. cron[c].pc = "measure" /\ ~cron[c].initialised /\ ~source[s].initialised
    BY <1>1, <1>10, <2>1 DEF CronBegins, ScheduleOK
  <2>4. source' = [source EXCEPT ![s] = [next |-> start, initialised |-> TRUE]]
    BY <1>10, <2>1, <2>2, <2>3 DEF CronBegins
  <2>5. source'[s].initialised /\ source'[s].next = start
    BY <1>0, <2>4
  <2>6. PICK x \in CronJob : x = FromStart(s, start)
    BY <1>0, FromStartTyped
  <2>7. start <= source'[s].next
    BY <2>5, DirectCtAssumption DEF Index
  <2>8. ScheduleOK(x)' /\ x.pc # "measure"
    BY <1>8, <2>5, <2>6, <2>7
  <2>9. cron' = [cron EXCEPT ![c] = x]
    BY <1>10, <2>1, <2>2, <2>6 DEF CronBegins, CronGoes
  <2>10. ASSUME NEW d \in Cron \ {c}, cron[d].pc = "measure"
         PROVE  source'[cron[d].source] = source[cron[d].source]
    <3>1. cron[d].source # s
      BY <1>1, <2>1, <2>3, <2>10
    <3>2. cron[d].source \in Source
      BY <1>0, <2>10, ScheduleTypes
    <3> QED
      BY <1>0, <2>4, <3>1, <3>2
  <2> QED
    BY <1>5, <2>8, <2>9, <2>10
<1>11. ASSUME NEW c \in Cron,
              \/ CronCannotMeasure(c) \/ CronInserts(c) \/ CronSends(c)
              \/ CronSendFails(c) \/ CronUnsends(c) \/ CronDies(c)
       PROVE  \A d \in Cron : ScheduleOK(cron[d])' /\ Alone(d)'
  <2>0. UNCHANGED source /\ cron[c] \in CronJob
    BY <1>0, <1>11 DEF CronCannotMeasure, CronInserts, CronSends, CronSendFails,
                       CronUnsends, CronDies
  <2>1. Idle \in CronJob /\ ScheduleOK(Idle)' /\ Idle.pc # "measure"
    BY ScheduleIsTyped DEF Idle, ScheduleOK
  <2>2. CASE cron' = [cron EXCEPT ![c] = Idle]
    BY <1>5, <2>0, <2>1, <2>2
  <2>3. ASSUME NEW pc \in {"send", "unsend"}, cron[c].pc \in {"insert", "send"},
               cron' = [cron EXCEPT ![c] = [pc |-> pc, job |-> cron[c].job]]
        PROVE  \A d \in Cron : ScheduleOK(cron[d])' /\ Alone(d)'
    <3>1. PICK j \in Job : j = cron[c].job /\ IsRange(j)
      BY <1>1, <2>0, <2>3, ScheduleTypes DEF ScheduleOK
    <3>2. PICK x \in CronJob : x = [pc |-> pc, job |-> j]
      BY ScheduleIsTyped
    <3>3. IsRange(j)'
      BY <1>0, <3>1, RangePersists
    <3>4. ScheduleOK(x)' /\ x.pc # "measure"
      BY <3>2, <3>3 DEF ScheduleOK
    <3> QED
      BY <1>5, <2>0, <2>3, <3>1, <3>2, <3>4
  <2>4. \/ cron' = [cron EXCEPT ![c] = Idle]
        \/ /\ cron[c].pc \in {"insert", "send"}
           /\ \E pc \in {"send", "unsend"} :
                cron' = [cron EXCEPT ![c] = [pc |-> pc, job |-> cron[c].job]]
    <3>1. CASE CronSendFails(c)
      BY <2>0, <3>1, ScheduleTypes DEF CronSendFails, CronGoes
    <3>2. CASE ~CronSendFails(c)
      BY <1>11, <3>2 DEF CronCannotMeasure, CronInserts, CronSends, CronUnsends, CronDies,
                         CronGoes
    <3> QED
      BY <3>1, <3>2
  <2> QED
    BY <2>2, <2>3, <2>4
<1>12. ASSUME NEW w \in Worker, Commits(w)
       PROVE  UNCHANGED cron
              /\ \A s \in Source : source'[s].initialised <=> source[s].initialised
  BY <1>0, <1>12 DEF Commits, SourceRow
<1>13. \/ UNCHANGED <<cron, source>>
       \/ \E w \in Worker : Commits(w)
       \/ \E c \in Cron : CronStep(c) \/ CronDies(c)
  BY DEF Next, WorkerStep, Failure, vars, TreeGrows, Loads, Claims, ClaimRefused,
         Reloads, Fetches, CommitConflicts, Notifies, Fails, LeaseExpires, WorkerThrows,
         WorkerDies
<1> QED
  BY <1>6, <1>7, <1>9, <1>10, <1>11, <1>12, <1>13 DEF CronStep

LEMMA DeliveriesKeepTheirMessage ==
    ASSUME Inv, TypeOK', Persists, [Next]_vars
    PROVE  DeliveriesHaveTheirMessage'
<1>0. /\ worker \in [Worker -> WorkerJob] /\ job \in [Job -> JobRow] /\ TypeOK
      /\ jobMessages \subseteq Job
  BY DEF Inv, TypeOK
<1>1. \A w \in Worker : DeliveryOK(worker[w])
  BY DEF Inv, HandOverInv, DeliveriesHaveTheirMessage, DeliveryOK
<1>2. SUFFICES \A w \in Worker : DeliveryOK(worker[w])'
  BY DEF DeliveriesHaveTheirMessage, DeliveryOK
<1>3. \A d \in WorkerJob : DeliveryOK(d) => DeliveryOK(d)'
  BY DeliveryPersists
<1>4. ASSUME NEW w \in Worker, worker'[w] = worker[w] PROVE DeliveryOK(worker[w])'
  <2>1. PICK d \in WorkerJob : d = worker[w] /\ d = worker'[w]
    BY <1>0, <1>4
  <2>2. DeliveryOK(d)'
    BY <1>1, <1>3, <2>1
  <2> QED
    BY <2>1, <2>2 DEF DeliveryOK
<1>5. CASE UNCHANGED worker
  BY <1>4, <1>5
\* A step of one delivery.
<1>6. ASSUME NEW w \in Worker, NEW x, worker' = [worker EXCEPT ![w] = x],
             DeliveryOK(x)'
      PROVE  \A v \in Worker : DeliveryOK(worker[v])'
  <2>1. DeliveryOK(worker[w])'
    BY <1>0, <1>6 DEF DeliveryOK
  <2>2. \A v \in Worker \ {w} : worker'[v] = worker[v]
    BY <1>0, <1>6
  <2> QED
    BY <1>4, <2>1, <2>2
<1>7. DeliveryOK(Idle)'
  BY DEF DeliveryOK, Idle
<1>8. ASSUME NEW j \in Job, HandedOver(j)
      PROVE  /\ HandedOver(j)'
             /\ DeliveryOK([pc |-> "fail", job |-> j])'
  <2>1. HandedOver(j)'
    BY <1>8, HandedOverPersists
  <2> QED
    BY <2>1 DEF DeliveryOK, At
\* What loading a row leads to.
<1>9. ASSUME NEW j \in Job, HandedOver(j), UNCHANGED job, NEW d, DeliveryOK(d)',
             NEW x, x = AfterLoading(j, d)
      PROVE  DeliveryOK(x)'
  <2>1. CASE job[j].state = "absent"
    BY <1>8, <1>9, <2>1 DEF AfterLoading
  <2>2. CASE job[j].state = "complete"
    <3>1. PICK e : e = job[j].end /\ e = job'[j].end
      BY <1>9
    <3>2. x = At("notify", j, e)
      BY <1>9, <2>2, <3>1 DEF AfterLoading, StoredEnd
    <3>3. HandedOver(j)'
      BY <1>8, <1>9
    <3> QED
      BY <1>9, <2>2, <3>1, <3>2, <3>3 DEF DeliveryOK, At
  <2>3. CASE job[j].state \notin {"absent", "complete"}
    BY <1>9, <2>3 DEF AfterLoading
  <2> QED
    BY <2>1, <2>2, <2>3
<1>10. ASSUME NEW w \in Worker, NEW j \in jobMessages, Loads(w, j)
       PROVE  \A v \in Worker : DeliveryOK(worker[v])'
  <2>1. UNCHANGED job /\ j \in Job /\ HandedOver(j)
    BY <1>0, <1>10 DEF Loads, HandedOver
  <2>2. PICK e : e = job[j].end
    OBVIOUS
  <2>3. PICK x : x = AfterLoading(j, At("claim", j, e))
    OBVIOUS
  <2>4. worker' = [worker EXCEPT ![w] = x]
    BY <1>10, <2>2, <2>3 DEF Loads, WorkerGoes
  <2>5. DeliveryOK(x)'
    <3>1. CASE job[j].state \in {"absent", "complete"}
      <4>1. x = AfterLoading(j, Idle)
        BY <2>3, <3>1 DEF AfterLoading
      <4> QED
        BY <1>7, <1>9, <2>1, <4>1
    <3>2. CASE job[j].state \notin {"absent", "complete"}
      <4>1. e = j.end
        BY <2>1, <2>2, <3>2 DEF Inv, HandOverInv, RowsAreRanges
      <4>2. DeliveryOK(At("claim", j, e))'
        BY <1>8, <2>1, <4>1 DEF DeliveryOK, At
      <4> QED
        BY <1>9, <2>1, <2>3, <4>2
    <3> QED
      BY <3>1, <3>2
  <2> QED
    BY <1>6, <2>4, <2>5
<1>11. ASSUME NEW w \in Worker, worker[w].pc # "idle"
       PROVE  /\ worker[w] \in WorkerJob /\ worker[w].job \in Job
              /\ HandedOver(worker[w].job)
  <2>1. worker[w] \in WorkerJob
    BY <1>0
  <2> QED
    BY <1>1, <1>11, <2>1, DeliveryTypes DEF DeliveryOK
<1>12. ASSUME NEW w \in Worker, Claims(w)
       PROVE  \A v \in Worker : DeliveryOK(worker[v])'
  <2>1. PICK j \in Job : j = worker[w].job /\ HandedOver(j)
    BY <1>11, <1>12 DEF Claims
  <2>2. job' = [job EXCEPT ![j].state = "running", ![j].live = TRUE]
    BY <1>12, <2>1 DEF Claims
  <2>3. job'[j].state = "running"
    BY <1>0, <2>2 DEF JobRow
  <2>4. worker[w].end = j.end
    BY <1>1, <1>12, <2>1 DEF Claims, DeliveryOK
  <2>5. [worker[w] EXCEPT !.pc = "fetch"] = At("fetch", j, j.end)
    <3>1. worker[w].pc = "claim"
      BY <1>12 DEF Claims
    <3>2. [worker[w] EXCEPT !.pc = "fetch"] = At("fetch", worker[w].job, worker[w].end)
      BY <1>11, <3>1, GoesOn
    <3> QED
      BY <2>1, <2>4, <3>2
  <2>6. DeliveryOK(At("fetch", j, j.end))'
    BY <1>8, <2>1, <2>3 DEF DeliveryOK, At
  <2>7. worker' = [worker EXCEPT ![w] = At("fetch", j, j.end)]
    BY <1>12, <2>5 DEF Claims, WorkerGoes
  <2> QED
    BY <1>6, <2>6, <2>7
<1>13. ASSUME NEW w \in Worker, ClaimRefused(w)
       PROVE  \A v \in Worker : DeliveryOK(worker[v])'
  <2>1. PICK j \in Job : j = worker[w].job /\ HandedOver(j)
    BY <1>11, <1>13 DEF ClaimRefused
  <2>2. PICK e : e = worker[w].end
    OBVIOUS
  <2>3. [worker[w] EXCEPT !.pc = "reload"] = At("reload", j, e)
    BY <1>11, <1>13, <2>1, <2>2, GoesOn DEF ClaimRefused
  <2>4. DeliveryOK(At("reload", j, e))'
    BY <1>8, <2>1 DEF DeliveryOK, At
  <2>5. worker' = [worker EXCEPT ![w] = At("reload", j, e)]
    BY <1>13, <2>3 DEF ClaimRefused, WorkerGoes
  <2> QED
    BY <1>6, <2>4, <2>5
<1>14. ASSUME NEW w \in Worker, Reloads(w)
       PROVE  \A v \in Worker : DeliveryOK(worker[v])'
  <2>1. PICK j \in Job : j = worker[w].job /\ HandedOver(j)
    BY <1>11, <1>14 DEF Reloads
  <2>2. PICK d : d = [pc |-> "fail", job |-> j]
    OBVIOUS
  <2>3. DeliveryOK(d)' /\ UNCHANGED job
    BY <1>8, <1>14, <2>1, <2>2 DEF Reloads
  <2>4. PICK x : x = AfterLoading(j, d)
    OBVIOUS
  <2>5. DeliveryOK(x)'
    BY <1>9, <2>1, <2>3, <2>4
  <2>6. worker' = [worker EXCEPT ![w] = x]
    BY <1>14, <2>1, <2>2, <2>4 DEF Reloads, WorkerGoes
  <2> QED
    BY <1>6, <2>5, <2>6
<1>15. ASSUME NEW w \in Worker, Fetches(w)
       PROVE  \A v \in Worker : DeliveryOK(worker[v])'
  <2>1. PICK j \in Job : j = worker[w].job /\ HandedOver(j)
    BY <1>11, <1>15 DEF Fetches
  <2>2. PICK end \in Ends(j, worker[w].end) :
          /\ objects' = objects \cup {<<j, end>>}
          /\ WorkerGoes(w, At("commit", j, end))
    BY <1>15, <2>1 DEF Fetches
  <2>3. /\ worker[w].end = j.end
        /\ job[j].state \in {"running", "failed", "complete"} /\ UNCHANGED job
    BY <1>1, <1>15, <2>1 DEF Fetches, DeliveryOK
  <2>4. end \in Ends(j, j.end)'
    BY <2>2, <2>3 DEF Ends, Answers
  <2>5. DeliveryOK(At("commit", j, end))'
    BY <1>8, <2>1, <2>2, <2>3, <2>4 DEF DeliveryOK, At
  <2> QED
    BY <1>6, <2>2, <2>5 DEF WorkerGoes
<1>16. ASSUME NEW w \in Worker, Commits(w)
       PROVE  \A v \in Worker : DeliveryOK(worker[v])'
  <2>1. PICK j \in Job : j = worker[w].job /\ HandedOver(j)
    BY <1>11, <1>16 DEF Commits
  <2>2. PICK e : e = worker[w].end
    OBVIOUS
  <2>3. [worker[w] EXCEPT !.pc = "notify"] = At("notify", j, e)
    BY <1>11, <1>16, <2>1, <2>2, GoesOn DEF Commits
  <2>4. job[j].state # "absent"
    BY <1>16, <2>1, CommitFacts DEF Commits
  <2>5. job' = [job EXCEPT ![j] = [state |-> "complete", end |-> e, live |-> FALSE]]
    BY <1>16, <2>1, <2>2, <2>4 DEF Commits
  <2>6. job'[j].state = "complete" /\ job'[j].end = e
    BY <1>0, <2>5
  <2>7. DeliveryOK(At("notify", j, e))'
    BY <1>8, <2>1, <2>6 DEF DeliveryOK, At
  <2>8. worker' = [worker EXCEPT ![w] = At("notify", j, e)]
    BY <1>16, <2>3 DEF Commits, WorkerGoes
  <2> QED
    BY <1>6, <2>7, <2>8
<1>17. ASSUME NEW w \in Worker, CommitConflicts(w) \/ WorkerThrows(w)
       PROVE  \A v \in Worker : DeliveryOK(worker[v])'
  <2>1. PICK j \in Job : j = worker[w].job /\ HandedOver(j)
    BY <1>11, <1>17 DEF CommitConflicts, WorkerThrows
  <2>2. worker' = [worker EXCEPT ![w] = [pc |-> "fail", job |-> j]]
    BY <1>17, <2>1 DEF CommitConflicts, WorkerThrows, WorkerGoes
  <2> QED
    BY <1>6, <1>8, <2>1, <2>2
<1>18. ASSUME NEW w \in Worker, Notifies(w) \/ Fails(w) \/ WorkerDies(w)
       PROVE  \A v \in Worker : DeliveryOK(worker[v])'
  <2>1. worker' = [worker EXCEPT ![w] = Idle]
    BY <1>18 DEF Notifies, Fails, WorkerDies, WorkerGoes
  <2> QED
    BY <1>6, <1>7, <2>1
<1>19. \/ UNCHANGED worker
       \/ \E w \in Worker : WorkerStep(w) \/ WorkerThrows(w) \/ WorkerDies(w)
  BY DEF Next, CronStep, Failure, vars, TreeGrows, CronReads, CronMeasures,
         CronCannotMeasure, CronBegins, CronInserts, CronSends, CronSendFails,
         CronUnsends, CronDies, LeaseExpires
<1> QED
  BY <1>5, <1>10, <1>12, <1>13, <1>14, <1>15, <1>16, <1>17, <1>18, <1>19 DEF WorkerStep

LEMMA AnnouncedStayComplete ==
    ASSUME Inv, TypeOK', CompleteRowsAreStored', Persists, [Next]_vars
    PROVE  AnnouncedDeltasAreComplete'
<1>0. /\ \A j \in Job : job[j].state = "complete" => job'[j] = job[j]
      /\ \A j \in Job, end \in Index : <<j, end>> \in deltaMessages =>
           job[j].state = "complete" /\ job[j].end = end
  BY DEF Inv, HandOverInv, AnnouncedDeltasAreComplete, Persists, RowsPersist
<1>1. SUFFICES ASSUME NEW j \in Job, NEW end \in Index, <<j, end>> \in deltaMessages'
               PROVE  job'[j].state = "complete" /\ job'[j].end = end
  BY DEF AnnouncedDeltasAreComplete, CompleteRowsAreStored
<1>2. CASE <<j, end>> \in deltaMessages
  BY <1>0, <1>2
<1>3. CASE <<j, end>> \notin deltaMessages
  <2>1. PICK w \in Worker : Notifies(w)
    BY <1>1, <1>3
    DEF Next, CronStep, WorkerStep, Failure, vars, TreeGrows, CronReads, CronMeasures,
        CronCannotMeasure, CronBegins, CronInserts, CronSends, CronSendFails, CronUnsends,
        CronDies, Loads, Claims, ClaimRefused, Reloads, Fetches, Commits, CommitConflicts,
        Fails, LeaseExpires, WorkerThrows, WorkerDies
  <2>2. worker[w].pc = "notify" /\ j = worker[w].job /\ end = worker[w].end
    BY <1>1, <1>3, <2>1 DEF Notifies
  <2>3. job[j].state = "complete" /\ job[j].end = end
    BY <2>2 DEF Inv, HandOverInv, DeliveriesHaveTheirMessage
  <2> QED
    BY <1>0, <2>3
<1> QED
  BY <1>2, <1>3

\* Entry i of the log s is in the delta of a complete job.
Held(s, i) ==
    \E j \in Job :
        /\ j.source = s
        /\ job[j].state = "complete"
        /\ i \in j.start..job[j].end
        /\ <<j, job[j].end>> \in objects
        /\ HandedOver(j)

LEMMA HeldPersists ==
    ASSUME Persists, NEW s, NEW i, Held(s, i)
    PROVE  Held(s, i)'
<1>1. PICK j \in Job :
        /\ j.source = s
        /\ job[j].state = "complete"
        /\ i \in j.start..job[j].end
        /\ <<j, job[j].end>> \in objects
        /\ HandedOver(j)
  BY DEF Held
<1>2. job'[j] = job[j] /\ <<j, job[j].end>> \in objects'
  BY <1>1 DEF Persists, RowsPersist
<1>3. HandedOver(j)'
  BY <1>1, HandedOverPersists
<1> QED
  BY <1>1, <1>2, <1>3 DEF Held

LEMMA EntriesStayHandedOver ==
    ASSUME Inv, TypeOK', CompleteRowsAreStored', Persists, [Next]_vars
    PROVE  EveryEntryIsHandedOver'
<1>0. /\ source \in [Source -> SourceRow] /\ origin \in [Source -> Index]
      /\ cron \in [Cron -> CronJob] /\ job \in [Job -> JobRow] /\ TypeOK
  BY DEF Inv, TypeOK
<1>1. \A s \in Source : \A i \in origin[s]..(source[s].next - 1) : Held(s, i)
  BY DEF Inv, HandOverInv, EveryEntryIsHandedOver, Held
<1>2. SUFFICES ASSUME NEW s \in Source
               PROVE  \A i \in origin'[s]..(source'[s].next - 1) : Held(s, i)'
  BY DEF EveryEntryIsHandedOver, Held
<1>3. CASE origin'[s] = origin[s] /\ source'[s].next = source[s].next
  BY <1>1, <1>3, HeldPersists
<1>4. ASSUME NEW c \in Cron, CronBegins(c)
      PROVE  \/ origin'[s] = origin[s] /\ source'[s].next = source[s].next
             \/ origin'[s] = source'[s].next /\ source'[s].next \in Int
  <2> DEFINE start == AtLeast0(tree[cron[c].source] - InitialBackfill)
  <2>1. cron[c].source \in Source
    BY <1>0, <1>4, ScheduleTypes DEF CronBegins
  <2>2. start \in Int
    BY <1>0, <2>1, StartTyped, DirectCtAssumption DEF Index
  <2> HIDE DEF start
  <2>3. \/ UNCHANGED <<source, origin>>
        \/ /\ source' = [source EXCEPT ![cron[c].source] =
                           [next |-> start, initialised |-> TRUE]]
           /\ origin' = [origin EXCEPT ![cron[c].source] = start]
    BY <1>4 DEF CronBegins, start
  <2> QED
    BY <1>0, <2>1, <2>2, <2>3
<1>5. ASSUME NEW w \in Worker, Commits(w)
      PROVE  \A i \in origin'[s]..(source'[s].next - 1) : Held(s, i)'
  <2>1. PICK j \in Job, end \in Index :
          /\ j = worker[w].job /\ end = worker[w].end /\ j.source \in Source
          /\ job[j].state # "absent" /\ IsRange(j) /\ CursorAfter(j, end) \in Index
    BY <1>5, CommitFacts DEF Commits
  <2>2. /\ origin' = origin
        /\ job' = [job EXCEPT ![j] = [state |-> "complete", end |-> end, live |-> FALSE]]
        /\ source' = [source EXCEPT ![j.source].next =
                        IF @ < CursorAfter(j, end) THEN CursorAfter(j, end) ELSE @]
    BY <1>5, <2>1 DEF Commits
  <2>3. \/ source'[s].next = source[s].next
        \/ s = j.source /\ source'[s].next = end + 1
    BY <1>0, <2>1, <2>2 DEF SourceRow, CursorAfter
  <2>4. CASE source'[s].next = source[s].next
    BY <1>3, <2>2, <2>4
  <2>5. CASE s = j.source /\ source'[s].next = end + 1
    <3>1. /\ source[s].next \in Int /\ end \in Int /\ j.start \in Int
          /\ j.start <= source[s].next /\ origin[s] \in Int
      BY <1>0, <2>1, <2>5, DirectCtAssumption DEF SourceRow, Index, Job, IsRange
    <3>2. job'[j].state = "complete" /\ job'[j].end = end
      BY <1>0, <2>2
    <3>3. <<j, job'[j].end>> \in objects' /\ HandedOver(j)'
      BY <3>2 DEF CompleteRowsAreStored
    <3>4. ASSUME NEW i \in origin'[s]..(source'[s].next - 1) PROVE Held(s, i)'
      <4>1. i \in Int /\ origin[s] <= i /\ i <= end
        BY <2>2, <2>5, <3>1, <3>4
      <4>2. CASE i < source[s].next
        BY <1>1, <3>1, <4>1, <4>2, HeldPersists
      <4>3. CASE i >= source[s].next
        <5>1. i \in j.start..job'[j].end
          BY <3>1, <3>2, <4>1, <4>3
        <5> QED
          BY <2>5, <3>2, <3>3, <5>1 DEF Held
      <4> QED
        BY <3>1, <4>1, <4>2, <4>3
    <3> QED
      BY <3>4
  <2> QED
    BY <2>3, <2>4, <2>5
<1>6. \/ UNCHANGED <<source, origin>>
      \/ \E c \in Cron : CronBegins(c)
      \/ \E w \in Worker : Commits(w)
  BY DEF Next, CronStep, WorkerStep, Failure, vars, TreeGrows, CronReads, CronMeasures,
         CronCannotMeasure, CronInserts, CronSends, CronSendFails, CronUnsends, CronDies,
         Loads, Claims, ClaimRefused, Reloads, Fetches, CommitConflicts, Notifies, Fails,
         LeaseExpires, WorkerThrows, WorkerDies
<1> QED
  BY <1>3, <1>4, <1>5, <1>6
-----------------------------------------------------------------------------
(* The theorems *)

LEMMA InitInv == Init => Inv
<1> SUFFICES ASSUME Init PROVE Inv
  OBVIOUS
<1>1. NoRow \in JobRow /\ 0 \in Index
  BY DirectCtAssumption DEF NoRow, JobRow, Index
<1>2. TypeOK
  BY <1>1, ScheduleIsTyped, DeliveryIsTyped DEF Init, TypeOK, SourceRow
<1>3. RowsAreRanges /\ CompleteRowsAreStored
  BY DEF Init, NoRow, RowsAreRanges, CompleteRowsAreStored
<1>4. SchedulesAreBehind /\ DeliveriesHaveTheirMessage
  BY DEF Init, Idle, SchedulesAreBehind, DeliveriesHaveTheirMessage
<1>5. AnnouncedDeltasAreComplete /\ EveryEntryIsHandedOver
  BY DEF Init, AnnouncedDeltasAreComplete, EveryEntryIsHandedOver
<1> QED
  BY <1>2, <1>3, <1>4, <1>5 DEF Inv, HandOverInv

LEMMA InvNext ==
    ASSUME OneInitialises, SteadyLogs, Inv, [Next]_vars
    PROVE  Inv'
<1>1. TypeOK'
  BY TypeNext
<1>2. Persists
  BY StepPersists
<1>3. RowsAreRanges' /\ CompleteRowsAreStored'
  BY <1>1, <1>2, RowsStayRanges, CompleteRowsStayStored
<1>4. SchedulesAreBehind' /\ DeliveriesHaveTheirMessage'
  BY <1>1, <1>2, SchedulesStayBehind, DeliveriesKeepTheirMessage
<1>5. AnnouncedDeltasAreComplete' /\ EveryEntryIsHandedOver'
  BY <1>1, <1>2, <1>3, AnnouncedStayComplete, EntriesStayHandedOver
<1> QED
  BY <1>1, <1>3, <1>4, <1>5 DEF Inv, HandOverInv

\* The inductive invariant: schedules and deliveries may rely on what they read
\* before (cloudflare/ingest-worker/src/index.js scheduleDirectCt,
\* processDirectCtJob).
THEOREM Invariance ==
    ASSUME OneInitialises, SteadyLogs
    PROVE  Spec => [](TypeOK /\ HandOverInv)
<1>1. Init => Inv
  BY InitInv
<1>2. Inv /\ [Next]_vars => Inv'
  BY InvNext
<1> QED
  BY <1>1, <1>2, PTL DEF Spec, Inv

\* No entry between where the cursor of a log began and where it is is skipped:
\* each is stored in a delta that the compaction Worker has or will have, for any
\* logs, schedules and deliveries (index.js scheduleDirectCt, processDirectCtJob).
THEOREM NoEntryIsSkipped ==
    ASSUME OneInitialises, SteadyLogs
    PROVE  Spec => []EveryEntryIsHandedOver
<1>1. TypeOK /\ HandOverInv => EveryEntryIsHandedOver
  BY DEF HandOverInv
<1> QED
  BY <1>1, Invariance, PTL

\* What is announced to the compaction Worker is the stored object of a complete
\* job, and never two objects for one delta (index.js notifyDelta).
THEOREM AnnouncementsAreComplete ==
    ASSUME OneInitialises, SteadyLogs
    PROVE  Spec => []AnnouncedDeltasAreComplete
<1>1. TypeOK /\ HandOverInv => AnnouncedDeltasAreComplete
  BY DEF HandOverInv
<1> QED
  BY <1>1, Invariance, PTL

\* Some answer of its log can fill every range that is left to be fetched, so that
\* none stops the ingestion of its log (index.js scheduleDirectCt; static-ct.js
\* staticRange).
THEOREM RangesCanBeFetched ==
    ASSUME OneInitialises, SteadyLogs
    PROVE  Spec => []EveryRangeCanBeFetched
<1>1. TypeOK /\ HandOverInv => EveryRangeCanBeFetched
  BY DEF HandOverInv, RowsAreRanges, IsRange, EveryRangeCanBeFetched
<1> QED
  BY <1>1, Invariance, PTL

\* No late delivery, failure or second commit changes a job that is complete
\* (index.js processDirectCtJob, failJob).
THEOREM CompleteJobsAreFinal ==
    ASSUME OneInitialises, SteadyLogs
    PROVE  Spec => CompleteIsFinal
<1> DEFINE Final == \A j \in Job : job[j].state = "complete" => job'[j] = job[j]
<1>1. Inv /\ [Next]_vars => Final
  BY StepPersists DEF Persists, RowsPersist
<1>2. Inv /\ [Next]_vars => [Final]_vars
  BY <1>1
<1>3. Spec => []Inv
  BY Invariance, PTL DEF Inv
<1> QED
  BY <1>2, <1>3, PTL DEF Spec, CompleteIsFinal
=============================================================================
