------------------------------- MODULE UrlScan -------------------------------
(***************************************************************************)
(* The URLScan Worker (cloudflare/urlscan-worker): it reads the passive    *)
(* history of an apex from urlscan.io, one page for a job.  The schedule   *)
(* creates the jobs of recurring apexes, requests of the read Worker those *)
(* of users; queue deliveries charge a job to the quota of the day, read   *)
(* its page, store it as a delta, move the cursor of the apex and announce *)
(* the delta to the compaction Worker.                                     *)
(*                                                                         *)
(* Schedules (Cron, one for each due apex an invocation looks at), admitted*)
(* requests (Client) and queue deliveries (Worker) are sequences of steps  *)
(* separated by an await.  A page is its position in the history of the    *)
(* apex: the cursor of page 0 is NULL.                                     *)
(***************************************************************************)
EXTENDS Integers, FiniteSets

CONSTANTS
    Apex,
    Recurring,       \* those with enabled = 1
    Request,         \* job_ids of enrichment jobs
    Target,          \* [Request -> Apex]
    LastPage,        \* bound on the history of an apex
    MaxDay,          \* bound on the days that pass
    DailyLimit,      \* env.URLSCAN_BREADTH_DAILY_LIMIT
    PriorityLimit,   \* env.URLSCAN_PRIORITY_DAILY_LIMIT
    LastAttempt,     \* from this attempt on, a failure is terminal (5)
    MaxDeliveries,   \* max_retries + 1 (6)
    Cron, Client, Worker,
    MaxFaults        \* bound on the calls that fail and the invocations that die

ASSUME UrlScanAssumption ==
    /\ IsFiniteSet(Apex) /\ Recurring \subseteq Apex
    /\ Target \in [Request -> Apex]
    /\ LastPage \in Nat /\ MaxDay \in Nat
    /\ DailyLimit \in Nat \ {0} /\ PriorityLimit \in Nat \ {0}
    /\ LastAttempt \in Nat \ {0}
    /\ MaxDeliveries \in Nat \ {0} /\ LastAttempt <= MaxDeliveries
    /\ MaxFaults \in Nat

Day == 0..MaxDay
Page == 0..LastPage

\* job_id is a hash of the apex and the day, or of the apex and the cursor.
Scheduled == [apex: Recurring, by: {"day"}, n: Day]
                 \cup [apex: Recurring, by: {"cursor"}, n: Page \ {0}]
Job == Scheduled \cup Request

ASSUME RequestsAreNotScheduled == Request \cap Scheduled = {}

ApexOf(j) == IF j \in Request THEN Target[j] ELSE j.apex

VARIABLES
    today,
    \* the control database
    source,         \* urlscan_sources
    job,            \* urlscan_jobs
    used,           \* provider_quota.used
    priorityUsed,   \* provider_quota.priority_used
    \* the object store: the page that follows, in the object of each job
    object,
    \* the queues
    messages,       \* <<j, n>>: the n-th delivery of a message for j is due
    announced,      \* the jobs a delta-ready message was sent for
    \* the invocations
    cron, client, worker,
    faults,         \* how many calls failed and how many invocations died
    orphaned        \* history: jobs that an invocation died on, or whose send
                    \* failed and left them in doubt

vars == <<today, source, job, used, priorityUsed, object, messages, announced,
          cron, client, worker, faults, orphaned>>
quota == <<used, priorityUsed>>
stored == <<object, announced>>
-----------------------------------------------------------------------------
Active == {"queued", "running"}
Ended == {"complete", "failed"}

Never == -1     \* the day of what has not happened
Missing == -1   \* the content of an object that is not there

\* due is the day of next_run_at.  An apex of a request alone has its row, with
\* enabled = 0, from its first admission on.
SourceRow == [cursor: Page, due: 0..(MaxDay + 1)]

\* live is FALSE when lease_expires_at is null or has passed; charged is the
\* quota_day of a job with quota_charged = 1; cursor is that of an enrichment job,
\* which its job_id does not tell.
JobRow == [state: {"absent"} \cup Active \cup Ended, cursor: Page,
           charged: Day \cup {Never}, live: BOOLEAN]

NoRow == [state |-> "absent", cursor |-> 0, charged |-> Never, live |-> FALSE]

Idle == [pc |-> "idle"]

CronJob == {Idle} \cup [pc: {"insert", "send", "unsend"}, job: Scheduled]

ClientJob == {Idle}
    \cup [pc: {"send"}, job: Request]
    \cup [pc: {"insert"}, job: Request, cursor: Page]
    \cup [pc: {"answer"}, job: Request, status: {202, 409, 503}]

\* paid is whether the row was charged when it was loaded.
WorkerJob == {Idle}
    \cup [pc: {"reload", "charge", "read", "notify"},
          job: Job, n: 1..MaxDeliveries]
    \cup [pc: {"claim"}, job: Job, n: 1..MaxDeliveries, paid: BOOLEAN]
    \cup [pc: {"mark"}, job: Job, n: 1..MaxDeliveries, day: Day]
    \cup [pc: {"commit"}, job: Job, n: 1..MaxDeliveries, next: Page]

TypeOK ==
    /\ today \in Day
    /\ source \in [Apex -> SourceRow]
    /\ job \in [Job -> JobRow]
    /\ used \in [Day -> Nat] /\ priorityUsed \in [Day -> Nat]
    /\ object \in [Job -> Page \cup {Missing}]
    /\ messages \subseteq Job \X (1..MaxDeliveries)
    /\ announced \subseteq Job
    /\ cron \in [Cron -> CronJob]
    /\ client \in [Client -> ClientJob]
    /\ worker \in [Worker -> WorkerJob]
    /\ faults \in 0..MaxFaults
    /\ orphaned \subseteq Job

Init ==
    /\ today = 0
    /\ source = [a \in Apex |-> [cursor |-> 0, due |-> 0]]
    /\ job = [j \in Job |-> NoRow]
    /\ used = [d \in Day |-> 0] /\ priorityUsed = [d \in Day |-> 0]
    /\ object = [j \in Job |-> Missing]
    /\ messages = {} /\ announced = {}
    /\ cron = [c \in Cron |-> Idle]
    /\ client = [c \in Client |-> Idle]
    /\ worker = [w \in Worker |-> Idle]
    /\ faults = 0
    /\ orphaned = {}

Fault == faults < MaxFaults /\ faults' = faults + 1

\* The partial unique index urlscan_one_active_apex.
ActiveOn(a) == {j \in Job : job[j].state \in Active /\ ApexOf(j) = a}

\* A new message.
Sends(j) == messages' = messages \cup {<<j, 1>>} /\ UNCHANGED <<faults, orphaned>>
\* A send that fails may have left its message all the same.
SendFails(j) ==
    /\ Fault
    /\ messages' \in {messages, messages \cup {<<j, 1>>}}
-----------------------------------------------------------------------------
(* scheduleUrlscan, for one of the apexes an invocation takes up *)

CronGoes(c, at) ==
    /\ cron' = [cron EXCEPT ![c] = at]
    /\ UNCHANGED <<today, source, quota, stored, client, worker>>

JobFor(a) ==
    IF source[a].cursor = 0 THEN [apex |-> a, by |-> "day", n |-> today]
    ELSE [apex |-> a, by |-> "cursor", n |-> source[a].cursor]

CronReads(c, a) ==
    /\ cron[c] = Idle
    /\ source[a].due <= today
    /\ ActiveOn(a) = {}
    /\ CronGoes(c, [pc |-> "insert", job |-> JobFor(a)])
    /\ UNCHANGED <<job, messages, faults, orphaned>>

\* The page a job is for.
CursorOf(j) ==
    IF j \in Request THEN job[j].cursor ELSE IF j.by = "day" THEN 0 ELSE j.n

Queued(cursor) == [NoRow EXCEPT !.state = "queued", !.cursor = cursor]

\* INSERT OR IGNORE: a job that is there, or another that is active on the apex,
\* leaves the schedule with nothing to send.
CronInserts(c) ==
    /\ cron[c].pc = "insert"
    /\ LET j == cron[c].job IN
       IF job[j].state = "absent" /\ ActiveOn(j.apex) = {}
       THEN /\ job' = [job EXCEPT ![j] = Queued(0)]
            /\ CronGoes(c, [cron[c] EXCEPT !.pc = "send"])
       ELSE /\ UNCHANGED job
            /\ CronGoes(c, Idle)
    /\ UNCHANGED <<messages, faults, orphaned>>

CronSends(c) ==
    /\ cron[c].pc = "send"
    /\ \/ Sends(cron[c].job) /\ CronGoes(c, Idle)
       \/ /\ SendFails(cron[c].job)
          /\ orphaned' = IF messages' = messages THEN orphaned ELSE orphaned \cup {cron[c].job}
          /\ CronGoes(c, [cron[c] EXCEPT !.pc = "unsend"])
    /\ UNCHANGED job

\* The row of a job that was not sent is deleted while it is queued.
CronUnsends(c) ==
    /\ cron[c].pc = "unsend"
    /\ job' = IF job[cron[c].job].state = "queued" THEN [job EXCEPT ![cron[c].job] = NoRow] ELSE job
    /\ CronGoes(c, Idle)
    /\ UNCHANGED <<messages, faults, orphaned>>
-----------------------------------------------------------------------------
(* admitEnrichment *)

ClientGoes(c, at) ==
    /\ client' = [client EXCEPT ![c] = at]
    /\ UNCHANGED <<today, source, quota, stored, cron, worker>>

Answer(j, status) == [pc |-> "answer", job |-> j, status |-> status]

\* What is done with a request whose job is there: one that was queued when its
\* row was loaded is sent again.
WithJob(j) ==
    IF job[j].state = "queued" THEN [pc |-> "send", job |-> j] ELSE Answer(j, 202)

\* enrichmentOptions, with the secret in place.
Actionable(a) ==
    /\ ActiveOn(a) = {}
    /\ used[today] < DailyLimit /\ priorityUsed[today] < PriorityLimit

\* The reads ahead of the insert, one step: each can only refuse (409) what the
\* insert then decides.  The cursor of the apex is the one read now.
ClientAsks(c, j) ==
    /\ client[c] = Idle
    /\ ClientGoes(c, IF job[j].state # "absent" THEN WithJob(j)
                     ELSE IF Actionable(Target[j])
                     THEN [pc |-> "insert", job |-> j, cursor |-> source[Target[j]].cursor]
                     ELSE Answer(j, 409))
    /\ UNCHANGED <<job, messages, faults, orphaned>>

\* A unique constraint that the row would break: another call has admitted this
\* request meanwhile, or the apex is taken (409).
ClientInserts(c) ==
    /\ client[c].pc = "insert"
    /\ LET j == client[c].job IN
       IF job[j].state = "absent" /\ ActiveOn(Target[j]) = {}
       THEN /\ job' = [job EXCEPT ![j] = Queued(client[c].cursor)]
            /\ ClientGoes(c, [pc |-> "send", job |-> j])
       ELSE /\ UNCHANGED job
            /\ ClientGoes(c, IF job[j].state = "absent" THEN Answer(j, 409)
                             ELSE WithJob(j))
    /\ UNCHANGED <<messages, faults, orphaned>>

\* A client that is told 503 is to repeat its request; until then the job waits.
ClientSends(c) ==
    /\ client[c].pc = "send"
    /\ LET j == client[c].job IN
       \/ Sends(j) /\ ClientGoes(c, Answer(j, 202))
       \/ /\ SendFails(j)
          /\ orphaned' = orphaned \cup {j}
          /\ ClientGoes(c, Answer(j, 503))
    /\ UNCHANGED job

ClientIsAnswered(c) ==
    /\ client[c].pc = "answer"
    /\ ClientGoes(c, Idle)
    /\ UNCHANGED <<job, messages, faults, orphaned>>
-----------------------------------------------------------------------------
(* The queue consumer: processUrlscanJob *)

WorkerGoes(w, at) ==
    /\ worker' = [worker EXCEPT ![w] = at]
    /\ UNCHANGED <<today, cron, client, orphaned>>

At(pc, m) == [pc |-> pc, job |-> m[1], n |-> m[2]]

\* The message a delivery has in hand.
Message(w) == <<worker[w].job, worker[w].n>>
To(w, pc) == At(pc, Message(w))

\* A message is delivered at least once (two deliveries may have it at a time),
\* and again if that failed, up to a number of times.
Retries(m) ==
    messages' = (messages \ {m}) \cup {<<m[1], n>> : n \in {m[2] + 1} \cap (1..MaxDeliveries)}

\* To activate the job would break urlscan_one_active_apex.
Barred(j) == ActiveOn(ApexOf(j)) \ {j} # {}

\* (Here and below, an operator whose comment begins with "Faulty" is no part of
\* the model: it is a mistake the code could have made in the next definition.)
\* Faulty: no failure is terminal.
NeverTerminal(n) == FALSE

Terminal(n) == n >= LastAttempt

\* Faulty: a failure of any kind sends the job back.
FailableIfThere(j) == job[j].state # "absent"

Failable(j) == job[j].state \notin {"absent", "complete"}

\* failJob, whoever holds the lease.  To queue again what another delivery gave
\* up, while another job of the apex is active, breaks the index: the row stays.
AfterFailure(m) ==
    LET j == m[1]
        state == IF Terminal(m[2]) THEN "failed" ELSE "queued"
    IN IF ~Failable(j) \/ (state = "queued" /\ Barred(j)) THEN job
       ELSE [job EXCEPT ![j] = [@ EXCEPT !.state = state, !.live = FALSE]]

\* The delivery throws, and its message is retried.
Throws(w, m) ==
    /\ job' = AfterFailure(m)
    /\ Retries(m)
    /\ WorkerGoes(w, Idle)
    /\ UNCHANGED <<source, quota, stored>>

\* Faulty: a job that has been tried is taken to be charged.
IsChargedIfTried(row) == row.state # "queued"

IsCharged(row) == row.charged # Never

Loads(w, m) ==
    /\ worker[w] = Idle
    /\ m \in messages
    /\ LET row == job[m[1]] IN
       IF row.state = "absent" THEN Throws(w, m)
       ELSE /\ WorkerGoes(w, IF row.state = "complete" THEN At("notify", m)
                             ELSE [pc |-> "claim", job |-> m[1], n |-> m[2],
                                   paid |-> IsCharged(row)])
            /\ UNCHANGED <<source, job, quota, stored, messages>>
    /\ UNCHANGED faults

Claimable(j) ==
    \/ job[j].state \in {"queued", "failed"}
    \/ job[j].state = "running" /\ ~job[j].live

\* chargeQuota returns at once if the row that was loaded was charged.
Claims(w) ==
    /\ worker[w].pc = "claim"
    /\ LET j == worker[w].job IN
       /\ Claimable(j) /\ ~Barred(j)
       /\ job' = [job EXCEPT ![j] = [@ EXCEPT !.state = "running", !.live = TRUE]]
    /\ WorkerGoes(w, To(w, IF worker[w].paid THEN "read" ELSE "charge"))
    /\ UNCHANGED <<source, quota, stored, messages, faults>>

ClaimRefused(w) ==
    /\ worker[w].pc = "claim"
    /\ ~Claimable(worker[w].job)
    /\ WorkerGoes(w, To(w, "reload"))
    /\ UNCHANGED <<source, job, quota, stored, messages, faults>>

Reloads(w) ==
    /\ worker[w].pc = "reload"
    /\ job[worker[w].job].state = "complete"
    /\ WorkerGoes(w, To(w, "notify"))
    /\ UNCHANGED <<source, job, quota, stored, messages, faults>>

HasQuota(j) ==
    /\ used[today] < DailyLimit
    /\ j \in Request => priorityUsed[today] < PriorityLimit

Charges(w) ==
    /\ worker[w].pc = "charge"
    /\ HasQuota(worker[w].job)
    /\ used' = [used EXCEPT ![today] = @ + 1]
    /\ priorityUsed' = IF worker[w].job \in Request
                       THEN [priorityUsed EXCEPT ![today] = @ + 1] ELSE priorityUsed
    /\ WorkerGoes(w, [pc |-> "mark", job |-> worker[w].job, n |-> worker[w].n, day |-> today])
    /\ UNCHANGED <<source, job, stored, messages, faults>>

\* Faulty: the job is marked with the day that it is.
DayOfMark(w) == today

DayOfCharge(w) == worker[w].day

Marks(w) ==
    /\ worker[w].pc = "mark"
    /\ LET j == worker[w].job IN
       job' = IF job[j].state = "absent" THEN job
              ELSE [job EXCEPT ![j].charged = DayOfCharge(w)]
    /\ WorkerGoes(w, To(w, "read"))
    /\ UNCHANGED <<source, quota, stored, messages, faults>>

\* What may follow page p: none, or the next if p was full.
Following(p) == {0} \cup ({p + 1} \cap Page)

\* The page is read and the object put, over what was under its key.
Reads(w) ==
    /\ worker[w].pc = "read"
    /\ LET j == worker[w].job IN
       \E next \in Following(CursorOf(j)) :
         /\ object' = [object EXCEPT ![j] = next]
         /\ WorkerGoes(w, [pc |-> "commit", job |-> j, n |-> worker[w].n, next |-> next])
    /\ UNCHANGED <<source, job, quota, announced, messages, faults>>

\* Faulty: the cursor of the apex is advanced, whichever page was read.
CursorAdvanced(j, next) == IF next = 0 THEN 0 ELSE source[ApexOf(j)].cursor + 1

\* Set, whichever it is by now.
CursorAfter(j, next) == next

\* Job and cursor are one batch, which looks at no lease.
Commits(w) ==
    /\ worker[w].pc = "commit"
    /\ LET j == worker[w].job
           next == worker[w].next
       IN /\ job' = IF job[j].state = "absent" THEN job
                    ELSE [job EXCEPT ![j] = [@ EXCEPT !.state = "complete", !.live = FALSE]]
          /\ source' = [source EXCEPT ![ApexOf(j)] =
                          [cursor |-> CursorAfter(j, next),
                           due |-> IF next = 0 THEN today + 1 ELSE today]]
    /\ WorkerGoes(w, To(w, "notify"))
    /\ UNCHANGED <<quota, stored, messages, faults>>

Notifies(w) ==
    /\ worker[w].pc = "notify"
    /\ announced' = announced \cup {worker[w].job}
    /\ messages' = messages \ {Message(w)}
    /\ WorkerGoes(w, Idle)
    /\ UNCHANGED <<source, job, quota, object, faults>>

\* Another job of the apex is active, another delivery has the lease, or the quota
\* is exhausted.
GivesUp(w) ==
    /\ \/ /\ worker[w].pc = "claim"
          /\ Claimable(worker[w].job) /\ Barred(worker[w].job)
       \/ worker[w].pc = "reload" /\ job[worker[w].job].state # "complete"
       \/ worker[w].pc = "charge" /\ ~HasQuota(worker[w].job)
    /\ Throws(w, Message(w))
    /\ UNCHANGED faults
-----------------------------------------------------------------------------
(* Time and failure *)

Midnight ==
    /\ today < MaxDay
    /\ today' = today + 1
    /\ UNCHANGED <<source, job, quota, stored, messages, cron, client, worker, faults,
                   orphaned>>

\* No delivery is at the job any more.
Deserted(j) == \A w \in Worker : worker[w] # Idle => worker[w].job # j

\* That a delivery outlives its five minutes counts as a fault.
LeaseExpires(j) ==
    /\ job[j].live
    /\ IF Deserted(j) THEN UNCHANGED faults ELSE Fault
    /\ job' = [job EXCEPT ![j].live = FALSE]
    /\ UNCHANGED <<today, source, quota, stored, messages, cron, client, worker, orphaned>>

\* A call of the provider, the store, the database or the queue fails.
WorkerThrows(w) == worker[w] # Idle /\ Fault /\ Throws(w, Message(w))

\* failJob fails too, or the delivery dies: the row stays as it is.
WorkerDies(w) ==
    /\ worker[w] # Idle
    /\ Fault
    /\ orphaned' = orphaned \cup {worker[w].job}
    /\ Retries(Message(w))
    /\ worker' = [worker EXCEPT ![w] = Idle]
    /\ UNCHANGED <<today, source, job, quota, stored, cron, client>>

CronDies(c) ==
    /\ cron[c] # Idle
    /\ Fault
    /\ orphaned' = orphaned \cup {cron[c].job}
    /\ cron' = [cron EXCEPT ![c] = Idle]
    /\ UNCHANGED <<today, source, job, quota, stored, messages, client, worker>>
-----------------------------------------------------------------------------
CronStep(c) == CronInserts(c) \/ CronSends(c) \/ CronUnsends(c)

ClientStep(c) == ClientInserts(c) \/ ClientSends(c) \/ ClientIsAnswered(c)

WorkerStep(w) ==
    \/ \E m \in messages : Loads(w, m)
    \/ Claims(w) \/ ClaimRefused(w) \/ Reloads(w) \/ Charges(w) \/ Marks(w)
    \/ Reads(w) \/ Commits(w) \/ Notifies(w) \/ GivesUp(w)

\* What the Worker does on its own account.
Runs ==
    \/ \E c \in Cron, a \in Recurring : CronReads(c, a)
    \/ \E c \in Cron : CronStep(c) \/ CronDies(c)
    \/ \E w \in Worker : WorkerStep(w) \/ WorkerThrows(w) \/ WorkerDies(w)
    \/ \E j \in Job : LeaseExpires(j)
    \/ Midnight

Next ==
    \/ \E c \in Client : ClientStep(c) \/ \E j \in Request : ClientAsks(c, j)
    \/ Runs

Spec == Init /\ [][Next]_vars
-----------------------------------------------------------------------------
(* Safety *)

\* The quota row of a day covers every job that is marked as charged to it, and
\* those about to be, and stays within its limits: a day is never undercharged,
\* whatever deliveries fail between the charge and the mark (chargeQuota).
MarkedOn(d) == {j \in Job : job[j].charged = d}

QuotaCoversCharges ==
    \A d \in Day :
        /\ used[d] <= DailyLimit /\ priorityUsed[d] <= PriorityLimit
        /\ Cardinality(MarkedOn(d)) <= used[d]
        /\ Cardinality(MarkedOn(d) \cap Request) <= priorityUsed[d]

\* The charges of all days: the i-th one of day d.
Charged(count) == UNION {{d} \X (1..count[d]) : d \in Day}
Total(count) == Cardinality(Charged(count))

Read == {j \in Job : object[j] # Missing}

\* Every page that is read has been paid for, whatever the deliveries that charge
\* by a row they loaded earlier, and the schedule that deletes the row of a job its
\* send failed for, do to each other (processUrlscanJob, scheduleUrlscan).
ReadsArePaid ==
    /\ Cardinality(Read) <= Total(used)
    /\ Cardinality(Read \cap Request) <= Total(priorityUsed)

\* Every page of the history of apex a before page c has been read and stored.
ReadUpTo(a, c) == \A p \in 0..(c - 1) : \E j \in Read : ApexOf(j) = a /\ CursorOf(j) = p

\* The walk through the history of an apex skips no page (processUrlscanJob,
\* scheduleUrlscan and admitEnrichment, each of which read the cursor earlier).
NoPageIsSkipped == \A a \in Apex : ReadUpTo(a, source[a].cursor)

\* A delta is announced only once its object is there and its job is complete,
\* which it then stays, unless the schedule deletes the row of a job whose message
\* was taken although its send failed.
AnnouncedIsStored ==
    \A j \in announced : j \in Read /\ (j \notin orphaned => job[j].state = "complete")

\* A job that is complete stays so, whichever deliveries of it fail later (failJob).
CompleteIsFinal ==
    [][\A j \in Job : job[j].state = "complete" => job'[j].state = "complete"]_vars

\* A job that is queued or running, and so keeps its apex from every other, has a
\* message or an invocation that will see to it: failures that are caught leave no
\* job behind (failJob queues it again only if its message is retried; a schedule
\* takes back the job it could not send).
Carried(j) ==
    \/ \E n \in 1..MaxDeliveries : <<j, n>> \in messages
    \/ \E c \in Cron : cron[c].pc \in {"send", "unsend"} /\ cron[c].job = j
    \/ \E c \in Client : client[c].pc = "send" /\ client[c].job = j
    \/ ~Deserted(j)

PendingJobsAreCarried ==
    \A j \in Job \ orphaned : job[j].state \in Active => Carried(j)

\* "reads at most one URLScan page": the object of a delta that was announced is
\* never written again.  The code does not keep this: see the README, section 6.
DeltasAreImmutable ==
    [][\A j \in announced : object'[j] = object[j]]_vars
=============================================================================
