---------------------------- MODULE RecordBatches ----------------------------
(***************************************************************************)
(* The durable record batches of the Python control plane                  *)
(* (src/ctlogs/control.py, batch_worker.py) and the daily quota they are   *)
(* charged to.  A client reserves one unit for each apex of a batch;       *)
(* workers lease the batch, one slice at a time, and commit the slice with *)
(* its units; what is not looked up is released.                           *)
(*                                                                         *)
(* Every method of ControlDatabase is one transaction (BEGIN IMMEDIATE) and *)
(* one action.  A worker does its lookup between two of them, holding      *)
(* nothing but its lease.                                                  *)
(***************************************************************************)
EXTENDS Integers, FiniteSets, Sequences

CONSTANTS
    Subject,              \* bearers of a quota
    Key,                  \* idempotency keys
    Units,                \* [Key -> Nat \ {0}]: the apexes of the request
    Worker,
    NoWorker,             \* an empty lease_owner
    Limit,                \* quota of a subject and day
    SliceSize,            \* CTLOGS_BATCH_WORKER_SLICE_APEXES
    MaxPending, MaxPendingPerSubject,
    MaxActivePerSubject,  \* max_active_per_subject
    Retention,            \* days a quota row is kept after its own (2)
    MaxDay,               \* bound on the days that pass
    MaxSpent              \* bound on the units other requests use in a day

ASSUME BatchesAssumption ==
    /\ IsFiniteSet(Subject) /\ IsFiniteSet(Key)
    /\ Units \in [Key -> Nat \ {0}]
    /\ NoWorker \notin Worker
    /\ Limit \in Nat \ {0}
    /\ SliceSize \in Nat \ {0}
    /\ MaxPending \in Nat \ {0} /\ MaxPendingPerSubject \in Nat \ {0}
    /\ MaxActivePerSubject \in Nat \ {0}
    /\ Retention \in Nat
    /\ MaxDay \in Nat /\ MaxSpent \in Nat

Day == 0..MaxDay

\* A job, by the UNIQUE(subject, idempotency_key) of its row.
Job == Subject \X Key
SubjectOf(j) == j[1]
UnitsOf(j) == Units[j[2]]

VARIABLES
    today,
    used,    \* request_counts; 0 if there is no row
    job,     \* record_batch_jobs
    ahead,   \* <<k, j>> if both are queued and the updated_at of k is earlier
    slices,  \* record_batch_slices
    worker,  \* what each worker is looking up
    spent    \* history: units charged for other requests, or by deleted rows

vars == <<today, used, job, ahead, slices, worker, spent>>
-----------------------------------------------------------------------------
Ended == {"done", "failed", "cancelled"}

\* completed is both completed_apexes and next_position, which move together;
\* reserved_units is UnitsOf; next_sequence is the number of slices; live is
\* FALSE once lease_expires has passed; ended is the day of updated_at of a job that
\* has ended.
JobRow == [state: {"absent", "queued", "running"} \cup Ended, day: Day,
           ended: Day, completed: Nat, failed: Nat, committed: Nat, released: Nat,
           cancel: BOOLEAN, owner: Worker \cup {NoWorker}, live: BOOLEAN]

\* A slice of count apexes from position first; its document has the snapshots of
\* the apexes from position "from" on.
SliceRow == [first: Nat, from: Nat, count: Nat]

Idle == [pc |-> "idle"]
WorkerJob == {Idle} \cup [pc: {"lookup"}, job: Job, from: Nat, count: Nat]

TypeOK ==
    /\ today \in Day
    /\ used \in [Day \X Subject -> Nat]
    /\ job \in [Job -> JobRow]
    /\ ahead \subseteq Job \X Job
    /\ slices \in [Job -> Seq(SliceRow)]
    /\ worker \in [Worker -> WorkerJob]
    /\ spent \in [Day \X Subject -> Nat]

NoRow == [state |-> "absent", day |-> 0, ended |-> 0, completed |-> 0,
          failed |-> 0, committed |-> 0, released |-> 0, cancel |-> FALSE,
          owner |-> NoWorker, live |-> FALSE]

Init ==
    /\ today = 0
    /\ used = [a \in Day \X Subject |-> 0]
    /\ job = [j \in Job |-> NoRow]
    /\ ahead = {}
    /\ slices = [j \in Job |-> <<>>]
    /\ worker = [w \in Worker |-> Idle]
    /\ spent = [a \in Day \X Subject |-> 0]
-----------------------------------------------------------------------------
(* Quota *)

\* (Here and below, an operator whose comment begins with "Faulty" is no part of
\* the model: it is a mistake the code could have made in the next definition.)
\* Faulty: units are given back to the row of the day that it is.
AccountOfToday(j) == <<today, SubjectOf(j)>>

\* The quota row a job is charged to.
Account(j) == <<job[j].day, SubjectOf(j)>>

\* Faulty: an apex that could not be looked up is still to be looked up.
RemainingUncommitted(j) == UnitsOf(j) - job[j].committed

Remaining(j) == UnitsOf(j) - job[j].completed

\* The apexes of a job that are still to be looked up.
Left(j) == {j} \X ((job[j].completed + 1)..UnitsOf(j))

AtLeast0(n) == IF n < 0 THEN 0 ELSE n

Returned(account, n) == [used EXCEPT ![account] = AtLeast0(@ - n)]

\* DELETE FROM request_counts WHERE day < today - Retention.
Pruned == [a \in Day \X Subject |-> IF a[1] < today - Retention THEN 0 ELSE used[a]]

\* admit_many, consume and the admission of an enrichment: n units are charged if
\* they fit.  The first admission of a process on a day also prunes.
Spend(s, n) ==
    /\ spent[<<today, s>>] + n <= MaxSpent
    /\ used[<<today, s>>] + n <= Limit
    /\ \E rows \in {used, Pruned} :
         used' = [rows EXCEPT ![<<today, s>>] = @ + n]
    /\ spent' = [spent EXCEPT ![<<today, s>>] = @ + n]
    /\ UNCHANGED <<today, job, ahead, slices, worker>>

\* admit_many prunes even if it then refuses every request.
Refuse(s) ==
    /\ used[<<today, s>>] >= Limit
    /\ used' = Pruned
    /\ UNCHANGED <<today, job, ahead, slices, worker, spent>>
-----------------------------------------------------------------------------
(* Clients *)

InState(S) == {j \in Job : job[j].state \in S}
Active == InState({"queued", "running"})
Queued == InState({"queued"})
ActiveOf(s) == {j \in Active : SubjectOf(j) = s}

\* The order after the jobs of S have joined the queue, or j has left it.
Joined(S) == ahead \cup (Queued \X S)
Without(order, j) == {e \in order : e[1] # j /\ e[2] # j}

\* enqueue_record_batch.  A repeated key returns the job there is; a full queue
\* and an exhausted quota are refused; none of them changes anything.
Enqueue(j) ==
    LET s == SubjectOf(j) IN
    /\ job[j].state = "absent"
    /\ Cardinality(Active) < MaxPending
    /\ Cardinality(ActiveOf(s)) < MaxPendingPerSubject
    /\ used[<<today, s>>] + UnitsOf(j) <= Limit
    /\ used' = [used EXCEPT ![<<today, s>>] = @ + UnitsOf(j)]
    /\ job' = [job EXCEPT ![j] = [NoRow EXCEPT !.state = "queued", !.day = today]]
    /\ ahead' = Joined({j})
    /\ UNCHANGED <<today, slices, worker, spent>>

\* cancel_record_batch: a queued job ends and releases the rest; a running one is
\* only marked.
Cancel(j) ==
    /\ \/ /\ job[j].state = "queued"
          /\ job' = [job EXCEPT ![j] =
                       [job[j] EXCEPT !.state = "cancelled", !.cancel = TRUE, !.ended = today,
                                 !.released = @ + Remaining(j)]]
          /\ used' = Returned(Account(j), Remaining(j))
          /\ ahead' = Without(ahead, j)
       \/ /\ job[j].state = "running"
          /\ job' = [job EXCEPT ![j].cancel = TRUE]
          /\ UNCHANGED <<used, ahead>>
    /\ UNCHANGED <<today, slices, worker, spent>>
-----------------------------------------------------------------------------
(* Workers: RecordBatchWorker.run_once *)

\* Faulty: only leases of cancelled jobs are recovered.
ExpiredIfCancelled == {j \in InState({"running"}) : ~job[j].live /\ job[j].cancel}

Expired == {j \in InState({"running"}) : ~job[j].live}

\* Faulty: the recovery does not look for cancelled jobs.
NoneAbandoned == {}

\* A lease that ran out on a job whose cancellation was asked for ends the job.
Abandoned == {j \in Expired : job[j].cancel}

\* The first part of claim_record_batch.
Recovered ==
    [j \in Job |->
        IF j \in Abandoned
        THEN [job[j] EXCEPT !.state = "cancelled", !.owner = NoWorker, !.live = FALSE,
                            !.ended = today, !.released = UnitsOf(j) - job[j].committed]
        ELSE IF j \in Expired
        THEN [job[j] EXCEPT !.state = "queued", !.owner = NoWorker, !.live = FALSE]
        ELSE job[j]]

ReturnedByAbandoned ==
    [a \in Day \X Subject |->
        AtLeast0(used[a]
          - Cardinality(UNION {Left(j) : j \in {k \in Abandoned : Account(k) = a}}))]

\* Jobs whose lease ran out join the queue together; job_id decides between them.
OrderAfterRecovery == Joined(Expired \ Abandoned)

\* The jobs of s that are still running after the recovery.
RunningOf(s) ==
    {j \in InState({"running"}) : SubjectOf(j) = s /\ job[j].live}

\* Faulty: off by one.
EligibleUpToShare(j) == Cardinality(RunningOf(SubjectOf(j))) <= MaxActivePerSubject

Eligible(j) == Cardinality(RunningOf(SubjectOf(j))) < MaxActivePerSubject

\* The first in the queue of the jobs whose subject has a share left.
Chosen ==
    LET waiting == {j \in Queued \cup (Expired \ Abandoned) :
                      Eligible(j) /\ ~job[j].cancel}
        order == OrderAfterRecovery
    IN {j \in waiting : \A k \in waiting : <<k, j>> \notin order}

\* Faulty: a slice is never cut short at the end of the batch.
NeverCut(m, n) == m

Smaller(m, n) == IF m < n THEN m ELSE n

\* claim_record_batch.
Claim(w) ==
    /\ worker[w] = Idle
    /\ used' = ReturnedByAbandoned
    /\ \/ /\ Chosen = {}
          /\ job' = Recovered
          /\ ahead' = OrderAfterRecovery
          /\ UNCHANGED worker
       \/ \E j \in Chosen :
          /\ job' = [Recovered EXCEPT ![j] =
                       [@ EXCEPT !.state = "running", !.owner = w, !.live = TRUE]]
          /\ ahead' = Without(OrderAfterRecovery, j)
          /\ worker' = [worker EXCEPT ![w] =
               [pc |-> "lookup", job |-> j, from |-> job[j].completed,
                count |-> Smaller(SliceSize, Remaining(j))]]
    /\ UNCHANGED <<today, slices, spent>>

\* The row is still running and names this worker; whether the lease has run out
\* meanwhile is not asked.
Holds(w) ==
    /\ worker[w] # Idle
    /\ job[worker[w].job].state = "running"
    /\ job[worker[w].job].owner = w

\* _build halves a slice until its document fits.
Halvings(n) == {m \in 1..n : \E k \in 0..n : m = n \div (2 ^ k)}

\* finish_record_batch_slice, with m apexes of which f could not be looked up.
\* The tuple of the UPDATE adds what a cancellation leaves to failed_apexes, not
\* to released_units.
FinishSlice(w, m, f) ==
    /\ Holds(w)
    /\ LET j == worker[w].job
           left == IF job[j].cancel THEN AtLeast0(Remaining(j) - m) ELSE 0
           state == IF job[j].cancel THEN "cancelled"
                    ELSE IF Remaining(j) <= m THEN "done" ELSE "queued"
       IN /\ slices' = [slices EXCEPT ![j] =
                          Append(@, [first |-> job[j].completed,
                                     from |-> worker[w].from, count |-> m])]
          /\ job' = [job EXCEPT ![j] =
                       [job[j] EXCEPT !.state = state, !.completed = @ + m,
                                 !.failed = @ + f + left, !.committed = @ + m - f,
                                 !.released = @ + f, !.owner = NoWorker, !.live = FALSE,
                                 !.ended = IF state = "queued" THEN @ ELSE today]]
          /\ used' = Returned(Account(j), f + left)
          /\ ahead' = IF state = "queued" THEN Joined({j}) ELSE ahead
    /\ worker' = [worker EXCEPT ![w] = Idle]
    /\ UNCHANGED <<today, spent>>

\* An apex too large to report is isolated in a slice of its own.
Finish(w) ==
    /\ worker[w] # Idle
    /\ \E m \in Halvings(worker[w].count), f \in {0, 1} :
         (f = 1 => m = 1) /\ FinishSlice(w, m, f)

\* The lookup raises; fail_record_batch gives up the job and releases the rest.
Fail(w) ==
    /\ Holds(w)
    /\ LET j == worker[w].job IN
       /\ job' = [job EXCEPT ![j] =
                    [job[j] EXCEPT !.state = "failed", !.released = @ + Remaining(j),
                              !.owner = NoWorker, !.live = FALSE, !.ended = today]]
       /\ used' = Returned(Account(j), Remaining(j))
    /\ worker' = [worker EXCEPT ![w] = Idle]
    /\ UNCHANGED <<today, ahead, slices, spent>>

\* "record batch lease was lost", from either call.
LoseLease(w) ==
    /\ worker[w] # Idle
    /\ ~Holds(w)
    /\ worker' = [worker EXCEPT ![w] = Idle]
    /\ UNCHANGED <<today, used, job, ahead, slices, spent>>
-----------------------------------------------------------------------------
(* Time and failures *)

\* No worker is at the job any more.
Deserted(j) == \A w \in Worker : Holds(w) => worker[w].job # j

LeaseExpires(j) ==
    /\ job[j].state = "running" /\ job[j].live
    /\ job' = [job EXCEPT ![j].live = FALSE]
    /\ UNCHANGED <<today, used, ahead, slices, worker, spent>>

Dies(w) ==
    /\ worker[w] # Idle
    /\ worker' = [worker EXCEPT ![w] = Idle]
    /\ UNCHANGED <<today, used, job, ahead, slices, spent>>

Midnight ==
    /\ today < MaxDay
    /\ today' = today + 1
    /\ UNCHANGED <<used, job, ahead, slices, worker, spent>>

Committed(j) == {j} \X (1..job[j].committed)

\* initialize, run before every start, prunes quota rows and deletes the jobs that
\* ended a day ago or more.
Initialize ==
    \E S \in SUBSET {j \in InState(Ended) : job[j].ended < today} :
        /\ used' = Pruned
        /\ job' = [j \in Job |-> IF j \in S THEN NoRow ELSE job[j]]
        /\ slices' = [j \in Job |-> IF j \in S THEN <<>> ELSE slices[j]]
        /\ spent' = [a \in Day \X Subject |->
             spent[a] + Cardinality(UNION {Committed(j) : j \in {k \in S : Account(k) = a}})]
        /\ UNCHANGED <<today, ahead, worker>>
-----------------------------------------------------------------------------
WorkerStep(w) == Claim(w) \/ Finish(w) \/ LoseLease(w)

Progress ==
    \/ \E s \in Subject, n \in 1..MaxSpent : Spend(s, n)
    \/ \E s \in Subject : Refuse(s)
    \/ \E j \in Job : Enqueue(j) \/ Cancel(j)
    \/ \E w \in Worker : WorkerStep(w)
    \/ \E j \in Job : Deserted(j) /\ LeaseExpires(j)
    \/ Midnight
    \/ Initialize

\* A lookup that raises, a worker that dies, and one that outlives its lease.
Failure ==
    \/ \E w \in Worker : Fail(w) \/ Dies(w)
    \/ \E j \in Job : ~Deserted(j) /\ LeaseExpires(j)

Next == Progress \/ Failure

Spec == Init /\ [][Next]_vars
-----------------------------------------------------------------------------
(* Properties *)

\* A quota row is charged with exactly the units that were committed, or are still
\* to be looked up, by the jobs of its day, besides other requests: no order of
\* failures, lost leases and cancellations charges a unit twice or gives one back
\* twice (finish_record_batch_slice, fail_record_batch, cancel_record_batch,
\* claim_record_batch).  Older rows are pruned.
Charged(j) == Committed(j) \cup IF j \in Active THEN Left(j) ELSE {}

QuotaIsExact ==
    \A a \in Day \X Subject :
        a[1] >= today - Retention =>
            used[a] = spent[a] + Cardinality(UNION {Charged(j) :
                j \in {k \in Job : job[k].state # "absent" /\ Account(k) = a}})

\* The chunks of a job, in sequence, hold every apex of the request once and in
\* order, up to where the job has come, and a job is done when that is the end
\* (finish_record_batch_slice may be called by a worker that claimed the slice
\* before its lease ran out).
End(j, i) == IF i = 0 THEN 0 ELSE slices[j][i].first + slices[j][i].count

ChunksTileTheRequest ==
    \A j \in Job :
        /\ \A i \in DOMAIN slices[j] :
             slices[j][i].from = End(j, i - 1) /\ slices[j][i].first = End(j, i - 1)
        /\ End(j, Len(slices[j])) = job[j].completed
        /\ job[j].state \in {"queued", "running"} => Remaining(j) > 0
        /\ job[j].state = "done" => Remaining(j) = 0

\* The counts of a job add up to what it reserved: every unit is committed,
\* released or still to be looked up.  docs/reference/api.md says the status route
\* reports them exactly.  The code does not keep this: see the README, section 4.
UnitsAddUp ==
    \A j \in InState({"queued", "running"} \cup Ended) :
        job[j].committed + job[j].released
          + (IF j \in Active THEN Remaining(j) ELSE 0) = UnitsOf(j)

\* They do add up unless the job was cancelled; the schema's CHECK on them holds
\* always, so that no settlement is ever refused.
UnitsAddUpUnlessCancelled ==
    \A j \in InState({"queued", "running"} \cup Ended) :
        LET sum == job[j].committed + job[j].released IN
        /\ sum <= UnitsOf(j)
        /\ job[j].state # "cancelled" =>
             sum + (IF j \in Active THEN Remaining(j) ELSE 0) = UnitsOf(j)

\* The argument behind these, as an inductive invariant: no job has more
\* committed than completed or more completed than asked for, and a worker that
\* still holds its job has the slice that comes next
\* (claim_record_batch, finish_record_batch_slice).
JobsAreCounted ==
    \A j \in Job :
        /\ job[j].state = "absent" => job[j] = NoRow /\ slices[j] = <<>>
        /\ job[j].committed <= job[j].completed
        /\ job[j].completed <= UnitsOf(j)

LeasesAreCurrent ==
    \A w \in Worker : worker[w] # Idle =>
        /\ worker[w].count > 0
        /\ Holds(w) => /\ worker[w].from = job[worker[w].job].completed
                       /\ worker[w].count <= Remaining(worker[w].job)

BatchInv ==
    /\ TypeOK
    /\ JobsAreCounted
    /\ LeasesAreCurrent
    /\ ChunksTileTheRequest
    /\ UnitsAddUpUnlessCancelled
    /\ QuotaIsExact

\* No subject has more slices at work than it may, whatever leases run out
\* (claim_record_batch).
SubjectsShareWorkers ==
    \A s \in Subject :
        Cardinality({j \in InState({"running"}) : SubjectOf(j) = s})
            <= MaxActivePerSubject

\* Once its cancellation is asked for, a job is never given to a worker again, and
\* a job that ended stays as it is until its row is deleted
\* (cancel_record_batch, claim_record_batch).
CancellationHolds ==
    [][\A j \in Job :
        /\ job[j].cancel => job'[j].state \notin {"queued"}
                            /\ job'[j].owner \in {job[j].owner, NoWorker}
        /\ job[j].state \in Ended => job'[j] \in {job[j], NoRow}]_vars

\* What the consumer of a batch is promised here and by the read Worker.
Promised(j) ==
    [state |-> IF job[j].state = "absent" THEN "absent"
               ELSE IF j \in Active THEN "open" ELSE "ended",
     size |-> IF job[j].state = "absent" THEN 0 ELSE UnitsOf(j),
     held |-> IF j \in Active THEN job[j].committed + Remaining(j) ELSE job[j].committed,
     chunks |-> [i \in DOMAIN slices[j] |->
                   [first |-> slices[j][i].from, count |-> slices[j][i].count]]]

Contract(j) == INSTANCE BatchContract WITH
    Size <- {Units[k] : k \in Key}, batch <- Promised(j)

\* Whatever leases, cancellations and failures do to a batch is what the contract
\* allows: chunks are added at the end with the quota they settle, and nothing is
\* delivered, charged or given back otherwise.
KeepsTheContract ==
    /\ \A j \in Job : Contract(j)!Init
    /\ [][\A j \in Job : Contract(j)!Step]_vars
=============================================================================
