----------------------------- MODULE ReadBatches -----------------------------
(***************************************************************************)
(* The durable record batches of the read Worker                           *)
(* (cloudflare/index-worker, class QuotaLedger): a Durable Object that     *)
(* keeps the quota of the subjects of a shard and looks their batches up,  *)
(* one slice per alarm.                                                    *)
(*                                                                         *)
(* An object runs on one thread, and nothing else comes in while it waits  *)
(* for its own storage: a request is one action.  Requests do come in while*)
(* an alarm waits for the catalog (runner).  An object has one alarm, which*)
(* is gone once it fires.                                                  *)
(***************************************************************************)
EXTENDS Integers, SequencesExt

CONSTANTS
    Subject,              \* bearers of a quota
    Key,                  \* idempotency keys
    Units,                \* [Key -> Nat \ {0}]: the apexes of the request
    Limit,                \* quota of a subject and day
    RowSize,              \* QUEUED_APEXES_PER_ROW
    SliceSize,            \* QUEUED_SLICE_APEXES
    MaxFailures,          \* a batch fails with so many failures in a row (5)
    MaxPending, MaxPendingPerToken,
    MaxDay,               \* bound on the days that pass
    MaxRoot,              \* bound on the catalog roots that are published
    MaxSpent,             \* bound on the units other requests use in a day
    MaxFaults             \* bound on the requests and alarms that die

ASSUME ReadBatchesAssumption ==
    /\ Units \in [Key -> Nat \ {0}]
    /\ Limit \in Nat \ {0}
    /\ RowSize \in Nat \ {0} /\ SliceSize \in Nat \ {0}
    /\ MaxFailures \in Nat \ {0}
    /\ MaxPending \in Nat \ {0} /\ MaxPendingPerToken \in Nat \ {0}
    /\ MaxDay \in Nat /\ MaxRoot \in Nat /\ MaxSpent \in Nat /\ MaxFaults \in Nat

Day == 0..MaxDay
Root == 0..MaxRoot

\* A job, by the UNIQUE(subject, idempotency_key) of its row.
Job == Subject \X Key
SubjectOf(j) == j[1]
UnitsOf(j) == Units[j[2]]

VARIABLES
    today,
    root,      \* the catalog root, by its number
    used,      \* request_counts; 0 if there is no row
    kept,      \* the first day whose rows have not been pruned
    job,       \* record_batch_jobs
    chunks,    \* record_batch_chunks
    order,     \* the jobs at work by their updated_at
    alarm,     \* whether an alarm is set
    runner,    \* the alarm that runs
    spent,     \* history: units charged for other requests
    faults     \* how many requests and alarms died

vars == <<today, root, used, kept, job, chunks, order, alarm, runner, spent, faults>>
world == <<today, root>>
-----------------------------------------------------------------------------
Active == {"queued", "running"}
Ended == {"done", "failed", "cancelled"}

\* total_apexes and reserved_units are UnitsOf, completed_apexes is next_position, and
\* next_sequence is the number of chunks.
JobRow == [state: {"absent"} \cup Active \cup Ended, day: Day, root: Root,
           next: Nat, committed: Nat, released: Nat, failures: Nat]

NoRow == [state |-> "absent", day |-> 0, root |-> 0, next |-> 0,
          committed |-> 0, released |-> 0, failures |-> 0]

\* The chunk of count apexes at position first: those of the request from the
\* position "from" on, as they are in root.
Chunk == [first: Nat, from: Nat, count: Nat, root: Root]

Idle == [pc |-> "idle"]

Alarm == {Idle} \cup [pc: {"look"}, job: Job, position: Nat]

TypeOK ==
    /\ today \in Day /\ kept \in 0..today
    /\ root \in Root
    /\ used \in [Day \X Subject -> 0..Limit]
    /\ job \in [Job -> JobRow]
    /\ chunks \in [Job -> Seq(Chunk)]
    /\ order \in Seq(Job)
    /\ alarm \in BOOLEAN
    /\ runner \in Alarm
    /\ spent \in [Day \X Subject -> Nat]
    /\ faults \in 0..MaxFaults

Init ==
    /\ today = 0 /\ root = 0 /\ kept = 0
    /\ used = [a \in Day \X Subject |-> 0]
    /\ job = [j \in Job |-> NoRow]
    /\ chunks = [j \in Job |-> <<>>]
    /\ order = <<>>
    /\ alarm = FALSE
    /\ runner = Idle
    /\ spent = used
    /\ faults = 0

Fault == faults < MaxFaults /\ faults' = faults + 1
-----------------------------------------------------------------------------
(* Quota *)

AtLeast0(n) == IF n < 0 THEN 0 ELSE n

\* (Here and below, an operator whose comment begins with "Faulty" is no part of
\* the model: it is a mistake the code could have made in the next definition.)
\* Faulty: units are given back to the row of the day that it is.
AccountOfToday(j) == <<today, SubjectOf(j)>>

Account(j) == <<job[j].day, SubjectOf(j)>>

Outstanding(j) == UnitsOf(j) - job[j].committed - job[j].released

\* Faulty: the units are given back, but not counted as released.
ReleasedBefore(j) == job[j].released

ReleasedAtEnd(j) == job[j].released + Outstanding(j)

\* UPDATE request_counts SET used = max(0, used - ?); a row that was pruned is not
\* there to be updated.
GivenBack(j) == [used EXCEPT ![Account(j)] = AtLeast0(@ - Outstanding(j))]

\* /admit: the rows of earlier days are deleted, and a unit is charged if it fits.
Admits(s) ==
    LET pruned == [a \in Day \X Subject |-> IF a[1] < today THEN 0 ELSE used[a]] IN
    /\ kept' = today
    /\ \/ /\ used[<<today, s>>] < Limit /\ spent[<<today, s>>] < MaxSpent
          /\ used' = [pruned EXCEPT ![<<today, s>>] = @ + 1]
          /\ spent' = [spent EXCEPT ![<<today, s>>] = @ + 1]
       \/ /\ used[<<today, s>>] = Limit
          /\ used' = pruned
          /\ UNCHANGED spent
    /\ UNCHANGED <<world, job, chunks, order, alarm, runner, faults>>
-----------------------------------------------------------------------------
(* Requests *)

InState(S) == {j \in Job : job[j].state \in S}
Pending == InState(Active)
PendingOf(s) == {j \in Pending : SubjectOf(j) = s}

Without(j) == RemoveFirst(order, j)

\* submit.  The Worker has read the root before, maybe not the last.  The object may
\* die before it has set the alarm; an alarm that runs is not one that is set.
Submits(j) ==
    LET s == SubjectOf(j)
        n == UnitsOf(j)
    IN
    /\ job[j].state = "absent"
    /\ Cardinality(Pending) < MaxPending
    /\ Cardinality(PendingOf(s)) < MaxPendingPerToken
    /\ used[<<today, s>>] + n <= Limit
    /\ used' = [used EXCEPT ![<<today, s>>] = @ + n]
    /\ \E r \in 0..root :
         job' = [job EXCEPT ![j] =
                   [NoRow EXCEPT !.state = "queued", !.day = today, !.root = r]]
    /\ order' = Append(order, j)
    /\ \/ alarm' = TRUE /\ UNCHANGED faults
       \/ Fault /\ UNCHANGED alarm
    /\ UNCHANGED <<world, kept, chunks, runner, spent>>

\* The same request again; one that differs is refused (409).
Resubmits(j) ==
    /\ job[j].state # "absent"
    /\ alarm' = TRUE
    /\ UNCHANGED <<world, used, kept, job, chunks, order, runner, spent, faults>>

\* Faulty: a poll leaves the alarm alone.
PolledAlarmAsItIs(j) == alarm

PolledAlarm(j) == alarm \/ job[j].state \in Active

\* A poll that finds no chunk past its cursor.
Polls(j) ==
    /\ job[j].state # "absent"
    /\ alarm' = PolledAlarm(j)
    /\ UNCHANGED <<world, used, kept, job, chunks, order, runner, spent, faults>>

Cancels(j) ==
    /\ job[j].state \in Active
    /\ used' = GivenBack(j)
    /\ job' = [job EXCEPT ![j] = [@ EXCEPT !.state = "cancelled", !.released = ReleasedAtEnd(j)]]
    /\ order' = Without(j)
    /\ UNCHANGED <<world, kept, chunks, alarm, runner, spent, faults>>
-----------------------------------------------------------------------------
(* alarm *)

\* The alarm fires, and takes up the job that has waited longest.
Fires ==
    /\ alarm /\ runner = Idle
    /\ alarm' = FALSE
    /\ runner' = IF order = <<>> THEN Idle
                 ELSE [pc |-> "look", job |-> Head(order), position |-> job[Head(order)].next]
    /\ UNCHANGED <<world, used, kept, job, chunks, order, spent, faults>>

\* A row of apexes, from the place of position in it on, cut to a slice.
Requested(j, position) ==
    Min({SliceSize, RowSize - (position % RowSize), UnitsOf(j) - position})

\* Faulty: there is a row for each chunk.
FromOfChunk(j, position) == RowSize * Len(chunks[j]) + (position % RowSize)

\* Where that is in the request.
From(j, position) == RowSize * (position \div RowSize) + (position % RowSize)

\* Faulty: a cancellation meanwhile is not looked for.
HoldsIfUnmoved(j, position) == job[j].next = position

Holds(j, position) == job[j].state \in Active /\ job[j].next = position

\* Faulty: slices are looked up in the root there is.
RootOfTheDay(j) == root

RootOf(j) == job[j].root

\* Set again while there are jobs at work.
AlarmEnds ==
    /\ runner' = Idle
    /\ alarm' = (alarm \/ order' # <<>>)
    /\ UNCHANGED <<world, kept, spent, faults>>

\* The slice is cut where its document gets too large; an apex that alone is too
\* large is reported as an error, and charged like the others.
Commits(n) ==
    /\ runner # Idle
    /\ LET j == runner.job
           position == runner.position
           isDone == position + n = UnitsOf(j)
       IN /\ Holds(j, position)
          /\ n <= Requested(j, position)
          /\ chunks' = [chunks EXCEPT ![j] = Append(@,
               [first |-> position, from |-> From(j, position), count |-> n, root |-> RootOf(j)])]
          /\ job' = [job EXCEPT ![j] =
               [@ EXCEPT !.state = IF isDone THEN "done" ELSE "running", !.next = position + n,
                         !.committed = job[j].committed + n, !.failures = 0]]
          /\ order' = IF isDone THEN Without(j) ELSE Append(Without(j), j)
    /\ UNCHANGED used
    /\ AlarmEnds

\* The job ended, or another alarm moved it on.
Discards ==
    /\ runner # Idle
    /\ ~Holds(runner.job, runner.position)
    /\ UNCHANGED <<used, job, chunks, order>>
    /\ AlarmEnds

\* The catalog cannot be read.
Fails ==
    /\ runner # Idle
    /\ LET j == runner.job
           failures == job[j].failures + 1
       IN \/ /\ job[j].state \in Active /\ failures < MaxFailures
             /\ job' = [job EXCEPT ![j].failures = failures]
             /\ order' = Append(Without(j), j)
             /\ UNCHANGED used
          \/ /\ job[j].state \in Active /\ failures >= MaxFailures
             /\ used' = GivenBack(j)
             /\ job' = [job EXCEPT ![j] = [@ EXCEPT !.state = "failed", !.failures = failures,
                                                    !.released = ReleasedAtEnd(j)]]
             /\ order' = Without(j)
          \/ job[j].state \notin Active /\ UNCHANGED <<used, job, order>>
    /\ UNCHANGED chunks
    /\ AlarmEnds
-----------------------------------------------------------------------------
(* The world, and failures *)

\* The alarm is run again, unless that has been tried too often.
AlarmDies ==
    /\ runner # Idle
    /\ Fault
    /\ runner' = Idle
    /\ alarm' \in {alarm, TRUE}
    /\ UNCHANGED <<world, used, kept, job, chunks, order, spent>>

Midnight ==
    /\ today < MaxDay
    /\ today' = today + 1
    /\ UNCHANGED <<root, used, kept, job, chunks, order, alarm, runner, spent, faults>>

RootChanges ==
    /\ root < MaxRoot
    /\ root' = root + 1
    /\ UNCHANGED <<today, used, kept, job, chunks, order, alarm, runner, spent, faults>>
-----------------------------------------------------------------------------
AlarmStep == (\E n \in 1..SliceSize : Commits(n)) \/ Discards \/ Fails

Next ==
    \/ \E s \in Subject : Admits(s)
    \/ \E j \in Job : Submits(j) \/ Resubmits(j) \/ Polls(j) \/ Cancels(j)
    \/ Fires \/ AlarmStep \/ AlarmDies
    \/ Midnight \/ RootChanges

Spec == Init /\ [][Next]_vars

\* An alarm fires and ends in the end; a consumer polls its batch until it ends.
LiveSpec ==
    /\ Spec
    /\ WF_vars(Fires) /\ WF_vars(AlarmStep)
    /\ \A j \in Job : WF_vars(Polls(j))
-----------------------------------------------------------------------------
(* Properties *)

\* The units of a job that were not released, each named by the job and its place.
Held(j) == {j} \X ((job[j].released + 1)..UnitsOf(j))

HeldFrom(a) ==
    UNION {Held(j) : j \in {k \in Job : /\ job[k].state # "absent"
                                        /\ <<job[k].day, SubjectOf(k)>> = a}}

\* A quota row that is kept is charged with exactly the units of the jobs of its day
\* that were not released, besides other requests: no order of cancellations,
\* failures, midnights and retries charges a unit twice or gives one back twice
\* (submit, cancel and alarm of QuotaLedger).
QuotaIsExact ==
    \A a \in Day \X Subject :
        a[1] >= kept => used[a] = spent[a] + Cardinality(HeldFrom(a))

\* The chunks of a job hold every apex of the request once and in order, up to where
\* the job has come, and a job is done when that is the end, whichever slices were
\* discarded, cut short or tried again (alarm).
End(j, i) == IF i = 0 THEN 0 ELSE chunks[j][i].first + chunks[j][i].count

ChunksTileTheRequest ==
    \A j \in Job :
        /\ \A i \in DOMAIN chunks[j] :
             chunks[j][i].first = End(j, i - 1) /\ chunks[j][i].from = End(j, i - 1)
        /\ End(j, Len(chunks[j])) = job[j].next
        /\ job[j].state \in Active => job[j].next < UnitsOf(j)
        /\ job[j].state = "done" => job[j].next = UnitsOf(j)

\* All the chunks of a job show the catalog as of its submission, whatever is
\* published meanwhile (root_json).
ChunksAreOneSnapshot ==
    \A j \in Job : \A i \in DOMAIN chunks[j] : chunks[j][i].root = job[j].root

\* "reports exact ... counts": what was reserved is committed, released or still
\* outstanding, and nothing is outstanding of a job that has ended.
UnitsAddUp ==
    \A j \in Job :
        /\ Outstanding(j) >= 0
        /\ job[j].state \in Ended => Outstanding(j) = 0
        /\ job[j].committed = job[j].next

\* A job that has ended stays as it is, with its chunks: a slice that comes back
\* after a cancellation adds nothing (alarm).
EndedIsFinal ==
    [][\A j \in Job : job[j].state \in Ended =>
          job'[j] = job[j] /\ chunks'[j] = chunks[j]]_vars

\* A batch that was admitted ends, as long as its consumer polls: a submission that
\* dies before it has set the alarm, and an alarm that is not run again, leave
\* batches that only a poll gets going (fetch of QuotaLedger).
BatchesEnd == \A j \in Job : job[j].state \in Active ~> job[j].state \in Ended

\* The promise the two services share.
Promised(j) ==
    [state |-> IF job[j].state \in Active THEN "open"
               ELSE IF job[j].state \in Ended THEN "ended" ELSE "absent",
     size |-> IF job[j].state = "absent" THEN 0 ELSE UnitsOf(j),
     held |-> IF job[j].state = "absent" THEN 0 ELSE UnitsOf(j) - job[j].released,
     chunks |-> [i \in DOMAIN chunks[j] |->
                   [first |-> chunks[j][i].first, count |-> chunks[j][i].count]]]

Contract(j) == INSTANCE BatchContract WITH
    Size <- {Units[k] : k \in Key}, batch <- Promised(j)

\* Everything the object does to a batch is what the contract allows.
KeepsTheContract ==
    /\ \A j \in Job : Contract(j)!Init
    /\ [][\A j \in Job : Contract(j)!Step]_vars
=============================================================================
