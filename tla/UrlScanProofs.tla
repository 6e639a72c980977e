---------------------------- MODULE UrlScanProofs ----------------------------
(***************************************************************************)
(* Proofs about UrlScan: types, the walk through the histories, what is    *)
(* announced, that no job is left behind, and the quota, for any apexes,   *)
(* requests, invocations and bounds.                                       *)
(***************************************************************************)
EXTENDS UrlScan, FiniteSetTheorems, TLAPS

-----------------------------------------------------------------------------
(* Data *)

LEMMA ConstantFacts ==
    /\ LastPage \in Nat /\ MaxDay \in Nat /\ MaxFaults \in Nat
    /\ MaxDeliveries \in Nat \ {0} /\ LastAttempt \in Nat /\ LastAttempt <= MaxDeliveries
    /\ 0 \in Page /\ 0 \in Day /\ 1 \in 1..MaxDeliveries
    /\ Page \subseteq Nat /\ Day \subseteq Nat
BY UrlScanAssumption DEF Page, Day

LEMMA ApexOfType == \A j \in Job : ApexOf(j) \in Apex
BY UrlScanAssumption DEF Job, Scheduled, ApexOf

LEMMA CronFacts ==
    ASSUME TypeOK, NEW c \in Cron, cron[c].pc \in {"insert", "send", "unsend"} \/ cron[c] # Idle
    PROVE  /\ cron[c].job \in Scheduled
           /\ cron[c] \in [pc: {"insert", "send", "unsend"}, job: Scheduled]
BY DEF TypeOK, CronJob, Idle

LEMMA ClientFacts ==
    ASSUME TypeOK, NEW c \in Client
    PROVE  /\ cron \in [Cron -> CronJob]
           /\ client[c].pc # "idle" => client[c].job \in Request
           /\ client[c].pc = "insert" => client[c].cursor \in Page
           /\ client[c] # Idle => client[c].job \in Request
BY DEF TypeOK, ClientJob, Idle

LEMMA WorkerFacts ==
    ASSUME TypeOK, NEW w \in Worker, worker[w] # Idle \/ worker[w].pc # "idle"
    PROVE  /\ worker[w].job \in Job /\ worker[w].n \in 1..MaxDeliveries
           /\ worker[w] # Idle /\ worker[w].pc # "idle"
           /\ worker[w].pc = "mark" => worker[w].day \in Day
           /\ worker[w].pc = "commit" => worker[w].next \in Page
BY DEF TypeOK, WorkerJob, Idle

\* Places to go to.
LEMMA AtType ==
    ASSUME NEW pc \in {"reload", "charge", "read", "notify"}, NEW m \in Job \X (1..MaxDeliveries)
    PROVE  At(pc, m) \in WorkerJob /\ At(pc, m).job = m[1] /\ At(pc, m).pc = pc
BY DEF At, WorkerJob

LEMMA RowType ==
    ASSUME TypeOK, NEW j \in Job
    PROVE  /\ job \in [Job -> JobRow] /\ job[j] \in JobRow
           /\ CursorOf(j) \in Page
<1>1. job \in [Job -> JobRow] /\ job[j] \in JobRow
  BY DEF TypeOK
<1>2. CursorOf(j) \in Page
  BY <1>1, ConstantFacts DEF CursorOf, JobRow, Job, Scheduled
<1> QED
  BY <1>1, <1>2

\* A row keeps its type as its state, lease and mark change.
LEMMA RowUpdateType ==
    ASSUME NEW r \in JobRow, NEW s \in {"absent"} \cup Active \cup Ended, NEW l \in BOOLEAN
    PROVE  /\ [r EXCEPT !.state = s, !.live = l] \in JobRow
           /\ [r EXCEPT !.state = s, !.live = l].state = s
           /\ [r EXCEPT !.state = s, !.live = l].cursor = r.cursor
           /\ [r EXCEPT !.state = s, !.live = l].charged = r.charged
<1>1. [r EXCEPT !.state = s, !.live = l] =
        [state |-> s, cursor |-> r.cursor, charged |-> r.charged, live |-> l]
  <2>1. PICK q : q = [r EXCEPT !.state = s]
    OBVIOUS
  <2>2. q = [state |-> s, cursor |-> r.cursor, charged |-> r.charged, live |-> r.live]
    BY <2>1 DEF JobRow
  <2>3. [q EXCEPT !.live = l] =
          [state |-> s, cursor |-> r.cursor, charged |-> r.charged, live |-> l]
    BY <2>2
  <2> QED
    BY <2>1, <2>3, Zenon
<1> QED
  BY <1>1 DEF JobRow

LEMMA NewRowType ==
    /\ NoRow \in JobRow /\ NoRow.state = "absent"
    /\ \A p \in Page : /\ Queued(p) \in JobRow
                       /\ Queued(p).state = "queued" /\ Queued(p).cursor = p
                       /\ Queued(p).charged = Never
BY ConstantFacts DEF NoRow, Queued, JobRow, Active, Ended, Never

\* The messages after a failure.
LEMMA RetriesType ==
    ASSUME NEW m \in Job \X (1..MaxDeliveries), messages \subseteq Job \X (1..MaxDeliveries),
           Retries(m)
    PROVE  messages' \subseteq Job \X (1..MaxDeliveries)
BY DEF Retries

LEMMA AfterFailureType ==
    ASSUME TypeOK, NEW m \in Job \X (1..MaxDeliveries)
    PROVE  AfterFailure(m) \in [Job -> JobRow]
<1> DEFINE j == m[1]
           state == IF Terminal(m[2]) THEN "failed" ELSE "queued"
<1>1. job \in [Job -> JobRow] /\ j \in Job /\ job[j] \in JobRow
  BY RowType
<1>2. state \in {"absent"} \cup Active \cup Ended
  BY DEF Active, Ended
<1> HIDE DEF state, j
<1>3. [job[j] EXCEPT !.state = state, !.live = FALSE] \in JobRow
  BY <1>1, <1>2, RowUpdateType
<1>4. [job EXCEPT ![j] = [@ EXCEPT !.state = state, !.live = FALSE]] \in [Job -> JobRow]
  BY <1>1, <1>3
<1> QED
  BY <1>1, <1>4 DEF AfterFailure, state, j
-----------------------------------------------------------------------------
(* Types *)

LEMMA InitType == Init => TypeOK
<1> SUFFICES ASSUME Init
             PROVE  TypeOK
  OBVIOUS
<1>1. /\ today \in Day /\ source \in [Apex -> SourceRow] /\ faults \in 0..MaxFaults
      /\ used \in [Day -> Nat] /\ priorityUsed \in [Day -> Nat]
  BY ConstantFacts DEF Init, SourceRow
<1>2. job \in [Job -> JobRow] /\ object \in [Job -> Page \cup {Missing}]
  BY NewRowType DEF Init
<1>3. /\ cron \in [Cron -> CronJob] /\ client \in [Client -> ClientJob]
      /\ worker \in [Worker -> WorkerJob]
  BY DEF Init, CronJob, ClientJob, WorkerJob
<1> QED
  BY <1>1, <1>2, <1>3 DEF Init, TypeOK

\* What a schedule, a request and a delivery leave alone.
LEMMA CronFrame ==
    ASSUME TypeOK, NEW c \in Cron, NEW at \in CronJob, CronGoes(c, at),
           job' \in [Job -> JobRow], messages' \subseteq Job \X (1..MaxDeliveries),
           faults' \in 0..MaxFaults, orphaned' \subseteq Job
    PROVE  TypeOK'
<1>1. cron' \in [Cron -> CronJob]
  BY DEF CronGoes, TypeOK
<1> QED
  BY <1>1 DEF TypeOK, CronGoes, quota, stored

LEMMA ClientFrame ==
    ASSUME TypeOK, NEW c \in Client, NEW at \in ClientJob, ClientGoes(c, at),
           job' \in [Job -> JobRow], messages' \subseteq Job \X (1..MaxDeliveries),
           faults' \in 0..MaxFaults, orphaned' \subseteq Job
    PROVE  TypeOK'
<1>1. client' \in [Client -> ClientJob]
  BY DEF ClientGoes, TypeOK
<1> QED
  BY <1>1 DEF TypeOK, ClientGoes, quota, stored

LEMMA WorkerFrame ==
    ASSUME TypeOK, NEW w \in Worker, NEW at \in WorkerJob, WorkerGoes(w, at),
           source' \in [Apex -> SourceRow], job' \in [Job -> JobRow],
           used' \in [Day -> Nat], priorityUsed' \in [Day -> Nat],
           object' \in [Job -> Page \cup {Missing}], announced' \subseteq Job,
           messages' \subseteq Job \X (1..MaxDeliveries), faults' \in 0..MaxFaults
    PROVE  TypeOK'
<1>1. worker' \in [Worker -> WorkerJob]
  BY DEF WorkerGoes, TypeOK
<1> QED
  BY <1>1 DEF TypeOK, WorkerGoes

LEMMA FaultType ==
    ASSUME TypeOK, Fault
    PROVE  faults' \in 0..MaxFaults
BY ConstantFacts DEF TypeOK, Fault

LEMMA JobForType ==
    ASSUME TypeOK, NEW a \in Recurring
    PROVE  JobFor(a) \in Scheduled /\ JobFor(a).apex = a
           /\ (source[a].cursor # 0 => JobFor(a).by = "cursor" /\ JobFor(a).n = source[a].cursor)
           /\ (source[a].cursor = 0 => JobFor(a).by = "day")
<1>1. source[a].cursor \in Page /\ today \in Day
  BY UrlScanAssumption DEF TypeOK, SourceRow
<1> QED
  BY <1>1 DEF JobFor, Scheduled

LEMMA CronType ==
    ASSUME TypeOK, NEW c \in Cron,
           (\E a \in Recurring : CronReads(c, a)) \/ CronStep(c) \/ CronDies(c)
    PROVE  TypeOK'
<1>1. /\ job \in [Job -> JobRow] /\ messages \subseteq Job \X (1..MaxDeliveries)
      /\ faults \in 0..MaxFaults /\ orphaned \subseteq Job /\ Scheduled \subseteq Job
      /\ 1 \in 1..MaxDeliveries /\ Idle \in CronJob
  BY ConstantFacts DEF TypeOK, Job, CronJob
<1>2. ASSUME NEW a \in Recurring, CronReads(c, a) PROVE TypeOK'
  <2>1. [pc |-> "insert", job |-> JobFor(a)] \in CronJob
    BY JobForType DEF CronJob
  <2> QED
    BY <1>1, <1>2, <2>1, CronFrame DEF CronReads
<1>3. CASE CronInserts(c)
  <2>1. cron[c].job \in Scheduled /\ [cron[c] EXCEPT !.pc = "send"] \in CronJob
    BY <1>3, CronFacts DEF CronInserts, CronJob
  <2>2. job' \in [Job -> JobRow]
    <3>1. Queued(0) \in JobRow
      BY ConstantFacts, NewRowType
    <3> QED
      BY <1>1, <1>3, <2>1, <3>1 DEF CronInserts
  <2>3. CronGoes(c, [cron[c] EXCEPT !.pc = "send"]) \/ CronGoes(c, Idle)
    BY <1>3 DEF CronInserts
  <2>4. messages' = messages /\ faults' = faults /\ orphaned' = orphaned
    BY <1>3 DEF CronInserts
  <2> QED
    BY <1>1, <2>1, <2>2, <2>3, <2>4, CronFrame
<1>4. CASE CronSends(c)
  <2>1. cron[c].job \in Scheduled /\ [cron[c] EXCEPT !.pc = "unsend"] \in CronJob
    BY <1>4, CronFacts DEF CronSends, CronJob
  <2>2. CronGoes(c, Idle) \/ CronGoes(c, [cron[c] EXCEPT !.pc = "unsend"])
    BY <1>4 DEF CronSends
  <2>3. messages' \subseteq Job \X (1..MaxDeliveries) /\ orphaned' \subseteq Job
    BY <1>1, <1>4, <2>1 DEF CronSends, Sends, SendFails
  <2>4. faults' \in 0..MaxFaults
    BY <1>1, <1>4, FaultType DEF CronSends, Sends, SendFails
  <2>5. job' = job
    BY <1>4 DEF CronSends
  <2> QED
    BY <1>1, <2>1, <2>2, <2>3, <2>4, <2>5, CronFrame
<1>5. CASE CronUnsends(c)
  <2>1. cron[c].job \in Scheduled
    BY <1>5, CronFacts DEF CronUnsends
  <2>2. job' \in [Job -> JobRow]
    BY <1>1, <1>5, <2>1, NewRowType DEF CronUnsends
  <2> QED
    BY <1>1, <1>5, <2>2, CronFrame DEF CronUnsends
<1>6. CASE CronDies(c)
  <2>1. /\ faults' \in 0..MaxFaults /\ orphaned' \subseteq Job
        /\ cron' \in [Cron -> CronJob]
    BY <1>1, <1>6, FaultType, CronFacts DEF CronDies, TypeOK
  <2> QED
    BY <1>6, <2>1 DEF CronDies, TypeOK, quota, stored
<1> QED
  BY <1>2, <1>3, <1>4, <1>5, <1>6 DEF CronStep

LEMMA AnswerType ==
    ASSUME NEW j \in Request, NEW status \in {202, 409, 503}
    PROVE  Answer(j, status) \in ClientJob /\ Answer(j, status).pc = "answer"
BY DEF Answer, ClientJob

LEMMA WithJobType ==
    ASSUME NEW j \in Request
    PROVE  /\ WithJob(j) \in ClientJob
           /\ WithJob(j).pc \in {"send", "answer"} /\ WithJob(j).job = j
           /\ WithJob(j).pc = "send" => job[j].state = "queued"
<1>1. CASE job[j].state = "queued"
  BY <1>1 DEF WithJob, ClientJob
<1>2. CASE job[j].state # "queued"
  <2>1. WithJob(j) = Answer(j, 202)
    BY <1>2 DEF WithJob
  <2>2. Answer(j, 202) \in ClientJob /\ Answer(j, 202).pc = "answer" /\ Answer(j, 202).job = j
    BY AnswerType DEF Answer
  <2> QED
    BY <2>1, <2>2
<1> QED
  BY <1>1, <1>2

LEMMA ClientType ==
    ASSUME TypeOK, NEW c \in Client, ClientStep(c) \/ \E j \in Request : ClientAsks(c, j)
    PROVE  TypeOK'
<1>1. /\ job \in [Job -> JobRow] /\ messages \subseteq Job \X (1..MaxDeliveries)
      /\ faults \in 0..MaxFaults /\ orphaned \subseteq Job /\ Request \subseteq Job
      /\ 1 \in 1..MaxDeliveries /\ Idle \in ClientJob
  BY ConstantFacts DEF TypeOK, Job, ClientJob
<1>2. ASSUME NEW j \in Request, ClientAsks(c, j) PROVE TypeOK'
  <2>1. source[Target[j]].cursor \in Page
    BY UrlScanAssumption DEF TypeOK, SourceRow
  <2>2. [pc |-> "insert", job |-> j, cursor |-> source[Target[j]].cursor] \in ClientJob
    BY <2>1 DEF ClientJob
  <2>3. \E at \in ClientJob : ClientGoes(c, at)
    BY <1>2, <2>2, AnswerType, WithJobType DEF ClientAsks
  <2> QED
    BY <1>1, <1>2, <2>3, ClientFrame DEF ClientAsks
<1>3. CASE ClientInserts(c)
  <2>1. client[c].job \in Request /\ client[c].cursor \in Page
    BY <1>3, ClientFacts DEF ClientInserts
  <2>2. [pc |-> "send", job |-> client[c].job] \in ClientJob
    BY <2>1 DEF ClientJob
  <2>3. \E at \in ClientJob : ClientGoes(c, at)
    BY <1>3, <2>1, <2>2, AnswerType, WithJobType DEF ClientInserts
  <2>4. job' \in [Job -> JobRow]
    BY <1>1, <1>3, <2>1, NewRowType DEF ClientInserts
  <2> QED
    BY <1>1, <1>3, <2>3, <2>4, ClientFrame DEF ClientInserts
<1>4. CASE ClientSends(c)
  <2>1. client[c].job \in Request
    BY <1>4, ClientFacts DEF ClientSends
  <2>2. \E at \in ClientJob : ClientGoes(c, at)
    BY <1>4, <2>1, AnswerType DEF ClientSends
  <2>3. messages' \subseteq Job \X (1..MaxDeliveries) /\ orphaned' \subseteq Job
    BY <1>1, <1>4, <2>1 DEF ClientSends, Sends, SendFails
  <2>4. faults' \in 0..MaxFaults
    BY <1>1, <1>4, FaultType DEF ClientSends, Sends, SendFails
  <2> QED
    BY <1>1, <1>4, <2>2, <2>3, <2>4, ClientFrame DEF ClientSends
<1>5. CASE ClientIsAnswered(c)
  BY <1>1, <1>5, ClientFrame DEF ClientIsAnswered
<1> QED
  BY <1>2, <1>3, <1>4, <1>5 DEF ClientStep

\* Facts each delivery needs.
LEMMA StateFacts ==
    ASSUME TypeOK
    PROVE  /\ source \in [Apex -> SourceRow] /\ job \in [Job -> JobRow]
           /\ used \in [Day -> Nat] /\ priorityUsed \in [Day -> Nat]
           /\ object \in [Job -> Page \cup {Missing}] /\ announced \subseteq Job
           /\ messages \subseteq Job \X (1..MaxDeliveries) /\ faults \in 0..MaxFaults
           /\ Idle \in WorkerJob /\ today \in Day
BY DEF TypeOK, WorkerJob

LEMMA ThrowsType ==
    ASSUME TypeOK, NEW w \in Worker, NEW m \in Job \X (1..MaxDeliveries), Throws(w, m),
           faults' \in 0..MaxFaults
    PROVE  TypeOK'
<1>1. job' \in [Job -> JobRow] /\ messages' \subseteq Job \X (1..MaxDeliveries)
  BY StateFacts, AfterFailureType, RetriesType DEF Throws
<1> QED
  BY <1>1, StateFacts, WorkerFrame DEF Throws, quota, stored

LEMMA WorkerType ==
    ASSUME TypeOK, NEW w \in Worker, WorkerStep(w) \/ WorkerThrows(w) \/ WorkerDies(w)
    PROVE  TypeOK'
<1>0. worker[w] # Idle => Message(w) \in Job \X (1..MaxDeliveries)
  BY WorkerFacts DEF Message
<1>1. ASSUME NEW m \in messages, Loads(w, m) PROVE TypeOK'
  <2>1. m \in Job \X (1..MaxDeliveries)
    BY StateFacts
  <2>2. CASE job[m[1]].state = "absent"
    BY <1>1, <2>1, <2>2, ThrowsType, StateFacts DEF Loads
  <2>3. CASE job[m[1]].state # "absent"
    <3>1. [pc |-> "claim", job |-> m[1], n |-> m[2], paid |-> IsCharged(job[m[1]])] \in WorkerJob
      BY <2>1 DEF IsCharged, WorkerJob
    <3>2. \E at \in WorkerJob : WorkerGoes(w, at)
      BY <1>1, <2>1, <2>3, <3>1, AtType DEF Loads
    <3> QED
      BY <1>1, <2>3, <3>2, StateFacts, WorkerFrame DEF Loads, quota, stored
  <2> QED
    BY <2>2, <2>3
<1>2. ASSUME NEW pc \in {"reload", "charge", "read", "notify"}, worker[w] # Idle
      PROVE  To(w, pc) \in WorkerJob
  BY <1>0, <1>2, AtType DEF To
<1>3. CASE Claims(w)
  <2>1. worker[w] # Idle /\ worker[w].job \in Job
    BY <1>3, WorkerFacts DEF Claims
  <2>2. [job[worker[w].job] EXCEPT !.state = "running", !.live = TRUE] \in JobRow
    BY <2>1, StateFacts, RowUpdateType DEF Active
  <2>3. job' \in [Job -> JobRow]
    BY <1>3, <2>1, <2>2, StateFacts DEF Claims
  <2>4. \E at \in WorkerJob : WorkerGoes(w, at)
    BY <1>2, <1>3, <2>1 DEF Claims
  <2> QED
    BY <1>3, <2>3, <2>4, StateFacts, WorkerFrame DEF Claims, quota, stored
<1>4. CASE ClaimRefused(w) \/ Reloads(w)
  <2>1. worker[w] # Idle
    BY <1>4 DEF ClaimRefused, Reloads, Idle
  <2>2. \E at \in WorkerJob : WorkerGoes(w, at)
    BY <1>2, <1>4, <2>1 DEF ClaimRefused, Reloads
  <2> QED
    BY <1>4, <2>2, StateFacts, WorkerFrame DEF ClaimRefused, Reloads, quota, stored
<1>5. CASE Charges(w)
  <2>1. worker[w].job \in Job /\ worker[w].n \in 1..MaxDeliveries
    BY <1>5, WorkerFacts DEF Charges
  <2>2. [pc |-> "mark", job |-> worker[w].job, n |-> worker[w].n, day |-> today] \in WorkerJob
    BY <2>1, StateFacts DEF WorkerJob
  <2>3. used' \in [Day -> Nat] /\ priorityUsed' \in [Day -> Nat]
    <3>1. used[today] + 1 \in Nat /\ priorityUsed[today] + 1 \in Nat
      BY StateFacts
    <3> QED
      BY <1>5, <3>1, StateFacts DEF Charges
  <2> QED
    BY <1>5, <2>2, <2>3, StateFacts, WorkerFrame DEF Charges, stored
<1>6. CASE Marks(w)
  <2>1. worker[w] # Idle /\ worker[w].job \in Job /\ worker[w].day \in Day
    BY <1>6, WorkerFacts DEF Marks
  <2>2. [job[worker[w].job] EXCEPT !.charged = worker[w].day] \in JobRow
    BY <2>1, StateFacts DEF JobRow
  <2>3. job' \in [Job -> JobRow]
    BY <1>6, <2>1, <2>2, StateFacts DEF Marks, DayOfCharge
  <2>4. \E at \in WorkerJob : WorkerGoes(w, at)
    BY <1>2, <1>6, <2>1 DEF Marks
  <2> QED
    BY <1>6, <2>3, <2>4, StateFacts, WorkerFrame DEF Marks, quota, stored
<1>7. CASE Reads(w)
  <2>1. worker[w].job \in Job /\ worker[w].n \in 1..MaxDeliveries
    BY <1>7, WorkerFacts DEF Reads
  <2>2. PICK next \in Following(CursorOf(worker[w].job)) :
          /\ object' = [object EXCEPT ![worker[w].job] = next]
          /\ WorkerGoes(w, [pc |-> "commit", job |-> worker[w].job, n |-> worker[w].n,
                            next |-> next])
    BY <1>7 DEF Reads
  <2>3. next \in Page
    BY ConstantFacts DEF Following
  <2>4. [pc |-> "commit", job |-> worker[w].job, n |-> worker[w].n, next |-> next] \in WorkerJob
    BY <2>1, <2>3 DEF WorkerJob
  <2>5. object' \in [Job -> Page \cup {Missing}]
    BY <2>1, <2>2, <2>3, StateFacts
  <2> QED
    BY <1>7, <2>2, <2>4, <2>5, StateFacts, WorkerFrame DEF Reads, quota
<1>8. CASE Commits(w)
  <2>1. worker[w] # Idle /\ worker[w].job \in Job /\ worker[w].next \in Page
    BY <1>8, WorkerFacts DEF Commits
  <2>2. [job[worker[w].job] EXCEPT !.state = "complete", !.live = FALSE] \in JobRow
    BY <2>1, StateFacts, RowUpdateType DEF Ended
  <2>3. job' \in [Job -> JobRow]
    BY <1>8, <2>1, <2>2, StateFacts DEF Commits
  <2>4. source' \in [Apex -> SourceRow]
    <3>1. today \in 0..(MaxDay + 1) /\ today + 1 \in 0..(MaxDay + 1)
      BY ConstantFacts, StateFacts DEF Day
    <3>2. [cursor |-> worker[w].next, due |-> IF worker[w].next = 0 THEN today + 1 ELSE today]
            \in SourceRow
      BY <2>1, <3>1 DEF SourceRow
    <3> QED
      BY <1>8, <2>1, <3>2, StateFacts, ApexOfType DEF Commits, CursorAfter
  <2>5. \E at \in WorkerJob : WorkerGoes(w, at)
    BY <1>2, <1>8, <2>1 DEF Commits
  <2> QED
    BY <1>8, <2>3, <2>4, <2>5, StateFacts, WorkerFrame DEF Commits, quota, stored
<1>9. CASE Notifies(w)
  <2>1. worker[w].job \in Job
    BY <1>9, WorkerFacts DEF Notifies
  <2>2. announced' \subseteq Job /\ messages' \subseteq Job \X (1..MaxDeliveries)
    BY <1>9, <2>1, StateFacts DEF Notifies
  <2> QED
    BY <1>9, <2>2, StateFacts, WorkerFrame DEF Notifies, quota
<1>10. CASE GivesUp(w)
  <2>1. worker[w] # Idle
    BY <1>10 DEF GivesUp, Idle
  <2> QED
    BY <1>0, <1>10, <2>1, ThrowsType, StateFacts DEF GivesUp
<1>11. CASE WorkerThrows(w)
  BY <1>0, <1>11, ThrowsType, FaultType DEF WorkerThrows
<1>12. CASE WorkerDies(w)
  <2>1. messages' \subseteq Job \X (1..MaxDeliveries)
    BY <1>0, <1>12, RetriesType, StateFacts DEF WorkerDies
  <2>2. worker' \in [Worker -> WorkerJob] /\ faults' \in 0..MaxFaults
    BY <1>12, FaultType, StateFacts DEF WorkerDies, TypeOK
  <2>3. orphaned' \subseteq Job
    BY <1>12, WorkerFacts DEF WorkerDies, TypeOK
  <2> QED
    BY <1>12, <2>1, <2>2, <2>3 DEF WorkerDies, TypeOK, quota, stored
<1> QED
  BY <1>1, <1>3, <1>4, <1>5, <1>6, <1>7, <1>8, <1>9, <1>10, <1>11, <1>12 DEF WorkerStep

LEMMA TimeType ==
    ASSUME TypeOK, Midnight \/ (\E j \in Job : LeaseExpires(j)) \/ UNCHANGED vars
    PROVE  TypeOK'
<1>1. CASE Midnight
  BY <1>1, ConstantFacts DEF Midnight, TypeOK, Day, quota, stored
<1>2. ASSUME NEW j \in Job, LeaseExpires(j) PROVE TypeOK'
  <2>1. [job[j] EXCEPT !.live = FALSE] \in JobRow
    BY StateFacts DEF JobRow
  <2>2. job' \in [Job -> JobRow]
    BY <1>2, <2>1, StateFacts DEF LeaseExpires
  <2>3. faults' \in 0..MaxFaults
    BY <1>2, FaultType, StateFacts DEF LeaseExpires
  <2> QED
    BY <1>2, <2>2, <2>3 DEF LeaseExpires, TypeOK, quota, stored
<1>3. CASE UNCHANGED vars
  BY <1>3 DEF vars, TypeOK
<1> QED
  BY <1>1, <1>2, <1>3

LEMMA NextType == TypeOK /\ [Next]_vars => TypeOK'
BY CronType, ClientType, WorkerType, TimeType DEF Next, Runs

\* Every variable keeps its type: cursors stay within the history, and a job of a
\* request is never in the hands of a schedule (TypeOK).
THEOREM TypeCorrect == Spec => []TypeOK
<1> QED
  BY InitType, NextType, PTL DEF Spec
-----------------------------------------------------------------------------
(* The invariant *)

\* The pages before a job's have been read, by the job the cursor came from and
\* those before it, wherever the cursor was taken up.
Walks(j) == ReadUpTo(ApexOf(j), CursorOf(j))

PagesInOrder ==
    /\ NoPageIsSkipped
    /\ \A j \in Job : job[j].state # "absent" => Walks(j)
    /\ \A c \in Cron : cron[c].pc = "insert" => Walks(cron[c].job)
    /\ \A c \in Client : client[c].pc = "insert" =>
         ReadUpTo(Target[client[c].job], client[c].cursor)
    /\ \A w \in Worker : worker[w] # Idle => Walks(worker[w].job)
    /\ \A w \in Worker : worker[w].pc = "commit" =>
         /\ worker[w].job \in Read
         /\ worker[w].next \in Following(CursorOf(worker[w].job))

\* The row of a request is never deleted.
RequestsStay ==
    /\ \A j \in Request : j \in Read => job[j].state # "absent"
    /\ \A w \in Worker : worker[w] # Idle /\ worker[w].job \in Request =>
         job[worker[w].job].state # "absent"
    /\ \A c \in Client : client[c].pc = "send" => job[client[c].job].state # "absent"

\* A job is told of once it is complete, or its row was deleted under it.
IsSettled(j) == j \in Read /\ (job[j].state = "complete" \/ j \in orphaned)

TellsWhatIsStored ==
    /\ \A j \in Job : job[j].state = "complete" => j \in Read
    /\ \A w \in Worker : worker[w].pc = "notify" => IsSettled(worker[w].job)
    /\ \A j \in announced : IsSettled(j)

\* A delivery is at job j, a schedule that has inserted its row is to send it, a
\* request is.
IsAt(w, j) == worker[w] # Idle /\ worker[w].job = j
IsSending(c, j) == cron[c].pc \in {"send", "unsend"} /\ cron[c].job = j
IsAsking(c, j) == client[c].pc = "send" /\ client[c].job = j
IsDue(n, j) == <<j, n>> \in messages

\* Neither a message nor a delivery is there for j.
IsUnsent(j) ==
    /\ \A w \in Worker : ~IsAt(w, j)
    /\ \A n \in 1..MaxDeliveries : ~IsDue(n, j)

\* Beside the property: what there is of a job that is not there, or is not sent yet.
IsLookedAfter(j) ==
    /\ job[j].state \in Active =>
         \/ \E n \in 1..MaxDeliveries : IsDue(n, j)
         \/ \E c \in Cron : IsSending(c, j)
         \/ \E c \in Client : IsAsking(c, j)
         \/ \E w \in Worker : IsAt(w, j)
    /\ job[j].state = "absent" => IsUnsent(j)
    /\ \A c \in Cron : IsSending(c, j) =>
         /\ job[j].state = "queued"
         /\ IsUnsent(j)
         /\ \A d \in Cron : IsSending(d, j) => d = c

NoneIsLeft == \A j \in Job : j \notin orphaned => IsLookedAfter(j)

ScanInv == TypeOK /\ PagesInOrder /\ RequestsStay /\ TellsWhatIsStored /\ NoneIsLeft
-----------------------------------------------------------------------------
(* What a step does to the rows *)

KeepsRow(k) ==
    /\ job'[k].cursor = job[k].cursor
    /\ (job'[k].state = "absent") <=> (job[k].state = "absent")
    /\ job[k].state = "complete" => job'[k].state = "complete"

LEMMA UpdateKeeps ==
    ASSUME TypeOK, NEW j \in Job, job[j].state # "absent",
           NEW s \in Active \cup Ended, NEW l \in BOOLEAN,
           job[j].state = "complete" => s = "complete",
           job' = [job EXCEPT ![j] = [@ EXCEPT !.state = s, !.live = l]]
    PROVE  /\ job'[j].state = s
           /\ \A k \in Job : KeepsRow(k) /\ (k # j => job'[k] = job[k])
<1>1. PICK r : r = [job[j] EXCEPT !.state = s, !.live = l]
  OBVIOUS
<1>2. r.state = s /\ r.cursor = job[j].cursor
  <2>1. job[j] \in JobRow /\ s \in {"absent"} \cup Active \cup Ended
    BY RowType
  <2> QED
    BY <1>1, <2>1, RowUpdateType, Zenon
<1>3. job' = [job EXCEPT ![j] = r]
  BY <1>1, Zenon
<1>4. s # "absent"
  BY DEF Active, Ended
<1> QED
  BY <1>2, <1>3, <1>4, RowType DEF KeepsRow

\* The rows after a failure: that of the job may be queued or given up, unless it is
\* complete; it is left active only if its message is retried.
LEMMA FailureKeeps ==
    ASSUME TypeOK, NEW m \in Job \X (1..MaxDeliveries), job' = AfterFailure(m)
    PROVE  /\ \A k \in Job : KeepsRow(k) /\ (k # m[1] => job'[k] = job[k])
           /\ job'[m[1]].state \in Active => m[2] + 1 \in 1..MaxDeliveries
<1> DEFINE j == m[1]
           state == IF Terminal(m[2]) THEN "failed" ELSE "queued"
<1>1. j \in Job /\ job[j] \in JobRow /\ job \in [Job -> JobRow] /\ m[2] \in 1..MaxDeliveries
  BY RowType
<1>2. state \in Active \cup Ended
  BY DEF Active, Ended
<1>3. ~Terminal(m[2]) => m[2] + 1 \in 1..MaxDeliveries
  BY <1>1, ConstantFacts DEF Terminal
<1>4. CASE ~Failable(j)
  BY <1>1, <1>4 DEF Failable, AfterFailure, KeepsRow, Active
<1>5. CASE Failable(j) /\ state = "queued" /\ Barred(j)
  <2>1. job' = job /\ ~Terminal(m[2])
    BY <1>5 DEF AfterFailure
  <2> QED
    BY <1>1, <1>3, <2>1 DEF KeepsRow
<1>6. CASE Failable(j) /\ ~(state = "queued" /\ Barred(j))
  <2>1. job' = [job EXCEPT ![j] = [@ EXCEPT !.state = state, !.live = FALSE]]
    BY <1>6 DEF AfterFailure
  <2>2. job[j].state # "absent" /\ job[j].state # "complete"
    BY <1>6 DEF Failable
  <2>3. state \in Active => ~Terminal(m[2])
    BY DEF Active
  <2> HIDE DEF state, j
  <2>4. /\ job'[j].state = state
        /\ \A k \in Job : KeepsRow(k) /\ (k # j => job'[k] = job[k])
    BY <1>1, <1>2, <2>1, <2>2, UpdateKeeps
  <2> QED
    BY <1>3, <2>3, <2>4 DEF j
<1> QED
  BY <1>4, <1>5, <1>6

\* A delivery throws.
LEMMA ThrowsKeeps ==
    ASSUME TypeOK, NEW w \in Worker, NEW m \in Job \X (1..MaxDeliveries), Throws(w, m)
    PROVE  /\ \A k \in Job : KeepsRow(k) /\ (k # m[1] => job'[k] = job[k])
           /\ job'[m[1]].state \in Active => <<m[1], m[2] + 1>> \in messages'
           /\ \A k \in Job : k # m[1] =>
                \A n \in 1..MaxDeliveries : <<k, n>> \in messages' <=> <<k, n>> \in messages
           /\ worker' = [worker EXCEPT ![w] = Idle]
           /\ source' = source /\ object' = object /\ announced' = announced
           /\ cron' = cron /\ client' = client /\ orphaned' = orphaned
<1>1. /\ \A k \in Job : KeepsRow(k) /\ (k # m[1] => job'[k] = job[k])
      /\ job'[m[1]].state \in Active => m[2] + 1 \in 1..MaxDeliveries
  BY FailureKeeps DEF Throws
<1>2. messages' = (messages \ {m}) \cup {<<m[1], n>> : n \in {m[2] + 1} \cap (1..MaxDeliveries)}
  BY DEF Throws, Retries
<1>3. ASSUME m[2] + 1 \in 1..MaxDeliveries PROVE <<m[1], m[2] + 1>> \in messages'
  BY <1>2, <1>3
<1>4. ASSUME NEW k \in Job, k # m[1], NEW n \in 1..MaxDeliveries
      PROVE  <<k, n>> \in messages' <=> <<k, n>> \in messages
  BY <1>2, <1>4
<1> QED
  BY <1>1, <1>3, <1>4 DEF Throws, WorkerGoes, stored

\* The steps of a delivery between the load and the announcement.
Moves(w) ==
    \/ Claims(w) \/ ClaimRefused(w) \/ Reloads(w) \/ Charges(w) \/ Marks(w)
    \/ Reads(w) \/ Commits(w)

LEMMA MovesKeep ==
    ASSUME TypeOK, NEW w \in Worker, Moves(w)
    PROVE  /\ worker[w] # Idle /\ worker[w].job \in Job
           /\ \A k \in Job : KeepsRow(k) /\ (k # worker[w].job => job'[k] = job[k])
           /\ messages' = messages /\ announced' = announced /\ orphaned' = orphaned
           /\ cron' = cron /\ client' = client
           /\ \A v \in Worker : v # w => worker'[v] = worker[v]
           /\ worker'[w] # Idle /\ worker'[w].job = worker[w].job
<1>1. worker[w] # Idle /\ worker[w].job \in Job /\ worker[w].n \in 1..MaxDeliveries
  BY WorkerFacts DEF Moves, Claims, ClaimRefused, Reloads, Charges, Marks, Reads, Commits
<1> DEFINE j == worker[w].job
<1>2. worker \in [Worker -> WorkerJob] /\ job \in [Job -> JobRow] /\ job[j] \in JobRow
  BY <1>1 DEF TypeOK
<1>3. ASSUME NEW pc \in {"reload", "charge", "read", "notify"}
      PROVE  To(w, pc).pc = pc /\ To(w, pc).job = j
  BY DEF To, At, Message
<1>4. ASSUME job' = job
      PROVE  \A k \in Job : KeepsRow(k) /\ (k # j => job'[k] = job[k])
  BY <1>4 DEF KeepsRow
<1>5. /\ messages' = messages /\ announced' = announced /\ orphaned' = orphaned
      /\ cron' = cron /\ client' = client
  BY DEF Moves, Claims, ClaimRefused, Reloads, Charges, Marks, Reads, Commits, WorkerGoes, stored
<1>6. \A k \in Job : KeepsRow(k) /\ (k # j => job'[k] = job[k])
  <2>1. CASE Claims(w)
    <3>1. /\ job[j].state # "absent" /\ job[j].state # "complete"
          /\ job' = [job EXCEPT ![j] = [@ EXCEPT !.state = "running", !.live = TRUE]]
      BY <2>1 DEF Claims, Claimable
    <3>2. "running" \in Active \cup Ended /\ TRUE \in BOOLEAN
      BY DEF Active
    <3> HIDE DEF j
    <3> QED
      BY <1>1, <3>1, <3>2, UpdateKeeps DEF j
  <2>2. CASE ClaimRefused(w) \/ Reloads(w) \/ Charges(w) \/ Reads(w)
    BY <1>4, <2>2 DEF ClaimRefused, Reloads, Charges, Reads
  <2>3. CASE Marks(w)
    BY <1>1, <1>2, <2>3 DEF Marks, KeepsRow, JobRow
  <2>4. CASE Commits(w) /\ job[j].state = "absent"
    BY <1>4, <2>4 DEF Commits
  <2>5. CASE Commits(w) /\ job[j].state # "absent"
    <3>1. job' = [job EXCEPT ![j] = [@ EXCEPT !.state = "complete", !.live = FALSE]]
      BY <2>5 DEF Commits
    <3>2. "complete" \in Active \cup Ended /\ FALSE \in BOOLEAN
      BY DEF Ended
    <3> HIDE DEF j
    <3> QED
      BY <1>1, <2>5, <3>1, <3>2, UpdateKeeps DEF j
  <2> QED
    BY <2>1, <2>2, <2>3, <2>4, <2>5 DEF Moves
<1>7. \E at : worker' = [worker EXCEPT ![w] = at] /\ at.pc # "idle" /\ at.job = j
  <2>1. CASE Claims(w) \/ ClaimRefused(w) \/ Reloads(w) \/ Marks(w) \/ Commits(w)
    BY <1>3, <2>1 DEF Claims, ClaimRefused, Reloads, Marks, Commits, WorkerGoes
  <2>2. CASE Charges(w) \/ Reads(w)
    BY <2>2 DEF Charges, Reads, WorkerGoes
  <2> QED
    BY <2>1, <2>2 DEF Moves
<1> QED
  BY <1>1, <1>2, <1>5, <1>6, <1>7 DEF Idle

\* What every step keeps: pages that are read, jobs that are complete, and the rows
\* of requests.
Persists ==
    /\ \A j \in Job : j \in Read => object'[j] # Missing
    /\ \A j \in Job : job[j].state = "complete" => job'[j].state = "complete"
    /\ \A j \in Request : job[j].state # "absent" =>
         job'[j].state # "absent" /\ job'[j].cursor = job[j].cursor
    /\ announced \subseteq announced' /\ orphaned \subseteq orphaned'

LEMMA RequestFacts ==
    Request \subseteq Job /\ Scheduled \subseteq Job /\ \A j \in Request : j \notin Scheduled
BY RequestsAreNotScheduled DEF Job

LEMMA CronPersists ==
    ASSUME TypeOK, NEW c \in Cron,
           (\E a \in Recurring : CronReads(c, a)) \/ CronStep(c) \/ CronDies(c)
    PROVE  Persists
<1>1. object' = object /\ announced' = announced /\ orphaned \subseteq orphaned'
  BY DEF CronReads, CronStep, CronInserts, CronSends, CronUnsends, CronDies, CronGoes, stored,
         Sends, SendFails
<1>2. job \in [Job -> JobRow]
  BY DEF TypeOK
<1>3. CASE UNCHANGED job
  BY <1>1, <1>3 DEF Persists, Read
<1>4. CASE CronInserts(c) /\ job' # job
  BY <1>1, <1>2, <1>4, CronFacts, RequestFacts DEF CronInserts, Persists, Read
<1>5. CASE CronUnsends(c) /\ job' # job
  BY <1>1, <1>2, <1>5, CronFacts, RequestFacts DEF CronUnsends, Persists, Read
<1> QED
  BY <1>3, <1>4, <1>5 DEF CronReads, CronStep, CronSends, CronDies

LEMMA ClientPersists ==
    ASSUME TypeOK, NEW c \in Client, ClientStep(c) \/ \E j \in Request : ClientAsks(c, j)
    PROVE  Persists
<1>1. object' = object /\ announced' = announced /\ orphaned \subseteq orphaned'
  BY DEF ClientStep, ClientAsks, ClientInserts, ClientSends, ClientIsAnswered, ClientGoes, stored,
         Sends, SendFails
<1>2. job \in [Job -> JobRow]
  BY DEF TypeOK
<1>3. CASE UNCHANGED job
  BY <1>1, <1>3 DEF Persists, Read
<1>4. CASE ClientInserts(c) /\ job' # job
  <2>1. PICK j : j = client[c].job
    OBVIOUS
  <2>2. j \in Request /\ job[j].state = "absent"
    BY <1>4, <2>1, ClientFacts DEF ClientInserts
  <2>3. job' = [job EXCEPT ![j] = Queued(client[c].cursor)]
    BY <1>4, <2>1 DEF ClientInserts
  <2>4. \A k \in Job : job[k].state # "absent" => job'[k] = job[k]
    BY <1>2, <2>2, <2>3
  <2> QED
    BY <1>1, <2>4, RequestFacts DEF Persists, Read
<1> QED
  BY <1>3, <1>4 DEF ClientStep, ClientAsks, ClientSends, ClientIsAnswered

\* The load of a row that is there, which turns to the announcement if it is complete.
LEMMA LoadsThere ==
    ASSUME TypeOK, NEW w \in Worker, NEW m \in messages, Loads(w, m),
           job[m[1]].state # "absent"
    PROVE  /\ worker[w] = Idle /\ m[1] \in Job /\ m[2] \in 1..MaxDeliveries
           /\ UNCHANGED <<source, job, object, announced, messages, cron, client, orphaned>>
           /\ \A v \in Worker : v # w => worker'[v] = worker[v]
           /\ worker'[w] # Idle /\ worker'[w].job = m[1]
           /\ worker'[w].pc \in {"notify", "claim"}
           /\ worker'[w].pc = "notify" => job[m[1]].state = "complete"
           /\ worker'[w].pc = "claim" => worker'[w].paid = IsCharged(job[m[1]])
<1>1. m[1] \in Job /\ m[2] \in 1..MaxDeliveries /\ worker \in [Worker -> WorkerJob]
  BY DEF TypeOK
<1>2. UNCHANGED <<source, job, object, announced, messages, cron, client, orphaned>>
  BY DEF Loads, WorkerGoes, stored
<1>3. CASE job[m[1]].state = "complete"
  BY <1>1, <1>2, <1>3, AtType DEF Loads, WorkerGoes, At, Idle
<1>4. CASE job[m[1]].state # "complete"
  BY <1>1, <1>2, <1>4 DEF Loads, WorkerGoes, Idle
<1> QED
  BY <1>3, <1>4

\* The load of a row that is not there, and what ends a delivery with an error.
Fails(w, m) ==
    \/ m \in messages /\ Loads(w, m) /\ job[m[1]].state = "absent"
    \/ m = Message(w) /\ worker[w] # Idle /\ (GivesUp(w) \/ WorkerThrows(w))

LEMMA FailsThrow ==
    ASSUME TypeOK, NEW w \in Worker, NEW m, Fails(w, m)
    PROVE  /\ m \in Job \X (1..MaxDeliveries) /\ Throws(w, m)
           /\ worker[w] # Idle => worker[w].job = m[1]
           /\ worker[w] = Idle => job[m[1]].state = "absent" /\ m \in messages
<1>1. CASE m \in messages /\ Loads(w, m) /\ job[m[1]].state = "absent"
  BY <1>1 DEF Loads, TypeOK
<1>2. CASE m = Message(w) /\ worker[w] # Idle /\ (GivesUp(w) \/ WorkerThrows(w))
  BY <1>2, WorkerFacts DEF GivesUp, WorkerThrows, Message
<1> QED
  BY <1>1, <1>2 DEF Fails

\* A step of a delivery is one of five kinds.
LEMMA WorkerKinds ==
    ASSUME TypeOK, NEW w \in Worker, WorkerStep(w) \/ WorkerThrows(w) \/ WorkerDies(w)
    PROVE  \/ \E m \in messages : Loads(w, m) /\ job[m[1]].state # "absent"
           \/ Moves(w)
           \/ Notifies(w)
           \/ \E m \in Job \X (1..MaxDeliveries) : Fails(w, m)
           \/ WorkerDies(w)
<1>1. GivesUp(w) => worker[w] # Idle
  BY DEF GivesUp, Idle
<1>2. worker[w] # Idle => Message(w) \in Job \X (1..MaxDeliveries)
  BY WorkerFacts DEF Message
<1>3. messages \subseteq Job \X (1..MaxDeliveries)
  BY DEF TypeOK
<1>4. WorkerThrows(w) => worker[w] # Idle
  BY DEF WorkerThrows
<1> QED
  BY <1>1, <1>2, <1>3, <1>4 DEF WorkerStep, Moves, Fails

LEMMA WorkerPersists ==
    ASSUME TypeOK, NEW w \in Worker, WorkerStep(w) \/ WorkerThrows(w) \/ WorkerDies(w)
    PROVE  Persists
<1>1. ASSUME \A k \in Job : KeepsRow(k),
             \A j \in Job : j \in Read => object'[j] # Missing,
             announced \subseteq announced', orphaned \subseteq orphaned'
      PROVE  Persists
  BY <1>1, RequestFacts DEF Persists, KeepsRow
<1>2. \A k \in Job : UNCHANGED job => KeepsRow(k)
  BY DEF KeepsRow
<1>3. UNCHANGED object => \A j \in Job : j \in Read => object'[j] # Missing
  BY DEF Read
<1>4. ASSUME NEW m \in messages, Loads(w, m), job[m[1]].state # "absent" PROVE Persists
  BY <1>1, <1>2, <1>3, <1>4, LoadsThere
<1>5. CASE Moves(w)
  <2>1. \A j \in Job : j \in Read => object'[j] # Missing
    <3>1. CASE Reads(w)
      <4>1. PICK next \in Following(CursorOf(worker[w].job)) :
              object' = [object EXCEPT ![worker[w].job] = next]
        BY <3>1 DEF Reads
      <4>2. next # Missing
        BY ConstantFacts DEF Following, Missing
      <4> QED
        BY <4>1, <4>2 DEF Read, TypeOK
    <3>2. CASE ~Reads(w)
      <4>1. object' = object
        BY <1>5, <3>2 DEF Moves, Claims, ClaimRefused, Reloads, Charges, Marks, Commits, stored
      <4> QED
        BY <1>3, <4>1
    <3> QED
      BY <3>1, <3>2
  <2> QED
    BY <1>1, <1>5, <2>1, MovesKeep
<1>6. CASE Notifies(w)
  BY <1>1, <1>2, <1>3, <1>6 DEF Notifies, WorkerGoes
<1>7. ASSUME NEW m \in Job \X (1..MaxDeliveries), Fails(w, m) PROVE Persists
  <2>1. Throws(w, m)
    BY <1>7, FailsThrow
  <2> QED
    BY <1>1, <1>3, <2>1, ThrowsKeeps
<1>8. CASE WorkerDies(w)
  BY <1>1, <1>2, <1>3, <1>8 DEF WorkerDies, stored
<1> QED
  BY <1>4, <1>5, <1>6, <1>7, <1>8, WorkerKinds

LEMMA TimeKeeps ==
    ASSUME TypeOK, Midnight \/ (\E j \in Job : LeaseExpires(j)) \/ UNCHANGED vars
    PROVE  /\ \A k \in Job : job'[k].state = job[k].state /\ job'[k].cursor = job[k].cursor
           /\ UNCHANGED <<source, object, announced, messages, cron, client, worker, orphaned>>
<1>1. CASE Midnight \/ UNCHANGED vars
  BY <1>1 DEF Midnight, vars, stored
<1>2. ASSUME NEW j \in Job, LeaseExpires(j)
      PROVE  /\ \A k \in Job : job'[k].state = job[k].state /\ job'[k].cursor = job[k].cursor
             /\ UNCHANGED <<source, object, announced, messages, cron, client, worker,
                            orphaned>>
  <2>1. job' = [job EXCEPT ![j].live = FALSE] /\ job \in [Job -> JobRow]
    BY <1>2 DEF LeaseExpires, TypeOK
  <2>2. \A k \in Job : job'[k].state = job[k].state /\ job'[k].cursor = job[k].cursor
    BY <2>1 DEF JobRow
  <2> QED
    BY <1>2, <2>2 DEF LeaseExpires, stored
<1> QED
  BY <1>1, <1>2

LEMMA NextPersists ==
    ASSUME TypeOK, [Next]_vars
    PROVE  Persists
<1>1. CASE Midnight \/ (\E j \in Job : LeaseExpires(j)) \/ UNCHANGED vars
  BY <1>1, TimeKeeps, RequestFacts DEF Persists, Read
<1> QED
  BY <1>1, CronPersists, ClientPersists, WorkerPersists DEF Next, Runs
-----------------------------------------------------------------------------
(* Where rows and places come from *)

LEMMA NewRows ==
    ASSUME TypeOK, [Next]_vars, NEW j \in Job, job[j].state = "absent", job'[j].state # "absent"
    PROVE  \/ \E c \in Cron : cron[c].pc = "insert" /\ cron[c].job = j /\ j \in Scheduled
           \/ \E c \in Client : /\ client[c].pc = "insert" /\ client[c].job = j
                                /\ j \in Request /\ job'[j].cursor = client[c].cursor
<1>1. job \in [Job -> JobRow] /\ Queued(0) \in JobRow
  BY NewRowType, ConstantFacts DEF TypeOK
<1>2. ASSUME NEW c \in Cron,
             (\E a \in Recurring : CronReads(c, a)) \/ CronStep(c) \/ CronDies(c)
      PROVE  cron[c].pc = "insert" /\ cron[c].job = j /\ j \in Scheduled
  <2>1. job' # job
    OBVIOUS
  <2>2. CronInserts(c) \/ CronUnsends(c)
    BY <1>2, <2>1 DEF CronStep, CronReads, CronSends, CronDies
  <2>3. CASE CronUnsends(c)
    BY <1>1, <2>3, NewRowType DEF CronUnsends
  <2>4. CASE CronInserts(c)
    BY <1>1, <2>1, <2>4, CronFacts DEF CronInserts
  <2> QED
    BY <2>2, <2>3, <2>4
<1>3. ASSUME NEW c \in Client, ClientStep(c) \/ \E i \in Request : ClientAsks(c, i)
      PROVE  /\ client[c].pc = "insert" /\ client[c].job = j
             /\ j \in Request /\ job'[j].cursor = client[c].cursor
  <2>1. job' # job
    OBVIOUS
  <2>2. ClientInserts(c)
    BY <1>3, <2>1 DEF ClientStep, ClientAsks, ClientSends, ClientIsAnswered
  <2>3. client[c].job \in Request /\ client[c].cursor \in Page
    BY <2>2, ClientFacts DEF ClientInserts
  <2>4. job' = [job EXCEPT ![client[c].job] = Queued(client[c].cursor)]
    BY <2>1, <2>2 DEF ClientInserts
  <2>5. Queued(client[c].cursor).cursor = client[c].cursor
    BY <2>3, NewRowType
  <2>6. client[c].job = j
    BY <1>1, <2>4
  <2> QED
    BY <1>1, <2>2, <2>3, <2>4, <2>5, <2>6 DEF ClientInserts
<1>4. ASSUME NEW w \in Worker, WorkerStep(w) \/ WorkerThrows(w) \/ WorkerDies(w)
      PROVE  FALSE
  <2>1. ~KeepsRow(j) /\ job' # job
    BY DEF KeepsRow
  <2>2. ASSUME NEW m \in messages, Loads(w, m), job[m[1]].state # "absent" PROVE FALSE
    BY <2>1, <2>2, LoadsThere
  <2>3. ~Moves(w)
    BY <2>1, MovesKeep
  <2>4. ASSUME NEW m \in Job \X (1..MaxDeliveries), Fails(w, m) PROVE FALSE
    BY <2>1, <2>4, FailsThrow, ThrowsKeeps
  <2>5. ~Notifies(w) /\ ~WorkerDies(w)
    BY <2>1 DEF Notifies, WorkerDies
  <2> QED
    BY <1>4, <2>2, <2>3, <2>4, <2>5, WorkerKinds
<1>5. CASE Midnight \/ (\E i \in Job : LeaseExpires(i)) \/ UNCHANGED vars
  BY <1>5, TimeKeeps
<1> QED
  BY <1>2, <1>3, <1>4, <1>5 DEF Next, Runs

\* A schedule about to insert has been, or has just read the cursor.
LEMMA NewCronPlace ==
    ASSUME TypeOK, [Next]_vars, NEW c \in Cron, cron'[c].pc = "insert"
    PROVE  \/ cron'[c] = cron[c]
           \/ \E a \in Recurring : cron'[c].job = JobFor(a) /\ UNCHANGED source
<1>1. cron \in [Cron -> CronJob]
  BY DEF TypeOK
<1>2. ASSUME NEW b \in Cron,
             (\E a \in Recurring : CronReads(b, a)) \/ CronStep(b) \/ CronDies(b), b = c
      PROVE  \E a \in Recurring : cron'[c].job = JobFor(a) /\ UNCHANGED source
  <2>1. ~CronStep(c)
    BY <1>1, CronFacts DEF CronStep, CronInserts, CronSends, CronUnsends, CronGoes, Idle
  <2>2. ~CronDies(c)
    BY <1>1 DEF CronDies, Idle
  <2> QED
    BY <1>1, <1>2, <2>1, <2>2 DEF CronReads, CronGoes
<1>3. ASSUME NEW b \in Cron,
             (\E a \in Recurring : CronReads(b, a)) \/ CronStep(b) \/ CronDies(b), b # c
      PROVE  cron'[c] = cron[c]
  BY <1>1, <1>3 DEF CronReads, CronStep, CronInserts, CronSends, CronUnsends, CronDies, CronGoes
<1>4. ASSUME NEW b \in Client, ClientStep(b) \/ \E i \in Request : ClientAsks(b, i)
      PROVE  cron'[c] = cron[c]
  BY <1>4 DEF ClientStep, ClientAsks, ClientInserts, ClientSends, ClientIsAnswered, ClientGoes
<1>5. ASSUME NEW w \in Worker, WorkerStep(w) \/ WorkerThrows(w) \/ WorkerDies(w)
      PROVE  cron'[c] = cron[c]
  BY <1>5 DEF WorkerStep, WorkerThrows, WorkerDies, Loads, Claims, ClaimRefused, Reloads,
         Charges, Marks, Reads, Commits, Notifies, GivesUp, Throws, WorkerGoes
<1>6. CASE Midnight \/ (\E i \in Job : LeaseExpires(i)) \/ UNCHANGED vars
  BY <1>6, TimeKeeps
<1> QED
  BY <1>2, <1>3, <1>4, <1>5, <1>6 DEF Next, Runs

\* A request about to insert has been, or has just read the cursor; one about to send
\* has been, or its row is queued.
LEMMA NewClientPlace ==
    ASSUME TypeOK, [Next]_vars, NEW c \in Client, client'[c].pc \in {"insert", "send"}
    PROVE  \/ client'[c] = client[c]
           \/ /\ client'[c].pc = "insert" /\ client'[c].job \in Request
              /\ client'[c].cursor = source[Target[client'[c].job]].cursor
              /\ UNCHANGED source
           \/ client'[c].pc = "send" /\ job'[client'[c].job].state = "queued"
<1>1. client \in [Client -> ClientJob] /\ job \in [Job -> JobRow]
  BY DEF TypeOK
<1>2. ASSUME NEW j \in Request, ClientAsks(c, j)
      PROVE  \/ /\ client'[c].pc = "insert" /\ client'[c].job \in Request
                /\ client'[c].cursor = source[Target[client'[c].job]].cursor
                /\ UNCHANGED source
             \/ client'[c].pc = "send" /\ job'[client'[c].job].state = "queued"
  <2>1. UNCHANGED <<source, job>>
    BY <1>2 DEF ClientAsks, ClientGoes
  <2>2. \/ client' = [client EXCEPT ![c] = WithJob(j)]
        \/ client' = [client EXCEPT ![c] =
             [pc |-> "insert", job |-> j, cursor |-> source[Target[j]].cursor]]
        \/ client' = [client EXCEPT ![c] = Answer(j, 409)]
    BY <1>2 DEF ClientAsks, ClientGoes
  <2>3. Answer(j, 409).pc = "answer"
    BY DEF Answer
  <2> QED
    BY <1>1, <2>1, <2>2, <2>3, WithJobType
<1>3. CASE ClientInserts(c)
  <2>1. PICK j : j = client[c].job
    OBVIOUS
  <2>2. j \in Request /\ client[c].cursor \in Page
    BY <1>3, <2>1, ClientFacts DEF ClientInserts
  <2>3. \/ /\ job' = [job EXCEPT ![j] = Queued(client[c].cursor)]
           /\ client' = [client EXCEPT ![c] = [pc |-> "send", job |-> j]]
        \/ job' = job /\ client' = [client EXCEPT ![c] = WithJob(j)]
        \/ client' = [client EXCEPT ![c] = Answer(j, 409)]
    BY <1>3, <2>1 DEF ClientInserts, ClientGoes
  <2>4. Answer(j, 409).pc = "answer" /\ Queued(client[c].cursor).state = "queued"
    BY <2>2, NewRowType DEF Answer
  <2> QED
    BY <1>1, <2>2, <2>3, <2>4, WithJobType, RequestFacts
<1>4. ~ClientSends(c) /\ ~ClientIsAnswered(c)
  BY <1>1 DEF ClientSends, ClientIsAnswered, ClientGoes, Answer, Idle
<1>5. ASSUME NEW b \in Client, ClientStep(b) \/ (\E i \in Request : ClientAsks(b, i)), b # c
      PROVE  client'[c] = client[c]
  BY <1>1, <1>5 DEF ClientStep, ClientAsks, ClientInserts, ClientSends, ClientIsAnswered,
         ClientGoes
<1>6. ASSUME NEW b \in Cron,
             (\E a \in Recurring : CronReads(b, a)) \/ CronStep(b) \/ CronDies(b)
      PROVE  client'[c] = client[c]
  BY <1>6 DEF CronReads, CronStep, CronInserts, CronSends, CronUnsends, CronDies, CronGoes
<1>7. ASSUME NEW w \in Worker, WorkerStep(w) \/ WorkerThrows(w) \/ WorkerDies(w)
      PROVE  client'[c] = client[c]
  BY <1>7 DEF WorkerStep, WorkerThrows, WorkerDies, Loads, Claims, ClaimRefused, Reloads,
         Charges, Marks, Reads, Commits, Notifies, GivesUp, Throws, WorkerGoes
<1>8. CASE Midnight \/ (\E i \in Job : LeaseExpires(i)) \/ UNCHANGED vars
  BY <1>8, TimeKeeps
<1>9. CASE \E j \in Request : ClientAsks(c, j)
  BY <1>2, <1>9
<1> QED
  BY <1>3, <1>4, <1>5, <1>6, <1>7, <1>8, <1>9 DEF Next, Runs, ClientStep

\* A delivery has been at its job, or has just loaded the row of one that is there.
LEMMA NewWorkerPlace ==
    ASSUME TypeOK, [Next]_vars, NEW w \in Worker, worker'[w] # Idle
    PROVE  \/ worker'[w] = worker[w]
           \/ worker[w] # Idle /\ worker'[w].job = worker[w].job /\ Moves(w)
           \/ /\ worker'[w].pc \in {"notify", "claim"} /\ UNCHANGED job
              /\ worker'[w].job \in Job /\ job[worker'[w].job].state # "absent"
              /\ worker'[w].pc = "notify" => job[worker'[w].job].state = "complete"
              /\ worker'[w].pc = "claim" => worker'[w].paid = IsCharged(job[worker'[w].job])
<1>1. worker \in [Worker -> WorkerJob]
  BY DEF TypeOK
<1>2. ASSUME NEW v \in Worker, WorkerStep(v) \/ WorkerThrows(v) \/ WorkerDies(v)
      PROVE  \/ worker'[w] = worker[w]
             \/ worker[w] # Idle /\ worker'[w].job = worker[w].job /\ Moves(w)
             \/ /\ worker'[w].pc \in {"notify", "claim"} /\ UNCHANGED job
                /\ worker'[w].job \in Job /\ job[worker'[w].job].state # "absent"
                /\ worker'[w].pc = "notify" => job[worker'[w].job].state = "complete"
                /\ worker'[w].pc = "claim" => worker'[w].paid = IsCharged(job[worker'[w].job])
  <2>1. ASSUME NEW m \in messages, Loads(v, m), job[m[1]].state # "absent"
        PROVE  \/ worker'[w] = worker[w]
               \/ /\ worker'[w].pc \in {"notify", "claim"} /\ UNCHANGED job
                  /\ worker'[w].job \in Job /\ job[worker'[w].job].state # "absent"
                  /\ worker'[w].pc = "notify" => job[worker'[w].job].state = "complete"
                  /\ worker'[w].pc = "claim" => worker'[w].paid = IsCharged(job[worker'[w].job])
    <3>1. CASE v = w
      BY <2>1, <3>1, LoadsThere
    <3>2. CASE v # w
      BY <2>1, <3>2, LoadsThere
    <3> QED
      BY <3>1, <3>2
  <2>2. CASE Moves(v)
    BY <2>2, MovesKeep
  <2>3. CASE Notifies(v) \/ WorkerDies(v)
    BY <1>1, <2>3 DEF Notifies, WorkerDies, WorkerGoes
  <2>4. ASSUME NEW m \in Job \X (1..MaxDeliveries), Fails(v, m)
        PROVE  worker'[w] = worker[w]
    <3>1. worker' = [worker EXCEPT ![v] = Idle]
      BY <2>4, FailsThrow, ThrowsKeeps
    <3> QED
      BY <1>1, <3>1
  <2> QED
    BY <1>2, <2>1, <2>2, <2>3, <2>4, WorkerKinds
<1>3. ASSUME NEW c \in Cron,
             (\E a \in Recurring : CronReads(c, a)) \/ CronStep(c) \/ CronDies(c)
      PROVE  worker' = worker
  BY <1>3 DEF CronReads, CronStep, CronInserts, CronSends, CronUnsends, CronDies, CronGoes
<1>4. ASSUME NEW c \in Client, ClientStep(c) \/ \E i \in Request : ClientAsks(c, i)
      PROVE  worker' = worker
  BY <1>4 DEF ClientStep, ClientAsks, ClientInserts, ClientSends, ClientIsAnswered, ClientGoes
<1>5. CASE Midnight \/ (\E i \in Job : LeaseExpires(i)) \/ UNCHANGED vars
  BY <1>5, TimeKeeps
<1> QED
  BY <1>2, <1>3, <1>4, <1>5 DEF Next, Runs
-----------------------------------------------------------------------------
(* The walk through the histories *)

\* A job's cursor stays while its row does.
LEMMA CursorStays ==
    ASSUME Persists, NEW j \in Job, j \in Request => job[j].state # "absent"
    PROVE  CursorOf(j)' = CursorOf(j)
BY DEF Persists, CursorOf

LEMMA ReadStays ==
    ASSUME TypeOK', Persists, NEW j \in Job, j \in Read
    PROVE  j \in Read'
BY DEF Persists, Read

LEMMA ReadUpToStays ==
    ASSUME TypeOK', RequestsStay, Persists, NEW a, NEW c, ReadUpTo(a, c)
    PROVE  ReadUpTo(a, c)'
<1>1. ASSUME NEW p \in 0..(c - 1)
      PROVE  \E j \in Read' : ApexOf(j) = a /\ CursorOf(j)' = p
  <2>1. PICK j \in Read : ApexOf(j) = a /\ CursorOf(j) = p
    BY DEF ReadUpTo
  <2>2. j \in Job /\ (j \in Request => job[j].state # "absent")
    BY DEF Read, RequestsStay
  <2>3. j \in Read' /\ CursorOf(j)' = p
    BY <2>1, <2>2, CursorStays, ReadStays
  <2> QED
    BY <2>1, <2>3
<1> QED
  BY <1>1 DEF ReadUpTo, ApexOf

LEMMA WalksStay ==
    ASSUME TypeOK', RequestsStay, Persists, NEW j \in Job,
           j \in Request => job[j].state # "absent", Walks(j)
    PROVE  Walks(j)'
<1>1. PICK a, c : a = ApexOf(j) /\ c = CursorOf(j)
  OBVIOUS
<1>2. ReadUpTo(a, c)'
  BY <1>1, ReadUpToStays DEF Walks
<1>3. c = CursorOf(j)' /\ a = ApexOf(j)'
  BY <1>1, CursorStays DEF ApexOf
<1> QED
  BY <1>2, <1>3 DEF Walks, ReadUpTo

\* What is read next follows what was read up to.
LEMMA StepOfWalk ==
    ASSUME TypeOK, NEW j \in Job, j \in Read, Walks(j), NEW next \in Following(CursorOf(j))
    PROVE  ReadUpTo(ApexOf(j), next)
<1>1. CursorOf(j) \in Nat
  BY RowType, ConstantFacts
<1>2. CASE next = 0
  BY <1>2 DEF ReadUpTo
<1>3. CASE next = CursorOf(j) + 1
  <2>1. ASSUME NEW p \in 0..(next - 1)
        PROVE  \E i \in Read : ApexOf(i) = ApexOf(j) /\ CursorOf(i) = p
    <3>1. CASE p = CursorOf(j)
      BY <3>1
    <3>2. CASE p # CursorOf(j)
      <4>1. p \in 0..(CursorOf(j) - 1)
        BY <1>1, <1>3, <3>2
      <4> QED
        BY <4>1 DEF Walks, ReadUpTo
    <3> QED
      BY <3>1, <3>2
  <2> QED
    BY <2>1 DEF ReadUpTo
<1> QED
  BY <1>2, <1>3 DEF Following

\* The cursor of an apex is moved only by a delivery that has read the page before.
LEMMA NewCursor ==
    ASSUME TypeOK, [Next]_vars
    PROVE  \/ UNCHANGED source
           \/ \E w \in Worker :
                /\ worker[w].pc = "commit" /\ worker[w] # Idle /\ worker[w].job \in Job
                /\ \A a \in Apex : source'[a].cursor =
                     IF a = ApexOf(worker[w].job) THEN worker[w].next ELSE source[a].cursor
<1>1. ASSUME NEW w \in Worker, Commits(w)
      PROVE  /\ worker[w].pc = "commit" /\ worker[w] # Idle /\ worker[w].job \in Job
             /\ \A a \in Apex : source'[a].cursor =
                  IF a = ApexOf(worker[w].job) THEN worker[w].next ELSE source[a].cursor
  <2>1. PICK j : j = worker[w].job
    OBVIOUS
  <2>2. PICK due : source' = [source EXCEPT ![ApexOf(j)] = [cursor |-> worker[w].next, due |-> due]]
    BY <1>1, <2>1 DEF Commits, CursorAfter
  <2>3. source \in [Apex -> SourceRow]
    BY DEF TypeOK
  <2> QED
    BY <1>1, <2>1, <2>2, <2>3, WorkerFacts DEF Commits
<1>2. ASSUME NEW w \in Worker, WorkerStep(w) \/ WorkerThrows(w) \/ WorkerDies(w), ~Commits(w)
      PROVE  UNCHANGED source
  BY <1>2 DEF WorkerStep, WorkerThrows, WorkerDies, Loads, Claims, ClaimRefused, Reloads,
         Charges, Marks, Reads, Notifies, GivesUp, Throws
<1>3. ASSUME NEW c \in Cron,
             (\E a \in Recurring : CronReads(c, a)) \/ CronStep(c) \/ CronDies(c)
      PROVE  UNCHANGED source
  BY <1>3 DEF CronReads, CronStep, CronInserts, CronSends, CronUnsends, CronDies, CronGoes
<1>4. ASSUME NEW c \in Client, ClientStep(c) \/ \E i \in Request : ClientAsks(c, i)
      PROVE  UNCHANGED source
  BY <1>4 DEF ClientStep, ClientAsks, ClientInserts, ClientSends, ClientIsAnswered, ClientGoes
<1>5. CASE Midnight \/ (\E i \in Job : LeaseExpires(i)) \/ UNCHANGED vars
  BY <1>5, TimeKeeps
<1> QED
  BY <1>1, <1>2, <1>3, <1>4, <1>5 DEF Next, Runs

LEMMA CursorsFollow ==
    ASSUME TypeOK, TypeOK', PagesInOrder, RequestsStay, Persists, [Next]_vars
    PROVE  NoPageIsSkipped'
<1>1. ASSUME NEW a \in Apex, NEW c, c = source'[a].cursor
      PROVE  ReadUpTo(a, c)
  <2>1. CASE c = source[a].cursor
    BY <2>1 DEF PagesInOrder, NoPageIsSkipped
  <2>2. ASSUME NEW w \in Worker, worker[w].pc = "commit", worker[w] # Idle,
               worker[w].job \in Job, a = ApexOf(worker[w].job), c = worker[w].next
        PROVE  ReadUpTo(a, c)
    <3>1. PICK j \in Job : j = worker[w].job
      BY <2>2
    <3>2. j \in Read /\ Walks(j) /\ c \in Following(CursorOf(j))
      BY <2>2, <3>1 DEF PagesInOrder
    <3> QED
      BY <2>2, <3>1, <3>2, StepOfWalk
  <2> QED
    BY <1>1, <2>1, <2>2, NewCursor
<1>2. ASSUME NEW a \in Apex, NEW c, c = source'[a].cursor
      PROVE  ReadUpTo(a, c)'
  BY <1>1, <1>2, ReadUpToStays
<1> QED
  BY <1>2 DEF NoPageIsSkipped, ReadUpTo

LEMMA RowsFollow ==
    ASSUME TypeOK, TypeOK', PagesInOrder, RequestsStay, Persists, [Next]_vars,
           NEW j \in Job, job'[j].state # "absent"
    PROVE  Walks(j)'
<1>1. CASE job[j].state # "absent"
  BY <1>1, WalksStay DEF PagesInOrder
<1>2. ASSUME NEW c \in Cron, cron[c].pc = "insert", cron[c].job = j, j \in Scheduled
      PROVE  Walks(j)'
  BY <1>2, WalksStay, RequestFacts DEF PagesInOrder
<1>3. ASSUME NEW c \in Client, client[c].pc = "insert", client[c].job = j, j \in Request,
             job'[j].cursor = client[c].cursor
      PROVE  Walks(j)'
  <2>1. PICK p : p = client[c].cursor
    OBVIOUS
  <2>2. ReadUpTo(Target[j], p)'
    BY <1>3, <2>1, ReadUpToStays DEF PagesInOrder
  <2>3. ApexOf(j) = Target[j] /\ CursorOf(j)' = p
    BY <1>3, <2>1 DEF ApexOf, CursorOf
  <2> QED
    BY <2>2, <2>3 DEF Walks, ReadUpTo, ApexOf
<1> QED
  BY <1>1, <1>2, <1>3, NewRows

LEMMA CronsFollow ==
    ASSUME TypeOK, TypeOK', PagesInOrder, RequestsStay, Persists, [Next]_vars,
           NEW c \in Cron, cron'[c].pc = "insert"
    PROVE  Walks(cron[c].job)'
<1>1. PICK j : j = cron'[c].job
  OBVIOUS
<1>2. j \in Scheduled /\ j \in Job /\ j \notin Request
  <2>1. cron'[c].job \in Scheduled
    BY DEF TypeOK, CronJob, Idle
  <2> QED
    BY <1>1, <2>1, RequestFacts
<1>3. Walks(j)
  <2>1. CASE cron'[c] = cron[c]
    BY <1>1, <2>1 DEF PagesInOrder
  <2>2. ASSUME NEW a \in Recurring, j = JobFor(a) PROVE Walks(j)
    <3>1. a \in Apex /\ j.apex = a /\ ApexOf(j) = a
      BY <1>2, <2>2, UrlScanAssumption, JobForType DEF ApexOf
    <3>2. CursorOf(j) = source[a].cursor
      BY <1>2, <2>2, JobForType DEF CursorOf
    <3> QED
      BY <3>1, <3>2 DEF Walks, PagesInOrder, NoPageIsSkipped
  <2> QED
    BY <1>1, <2>1, <2>2, NewCronPlace
<1>4. Walks(j)'
  BY <1>2, <1>3, WalksStay
<1> QED
  BY <1>1, <1>4 DEF Walks, ReadUpTo, ApexOf, CursorOf

LEMMA ClientsFollow ==
    ASSUME TypeOK, TypeOK', PagesInOrder, RequestsStay, Persists, [Next]_vars,
           NEW c \in Client, client'[c].pc = "insert"
    PROVE  ReadUpTo(Target[client[c].job], client[c].cursor)'
<1>1. PICK a, p : a = Target[client'[c].job] /\ p = client'[c].cursor
  OBVIOUS
<1>2. ReadUpTo(a, p)
  <2>1. CASE client'[c] = client[c]
    BY <1>1, <2>1 DEF PagesInOrder
  <2>2. CASE client'[c].job \in Request /\ p = source[a].cursor
    <3>1. a \in Apex
      BY <1>1, <2>2, UrlScanAssumption
    <3> QED
      BY <2>2, <3>1 DEF PagesInOrder, NoPageIsSkipped
  <2> QED
    BY <1>1, <2>1, <2>2, NewClientPlace
<1>3. ReadUpTo(a, p)'
  BY <1>2, ReadUpToStays
<1> QED
  BY <1>1, <1>3 DEF ReadUpTo

LEMMA WorkersFollow ==
    ASSUME TypeOK, TypeOK', PagesInOrder, RequestsStay, Persists, [Next]_vars,
           NEW w \in Worker, worker'[w] # Idle
    PROVE  Walks(worker[w].job)'
<1>1. PICK j : j = worker'[w].job
  OBVIOUS
<1>2. j \in Job
  BY <1>1 DEF TypeOK, WorkerJob, Idle
<1>3. Walks(j) /\ (j \in Request => job[j].state # "absent")
  <2>1. CASE worker[w] # Idle /\ worker'[w].job = worker[w].job
    BY <1>1, <2>1 DEF PagesInOrder, RequestsStay
  <2>2. CASE job[j].state # "absent"
    BY <1>2, <2>2 DEF PagesInOrder
  <2> QED
    BY <1>1, <2>1, <2>2, NewWorkerPlace
<1>4. Walks(j)'
  BY <1>2, <1>3, WalksStay
<1> QED
  BY <1>1, <1>4 DEF Walks, ReadUpTo, ApexOf, CursorOf

LEMMA CommitsFollow ==
    ASSUME TypeOK, TypeOK', PagesInOrder, RequestsStay, Persists, [Next]_vars,
           NEW w \in Worker, worker'[w].pc = "commit"
    PROVE  /\ worker'[w].job \in Read'
           /\ worker'[w].next \in Following(CursorOf(worker[w].job)')
<1>1. PICK j : j = worker'[w].job
  OBVIOUS
<1>2. worker'[w] # Idle /\ worker \in [Worker -> WorkerJob]
  BY DEF Idle, TypeOK
<1>3. CASE worker'[w] = worker[w]
  <2>1. worker[w] # Idle /\ j \in Job /\ j \in Read /\ worker'[w].next \in Following(CursorOf(j))
    BY <1>1, <1>2, <1>3, WorkerFacts DEF PagesInOrder
  <2>2. j \in Request => job[j].state # "absent"
    BY <1>1, <1>3, <2>1 DEF RequestsStay
  <2>3. j \in Read' /\ CursorOf(j)' = CursorOf(j)
    BY <2>1, <2>2, ReadStays, CursorStays
  <2> QED
    BY <1>1, <2>1, <2>3 DEF CursorOf
<1>4. CASE worker[w] # Idle /\ worker'[w].job = worker[w].job /\ Moves(w) /\ worker'[w] # worker[w]
  <2>1. Reads(w)
    BY <1>2, <1>4 DEF Moves, Claims, ClaimRefused, Reloads, Charges, Marks, Commits,
           WorkerGoes, To, At
  <2>2. worker[w].job = j /\ j \in Job
    BY <1>1, <1>4, WorkerFacts
  <2>3. PICK next \in Following(CursorOf(j)) :
          /\ object' = [object EXCEPT ![j] = next]
          /\ WorkerGoes(w, [pc |-> "commit", job |-> j, n |-> worker[w].n, next |-> next])
    BY <2>1, <2>2 DEF Reads
  <2>4. object'[j] # Missing /\ worker'[w].next = next
    BY <1>2, <2>2, <2>3, ConstantFacts DEF Following, Missing, TypeOK, WorkerGoes
  <2>5. CursorOf(j)' = CursorOf(j)
    BY <1>4, <2>2, CursorStays DEF RequestsStay
  <2> QED
    BY <1>1, <2>2, <2>3, <2>4, <2>5 DEF Read, CursorOf
<1> QED
  BY <1>2, <1>3, <1>4, NewWorkerPlace

LEMMA PagesStayInOrder ==
    ASSUME TypeOK, TypeOK', PagesInOrder, RequestsStay, Persists, [Next]_vars
    PROVE  PagesInOrder'
<1>1. NoPageIsSkipped'
  BY CursorsFollow
<1>2. \A j \in Job : job'[j].state # "absent" => Walks(j)'
  BY RowsFollow
<1>3. \A c \in Cron : cron'[c].pc = "insert" => Walks(cron[c].job)'
  BY CronsFollow
<1>4. \A c \in Client : client'[c].pc = "insert" =>
        ReadUpTo(Target[client[c].job], client[c].cursor)'
  BY ClientsFollow
<1>5. \A w \in Worker : worker'[w] # Idle => Walks(worker[w].job)'
  BY WorkersFollow
<1>6. \A w \in Worker : worker'[w].pc = "commit" =>
        /\ worker'[w].job \in Read'
        /\ worker'[w].next \in Following(CursorOf(worker[w].job)')
  BY CommitsFollow
<1> QED
  BY <1>1, <1>2, <1>3, <1>4, <1>5, <1>6 DEF PagesInOrder, Following, Idle
-----------------------------------------------------------------------------
(* Requests, and what is announced *)

\* A page is newly read only by a delivery of its job.
LEMMA NewPage ==
    ASSUME TypeOK, [Next]_vars, NEW j \in Job, j \notin Read, j \in Read'
    PROVE  \E w \in Worker : worker[w] # Idle /\ worker[w].job = j
<1>1. object' # object
  BY DEF Read
<1>2. ASSUME NEW w \in Worker, WorkerStep(w) \/ WorkerThrows(w) \/ WorkerDies(w)
      PROVE  Reads(w)
  BY <1>1, <1>2 DEF WorkerStep, WorkerThrows, WorkerDies, Loads, Claims, ClaimRefused, Reloads,
         Charges, Marks, Commits, Notifies, GivesUp, Throws, stored
<1>3. ASSUME NEW w \in Worker, Reads(w)
      PROVE  worker[w] # Idle /\ worker[w].job = j
  BY <1>3 DEF Reads, Read, Idle, TypeOK
<1>4. ASSUME NEW c \in Cron,
             (\E a \in Recurring : CronReads(c, a)) \/ CronStep(c) \/ CronDies(c)
      PROVE  FALSE
  BY <1>1, <1>4 DEF CronReads, CronStep, CronInserts, CronSends, CronUnsends, CronDies,
         CronGoes, stored
<1>5. ASSUME NEW c \in Client, ClientStep(c) \/ \E i \in Request : ClientAsks(c, i)
      PROVE  FALSE
  BY <1>1, <1>5 DEF ClientStep, ClientAsks, ClientInserts, ClientSends, ClientIsAnswered,
         ClientGoes, stored
<1>6. CASE Midnight \/ (\E i \in Job : LeaseExpires(i)) \/ UNCHANGED vars
  BY <1>1, <1>6, TimeKeeps
<1> QED
  BY <1>2, <1>3, <1>4, <1>5, <1>6 DEF Next, Runs

LEMMA RequestsStayThere ==
    ASSUME TypeOK, TypeOK', RequestsStay, Persists, [Next]_vars
    PROVE  RequestsStay'
<1>1. ASSUME NEW j \in Request, j \in Read' PROVE job'[j].state # "absent"
  <2>1. job[j].state # "absent"
    BY <1>1, NewPage, RequestFacts DEF RequestsStay
  <2> QED
    BY <2>1 DEF Persists
<1>2. ASSUME NEW w \in Worker, worker'[w] # Idle, worker'[w].job \in Request
      PROVE  job'[worker'[w].job].state # "absent"
  <2>1. job[worker'[w].job].state # "absent"
    BY <1>2, NewWorkerPlace DEF RequestsStay
  <2> QED
    BY <1>2, <2>1 DEF Persists
<1>3. ASSUME NEW c \in Client, client'[c].pc = "send"
      PROVE  job'[client'[c].job].state # "absent"
  <2>1. client[c].pc = "send" => client[c].job \in Request /\ job[client[c].job].state # "absent"
    BY ClientFacts DEF RequestsStay
  <2>2. CASE client'[c] = client[c]
    BY <1>3, <2>1, <2>2 DEF Persists
  <2>3. CASE client'[c] # client[c]
    BY <1>3, <2>3, NewClientPlace
  <2> QED
    BY <2>2, <2>3
<1> QED
  BY <1>1, <1>2, <1>3 DEF RequestsStay, Idle

LEMMA SettledStays ==
    ASSUME TypeOK', Persists, NEW j \in Job, IsSettled(j)
    PROVE  IsSettled(j)'
BY ReadStays DEF IsSettled, Persists

\* A job becomes complete, or a delivery turns to its announcement, in a commit, or
\* after a row that says complete.
LEMMA NewCompletion ==
    ASSUME TypeOK, [Next]_vars, NEW j \in Job,
           job[j].state # "complete", job'[j].state = "complete"
    PROVE  \E w \in Worker : worker[w].pc = "commit" /\ worker[w].job = j
<1>1. job \in [Job -> JobRow] /\ job' # job
  BY DEF TypeOK
<1>2. ASSUME NEW w \in Worker, WorkerStep(w) \/ WorkerThrows(w) \/ WorkerDies(w)
      PROVE  worker[w].pc = "commit" /\ worker[w].job = j
  <2>1. CASE Claims(w)
    <3>1. PICK k : k = worker[w].job
      OBVIOUS
    <3>2. PICK r : r = [job[k] EXCEPT !.state = "running", !.live = TRUE]
      OBVIOUS
    <3>3. job' = [job EXCEPT ![k] = r]
      BY <2>1, <3>1, <3>2, Zenon DEF Claims
    <3>4. k \in Job
      BY <2>1, <3>1, WorkerFacts DEF Claims
    <3>5. r.state = "running"
      <4>1. job[k] \in JobRow /\ "running" \in {"absent"} \cup Active \cup Ended
        BY <1>1, <3>4 DEF Active
      <4> QED
        BY <3>2, <4>1, RowUpdateType, Zenon
    <3> QED
      BY <1>1, <3>3, <3>5
  <2>2. CASE Marks(w)
    <3>1. PICK k, d : job' = [job EXCEPT ![k].charged = d]
      BY <1>1, <2>2 DEF Marks
    <3> QED
      BY <1>1, <3>1 DEF JobRow
  <2>3. CASE Commits(w)
    <3>1. worker[w].job = j
      BY <1>1, <2>3 DEF Commits
    <3> QED
      BY <2>3, <3>1 DEF Commits
  <2>4. ASSUME NEW m \in Job \X (1..MaxDeliveries), Fails(w, m) PROVE FALSE
    <3>1. job' = AfterFailure(m)
      BY <2>4, FailsThrow DEF Throws
    <3>2. PICK k, s : /\ job' = [job EXCEPT ![k] = [@ EXCEPT !.state = s, !.live = FALSE]]
                      /\ k = m[1] /\ s \in {"failed", "queued"}
      BY <1>1, <3>1 DEF AfterFailure
    <3>3. PICK r : r = [job[k] EXCEPT !.state = s, !.live = FALSE]
      OBVIOUS
    <3>4. job' = [job EXCEPT ![k] = r]
      BY <3>2, <3>3, Zenon
    <3>5. r.state = s
      <4>1. job[k] \in JobRow /\ s \in {"absent"} \cup Active \cup Ended
        BY <1>1, <3>2 DEF Active, Ended
      <4> QED
        BY <3>3, <4>1, RowUpdateType, Zenon
    <3> QED
      BY <1>1, <3>2, <3>4, <3>5
  <2>5. ASSUME NEW m \in messages, Loads(w, m), job[m[1]].state # "absent" PROVE FALSE
    BY <1>1, <2>5, LoadsThere
  <2>6. ~ClaimRefused(w) /\ ~Reloads(w) /\ ~Charges(w) /\ ~Reads(w) /\ ~Notifies(w) /\ ~WorkerDies(w)
    BY <1>1 DEF ClaimRefused, Reloads, Charges, Reads, Notifies, WorkerDies
  <2> QED
    BY <1>2, <2>1, <2>2, <2>3, <2>4, <2>5, <2>6, WorkerKinds DEF Moves
<1>3. ASSUME NEW c \in Cron,
             (\E a \in Recurring : CronReads(c, a)) \/ CronStep(c) \/ CronDies(c)
      PROVE  FALSE
  <2>1. CASE CronInserts(c)
    BY <1>1, <2>1, NewRowType, ConstantFacts DEF CronInserts
  <2>2. CASE CronUnsends(c)
    BY <1>1, <2>2, NewRowType DEF CronUnsends
  <2> QED
    BY <1>1, <1>3, <2>1, <2>2 DEF CronReads, CronStep, CronSends, CronDies
<1>4. ASSUME NEW c \in Client, ClientStep(c) \/ \E i \in Request : ClientAsks(c, i)
      PROVE  FALSE
  <2>1. CASE ClientInserts(c)
    <3>1. client[c].cursor \in Page /\ client[c].job \in Job
      BY <2>1, ClientFacts, RequestFacts DEF ClientInserts
    <3>2. PICK k \in Job, p \in Page : job' = [job EXCEPT ![k] = Queued(p)]
      BY <1>1, <2>1, <3>1 DEF ClientInserts
    <3> QED
      BY <1>1, <3>2, NewRowType
  <2> QED
    BY <1>1, <1>4, <2>1 DEF ClientStep, ClientAsks, ClientSends, ClientIsAnswered
<1>5. CASE Midnight \/ (\E i \in Job : LeaseExpires(i)) \/ UNCHANGED vars
  BY <1>5, TimeKeeps
<1> QED
  BY <1>2, <1>3, <1>4, <1>5 DEF Next, Runs

LEMMA NewAnnouncement ==
    ASSUME TypeOK, [Next]_vars, NEW j \in announced', j \notin announced
    PROVE  \E w \in Worker : worker[w].pc = "notify" /\ worker[w].job = j
<1>1. ASSUME NEW w \in Worker, WorkerStep(w) \/ WorkerThrows(w) \/ WorkerDies(w)
      PROVE  worker[w].pc = "notify" /\ worker[w].job = j
  <2>1. Notifies(w)
    BY <1>1 DEF WorkerStep, WorkerThrows, WorkerDies, Loads, Claims, ClaimRefused, Reloads,
         Charges, Marks, Reads, Commits, GivesUp, Throws, stored
  <2> QED
    BY <2>1 DEF Notifies
<1>2. ASSUME NEW c \in Cron,
             (\E a \in Recurring : CronReads(c, a)) \/ CronStep(c) \/ CronDies(c)
      PROVE  FALSE
  BY <1>2 DEF CronReads, CronStep, CronInserts, CronSends, CronUnsends, CronDies, CronGoes, stored
<1>3. ASSUME NEW c \in Client, ClientStep(c) \/ \E i \in Request : ClientAsks(c, i)
      PROVE  FALSE
  BY <1>3 DEF ClientStep, ClientAsks, ClientInserts, ClientSends, ClientIsAnswered, ClientGoes,
         stored
<1>4. ~(Midnight \/ (\E i \in Job : LeaseExpires(i)) \/ UNCHANGED vars)
  BY TimeKeeps
<1> QED
  BY <1>1, <1>2, <1>3, <1>4 DEF Next, Runs

LEMMA StillTellsWhatIsStored ==
    ASSUME TypeOK, TypeOK', PagesInOrder, TellsWhatIsStored, NoneIsLeft, Persists, [Next]_vars
    PROVE  TellsWhatIsStored'
<1>1. ASSUME NEW j \in Job, job'[j].state = "complete" PROVE j \in Read'
  <2>1. j \in Read
    <3>1. CASE job[j].state = "complete"
      BY <3>1 DEF TellsWhatIsStored
    <3>2. CASE job[j].state # "complete"
      BY <1>1, <3>2, NewCompletion DEF PagesInOrder
    <3> QED
      BY <3>1, <3>2
  <2> QED
    BY <2>1, ReadStays
<1>2. ASSUME NEW w \in Worker, NEW j \in Job, worker'[w].pc = "notify", worker'[w].job = j
      PROVE  IsSettled(j)'
  <2>1. worker'[w] # Idle
    BY <1>2 DEF Idle
  <2>2. CASE worker'[w] = worker[w]
    BY <1>2, <2>2, SettledStays DEF TellsWhatIsStored
  <2>3. CASE worker'[w] # worker[w] /\ worker[w] # Idle /\ worker'[w].job = worker[w].job /\ Moves(w)
    <3>1. worker[w].job = j /\ worker \in [Worker -> WorkerJob]
      BY <1>2, <2>3 DEF TypeOK
    <3>2. Reloads(w) \/ Commits(w)
      BY <1>2, <2>3, <3>1 DEF Moves, Claims, ClaimRefused, Charges, Marks, Reads, WorkerGoes,
             To, At
    <3>3. CASE Reloads(w)
      <4>1. IsSettled(j)
        BY <3>1, <3>3 DEF Reloads, IsSettled, TellsWhatIsStored
      <4> QED
        BY <4>1, SettledStays
    <3>4. CASE Commits(w)
      <4>1. j \in Read'
        BY <3>1, <3>4, ReadStays DEF Commits, PagesInOrder
      <4>2. CASE job[j].state = "absent"
        <5>1. j \in orphaned
          BY <2>3, <3>1, <4>2 DEF NoneIsLeft, IsLookedAfter, IsUnsent, IsAt
        <5> QED
          BY <4>1, <5>1 DEF IsSettled, Persists
      <4>3. CASE job[j].state # "absent"
        <5>1. job' = [job EXCEPT ![j] = [@ EXCEPT !.state = "complete", !.live = FALSE]]
          BY <3>1, <3>4, <4>3 DEF Commits
        <5>2. "complete" \in Active \cup Ended /\ FALSE \in BOOLEAN
          BY DEF Ended
        <5>3. job'[j].state = "complete"
          BY <4>3, <5>1, <5>2, UpdateKeeps
        <5> QED
          BY <4>1, <5>3 DEF IsSettled
      <4> QED
        BY <4>2, <4>3
    <3> QED
      BY <3>2, <3>3, <3>4
  <2>4. CASE UNCHANGED job /\ job[j].state = "complete"
    <3>1. IsSettled(j)
      BY <2>4 DEF IsSettled, TellsWhatIsStored
    <3> QED
      BY <3>1, SettledStays
  <2> QED
    BY <1>2, <2>1, <2>2, <2>3, <2>4, NewWorkerPlace
<1>3. ASSUME NEW j \in announced' PROVE IsSettled(j)'
  <2>1. j \in Job
    BY DEF TypeOK
  <2>2. IsSettled(j)
    BY NewAnnouncement DEF TellsWhatIsStored
  <2> QED
    BY <2>1, <2>2, SettledStays
<1>4. \A w \in Worker : worker'[w].pc = "notify" => IsSettled(worker[w].job)'
  <2>1. ASSUME NEW w \in Worker, worker'[w].pc = "notify" PROVE IsSettled(worker[w].job)'
    <3>1. PICK j : j = worker'[w].job
      OBVIOUS
    <3>2. j \in Job
      BY <2>1, <3>1 DEF TypeOK, WorkerJob, Idle
    <3>3. IsSettled(j)'
      BY <1>2, <2>1, <3>1, <3>2
    <3> QED
      BY <3>1, <3>3 DEF IsSettled
  <2> QED
    BY <2>1
<1> QED
  BY <1>1, <1>3, <1>4 DEF TellsWhatIsStored
-----------------------------------------------------------------------------
(* No job is left behind *)

\* A step that does not concern job k.
Spares(k) ==
    /\ job'[k].state = job[k].state
    /\ \A n \in 1..MaxDeliveries : IsDue(n, k)' <=> IsDue(n, k)
    /\ \A w \in Worker : IsAt(w, k)' <=> IsAt(w, k)
    /\ \A c \in Cron : IsSending(c, k)' <=> IsSending(c, k)
    /\ \A c \in Client : IsAsking(c, k) => IsAsking(c, k)'

LEMMA SparedStays ==
    ASSUME NEW k \in Job, Spares(k), IsLookedAfter(k)
    PROVE  IsLookedAfter(k)'
<1>1. IsUnsent(k) => IsUnsent(k)'
  BY DEF Spares, IsUnsent
<1> QED
  BY <1>1 DEF Spares, IsLookedAfter

\* A step that concerns one job, which it leaves looked after or in doubt.
LEMMA OneIsConcerned ==
    ASSUME NEW j, NoneIsLeft, orphaned \subseteq orphaned',
           \A k \in Job : k # j => Spares(k),
           j \in Job /\ j \notin orphaned' => IsLookedAfter(j)'
    PROVE  NoneIsLeft'
BY SparedStays DEF NoneIsLeft

\* A job that a delivery is at has a row, and is no schedule's to send.
LEMMA AtIsThere ==
    ASSUME NEW j \in Job, IsLookedAfter(j), NEW w \in Worker, IsAt(w, j)
    PROVE  job[j].state # "absent" /\ \A c \in Cron : ~IsSending(c, j)
BY DEF IsLookedAfter, IsUnsent

LEMMA CronLeavesNone ==
    ASSUME TypeOK, NoneIsLeft, NEW c \in Cron,
           (\E a \in Recurring : CronReads(c, a)) \/ CronStep(c) \/ CronDies(c)
    PROVE  NoneIsLeft'
<1>1. /\ job \in [Job -> JobRow] /\ cron \in [Cron -> CronJob]
      /\ messages \subseteq Job \X (1..MaxDeliveries)
  BY DEF TypeOK
<1>2. UNCHANGED <<client, worker>> /\ orphaned \subseteq orphaned'
  BY DEF CronReads, CronStep, CronInserts, CronSends, CronUnsends, CronDies, CronGoes,
         Sends, SendFails
<1>3. /\ \A k \in Job : \A w \in Worker : IsAt(w, k)' <=> IsAt(w, k)
      /\ \A k \in Job : \A b \in Client : IsAsking(b, k)' <=> IsAsking(b, k)
  BY <1>2 DEF IsAt, IsAsking
<1>4. UNCHANGED messages => \A k \in Job, n \in 1..MaxDeliveries : IsDue(n, k)' <=> IsDue(n, k)
  BY DEF IsDue
<1>5. ASSUME UNCHANGED messages
      PROVE  \A k \in Job : IsUnsent(k)' <=> IsUnsent(k)
  BY <1>3, <1>4, <1>5 DEF IsUnsent
<1>6. CASE \E a \in Recurring : CronReads(c, a)
  <2>1. \A k \in Job, d \in Cron : IsSending(d, k)' <=> IsSending(d, k)
    BY <1>1, <1>6 DEF CronReads, CronGoes, IsSending, Idle
  <2>2. \A k \in Job : Spares(k)
    BY <1>3, <1>4, <1>6, <2>1 DEF CronReads, Spares
  <2> QED
    BY <1>2, <1>6, <2>2, SparedStays DEF NoneIsLeft, CronReads
<1>7. CASE CronInserts(c)
  <2>1. PICK j : j = cron[c].job
    OBVIOUS
  <2>2. j \in Job /\ UNCHANGED <<messages, orphaned>> /\ \A k \in Job : ~IsSending(c, k)
    BY <1>7, <2>1, CronFacts, RequestFacts DEF CronInserts, IsSending
  <2>3. CASE job[j].state = "absent" /\ ActiveOn(j.apex) = {}
    <3>1. /\ job' = [job EXCEPT ![j] = Queued(0)]
          /\ cron' = [cron EXCEPT ![c] = [cron[c] EXCEPT !.pc = "send"]]
      BY <1>7, <2>1, <2>3 DEF CronInserts, CronGoes
    <3>2. cron'[c].pc = "send" /\ cron'[c].job = j /\ \A d \in Cron : d # c => cron'[d] = cron[d]
      BY <1>1, <1>7, <2>1, <3>1, CronFacts DEF CronInserts
    <3>3. job'[j].state = "queued"
      BY <1>1, <2>2, <3>1, NewRowType, ConstantFacts
    <3>4. \A k \in Job : k # j => Spares(k)
      BY <1>1, <1>3, <1>4, <2>2, <3>1, <3>2 DEF Spares, IsSending
    <3>5. ASSUME j \notin orphaned' PROVE IsLookedAfter(j)'
      <4>1. IsLookedAfter(j)
        BY <2>2, <3>5 DEF NoneIsLeft
      <4>2. IsUnsent(j) /\ \A d \in Cron : ~IsSending(d, j)
        BY <2>3, <4>1 DEF IsLookedAfter
      <4>3. IsUnsent(j)'
        BY <1>5, <2>2, <4>2
      <4>4. IsSending(c, j)' /\ \A d \in Cron : IsSending(d, j)' => d = c
        BY <3>2, <4>2 DEF IsSending
      <4> QED
        BY <3>3, <4>3, <4>4 DEF IsLookedAfter
    <3> QED
      BY <1>2, <2>2, <3>4, <3>5, OneIsConcerned
  <2>4. CASE ~(job[j].state = "absent" /\ ActiveOn(j.apex) = {})
    <3>1. job' = job /\ cron' = [cron EXCEPT ![c] = Idle]
      BY <1>7, <2>1, <2>4 DEF CronInserts, CronGoes
    <3>2. \A k \in Job, d \in Cron : IsSending(d, k)' <=> IsSending(d, k)
      BY <1>1, <2>2, <3>1 DEF IsSending, Idle
    <3>3. \A k \in Job : Spares(k)
      BY <1>3, <1>4, <2>2, <3>1, <3>2 DEF Spares
    <3> QED
      BY <2>2, <3>3, SparedStays DEF NoneIsLeft
  <2> QED
    BY <2>3, <2>4
<1>8. CASE CronSends(c)
  <2>1. PICK j : j = cron[c].job
    OBVIOUS
  <2>2. j \in Job /\ job' = job /\ IsSending(c, j)
    BY <1>8, <2>1, CronFacts, RequestFacts DEF CronSends, IsSending
  <2>3. CASE Sends(j) /\ CronGoes(c, Idle)
    <3>1. messages' = messages \cup {<<j, 1>>} /\ cron' = [cron EXCEPT ![c] = Idle]
      BY <2>3 DEF Sends, CronGoes
    <3>2. \A k \in Job : k # j => Spares(k)
      BY <1>1, <1>3, <2>1, <2>2, <3>1 DEF Spares, IsSending, IsDue, Idle
    <3>3. ASSUME j \notin orphaned' PROVE IsLookedAfter(j)'
      <4>1. IsLookedAfter(j)
        BY <2>2, <2>3, <3>3 DEF NoneIsLeft, Sends
      <4>2. job[j].state = "queued" /\ \A d \in Cron : IsSending(d, j) => d = c
        BY <2>2, <4>1 DEF IsLookedAfter
      <4>3. \A d \in Cron : ~IsSending(d, j)'
        BY <1>1, <3>1, <4>2 DEF IsSending, Idle
      <4>4. IsDue(1, j)' /\ 1 \in 1..MaxDeliveries
        BY <3>1, ConstantFacts DEF IsDue
      <4> QED
        BY <2>2, <4>2, <4>3, <4>4 DEF IsLookedAfter
    <3> QED
      BY <1>2, <3>2, <3>3, OneIsConcerned
  <2>4. CASE SendFails(j) /\ CronGoes(c, [cron[c] EXCEPT !.pc = "unsend"])
               /\ orphaned' = IF messages' = messages THEN orphaned ELSE orphaned \cup {j}
    <3>1. /\ messages' \in {messages, messages \cup {<<j, 1>>}}
          /\ cron' = [cron EXCEPT ![c] = [cron[c] EXCEPT !.pc = "unsend"]]
      BY <2>4 DEF SendFails, CronGoes
    <3>2. \A k \in Job, d \in Cron : IsSending(d, k)' <=> IsSending(d, k)
      <4>1. cron'[c].pc = "unsend" /\ cron'[c].job = j
        BY <1>1, <1>8, <2>1, <3>1, CronFacts DEF CronSends
      <4> QED
        BY <1>1, <2>1, <2>2, <3>1, <4>1 DEF IsSending
    <3>3. \A k \in Job : k # j => Spares(k)
      BY <1>3, <2>2, <3>1, <3>2 DEF Spares, IsDue
    <3>4. UNCHANGED messages => Spares(j)
      BY <1>3, <1>4, <2>2, <3>2 DEF Spares
    <3>5. ASSUME j \notin orphaned' PROVE IsLookedAfter(j)'
      BY <2>2, <2>4, <3>4, <3>5, SparedStays DEF NoneIsLeft
    <3> QED
      BY <1>2, <3>3, <3>5, OneIsConcerned
  <2> QED
    BY <1>8, <2>1, <2>3, <2>4 DEF CronSends
<1>9. CASE CronUnsends(c)
  <2>1. PICK j : j = cron[c].job
    OBVIOUS
  <2>2. j \in Job /\ IsSending(c, j) /\ UNCHANGED <<messages, orphaned>>
    BY <1>9, <2>1, CronFacts, RequestFacts DEF CronUnsends, IsSending
  <2>3. /\ cron' = [cron EXCEPT ![c] = Idle]
        /\ job' = IF job[j].state = "queued" THEN [job EXCEPT ![j] = NoRow] ELSE job
    BY <1>9, <2>1 DEF CronUnsends, CronGoes
  <2>4. \A k \in Job : k # j => Spares(k)
    BY <1>1, <1>3, <1>4, <2>1, <2>2, <2>3 DEF Spares, IsSending, Idle
  <2>5. ASSUME j \notin orphaned' PROVE IsLookedAfter(j)'
    <3>1. IsLookedAfter(j)
      BY <2>2, <2>5 DEF NoneIsLeft
    <3>2. job[j].state = "queued" /\ IsUnsent(j) /\ \A d \in Cron : IsSending(d, j) => d = c
      BY <2>2, <3>1 DEF IsLookedAfter
    <3>3. \A d \in Cron : ~IsSending(d, j)'
      BY <1>1, <2>3, <3>2 DEF IsSending, Idle
    <3>4. job'[j].state = "absent"
      BY <1>1, <2>2, <2>3, <3>2, NewRowType
    <3>5. IsUnsent(j)'
      BY <1>5, <2>2, <3>2
    <3> QED
      BY <3>3, <3>4, <3>5 DEF IsLookedAfter, Active
  <2> QED
    BY <1>2, <2>4, <2>5, OneIsConcerned
<1>10. CASE CronDies(c)
  <2>1. PICK j : j = cron[c].job
    OBVIOUS
  <2>2. UNCHANGED <<job, messages>> /\ cron' = [cron EXCEPT ![c] = Idle] /\ j \in orphaned'
    BY <1>10, <2>1 DEF CronDies
  <2>3. \A k \in Job : k # j => Spares(k)
    BY <1>1, <1>3, <1>4, <2>1, <2>2 DEF Spares, IsSending, Idle
  <2> QED
    BY <1>2, <2>2, <2>3, OneIsConcerned
<1> QED
  BY <1>6, <1>7, <1>8, <1>9, <1>10 DEF CronStep

LEMMA ClientLeavesNone ==
    ASSUME TypeOK, NoneIsLeft, RequestsStay, NEW c \in Client,
           ClientStep(c) \/ \E j \in Request : ClientAsks(c, j)
    PROVE  NoneIsLeft'
<1>1. job \in [Job -> JobRow] /\ client \in [Client -> ClientJob] /\ cron \in [Cron -> CronJob]
  BY DEF TypeOK
<1>2. UNCHANGED <<cron, worker>> /\ orphaned \subseteq orphaned'
  BY DEF ClientStep, ClientAsks, ClientInserts, ClientSends, ClientIsAnswered, ClientGoes,
         Sends, SendFails
<1>3. /\ \A k \in Job : \A w \in Worker : IsAt(w, k)' <=> IsAt(w, k)
      /\ \A k \in Job : \A d \in Cron : IsSending(d, k)' <=> IsSending(d, k)
  BY <1>2 DEF IsAt, IsSending
<1>4. UNCHANGED messages => \A k \in Job, n \in 1..MaxDeliveries : IsDue(n, k)' <=> IsDue(n, k)
  BY DEF IsDue
<1>5. \A j \in Request, d \in Cron : ~IsSending(d, j)
  BY CronFacts, RequestFacts DEF IsSending
<1>6. ASSUME client[c].pc # "send", NEW at, client' = [client EXCEPT ![c] = at]
      PROVE  \A k \in Job, b \in Client : IsAsking(b, k) => IsAsking(b, k)'
  BY <1>1, <1>6 DEF IsAsking
<1>7. CASE UNCHANGED <<job, messages, orphaned>> /\ client[c].pc # "send"
             /\ \E at : client' = [client EXCEPT ![c] = at]
  <2>1. \A k \in Job : Spares(k)
    BY <1>3, <1>4, <1>6, <1>7 DEF Spares
  <2> QED
    BY <1>7, <2>1, SparedStays DEF NoneIsLeft
<1>8. CASE \E j \in Request : ClientAsks(c, j)
  <2>1. PICK j \in Request : ClientAsks(c, j)
    BY <1>8
  <2>2. \E at : ClientGoes(c, at)
    BY <2>1, Zenon DEF ClientAsks
  <2>3. \E at : client' = [client EXCEPT ![c] = at]
    BY <2>2 DEF ClientGoes
  <2>4. UNCHANGED <<job, messages, orphaned>> /\ client[c].pc # "send"
    BY <2>1 DEF ClientAsks, Idle
  <2> QED
    BY <1>7, <2>3, <2>4
<1>9. CASE ClientIsAnswered(c)
  BY <1>7, <1>9 DEF ClientIsAnswered, ClientGoes
<1>10. CASE ClientInserts(c)
  <2>1. PICK j : j = client[c].job
    OBVIOUS
  <2>2. j \in Request /\ j \in Job /\ client[c].cursor \in Page
    BY <1>10, <2>1, ClientFacts, RequestFacts DEF ClientInserts
  <2>3. CASE UNCHANGED job
    BY <1>7, <1>10, <2>3 DEF ClientInserts, ClientGoes
  <2>4. CASE ~UNCHANGED job
    <3>1. /\ job[j].state = "absent" /\ UNCHANGED <<messages, orphaned>>
          /\ job' = [job EXCEPT ![j] = Queued(client[c].cursor)]
          /\ client' = [client EXCEPT ![c] = [pc |-> "send", job |-> j]]
      BY <1>10, <2>1, <2>4 DEF ClientInserts, ClientGoes
    <3>2. \A k \in Job : k # j => Spares(k)
      <4>1. client[c].pc # "send"
        BY <1>10 DEF ClientInserts
      <4> QED
        BY <1>1, <1>3, <1>4, <1>6, <3>1, <4>1 DEF Spares
    <3>3. IsLookedAfter(j)'
      <4>1. IsAsking(c, j)'
        BY <1>1, <3>1 DEF IsAsking
      <4>2. job'[j].state = "queued"
        BY <1>1, <2>2, <3>1, NewRowType
      <4>3. \A d \in Cron : ~IsSending(d, j)'
        BY <1>3, <1>5, <2>2
      <4> QED
        BY <4>1, <4>2, <4>3 DEF IsLookedAfter
    <3> QED
      BY <1>2, <3>2, <3>3, OneIsConcerned
  <2> QED
    BY <2>3, <2>4
<1>11. CASE ClientSends(c)
  <2>1. PICK j : j = client[c].job
    OBVIOUS
  <2>2. j \in Request /\ j \in Job /\ job' = job /\ job[j].state # "absent"
    BY <1>11, <2>1, ClientFacts, RequestFacts DEF ClientSends, RequestsStay
  <2>3. \E at : client' = [client EXCEPT ![c] = at]
    BY <1>11 DEF ClientSends, ClientGoes
  <2>4. messages' \in {messages, messages \cup {<<j, 1>>}}
    BY <1>11, <2>1 DEF ClientSends, Sends, SendFails
  <2>5. \A k \in Job : k # j => Spares(k)
    BY <1>1, <1>3, <2>1, <2>2, <2>3, <2>4 DEF Spares, IsDue, IsAsking
  <2>6. ASSUME j \notin orphaned' PROVE IsLookedAfter(j)'
    <3>1. messages' = messages \cup {<<j, 1>>}
      BY <1>11, <2>1, <2>6 DEF ClientSends, Sends
    <3>2. IsDue(1, j)' /\ 1 \in 1..MaxDeliveries
      BY <3>1, ConstantFacts DEF IsDue
    <3>3. \A d \in Cron : ~IsSending(d, j)'
      BY <1>3, <1>5, <2>2
    <3> QED
      BY <2>2, <3>2, <3>3 DEF IsLookedAfter
  <2> QED
    BY <1>2, <2>5, <2>6, OneIsConcerned
<1> QED
  BY <1>8, <1>9, <1>10, <1>11 DEF ClientStep

LEMMA WorkerLeavesNone ==
    ASSUME TypeOK, NoneIsLeft, TellsWhatIsStored, NEW w \in Worker,
           WorkerStep(w) \/ WorkerThrows(w) \/ WorkerDies(w)
    PROVE  NoneIsLeft'
<1>1. /\ job \in [Job -> JobRow] /\ worker \in [Worker -> WorkerJob]
      /\ messages \subseteq Job \X (1..MaxDeliveries)
  BY DEF TypeOK
<1>2. UNCHANGED <<cron, client>> =>
        /\ \A k \in Job : \A c \in Cron : IsSending(c, k)' <=> IsSending(c, k)
        /\ \A k \in Job : \A c \in Client : IsAsking(c, k)' <=> IsAsking(c, k)
  BY DEF IsSending, IsAsking
<1>3. ASSUME NEW m \in messages, Loads(w, m), job[m[1]].state # "absent" PROVE NoneIsLeft'
  <2>1. PICK j \in Job : j = m[1]
    BY <1>1
  <2>2. /\ \A k \in Job : k # j => Spares(k)
        /\ IsAt(w, j)' /\ \A v \in Worker : IsAt(v, j) => IsAt(v, j)'
    BY <1>2, <1>3, <2>1, LoadsThere DEF Spares, IsAt, IsDue
  <2>3. ASSUME j \notin orphaned' PROVE IsLookedAfter(j)'
    <3>1. IsLookedAfter(j)
      BY <1>3, <2>1, <2>3, LoadsThere DEF NoneIsLeft
    <3>2. IsDue(m[2], j) /\ m[2] \in 1..MaxDeliveries
      BY <1>1, <2>1 DEF IsDue
    <3>3. \A c \in Cron : ~IsSending(c, j)
      BY <3>1, <3>2 DEF IsLookedAfter, IsUnsent
    <3>4. \A c \in Cron : ~IsSending(c, j)'
      BY <1>2, <1>3, <3>3, LoadsThere
    <3>5. job'[j].state # "absent"
      BY <1>3, <2>1, LoadsThere
    <3> QED
      BY <2>2, <3>4, <3>5 DEF IsLookedAfter
  <2> QED
    BY <1>3, <2>2, <2>3, LoadsThere, OneIsConcerned
<1>4. CASE Moves(w)
  <2>1. PICK j \in Job : j = worker[w].job
    BY <1>4, MovesKeep
  <2>2. IsAt(w, j) /\ IsAt(w, j)'
    BY <1>4, <2>1, MovesKeep DEF IsAt
  <2>3. \A k \in Job : k # j => Spares(k)
    BY <1>2, <1>4, <2>1, MovesKeep DEF Spares, IsAt, IsDue
  <2>4. ASSUME j \notin orphaned' PROVE IsLookedAfter(j)'
    <3>1. IsLookedAfter(j)
      BY <1>4, <2>4, MovesKeep DEF NoneIsLeft
    <3>2. job[j].state # "absent" /\ \A c \in Cron : ~IsSending(c, j)
      BY <2>2, <3>1, AtIsThere
    <3>3. job'[j].state # "absent" /\ \A c \in Cron : ~IsSending(c, j)'
      BY <1>2, <1>4, <3>2, MovesKeep DEF KeepsRow
    <3> QED
      BY <2>2, <3>3 DEF IsLookedAfter
  <2> QED
    BY <1>4, <2>3, <2>4, MovesKeep, OneIsConcerned
<1>5. CASE Notifies(w)
  <2>1. PICK j \in Job : j = worker[w].job
    BY <1>5, WorkerFacts DEF Notifies
  <2>2. /\ messages' = messages \ {<<j, worker[w].n>>} /\ worker' = [worker EXCEPT ![w] = Idle]
        /\ UNCHANGED <<job, cron, client, orphaned>>
    BY <1>5, <2>1 DEF Notifies, WorkerGoes, Message
  <2>3. IsAt(w, j)
    BY <1>5, <2>1 DEF Notifies, IsAt, Idle
  <2>4. \A k \in Job : k # j => Spares(k)
    BY <1>1, <1>2, <2>1, <2>2 DEF Spares, IsAt, IsDue
  <2>5. ASSUME j \notin orphaned' PROVE IsLookedAfter(j)'
    <3>1. IsLookedAfter(j) /\ job'[j].state = "complete"
      BY <1>5, <2>1, <2>2, <2>5 DEF NoneIsLeft, Notifies, TellsWhatIsStored, IsSettled
    <3>2. \A c \in Cron : ~IsSending(c, j)'
      BY <1>2, <2>2, <2>3, <3>1, AtIsThere
    <3> QED
      BY <3>1, <3>2 DEF IsLookedAfter, Active
  <2> QED
    BY <2>2, <2>4, <2>5, OneIsConcerned
<1>6. ASSUME NEW m \in Job \X (1..MaxDeliveries), Fails(w, m) PROVE NoneIsLeft'
  <2>1. PICK j \in Job : j = m[1]
    OBVIOUS
  <2>2. /\ \A k \in Job : KeepsRow(k) /\ (k # j => job'[k] = job[k])
        /\ job'[j].state \in Active => <<j, m[2] + 1>> \in messages'
        /\ \A k \in Job : k # j =>
             \A n \in 1..MaxDeliveries : <<k, n>> \in messages' <=> <<k, n>> \in messages
        /\ worker' = [worker EXCEPT ![w] = Idle]
        /\ UNCHANGED <<cron, client, orphaned>>
    BY <1>6, <2>1, FailsThrow, ThrowsKeeps
  <2>3. \A k \in Job : k # j => Spares(k)
    <3>1. \A k \in Job : k # j => \A v \in Worker : IsAt(v, k)' <=> IsAt(v, k)
      BY <1>1, <1>6, <2>1, <2>2, FailsThrow DEF IsAt
    <3> QED
      BY <1>2, <2>2, <3>1 DEF Spares, IsDue
  <2>4. ASSUME j \notin orphaned' PROVE IsLookedAfter(j)'
    <3>1. IsLookedAfter(j)
      BY <2>2, <2>4 DEF NoneIsLeft
    <3>2. CASE worker[w] # Idle
      <4>1. IsAt(w, j)
        BY <1>6, <2>1, <3>2, FailsThrow DEF IsAt
      <4>2. job[j].state # "absent" /\ \A c \in Cron : ~IsSending(c, j)
        BY <3>1, <4>1, AtIsThere
      <4>3. job'[j].state # "absent" /\ \A c \in Cron : ~IsSending(c, j)'
        BY <1>2, <2>2, <4>2 DEF KeepsRow
      <4>4. ASSUME job'[j].state \in Active
            PROVE  \E n \in 1..MaxDeliveries : IsDue(n, j)'
        <5>1. messages' \subseteq Job \X (1..MaxDeliveries)
          BY <1>1, <1>6, FailsThrow, RetriesType DEF Throws
        <5> QED
          BY <2>2, <4>4, <5>1 DEF IsDue
      <4> QED
        BY <4>3, <4>4 DEF IsLookedAfter
    <3>3. CASE worker[w] = Idle
      <4>1. job[j].state = "absent" /\ IsDue(m[2], j) /\ m[2] \in 1..MaxDeliveries
        BY <1>1, <1>6, <2>1, <3>3, FailsThrow DEF IsDue
      <4> QED
        BY <3>1, <4>1 DEF IsLookedAfter, IsUnsent
    <3> QED
      BY <3>2, <3>3
  <2> QED
    BY <2>2, <2>3, <2>4, OneIsConcerned
<1>7. CASE WorkerDies(w)
  <2>1. PICK j \in Job : j = worker[w].job
    BY <1>7, WorkerFacts DEF WorkerDies
  <2>2. /\ j \in orphaned' /\ orphaned \subseteq orphaned'
        /\ worker' = [worker EXCEPT ![w] = Idle] /\ UNCHANGED <<job, cron, client>>
    BY <1>7, <2>1 DEF WorkerDies
  <2>3. \A k \in Job : k # j => \A n \in 1..MaxDeliveries : IsDue(n, k)' <=> IsDue(n, k)
    BY <1>7, <2>1 DEF WorkerDies, Retries, Message, IsDue
  <2>4. \A k \in Job : k # j => Spares(k)
    BY <1>1, <1>2, <2>1, <2>2, <2>3 DEF Spares, IsAt
  <2> QED
    BY <2>2, <2>4, OneIsConcerned
<1> QED
  BY <1>3, <1>4, <1>5, <1>6, <1>7, WorkerKinds

LEMMA NoneIsLeftBehind ==
    ASSUME TypeOK, NoneIsLeft, RequestsStay, TellsWhatIsStored, [Next]_vars
    PROVE  NoneIsLeft'
<1>1. CASE Midnight \/ (\E j \in Job : LeaseExpires(j)) \/ UNCHANGED vars
  <2>1. \A k \in Job : Spares(k)
    BY <1>1, TimeKeeps DEF Spares, IsDue, IsAt, IsSending, IsAsking
  <2> QED
    BY <1>1, <2>1, TimeKeeps, SparedStays DEF NoneIsLeft
<1> QED
  BY <1>1, CronLeavesNone, ClientLeavesNone, WorkerLeavesNone DEF Next, Runs
-----------------------------------------------------------------------------
(* The quota *)

\* Of the jobs in S: those marked as charged to day d, and the deliveries between the
\* charge and the mark.
Marked(S, d) == {j \in S : job[j].charged = d}
Marking(S, d) == {w \in Worker : worker[w].pc = "mark" /\ worker[w].job \in S
                                  /\ worker[w].day = d}

\* The quota row covers both.
Covers(u, S, d) ==
    /\ IsFiniteSet(Marked(S, d)) /\ IsFiniteSet(Marking(S, d))
    /\ Cardinality(Marked(S, d)) + Cardinality(Marking(S, d)) <= u

ChargesAreCovered ==
    \A d \in Day :
        /\ Covers(used[d], Job, d) /\ used[d] <= DailyLimit
        /\ Covers(priorityUsed[d], Request, d) /\ priorityUsed[d] <= PriorityLimit

\* Sets that shrink, or of which one gains an element.
LEMMA SmallerSets ==
    ASSUME NEW u \in Nat, NEW A, NEW B, IsFiniteSet(A), IsFiniteSet(B),
           Cardinality(A) + Cardinality(B) <= u,
           NEW C \in SUBSET A, NEW D \in SUBSET B
    PROVE  /\ IsFiniteSet(C) /\ IsFiniteSet(D)
           /\ Cardinality(C) + Cardinality(D) <= u
<1>1. /\ IsFiniteSet(C) /\ Cardinality(C) <= Cardinality(A) /\ Cardinality(C) \in Nat
      /\ IsFiniteSet(D) /\ Cardinality(D) <= Cardinality(B) /\ Cardinality(D) \in Nat
      /\ Cardinality(A) \in Nat /\ Cardinality(B) \in Nat
  BY FS_Subset, FS_CardinalityType
<1> QED
  BY <1>1

LEMMA OneMore ==
    ASSUME NEW A, IsFiniteSet(A), NEW x, NEW C \in SUBSET (A \cup {x})
    PROVE  /\ IsFiniteSet(C) /\ Cardinality(C) <= Cardinality(A) + 1
           /\ Cardinality(A) \in Nat /\ Cardinality(C) \in Nat
<1>1. /\ IsFiniteSet(A \cup {x}) /\ Cardinality(A) \in Nat
      /\ Cardinality(A \cup {x}) \in {Cardinality(A), Cardinality(A) + 1}
  BY FS_AddElement, FS_CardinalityType
<1>2. IsFiniteSet(C) /\ Cardinality(C) <= Cardinality(A \cup {x}) /\ Cardinality(C) \in Nat
  BY <1>1, FS_Subset, FS_CardinalityType
<1> QED
  BY <1>1, <1>2

LEMMA OneLess ==
    ASSUME NEW B, IsFiniteSet(B), NEW x \in B, NEW D \in SUBSET (B \ {x})
    PROVE  /\ IsFiniteSet(D) /\ Cardinality(D) + 1 <= Cardinality(B)
           /\ Cardinality(B) \in Nat /\ Cardinality(D) \in Nat
<1>1. /\ IsFiniteSet(B \ {x}) /\ Cardinality(B) \in Nat
      /\ Cardinality(B \ {x}) = Cardinality(B) - 1
  BY FS_RemoveElement, FS_CardinalityType
<1>2. IsFiniteSet(D) /\ Cardinality(D) <= Cardinality(B \ {x}) /\ Cardinality(D) \in Nat
  BY <1>1, FS_Subset, FS_CardinalityType
<1> QED
  BY <1>1, <1>2

\* Rows keep their marks, or lose them with the row.
KeepsMarks == \A k \in Job : job'[k].charged \in {job[k].charged, Never}

LEMMA UpdateKeepsMarks ==
    ASSUME TypeOK, NEW j \in Job, NEW s \in Active \cup Ended, NEW l \in BOOLEAN,
           job' = [job EXCEPT ![j] = [@ EXCEPT !.state = s, !.live = l]]
    PROVE  KeepsMarks
<1>1. PICK r : r = [job[j] EXCEPT !.state = s, !.live = l]
  OBVIOUS
<1>2. r.charged = job[j].charged
  <2>1. job[j] \in JobRow /\ s \in {"absent"} \cup Active \cup Ended
    BY RowType
  <2> QED
    BY <1>1, <2>1, RowUpdateType, Zenon
<1>3. job' = [job EXCEPT ![j] = r]
  BY <1>1, Zenon
<1> QED
  BY <1>2, <1>3, RowType DEF KeepsMarks

\* A delivery is in the middle of a charge where it was, and rows keep their marks, in
\* every step but two.
LEMMA MarksStay ==
    ASSUME TypeOK, [Next]_vars, \A w \in Worker : ~Charges(w) /\ ~Marks(w)
    PROVE  /\ KeepsMarks /\ UNCHANGED quota
           /\ \A w \in Worker : worker'[w].pc = "mark" => worker'[w] = worker[w]
<1>1. job \in [Job -> JobRow] /\ worker \in [Worker -> WorkerJob]
  BY DEF TypeOK
<1>2. UNCHANGED job => KeepsMarks
  BY DEF KeepsMarks
<1>3. ASSUME NEW c \in Cron,
             (\E a \in Recurring : CronReads(c, a)) \/ CronStep(c) \/ CronDies(c)
      PROVE  KeepsMarks /\ UNCHANGED <<quota, worker>>
  <2>1. UNCHANGED <<quota, worker>>
    BY <1>3 DEF CronReads, CronStep, CronInserts, CronSends, CronUnsends, CronDies, CronGoes,
           quota
  <2>2. CASE CronInserts(c)
    BY <1>1, <2>1, <2>2, NewRowType, ConstantFacts DEF CronInserts, KeepsMarks
  <2>3. CASE CronUnsends(c)
    <3>1. NoRow.charged = Never
      BY DEF NoRow
    <3> QED
      BY <1>1, <2>1, <2>3, <3>1 DEF CronUnsends, KeepsMarks
  <2> QED
    BY <1>2, <1>3, <2>1, <2>2, <2>3 DEF CronReads, CronStep, CronSends, CronDies
<1>4. ASSUME NEW c \in Client, ClientStep(c) \/ \E i \in Request : ClientAsks(c, i)
      PROVE  KeepsMarks /\ UNCHANGED <<quota, worker>>
  <2>1. UNCHANGED <<quota, worker>>
    BY <1>4 DEF ClientStep, ClientAsks, ClientInserts, ClientSends, ClientIsAnswered, ClientGoes,
           quota
  <2>2. CASE ClientInserts(c)
    <3>1. client[c].cursor \in Page /\ client[c].job \in Job
      BY <2>2, ClientFacts, RequestFacts DEF ClientInserts
    <3>2. \/ UNCHANGED job
          \/ \E k \in Job, p \in Page : job' = [job EXCEPT ![k] = Queued(p)]
      BY <2>2, <3>1 DEF ClientInserts
    <3> QED
      BY <1>1, <1>2, <2>1, <3>2, NewRowType DEF KeepsMarks
  <2> QED
    BY <1>2, <1>4, <2>1, <2>2 DEF ClientStep, ClientAsks, ClientSends, ClientIsAnswered
<1>5. ASSUME NEW v \in Worker, WorkerStep(v) \/ WorkerThrows(v) \/ WorkerDies(v)
      PROVE  KeepsMarks /\ UNCHANGED quota
  <2>1. UNCHANGED quota
    BY <1>5 DEF WorkerStep, WorkerThrows, WorkerDies, Loads, Claims, ClaimRefused, Reloads,
           Reads, Commits, Notifies, GivesUp, Throws
  <2>2. CASE Claims(v)
    <3>1. PICK j \in Job : j = worker[v].job
      BY <2>2, WorkerFacts DEF Claims
    <3>2. /\ job' = [job EXCEPT ![j] = [@ EXCEPT !.state = "running", !.live = TRUE]]
          /\ "running" \in Active \cup Ended /\ TRUE \in BOOLEAN
      BY <2>2, <3>1 DEF Claims, Active
    <3> QED
      BY <2>1, <3>2, UpdateKeepsMarks
  <2>3. CASE Commits(v)
    <3>1. PICK j \in Job : j = worker[v].job
      BY <2>3, WorkerFacts DEF Commits
    <3>2. /\ \/ UNCHANGED job
             \/ job' = [job EXCEPT ![j] = [@ EXCEPT !.state = "complete", !.live = FALSE]]
          /\ "complete" \in Active \cup Ended /\ FALSE \in BOOLEAN
      BY <2>3, <3>1 DEF Commits, Ended
    <3> QED
      BY <1>2, <2>1, <3>2, UpdateKeepsMarks
  <2>4. ASSUME NEW m \in Job \X (1..MaxDeliveries), Fails(v, m) PROVE KeepsMarks
    <3>1. job' = AfterFailure(m) /\ m[1] \in Job
      BY <2>4, FailsThrow DEF Throws
    <3>2. \/ UNCHANGED job
          \/ \E s \in Active \cup Ended :
               job' = [job EXCEPT ![m[1]] = [@ EXCEPT !.state = s, !.live = FALSE]]
      BY <3>1 DEF AfterFailure, Active, Ended
    <3> QED
      BY <1>2, <3>1, <3>2, UpdateKeepsMarks
  <2>5. ASSUME NEW m \in messages, Loads(v, m), job[m[1]].state # "absent" PROVE KeepsMarks
    BY <1>2, <2>5, LoadsThere
  <2>6. CASE ClaimRefused(v) \/ Reloads(v) \/ Reads(v) \/ Notifies(v) \/ WorkerDies(v)
    BY <1>2, <2>1, <2>6 DEF ClaimRefused, Reloads, Reads, Notifies, WorkerDies
  <2> QED
    BY <1>5, <2>1, <2>2, <2>3, <2>4, <2>5, <2>6, WorkerKinds DEF Moves
<1>6. CASE Midnight \/ (\E i \in Job : LeaseExpires(i)) \/ UNCHANGED vars
  <2>1. CASE Midnight \/ UNCHANGED vars
    BY <1>2, <2>1 DEF Midnight, vars, quota
  <2>2. ASSUME NEW i \in Job, LeaseExpires(i) PROVE KeepsMarks /\ UNCHANGED <<quota, worker>>
    BY <1>1, <2>2 DEF LeaseExpires, KeepsMarks, JobRow
  <2> QED
    BY <1>6, <2>1, <2>2
<1>7. KeepsMarks /\ UNCHANGED quota
  BY <1>3, <1>4, <1>5, <1>6, <1>2, TimeKeeps DEF Next, Runs, Midnight, vars, quota
<1>8. ASSUME NEW w \in Worker, worker'[w].pc = "mark" PROVE worker'[w] = worker[w]
  <2>1. worker'[w] # Idle
    BY <1>8 DEF Idle
  <2>2. ~(worker[w] # Idle /\ worker'[w].job = worker[w].job /\ Moves(w))
    BY <1>1, <1>8 DEF Moves, Claims, ClaimRefused, Reloads, Reads, Commits, WorkerGoes, To, At
  <2> QED
    BY <1>8, <2>1, <2>2, NewWorkerPlace
<1> QED
  BY <1>7, <1>8

\* A charge.
LEMMA ChargeIsCovered ==
    ASSUME TypeOK, ChargesAreCovered, NEW w \in Worker, Charges(w)
    PROVE  ChargesAreCovered'
<1>1. /\ used \in [Day -> Nat] /\ priorityUsed \in [Day -> Nat] /\ today \in Day
      /\ worker \in [Worker -> WorkerJob] /\ worker[w].job \in Job
      /\ DailyLimit \in Nat /\ PriorityLimit \in Nat
  BY WorkerFacts, UrlScanAssumption DEF TypeOK, Charges
<1>2. PICK j \in Job : j = worker[w].job
  BY <1>1
<1>3. /\ used[today] < DailyLimit /\ (j \in Request => priorityUsed[today] < PriorityLimit)
      /\ used' = [used EXCEPT ![today] = @ + 1]
      /\ priorityUsed' = IF j \in Request THEN [priorityUsed EXCEPT ![today] = @ + 1]
                         ELSE priorityUsed
      /\ job' = job
      /\ worker[w].pc = "charge"
      /\ worker'[w] = [pc |-> "mark", job |-> j, n |-> worker[w].n, day |-> today]
      /\ \A v \in Worker : v # w => worker'[v] = worker[v]
  BY <1>1, <1>2 DEF Charges, HasQuota, WorkerGoes
<1>4. ASSUME NEW d \in Day, NEW S, NEW u \in Nat, NEW u2 \in Nat, Covers(u, S, d),
             IF d = today /\ j \in S THEN u2 = u + 1 ELSE u2 = u
      PROVE  Covers(u2, S, d)'
  <2>1. Marked(S, d)' = Marked(S, d)
    BY <1>3 DEF Marked
  <2>2. CASE d = today /\ j \in S
    <3>1. Marking(S, d)' \subseteq Marking(S, d) \cup {w}
      BY <1>3 DEF Marking
    <3>2. /\ IsFiniteSet(Marking(S, d)')
          /\ Cardinality(Marking(S, d)') <= Cardinality(Marking(S, d)) + 1
          /\ Cardinality(Marking(S, d)) \in Nat /\ Cardinality(Marking(S, d)') \in Nat
      BY <1>4, <3>1, OneMore DEF Covers
    <3>3. Cardinality(Marked(S, d)) \in Nat
      BY <1>4, FS_CardinalityType DEF Covers
    <3> QED
      BY <1>4, <2>1, <2>2, <3>2, <3>3 DEF Covers
  <2>3. CASE ~(d = today /\ j \in S)
    <3>1. Marking(S, d)' = Marking(S, d)
      BY <1>3, <2>3 DEF Marking
    <3> QED
      BY <1>4, <2>1, <2>3, <3>1 DEF Covers
  <2> QED
    BY <2>2, <2>3
<1>5. ASSUME NEW d \in Day
      PROVE  /\ Covers(used[d], Job, d)' /\ used'[d] <= DailyLimit
             /\ Covers(priorityUsed[d], Request, d)' /\ priorityUsed'[d] <= PriorityLimit
  <2>1. /\ used[d] \in Nat /\ used'[d] \in Nat
        /\ IF d = today /\ j \in Job THEN used'[d] = used[d] + 1 ELSE used'[d] = used[d]
    BY <1>1, <1>3
  <2>2. /\ priorityUsed[d] \in Nat /\ priorityUsed'[d] \in Nat
        /\ IF d = today /\ j \in Request THEN priorityUsed'[d] = priorityUsed[d] + 1
           ELSE priorityUsed'[d] = priorityUsed[d]
    BY <1>1, <1>3
  <2>3. PICK u, u2, p, p2 : u = used[d] /\ u2 = used'[d] /\ p = priorityUsed[d]
                            /\ p2 = priorityUsed'[d]
    OBVIOUS
  <2>4. Covers(u2, Job, d)' /\ Covers(p2, Request, d)'
    BY <1>4, <2>1, <2>2, <2>3 DEF ChargesAreCovered
  <2>5. used'[d] <= DailyLimit /\ priorityUsed'[d] <= PriorityLimit
    BY <1>1, <1>3, <2>1, <2>2 DEF ChargesAreCovered
  <2> QED
    BY <2>3, <2>4, <2>5 DEF Covers
<1> QED
  BY <1>5 DEF ChargesAreCovered

\* A mark.
LEMMA MarkIsCovered ==
    ASSUME TypeOK, ChargesAreCovered, NEW w \in Worker, Marks(w)
    PROVE  ChargesAreCovered'
<1>1. /\ used \in [Day -> Nat] /\ priorityUsed \in [Day -> Nat]
      /\ worker \in [Worker -> WorkerJob] /\ job \in [Job -> JobRow]
      /\ worker[w].job \in Job /\ worker[w].day \in Day /\ worker[w].pc = "mark"
  BY WorkerFacts DEF TypeOK, Marks
<1>2. PICK j \in Job, e \in Day : j = worker[w].job /\ e = worker[w].day
  BY <1>1
<1>3. /\ UNCHANGED <<used, priorityUsed>>
      /\ \A k \in Job : k # j => job'[k] = job[k]
      /\ job'[j].charged \in {job[j].charged, e}
      /\ worker'[w].pc = "read"
      /\ \A v \in Worker : v # w => worker'[v] = worker[v]
  <2>1. job' = job \/ job' = [job EXCEPT ![j].charged = e]
    BY <1>2 DEF Marks, DayOfCharge
  <2>2. To(w, "read").pc = "read"
    BY DEF To, At
  <2>3. \A k \in Job : (k # j => job'[k] = job[k]) /\ job'[j].charged \in {job[j].charged, e}
    BY <1>1, <2>1 DEF JobRow
  <2> QED
    BY <1>1, <2>2, <2>3 DEF Marks, WorkerGoes, quota
<1>4. ASSUME NEW d \in Day, NEW S \in SUBSET Job, NEW u \in Nat, Covers(u, S, d)
      PROVE  Covers(u, S, d)'
  <2>1. CASE d = e /\ j \in S
    <3>1. /\ Marked(S, d)' \subseteq Marked(S, d) \cup {j}
          /\ w \in Marking(S, d) /\ Marking(S, d)' \subseteq Marking(S, d) \ {w}
      BY <1>1, <1>2, <1>3, <2>1 DEF Marked, Marking
    <3>2. /\ IsFiniteSet(Marked(S, d)')
          /\ Cardinality(Marked(S, d)') <= Cardinality(Marked(S, d)) + 1
          /\ Cardinality(Marked(S, d)) \in Nat /\ Cardinality(Marked(S, d)') \in Nat
      BY <1>4, <3>1, OneMore DEF Covers
    <3>3. /\ IsFiniteSet(Marking(S, d)')
          /\ Cardinality(Marking(S, d)') + 1 <= Cardinality(Marking(S, d))
          /\ Cardinality(Marking(S, d)) \in Nat /\ Cardinality(Marking(S, d)') \in Nat
      BY <1>4, <3>1, OneLess DEF Covers
    <3> QED
      BY <1>4, <3>2, <3>3 DEF Covers
  <2>2. CASE ~(d = e /\ j \in S)
    <3>1. Marked(S, d)' \subseteq Marked(S, d) /\ Marking(S, d)' \subseteq Marking(S, d)
      BY <1>3, <2>2 DEF Marked, Marking
    <3> QED
      BY <1>4, <3>1, SmallerSets DEF Covers
  <2> QED
    BY <2>1, <2>2
<1>5. ASSUME NEW d \in Day
      PROVE  /\ Covers(used[d], Job, d)' /\ used'[d] <= DailyLimit
             /\ Covers(priorityUsed[d], Request, d)' /\ priorityUsed'[d] <= PriorityLimit
  <2>1. PICK u \in Nat, p \in Nat : u = used[d] /\ p = priorityUsed[d]
    BY <1>1
  <2>2. Covers(u, Job, d)' /\ Covers(p, Request, d)'
    BY <1>4, <2>1, RequestFacts DEF ChargesAreCovered
  <2> QED
    BY <1>3, <2>1, <2>2 DEF Covers, ChargesAreCovered
<1> QED
  BY <1>5 DEF ChargesAreCovered

LEMMA ChargesStayCovered ==
    ASSUME TypeOK, ChargesAreCovered, [Next]_vars
    PROVE  ChargesAreCovered'
<1>1. CASE \A w \in Worker : ~Charges(w) /\ ~Marks(w)
  <2>1. /\ used \in [Day -> Nat] /\ priorityUsed \in [Day -> Nat]
        /\ UNCHANGED <<used, priorityUsed>>
    BY <1>1, MarksStay DEF TypeOK, quota
  <2>2. ASSUME NEW d \in Day, NEW S \in SUBSET Job, NEW u \in Nat, Covers(u, S, d)
        PROVE  Covers(u, S, d)'
    <3>1. Marked(S, d)' \subseteq Marked(S, d) /\ Marking(S, d)' \subseteq Marking(S, d)
      <4>1. d # Never
        BY ConstantFacts DEF Never
      <4> QED
        BY <1>1, <4>1, MarksStay DEF Marked, Marking, KeepsMarks
    <3> QED
      BY <2>2, <3>1, SmallerSets DEF Covers
  <2>3. ASSUME NEW d \in Day
        PROVE  /\ Covers(used[d], Job, d)' /\ used'[d] <= DailyLimit
               /\ Covers(priorityUsed[d], Request, d)' /\ priorityUsed'[d] <= PriorityLimit
    <3>1. PICK u \in Nat, p \in Nat : u = used[d] /\ p = priorityUsed[d]
      BY <2>1
    <3>2. Covers(u, Job, d)' /\ Covers(p, Request, d)'
      BY <2>2, <3>1, RequestFacts DEF ChargesAreCovered
    <3> QED
      BY <2>1, <3>1, <3>2 DEF Covers, ChargesAreCovered
  <2> QED
    BY <2>3 DEF ChargesAreCovered
<1> QED
  BY <1>1, ChargeIsCovered, MarkIsCovered

LEMMA ChargesInit == Init => ChargesAreCovered
<1> SUFFICES ASSUME Init, NEW d \in Day
             PROVE  /\ Covers(used[d], Job, d) /\ used[d] <= DailyLimit
                    /\ Covers(priorityUsed[d], Request, d) /\ priorityUsed[d] <= PriorityLimit
  BY DEF ChargesAreCovered
<1>1. \A S \in SUBSET Job : Marked(S, d) = {} /\ Marking(S, d) = {}
  <2>1. d # Never
    BY ConstantFacts DEF Never
  <2> QED
    BY <2>1 DEF Init, Marked, Marking, NoRow, Idle
<1>2. used[d] = 0 /\ priorityUsed[d] = 0
  BY DEF Init
<1>3. IsFiniteSet({}) /\ Cardinality({}) = 0
  BY FS_EmptySet
<1>4. Covers(0, Job, d) /\ Covers(0, Request, d)
  <2>1. ASSUME NEW S \in SUBSET Job PROVE Covers(0, S, d)
    <3>1. Marked(S, d) = {} /\ Marking(S, d) = {}
      BY <1>1
    <3>2. Cardinality({}) + Cardinality({}) <= 0
      BY <1>3
    <3> QED
      BY <1>3, <3>1, <3>2 DEF Covers
  <2> QED
    BY <2>1, RequestFacts
<1> QED
  BY <1>2, <1>4, UrlScanAssumption
-----------------------------------------------------------------------------
(* What is paid for *)

\* Of the jobs in S: those a page was read for, those marked as charged, and those a
\* delivery has charged, or has found charged, and not yet given up.
IsPaying(w, j) ==
    /\ \/ worker[w].pc \in {"mark", "read", "commit"}
       \/ worker[w].pc = "claim" /\ worker[w].paid
    /\ worker[w].job = j

PaidFor(S) ==
    {j \in S : \/ object[j] # Missing
               \/ job[j].charged # Never
               \/ \E w \in Worker : IsPaying(w, j)}

Pays(u, S) ==
    /\ IsFiniteSet(PaidFor(S)) /\ IsFiniteSet(Charged(u))
    /\ Cardinality(PaidFor(S)) <= Cardinality(Charged(u))

ChargesPay == Pays(used, Job) /\ Pays(priorityUsed, Request)

\* One charge more.
LEMMA ChargedMore ==
    ASSUME NEW u \in [Day -> Nat], NEW d \in Day, IsFiniteSet(Charged(u)),
           NEW v, v = [u EXCEPT ![d] = @ + 1]
    PROVE  /\ IsFiniteSet(Charged(v)) /\ Cardinality(Charged(u)) \in Nat
           /\ Cardinality(Charged(v)) = Cardinality(Charged(u)) + 1
<1>1. \A e, i : <<e, i>> \in Charged(u) <=> e \in Day /\ i \in 1..u[e]
  BY DEF Charged
<1>2. \A e, i : <<e, i>> \in Charged(v) <=> e \in Day /\ i \in 1..v[e]
  BY DEF Charged
<1>3. u[d] \in Nat /\ v[d] = u[d] + 1 /\ \A e \in Day : e # d => v[e] = u[e]
  OBVIOUS
<1>4. PICK n \in Nat : n = u[d]
  BY <1>3
<1>5. \A i : i \in 1..(n + 1) <=> i \in 1..n \/ i = n + 1
  OBVIOUS
<1>6. PICK x : x = <<d, n + 1>>
  OBVIOUS
<1>7. x \notin Charged(u)
  <2>1. n + 1 \notin 1..n
    OBVIOUS
  <2> QED
    BY <1>1, <1>4, <1>6, <2>1
<1>8. \A e, i : <<e, i>> \in Charged(v) <=> <<e, i>> \in Charged(u) \/ <<e, i>> = x
  <2>1. SUFFICES ASSUME NEW e, NEW i
                 PROVE  <<e, i>> \in Charged(v) <=> <<e, i>> \in Charged(u) \/ <<e, i>> = x
    BY Zenon
  <2>2. CASE e = d
    <3>1. <<e, i>> \in Charged(v) <=> i \in 1..(n + 1)
      BY <1>2, <1>3, <1>4, <2>2
    <3>2. <<e, i>> \in Charged(u) <=> i \in 1..n
      BY <1>1, <1>4, <2>2
    <3>3. <<e, i>> = x <=> i = n + 1
      BY <1>6, <2>2
    <3> QED
      BY <3>1, <3>2, <3>3, <1>5
  <2>3. CASE e # d
    <3>1. <<e, i>> # x
      BY <1>6, <2>3
    <3>2. e \in Day => v[e] = u[e]
      BY <1>3, <2>3
    <3> QED
      BY <3>1, <3>2, <1>1, <1>2
  <2> QED
    BY <2>2, <2>3
<1>9. Charged(v) = Charged(u) \cup {x}
  <2>1. \A y \in Charged(v) : \E e, i : y = <<e, i>>
    BY DEF Charged
  <2>2. \A y \in Charged(u) : \E e, i : y = <<e, i>>
    BY DEF Charged
  <2>3. ASSUME NEW y \in Charged(v) PROVE y \in Charged(u) \cup {x}
    <3>1. PICK e, i : y = <<e, i>>
      BY <2>1
    <3>2. <<e, i>> \in Charged(u) \/ <<e, i>> = x
      BY <1>8, <3>1
    <3> QED
      BY <3>1, <3>2
  <2>4. ASSUME NEW y \in Charged(u) PROVE y \in Charged(v)
    BY <2>2, <1>8, Zenon
  <2>5. x \in Charged(v)
    BY <1>6, <1>8, Zenon
  <2> QED
    BY <2>3, <2>4, <2>5
<1>10. /\ IsFiniteSet(Charged(u) \cup {x})
       /\ Cardinality(Charged(u) \cup {x}) = Cardinality(Charged(u)) + 1
  BY <1>7, FS_AddElement
<1>11. Cardinality(Charged(u)) \in Nat
  BY FS_CardinalityType
<1> QED
  BY <1>9, <1>10, <1>11

LEMMA ObjectsAreRead ==
    ASSUME TypeOK, [Next]_vars, \A w \in Worker : ~Reads(w)
    PROVE  object' = object
<1>1. ASSUME NEW c \in Cron,
             (\E a \in Recurring : CronReads(c, a)) \/ CronStep(c) \/ CronDies(c)
      PROVE  object' = object
  BY <1>1 DEF CronReads, CronStep, CronInserts, CronSends, CronUnsends, CronDies, CronGoes, stored
<1>2. ASSUME NEW c \in Client, ClientStep(c) \/ \E i \in Request : ClientAsks(c, i)
      PROVE  object' = object
  BY <1>2 DEF ClientStep, ClientAsks, ClientInserts, ClientSends, ClientIsAnswered, ClientGoes,
         stored
<1>3. ASSUME NEW w \in Worker, WorkerStep(w) \/ WorkerThrows(w) \/ WorkerDies(w)
      PROVE  object' = object
  <2>1. ASSUME NEW m, Throws(w, m) PROVE object' = object
    BY <2>1 DEF Throws, stored
  <2> QED
    BY <1>3, <2>1 DEF WorkerStep, WorkerThrows, WorkerDies, Loads, Claims, ClaimRefused, Reloads,
           Charges, Marks, Commits, Notifies, GivesUp, stored
<1> QED
  BY <1>1, <1>2, <1>3, TimeKeeps DEF Next, Runs

\* No step but a charge pays for another job.
LEMMA PaidForStays ==
    ASSUME TypeOK, [Next]_vars, NEW j \in Job,
           \/ object'[j] # Missing
           \/ job'[j].charged # Never
           \/ \E w \in Worker : IsPaying(w, j)'
    PROVE  \/ object[j] # Missing
           \/ job[j].charged # Never
           \/ \E w \in Worker : IsPaying(w, j)
           \/ \E w \in Worker : Charges(w) /\ worker[w].job = j
<1>1. /\ job \in [Job -> JobRow] /\ worker \in [Worker -> WorkerJob]
      /\ object \in [Job -> Page \cup {Missing}]
  BY DEF TypeOK
<1>2. CASE object'[j] # Missing /\ object[j] = Missing
  <2>1. PICK w \in Worker : Reads(w)
    <3>1. ASSUME \A w \in Worker : ~Reads(w)
          PROVE  object' = object
      BY <3>1, ObjectsAreRead
    <3> QED
      BY <1>2, <3>1
  <2>2. worker[w].job \in Job /\ worker[w].pc = "read"
    BY <2>1, WorkerFacts DEF Reads
  <2>3. worker[w].job = j
    BY <1>1, <1>2, <2>1, <2>2 DEF Reads
  <2>4. IsPaying(w, j)
    BY <2>2, <2>3 DEF IsPaying
  <2> QED
    BY <2>4
<1>3. CASE job'[j].charged # Never /\ job[j].charged = Never
  <2>1. CASE \E w \in Worker : Marks(w)
    <3>1. PICK w \in Worker : Marks(w)
      BY <2>1
    <3>2. worker[w].job = j /\ worker[w].pc = "mark"
      BY <1>1, <1>3, <3>1, WorkerFacts DEF Marks
    <3>3. IsPaying(w, j)
      BY <3>2 DEF IsPaying
    <3> QED
      BY <3>3
  <2>2. CASE \E w \in Worker : Charges(w)
    BY <1>3, <2>2 DEF Charges
  <2>3. CASE \A w \in Worker : ~Charges(w) /\ ~Marks(w)
    BY <1>3, <2>3, MarksStay DEF KeepsMarks
  <2> QED
    BY <2>1, <2>2, <2>3
<1>4. ASSUME NEW w \in Worker, IsPaying(w, j)', ~IsPaying(w, j), job[j].charged = Never
      PROVE  Charges(w) /\ worker[w].job = j
  <2>1. worker'[w] # Idle /\ worker'[w] # worker[w] /\ worker'[w].job = j
    BY <1>4 DEF IsPaying, Idle
  <2>2. worker'[w].pc # "notify"
    BY <1>4 DEF IsPaying
  <2>3. CASE worker[w] # Idle /\ worker'[w].job = worker[w].job /\ Moves(w)
    <3>1. CASE Claims(w)
      <4>1. worker'[w].pc = IF worker[w].paid THEN "read" ELSE "charge"
        BY <1>1, <3>1 DEF Claims, WorkerGoes, To, At
      <4> QED
        BY <1>4, <2>1, <2>3, <3>1, <4>1 DEF IsPaying, Claims
    <3>2. CASE ClaimRefused(w) \/ Reloads(w)
      BY <1>1, <1>4, <3>2 DEF IsPaying, ClaimRefused, Reloads, WorkerGoes, To, At
    <3>3. CASE Charges(w)
      BY <2>1, <2>3, <3>3
    <3>4. CASE Marks(w) \/ Reads(w)
      BY <1>4, <2>1, <2>3, <3>4 DEF IsPaying, Marks, Reads
    <3>5. CASE Commits(w)
      BY <1>4, <2>1, <2>3, <3>5 DEF IsPaying, Commits
    <3> QED
      BY <2>3, <3>1, <3>2, <3>3, <3>4, <3>5 DEF Moves
  <2>4. CASE /\ worker'[w].pc \in {"notify", "claim"}
             /\ worker'[w].pc = "claim" => worker'[w].paid = IsCharged(job[worker'[w].job])
    BY <1>4, <2>1, <2>2, <2>4 DEF IsPaying, IsCharged
  <2> QED
    BY <2>1, <2>3, <2>4, NewWorkerPlace
<1> QED
  BY <1>2, <1>3, <1>4

LEMMA PaysStays ==
    ASSUME NEW u, NEW S \in SUBSET Job, Pays(u, S),
           PaidFor(S)' \subseteq PaidFor(S)
    PROVE  Pays(u, S)'
<1>1. /\ IsFiniteSet(PaidFor(S)') /\ Cardinality(PaidFor(S)') <= Cardinality(PaidFor(S))
      /\ Cardinality(PaidFor(S)') \in Nat /\ Cardinality(PaidFor(S)) \in Nat
      /\ Cardinality(Charged(u)) \in Nat
  BY FS_Subset, FS_CardinalityType DEF Pays
<1> QED
  BY <1>1 DEF Pays, Charged

LEMMA ChargesStillPay ==
    ASSUME TypeOK, ChargesPay, [Next]_vars
    PROVE  ChargesPay'
<1>1. /\ used \in [Day -> Nat] /\ priorityUsed \in [Day -> Nat] /\ today \in Day
      /\ worker \in [Worker -> WorkerJob]
  BY DEF TypeOK
<1>2. ASSUME NEW S \in SUBSET Job, NEW j \in PaidFor(S)', j \notin PaidFor(S)
      PROVE  \E w \in Worker : Charges(w) /\ worker[w].job = j
  BY <1>2, PaidForStays DEF PaidFor
<1>3. CASE \A w \in Worker : ~Charges(w)
  <2>1. UNCHANGED quota
    BY <1>3, MarksStay DEF Marks
  <2>2. \A S \in SUBSET Job : PaidFor(S)' \subseteq PaidFor(S)
    BY <1>2, <1>3
  <2>3. PICK u, p : u = used /\ p = priorityUsed
    OBVIOUS
  <2>4. Pays(u, Job)' /\ Pays(p, Request)'
    BY <2>2, <2>3, PaysStays, RequestFacts DEF ChargesPay
  <2> QED
    BY <2>1, <2>3, <2>4 DEF ChargesPay, Pays, Charged, quota
<1>4. ASSUME NEW w \in Worker, Charges(w)
      PROVE  ChargesPay'
  <2>1. PICK j \in Job : j = worker[w].job
    BY <1>4, WorkerFacts DEF Charges
  <2>2. /\ used' = [used EXCEPT ![today] = @ + 1]
        /\ priorityUsed' = IF j \in Request THEN [priorityUsed EXCEPT ![today] = @ + 1]
                           ELSE priorityUsed
        /\ worker'[w].pc = "mark"
        /\ \A v \in Worker : v # w => worker'[v] = worker[v]
    BY <1>1, <1>4, <2>1 DEF Charges, WorkerGoes
  <2>3. \A v \in Worker : Charges(v) => v = w
    <3> SUFFICES ASSUME NEW v \in Worker, Charges(v), v # w
                 PROVE  FALSE
      OBVIOUS
    <3>1. worker[v].pc = "charge" /\ worker'[v].pc = "mark"
      BY <1>1 DEF Charges, WorkerGoes
    <3> QED
      BY <2>2, <3>1
  <2>4. \A S \in SUBSET Job : PaidFor(S)' \subseteq PaidFor(S) \cup (S \cap {j})
    <3> SUFFICES ASSUME NEW S \in SUBSET Job, NEW k \in PaidFor(S)', k \notin PaidFor(S)
                 PROVE  k \in S /\ k = j
      OBVIOUS
    <3>1. k \in S
      BY DEF PaidFor
    <3> QED
      BY <1>2, <2>1, <2>3, <3>1
  <2>5. ASSUME NEW S \in SUBSET Job, NEW u \in [Day -> Nat], Pays(u, S),
               NEW v, v = [u EXCEPT ![today] = @ + 1]
        PROVE  Pays(v, S)'
    <3>1. PaidFor(S)' \subseteq PaidFor(S) \cup {j}
      BY <2>4
    <3>2. /\ IsFiniteSet(PaidFor(S)')
          /\ Cardinality(PaidFor(S)') <= Cardinality(PaidFor(S)) + 1
          /\ Cardinality(PaidFor(S)) \in Nat /\ Cardinality(PaidFor(S)') \in Nat
      BY <2>5, <3>1, OneMore DEF Pays
    <3>3. /\ IsFiniteSet(Charged(v)) /\ Cardinality(Charged(u)) \in Nat
          /\ Cardinality(Charged(v)) = Cardinality(Charged(u)) + 1
      BY <1>1, <2>5, ChargedMore DEF Pays
    <3> QED
      BY <2>5, <3>2, <3>3 DEF Pays, Charged
  <2>6. PICK u, p, v, q : u = used /\ p = priorityUsed /\ v = used' /\ q = priorityUsed'
    OBVIOUS
  <2>7. Pays(v, Job)'
    BY <1>1, <2>2, <2>5, <2>6 DEF ChargesPay
  <2>8. Pays(q, Request)'
    <3>1. CASE j \in Request
      BY <1>1, <2>2, <2>5, <2>6, <3>1, RequestFacts DEF ChargesPay
    <3>2. CASE j \notin Request
      <4>1. PaidFor(Request)' \subseteq PaidFor(Request)
        BY <2>4, <3>2, RequestFacts
      <4> QED
        BY <2>2, <2>6, <3>2, <4>1, PaysStays, RequestFacts DEF ChargesPay
    <3> QED
      BY <3>1, <3>2
  <2> QED
    BY <2>6, <2>7, <2>8 DEF ChargesPay, Pays, Charged
<1> QED
  BY <1>3, <1>4

LEMMA ChargesPayInit == Init => ChargesPay
<1> SUFFICES ASSUME Init
             PROVE  ChargesPay
  OBVIOUS
<1>1. \A S \in SUBSET Job : PaidFor(S) = {}
  BY DEF Init, PaidFor, IsPaying, NoRow, Idle
<1>2. Charged(used) = {} /\ Charged(priorityUsed) = {}
  <2>1. \A d \in Day : used[d] = 0 /\ priorityUsed[d] = 0
    BY DEF Init
  <2>2. 1..0 = {}
    OBVIOUS
  <2> QED
    BY <2>1, <2>2 DEF Charged
<1>3. IsFiniteSet({}) /\ Cardinality({}) = 0
  BY FS_EmptySet
<1>4. \A S \in SUBSET Job : Pays(used, S) /\ Pays(priorityUsed, S)
  BY <1>1, <1>2, <1>3 DEF Pays
<1> QED
  BY <1>4, RequestFacts DEF ChargesPay
-----------------------------------------------------------------------------
(* The theorems *)

LEMMA ScanInit == Init => ScanInv
<1> SUFFICES ASSUME Init
             PROVE  ScanInv
  OBVIOUS
<1>1. \A j \in Job : j \notin Read /\ job[j].state = "absent"
  BY NewRowType DEF Init, Read
<1>2. NoPageIsSkipped
  BY DEF Init, NoPageIsSkipped, ReadUpTo
<1>3. /\ \A c \in Cron : cron[c].pc = "idle"
      /\ \A c \in Client : client[c].pc = "idle"
      /\ \A w \in Worker : worker[w] = Idle /\ worker[w].pc = "idle"
      /\ announced = {} /\ messages = {}
  BY DEF Init, Idle
<1>4. PagesInOrder
  BY <1>1, <1>2, <1>3 DEF PagesInOrder
<1>5. RequestsStay /\ TellsWhatIsStored
  BY <1>1, <1>3, RequestFacts DEF RequestsStay, TellsWhatIsStored
<1>6. NoneIsLeft
  BY <1>1, <1>3 DEF NoneIsLeft, IsLookedAfter, IsUnsent, IsAt, IsDue, IsSending, Active
<1> QED
  BY <1>4, <1>5, <1>6, InitType DEF ScanInv

LEMMA ScanStep == ScanInv /\ [Next]_vars => ScanInv'
<1> SUFFICES ASSUME ScanInv, [Next]_vars
             PROVE  ScanInv'
  OBVIOUS
<1>1. TypeOK /\ PagesInOrder /\ RequestsStay /\ TellsWhatIsStored /\ NoneIsLeft
  BY DEF ScanInv
<1>2. TypeOK' /\ Persists
  BY <1>1, NextType, NextPersists
<1> QED
  BY <1>1, <1>2, PagesStayInOrder, RequestsStayThere, StillTellsWhatIsStored, NoneIsLeftBehind
  DEF ScanInv

\* The invariant that the properties rest on: the cursor that a schedule, a request or
\* a delivery has in hand is one the apex had, no delivery is announced ahead of its
\* commit, and what is active, or is not there, is in someone's hands, or in no one's.
THEOREM ScanInvariant == Spec => []ScanInv
<1> QED
  BY ScanInit, ScanStep, PTL DEF Spec

\* The walk through the history of an apex skips no page, whichever schedules, requests
\* and deliveries run at once and whatever fails (processUrlscanJob, scheduleUrlscan).
THEOREM PagesAreWalked == Spec => []NoPageIsSkipped
<1>1. ScanInv => NoPageIsSkipped
  BY DEF ScanInv, PagesInOrder
<1> QED
  BY <1>1, ScanInvariant, PTL

\* A delta that is announced is stored and its job complete, unless its row was deleted
\* under it (processUrlscanJob).
THEOREM DeltasAreStored == Spec => []AnnouncedIsStored
<1>1. ScanInv => AnnouncedIsStored
  BY DEF ScanInv, TellsWhatIsStored, IsSettled, AnnouncedIsStored
<1> QED
  BY <1>1, ScanInvariant, PTL

\* A job that is queued or running is in the hands of a message or an invocation, so
\* that it does not keep its apex for ever (failJob, scheduleUrlscan, admitEnrichment).
THEOREM JobsAreCarried == Spec => []PendingJobsAreCarried
<1>1. ScanInv => PendingJobsAreCarried
  <2>1. ASSUME NEW j \in Job \ orphaned, job[j].state \in Active, NoneIsLeft
        PROVE  Carried(j)
    BY <2>1 DEF NoneIsLeft, IsLookedAfter, IsDue, IsSending, IsAsking, IsAt, Carried, Deserted
  <2> QED
    BY <2>1 DEF ScanInv, PendingJobsAreCarried
<1> QED
  BY <1>1, ScanInvariant, PTL

\* A job that is complete stays so, whichever deliveries of it fail later (failJob).
THEOREM CompleteStays == Spec => CompleteIsFinal
<1>1. ScanInv /\ [Next]_vars =>
        [\A j \in Job : job[j].state = "complete" => job'[j].state = "complete"]_vars
  BY NextPersists DEF ScanInv, Persists
<1> QED
  BY <1>1, ScanInvariant, PTL DEF Spec, CompleteIsFinal

\* A day's row of the quota covers every job marked as charged to it, and stays within
\* its limits, for any number of deliveries (chargeQuota).
THEOREM QuotaCovers == Spec => []QuotaCoversCharges
<1>1. TypeOK /\ ChargesAreCovered => QuotaCoversCharges
  <2> SUFFICES ASSUME TypeOK, ChargesAreCovered, NEW d \in Day
               PROVE  /\ used[d] <= DailyLimit /\ priorityUsed[d] <= PriorityLimit
                      /\ Cardinality(MarkedOn(d)) <= used[d]
                      /\ Cardinality(MarkedOn(d) \cap Request) <= priorityUsed[d]
    BY DEF QuotaCoversCharges
  <2>1. MarkedOn(d) = Marked(Job, d) /\ MarkedOn(d) \cap Request = Marked(Request, d)
    BY RequestFacts DEF MarkedOn, Marked
  <2> QED
    <3>1. used[d] \in Nat /\ priorityUsed[d] \in Nat
      BY StateFacts
    <3>2. \A S : IsFiniteSet(S) => Cardinality(S) \in Nat
      BY FS_CardinalityType
    <3>3. ASSUME NEW S, NEW u \in Nat, Covers(u, S, d)
          PROVE  Cardinality(Marked(S, d)) <= u
      <4>1. /\ Cardinality(Marked(S, d)) \in Nat /\ Cardinality(Marking(S, d)) \in Nat
            /\ Cardinality(Marked(S, d)) + Cardinality(Marking(S, d)) <= u
        BY <3>2, <3>3 DEF Covers
      <4> QED
        BY <4>1
    <3> QED
      BY <2>1, <3>1, <3>3 DEF ChargesAreCovered
<1>2. TypeOK /\ ChargesAreCovered /\ [Next]_vars => ChargesAreCovered'
  BY ChargesStayCovered
<1> QED
  BY <1>1, <1>2, ChargesInit, TypeCorrect, PTL DEF Spec

\* No more pages are read than were paid for, nor more pages of requests than were paid
\* for as such, for any number of deliveries: each page comes after a charge of its job
\* that its object keeps in evidence when the row is gone (processUrlscanJob).
THEOREM ReadsPaid == Spec => []ReadsArePaid
<1>1. TypeOK /\ ChargesPay => ReadsArePaid
  <2> SUFFICES ASSUME TypeOK, ChargesPay
               PROVE  ReadsArePaid
    OBVIOUS
  <2>1. ASSUME NEW S, NEW u, Pays(u, S), NEW R \in SUBSET PaidFor(S)
        PROVE  Cardinality(R) <= Total(u)
    <3>1. /\ Cardinality(R) <= Cardinality(PaidFor(S))
          /\ Cardinality(R) \in Nat /\ Cardinality(PaidFor(S)) \in Nat
          /\ Cardinality(Charged(u)) \in Nat
      BY <2>1, FS_Subset, FS_CardinalityType DEF Pays
    <3> QED
      BY <2>1, <3>1 DEF Pays, Total
  <2>2. Read \subseteq PaidFor(Job) /\ Read \cap Request \subseteq PaidFor(Request)
    BY DEF Read, PaidFor
  <2> QED
    BY <2>1, <2>2 DEF ChargesPay, ReadsArePaid
<1>2. TypeOK /\ ChargesPay /\ [Next]_vars => ChargesPay'
  BY ChargesStillPay
<1> QED
  BY <1>1, <1>2, ChargesPayInit, TypeCorrect, PTL DEF Spec
=============================================================================
