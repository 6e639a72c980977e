-------------------------- MODULE ReadBatchesProofs --------------------------
(***************************************************************************)
(* Proofs about ReadBatches: types, chunks and counts of every batch, the  *)
(* quota rows and the contract, for any subjects, keys, sizes and bounds.  *)
(***************************************************************************)
EXTENDS ReadBatches, SequenceTheorems, FiniteSetTheorems, WellFoundedInduction, TLAPS

-----------------------------------------------------------------------------
(* Data *)

\* The least of a set of numbers is one of them.
LEMMA MinIsMember ==
    ASSUME NEW S \in SUBSET Nat, S # {}
    PROVE  Min(S) \in S /\ \A x \in S : Min(S) <= x
<1> DEFINE R == {ss \in Nat \X Nat : ss[1] < ss[2]}
<1>1. IsWellFoundedOn(R, Nat)
  BY NatLessThanWellFounded, Zenon DEF OpToRel
<1>2. PICK m \in S : \A x \in S : ~(<<x, m>> \in R)
  <2> HIDE DEF R
  <2> QED
    BY <1>1, WFMin
<1>3. \A x \in S : m <= x
  <2> SUFFICES ASSUME NEW x \in S
               PROVE  m <= x
    OBVIOUS
  <2>1. x \in Nat /\ m \in Nat
    OBVIOUS
  <2>2. <<x, m>> \notin R
    BY <1>2
  <2>3. ~(x < m)
    BY <2>1, <2>2
  <2> QED
    BY <2>1, <2>3
<1> HIDE DEF R
<1> QED
  BY <1>3 DEF Min

LEMMA JobFacts == \A j \in Job : UnitsOf(j) \in Nat \ {0} /\ SubjectOf(j) \in Subject
BY ReadBatchesAssumption DEF Job, UnitsOf, SubjectOf

LEMMA WithoutType ==
    ASSUME NEW j \in Job, order \in Seq(Job)
    PROVE  Without(j) \in Seq(Job)
<1> DEFINE I == {i \in 1..Len(order) : order[i] = j}
           i == SelectInSeq(order, LAMBDA v : v = j)
<1>1. CASE I = {}
  BY <1>1 DEF Without, RemoveFirst
<1>2. CASE I # {}
  <2>1. i = Min(I)
    BY <1>2 DEF SelectInSeq
  <2>2. Min(I) \in I
    <3>1. I \in SUBSET Nat
      BY LenProperties
    <3> QED
      BY <1>2, <3>1, MinIsMember
  <2> HIDE DEF i
  <2>3. i \in 1..Len(order) /\ Len(order) \in Nat
    BY <2>1, <2>2, LenProperties
  <2>4. \A k \in 1..Len(order) : order[k] \in Job
    BY LenProperties
  <2>5. SubSeq(order, 1, i - 1) \in Seq(Job)
    <3>1. \A k \in 1..(i - 1) : order[k] \in Job
      BY <2>3, <2>4
    <3> QED
      BY <2>3, <3>1, SubSeqProperties
  <2>6. SubSeq(order, i + 1, Len(order)) \in Seq(Job)
    <3>1. \A k \in (i + 1)..Len(order) : order[k] \in Job
      BY <2>3, <2>4
    <3> QED
      BY <2>3, <3>1, SubSeqProperties
  <2>7. Without(j) = SubSeq(order, 1, i - 1) \o SubSeq(order, i + 1, Len(order))
    BY <1>2 DEF Without, RemoveFirst, RemoveAt, i
  <2> QED
    BY <2>5, <2>6, <2>7, ConcatProperties
<1> QED
  BY <1>1, <1>2

\* A slice never reaches past the end of the request.
LEMMA RequestedFits ==
    ASSUME NEW j \in Job, NEW position \in Nat, position <= UnitsOf(j),
           NEW n \in Nat, n <= Requested(j, position)
    PROVE  position + n <= UnitsOf(j)
<1> DEFINE S == {SliceSize, RowSize - (position % RowSize), UnitsOf(j) - position}
<1>1. position % RowSize \in 0..(RowSize - 1)
  BY ReadBatchesAssumption
<1>2. S \in SUBSET Nat /\ S # {} /\ UnitsOf(j) - position \in S
  BY <1>1, JobFacts, ReadBatchesAssumption
<1>3. Min(S) \in Nat /\ Min(S) <= UnitsOf(j) - position
  <2> HIDE DEF S
  <2> QED
    BY <1>2, MinIsMember
<1> QED
  BY <1>3, JobFacts DEF Requested

\* Rows and the places in them give back the position.
LEMMA FromIsPosition ==
    ASSUME NEW j \in Job, NEW position \in Nat
    PROVE  From(j, position) = position
BY ReadBatchesAssumption DEF From
-----------------------------------------------------------------------------
(* The inductive invariant *)

\* What the row of a job and its chunks always say.
RowIsSound(j) ==
    /\ job[j].committed = job[j].next
    /\ job[j].next <= UnitsOf(j)
    /\ job[j].state = "absent" => job[j] = NoRow /\ chunks[j] = <<>>
    /\ job[j].state \in Active => job[j].released = 0 /\ job[j].next < UnitsOf(j)
    /\ job[j].state = "done" => job[j].released = 0 /\ job[j].next = UnitsOf(j)
    /\ job[j].state \in {"failed", "cancelled"} =>
         job[j].released = UnitsOf(j) - job[j].next

ChunksAreSound(j) ==
    /\ \A i \in DOMAIN chunks[j] :
         /\ chunks[j][i].first = End(j, i - 1)
         /\ chunks[j][i].from = End(j, i - 1)
         /\ chunks[j][i].root = job[j].root
    /\ End(j, Len(chunks[j])) = job[j].next

ReadInv ==
    /\ TypeOK
    /\ \A j \in Job : RowIsSound(j)
    /\ \A j \in Job : ChunksAreSound(j)

\* An action that leaves a job and its chunks alone leaves them sound.
LEMMA UntouchedIsSound ==
    ASSUME NEW j \in Job, RowIsSound(j), ChunksAreSound(j),
           job'[j] = job[j], chunks'[j] = chunks[j]
    PROVE  RowIsSound(j)' /\ ChunksAreSound(j)'
BY DEF RowIsSound, ChunksAreSound, End

\* A row whose progress does not change leaves the chunks sound.
LEMMA ChunksStaySound ==
    ASSUME NEW j \in Job, ChunksAreSound(j), chunks'[j] = chunks[j],
           job'[j].next = job[j].next, job'[j].root = job[j].root
    PROVE  ChunksAreSound(j)'
BY DEF ChunksAreSound, End

\* What is outstanding of a job at work has not been looked up.
LEMMA OutstandingIsLeft ==
    ASSUME TypeOK, NEW j \in Job, RowIsSound(j), job[j].state \in Active
    PROVE  /\ Outstanding(j) = UnitsOf(j) - job[j].next
           /\ Outstanding(j) \in Nat
           /\ job[j].released = 0
<1>1. job[j] \in JobRow
  BY DEF TypeOK
<1> QED
  BY <1>1, JobFacts DEF RowIsSound, Outstanding, JobRow

LEMMA GivenBackType ==
    ASSUME TypeOK, NEW j \in Job, RowIsSound(j), job[j].state \in Active
    PROVE  GivenBack(j) \in [Day \X Subject -> 0..Limit]
<1>1. job[j] \in JobRow /\ Account(j) \in Day \X Subject
  BY JobFacts DEF TypeOK, Account, JobRow
<1>2. used \in [Day \X Subject -> 0..Limit] /\ Limit \in Nat
  BY ReadBatchesAssumption DEF TypeOK
<1>3. AtLeast0(used[Account(j)] - Outstanding(j)) \in 0..Limit
  BY <1>1, <1>2, OutstandingIsLeft DEF AtLeast0
<1> QED
  BY <1>2, <1>3 DEF GivenBack
-----------------------------------------------------------------------------
(* Requests *)

LEMMA InitInv == Init => ReadInv
<1> SUFFICES ASSUME Init
             PROVE  ReadInv
  OBVIOUS
<1>1. NoRow \in JobRow
  BY ReadBatchesAssumption DEF NoRow, JobRow, Day, Root, Active, Ended
<1>2. TypeOK
  <2>1. <<>> \in Seq(Chunk) /\ <<>> \in Seq(Job)
    BY EmptySeq
  <2>2. /\ today \in Day /\ kept \in 0..today /\ root \in Root /\ faults \in 0..MaxFaults
        /\ used \in [Day \X Subject -> 0..Limit] /\ spent \in [Day \X Subject -> Nat]
    BY ReadBatchesAssumption DEF Init, Day, Root
  <2>3. runner \in Alarm /\ alarm \in BOOLEAN
    BY DEF Init, Alarm
  <2>4. job \in [Job -> JobRow] /\ chunks \in [Job -> Seq(Chunk)] /\ order \in Seq(Job)
    BY <1>1, <2>1 DEF Init
  <2> QED
    BY <2>2, <2>3, <2>4 DEF TypeOK
<1>3. \A j \in Job : RowIsSound(j)
  BY JobFacts DEF Init, RowIsSound, NoRow, Active, Ended
<1>4. \A j \in Job : ChunksAreSound(j)
  BY DEF Init, ChunksAreSound, End, NoRow
<1> QED
  BY <1>2, <1>3, <1>4 DEF ReadInv

LEMMA AdmitsInv ==
    ASSUME ReadInv, NEW s \in Subject, Admits(s)
    PROVE  ReadInv'
<1> DEFINE pruned == [a \in Day \X Subject |-> IF a[1] < today THEN 0 ELSE used[a]]
           account == <<today, s>>
<1>1. TypeOK /\ account \in Day \X Subject /\ Limit \in Nat
  BY ReadBatchesAssumption DEF ReadInv, TypeOK
<1>2. pruned \in [Day \X Subject -> 0..Limit]
  BY <1>1 DEF TypeOK
<1>3. used[account] < Limit => [pruned EXCEPT ![account] = @ + 1] \in [Day \X Subject -> 0..Limit]
  <2>1. pruned[account] = used[account]
    BY <1>1 DEF TypeOK, Day
  <2>2. used[account] < Limit => pruned[account] + 1 \in 0..Limit
    BY <1>1, <2>1 DEF TypeOK
  <2> HIDE DEF pruned
  <2> QED
    BY <1>1, <1>2, <2>2
<1>4. used' \in [Day \X Subject -> 0..Limit]
  BY <1>2, <1>3 DEF Admits
<1>5. spent' \in [Day \X Subject -> Nat]
  <2>1. spent[account] + 1 \in Nat
    BY <1>1 DEF TypeOK
  <2> QED
    BY <1>1, <2>1 DEF Admits, TypeOK
<1>6. today \in Nat /\ kept' \in 0..today'
  BY <1>1, ReadBatchesAssumption DEF Admits, TypeOK, Day, world
<1>7. TypeOK'
  BY <1>1, <1>4, <1>5, <1>6 DEF Admits, TypeOK, world
<1>8. \A j \in Job : RowIsSound(j)' /\ ChunksAreSound(j)'
  BY UntouchedIsSound DEF Admits, ReadInv
<1> QED
  BY <1>7, <1>8 DEF ReadInv

LEMMA SubmitsInv ==
    ASSUME ReadInv, NEW j \in Job, Submits(j)
    PROVE  ReadInv'
<1> DEFINE account == <<today, SubjectOf(j)>>
<1>1. TypeOK /\ account \in Day \X Subject /\ Limit \in Nat /\ UnitsOf(j) \in Nat \ {0}
  BY ReadBatchesAssumption, JobFacts DEF ReadInv, TypeOK
<1>2. used' \in [Day \X Subject -> 0..Limit]
  <2>1. used[account] + UnitsOf(j) \in 0..Limit
    BY <1>1 DEF TypeOK, Submits
  <2> QED
    BY <1>1, <2>1 DEF TypeOK, Submits
<1>3. PICK r \in 0..root :
        job' = [job EXCEPT ![j] =
                  [NoRow EXCEPT !.state = "queued", !.day = today, !.root = r]]
  BY DEF Submits
<1>4. job'[j] = [NoRow EXCEPT !.state = "queued", !.day = today, !.root = r]
  BY <1>1, <1>3 DEF TypeOK
<1>5. r \in Root
  BY <1>1, ReadBatchesAssumption DEF TypeOK, Root
<1>6. job' \in [Job -> JobRow]
  <2>1. job'[j] \in JobRow
    <3>1. job'[j] = [state |-> "queued", day |-> today, root |-> r, next |-> 0,
                     committed |-> 0, released |-> 0, failures |-> 0]
      BY <1>4 DEF NoRow
    <3>2. "queued" \in {"absent"} \cup Active \cup Ended /\ today \in Day
      BY <1>1 DEF Active, TypeOK
    <3> QED
      BY <1>5, <3>1, <3>2 DEF JobRow
  <2> QED
    BY <1>1, <1>3, <1>4, <2>1 DEF TypeOK
<1>7. order' \in Seq(Job)
  BY <1>1, AppendProperties DEF Submits, TypeOK
<1>8. faults' \in 0..MaxFaults /\ alarm' \in BOOLEAN
  <2>1. \/ alarm' = TRUE /\ UNCHANGED faults
        \/ Fault /\ UNCHANGED alarm
    BY DEF Submits
  <2>2. alarm' \in BOOLEAN
    BY <1>1, <2>1, Zenon DEF TypeOK
  <2>3. faults' \in 0..MaxFaults
    BY <1>1, <2>1, ReadBatchesAssumption DEF TypeOK, Fault
  <2> QED
    BY <2>2, <2>3
<1>9. TypeOK'
  BY <1>1, <1>2, <1>6, <1>7, <1>8 DEF Submits, TypeOK, world
<1>10. RowIsSound(j)' /\ ChunksAreSound(j)'
  <2>1. chunks'[j] = <<>>
    BY DEF Submits, ReadInv, RowIsSound
  <2>2. job'[j].state = "queued" /\ job'[j].next = 0 /\ job'[j].committed = 0 /\ job'[j].released = 0
    BY <1>4 DEF NoRow
  <2> QED
    BY <1>1, <2>1, <2>2 DEF RowIsSound, ChunksAreSound, End, Active
<1>11. \A k \in Job \ {j} : RowIsSound(k)' /\ ChunksAreSound(k)'
  <2> SUFFICES ASSUME NEW k \in Job \ {j}
               PROVE  RowIsSound(k)' /\ ChunksAreSound(k)'
    OBVIOUS
  <2>1. job'[k] = job[k] /\ chunks'[k] = chunks[k]
    BY <1>1, <1>3 DEF TypeOK, Submits
  <2> QED
    BY <2>1, UntouchedIsSound DEF ReadInv
<1> QED
  BY <1>9, <1>10, <1>11 DEF ReadInv

LEMMA PollsInv ==
    ASSUME ReadInv, NEW j \in Job, Resubmits(j) \/ Polls(j)
    PROVE  ReadInv'
<1>1. TypeOK'
  BY DEF ReadInv, Resubmits, Polls, TypeOK, PolledAlarm, world
<1>2. \A k \in Job : RowIsSound(k)' /\ ChunksAreSound(k)'
  BY UntouchedIsSound DEF Resubmits, Polls, ReadInv
<1> QED
  BY <1>1, <1>2 DEF ReadInv

\* A job at work ends without another chunk: all that is outstanding is released.
LEMMA EndsSound ==
    ASSUME ReadInv, NEW j \in Job, job[j].state \in Active,
           NEW state \in {"cancelled", "failed"}, NEW failures \in Nat,
           job' = [job EXCEPT ![j] = [@ EXCEPT !.state = state, !.failures = failures,
                                               !.released = ReleasedAtEnd(j)]],
           chunks' = chunks
    PROVE  /\ job' \in [Job -> JobRow]
           /\ \A k \in Job : RowIsSound(k)' /\ ChunksAreSound(k)'
<1>1. TypeOK /\ RowIsSound(j) /\ job[j] \in JobRow
  BY DEF ReadInv, TypeOK
<1>2. job'[j] = [job[j] EXCEPT !.state = state, !.failures = failures,
                               !.released = ReleasedAtEnd(j)]
  BY <1>1 DEF TypeOK
<1>3. ReleasedAtEnd(j) = UnitsOf(j) - job[j].next /\ ReleasedAtEnd(j) \in Nat
  BY <1>1, OutstandingIsLeft DEF ReleasedAtEnd
<1>4. job'[j] \in JobRow
  <2>1. state \in {"absent"} \cup Active \cup Ended
    BY DEF Ended
  <2>2. job'[j] = [state |-> state, day |-> job[j].day, root |-> job[j].root,
                   next |-> job[j].next, committed |-> job[j].committed,
                   released |-> ReleasedAtEnd(j), failures |-> failures]
    BY <1>1, <1>2 DEF JobRow
  <2> QED
    BY <1>1, <1>2, <1>3, <2>1, <2>2 DEF JobRow
<1>5. /\ job'[j].state = state /\ job'[j].released = UnitsOf(j) - job[j].next
      /\ job'[j].next = job[j].next /\ job'[j].committed = job[j].committed
      /\ job'[j].root = job[j].root
  BY <1>1, <1>2, <1>3 DEF JobRow
<1>6. RowIsSound(j)'
  BY <1>1, <1>5 DEF RowIsSound, Active
<1>7. ChunksAreSound(j)'
  BY <1>5, ChunksStaySound DEF ReadInv
<1>8. \A k \in Job \ {j} : job'[k] = job[k]
  BY <1>1 DEF TypeOK
<1>9. \A k \in Job \ {j} : RowIsSound(k)' /\ ChunksAreSound(k)'
  BY <1>8, UntouchedIsSound DEF ReadInv
<1>10. job' \in [Job -> JobRow]
  BY <1>1, <1>4 DEF TypeOK
<1> QED
  BY <1>6, <1>7, <1>9, <1>10

LEMMA CancelsInv ==
    ASSUME ReadInv, NEW j \in Job, Cancels(j)
    PROVE  ReadInv'
<1>1. TypeOK /\ RowIsSound(j) /\ job[j].state \in Active /\ job[j] \in JobRow
  BY DEF ReadInv, TypeOK, Cancels
<1>2. job' = [job EXCEPT ![j] = [@ EXCEPT !.state = "cancelled", !.failures = job[j].failures,
                                          !.released = ReleasedAtEnd(j)]]
  <2>1. [job[j] EXCEPT !.state = "cancelled", !.failures = job[j].failures,
                       !.released = ReleasedAtEnd(j)]
          = [job[j] EXCEPT !.state = "cancelled", !.released = ReleasedAtEnd(j)]
    BY <1>1 DEF JobRow
  <2> QED
    BY <2>1 DEF Cancels
<1>3. job[j].failures \in Nat /\ chunks' = chunks
  BY <1>1 DEF JobRow, Cancels
<1>4. /\ job' \in [Job -> JobRow]
      /\ \A k \in Job : RowIsSound(k)' /\ ChunksAreSound(k)'
  BY <1>1, <1>2, <1>3, EndsSound
<1>5. used' \in [Day \X Subject -> 0..Limit]
  BY <1>1, GivenBackType DEF Cancels
<1>6. order' \in Seq(Job)
  BY <1>1, WithoutType DEF Cancels, TypeOK
<1>7. TypeOK'
  BY <1>1, <1>4, <1>5, <1>6 DEF Cancels, TypeOK, world
<1> QED
  BY <1>4, <1>7 DEF ReadInv
-----------------------------------------------------------------------------
(* The alarm *)

LEMMA AlarmEndsType ==
    ASSUME TypeOK, AlarmEnds
    PROVE  /\ today' \in Day /\ kept' \in 0..today' /\ root' \in Root
           /\ alarm' \in BOOLEAN /\ runner' \in Alarm
           /\ spent' \in [Day \X Subject -> Nat] /\ faults' \in 0..MaxFaults
<1>1. alarm' \in BOOLEAN
  BY DEF AlarmEnds
<1>2. runner' \in Alarm
  BY DEF AlarmEnds, Alarm
<1>3. /\ today' \in Day /\ kept' \in 0..today' /\ root' \in Root
      /\ spent' \in [Day \X Subject -> Nat] /\ faults' \in 0..MaxFaults
  BY DEF AlarmEnds, TypeOK, world
<1> QED
  BY <1>1, <1>2, <1>3

LEMMA RunnerType ==
    ASSUME TypeOK, runner # Idle
    PROVE  runner.job \in Job /\ runner.position \in Nat
BY DEF TypeOK, Alarm

LEMMA FiresInv ==
    ASSUME ReadInv, Fires
    PROVE  ReadInv'
<1>1. TypeOK
  BY DEF ReadInv
<1>2. runner' \in Alarm
  <2>1. CASE order = <<>>
    BY <2>1 DEF Fires, Alarm
  <2>2. CASE order # <<>>
    <3>1. Head(order) \in Job
      BY <1>1, <2>2, HeadTailProperties DEF TypeOK
    <3>2. job[Head(order)].next \in Nat
      BY <1>1, <3>1 DEF TypeOK, JobRow
    <3> QED
      BY <2>2, <3>1, <3>2 DEF Fires, Alarm
  <2> QED
    BY <2>1, <2>2
<1>3. TypeOK'
  BY <1>1, <1>2 DEF Fires, TypeOK, world
<1>4. \A j \in Job : RowIsSound(j)' /\ ChunksAreSound(j)'
  BY UntouchedIsSound DEF Fires, ReadInv
<1> QED
  BY <1>3, <1>4 DEF ReadInv

LEMMA DiscardsInv ==
    ASSUME ReadInv, Discards
    PROVE  ReadInv'
<1>1. TypeOK'
  BY AlarmEndsType DEF Discards, ReadInv, TypeOK
<1>2. \A j \in Job : RowIsSound(j)' /\ ChunksAreSound(j)'
  BY UntouchedIsSound DEF Discards, ReadInv
<1> QED
  BY <1>1, <1>2 DEF ReadInv

\* What a slice adds to its job.
LEMMA CommitsFacts ==
    ASSUME ReadInv, NEW n \in 1..SliceSize, Commits(n), NEW j, j = runner.job
    PROVE  /\ j \in Job /\ job[j].state \in Active
           /\ job[j].next + n \in Nat /\ job[j].next + n <= UnitsOf(j)
           /\ chunks' = [chunks EXCEPT ![j] = Append(@,
                [first |-> job[j].next, from |-> job[j].next, count |-> n,
                 root |-> job[j].root])]
           /\ job' = [job EXCEPT ![j] = [@ EXCEPT
                !.state = IF job[j].next + n = UnitsOf(j) THEN "done" ELSE "running",
                !.next = job[j].next + n, !.committed = job[j].committed + n,
                !.failures = 0]]
<1> DEFINE position == runner.position
<1>1. TypeOK /\ runner # Idle
  BY DEF ReadInv, Commits
<1>2. j \in Job /\ position \in Nat
  BY <1>1, RunnerType
<1>3. job[j].state \in Active /\ job[j].next = position
  BY DEF Commits, Holds
<1>4. n \in Nat /\ n <= Requested(j, position)
  BY ReadBatchesAssumption DEF Commits
<1>5. job[j].next <= UnitsOf(j)
  BY <1>2 DEF ReadInv, RowIsSound
<1>6. position + n <= UnitsOf(j) /\ position + n \in Nat
  BY <1>2, <1>3, <1>4, <1>5, RequestedFits
<1>7. From(j, position) = position
  BY <1>2, FromIsPosition
<1>8. chunks' = [chunks EXCEPT ![j] = Append(@,
        [first |-> position, from |-> position, count |-> n, root |-> job[j].root])]
  BY <1>7 DEF Commits, RootOf
<1>9. job' = [job EXCEPT ![j] = [@ EXCEPT
        !.state = IF position + n = UnitsOf(j) THEN "done" ELSE "running",
        !.next = position + n, !.committed = job[j].committed + n, !.failures = 0]]
  BY DEF Commits
<1> HIDE DEF position
<1> QED
  BY <1>2, <1>3, <1>6, <1>8, <1>9

LEMMA CommitsInv ==
    ASSUME ReadInv, NEW n \in 1..SliceSize, Commits(n)
    PROVE  ReadInv'
<1>0. PICK j : j = runner.job
  OBVIOUS
<1> DEFINE chunk == [first |-> job[j].next, from |-> job[j].next, count |-> n,
                     root |-> job[j].root]
           state == IF job[j].next + n = UnitsOf(j) THEN "done" ELSE "running"
<1>1. TypeOK
  BY DEF ReadInv
<1>2. /\ j \in Job /\ job[j].state \in Active
      /\ job[j].next + n \in Nat /\ job[j].next + n <= UnitsOf(j)
      /\ chunks' = [chunks EXCEPT ![j] = Append(@, chunk)]
      /\ job' = [job EXCEPT ![j] = [@ EXCEPT
           !.state = state, !.next = job[j].next + n,
           !.committed = job[j].committed + n, !.failures = 0]]
  BY <1>0, CommitsFacts
<1>3. UnitsOf(j) \in Nat /\ n \in Nat /\ n > 0
  BY <1>2, JobFacts, ReadBatchesAssumption
<1>4. AlarmEnds /\ order' \in Seq(Job) /\ used' = used
  <2>1. order' = Without(j) \/ order' = Append(Without(j), j)
    BY <1>0 DEF Commits
  <2>2. Without(j) \in Seq(Job)
    BY <1>1, <1>2, WithoutType DEF TypeOK
  <2>3. order' \in Seq(Job)
    BY <1>2, <2>1, <2>2, AppendProperties
  <2> QED
    BY <2>3 DEF Commits
<1>5. state \in {"done", "running"} /\ (state = "done" <=> job[j].next + n = UnitsOf(j))
  OBVIOUS
<1> HIDE DEF state
<1>6. job[j] \in JobRow /\ chunks[j] \in Seq(Chunk)
  BY <1>1, <1>2 DEF TypeOK
<1>7. job'[j] = [job[j] EXCEPT !.state = state, !.next = job[j].next + n,
                               !.committed = job[j].committed + n, !.failures = 0]
  BY <1>1, <1>2 DEF TypeOK
<1>8. job'[j] = [state |-> state, day |-> job[j].day, root |-> job[j].root,
                 next |-> job[j].next + n, committed |-> job[j].committed + n,
                 released |-> job[j].released, failures |-> 0]
  BY <1>6, <1>7 DEF JobRow
<1>9. job' \in [Job -> JobRow]
  <2>1. state \in {"absent"} \cup Active \cup Ended
    BY <1>5 DEF Active, Ended
  <2>2. job[j].committed + n \in Nat
    BY <1>3, <1>6 DEF JobRow
  <2>3. job'[j] \in JobRow
    BY <1>2, <1>6, <1>8, <2>1, <2>2 DEF JobRow
  <2> QED
    BY <1>1, <1>2, <2>3 DEF TypeOK
<1>10. chunk \in Chunk /\ chunks'[j] = Append(chunks[j], chunk)
  <2>1. chunk \in Chunk
    BY <1>3, <1>6 DEF Chunk, JobRow
  <2> QED
    BY <1>1, <1>2, <2>1 DEF TypeOK
<1> HIDE DEF chunk
<1>11. chunks' \in [Job -> Seq(Chunk)]
  <2>1. chunks'[j] \in Seq(Chunk)
    BY <1>6, <1>10, AppendProperties
  <2> QED
    BY <1>1, <1>2, <2>1 DEF TypeOK
<1>12. TypeOK'
  BY <1>1, <1>4, <1>9, <1>11, AlarmEndsType DEF TypeOK
<1>13. RowIsSound(j)'
  <2>1. /\ job[j].committed = job[j].next /\ job[j].released = 0
    BY <1>2 DEF ReadInv, RowIsSound
  <2> QED
    BY <1>2, <1>3, <1>5, <1>8, <2>1 DEF RowIsSound, Active
<1>14. ChunksAreSound(j)'
  <2>0. PICK L : L = Len(chunks[j])
    OBVIOUS
  <2> DEFINE c == chunks[j]
  <2>1. /\ L \in Nat /\ Len(chunks'[j]) = L + 1
        /\ chunks'[j][L + 1] = chunk
        /\ \A i \in 1..L : chunks'[j][i] = c[i]
        /\ DOMAIN chunks'[j] = 1..(L + 1) /\ DOMAIN c = 1..L
    <3>1. chunks'[j] \in Seq(Chunk)
      BY <1>6, <1>10, AppendProperties
    <3> QED
      BY <1>6, <1>10, <2>0, <3>1, AppendProperties, LenProperties
  <2>2. ChunksAreSound(j)
    BY <1>2 DEF ReadInv
  <2>3. \A i \in 0..L : End(j, i)' = End(j, i)
    BY <2>1 DEF End
  <2>4. End(j, L)' = job[j].next
    BY <2>0, <2>1, <2>2, <2>3 DEF ChunksAreSound
  <2>5. chunk.first = job[j].next /\ chunk.from = job[j].next /\ chunk.count = n
          /\ chunk.root = job[j].root
    BY DEF chunk
  <2>6. End(j, L + 1)' = job[j].next + n
    BY <2>1, <2>5 DEF End
  <2>7. \A i \in 1..L : /\ chunks'[j][i].first = End(j, i - 1)'
                        /\ chunks'[j][i].from = End(j, i - 1)'
                        /\ chunks'[j][i].root = job'[j].root
    <3> SUFFICES ASSUME NEW i \in 1..L
                 PROVE  /\ chunks'[j][i].first = End(j, i - 1)'
                        /\ chunks'[j][i].from = End(j, i - 1)'
                        /\ chunks'[j][i].root = job'[j].root
      OBVIOUS
    <3>1. i - 1 \in 0..L
      BY <2>1
    <3>2. End(j, i - 1)' = End(j, i - 1)
      BY <2>3, <3>1
    <3>3. /\ chunks[j][i].first = End(j, i - 1) /\ chunks[j][i].from = End(j, i - 1)
          /\ chunks[j][i].root = job[j].root
      BY <2>1, <2>2 DEF ChunksAreSound
    <3>4. chunks'[j][i] = chunks[j][i] /\ job'[j].root = job[j].root
      BY <1>8, <2>1
    <3> QED
      BY <3>2, <3>3, <3>4
  <2>8. /\ chunks'[j][L + 1].first = End(j, L)'
        /\ chunks'[j][L + 1].from = End(j, L)'
        /\ chunks'[j][L + 1].root = job'[j].root
    BY <1>8, <2>1, <2>4, <2>5
  <2>9. \A i \in DOMAIN chunks'[j] : i \in 1..L \/ i = L + 1
    BY <2>1
  <2>10. \A i \in DOMAIN chunks'[j] : /\ chunks'[j][i].first = End(j, i - 1)'
                                      /\ chunks'[j][i].from = End(j, i - 1)'
                                      /\ chunks'[j][i].root = job'[j].root
    <3> SUFFICES ASSUME NEW i \in DOMAIN chunks'[j]
                 PROVE  /\ chunks'[j][i].first = End(j, i - 1)'
                        /\ chunks'[j][i].from = End(j, i - 1)'
                        /\ chunks'[j][i].root = job'[j].root
      OBVIOUS
    <3>1. CASE i \in 1..L
      BY <2>7, <3>1
    <3>2. CASE i = L + 1
      <4>1. i - 1 = L
        BY <2>1, <3>2
      <4>2. End(j, i - 1)' = End(j, L)'
        BY <4>1 DEF End
      <4> QED
        BY <2>8, <3>2, <4>2
    <3> QED
      BY <2>9, <3>1, <3>2
  <2>11. End(j, Len(chunks[j]))' = job'[j].next
    BY <1>8, <2>1, <2>6
  <2> QED
    BY <2>10, <2>11 DEF ChunksAreSound
<1>15. \A k \in Job \ {j} : RowIsSound(k)' /\ ChunksAreSound(k)'
  <2> SUFFICES ASSUME NEW k \in Job \ {j}
               PROVE  RowIsSound(k)' /\ ChunksAreSound(k)'
    OBVIOUS
  <2>1. job'[k] = job[k] /\ chunks'[k] = chunks[k]
    BY <1>1, <1>2 DEF TypeOK
  <2> QED
    BY <2>1, UntouchedIsSound DEF ReadInv
<1> QED
  BY <1>12, <1>13, <1>14, <1>15 DEF ReadInv

LEMMA FailsInv ==
    ASSUME ReadInv, Fails
    PROVE  ReadInv'
<1>0. PICK j : j = runner.job
  OBVIOUS
<1>1. TypeOK /\ j \in Job /\ chunks' = chunks /\ AlarmEnds
  BY <1>0, RunnerType DEF ReadInv, Fails
<1>2. job[j] \in JobRow /\ Without(j) \in Seq(Job)
  BY <1>1, WithoutType DEF TypeOK
<1>3. CASE /\ job[j].state \in Active
           /\ job' = [job EXCEPT ![j].failures = job[j].failures + 1]
           /\ order' = Append(Without(j), j)
           /\ UNCHANGED used
  <2>1. job'[j] = [job[j] EXCEPT !.failures = job[j].failures + 1]
    BY <1>1, <1>3 DEF TypeOK
  <2>2. /\ job'[j].state = job[j].state /\ job'[j].next = job[j].next
        /\ job'[j].committed = job[j].committed /\ job'[j].released = job[j].released
        /\ job'[j].root = job[j].root
    BY <1>2, <2>1 DEF JobRow
  <2>3. job'[j] \in JobRow
    BY <1>2, <2>1 DEF JobRow
  <2>4. job' \in [Job -> JobRow] /\ order' \in Seq(Job)
    BY <1>1, <1>2, <1>3, <2>3, AppendProperties DEF TypeOK
  <2>5. RowIsSound(j)'
    BY <1>1, <1>3, <2>2 DEF RowIsSound, ReadInv, Active
  <2>6. ChunksAreSound(j)'
    BY <1>1, <2>2, ChunksStaySound DEF ReadInv
  <2>7. \A k \in Job \ {j} : RowIsSound(k)' /\ ChunksAreSound(k)'
    <3>1. \A k \in Job \ {j} : job'[k] = job[k]
      BY <1>1, <1>3 DEF TypeOK
    <3> QED
      BY <1>1, <3>1, UntouchedIsSound DEF ReadInv
  <2>8. TypeOK'
    BY <1>1, <1>3, <2>4, AlarmEndsType DEF TypeOK
  <2> QED
    BY <2>5, <2>6, <2>7, <2>8 DEF ReadInv
<1>4. CASE /\ job[j].state \in Active
           /\ used' = GivenBack(j)
           /\ job' = [job EXCEPT ![j] = [@ EXCEPT !.state = "failed",
                        !.failures = job[j].failures + 1, !.released = ReleasedAtEnd(j)]]
           /\ order' = Without(j)
  <2>1. job[j].failures + 1 \in Nat
    BY <1>2 DEF JobRow
  <2>2. /\ job' \in [Job -> JobRow]
        /\ \A k \in Job : RowIsSound(k)' /\ ChunksAreSound(k)'
    BY <1>1, <1>4, <2>1, EndsSound
  <2>3. used' \in [Day \X Subject -> 0..Limit]
    BY <1>1, <1>4, GivenBackType DEF ReadInv
  <2>4. TypeOK'
    BY <1>1, <1>2, <1>4, <2>2, <2>3, AlarmEndsType DEF TypeOK
  <2> QED
    BY <2>2, <2>4 DEF ReadInv
<1>5. CASE UNCHANGED <<used, job, order>>
  <2>1. TypeOK'
    BY <1>1, <1>5, AlarmEndsType DEF TypeOK
  <2>2. \A k \in Job : RowIsSound(k)' /\ ChunksAreSound(k)'
    BY <1>1, <1>5, UntouchedIsSound DEF ReadInv
  <2> QED
    BY <2>1, <2>2 DEF ReadInv
<1> QED
  BY <1>0, <1>3, <1>4, <1>5 DEF Fails

LEMMA AlarmDiesInv ==
    ASSUME ReadInv, AlarmDies
    PROVE  ReadInv'
<1>1. alarm' \in BOOLEAN
  BY Zenon DEF AlarmDies, ReadInv, TypeOK
<1>2. faults' \in 0..MaxFaults
  BY ReadBatchesAssumption DEF AlarmDies, ReadInv, TypeOK, Fault
<1>3. runner' \in Alarm
  BY DEF AlarmDies, Alarm
<1>4. TypeOK'
  BY <1>1, <1>2, <1>3 DEF AlarmDies, ReadInv, TypeOK, world
<1>5. \A k \in Job : RowIsSound(k)' /\ ChunksAreSound(k)'
  BY UntouchedIsSound DEF AlarmDies, ReadInv
<1> QED
  BY <1>4, <1>5 DEF ReadInv
-----------------------------------------------------------------------------
(* The world, and the theorems *)

LEMMA WorldInv ==
    ASSUME ReadInv, Midnight \/ RootChanges \/ UNCHANGED vars
    PROVE  ReadInv'
<1>1. today' \in Day /\ kept' \in 0..today' /\ root' \in Root
  BY ReadBatchesAssumption DEF Midnight, RootChanges, ReadInv, TypeOK, vars, Day, Root
<1>2. TypeOK'
  BY <1>1 DEF Midnight, RootChanges, ReadInv, TypeOK, vars
<1>3. \A k \in Job : RowIsSound(k)' /\ ChunksAreSound(k)'
  BY UntouchedIsSound DEF Midnight, RootChanges, ReadInv, vars
<1> QED
  BY <1>2, <1>3 DEF ReadInv

LEMMA NextInv == ReadInv /\ [Next]_vars => ReadInv'
<1> SUFFICES ASSUME ReadInv, [Next]_vars
             PROVE  ReadInv'
  OBVIOUS
<1>1. CASE \E s \in Subject : Admits(s)
  BY <1>1, AdmitsInv
<1>2. CASE \E j \in Job : Submits(j) \/ Resubmits(j) \/ Polls(j) \/ Cancels(j)
  BY <1>2, SubmitsInv, PollsInv, CancelsInv
<1>3. CASE Fires
  BY <1>3, FiresInv
<1>4. CASE AlarmStep
  BY <1>4, CommitsInv, DiscardsInv, FailsInv DEF AlarmStep
<1>5. CASE AlarmDies
  BY <1>5, AlarmDiesInv
<1>6. CASE Midnight \/ RootChanges \/ UNCHANGED vars
  BY <1>6, WorldInv
<1> QED
  BY <1>1, <1>2, <1>3, <1>4, <1>5, <1>6 DEF Next

\* The inductive invariant: what the transaction, the alarms and the cancellations of a
\* batch may rely on of each other, for any batches, sizes and failures.
THEOREM ReadInvariant == Spec => []ReadInv
<1> QED
  BY InitInv, NextInv, PTL DEF Spec

\* Every variable keeps its type: no count of a job or of a quota goes below zero or
\* past its limit (TypeOK).
THEOREM TypeCorrect == Spec => []TypeOK
<1>1. ReadInv => TypeOK
  BY DEF ReadInv
<1> QED
  BY <1>1, ReadInvariant, PTL

\* The chunks of a job tile its request, for every size of request, row and slice
\* (alarm, readQueuedSlice).
THEOREM ChunksTile == Spec => []ChunksTileTheRequest
<1>1. ReadInv => ChunksTileTheRequest
  BY DEF ReadInv, RowIsSound, ChunksAreSound, ChunksTileTheRequest
<1> QED
  BY <1>1, ReadInvariant, PTL

\* The chunks of a job are of one root, however often roots are published.
THEOREM OneSnapshot == Spec => []ChunksAreOneSnapshot
<1>1. ReadInv => ChunksAreOneSnapshot
  BY DEF ReadInv, ChunksAreSound, ChunksAreOneSnapshot
<1> QED
  BY <1>1, ReadInvariant, PTL

\* The counts that a job reports are exact, in every state of it.
THEOREM CountsAddUp == Spec => []UnitsAddUp
<1>1. ReadInv => UnitsAddUp
  <2> SUFFICES ASSUME ReadInv, NEW j \in Job
               PROVE  /\ Outstanding(j) >= 0
                      /\ job[j].state \in Ended => Outstanding(j) = 0
                      /\ job[j].committed = job[j].next
    BY DEF UnitsAddUp
  <2>1. /\ RowIsSound(j) /\ job[j] \in JobRow
        /\ UnitsOf(j) \in Nat /\ NoRow.state = "absent"
        /\ NoRow.committed = 0 /\ NoRow.released = 0
    BY JobFacts DEF ReadInv, TypeOK, NoRow
  <2>2. CASE job[j].state = "absent"
    BY <2>1, <2>2 DEF RowIsSound, Outstanding, Ended
  <2>3. CASE job[j].state \in Active
    BY <2>1, <2>3 DEF RowIsSound, Outstanding, JobRow, Active, Ended
  <2>4. CASE job[j].state \in Ended
    BY <2>1, <2>4 DEF RowIsSound, Outstanding, JobRow, Ended
  <2> QED
    BY <2>1, <2>2, <2>3, <2>4 DEF JobRow
<1> QED
  BY <1>1, ReadInvariant, PTL
-----------------------------------------------------------------------------
(* The quota rows *)

\* The units of job j that count in the row of account a.
Counts(j, a) == job[j].state # "absent" /\ <<job[j].day, SubjectOf(j)>> = a
Weight(j, a) == IF Counts(j, a) THEN UnitsOf(j) - job[j].released ELSE 0

HeldByOthers(j, a) == UNION {Held(k) : k \in {i \in Job \ {j} : Counts(i, a)}}

\* QuotaIsExact, and that there is something to count.
QuotaInv ==
    \A a \in Day \X Subject :
        /\ IsFiniteSet(HeldFrom(a))
        /\ a[1] >= kept => used[a] = spent[a] + Cardinality(HeldFrom(a))

LEMMA HeldSize ==
    ASSUME NEW j, NEW u \in Nat, NEW r \in 0..u
    PROVE  /\ IsFiniteSet({j} \X ((r + 1)..u))
           /\ Cardinality({j} \X ((r + 1)..u)) = u - r
<1>1. IsFiniteSet((r + 1)..u) /\ Cardinality((r + 1)..u) = u - r
  <2>1. r + 1 \in Int /\ u \in Int
    OBVIOUS
  <2>2. /\ IsFiniteSet((r + 1)..u)
        /\ Cardinality((r + 1)..u) = IF r + 1 > u THEN 0 ELSE u - (r + 1) + 1
    BY <2>1, FS_Interval
  <2> QED
    BY <2>2
<1> DEFINE S == {j}
           T == (r + 1)..u
<1>2. /\ IsFiniteSet(S) /\ Cardinality(S) = 1
      /\ IsFiniteSet(T) /\ Cardinality(T) = u - r
  BY <1>1, FS_Singleton
<1> HIDE DEF S, T
<1>3. IsFiniteSet(S \X T) /\ Cardinality(S \X T) = Cardinality(S) * Cardinality(T)
  BY <1>2, FS_Product
<1>4. u - r \in Nat
  OBVIOUS
<1>5. IsFiniteSet(S \X T) /\ Cardinality(S \X T) = u - r
  BY <1>2, <1>3, <1>4
<1> QED
  BY <1>5 DEF S, T

LEMMA ReleasedFits ==
    ASSUME ReadInv, NEW j \in Job
    PROVE  job[j].released \in 0..UnitsOf(j)
<1>1. job[j] \in JobRow /\ RowIsSound(j) /\ UnitsOf(j) \in Nat /\ NoRow.released = 0
  BY JobFacts DEF ReadInv, TypeOK, NoRow
<1> QED
  BY <1>1 DEF RowIsSound, JobRow, Active, Ended

\* Two sets with nothing in common are counted one by one.
LEMMA PartCounted ==
    ASSUME NEW others, NEW part, IsFiniteSet(others), IsFiniteSet(part), others \cap part = {}
    PROVE  /\ IsFiniteSet(others \cup part)
           /\ Cardinality(others) \in Nat /\ Cardinality(part) \in Nat
           /\ Cardinality(others \cup part) = Cardinality(others) + Cardinality(part)
<1>1. Cardinality(others) \in Nat /\ Cardinality(part) \in Nat
  BY FS_CardinalityType
<1>2. Cardinality(others \cap part) = 0
  BY FS_EmptySet
<1>3. /\ IsFiniteSet(others \cup part)
      /\ Cardinality(others \cup part) =
           Cardinality(others) + Cardinality(part) - Cardinality(others \cap part)
  BY FS_Union
<1> DEFINE c == Cardinality(others)
           d == Cardinality(part)
           e == Cardinality(others \cup part)
<1>4. e = c + d - 0
  BY <1>2, <1>3, Zenon
<1>5. c \in Nat /\ d \in Nat
  BY <1>1
<1> HIDE DEF c, d, e
<1>6. e = c + d
  BY <1>4, <1>5
<1> QED
  BY <1>1, <1>3, <1>6 DEF c, d, e

\* When one job changes, what is held from an account changes by its weight.
LEMMA OneJobChanges ==
    ASSUME ReadInv, ReadInv', NEW j \in Job, \A k \in Job \ {j} : job'[k] = job[k],
           NEW a, IsFiniteSet(HeldFrom(a))
    PROVE  /\ IsFiniteSet(HeldFrom(a)')
           /\ Cardinality(HeldFrom(a)) \in Nat
           /\ Weight(j, a) \in Nat /\ Weight(j, a)' \in Nat
           /\ Weight(j, a) <= Cardinality(HeldFrom(a))
           /\ Cardinality(HeldFrom(a)') =
                Cardinality(HeldFrom(a)) - Weight(j, a) + Weight(j, a)'
<1> DEFINE others == HeldByOthers(j, a)
<1>1. HeldFrom(a) = others \cup IF Counts(j, a) THEN Held(j) ELSE {}
  BY DEF HeldFrom, HeldByOthers, Counts
<1>2. HeldFrom(a)' = others \cup IF Counts(j, a)' THEN Held(j)' ELSE {}
  <2>1. \A k \in Job \ {j} : (Counts(k, a)' <=> Counts(k, a)) /\ Held(k)' = Held(k)
    BY DEF Counts, Account, Held
  <2>2. {i \in Job \ {j} : Counts(i, a)'} = {i \in Job \ {j} : Counts(i, a)}
    BY <2>1
  <2>3. UNION {Held(k)' : k \in {i \in Job \ {j} : Counts(i, a)'}} = others
    BY <2>1, <2>2 DEF HeldByOthers
  <2>4. HeldFrom(a)' = UNION {Held(k)' : k \in {i \in Job : Counts(i, a)'}}
    BY DEF HeldFrom, Counts
  <2>5. {i \in Job : Counts(i, a)'} =
          {i \in Job \ {j} : Counts(i, a)'} \cup IF Counts(j, a)' THEN {j} ELSE {}
    OBVIOUS
  <2>6. CASE Counts(j, a)'
    BY <2>3, <2>4, <2>5, <2>6
  <2>7. CASE ~Counts(j, a)'
    BY <2>3, <2>4, <2>5, <2>7
  <2> QED
    BY <2>6, <2>7
<1>3. \A x \in others : x[1] # j
  BY DEF HeldByOthers, Held
<1>4. IsFiniteSet(others)
  BY <1>1, FS_Subset
<1>5. job[j].released \in 0..UnitsOf(j)
  BY ReleasedFits
<1>6. job'[j].released \in 0..UnitsOf(j) /\ UnitsOf(j) \in Nat
  <2>1. /\ job'[j] \in JobRow /\ RowIsSound(j)' /\ UnitsOf(j) \in Nat /\ NoRow.released = 0
    BY JobFacts DEF ReadInv, TypeOK, NoRow
  <2> QED
    BY <2>1 DEF RowIsSound, JobRow, Active, Ended
<1> HIDE DEF others
<1>7. Cardinality(others) \in Nat
  BY <1>4, FS_CardinalityType
<1>8. Cardinality(HeldFrom(a)) = Cardinality(others) + Weight(j, a)
  <2>1. CASE Counts(j, a)
    <3> DEFINE part == {j} \X ((job[j].released + 1)..UnitsOf(j))
    <3>1. HeldFrom(a) = others \cup part
      BY <1>1, <2>1 DEF Held
    <3>2. IsFiniteSet(part) /\ Cardinality(part) = UnitsOf(j) - job[j].released
      BY <1>5, <1>6, HeldSize
    <3>3. others \cap part = {}
      BY <1>3
    <3> HIDE DEF part
    <3>4. /\ IsFiniteSet(others \cup part)
          /\ Cardinality(others \cup part) = Cardinality(others) + Cardinality(part)
      BY <1>4, <3>2, <3>3, PartCounted
    <3>5. Weight(j, a) = Cardinality(part)
      BY <2>1, <3>2 DEF Weight
    <3> QED
      BY <3>1, <3>4, <3>5, Zenon
  <2>2. CASE ~Counts(j, a)
    <3>1. HeldFrom(a) = others
      BY <1>1, <2>2
    <3> QED
      BY <1>7, <2>2, <3>1 DEF Weight
  <2> QED
    BY <2>1, <2>2
<1>9. /\ IsFiniteSet(HeldFrom(a)')
      /\ Cardinality(HeldFrom(a)') = Cardinality(others) + Weight(j, a)'
  <2>1. CASE Counts(j, a)'
    <3> DEFINE part == {j} \X ((job'[j].released + 1)..UnitsOf(j))
    <3>1. HeldFrom(a)' = others \cup part
      BY <1>2, <2>1 DEF Held
    <3>2. IsFiniteSet(part) /\ Cardinality(part) = UnitsOf(j) - job'[j].released
      BY <1>5, <1>6, HeldSize
    <3>3. others \cap part = {}
      BY <1>3
    <3> HIDE DEF part
    <3>4. /\ IsFiniteSet(others \cup part)
          /\ Cardinality(others \cup part) = Cardinality(others) + Cardinality(part)
      BY <1>4, <3>2, <3>3, PartCounted
    <3>5. Weight(j, a)' = Cardinality(part)
      BY <2>1, <3>2 DEF Weight
    <3> QED
      BY <3>1, <3>4, <3>5, Zenon
  <2>2. CASE ~Counts(j, a)'
    <3>1. HeldFrom(a)' = others
      BY <1>2, <2>2
    <3> QED
      BY <1>4, <1>7, <2>2, <3>1 DEF Weight
  <2> QED
    BY <2>1, <2>2
<1>10. Weight(j, a) \in Nat /\ Weight(j, a)' \in Nat
  BY <1>5, <1>6, JobFacts DEF Weight
<1> QED
  BY <1>7, <1>8, <1>9, <1>10

\* What a job whose row says nothing else holds is the same.
LEMMA SameJobs ==
    ASSUME QuotaInv, job' = job, NEW a \in Day \X Subject
    PROVE  IsFiniteSet(HeldFrom(a)') /\ HeldFrom(a)' = HeldFrom(a)
<1>1. HeldFrom(a)' = HeldFrom(a)
  BY DEF HeldFrom, Held, Account
<1> QED
  BY <1>1 DEF QuotaInv

LEMMA NothingIsCharged ==
    ASSUME QuotaInv, job' = job, used' = used, spent' = spent, kept' = kept
    PROVE  QuotaInv'
BY SameJobs DEF QuotaInv

LEMMA AdmitsQuota ==
    ASSUME ReadInv, QuotaInv, NEW s \in Subject, Admits(s)
    PROVE  QuotaInv'
<1> SUFFICES ASSUME NEW a \in Day \X Subject
             PROVE  /\ IsFiniteSet(HeldFrom(a)')
                    /\ a[1] >= today => used'[a] = spent'[a] + Cardinality(HeldFrom(a)')
  BY DEF QuotaInv, Admits
<1>1. IsFiniteSet(HeldFrom(a)') /\ HeldFrom(a)' = HeldFrom(a)
  BY SameJobs DEF Admits
<1>2. /\ today \in Nat /\ kept \in Nat /\ kept <= today
      /\ used \in [Day \X Subject -> 0..Limit] /\ spent \in [Day \X Subject -> Nat]
      /\ Day \subseteq Nat /\ Limit \in Nat
  BY ReadBatchesAssumption DEF ReadInv, TypeOK, Day
<1>3. SUFFICES ASSUME a[1] >= today
               PROVE  used'[a] = spent'[a] + Cardinality(HeldFrom(a))
  BY <1>1
<1>4. a[1] \in Nat /\ a[1] >= kept /\ ~(a[1] < today)
  <2>1. a[1] \in Nat
    BY <1>2
  <2> QED
    BY <1>2, <1>3, <2>1
<1>5. used[a] = spent[a] + Cardinality(HeldFrom(a))
  BY <1>4 DEF QuotaInv
<1>6. Cardinality(HeldFrom(a)) \in Nat
  BY FS_CardinalityType DEF QuotaInv
<1> DEFINE pruned == [b \in Day \X Subject |-> IF b[1] < today THEN 0 ELSE used[b]]
           h == Cardinality(HeldFrom(a))
<1>7. pruned[a] = used[a]
  BY <1>4
<1>8. pruned \in [Day \X Subject -> Nat]
  BY <1>2
<1>9. \/ used' = [pruned EXCEPT ![<<today, s>>] = @ + 1] /\ spent' = [spent EXCEPT ![<<today, s>>] = @ + 1]
      \/ used' = pruned /\ spent' = spent
  BY DEF Admits
<1> HIDE DEF pruned, h
<1>10. used[a] = spent[a] + h /\ h \in Nat /\ spent[a] \in Nat
  BY <1>2, <1>6, <1>5 DEF h
<1>11. used'[a] = spent'[a] + h
  <2>1. CASE used' = pruned /\ spent' = spent
    BY <1>7, <1>10, <2>1
  <2>2. CASE /\ used' = [pruned EXCEPT ![<<today, s>>] = @ + 1]
             /\ spent' = [spent EXCEPT ![<<today, s>>] = @ + 1]
    <3>1. CASE a = <<today, s>>
      <4>1. used'[a] = pruned[a] + 1 /\ spent'[a] = spent[a] + 1
        BY <1>2, <1>8, <2>2, <3>1
      <4> QED
        BY <1>7, <1>10, <4>1
    <3>2. CASE a # <<today, s>>
      BY <1>2, <1>7, <1>8, <1>10, <2>2, <3>2
    <3> QED
      BY <3>1, <3>2
  <2> QED
    BY <1>9, <2>1, <2>2
<1> QED
  BY <1>11 DEF h

LEMMA SubmitsQuota ==
    ASSUME ReadInv, ReadInv', QuotaInv, NEW j \in Job, Submits(j)
    PROVE  QuotaInv'
<1> SUFFICES ASSUME NEW a \in Day \X Subject
             PROVE  /\ IsFiniteSet(HeldFrom(a)')
                    /\ a[1] >= kept => used'[a] = spent[a] + Cardinality(HeldFrom(a)')
  BY DEF QuotaInv, Submits
<1> DEFINE account == <<today, SubjectOf(j)>>
           h == Cardinality(HeldFrom(a))
<1>1. /\ job \in [Job -> JobRow] /\ today \in Day /\ account \in Day \X Subject
      /\ used \in [Day \X Subject -> 0..Limit] /\ spent \in [Day \X Subject -> Nat]
      /\ UnitsOf(j) \in Nat /\ Limit \in Nat
  BY JobFacts, ReadBatchesAssumption DEF ReadInv, TypeOK
<1>2. \A k \in Job \ {j} : job'[k] = job[k]
  BY <1>1 DEF Submits
<1>3. /\ IsFiniteSet(HeldFrom(a)') /\ h \in Nat
      /\ Cardinality(HeldFrom(a)') = h - Weight(j, a) + Weight(j, a)'
  BY <1>2, OneJobChanges DEF QuotaInv
<1>4. Weight(j, a) = 0
  BY DEF Weight, Counts, Submits
<1>5. job'[j].state = "queued" /\ job'[j].released = 0 /\ job'[j].day = today
  <2>1. PICK r \in 0..root : job' = [job EXCEPT ![j] =
                  [NoRow EXCEPT !.state = "queued", !.day = today, !.root = r]]
    BY DEF Submits
  <2>2. job'[j] = [NoRow EXCEPT !.state = "queued", !.day = today, !.root = r]
    BY <1>1, <2>1
  <2> QED
    BY <2>2 DEF NoRow
<1>6. Weight(j, a)' = IF a = account THEN UnitsOf(j) ELSE 0
  BY <1>1, <1>5 DEF Weight, Counts, Account
<1>7. used' = [used EXCEPT ![account] = @ + UnitsOf(j)]
  BY DEF Submits
<1> HIDE DEF h, account
<1>8. used'[a] = used[a] + IF a = account THEN UnitsOf(j) ELSE 0
  BY <1>1, <1>7
<1>9. a[1] >= kept => used[a] = spent[a] + h
  BY DEF QuotaInv, h
<1>10. used[a] \in Nat /\ spent[a] \in Nat
  BY <1>1
<1>11. Cardinality(HeldFrom(a)') = h + IF a = account THEN UnitsOf(j) ELSE 0
  BY <1>1, <1>3, <1>4, <1>6
<1> QED
  BY <1>1, <1>3, <1>8, <1>9, <1>10, <1>11

\* A job that ends gives back to its row what it held and has not committed.
LEMMA EndsQuota ==
    ASSUME ReadInv, ReadInv', QuotaInv, NEW j \in Job, job[j].state \in Active,
           \A k \in Job \ {j} : job'[k] = job[k],
           job'[j].state # "absent", job'[j].day = job[j].day,
           job'[j].released = ReleasedAtEnd(j), used' = GivenBack(j),
           spent' = spent, kept' = kept
    PROVE  QuotaInv'
<1> SUFFICES ASSUME NEW a \in Day \X Subject
             PROVE  /\ IsFiniteSet(HeldFrom(a)')
                    /\ a[1] >= kept => used'[a] = spent[a] + Cardinality(HeldFrom(a)')
  BY DEF QuotaInv
<1> DEFINE h == Cardinality(HeldFrom(a))
           n == Outstanding(j)
<1>1. /\ job[j] \in JobRow /\ Account(j) \in Day \X Subject /\ UnitsOf(j) \in Nat
      /\ used \in [Day \X Subject -> 0..Limit] /\ spent \in [Day \X Subject -> Nat]
      /\ Limit \in Nat /\ RowIsSound(j) /\ TypeOK
  BY JobFacts, ReadBatchesAssumption DEF ReadInv, TypeOK, Account, JobRow
<1>2. n = UnitsOf(j) - job[j].next /\ n \in Nat /\ job[j].released = 0
  BY <1>1, OutstandingIsLeft
<1>3. /\ IsFiniteSet(HeldFrom(a)') /\ h \in Nat
      /\ Weight(j, a) <= h /\ Weight(j, a) \in Nat /\ Weight(j, a)' \in Nat
      /\ Cardinality(HeldFrom(a)') = h - Weight(j, a) + Weight(j, a)'
  BY OneJobChanges DEF QuotaInv
<1>4. job[j].next \in Nat /\ job[j].state # "absent"
  BY <1>1 DEF JobRow, Active
<1>5. job'[j].released = n
  BY <1>2 DEF ReleasedAtEnd
<1> HIDE DEF h, n
<1>6. a[1] >= kept => used[a] = spent[a] + h
  BY DEF QuotaInv, h
<1>7. used[a] \in Nat /\ spent[a] \in Nat
  BY <1>1
<1>8. CASE a = Account(j)
  <2>1. Weight(j, a) = UnitsOf(j)
    BY <1>1, <1>2, <1>4, <1>8 DEF Weight, Counts, Account
  <2>2. Weight(j, a)' = UnitsOf(j) - n
    BY <1>5, <1>8 DEF Weight, Counts, Account
  <2>3. used'[a] = AtLeast0(used[a] - n)
    BY <1>1, <1>8 DEF GivenBack, n
  <2>4. Cardinality(HeldFrom(a)') = h - n /\ n <= h
    BY <1>1, <1>2, <1>3, <1>4, <2>1, <2>2
  <2> QED
    BY <1>2, <1>3, <1>6, <1>7, <2>3, <2>4 DEF AtLeast0
<1>9. CASE a # Account(j)
  <2>1. Weight(j, a) = 0 /\ Weight(j, a)' = 0
    BY <1>9 DEF Weight, Counts, Account
  <2>2. used'[a] = used[a]
    BY <1>1, <1>9 DEF GivenBack
  <2> QED
    BY <1>3, <1>6, <1>7, <2>1, <2>2
<1> QED
  BY <1>8, <1>9

\* A job goes on: what it holds is the same.
LEMMA GoesOnQuota ==
    ASSUME ReadInv, ReadInv', QuotaInv, NEW j \in Job,
           \A k \in Job \ {j} : job'[k] = job[k],
           job[j].state # "absent", job'[j].state # "absent",
           job'[j].day = job[j].day, job'[j].released = job[j].released,
           used' = used, spent' = spent, kept' = kept
    PROVE  QuotaInv'
<1> SUFFICES ASSUME NEW a \in Day \X Subject
             PROVE  /\ IsFiniteSet(HeldFrom(a)')
                    /\ a[1] >= kept => used[a] = spent[a] + Cardinality(HeldFrom(a)')
  BY DEF QuotaInv
<1>1. Weight(j, a)' = Weight(j, a)
  BY DEF Weight, Counts, Account
<1>2. IsFiniteSet(HeldFrom(a)') /\ Cardinality(HeldFrom(a)') = Cardinality(HeldFrom(a))
  <2>1. /\ IsFiniteSet(HeldFrom(a)') /\ Cardinality(HeldFrom(a)) \in Nat
        /\ Weight(j, a) \in Nat
        /\ Cardinality(HeldFrom(a)') = Cardinality(HeldFrom(a)) - Weight(j, a) + Weight(j, a)'
    BY OneJobChanges DEF QuotaInv
  <2> QED
    BY <1>1, <2>1
<1> QED
  BY <1>2 DEF QuotaInv

LEMMA CommitsQuota ==
    ASSUME ReadInv, ReadInv', QuotaInv, NEW n \in 1..SliceSize, Commits(n)
    PROVE  QuotaInv'
<1>0. PICK j : j = runner.job
  OBVIOUS
<1>1. /\ j \in Job /\ job[j].state \in Active
      /\ job' = [job EXCEPT ![j] = [@ EXCEPT
                !.state = IF job[j].next + n = UnitsOf(j) THEN "done" ELSE "running",
                !.next = job[j].next + n, !.committed = job[j].committed + n,
                !.failures = 0]]
  BY <1>0, CommitsFacts
<1>2. job \in [Job -> JobRow] /\ job[j] \in JobRow /\ job[j].state # "absent"
  BY <1>1 DEF ReadInv, TypeOK, Active
<1>3. job'[j] = [job[j] EXCEPT
                !.state = IF job[j].next + n = UnitsOf(j) THEN "done" ELSE "running",
                !.next = job[j].next + n, !.committed = job[j].committed + n,
                !.failures = 0]
  BY <1>1, <1>2
<1>4. /\ job'[j].state # "absent" /\ job'[j].day = job[j].day
      /\ job'[j].released = job[j].released
  BY <1>2, <1>3 DEF JobRow
<1>5. \A k \in Job \ {j} : job'[k] = job[k]
  BY <1>1, <1>2
<1> QED
  BY <1>1, <1>2, <1>4, <1>5, GoesOnQuota DEF Commits, AlarmEnds

LEMMA CancelsQuota ==
    ASSUME ReadInv, ReadInv', QuotaInv, NEW j \in Job, Cancels(j)
    PROVE  QuotaInv'
<1>1. job \in [Job -> JobRow] /\ job[j] \in JobRow
  BY DEF ReadInv, TypeOK
<1>2. job'[j] = [job[j] EXCEPT !.state = "cancelled", !.released = ReleasedAtEnd(j)]
  BY <1>1 DEF Cancels
<1>3. /\ job'[j].state # "absent" /\ job'[j].day = job[j].day
      /\ job'[j].released = ReleasedAtEnd(j)
  BY <1>1, <1>2 DEF JobRow
<1>4. \A k \in Job \ {j} : job'[k] = job[k]
  BY <1>1 DEF Cancels
<1> QED
  BY <1>3, <1>4, EndsQuota DEF Cancels

LEMMA FailsQuota ==
    ASSUME ReadInv, ReadInv', QuotaInv, Fails
    PROVE  QuotaInv'
<1>0. PICK j : j = runner.job
  OBVIOUS
<1> DEFINE failures == job[j].failures + 1
<1>1. j \in Job /\ job \in [Job -> JobRow] /\ job[j] \in JobRow
  BY <1>0, RunnerType DEF Fails, ReadInv, TypeOK
<1>2. spent' = spent /\ kept' = kept
  BY DEF Fails, AlarmEnds
<1>3. CASE job[j].state \in Active /\ job' = [job EXCEPT ![j].failures = failures] /\ used' = used
  <2>1. /\ job'[j].state = job[j].state /\ job'[j].day = job[j].day
        /\ job'[j].released = job[j].released /\ job[j].state # "absent"
    BY <1>1, <1>3 DEF JobRow, Active
  <2>2. \A k \in Job \ {j} : job'[k] = job[k]
    BY <1>1, <1>3
  <2> QED
    BY <1>1, <1>2, <1>3, <2>1, <2>2, GoesOnQuota
<1>4. CASE /\ job[j].state \in Active /\ used' = GivenBack(j)
           /\ job' = [job EXCEPT ![j] = [@ EXCEPT !.state = "failed", !.failures = failures,
                                                  !.released = ReleasedAtEnd(j)]]
  <2>1. job'[j] = [job[j] EXCEPT !.state = "failed", !.failures = failures,
                                 !.released = ReleasedAtEnd(j)]
    BY <1>1, <1>4
  <2>2. /\ job'[j].state # "absent" /\ job'[j].day = job[j].day
        /\ job'[j].released = ReleasedAtEnd(j)
    BY <1>1, <2>1 DEF JobRow
  <2>3. \A k \in Job \ {j} : job'[k] = job[k]
    BY <1>1, <1>4
  <2> QED
    BY <1>1, <1>2, <1>4, <2>2, <2>3, EndsQuota
<1>5. CASE UNCHANGED <<used, job>>
  BY <1>2, <1>5, NothingIsCharged
<1> QED
  BY <1>0, <1>3, <1>4, <1>5 DEF Fails

LEMMA NextQuota ==
    ASSUME ReadInv, ReadInv', QuotaInv, [Next]_vars
    PROVE  QuotaInv'
<1>1. CASE \E s \in Subject : Admits(s)
  BY <1>1, AdmitsQuota
<1>2. CASE \E j \in Job : Submits(j) \/ Cancels(j)
  BY <1>2, SubmitsQuota, CancelsQuota
<1>3. CASE \E j \in Job : Resubmits(j) \/ Polls(j)
  BY <1>3, NothingIsCharged DEF Resubmits, Polls
<1>4. CASE Fires \/ AlarmDies \/ Midnight \/ RootChanges \/ UNCHANGED vars
  BY <1>4, NothingIsCharged DEF Fires, AlarmDies, Midnight, RootChanges, vars
<1>5. CASE AlarmStep
  <2>1. CASE Discards
    BY <2>1, NothingIsCharged DEF Discards, AlarmEnds
  <2> QED
    BY <1>5, <2>1, CommitsQuota, FailsQuota DEF AlarmStep
<1> QED
  BY <1>1, <1>2, <1>3, <1>4, <1>5 DEF Next

\* A quota row is charged with what its jobs hold, to the unit, for any subjects, batches
\* and days, whatever is cancelled, fails or is tried again.
THEOREM QuotaExact == Spec => []QuotaIsExact
<1>1. Init => QuotaInv
  <2> SUFFICES ASSUME Init, NEW a \in Day \X Subject
               PROVE  IsFiniteSet(HeldFrom(a)) /\ used[a] = spent[a] + Cardinality(HeldFrom(a))
    BY DEF QuotaInv
  <2>1. HeldFrom(a) = {}
    BY DEF Init, HeldFrom, NoRow
  <2>2. used[a] = 0 /\ spent[a] = 0
    BY DEF Init
  <2> QED
    BY <2>1, <2>2, FS_EmptySet
<1>2. ReadInv /\ ReadInv' /\ QuotaInv /\ [Next]_vars => QuotaInv'
  BY NextQuota
<1>3. QuotaInv => QuotaIsExact
  BY DEF QuotaInv, QuotaIsExact
<1> QED
  BY <1>1, <1>2, <1>3, ReadInvariant, PTL DEF Spec
-----------------------------------------------------------------------------
(* The contract *)

PlainChunks(j) ==
    [i \in DOMAIN chunks[j] |-> [first |-> chunks[j][i].first, count |-> chunks[j][i].count]]

\* What is promised of a job that was admitted.
LEMMA PromisedFacts ==
    ASSUME ReadInv, NEW j \in Job, job[j].state # "absent"
    PROVE  /\ Promised(j) =
                [state |-> IF job[j].state \in Active THEN "open" ELSE "ended",
                 size |-> UnitsOf(j), held |-> UnitsOf(j) - job[j].released,
                 chunks |-> PlainChunks(j)]
           /\ PlainChunks(j) \in Seq([first : Nat, count : Nat])
           /\ Len(PlainChunks(j)) = Len(chunks[j])
           /\ Contract(j)!Delivered = job[j].next
           /\ Contract(j)!Left = UnitsOf(j) - job[j].next
<1>1. job[j] \in JobRow /\ chunks[j] \in Seq(Chunk)
  BY DEF ReadInv, TypeOK
<1>2. Promised(j) = [state |-> IF job[j].state \in Active THEN "open" ELSE "ended",
                     size |-> UnitsOf(j), held |-> UnitsOf(j) - job[j].released,
                     chunks |-> PlainChunks(j)]
  <2>1. job[j].state \notin Active => job[j].state \in Ended
    BY <1>1 DEF JobRow
  <2> QED
    BY <2>1 DEF Promised, PlainChunks
<1>3. /\ Len(chunks[j]) \in Nat /\ DOMAIN chunks[j] = 1..Len(chunks[j])
      /\ \A i \in 1..Len(chunks[j]) : chunks[j][i] \in Chunk
  BY <1>1, LenProperties, ElementOfSeq
<1>4. /\ PlainChunks(j) \in Seq([first : Nat, count : Nat])
      /\ Len(PlainChunks(j)) = Len(chunks[j])
  <2>1. \A i \in 1..Len(chunks[j]) :
          [first |-> chunks[j][i].first, count |-> chunks[j][i].count] \in [first : Nat, count : Nat]
    BY <1>3 DEF Chunk
  <2>2. PlainChunks(j) \in Seq([first : Nat, count : Nat])
    BY <1>3, <2>1, IsASeq DEF PlainChunks
  <2>3. DOMAIN PlainChunks(j) = 1..Len(chunks[j])
    BY <1>3 DEF PlainChunks
  <2> QED
    BY <1>3, <2>2, <2>3, LenProperties
<1>5. Contract(j)!Delivered = job[j].next
  <2> DEFINE L == Len(chunks[j])
  <2>1. End(j, L) = job[j].next
    BY DEF ReadInv, ChunksAreSound
  <2>2. CASE PlainChunks(j) = <<>>
    <3>1. L = 0
      BY <1>3, <1>4, <2>2, EmptySeq
    <3> QED
      BY <1>2, <2>1, <2>2, <3>1 DEF Contract!Delivered, End
  <2>3. CASE PlainChunks(j) # <<>>
    <3>1. L \in 1..L /\ L # 0
      BY <1>3, <1>4, <2>3, EmptySeq
    <3>2. PlainChunks(j)[L].first = chunks[j][L].first
            /\ PlainChunks(j)[L].count = chunks[j][L].count
      BY <1>3, <3>1 DEF PlainChunks
    <3>3. Promised(j).chunks = PlainChunks(j)
      BY <1>2
    <3>4. End(j, L) = chunks[j][L].first + chunks[j][L].count
      BY <3>1 DEF End
    <3> QED
      BY <1>4, <2>1, <2>3, <3>2, <3>3, <3>4 DEF Contract!Delivered
  <2> QED
    BY <2>2, <2>3
<1>6. Contract(j)!Left = UnitsOf(j) - job[j].next
  BY <1>2, <1>5 DEF Contract!Left
<1> QED
  BY <1>2, <1>4, <1>5, <1>6

\* What happens to the alarm, the world or other jobs is no step of a job.
LEMMA UntouchedIsNoStep ==
    ASSUME NEW j \in Job, job'[j] = job[j], chunks'[j] = chunks[j]
    PROVE  Contract(j)!Step
BY DEF Contract!Step, Promised

LEMMA SubmissionIsAdmission ==
    ASSUME ReadInv, NEW j \in Job, Submits(j)
    PROVE  Contract(j)!Step
<1>1. job[j] = NoRow /\ chunks[j] = <<>> /\ chunks' = chunks /\ UnitsOf(j) \in Nat
  BY JobFacts DEF ReadInv, RowIsSound, Submits
<1>2. job'[j].state = "queued" /\ job'[j].released = 0
  <2>1. PICK r \in 0..root :
          job' = [job EXCEPT ![j] =
                    [NoRow EXCEPT !.state = "queued", !.day = today, !.root = r]]
    BY DEF Submits
  <2>2. job'[j] = [NoRow EXCEPT !.state = "queued", !.day = today, !.root = r]
    BY <2>1 DEF ReadInv, TypeOK
  <2> QED
    BY <2>2 DEF NoRow
<1>3. Promised(j) = Contract(j)!Absent
  BY <1>1 DEF Promised, NoRow, Active, Ended, Contract!Absent
<1>4. Promised(j)' = [state |-> "open", size |-> UnitsOf(j), held |-> UnitsOf(j), chunks |-> <<>>]
  <2>1. UnitsOf(j) - 0 = UnitsOf(j)
    BY <1>1
  <2> QED
    BY <1>1, <1>2, <2>1 DEF Promised, Active
<1>5. UnitsOf(j) \in {Units[k] : k \in Key}
  BY DEF UnitsOf, Job
<1> QED
  BY <1>3, <1>4, <1>5 DEF Contract!Step, Contract!Next, Contract!Admit

\* An end without another chunk gives back all that was not delivered.
LEMMA EndIsEnd ==
    ASSUME ReadInv, NEW j \in Job, job[j].state \in Active,
           job'[j].state \in {"cancelled", "failed"}, job'[j].released = ReleasedAtEnd(j),
           chunks' = chunks
    PROVE  Contract(j)!Step
<1>1. TypeOK /\ RowIsSound(j) /\ UnitsOf(j) \in Nat /\ job[j].next \in Nat
  BY JobFacts DEF ReadInv, TypeOK, JobRow
<1>2. job[j].released = 0 /\ ReleasedAtEnd(j) = UnitsOf(j) - job[j].next
  BY <1>1, OutstandingIsLeft DEF ReleasedAtEnd
<1>3. job[j].state # "absent"
  BY DEF Active
<1>4. Promised(j) = [state |-> "open", size |-> UnitsOf(j), held |-> UnitsOf(j),
                     chunks |-> PlainChunks(j)]
  <2>1. UnitsOf(j) - 0 = UnitsOf(j)
    BY <1>1
  <2> QED
    BY <1>2, <1>3, <2>1, PromisedFacts
<1>5. Promised(j)' = [state |-> "ended", size |-> UnitsOf(j), held |-> job[j].next,
                      chunks |-> PlainChunks(j)]
  <2>1. UnitsOf(j) - (UnitsOf(j) - job[j].next) = job[j].next
    BY <1>1
  <2> QED
    BY <1>2, <2>1 DEF Promised, PlainChunks, Active, Ended
<1>6. UnitsOf(j) - Contract(j)!Left = job[j].next
  BY <1>1, <1>3, PromisedFacts
<1>7. Promised(j).state = "open"
  BY <1>4
<1>8. Promised(j)' = [Promised(j) EXCEPT !.state = "ended", !.held = UnitsOf(j) - Contract(j)!Left]
  <2>1. PICK p : p = [Promised(j) EXCEPT !.state = "ended"]
    OBVIOUS
  <2>2. p = [state |-> "ended", size |-> UnitsOf(j), held |-> UnitsOf(j),
             chunks |-> PlainChunks(j)]
    BY <1>4, <2>1
  <2>3. [p EXCEPT !.held = job[j].next]
          = [state |-> "ended", size |-> UnitsOf(j), held |-> job[j].next,
             chunks |-> PlainChunks(j)]
    BY <2>2
  <2> QED
    BY <1>5, <1>6, <2>1, <2>3, Zenon
<1>9. Promised(j).held = UnitsOf(j)
  BY <1>4
<1> QED
  <2>1. Contract(j)!End
    BY <1>7, <1>8, <1>9 DEF Contract!End
  <2> QED
    BY <2>1 DEF Contract!Step, Contract!Next

\* A slice is a delivery that charges for all it holds.
LEMMA SliceIsDelivery ==
    ASSUME ReadInv, NEW n \in 1..SliceSize, Commits(n), NEW j, j = runner.job
    PROVE  Contract(j)!Step
<1> DEFINE chunk == [first |-> job[j].next, from |-> job[j].next, count |-> n,
                     root |-> job[j].root]
           plain == [first |-> job[j].next, count |-> n]
           isDone == job[j].next + n = UnitsOf(j)
           state == IF isDone THEN "done" ELSE "running"
           phase == IF isDone THEN "ended" ELSE "open"
<1>1. /\ j \in Job /\ job[j].state \in Active
      /\ job[j].next + n \in Nat /\ job[j].next + n <= UnitsOf(j)
      /\ chunks' = [chunks EXCEPT ![j] = Append(@, chunk)]
      /\ job' = [job EXCEPT ![j] = [@ EXCEPT
           !.state = state, !.next = job[j].next + n,
           !.committed = job[j].committed + n, !.failures = 0]]
  BY CommitsFacts
<1>2. /\ TypeOK /\ RowIsSound(j) /\ UnitsOf(j) \in Nat /\ n \in Nat \ {0}
      /\ job[j] \in JobRow /\ chunks[j] \in Seq(Chunk)
  <2>1. j \in Job /\ TypeOK
    BY <1>1 DEF ReadInv
  <2>2. n \in Nat \ {0}
    BY ReadBatchesAssumption
  <2> QED
    BY <2>1, <2>2, JobFacts DEF ReadInv, TypeOK
<1>3. job[j].next \in Nat /\ job[j].released = 0 /\ job[j].state # "absent"
  BY <1>1, <1>2 DEF RowIsSound, JobRow, Active
<1>4. job'[j].state = state /\ job'[j].released = 0
  <2>1. job'[j] = [job[j] EXCEPT !.state = state, !.next = job[j].next + n,
                                 !.committed = job[j].committed + n, !.failures = 0]
    BY <1>1, <1>2 DEF TypeOK
  <2> HIDE DEF state
  <2> QED
    BY <1>2, <1>3, <2>1 DEF JobRow
<1>5. Promised(j) = [state |-> "open", size |-> UnitsOf(j), held |-> UnitsOf(j),
                     chunks |-> PlainChunks(j)]
  <2>1. UnitsOf(j) - 0 = UnitsOf(j)
    BY <1>2
  <2> QED
    BY <1>1, <1>3, <2>1, PromisedFacts
<1>6. PlainChunks(j)' = Append(PlainChunks(j), plain)
  <2>0. PICK L : L = Len(chunks[j])
    OBVIOUS
  <2>1. chunk \in Chunk /\ chunks'[j] = Append(chunks[j], chunk)
    BY <1>1, <1>2, <1>3 DEF Chunk, JobRow, TypeOK
  <2> HIDE DEF chunk
  <2>2. /\ L \in Nat /\ DOMAIN chunks'[j] = 1..(L + 1)
        /\ chunks'[j][L + 1] = chunk
        /\ \A i \in 1..L : chunks'[j][i] = chunks[j][i]
        /\ DOMAIN chunks[j] = 1..L
    <3>1. chunks'[j] \in Seq(Chunk)
      BY <1>2, <2>1, AppendProperties
    <3> QED
      BY <1>2, <2>0, <2>1, <3>1, AppendProperties, LenProperties
  <2>3. /\ PlainChunks(j) \in Seq([first : Nat, count : Nat])
        /\ Len(PlainChunks(j)) = L
    BY <1>1, <1>3, <2>0, PromisedFacts
  <2>4. plain \in [first : Nat, count : Nat] /\ plain.first = chunk.first /\ plain.count = chunk.count
    BY <1>2, <1>3 DEF chunk
  <2>5. /\ Append(PlainChunks(j), plain) \in Seq([first : Nat, count : Nat])
        /\ DOMAIN Append(PlainChunks(j), plain) = 1..(L + 1)
        /\ Append(PlainChunks(j), plain)[L + 1] = plain
        /\ \A i \in 1..L : Append(PlainChunks(j), plain)[i] = PlainChunks(j)[i]
    <3> HIDE DEF plain
    <3>1. Append(PlainChunks(j), plain) \in Seq([first : Nat, count : Nat])
      BY <2>3, <2>4, AppendProperties
    <3> QED
      BY <2>3, <2>4, <3>1, AppendProperties, LenProperties
  <2>6. \A i \in 1..(L + 1) :
          [first |-> chunks'[j][i].first, count |-> chunks'[j][i].count]
            = Append(PlainChunks(j), plain)[i]
    <3> SUFFICES ASSUME NEW i \in 1..(L + 1)
                 PROVE  [first |-> chunks'[j][i].first, count |-> chunks'[j][i].count]
                          = Append(PlainChunks(j), plain)[i]
      OBVIOUS
    <3>1. CASE i \in 1..L
      BY <2>2, <2>5, <3>1 DEF PlainChunks
    <3>2. CASE i = L + 1
      <4>1. Append(PlainChunks(j), plain)[i] = plain
        BY <2>5, <3>2
      <4>2. chunks'[j][i] = chunk
        BY <2>2, <3>2
      <4> QED
        BY <2>4, <4>1, <4>2
    <3>3. i \in 1..L \/ i = L + 1
      BY <2>2
    <3> QED
      BY <3>1, <3>2, <3>3
  <2>7. Append(PlainChunks(j), plain)
          = [i \in 1..(L + 1) |-> Append(PlainChunks(j), plain)[i]]
    <3> HIDE DEF plain
    <3> QED
      BY <2>5, LenProperties
  <2> HIDE DEF plain
  <2> QED
    BY <2>2, <2>6, <2>7 DEF PlainChunks
<1>7. Promised(j)' = [state |-> phase, size |-> UnitsOf(j), held |-> UnitsOf(j),
                      chunks |-> PlainChunks(j)']
  <2>1. UnitsOf(j) - 0 = UnitsOf(j)
    BY <1>2
  <2>2. state # "absent" /\ (state \in Active <=> ~isDone) /\ (state \in Ended <=> isDone)
    BY DEF Active, Ended
  <2> HIDE DEF state, isDone
  <2> QED
    BY <1>4, <2>1, <2>2 DEF Promised, PlainChunks
<1>8. Contract(j)!Left = UnitsOf(j) - job[j].next /\ Contract(j)!Delivered = job[j].next
  BY <1>1, <1>3, PromisedFacts
<1>9. n \in 1..Contract(j)!Left /\ (n = Contract(j)!Left <=> isDone)
  BY <1>1, <1>2, <1>3, <1>8
<1>10. Promised(j)' =
         [Promised(j) EXCEPT
            !.state = IF isDone THEN "ended" ELSE "open",
            !.held = @ - 0 - (IF isDone THEN Contract(j)!Left - n ELSE 0),
            !.chunks = Append(@, [first |-> Contract(j)!Delivered, count |-> n])]
  <2>1. /\ Promised(j).held - 0 - (IF isDone THEN Contract(j)!Left - n ELSE 0) = UnitsOf(j)
        /\ Promised(j).chunks = PlainChunks(j)
    <3>1. Promised(j).held = UnitsOf(j) /\ Promised(j).chunks = PlainChunks(j)
      BY <1>5
    <3>2. (IF isDone THEN Contract(j)!Left - n ELSE 0) = 0
      <4>1. isDone => Contract(j)!Left - n = 0
        BY <1>2, <1>9
      <4> HIDE DEF isDone
      <4> QED
        BY <4>1
    <3>3. UnitsOf(j) - 0 - 0 = UnitsOf(j)
      BY <1>2
    <3> HIDE DEF isDone
    <3> QED
      BY <3>1, <3>2, <3>3
  <2>2. Append(Promised(j).chunks, [first |-> Contract(j)!Delivered, count |-> n])
          = PlainChunks(j)'
    BY <1>6, <1>8, <2>1
  <2> HIDE DEF isDone
  <2>3. PICK p : p = [Promised(j) EXCEPT !.state = IF isDone THEN "ended" ELSE "open"]
    OBVIOUS
  <2>4. p = [state |-> phase, size |-> UnitsOf(j), held |-> UnitsOf(j),
             chunks |-> PlainChunks(j)]
    BY <1>5, <2>3
  <2> HIDE DEF phase
  <2>5. PICK q : q = [p EXCEPT !.held = UnitsOf(j)]
    OBVIOUS
  <2>6. q = [state |-> phase, size |-> UnitsOf(j), held |-> UnitsOf(j),
             chunks |-> PlainChunks(j)]
    BY <2>4, <2>5
  <2>7. [q EXCEPT !.chunks = PlainChunks(j)']
          = [state |-> phase, size |-> UnitsOf(j), held |-> UnitsOf(j),
             chunks |-> PlainChunks(j)']
    BY <2>6
  <2> QED
    BY <1>7, <2>1, <2>2, <2>3, <2>5, <2>7, Zenon
<1>11. Promised(j).state = "open"
  BY <1>5
<1>12. isDone \in BOOLEAN /\ 0 \in 0..n /\ (n = Contract(j)!Left => isDone)
  BY <1>2, <1>9
<1>13. Contract(j)!Deliver
  <2> HIDE DEF isDone
  <2> QED
    BY <1>9, <1>10, <1>11, <1>12, Zenon DEF Contract!Deliver
<1> QED
  BY <1>13 DEF Contract!Step, Contract!Next

\* A step that changes a job is one of the four that are about it.
LEMMA StepsOfAJob ==
    ASSUME ReadInv, [Next]_vars, NEW j \in Job
    PROVE  \/ job'[j] = job[j] /\ chunks'[j] = chunks[j]
           \/ Submits(j)
           \/ Cancels(j)
           \/ runner.job = j /\ \E n \in 1..SliceSize : Commits(n)
           \/ runner.job = j /\ Fails
<1> DEFINE untouched == job'[j] = job[j] /\ chunks'[j] = chunks[j]
<1>0. job \in [Job -> JobRow] /\ chunks \in [Job -> Seq(Chunk)]
  BY DEF ReadInv, TypeOK
<1>1. CASE \E s \in Subject : Admits(s)
  BY <1>1 DEF Admits
<1>2. ASSUME NEW k \in Job, k # j, Submits(k) PROVE untouched
  BY <1>0, <1>2 DEF Submits
<1>3. CASE \E k \in Job : Resubmits(k) \/ Polls(k)
  BY <1>3 DEF Resubmits, Polls
<1>4. ASSUME NEW k \in Job, k # j, Cancels(k) PROVE untouched
  BY <1>0, <1>4 DEF Cancels
<1>5. CASE Fires \/ AlarmDies \/ Midnight \/ RootChanges \/ Discards
  BY <1>5 DEF Fires, AlarmDies, Midnight, RootChanges, Discards
<1>6. ASSUME NEW n \in 1..SliceSize, Commits(n), runner.job # j PROVE untouched
  <2>1. PICK k, v, w : /\ k = runner.job
                       /\ job' = [job EXCEPT ![k] = v]
                       /\ chunks' = [chunks EXCEPT ![k] = w]
    BY <1>6 DEF Commits
  <2> QED
    BY <1>0, <1>6, <2>1
<1>7. ASSUME Fails, runner.job # j PROVE untouched
  <2>1. PICK k : k = runner.job
    OBVIOUS
  <2>2. chunks' = chunks /\ \/ \E v : job' = [job EXCEPT ![k] = v]
                            \/ job' = job
    <3>1. job' = [job EXCEPT ![k].failures = job[k].failures + 1]
            => \E v : job' = [job EXCEPT ![k] = v]
      OBVIOUS
    <3> QED
      BY <1>7, <2>1, <3>1 DEF Fails
  <2> QED
    BY <1>0, <1>7, <2>1, <2>2
<1>8. CASE UNCHANGED vars
  BY <1>8 DEF vars
<1> HIDE DEF untouched
<1>9. untouched => job'[j] = job[j] /\ chunks'[j] = chunks[j]
  BY DEF untouched
<1> QED
  BY <1>1, <1>2, <1>3, <1>4, <1>5, <1>6, <1>7, <1>8, <1>9 DEF Next, AlarmStep

LEMMA NextKeepsTheContract ==
    ASSUME ReadInv, [Next]_vars, NEW j \in Job
    PROVE  Contract(j)!Step
<1>0. job \in [Job -> JobRow] /\ job[j] \in JobRow
  BY DEF ReadInv, TypeOK
<1>1. CASE job'[j] = job[j] /\ chunks'[j] = chunks[j]
  BY <1>1, UntouchedIsNoStep
<1>2. CASE Submits(j)
  BY <1>2, SubmissionIsAdmission
<1>3. CASE Cancels(j)
  <2>1. job'[j] = [job[j] EXCEPT !.state = "cancelled", !.released = ReleasedAtEnd(j)]
    BY <1>0, <1>3 DEF Cancels
  <2>2. job'[j].state = "cancelled" /\ job'[j].released = ReleasedAtEnd(j)
    BY <1>0, <2>1 DEF JobRow
  <2> QED
    BY <1>3, <2>2, EndIsEnd DEF Cancels
<1>4. CASE runner.job = j /\ \E n \in 1..SliceSize : Commits(n)
  BY <1>4, SliceIsDelivery
<1>5. CASE runner.job = j /\ Fails
  <2>1. chunks' = chunks
    BY <1>5 DEF Fails
  <2>2. CASE job' = [job EXCEPT ![j].failures = job[j].failures + 1]
    <3>1. job'[j].state = job[j].state /\ job'[j].released = job[j].released
      BY <1>0, <2>2 DEF JobRow
    <3> QED
      BY <2>1, <3>1 DEF Contract!Step, Promised
  <2>3. CASE /\ job[j].state \in Active
             /\ job' = [job EXCEPT ![j] = [@ EXCEPT !.state = "failed",
                          !.failures = job[j].failures + 1, !.released = ReleasedAtEnd(j)]]
    <3>1. job'[j] = [job[j] EXCEPT !.state = "failed", !.failures = job[j].failures + 1,
                                   !.released = ReleasedAtEnd(j)]
      BY <1>0, <2>3
    <3>2. job'[j].state = "failed" /\ job'[j].released = ReleasedAtEnd(j)
      BY <1>0, <3>1 DEF JobRow
    <3> QED
      BY <2>1, <2>3, <3>2, EndIsEnd
  <2>4. CASE job' = job
    BY <2>1, <2>4, UntouchedIsNoStep
  <2> QED
    BY <1>5, <2>2, <2>3, <2>4 DEF Fails
<1> QED
  BY <1>1, <1>2, <1>3, <1>4, <1>5, StepsOfAJob

\* The object implements the contract, for every batch: see BatchContract.
THEOREM ContractKept == Spec => KeepsTheContract
<1>1. Init => \A j \in Job : Contract(j)!Init
  BY DEF Init, Contract!Init, Contract!Absent, Promised, NoRow, Active, Ended
<1>2. ReadInv /\ [Next]_vars => \A j \in Job : Contract(j)!Step
  BY NextKeepsTheContract
<1> QED
  BY <1>1, <1>2, ReadInvariant, PTL DEF Spec, KeepsTheContract

\* Nothing is added to a job that has ended, and nothing of it changes: a slice that
\* comes back late finds a job that is not at work.
THEOREM EndedStays == Spec => EndedIsFinal
<1>1. ReadInv /\ [Next]_vars =>
        [\A j \in Job : job[j].state \in Ended => job'[j] = job[j] /\ chunks'[j] = chunks[j]]_vars
  <2> SUFFICES ASSUME ReadInv, [Next]_vars, NEW j \in Job, job[j].state \in Ended
               PROVE  job'[j] = job[j] /\ chunks'[j] = chunks[j]
    OBVIOUS
  <2>1. job[j].state \notin Active /\ job[j].state # "absent"
    BY DEF Ended, Active
  <2>2. ~Submits(j) /\ ~Cancels(j)
    BY <2>1 DEF Submits, Cancels
  <2>3. ~(runner.job = j /\ \E n \in 1..SliceSize : Commits(n))
    BY <2>1 DEF Commits, Holds
  <2>4. runner.job = j /\ Fails => job' = job /\ chunks' = chunks
    BY <2>1 DEF Fails
  <2> QED
    BY <2>2, <2>3, <2>4, StepsOfAJob
<1> QED
  BY <1>1, ReadInvariant, PTL DEF Spec, EndedIsFinal
=============================================================================
