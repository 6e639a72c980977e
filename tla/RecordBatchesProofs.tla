------------------------ MODULE RecordBatchesProofs -------------------------
(***************************************************************************)
(* What is proved about the record batches, for any jobs, workers and      *)
(* days: the counts of every job and the quota rows they are charged to    *)
(* are exact, the batches implement BatchContract, as those of the read    *)
(* Worker do (ReadBatchesProofs), a cancellation holds, and no subject has *)
(* more than its share of the workers.                                     *)
(***************************************************************************)
EXTENDS RecordBatches, FiniteSetTheorems, SequenceTheorems, TLAPS
-----------------------------------------------------------------------------
(* Units as sets *)

\* The sets of RecordBatches, for a job table f that need not be the current one.
IsActive(row) == row.state \in {"queued", "running"}
LeftIn(f, j) == {j} \X ((f[j].completed + 1)..UnitsOf(j))
CommittedIn(f, j) == {j} \X (1..f[j].committed)
ChargedIn(f, j) == CommittedIn(f, j) \cup IF IsActive(f[j]) THEN LeftIn(f, j) ELSE {}
AccountIn(f, j) == <<f[j].day, SubjectOf(j)>>
HoldersIn(f, a) == {k \in Job : f[k].state # "absent" /\ AccountIn(f, k) = a}
ChargesIn(f, a) == UNION {ChargedIn(f, j) : j \in HoldersIn(f, a)}

\* What a job is charged with.
Weight(row, u) == row.committed + IF IsActive(row) THEN u - row.completed ELSE 0
WeightIn(f, j) == Weight(f[j], UnitsOf(j))

\* No job has more units committed than apexes completed, or more of those than
\* apexes.
CountedIn(f) ==
    \A j \in Job : f[j].committed <= f[j].completed /\ f[j].completed <= UnitsOf(j)

LEMMA JobFacts ==
    /\ IsFiniteSet(Job)
    /\ \A j \in Job : UnitsOf(j) \in Nat \ {0} /\ SubjectOf(j) \in Subject
BY BatchesAssumption, FS_Product DEF Job, UnitsOf, SubjectOf

\* Finitely many finite sets have a finite union.
LEMMA FiniteUnion ==
    ASSUME NEW S \in SUBSET Job, NEW F, \A j \in S : IsFiniteSet(F[j])
    PROVE  IsFiniteSet(UNION {F[j] : j \in S})
<1> DEFINE T == {F[j] : j \in S}
           G == [j \in S |-> F[j]]
<1>1. IsFiniteSet(S)
  BY JobFacts, FS_Subset
<1>2. G \in Surjection(S, T)
  BY DEF Surjection
<1>3. IsFiniteSet(T)
  BY <1>1, <1>2, FS_Surjection
<1> QED
  BY <1>3, FS_UNION

\* The units of one job, counted.
LEMMA PieceSizes ==
    ASSUME NEW f \in [Job -> JobRow], CountedIn(f), NEW j \in Job
    PROVE  /\ IsFiniteSet(LeftIn(f, j))
           /\ Cardinality(LeftIn(f, j)) = UnitsOf(j) - f[j].completed
           /\ IsFiniteSet(CommittedIn(f, j))
           /\ Cardinality(CommittedIn(f, j)) = f[j].committed
           /\ IsFiniteSet(ChargedIn(f, j))
           /\ Cardinality(ChargedIn(f, j)) = WeightIn(f, j)
<1> DEFINE c == f[j].completed
           m == f[j].committed
           u == UnitsOf(j)
<1>1. c \in Nat /\ m \in Nat /\ u \in Nat /\ m <= c /\ c <= u
  BY JobFacts DEF CountedIn, JobRow
<1> HIDE DEF c, m, u
<1>2. IsFiniteSet({j}) /\ Cardinality({j}) = 1
  BY FS_Singleton
<1>3. IsFiniteSet((c + 1)..u) /\ Cardinality((c + 1)..u) = u - c
  <2>1. IsFiniteSet((c + 1)..u)
        /\ Cardinality((c + 1)..u) = IF c + 1 > u THEN 0 ELSE u - (c + 1) + 1
    BY <1>1, FS_Interval
  <2> QED
    BY <1>1, <2>1
<1>4. IsFiniteSet(1..m) /\ Cardinality(1..m) = m
  <2>1. IsFiniteSet(1..m) /\ Cardinality(1..m) = IF 1 > m THEN 0 ELSE m - 1 + 1
    BY <1>1, FS_Interval
  <2> QED
    BY <1>1, <2>1
<1>5. IsFiniteSet({j} \X ((c + 1)..u)) /\ Cardinality({j} \X ((c + 1)..u)) = u - c
  <2> DEFINE S == {j}
             T == (c + 1)..u
  <2>1. /\ IsFiniteSet(S) /\ Cardinality(S) = 1
        /\ IsFiniteSet(T) /\ Cardinality(T) = u - c
    BY <1>2, <1>3
  <2> HIDE DEF S, T
  <2>2. IsFiniteSet(S \X T) /\ Cardinality(S \X T) = Cardinality(S) * Cardinality(T)
    BY <2>1, FS_Product
  <2>3. IsFiniteSet(S \X T) /\ Cardinality(S \X T) = u - c
    BY <1>1, <2>1, <2>2
  <2> QED
    BY <2>3 DEF S, T
<1>6. IsFiniteSet({j} \X (1..m)) /\ Cardinality({j} \X (1..m)) = m
  <2> DEFINE S == {j}
             T == 1..m
  <2>1. /\ IsFiniteSet(S) /\ Cardinality(S) = 1
        /\ IsFiniteSet(T) /\ Cardinality(T) = m
    BY <1>2, <1>4
  <2> HIDE DEF S, T
  <2>2. IsFiniteSet(S \X T) /\ Cardinality(S \X T) = Cardinality(S) * Cardinality(T)
    BY <2>1, FS_Product
  <2>3. IsFiniteSet(S \X T) /\ Cardinality(S \X T) = m
    BY <1>1, <2>1, <2>2
  <2> QED
    BY <2>3 DEF S, T
<1>7. ({j} \X (1..m)) \cap ({j} \X ((c + 1)..u)) = {}
  BY <1>1
<1>8. /\ IsFiniteSet(({j} \X (1..m)) \cup ({j} \X ((c + 1)..u)))
      /\ Cardinality(({j} \X (1..m)) \cup ({j} \X ((c + 1)..u))) = m + (u - c)
  <2>1. Cardinality({}) = 0
    BY FS_EmptySet
  <2> QED
    BY <1>1, <1>5, <1>6, <1>7, <2>1, FS_Union
<1>9. LeftIn(f, j) = {j} \X ((c + 1)..u) /\ CommittedIn(f, j) = {j} \X (1..m)
  BY DEF LeftIn, CommittedIn, c, m, u
<1>10. CASE IsActive(f[j])
  <2>1. ChargedIn(f, j) = ({j} \X (1..m)) \cup ({j} \X ((c + 1)..u))
    BY <1>9, <1>10 DEF ChargedIn
  <2>2. WeightIn(f, j) = m + (u - c)
    BY <1>10 DEF WeightIn, Weight, c, m, u
  <2> QED
    BY <1>5, <1>6, <1>8, <1>9, <2>1, <2>2 DEF c, m, u
<1>11. CASE ~IsActive(f[j])
  <2>1. ChargedIn(f, j) = {j} \X (1..m)
    BY <1>9, <1>11 DEF ChargedIn
  <2>2. WeightIn(f, j) = m
    BY <1>1, <1>11 DEF WeightIn, Weight, m
  <2> QED
    BY <1>5, <1>6, <1>9, <2>1, <2>2 DEF c, m, u
<1> QED
  BY <1>10, <1>11

\* The charges of an account are finitely many.
LEMMA ChargesFinite ==
    ASSUME NEW f \in [Job -> JobRow], CountedIn(f), NEW S \in SUBSET Job
    PROVE  /\ IsFiniteSet(UNION {ChargedIn(f, k) : k \in S})
           /\ IsFiniteSet(UNION {LeftIn(f, k) : k \in S})
           /\ IsFiniteSet(UNION {CommittedIn(f, k) : k \in S})
<1> DEFINE F == [k \in Job |-> ChargedIn(f, k)]
           L == [k \in Job |-> LeftIn(f, k)]
           C == [k \in Job |-> CommittedIn(f, k)]
<1>1. \A k \in S : IsFiniteSet(F[k]) /\ IsFiniteSet(L[k]) /\ IsFiniteSet(C[k])
  BY PieceSizes
<1>2. /\ IsFiniteSet(UNION {F[k] : k \in S})
      /\ IsFiniteSet(UNION {L[k] : k \in S})
      /\ IsFiniteSet(UNION {C[k] : k \in S})
  <2> HIDE DEF F, L, C
  <2> QED
    BY <1>1, FiniteUnion
<1>3. /\ {F[k] : k \in S} = {ChargedIn(f, k) : k \in S}
      /\ {L[k] : k \in S} = {LeftIn(f, k) : k \in S}
      /\ {C[k] : k \in S} = {CommittedIn(f, k) : k \in S}
  OBVIOUS
<1> QED
  BY <1>2, <1>3

\* The share of one job in the charges of an account can be counted by itself.
OthersIn(f, j, a) == UNION {ChargedIn(f, k) : k \in HoldersIn(f, a) \ {j}}

LEMMA ChargesSplit ==
    ASSUME NEW f \in [Job -> JobRow], CountedIn(f), NEW j \in Job, NEW a
    PROVE  /\ Cardinality(OthersIn(f, j, a)) \in Nat
           /\ Cardinality(ChargesIn(f, a)) =
                Cardinality(OthersIn(f, j, a))
                  + IF j \in HoldersIn(f, a) THEN WeightIn(f, j) ELSE 0
<1> DEFINE O == OthersIn(f, j, a)
           C == ChargedIn(f, j)
<1>1. HoldersIn(f, a) \in SUBSET Job /\ HoldersIn(f, a) \ {j} \in SUBSET Job
  BY DEF HoldersIn
<1>2. IsFiniteSet(O) /\ Cardinality(O) \in Nat
  BY <1>1, ChargesFinite, FS_CardinalityType DEF OthersIn
<1>3. IsFiniteSet(C) /\ Cardinality(C) = WeightIn(f, j) /\ Cardinality(C) \in Nat
  BY PieceSizes, FS_CardinalityType
<1>4. CASE j \notin HoldersIn(f, a)
  <2>1. HoldersIn(f, a) \ {j} = HoldersIn(f, a)
    BY <1>4
  <2>2. ChargesIn(f, a) = O
    BY <2>1 DEF ChargesIn, OthersIn
  <2> QED
    BY <1>2, <1>4, <2>2
<1>5. CASE j \in HoldersIn(f, a)
  <2>1. ChargesIn(f, a) = O \cup C
    BY <1>5 DEF ChargesIn, OthersIn
  <2>2. O \cap C = {}
    <3>1. \A k \in Job : \A x \in ChargedIn(f, k) : x[1] = k
      BY DEF ChargedIn, CommittedIn, LeftIn
    <3> QED
      BY <1>1, <3>1 DEF OthersIn
  <2>3. Cardinality(O \cap C) = 0
    BY <2>2, FS_EmptySet
  <2>4. Cardinality(O \cup C) = Cardinality(O) + Cardinality(C) - Cardinality(O \cap C)
    <3> HIDE DEF O, C
    <3> QED
      BY <1>2, <1>3, FS_Union
  <2> QED
    BY <1>2, <1>3, <1>5, <2>1, <2>3, <2>4
<1> QED
  BY <1>4, <1>5

\* When one job changes, the charges change by what it is charged with.
LEMMA ChangeOne ==
    ASSUME NEW f \in [Job -> JobRow], CountedIn(f),
           NEW g \in [Job -> JobRow], CountedIn(g),
           NEW j \in Job, \A k \in Job \ {j} : g[k] = f[k],
           NEW a
    PROVE  /\ Cardinality(ChargesIn(f, a)) \in Nat
           /\ Cardinality(ChargesIn(g, a)) =
                Cardinality(ChargesIn(f, a))
                  - (IF j \in HoldersIn(f, a) THEN WeightIn(f, j) ELSE 0)
                  + (IF j \in HoldersIn(g, a) THEN WeightIn(g, j) ELSE 0)
           /\ j \in HoldersIn(f, a) => WeightIn(f, j) <= Cardinality(ChargesIn(f, a))
<1>1. OthersIn(g, j, a) = OthersIn(f, j, a)
  <2>1. HoldersIn(g, a) \ {j} = HoldersIn(f, a) \ {j}
    BY DEF HoldersIn, AccountIn
  <2>2. \A k \in HoldersIn(f, a) \ {j} : ChargedIn(g, k) = ChargedIn(f, k)
    BY DEF HoldersIn, ChargedIn, CommittedIn, LeftIn
  <2> QED
    BY <2>1, <2>2 DEF OthersIn
<1>2. WeightIn(f, j) \in Nat /\ WeightIn(g, j) \in Nat
  BY PieceSizes, FS_CardinalityType
<1> DEFINE o == Cardinality(OthersIn(f, j, a))
<1>3. /\ o \in Nat
      /\ Cardinality(ChargesIn(f, a)) =
           o + IF j \in HoldersIn(f, a) THEN WeightIn(f, j) ELSE 0
  BY ChargesSplit
<1>4. Cardinality(ChargesIn(g, a)) =
           o + IF j \in HoldersIn(g, a) THEN WeightIn(g, j) ELSE 0
  BY <1>1, ChargesSplit
<1> HIDE DEF o
<1> QED
  BY <1>2, <1>3, <1>4

\* When a part of the charges is dropped, their number drops by that of the part.
LEMMA DropCharges ==
    ASSUME NEW f \in [Job -> JobRow], CountedIn(f), NEW a, NEW T,
           T \subseteq ChargesIn(f, a)
    PROVE  /\ Cardinality(T) \in Nat
           /\ Cardinality(ChargesIn(f, a) \ T) = Cardinality(ChargesIn(f, a)) - Cardinality(T)
           /\ Cardinality(T) <= Cardinality(ChargesIn(f, a))
           /\ Cardinality(ChargesIn(f, a)) \in Nat
<1>1. HoldersIn(f, a) \in SUBSET Job
  BY DEF HoldersIn
<1>2. IsFiniteSet(ChargesIn(f, a))
  BY <1>1, ChargesFinite DEF ChargesIn
<1>3. IsFiniteSet(T) /\ Cardinality(T) <= Cardinality(ChargesIn(f, a))
  BY <1>2, FS_Subset
<1>4. ChargesIn(f, a) \cap T = T
  OBVIOUS
<1> QED
  BY <1>2, <1>3, <1>4, FS_Difference, FS_CardinalityType
-----------------------------------------------------------------------------
(* The quota rows *)

\* QuotaIsExact of any job table f, quota rows u, history s and day t.
QuotaIn(f, u, s, t) ==
    \A a \in Day \X Subject :
        a[1] >= t - Retention => u[a] = s[a] + Cardinality(ChargesIn(f, a))

LEMMA QuotaNow == QuotaIsExact <=> QuotaIn(job, used, spent, today)
BY DEF QuotaIsExact, QuotaIn, ChargesIn, HoldersIn, ChargedIn, CommittedIn, LeftIn,
       AccountIn, IsActive, Charged, Committed, Left, Active, InState, Account

LEMMA WeightType ==
    ASSUME NEW f \in [Job -> JobRow], CountedIn(f), NEW j \in Job
    PROVE  WeightIn(f, j) \in Nat
BY PieceSizes, FS_CardinalityType

AccountType == Day \X Subject

LEMMA ClampType ==
    ASSUME NEW u \in [AccountType -> Nat], NEW a, NEW n \in Nat
    PROVE  [u EXCEPT ![a] = AtLeast0(@ - n)] \in [AccountType -> Nat]
<1>1. a \in AccountType => AtLeast0(u[a] - n) \in Nat
  BY DEF AtLeast0
<1> QED
  BY <1>1

\* One job is charged n units less, which are returned to the row of its account.
LEMMA OneJobQuota ==
    ASSUME NEW f \in [Job -> JobRow], CountedIn(f),
           NEW g \in [Job -> JobRow], CountedIn(g),
           NEW j \in Job, \A k \in Job \ {j} : g[k] = f[k],
           f[j].state # "absent", g[j].state # "absent", g[j].day = f[j].day,
           NEW n \in Nat, WeightIn(g, j) = WeightIn(f, j) - n,
           NEW u \in [AccountType -> Nat], NEW s \in [AccountType -> Nat], NEW t,
           QuotaIn(f, u, s, t)
    PROVE  LET v == [u EXCEPT ![AccountIn(f, j)] = AtLeast0(@ - n)] IN
           v \in [AccountType -> Nat] /\ QuotaIn(g, v, s, t)
<1> DEFINE v == [u EXCEPT ![AccountIn(f, j)] = AtLeast0(@ - n)]
<1>1. v \in [AccountType -> Nat]
  BY ClampType
<1>2. SUFFICES ASSUME NEW a \in AccountType, a[1] >= t - Retention
               PROVE  v[a] = s[a] + Cardinality(ChargesIn(g, a))
  BY <1>1 DEF QuotaIn, AccountType
<1> DEFINE c == Cardinality(ChargesIn(f, a))
           d == Cardinality(ChargesIn(g, a))
           x == WeightIn(f, j)
           y == WeightIn(g, j)
<1>3. u[a] = s[a] + c
  BY <1>2 DEF QuotaIn, AccountType
<1>4. /\ c \in Nat
      /\ d = c - (IF j \in HoldersIn(f, a) THEN x ELSE 0)
               + (IF j \in HoldersIn(g, a) THEN y ELSE 0)
      /\ j \in HoldersIn(f, a) => x <= c
  <2> HIDE DEF AtLeast0, v
  <2> QED
    BY ChangeOne
<1>5. /\ j \in HoldersIn(f, a) <=> a = AccountIn(f, j)
      /\ j \in HoldersIn(g, a) <=> a = AccountIn(f, j)
  BY DEF HoldersIn, AccountIn
<1>6. x \in Nat /\ y \in Nat /\ y = x - n
  BY WeightType
<1>7. u[a] \in Nat /\ s[a] \in Nat
  BY DEF AccountType
<1>8. CASE a = AccountIn(f, j)
  <2>1. v[a] = AtLeast0(u[a] - n)
    BY <1>8
  <2>2. d = c - x + y /\ x <= c
    BY <1>4, <1>5, <1>8
  <2> HIDE DEF c, d, x, y, v
  <2>3. d = c - n /\ n <= c
    BY <1>4, <1>6, <2>2
  <2>4. v[a] = s[a] + d
    BY <1>3, <1>4, <1>7, <2>1, <2>3 DEF AtLeast0
  <2> QED
    BY <2>4 DEF d, v
<1>9. CASE a # AccountIn(f, j)
  <2>1. v[a] = u[a]
    BY <1>9
  <2>2. d = c - 0 + 0
    BY <1>4, <1>5, <1>9
  <2> HIDE DEF c, d, v
  <2>3. v[a] = s[a] + d
    BY <1>3, <1>4, <2>1, <2>2
  <2> QED
    BY <2>3 DEF d, v
<1> QED
  BY <1>8, <1>9
-----------------------------------------------------------------------------
(* The invariant, of any state *)

\* The conjuncts of BatchInv about one job: its row, its slices, the units reserved.
EndIn(sl, i) == IF i = 0 THEN 0 ELSE sl[i].first + sl[i].count

CountOK(row, sl, u) ==
    /\ row.state = "absent" => row = NoRow /\ sl = <<>>
    /\ row.committed <= row.completed
    /\ row.completed <= u

TilesOK(row, sl, u) ==
    /\ \A i \in DOMAIN sl : sl[i].from = EndIn(sl, i - 1) /\ sl[i].first = EndIn(sl, i - 1)
    /\ EndIn(sl, Len(sl)) = row.completed
    /\ IsActive(row) => u - row.completed > 0
    /\ row.state = "done" => u - row.completed = 0

SumOK(row, u) ==
    row.state # "absent" =>
        /\ row.committed + row.released <= u
        /\ row.state # "cancelled" =>
             row.committed + row.released
               + (IF IsActive(row) THEN u - row.completed ELSE 0) = u

RowOK(row, sl, u) == CountOK(row, sl, u) /\ TilesOK(row, sl, u) /\ SumOK(row, u)

JobsOK(f, sl) ==
    /\ f \in [Job -> JobRow]
    /\ sl \in [Job -> Seq(SliceRow)]
    /\ \A j \in Job : RowOK(f[j], sl[j], UnitsOf(j))

HoldsIn(x, f, w) == x # Idle /\ f[x.job].state = "running" /\ f[x.job].owner = w

LeaseOK(x, f, w) ==
    x # Idle =>
        /\ x.count > 0
        /\ HoldsIn(x, f, w) => /\ x.from = f[x.job].completed
                               /\ x.count <= UnitsOf(x.job) - f[x.job].completed

LeasesOK(h, f) == \A w \in Worker : LeaseOK(h[w], f, w)

TableType == [AccountType -> Nat]

\* BatchInv, put so that each step changes few of its conjuncts.
BatchForm ==
    /\ today \in Day /\ used \in TableType /\ spent \in TableType
    /\ ahead \subseteq Job \X Job
    /\ worker \in [Worker -> WorkerJob]
    /\ JobsOK(job, slices)
    /\ LeasesOK(worker, job)
    /\ QuotaIn(job, used, spent, today)

LEMMA BatchNow == BatchInv <=> BatchForm
<1>1. TypeOK <=> /\ today \in Day /\ used \in TableType /\ spent \in TableType
                 /\ ahead \subseteq Job \X Job
                 /\ worker \in [Worker -> WorkerJob]
                 /\ job \in [Job -> JobRow] /\ slices \in [Job -> Seq(SliceRow)]
  BY DEF TypeOK, TableType, AccountType
<1>2. JobsAreCounted <=> \A j \in Job : CountOK(job[j], slices[j], UnitsOf(j))
  BY DEF JobsAreCounted, CountOK
<1>3. ChunksTileTheRequest <=> \A j \in Job : TilesOK(job[j], slices[j], UnitsOf(j))
  BY DEF ChunksTileTheRequest, TilesOK, IsActive, End, EndIn, Remaining
<1>4. ASSUME job \in [Job -> JobRow]
      PROVE  UnitsAddUpUnlessCancelled <=> \A j \in Job : SumOK(job[j], UnitsOf(j))
  <2>1. \A j \in Job : j \in InState({"queued", "running"} \cup Ended)
                         <=> job[j].state # "absent"
    BY <1>4 DEF InState, JobRow, Ended
  <2>2. \A j \in Job : j \in Active <=> IsActive(job[j])
    BY DEF Active, InState, IsActive
  <2>3. InState({"queued", "running"} \cup Ended) \subseteq Job
    BY DEF InState
  <2> QED
    BY <2>1, <2>2, <2>3 DEF UnitsAddUpUnlessCancelled, SumOK, Remaining
<1>5. LeasesAreCurrent <=> LeasesOK(worker, job)
  BY DEF LeasesAreCurrent, LeasesOK, LeaseOK, HoldsIn, Holds, Remaining
<1> QED
  BY <1>1, <1>2, <1>3, <1>4, <1>5, QuotaNow DEF BatchInv, BatchForm, JobsOK, RowOK

\* The parts of the invariant that the lemmas about quotas ask for.
LEMMA FormFacts ==
    ASSUME BatchForm
    PROVE  /\ job \in [Job -> JobRow] /\ CountedIn(job)
           /\ used \in TableType /\ spent \in TableType
           /\ today \in Nat
           /\ \A j \in Job : RowOK(job[j], slices[j], UnitsOf(j))
BY BatchesAssumption DEF BatchForm, JobsOK, RowOK, CountOK, CountedIn, Day
-----------------------------------------------------------------------------
(* The steps that leave the jobs alone *)

LEMMA SpendStep ==
    ASSUME BatchForm, NEW s \in Subject, NEW n \in Nat, Spend(s, n)
    PROVE  BatchForm'
<1> DEFINE b == <<today, s>>
<1>1. PICK rows \in {used, Pruned} : used' = [rows EXCEPT ![b] = @ + n]
  BY DEF Spend
<1>2. spent' = [spent EXCEPT ![b] = @ + n]
      /\ UNCHANGED <<today, job, ahead, slices, worker>>
  BY DEF Spend
<1>3. b \in AccountType
  BY DEF BatchForm, AccountType
<1>4. rows \in TableType
      /\ \A a \in AccountType : a[1] >= today - Retention => rows[a] = used[a]
  BY BatchesAssumption DEF BatchForm, Pruned, TableType, AccountType, Day
<1>5. used' \in TableType /\ spent' \in TableType
  BY <1>1, <1>2, <1>3, <1>4 DEF BatchForm, TableType
<1>6. QuotaIn(job', used', spent', today')
  <2> SUFFICES ASSUME NEW a \in AccountType, a[1] >= today - Retention
               PROVE  used'[a] = spent'[a] + Cardinality(ChargesIn(job, a))
    BY <1>2 DEF QuotaIn, AccountType
  <2> DEFINE c == Cardinality(ChargesIn(job, a))
  <2>1. used[a] = spent[a] + c /\ rows[a] = used[a]
    BY <1>4 DEF BatchForm, QuotaIn, AccountType
  <2>2. c \in Nat /\ spent[a] \in Nat
    BY FormFacts, DropCharges DEF TableType
  <2>3. used'[a] = (IF a = b THEN rows[a] + n ELSE rows[a])
        /\ spent'[a] = (IF a = b THEN spent[a] + n ELSE spent[a])
    BY <1>1, <1>2, <1>4 DEF BatchForm, TableType
  <2> HIDE DEF c, b
  <2>4. used'[a] = spent'[a] + c
    BY <2>1, <2>2, <2>3
  <2> QED
    BY <2>4 DEF c
<1> QED
  BY <1>2, <1>5, <1>6 DEF BatchForm

LEMMA RefuseStep ==
    ASSUME BatchForm, NEW s \in Subject, Refuse(s)
    PROVE  BatchForm'
<1>1. used' = Pruned /\ UNCHANGED <<today, job, ahead, slices, worker, spent>>
  BY DEF Refuse
<1>2. used' \in TableType
      /\ \A a \in AccountType : a[1] >= today - Retention => used'[a] = used[a]
  BY <1>1, BatchesAssumption DEF BatchForm, Pruned, TableType, AccountType, Day
<1> QED
  BY <1>1, <1>2 DEF BatchForm, QuotaIn, AccountType

LEMMA MidnightStep ==
    ASSUME BatchForm, Midnight
    PROVE  BatchForm'
<1>1. today' = today + 1 /\ today < MaxDay
      /\ UNCHANGED <<used, job, ahead, slices, worker, spent>>
  BY DEF Midnight
<1>2. today' \in Day
  BY <1>1, BatchesAssumption DEF BatchForm, Day
<1>3. \A a \in Day \X Subject : a[1] >= today' - Retention => a[1] >= today - Retention
  BY <1>1, BatchesAssumption DEF BatchForm, Day
<1> QED
  BY <1>1, <1>2, <1>3 DEF BatchForm, QuotaIn

LEMMA WorkerGoesIdle ==
    ASSUME BatchForm, NEW w \in Worker, worker' = [worker EXCEPT ![w] = Idle],
           UNCHANGED <<today, used, job, ahead, slices, spent>>
    PROVE  BatchForm'
<1>1. worker' \in [Worker -> WorkerJob]
  BY DEF BatchForm, WorkerJob
<1>2. LeasesOK(worker', job')
  BY DEF BatchForm, LeasesOK, LeaseOK
<1> QED
  BY <1>1, <1>2 DEF BatchForm
-----------------------------------------------------------------------------
(* The steps that change one job *)

\* A job that is there moves on, n of its units are returned.
LEMMA OneJobStep ==
    ASSUME BatchForm, NEW j \in Job, NEW row \in JobRow, NEW sl \in Seq(SliceRow),
           job[j].state # "absent", row.state # "absent", row.day = job[j].day,
           RowOK(row, sl, UnitsOf(j)),
           NEW n \in Nat, Weight(row, UnitsOf(j)) = Weight(job[j], UnitsOf(j)) - n,
           job' = [job EXCEPT ![j] = row], slices' = [slices EXCEPT ![j] = sl],
           used' = Returned(Account(j), n), spent' = spent, today' = today
    PROVE  /\ used' \in TableType
           /\ JobsOK(job', slices')
           /\ QuotaIn(job', used', spent', today')
<1> DEFINE g == [job EXCEPT ![j] = row]
<1>1. /\ job \in [Job -> JobRow] /\ CountedIn(job)
      /\ used \in TableType /\ spent \in TableType
  BY FormFacts
<1>2. g \in [Job -> JobRow] /\ g[j] = row /\ \A k \in Job \ {j} : g[k] = job[k]
  BY <1>1
<1>3. JobsOK(job', slices')
  <2>1. slices' \in [Job -> Seq(SliceRow)]
    BY DEF BatchForm, JobsOK
  <2>2. \A k \in Job : RowOK(job'[k], slices'[k], UnitsOf(k))
    <3> TAKE k \in Job
    <3>1. CASE k = j
      BY <1>2, <3>1 DEF BatchForm, JobsOK
    <3>2. CASE k # j
      BY <1>2, <3>2 DEF BatchForm, JobsOK
    <3> QED
      BY <3>1, <3>2
  <2> QED
    BY <1>2, <2>1, <2>2 DEF JobsOK
<1>4. CountedIn(g)
  BY <1>3 DEF JobsOK, RowOK, CountOK, CountedIn
<1>5. WeightIn(g, j) = WeightIn(job, j) - n
  BY <1>2 DEF WeightIn
<1>6. QuotaIn(job, used, spent, today)
  BY DEF BatchForm
<1> DEFINE v == [used EXCEPT ![AccountIn(job, j)] = AtLeast0(@ - n)]
<1>7. g[j].state # "absent" /\ g[j].day = job[j].day
  BY <1>2
<1>8. v \in TableType /\ QuotaIn(g, v, spent, today)
  <2> HIDE DEF g
  <2>1. used \in [AccountType -> Nat] /\ spent \in [AccountType -> Nat]
    BY <1>1 DEF TableType
  <2>2. v \in [AccountType -> Nat] /\ QuotaIn(g, v, spent, today)
    BY <1>1, <1>2, <1>4, <1>5, <1>6, <1>7, <2>1, OneJobQuota
  <2> QED
    BY <2>2 DEF TableType
<1>9. used' = v
  BY DEF Returned, AccountIn, Account
<1> QED
  BY <1>3, <1>8, <1>9

\* What a step does to the leases when it takes one job from the workers.
LEMMA JobGivenUp ==
    ASSUME BatchForm, NEW j \in Job, NEW row \in JobRow,
           row.state # "running" \/ (row.owner = job[j].owner /\ row.completed = job[j].completed
                                     /\ job[j].state = "running"),
           job' = [job EXCEPT ![j] = row], NEW h \in [Worker -> WorkerJob],
           \A w \in Worker : h[w] \in {worker[w], Idle}
    PROVE  LeasesOK(h, job')
<1>1. job \in [Job -> JobRow]
  BY FormFacts
<1> SUFFICES ASSUME NEW w \in Worker, h[w] # Idle
             PROVE  LeaseOK(h[w], job', w)
  BY DEF LeasesOK, LeaseOK
<1>2. h[w] = worker[w] /\ LeaseOK(h[w], job, w)
  BY DEF BatchForm, LeasesOK
<1>3. h[w].job \in Job
  BY DEF WorkerJob, Idle
<1>4. CASE h[w].job = j
  BY <1>1, <1>2, <1>3, <1>4 DEF LeaseOK, HoldsIn
<1>5. CASE h[w].job # j
  BY <1>1, <1>2, <1>3, <1>5 DEF LeaseOK, HoldsIn
<1> QED
  BY <1>4, <1>5

\* A job that ends before all its apexes are looked up releases the rest.
ReleasedAs(r, u, st, o, l, c, d) ==
    [r EXCEPT !.state = st, !.cancel = c, !.owner = o, !.live = l, !.ended = d,
              !.released = @ + (u - r.completed)]

LEMMA ReleasedRow ==
    ASSUME NEW r \in JobRow, NEW sl, NEW u \in Nat, RowOK(r, sl, u), IsActive(r),
           NEW st \in {"cancelled", "failed"}, NEW o \in {r.owner, NoWorker},
           NEW l \in BOOLEAN, NEW c \in BOOLEAN, NEW d \in Day
    PROVE  LET row == ReleasedAs(r, u, st, o, l, c, d)
           IN /\ row \in JobRow /\ row.state = st /\ row.day = r.day
              /\ RowOK(row, sl, u)
              /\ u - r.completed \in Nat
              /\ Weight(row, u) = Weight(r, u) - (u - r.completed)
<1> DEFINE row == ReleasedAs(r, u, st, o, l, c, d)
<1>1. /\ r.completed \in Nat /\ r.committed \in Nat /\ r.released \in Nat
      /\ r.completed <= u
  BY DEF JobRow, RowOK, CountOK
<1>2. r.released + (u - r.completed) \in Nat
  BY <1>1
<1>3. o \in Worker \cup {NoWorker}
  BY DEF JobRow
<1>4. row \in JobRow
  BY <1>2, <1>3 DEF JobRow, Ended, ReleasedAs
<1>5. /\ row.state = st /\ row.completed = r.completed /\ row.committed = r.committed
      /\ row.day = r.day
      /\ row.released = r.released + (u - r.completed)
  BY DEF JobRow, ReleasedAs
<1> HIDE DEF row
<1>6. ~IsActive(row) /\ row.state # "absent" /\ row.state # "done" /\ r.state # "absent"
  BY <1>5 DEF IsActive
<1>7. RowOK(row, sl, u)
  <2>1. CountOK(row, sl, u)
    BY <1>5, <1>6 DEF RowOK, CountOK
  <2>2. TilesOK(row, sl, u)
    BY <1>5, <1>6 DEF RowOK, TilesOK
  <2>3. SumOK(row, u)
    BY <1>1, <1>5, <1>6 DEF RowOK, SumOK, IsActive
  <2> QED
    BY <2>1, <2>2, <2>3 DEF RowOK
<1>8. Weight(row, u) = Weight(r, u) - (u - r.completed)
  BY <1>1, <1>5, <1>6 DEF Weight
<1> QED
  BY <1>1, <1>4, <1>5, <1>7, <1>8 DEF row

\* The rows that cancel_record_batch and fail_record_batch write.
LEMMA CancelledRow ==
    ASSUME NEW r \in JobRow, NEW u, NEW d
    PROVE  ReleasedAs(r, u, "cancelled", r.owner, r.live, TRUE, d) =
             [r EXCEPT !.state = "cancelled", !.cancel = TRUE, !.ended = d,
                       !.released = @ + (u - r.completed)]
BY DEF JobRow, ReleasedAs

\* A job keeps its counts and is still at work: its cancellation is asked for, or its
\* lease runs out.
LEMMA MarkStep ==
    ASSUME BatchForm, NEW j \in Job, job[j].state = "running",
           NEW c \in BOOLEAN, NEW l \in BOOLEAN,
           job' = [job EXCEPT ![j] = [job[j] EXCEPT !.cancel = c, !.live = l]],
           UNCHANGED <<today, used, ahead, slices, worker, spent>>
    PROVE  BatchForm'
<1> DEFINE u == UnitsOf(j)
           row == [job[j] EXCEPT !.cancel = c, !.live = l]
<1>1. /\ job \in [Job -> JobRow] /\ used \in TableType
      /\ RowOK(job[j], slices[j], u)
  BY FormFacts
<1>2. slices \in [Job -> Seq(SliceRow)] /\ worker \in [Worker -> WorkerJob]
  BY DEF BatchForm, JobsOK
<1>3. row \in JobRow
  BY <1>1 DEF JobRow
<1>4. /\ row.state = "running" /\ row.completed = job[j].completed
      /\ row.committed = job[j].committed /\ row.released = job[j].released
      /\ row.day = job[j].day /\ row.owner = job[j].owner
  BY <1>1 DEF JobRow
<1>5. job' = [job EXCEPT ![j] = row]
  OBVIOUS
<1> HIDE DEF row
<1>6. RowOK(row, slices[j], u)
  <2>1. CountOK(row, slices[j], u)
    BY <1>1, <1>4 DEF RowOK, CountOK
  <2>2. TilesOK(row, slices[j], u)
    BY <1>1, <1>4 DEF RowOK, TilesOK, IsActive
  <2>3. SumOK(row, u)
    BY <1>1, <1>4 DEF RowOK, SumOK, IsActive
  <2> QED
    BY <2>1, <2>2, <2>3 DEF RowOK
<1>7. Weight(row, u) = Weight(job[j], u) - 0
  <2>1. Weight(row, u) = Weight(job[j], u)
    BY <1>4 DEF Weight, IsActive
  <2>2. Weight(job[j], u) \in Nat
    BY FormFacts, WeightType DEF WeightIn
  <2> QED
    BY <2>1, <2>2
<1>8. used' = Returned(Account(j), 0)
  <2>1. \A a \in AccountType : AtLeast0(used[a] - 0) = used[a]
    BY <1>1 DEF AtLeast0, TableType
  <2> QED
    BY <1>1, <2>1 DEF Returned, TableType
<1>9. slices' = [slices EXCEPT ![j] = slices[j]]
  BY <1>2
<1>10. /\ used' \in TableType
       /\ JobsOK(job', slices')
       /\ QuotaIn(job', used', spent', today')
  BY <1>1, <1>2, <1>3, <1>4, <1>5, <1>6, <1>7, <1>8, <1>9, OneJobStep
<1>11. LeasesOK(worker, job')
  BY <1>2, <1>3, <1>4, <1>5, JobGivenUp
<1> QED
  BY <1>10, <1>11 DEF BatchForm

\* A job ends early, in one of the ways of ReleasedRow.
LEMMA ReleaseStep ==
    ASSUME BatchForm, NEW j \in Job, IsActive(job[j]),
           NEW st \in {"cancelled", "failed"}, NEW o \in {job[j].owner, NoWorker},
           NEW l \in BOOLEAN, NEW c \in BOOLEAN,
           job' = [job EXCEPT ![j] =
                     ReleasedAs(job[j], UnitsOf(j), st, o, l, c, today)],
           used' = Returned(Account(j), Remaining(j)),
           ahead' \subseteq Job \X Job,
           worker' \in [Worker -> WorkerJob],
           \A w \in Worker : worker'[w] \in {worker[w], Idle},
           UNCHANGED <<today, slices, spent>>
    PROVE  BatchForm'
<1> DEFINE u == UnitsOf(j)
           row == ReleasedAs(job[j], u, st, o, l, c, today)
           n == u - job[j].completed
<1>1. job[j] \in JobRow /\ u \in Nat /\ RowOK(job[j], slices[j], u) /\ today \in Day
  BY FormFacts, JobFacts DEF BatchForm
<1>2. /\ row \in JobRow /\ row.state = st /\ row.day = job[j].day
      /\ RowOK(row, slices[j], u)
      /\ n \in Nat
      /\ Weight(row, u) = Weight(job[j], u) - n
  BY <1>1, ReleasedRow
<1>3. job' = [job EXCEPT ![j] = row] /\ used' = Returned(Account(j), n)
  BY DEF Remaining
<1>4. slices[j] \in Seq(SliceRow) /\ slices' = [slices EXCEPT ![j] = slices[j]]
  BY DEF BatchForm, JobsOK
<1> HIDE DEF row, n
<1>5. job[j].state # "absent" /\ row.state # "absent" /\ row.state # "running"
  BY <1>2 DEF IsActive
<1>6. /\ used' \in TableType
      /\ JobsOK(job', slices')
      /\ QuotaIn(job', used', spent', today')
  <2>1. spent' = spent /\ today' = today
        /\ job \in [Job -> JobRow] /\ slices \in [Job -> Seq(SliceRow)] /\ used \in TableType
    BY DEF BatchForm, JobsOK
  <2> HIDE DEF u
  <2>2. RowOK(row, slices[j], UnitsOf(j)) /\ Weight(row, UnitsOf(j)) = Weight(job[j], UnitsOf(j)) - n
    BY <1>2 DEF u
  <2> QED
    <3>1. row \in JobRow /\ slices[j] \in Seq(SliceRow) /\ row.day = job[j].day
      BY <1>2, <1>4
    <3>2. job[j].state # "absent" /\ row.state # "absent"
      BY <1>5
    <3>3. n \in Nat
      BY <1>2
    <3>4. job' = [job EXCEPT ![j] = row] /\ slices' = [slices EXCEPT ![j] = slices[j]]
      BY <1>3, <1>4
    <3>5. used' = Returned(Account(j), n)
      BY <1>3
    <3> QED
      BY <3>1, <3>2, <3>3, <3>4, <3>5, <2>1, <2>2, OneJobStep, ZenonT(30)
<1>7. LeasesOK(worker', job')
  BY <1>2, <1>3, <1>5, JobGivenUp
<1> QED
  BY <1>6, <1>7 DEF BatchForm

LEMMA CancelStep ==
    ASSUME BatchForm, NEW j \in Job, Cancel(j)
    PROVE  BatchForm'
<1>1. job[j] \in JobRow /\ worker \in [Worker -> WorkerJob] /\ ahead \subseteq Job \X Job
  BY FormFacts DEF BatchForm
<1>2. CASE job[j].state = "queued"
  <2>1. job' = [job EXCEPT ![j] = ReleasedAs(job[j], UnitsOf(j), "cancelled",
                                             job[j].owner, job[j].live, TRUE, today)]
    BY <1>1, <1>2, CancelledRow DEF Cancel, Remaining
  <2>2. /\ used' = Returned(Account(j), Remaining(j))
        /\ ahead' \subseteq Job \X Job
        /\ UNCHANGED <<today, slices, worker, spent>>
    BY <1>1, <1>2 DEF Cancel, Without
  <2>3. IsActive(job[j]) /\ job[j].live \in BOOLEAN
    BY <1>1, <1>2 DEF IsActive, JobRow
  <2> QED
    BY <1>1, <2>1, <2>2, <2>3, ReleaseStep
<1>3. CASE job[j].state = "running"
  <2>1. job' = [job EXCEPT ![j] = [job[j] EXCEPT !.cancel = TRUE, !.live = job[j].live]]
    BY <1>1, <1>3 DEF Cancel, JobRow
  <2>2. UNCHANGED <<today, used, ahead, slices, worker, spent>> /\ job[j].live \in BOOLEAN
    BY <1>1, <1>3 DEF Cancel, JobRow
  <2> QED
    BY <1>3, <2>1, <2>2, MarkStep
<1> QED
  BY <1>2, <1>3 DEF Cancel

LEMMA ExpiresStep ==
    ASSUME BatchForm, NEW j \in Job, LeaseExpires(j)
    PROVE  BatchForm'
<1>1. job[j] \in JobRow
  BY FormFacts
<1>2. job' = [job EXCEPT ![j] = [job[j] EXCEPT !.cancel = job[j].cancel, !.live = FALSE]]
  BY <1>1 DEF LeaseExpires, JobRow
<1>3. job[j].cancel \in BOOLEAN /\ job[j].state = "running"
      /\ UNCHANGED <<today, used, ahead, slices, worker, spent>>
  BY <1>1 DEF LeaseExpires, JobRow
<1> QED
  BY <1>2, <1>3, MarkStep

\* The job a worker has, if it has one.
LEMMA WorkerFacts ==
    ASSUME BatchForm, NEW w \in Worker, worker[w] # Idle
    PROVE  /\ worker[w].job \in Job /\ worker[w].from \in Nat /\ worker[w].count \in Nat
           /\ Holds(w) => LET j == worker[w].job IN
                /\ job[j].state = "running"
                /\ worker[w].from = job[j].completed
                /\ worker[w].count <= UnitsOf(j) - job[j].completed
BY DEF BatchForm, LeasesOK, LeaseOK, HoldsIn, Holds, WorkerJob, Idle

LEMMA FailStep ==
    ASSUME BatchForm, NEW w \in Worker, Fail(w)
    PROVE  BatchForm'
<1>1. worker[w] # Idle /\ Holds(w)
  BY DEF Fail, Holds
<1>2. PICK j \in Job : j = worker[w].job /\ job[j].state = "running"
  BY <1>1, WorkerFacts
<1>3. job[j] \in JobRow /\ worker \in [Worker -> WorkerJob] /\ ahead \subseteq Job \X Job
  BY <1>2, FormFacts DEF BatchForm
<1>4. job' = [job EXCEPT ![j] = ReleasedAs(job[j], UnitsOf(j), "failed", NoWorker,
                                           FALSE, job[j].cancel, today)]
  <2>1. job' = [job EXCEPT ![j] =
                  [job[j] EXCEPT !.state = "failed",
                                 !.released = @ + (UnitsOf(j) - job[j].completed),
                                 !.owner = NoWorker, !.live = FALSE, !.ended = today]]
    BY <1>2 DEF Fail, Remaining
  <2>2. ReleasedAs(job[j], UnitsOf(j), "failed", NoWorker, FALSE, job[j].cancel, today) =
          [job[j] EXCEPT !.state = "failed",
                         !.released = @ + (UnitsOf(j) - job[j].completed),
                         !.owner = NoWorker, !.live = FALSE, !.ended = today]
    BY <1>3 DEF ReleasedAs, JobRow
  <2> QED
    BY <2>1, <2>2, Zenon
<1>5. /\ used' = Returned(Account(j), Remaining(j))
      /\ worker' = [worker EXCEPT ![w] = Idle]
      /\ UNCHANGED <<today, ahead, slices, spent>>
  BY <1>2 DEF Fail
<1>6. /\ worker' \in [Worker -> WorkerJob]
      /\ \A v \in Worker : worker'[v] \in {worker[v], Idle}
  BY <1>3, <1>5 DEF WorkerJob
<1>7. IsActive(job[j]) /\ job[j].cancel \in BOOLEAN
  BY <1>2, <1>3 DEF IsActive, JobRow
<1> QED
  BY <1>2, <1>3, <1>4, <1>5, <1>6, <1>7, ReleaseStep

\* The row that finish_record_batch_slice writes for a slice of m apexes, f of them
\* failed.
FinishedAs(r, m, f, st, left, d) ==
    [r EXCEPT !.state = st, !.completed = @ + m, !.failed = @ + f + left,
              !.committed = @ + m - f, !.released = @ + f, !.owner = NoWorker,
              !.live = FALSE, !.ended = IF st = "queued" THEN @ ELSE d]

\* The chunks with that slice.
ChunksAnd(sl, r, m) ==
    Append(sl, [first |-> r.completed, from |-> r.completed, count |-> m])

\* What may become of the job, and how many apexes a cancellation leaves.
Outcome(r, u, m, st, left) ==
    \/ st = "cancelled" /\ left = u - r.completed - m
    \/ st = "done" /\ left = 0 /\ u - r.completed <= m
    \/ st = "queued" /\ left = 0 /\ ~(u - r.completed <= m)

LEMMA FinishedRow ==
    ASSUME NEW r \in JobRow, NEW sl \in Seq(SliceRow), NEW u \in Nat, RowOK(r, sl, u),
           r.state = "running",
           NEW m \in Nat, m > 0, m <= u - r.completed,
           NEW f \in Nat, f <= m, NEW d \in Day,
           NEW st \in {"cancelled", "done", "queued"}, NEW left \in Nat,
           Outcome(r, u, m, st, left)
    PROVE  LET row == FinishedAs(r, m, f, st, left, d)
               next == ChunksAnd(sl, r, m)
           IN /\ row \in JobRow /\ row.state \notin {"absent", "running"}
              /\ row.day = r.day
              /\ next \in Seq(SliceRow)
              /\ RowOK(row, next, u)
              /\ f + left \in Nat
              /\ Weight(row, u) = Weight(r, u) - (f + left)
<1> DEFINE row == FinishedAs(r, m, f, st, left, d)
           new == [first |-> r.completed, from |-> r.completed, count |-> m]
           next == Append(sl, new)
<1>1. PICK a \in Nat, b \in Nat, c \in Nat, e \in Nat :
           /\ r.completed = a /\ r.committed = b /\ r.released = c /\ r.failed = e
           /\ a <= u /\ b <= a /\ r.ended \in Day
  BY DEF JobRow, RowOK, CountOK
<1>2. /\ m <= u - a
      /\ \/ st = "cancelled" /\ left = u - a - m
         \/ st = "done" /\ left = 0 /\ u - a <= m
         \/ st = "queued" /\ left = 0 /\ ~(u - a <= m)
  BY <1>1 DEF Outcome
<1>3. row \in JobRow
  <2>1. r.committed + m - f \in Nat
    BY <1>1
  <2>2. r.completed + m \in Nat /\ r.failed + f + left \in Nat /\ r.released + f \in Nat
    BY <1>1, <1>2
  <2>3. (IF st = "queued" THEN r.ended ELSE d) \in Day
    BY <1>1
  <2>4. st \in {"absent", "queued", "running"} \cup Ended
    BY <1>2 DEF Ended
  <2> QED
    BY <2>1, <2>2, <2>3, <2>4 DEF JobRow, FinishedAs
<1>4. /\ row.state = st /\ row.completed = r.completed + m
      /\ row.committed = r.committed + m - f /\ row.released = r.released + f
      /\ row.day = r.day
  BY DEF JobRow, FinishedAs
<1>5. new \in SliceRow /\ new.first = r.completed /\ new.from = r.completed /\ new.count = m
  BY <1>1 DEF SliceRow
<1> HIDE DEF row, new
<1>6. /\ next \in Seq(SliceRow) /\ Len(next) = Len(sl) + 1 /\ DOMAIN next = 1..(Len(sl) + 1)
      /\ Len(sl) \in Nat /\ DOMAIN sl = 1..Len(sl)
      /\ next[Len(sl) + 1] = new
      /\ \A i \in 1..Len(sl) : next[i] = sl[i]
  BY <1>5
<1> HIDE DEF next
<1>7. CountOK(row, next, u)
  BY <1>1, <1>2, <1>4 DEF CountOK
<1>8. TilesOK(row, next, u)
  <2>1. EndIn(sl, Len(sl)) = r.completed
        /\ \A i \in DOMAIN sl : sl[i].from = EndIn(sl, i - 1) /\ sl[i].first = EndIn(sl, i - 1)
    BY DEF RowOK, TilesOK
  <2>2. \A i \in 0..Len(sl) : EndIn(next, i) = EndIn(sl, i)
    BY <1>6 DEF EndIn
  <2>3. EndIn(next, Len(next)) = row.completed
    BY <1>4, <1>5, <1>6 DEF EndIn
  <2>4. ASSUME NEW i \in DOMAIN next
        PROVE  next[i].from = EndIn(next, i - 1) /\ next[i].first = EndIn(next, i - 1)
    <3>1. CASE i \in 1..Len(sl)
      <4>1. i - 1 \in 0..Len(sl)
        BY <1>6, <3>1
      <4> QED
        BY <1>6, <2>1, <2>2, <3>1, <4>1
    <3>2. CASE i = Len(sl) + 1
      <4>1. i - 1 = Len(sl) /\ Len(sl) \in 0..Len(sl)
        BY <1>6, <3>2
      <4> QED
        BY <1>5, <1>6, <2>1, <2>2, <3>2, <4>1
    <3> QED
      BY <1>6, <3>1, <3>2
  <2>5. IsActive(row) => u - row.completed > 0
    BY <1>1, <1>2, <1>4 DEF IsActive
  <2>6. row.state = "done" => u - row.completed = 0
    BY <1>1, <1>2, <1>4
  <2> QED
    BY <2>3, <2>4, <2>5, <2>6 DEF TilesOK
<1>9. SumOK(row, u)
  <2>1. b + c + (u - a) = u
    BY <1>1 DEF RowOK, SumOK, IsActive
  <2>5. row.committed = b + m - f /\ row.released = c + f /\ row.completed = a + m
    BY <1>1, <1>4
  <2>2. CASE st = "cancelled"
    BY <1>2, <1>4, <2>1, <2>2, <2>5 DEF SumOK
  <2>3. CASE st = "done"
    BY <1>2, <1>4, <2>1, <2>3, <2>5 DEF SumOK, IsActive
  <2>4. CASE st = "queued"
    BY <1>2, <1>4, <2>1, <2>4, <2>5 DEF SumOK, IsActive
  <2> QED
    BY <1>2, <2>2, <2>3, <2>4
<1>10. Weight(row, u) = Weight(r, u) - (f + left)
  <2>1. Weight(r, u) = b + (u - a)
    BY <1>1 DEF Weight, IsActive
  <2>5. row.committed = b + m - f /\ row.completed = a + m
    BY <1>1, <1>4
  <2>2. CASE st = "cancelled"
    BY <1>2, <1>4, <2>1, <2>2, <2>5 DEF Weight, IsActive
  <2>3. CASE st = "done"
    BY <1>2, <1>4, <2>1, <2>3, <2>5 DEF Weight, IsActive
  <2>4. CASE st = "queued"
    BY <1>2, <1>4, <2>1, <2>4, <2>5 DEF Weight, IsActive
  <2> QED
    BY <1>2, <2>2, <2>3, <2>4
<1>11. f + left \in Nat /\ row.state \notin {"absent", "running"}
  BY <1>2, <1>4
<1> QED
  BY <1>3, <1>4, <1>6, <1>7, <1>8, <1>9, <1>10, <1>11 DEF RowOK, row, next, new, ChunksAnd

LEMMA FinishSliceStep ==
    ASSUME BatchForm, NEW w \in Worker, worker[w] # Idle,
           NEW m \in Nat, m > 0, m <= worker[w].count, NEW f \in Nat, f <= m,
           FinishSlice(w, m, f)
    PROVE  BatchForm'
<1>1. Holds(w)
  BY DEF FinishSlice
<1>2. PICK j \in Job : /\ j = worker[w].job /\ job[j].state = "running"
                       /\ worker[w].from = job[j].completed
                       /\ worker[w].count \in Nat
                       /\ worker[w].count <= UnitsOf(j) - job[j].completed
  BY <1>1, WorkerFacts
<1>3. /\ job \in [Job -> JobRow] /\ job[j] \in JobRow /\ RowOK(job[j], slices[j], UnitsOf(j))
      /\ UnitsOf(j) \in Nat /\ today \in Day
      /\ slices \in [Job -> Seq(SliceRow)] /\ slices[j] \in Seq(SliceRow)
      /\ worker \in [Worker -> WorkerJob] /\ used \in TableType
      /\ ahead \subseteq Job \X Job
  BY FormFacts, JobFacts DEF BatchForm, JobsOK
<1> DEFINE left == IF job[j].cancel THEN AtLeast0(Remaining(j) - m) ELSE 0
           st == IF job[j].cancel THEN "cancelled"
                 ELSE IF Remaining(j) <= m THEN "done" ELSE "queued"
           row == FinishedAs(job[j], m, f, st, left, today)
           next == ChunksAnd(slices[j], job[j], m)
<1>4. job' = [job EXCEPT ![j] = row]
  BY <1>2, <1>3 DEF FinishSlice, FinishedAs
<1>5. slices' = [slices EXCEPT ![j] = next]
  BY <1>2, <1>3 DEF FinishSlice, ChunksAnd
<1>6. used' = Returned(Account(j), f + left)
  BY <1>2 DEF FinishSlice
<1>7. /\ worker' = [worker EXCEPT ![w] = Idle]
      /\ today' = today /\ spent' = spent
      /\ ahead' \subseteq Job \X Job
  <2>1. ahead' \in {Joined({j}), ahead}
    BY <1>2 DEF FinishSlice
  <2>2. Joined({j}) \subseteq Job \X Job
    BY <1>3 DEF Joined, Queued, InState
  <2> QED
    BY <1>3, <2>1, <2>2 DEF FinishSlice
<1>8. /\ m <= UnitsOf(j) - job[j].completed
      /\ left \in Nat /\ st \in {"cancelled", "done", "queued"}
      /\ Outcome(job[j], UnitsOf(j), m, st, left)
  <2>1. PICK a \in Nat, u \in Nat : a = job[j].completed /\ u = UnitsOf(j)
    BY <1>3 DEF JobRow
  <2>2. Remaining(j) = u - a /\ m <= u - a
    BY <1>2, <2>1 DEF Remaining
  <2>3. AtLeast0(Remaining(j) - m) = u - a - m /\ u - a - m \in Nat
    BY <2>2 DEF AtLeast0
  <2>4. CASE job[j].cancel
    BY <2>1, <2>2, <2>3, <2>4 DEF Outcome
  <2>5. CASE ~job[j].cancel
    BY <2>1, <2>2, <2>5 DEF Outcome
  <2> QED
    BY <2>4, <2>5
<1> HIDE DEF left, st
<1>9. /\ row \in JobRow /\ row.state \notin {"absent", "running"}
      /\ row.day = job[j].day
      /\ next \in Seq(SliceRow)
      /\ RowOK(row, next, UnitsOf(j))
      /\ f + left \in Nat
      /\ Weight(row, UnitsOf(j)) = Weight(job[j], UnitsOf(j)) - (f + left)
  <2>1. job[j] \in JobRow /\ slices[j] \in Seq(SliceRow) /\ UnitsOf(j) \in Nat /\ today \in Day
    BY <1>3
  <2>2. RowOK(job[j], slices[j], UnitsOf(j)) /\ job[j].state = "running"
    BY <1>2, <1>3
  <2>3. m <= UnitsOf(j) - job[j].completed
    BY <1>8
  <2>4. left \in Nat /\ st \in {"cancelled", "done", "queued"}
    BY <1>8
  <2>5. Outcome(job[j], UnitsOf(j), m, st, left)
    BY <1>8
  <2> QED
    BY <2>1, <2>2, <2>3, <2>4, <2>5, FinishedRow
<1> HIDE DEF row, next
<1>10. /\ used' \in TableType
       /\ JobsOK(job', slices')
       /\ QuotaIn(job', used', spent', today')
  <2>1. PICK n \in Nat : n = f + left
    BY <1>9
  <2>2. Weight(row, UnitsOf(j)) = Weight(job[j], UnitsOf(j)) - n
    BY <1>9, <2>1
  <2>3. used' = Returned(Account(j), n)
    BY <1>6, <2>1
  <2>4. job[j].state # "absent" /\ row.state # "absent"
    BY <1>2, <1>9
  <2>5. row \in JobRow /\ row.day = job[j].day /\ next \in Seq(SliceRow)
        /\ RowOK(row, next, UnitsOf(j))
    BY <1>9
  <2>6. spent' = spent /\ today' = today
    BY <1>7
  <2> QED
    BY <1>4, <1>5, <2>2, <2>3, <2>4, <2>5, <2>6, OneJobStep, ZenonT(30)
<1>11. worker' \in [Worker -> WorkerJob]
       /\ \A v \in Worker : worker'[v] \in {worker[v], Idle}
  BY <1>3, <1>7 DEF WorkerJob
<1>12. LeasesOK(worker', job')
  BY <1>4, <1>9, <1>11, JobGivenUp
<1> QED
  BY <1>3, <1>7, <1>10, <1>11, <1>12 DEF BatchForm

LEMMA FinishStep ==
    ASSUME BatchForm, NEW w \in Worker, Finish(w)
    PROVE  BatchForm'
<1>1. PICK m \in Halvings(worker[w].count), f \in {0, 1} :
           (f = 1 => m = 1) /\ FinishSlice(w, m, f)
  BY DEF Finish
<1>2. worker[w] # Idle /\ worker[w].count \in Nat
  BY WorkerFacts DEF Finish
<1>3. m \in Nat /\ m > 0 /\ m <= worker[w].count
  BY <1>2 DEF Halvings
<1>4. f \in Nat /\ f <= m
  BY <1>1, <1>3
<1> QED
  BY <1>1, <1>2, <1>3, <1>4, FinishSliceStep

LEMMA NoRowType == NoRow \in JobRow
<1>1. 0 \in Day /\ 0 \in Nat
  BY BatchesAssumption DEF Day
<1> QED
  BY <1>1 DEF JobRow, NoRow

LEMMA NewRow ==
    ASSUME NEW u \in Nat \ {0}, NEW d \in Day
    PROVE  LET row == [NoRow EXCEPT !.state = "queued", !.day = d] IN
           /\ row \in JobRow /\ row.state = "queued" /\ row.day = d
           /\ RowOK(row, <<>>, u) /\ Weight(row, u) = u
<1> DEFINE row == [NoRow EXCEPT !.state = "queued", !.day = d]
<1>1. row \in JobRow
  BY NoRowType DEF JobRow
<1>2. /\ row.state = "queued" /\ row.day = d
      /\ row.completed = 0 /\ row.committed = 0 /\ row.released = 0
  BY DEF NoRow
<1> HIDE DEF row
<1>3. CountOK(row, <<>>, u)
  BY <1>2 DEF CountOK
<1>4. TilesOK(row, <<>>, u)
  BY <1>2 DEF TilesOK, EndIn, IsActive
<1>5. SumOK(row, u) /\ Weight(row, u) = u
  BY <1>2 DEF SumOK, Weight, IsActive
<1> QED
  BY <1>1, <1>2, <1>3, <1>4, <1>5 DEF RowOK, row

LEMMA EnqueueStep ==
    ASSUME BatchForm, NEW j \in Job, Enqueue(j)
    PROVE  BatchForm'
<1> DEFINE s == SubjectOf(j)
           b == <<today, s>>
           row == [NoRow EXCEPT !.state = "queued", !.day = today]
           g == [job EXCEPT ![j] = row]
<1>1. /\ job \in [Job -> JobRow] /\ CountedIn(job)
      /\ used \in TableType /\ spent \in TableType
      /\ RowOK(job[j], slices[j], UnitsOf(j))
  BY FormFacts
<1>2. /\ today \in Day /\ UnitsOf(j) \in Nat \ {0} /\ s \in Subject
      /\ slices \in [Job -> Seq(SliceRow)] /\ worker \in [Worker -> WorkerJob]
      /\ ahead \subseteq Job \X Job
  BY JobFacts DEF BatchForm, JobsOK
<1>3. job[j] = NoRow /\ slices[j] = <<>> /\ job[j].state = "absent"
  BY <1>1 DEF Enqueue, RowOK, CountOK
<1>4. /\ used' = [used EXCEPT ![b] = @ + UnitsOf(j)]
      /\ job' = g
      /\ ahead' = Joined({j})
      /\ UNCHANGED <<today, slices, worker, spent>>
  BY DEF Enqueue
<1>5. /\ row \in JobRow /\ row.state = "queued" /\ row.day = today
      /\ RowOK(row, <<>>, UnitsOf(j)) /\ Weight(row, UnitsOf(j)) = UnitsOf(j)
  BY <1>2, NewRow
<1> HIDE DEF row
<1>6. g \in [Job -> JobRow] /\ g[j] = row /\ \A k \in Job \ {j} : g[k] = job[k]
  BY <1>1, <1>5
<1>7. JobsOK(g, slices)
  <2>1. \A k \in Job : RowOK(g[k], slices[k], UnitsOf(k))
    BY <1>3, <1>5, <1>6, FormFacts
  <2> QED
    BY <1>2, <1>6, <2>1 DEF JobsOK
<1>8. CountedIn(g)
  BY <1>7 DEF JobsOK, RowOK, CountOK, CountedIn
<1>9. LeasesOK(worker, job')
  BY <1>2, <1>4, <1>5, JobGivenUp
<1>10. ahead' \subseteq Job \X Job
  BY <1>2, <1>4 DEF Joined, Queued, InState
<1>11. used' \in TableType
  <2>1. b \in AccountType => used[b] + UnitsOf(j) \in Nat
    BY <1>1, <1>2 DEF TableType
  <2> QED
    BY <1>1, <1>4, <2>1 DEF TableType
<1>12. QuotaIn(g, used', spent, today)
  <2> SUFFICES ASSUME NEW a \in AccountType, a[1] >= today - Retention
               PROVE  used'[a] = spent[a] + Cardinality(ChargesIn(g, a))
    BY DEF QuotaIn, AccountType
  <2> DEFINE c == Cardinality(ChargesIn(job, a))
             d == Cardinality(ChargesIn(g, a))
  <2>1. used[a] = spent[a] + c
    BY DEF BatchForm, QuotaIn, AccountType
  <2>2. j \notin HoldersIn(job, a) /\ (j \in HoldersIn(g, a) <=> a = b)
    BY <1>3, <1>5, <1>6 DEF HoldersIn, AccountIn
  <2>3. WeightIn(g, j) = UnitsOf(j)
    BY <1>5, <1>6 DEF WeightIn
  <2>4. /\ c \in Nat
        /\ d = c - (IF j \in HoldersIn(job, a) THEN WeightIn(job, j) ELSE 0)
                 + (IF j \in HoldersIn(g, a) THEN WeightIn(g, j) ELSE 0)
    <3> HIDE DEF g
    <3> QED
      BY <1>1, <1>6, <1>8, ChangeOne
  <2>5. used[a] \in Nat /\ spent[a] \in Nat
    BY <1>1 DEF TableType
  <2>6. used'[a] = IF a = b THEN used[a] + UnitsOf(j) ELSE used[a]
    BY <1>1, <1>4 DEF TableType
  <2>7. d = c + IF a = b THEN UnitsOf(j) ELSE 0
    <3> HIDE DEF c, d, g, b
    <3> QED
      BY <1>2, <2>2, <2>3, <2>4
  <2> HIDE DEF c, d, g, b
  <2>8. used'[a] = spent[a] + d
    BY <1>2, <2>1, <2>4, <2>5, <2>6, <2>7
  <2> QED
    BY <2>8 DEF d
<1> QED
  BY <1>2, <1>4, <1>7, <1>9, <1>10, <1>11, <1>12 DEF BatchForm
-----------------------------------------------------------------------------
(* The steps that change several jobs *)

\* Jobs that differ in nothing they are charged for have the same charges.
LEMMA SameCharges ==
    ASSUME NEW f, NEW g, NEW a,
           \A k \in Job : /\ f[k].state = "absent" <=> g[k].state = "absent"
                          /\ IsActive(f[k]) <=> IsActive(g[k])
                          /\ f[k].day = g[k].day /\ f[k].completed = g[k].completed
                          /\ f[k].committed = g[k].committed
    PROVE  ChargesIn(f, a) = ChargesIn(g, a)
<1>1. HoldersIn(f, a) = HoldersIn(g, a)
  BY DEF HoldersIn, AccountIn
<1>2. \A k \in HoldersIn(f, a) : ChargedIn(f, k) = ChargedIn(g, k)
  BY DEF HoldersIn, ChargedIn, CommittedIn, LeftIn
<1> QED
  BY <1>1, <1>2 DEF ChargesIn

\* Quota rows that give up the same charges as the jobs.
LEMMA DropQuota ==
    ASSUME NEW f \in [Job -> JobRow], CountedIn(f), NEW g, NEW T,
           \A a \in AccountType : /\ T[a] \subseteq ChargesIn(f, a)
                                  /\ ChargesIn(g, a) = ChargesIn(f, a) \ T[a],
           NEW u \in TableType, NEW s \in TableType, NEW t, QuotaIn(f, u, s, t)
    PROVE  /\ \A a \in AccountType : Cardinality(T[a]) \in Nat
           /\ QuotaIn(g, [a \in AccountType |-> AtLeast0(u[a] - Cardinality(T[a]))], s, t)
           /\ QuotaIn(g, u, [a \in AccountType |-> s[a] + Cardinality(T[a])], t)
<1>1. ASSUME NEW a \in AccountType
      PROVE  /\ Cardinality(T[a]) \in Nat
             /\ Cardinality(ChargesIn(g, a)) =
                  Cardinality(ChargesIn(f, a)) - Cardinality(T[a])
             /\ Cardinality(T[a]) <= Cardinality(ChargesIn(f, a))
             /\ Cardinality(ChargesIn(f, a)) \in Nat
             /\ u[a] \in Nat /\ s[a] \in Nat
  <2>1. T[a] \subseteq ChargesIn(f, a) /\ ChargesIn(g, a) = ChargesIn(f, a) \ T[a]
    BY <1>1
  <2>2. /\ Cardinality(T[a]) \in Nat
        /\ Cardinality(ChargesIn(f, a) \ T[a]) =
             Cardinality(ChargesIn(f, a)) - Cardinality(T[a])
        /\ Cardinality(T[a]) <= Cardinality(ChargesIn(f, a))
        /\ Cardinality(ChargesIn(f, a)) \in Nat
    BY <2>1, DropCharges
  <2>3. u[a] \in Nat /\ s[a] \in Nat
    BY <1>1 DEF TableType
  <2> QED
    BY <2>1, <2>2, <2>3
<1>2. ASSUME NEW a \in AccountType, a[1] >= t - Retention
      PROVE  /\ AtLeast0(u[a] - Cardinality(T[a])) = s[a] + Cardinality(ChargesIn(g, a))
             /\ u[a] = s[a] + Cardinality(T[a]) + Cardinality(ChargesIn(g, a))
  <2>1. u[a] = s[a] + Cardinality(ChargesIn(f, a))
    BY <1>2 DEF QuotaIn, AccountType
  <2>2. PICK c \in Nat, n \in Nat, x \in Nat :
             c = Cardinality(ChargesIn(f, a)) /\ n = Cardinality(T[a]) /\ x = s[a]
    BY <1>1
  <2>3. Cardinality(ChargesIn(g, a)) = c - n /\ n <= c /\ u[a] = x + c
    BY <1>1, <2>1, <2>2
  <2>4. AtLeast0(x + c - n) = x + (c - n) /\ x + c = x + n + (c - n)
    BY <2>3 DEF AtLeast0
  <2> QED
    BY <2>2, <2>3, <2>4
<1> QED
  BY <1>1, <1>2 DEF QuotaIn, AccountType

\* The unit of a charge tells its job.
LEMMA ChargeOwner ==
    ASSUME NEW f, NEW k, NEW x \in ChargedIn(f, k) \cup LeftIn(f, k) \cup CommittedIn(f, k)
    PROVE  x[1] = k
BY DEF ChargedIn, LeftIn, CommittedIn

\* What the recovery makes of each job.
LEMMA RecoveredJobs ==
    ASSUME BatchForm, NEW k \in Job
    PROVE  LET r == Recovered[k] IN
           /\ r \in JobRow
           /\ RowOK(r, slices[k], UnitsOf(k))
           /\ r.day = job[k].day /\ r.completed = job[k].completed
           /\ r.committed = job[k].committed
           /\ r.state = "absent" <=> job[k].state = "absent"
           /\ k \in Abandoned => IsActive(job[k]) /\ ~IsActive(r)
           /\ k \notin Abandoned => (IsActive(r) <=> IsActive(job[k]))
           /\ r.state = "running" => job[k] = r
           /\ k \in Queued \cup (Expired \ Abandoned) => r.state = "queued"
<1> DEFINE r == Recovered[k]
           u == UnitsOf(k)
<1>1. /\ job[k] \in JobRow /\ u \in Nat /\ today \in Day
      /\ RowOK(job[k], slices[k], u)
  BY FormFacts, JobFacts DEF BatchForm
<1>2. CASE k \in Abandoned
  <2>1. /\ k \in Expired /\ job[k].state = "running" /\ k \notin Queued
        /\ r = [job[k] EXCEPT !.state = "cancelled", !.owner = NoWorker, !.live = FALSE,
                              !.ended = today, !.released = u - job[k].committed]
    BY <1>2 DEF Abandoned, Expired, InState, Recovered, Queued
  <2>2. PICK b \in Nat, c \in Nat :
           /\ job[k].committed = b /\ job[k].completed = c
           /\ b <= c /\ c <= u
    BY <1>1 DEF JobRow, RowOK, CountOK
  <2>3. u - b \in Nat
    BY <1>1, <2>2
  <2>4. r \in JobRow
    <3>1. r = [job[k] EXCEPT !.state = "cancelled", !.owner = NoWorker, !.live = FALSE,
                             !.ended = today, !.released = u - b]
      BY <2>1, <2>2
    <3> HIDE DEF r, u
    <3> QED
      BY <1>1, <2>3, <3>1 DEF JobRow, Ended
  <2>5. /\ r.state = "cancelled" /\ r.day = job[k].day /\ r.completed = c
        /\ r.committed = b /\ r.released = u - b
    BY <1>1, <2>1, <2>2 DEF JobRow
  <2> HIDE DEF r, u
  <2>6. IsActive(job[k]) /\ ~IsActive(r)
    BY <2>1, <2>5 DEF IsActive
  <2>7. CountOK(r, slices[k], u) /\ SumOK(r, u)
    BY <1>1, <2>2, <2>5 DEF CountOK, SumOK
  <2>8. TilesOK(r, slices[k], u)
    BY <1>1, <2>2, <2>5, <2>6 DEF RowOK, TilesOK
  <2> QED
    BY <1>2, <2>1, <2>2, <2>4, <2>5, <2>6, <2>7, <2>8 DEF RowOK, r, u
<1>3. CASE k \in Expired \ Abandoned
  <2>1. /\ job[k].state = "running"
        /\ r = [job[k] EXCEPT !.state = "queued", !.owner = NoWorker, !.live = FALSE]
    BY <1>3 DEF Expired, InState, Recovered
  <2>2. r \in JobRow
    BY <1>1, <2>1 DEF JobRow
  <2>3. /\ r.state = "queued" /\ r.day = job[k].day /\ r.completed = job[k].completed
        /\ r.committed = job[k].committed /\ r.released = job[k].released
    BY <1>1, <2>1 DEF JobRow
  <2> HIDE DEF r, u
  <2>4. IsActive(job[k]) /\ IsActive(r)
    BY <2>1, <2>3 DEF IsActive
  <2>5. CountOK(r, slices[k], u)
    BY <1>1, <2>3 DEF RowOK, CountOK
  <2>6. TilesOK(r, slices[k], u)
    BY <1>1, <2>3, <2>4 DEF RowOK, TilesOK
  <2>7. SumOK(r, u)
    BY <1>1, <2>1, <2>3, <2>4 DEF RowOK, SumOK
  <2> QED
    BY <1>3, <2>1, <2>2, <2>3, <2>4, <2>5, <2>6, <2>7 DEF RowOK, r, u
<1>4. CASE k \notin Expired
  <2>1. r = job[k] /\ k \notin Abandoned /\ (k \in Queued => job[k].state = "queued")
    BY <1>4 DEF Abandoned, Recovered, Queued, InState
  <2> HIDE DEF r, u
  <2> QED
    BY <1>1, <1>4, <2>1 DEF r, u
<1> QED
  BY <1>2, <1>3, <1>4

\* What the abandoned jobs give back.
GivenUp == [a \in AccountType |->
                UNION {LeftIn(job, j) : j \in {k \in Abandoned : AccountIn(job, k) = a}}]

LEMMA RecoveredCharges ==
    ASSUME BatchForm, NEW a \in AccountType
    PROVE  /\ GivenUp[a] \subseteq ChargesIn(job, a)
           /\ ChargesIn(Recovered, a) = ChargesIn(job, a) \ GivenUp[a]
<1> DEFINE f == job
           g == Recovered
           T == UNION {LeftIn(f, j) : j \in {k \in Abandoned : AccountIn(f, k) = a}}
<1>1. Abandoned \subseteq Job
  BY DEF Abandoned, Expired, InState
<1>2. CountedIn(f) /\ f \in [Job -> JobRow]
  BY FormFacts
<1>3. \A k \in Job : /\ g[k].day = f[k].day
                     /\ LeftIn(g, k) = LeftIn(f, k) /\ CommittedIn(g, k) = CommittedIn(f, k)
                     /\ g[k].state = "absent" <=> f[k].state = "absent"
                     /\ k \in Abandoned => IsActive(f[k]) /\ ~IsActive(g[k])
                     /\ k \notin Abandoned => (IsActive(g[k]) <=> IsActive(f[k]))
  <2> HIDE DEF f, g
  <2>1. \A k \in Job :
          /\ g[k].day = f[k].day /\ g[k].completed = f[k].completed
          /\ g[k].committed = f[k].committed
          /\ g[k].state = "absent" <=> f[k].state = "absent"
          /\ k \in Abandoned => IsActive(f[k]) /\ ~IsActive(g[k])
          /\ k \notin Abandoned => (IsActive(g[k]) <=> IsActive(f[k]))
    BY RecoveredJobs DEF f, g
  <2> QED
    BY <2>1 DEF LeftIn, CommittedIn
<1>4. \A k \in Job : LeftIn(f, k) \cap CommittedIn(f, k) = {}
  <2> TAKE k \in Job
  <2>1. f[k].committed \in Nat /\ f[k].completed \in Nat /\ f[k].committed <= f[k].completed
    BY <1>2 DEF CountedIn, JobRow
  <2> QED
    BY <2>1 DEF LeftIn, CommittedIn
<1> HIDE DEF f, g
<1>5. HoldersIn(g, a) = HoldersIn(f, a)
  BY <1>3 DEF HoldersIn, AccountIn
<1>6. ASSUME NEW k \in Job
      PROVE  /\ k \in Abandoned => /\ ChargedIn(f, k) = CommittedIn(f, k) \cup LeftIn(f, k)
                                   /\ ChargedIn(g, k) = CommittedIn(f, k)
                                   /\ f[k].state # "absent"
             /\ k \notin Abandoned => ChargedIn(g, k) = ChargedIn(f, k)
  BY <1>3 DEF ChargedIn, IsActive
<1>7. HoldersIn(f, a) \subseteq Job
  BY DEF HoldersIn
<1>8. T \subseteq ChargesIn(f, a)
  <2> SUFFICES ASSUME NEW k \in Abandoned, AccountIn(f, k) = a
               PROVE  LeftIn(f, k) \subseteq ChargesIn(f, a)
    OBVIOUS
  <2>1. k \in HoldersIn(f, a) /\ LeftIn(f, k) \subseteq ChargedIn(f, k)
    BY <1>1, <1>6 DEF HoldersIn
  <2> QED
    BY <2>1 DEF ChargesIn
<1>9. ASSUME NEW x \in ChargesIn(g, a)
      PROVE  x \in ChargesIn(f, a) \ T
  <2>1. PICK k \in HoldersIn(f, a) : x \in ChargedIn(g, k)
    BY <1>5, <1>9 DEF ChargesIn
  <2>2. x \in ChargedIn(f, k)
    BY <1>6, <1>7, <2>1
  <2>3. ASSUME NEW m \in Abandoned, x \in LeftIn(f, m) PROVE FALSE
    <3>1. m = k
      BY <2>2, <2>3, ChargeOwner
    <3>2. x \in CommittedIn(f, m)
      BY <1>1, <1>6, <2>1, <3>1
    <3> QED
      BY <1>1, <1>4, <2>3, <3>2
  <2> QED
    BY <2>2, <2>3 DEF ChargesIn
<1>10. ASSUME NEW x \in ChargesIn(f, a), x \notin T
       PROVE  x \in ChargesIn(g, a)
  <2>1. PICK k \in HoldersIn(f, a) : x \in ChargedIn(f, k)
    BY <1>10 DEF ChargesIn
  <2>2. x \in ChargedIn(g, k)
    <3>1. CASE k \in Abandoned
      <4>1. x \notin LeftIn(f, k)
        BY <1>10, <3>1 DEF HoldersIn
      <4> QED
        BY <1>6, <1>7, <2>1, <3>1, <4>1
    <3>2. CASE k \notin Abandoned
      BY <1>6, <1>7, <2>1, <3>2
    <3> QED
      BY <3>1, <3>2
  <2> QED
    BY <1>5, <2>2 DEF ChargesIn
<1>11. GivenUp[a] = T
  BY DEF GivenUp, f
<1> HIDE DEF T
<1> QED
  BY <1>8, <1>9, <1>10, <1>11 DEF f, g

LEMMA RecoveredForm ==
    ASSUME BatchForm
    PROVE  /\ JobsOK(Recovered, slices)
           /\ ReturnedByAbandoned \in TableType
           /\ QuotaIn(Recovered, ReturnedByAbandoned, spent, today)
<1>1. JobsOK(Recovered, slices)
  <2>1. Recovered \in [Job -> JobRow]
    <3>1. \A k \in Job : Recovered[k] \in JobRow
      BY RecoveredJobs
    <3>2. Recovered = [k \in Job |-> Recovered[k]]
      BY DEF Recovered
    <3> QED
      BY <3>1, <3>2
  <2>2. \A k \in Job : RowOK(Recovered[k], slices[k], UnitsOf(k))
    BY RecoveredJobs
  <2> QED
    BY <2>1, <2>2 DEF JobsOK, BatchForm
<1>2. ReturnedByAbandoned = [a \in AccountType |-> AtLeast0(used[a] - Cardinality(GivenUp[a]))]
  BY DEF ReturnedByAbandoned, GivenUp, AccountType, Left, LeftIn, Account, AccountIn
<1>3. /\ \A a \in AccountType : Cardinality(GivenUp[a]) \in Nat
      /\ QuotaIn(Recovered, [a \in AccountType |-> AtLeast0(used[a] - Cardinality(GivenUp[a]))],
                 spent, today)
  <2>1. /\ \A a \in AccountType : /\ GivenUp[a] \subseteq ChargesIn(job, a)
                                  /\ ChargesIn(Recovered, a) = ChargesIn(job, a) \ GivenUp[a]
        /\ QuotaIn(job, used, spent, today)
    BY RecoveredCharges DEF BatchForm
  <2> QED
    BY <2>1, FormFacts, DropQuota
<1>4. ReturnedByAbandoned \in TableType
  <2>1. ASSUME NEW a \in AccountType PROVE AtLeast0(used[a] - Cardinality(GivenUp[a])) \in Nat
    <3>1. used[a] \in Nat /\ Cardinality(GivenUp[a]) \in Nat
      BY <1>3, FormFacts DEF TableType
    <3> QED
      BY <3>1 DEF AtLeast0
  <2> QED
    BY <1>2, <2>1 DEF TableType
<1> QED
  BY <1>1, <1>2, <1>3, <1>4

LEMMA RecoveredLeases ==
    ASSUME BatchForm, NEW w \in Worker
    PROVE  LeaseOK(worker[w], Recovered, w)
<1> SUFFICES ASSUME worker[w] # Idle
             PROVE  LeaseOK(worker[w], Recovered, w)
  BY DEF LeaseOK
<1> DEFINE j == worker[w].job
<1>1. j \in Job /\ LeaseOK(worker[w], job, w)
  BY WorkerFacts DEF BatchForm, LeasesOK
<1>2. Recovered[j].state = "running" => job[j] = Recovered[j]
  BY <1>1, RecoveredJobs
<1> QED
  BY <1>1, <1>2 DEF LeaseOK, HoldsIn

LEMMA ClaimStep ==
    ASSUME BatchForm, NEW w \in Worker, Claim(w)
    PROVE  BatchForm'
<1>1. /\ worker[w] = Idle
      /\ used' = ReturnedByAbandoned
      /\ UNCHANGED <<today, slices, spent>>
  BY DEF Claim
<1>2. /\ worker \in [Worker -> WorkerJob] /\ ahead \subseteq Job \X Job
      /\ today \in Day /\ spent \in TableType
  BY DEF BatchForm
<1>3. /\ JobsOK(Recovered, slices)
      /\ ReturnedByAbandoned \in TableType
      /\ QuotaIn(Recovered, ReturnedByAbandoned, spent, today)
  BY RecoveredForm
<1>4. OrderAfterRecovery \subseteq Job \X Job
  BY <1>2 DEF OrderAfterRecovery, Joined, Queued, InState, Expired
<1>5. CASE Chosen = {} /\ job' = Recovered /\ ahead' = OrderAfterRecovery /\ UNCHANGED worker
  <2>1. LeasesOK(worker', job')
    BY <1>5, RecoveredLeases DEF LeasesOK
  <2> QED
    BY <1>1, <1>2, <1>3, <1>4, <1>5, <2>1 DEF BatchForm
<1>6. ASSUME NEW j \in Chosen,
             job' = [Recovered EXCEPT ![j] =
                       [@ EXCEPT !.state = "running", !.owner = w, !.live = TRUE]],
             ahead' = Without(OrderAfterRecovery, j),
             worker' = [worker EXCEPT ![w] =
               [pc |-> "lookup", job |-> j, from |-> job[j].completed,
                count |-> Smaller(SliceSize, Remaining(j))]]
      PROVE  BatchForm'
  <2> DEFINE r == Recovered[j]
             row == [r EXCEPT !.state = "running", !.owner = w, !.live = TRUE]
             g == [Recovered EXCEPT ![j] = row]
             u == UnitsOf(j)
             h == [pc |-> "lookup", job |-> j, from |-> job[j].completed,
                   count |-> Smaller(SliceSize, Remaining(j))]
  <2>1. j \in Job /\ j \in Queued \cup (Expired \ Abandoned)
    BY DEF Chosen, Queued, Expired, InState
  <2>2. /\ r \in JobRow /\ RowOK(r, slices[j], u)
        /\ r.completed = job[j].completed /\ r.state = "queued"
    BY <2>1, RecoveredJobs
  <2>3. Recovered \in [Job -> JobRow] /\ slices \in [Job -> Seq(SliceRow)]
    BY <1>3 DEF JobsOK
  <2>4. job' = g /\ worker' = [worker EXCEPT ![w] = h]
    BY <1>6
  <2>5. /\ row \in JobRow /\ row.state = "running" /\ row.owner = w /\ row.day = r.day
        /\ row.completed = r.completed /\ row.committed = r.committed
        /\ row.released = r.released
    <3> HIDE DEF r
    <3> QED
      BY <2>2 DEF JobRow
  <2>6. PICK c \in Nat, v \in Nat :
             /\ c = job[j].completed /\ v = u /\ v - c > 0
    BY <2>1, <2>2, FormFacts, JobFacts DEF JobRow, RowOK, TilesOK, IsActive
  <2> HIDE DEF r, row, u
  <2>7. RowOK(row, slices[j], u)
    <3>1. IsActive(r) /\ IsActive(row)
      BY <2>2, <2>5 DEF IsActive
    <3>2. CountOK(row, slices[j], u)
      BY <2>2, <2>5 DEF RowOK, CountOK
    <3>3. TilesOK(row, slices[j], u)
      BY <2>2, <2>5, <3>1 DEF RowOK, TilesOK
    <3>4. SumOK(row, u)
      BY <2>2, <2>5, <3>1 DEF RowOK, SumOK
    <3> QED
      BY <3>2, <3>3, <3>4 DEF RowOK
  <2>8. g \in [Job -> JobRow] /\ g[j] = row /\ \A k \in Job \ {j} : g[k] = Recovered[k]
    BY <2>1, <2>3, <2>5
  <2> HIDE DEF g
  <2>9. JobsOK(g, slices)
    BY <1>3, <2>3, <2>7, <2>8 DEF JobsOK, u
  <2>10. \A a : ChargesIn(Recovered, a) = ChargesIn(g, a)
    <3>1. \A k \in Job : /\ Recovered[k].state = "absent" <=> g[k].state = "absent"
                         /\ IsActive(Recovered[k]) <=> IsActive(g[k])
                         /\ Recovered[k].day = g[k].day
                         /\ Recovered[k].completed = g[k].completed
                         /\ Recovered[k].committed = g[k].committed
      BY <2>2, <2>5, <2>8 DEF IsActive, r
    <3> QED
      BY <3>1, SameCharges
  <2>11. QuotaIn(g, used', spent, today)
    BY <1>1, <1>3, <2>10 DEF QuotaIn
  <2>12. /\ h \in WorkerJob /\ h # Idle /\ h.job = j /\ h.from = c
         /\ h.count \in Nat /\ h.count > 0 /\ h.count <= v - c
    <3>1. Remaining(j) = v - c
      BY <2>6 DEF Remaining, u
    <3>2. PICK n \in Nat : n = Smaller(SliceSize, Remaining(j)) /\ n > 0 /\ n <= v - c
      BY <2>6, <3>1, BatchesAssumption DEF Smaller
    <3>3. h = [pc |-> "lookup", job |-> j, from |-> c, count |-> n]
      BY <2>6, <3>2
    <3> HIDE DEF h
    <3> QED
      BY <2>1, <3>2, <3>3 DEF WorkerJob, Idle
  <2> HIDE DEF h
  <2>13. worker' \in [Worker -> WorkerJob]
    BY <1>2, <2>4, <2>12
  <2>14. LeasesOK(worker', g)
    <3> SUFFICES ASSUME NEW x \in Worker
                 PROVE  LeaseOK(worker'[x], g, x)
      BY DEF LeasesOK
    <3>1. CASE x = w
      <4>1. worker'[x] = h
        BY <1>2, <2>4, <3>1
      <4>2. g[j].completed = c /\ UnitsOf(j) = v
        BY <2>2, <2>5, <2>6, <2>8 DEF u
      <4> QED
        BY <2>12, <4>1, <4>2 DEF LeaseOK
    <3>2. CASE x # w
      <4>1. worker'[x] = worker[x] /\ LeaseOK(worker[x], Recovered, x)
        BY <1>2, <2>4, <3>2, RecoveredLeases
      <4>2. worker[x] # Idle => worker[x].job \in Job
        BY WorkerFacts
      <4>3. HoldsIn(worker[x], g, x) => worker[x].job # j
        BY <2>5, <2>8, <3>2 DEF HoldsIn
      <4>4. HoldsIn(worker[x], g, x) =>
              g[worker[x].job] = Recovered[worker[x].job] /\ HoldsIn(worker[x], Recovered, x)
        BY <2>8, <4>2, <4>3 DEF HoldsIn
      <4> QED
        BY <4>1, <4>4 DEF LeaseOK, HoldsIn
    <3> QED
      BY <3>1, <3>2
  <2>15. ahead' \subseteq Job \X Job
    BY <1>4, <1>6 DEF Without
  <2> QED
    BY <1>1, <1>2, <1>3, <2>4, <2>9, <2>11, <2>13, <2>14, <2>15 DEF BatchForm
<1> QED
  BY <1>5, <1>6 DEF Claim

\* The row of a key that is not there.
LEMMA EmptyRow ==
    ASSUME NEW u \in Nat
    PROVE  RowOK(NoRow, <<>>, u)
<1>1. CountOK(NoRow, <<>>, u)
  BY DEF CountOK, NoRow
<1>2. TilesOK(NoRow, <<>>, u)
  BY DEF TilesOK, EndIn, IsActive, NoRow
<1>3. SumOK(NoRow, u)
  BY DEF SumOK, NoRow
<1> QED
  BY <1>1, <1>2, <1>3 DEF RowOK

LEMMA InitializeStep ==
    ASSUME BatchForm, Initialize
    PROVE  BatchForm'
<1>1. PICK S \in SUBSET {j \in InState(Ended) : job[j].ended < today} :
        /\ used' = Pruned
        /\ job' = [j \in Job |-> IF j \in S THEN NoRow ELSE job[j]]
        /\ slices' = [j \in Job |-> IF j \in S THEN <<>> ELSE slices[j]]
        /\ spent' = [a \in Day \X Subject |->
             spent[a] + Cardinality(UNION {Committed(j) : j \in {k \in S : Account(k) = a}})]
        /\ UNCHANGED <<today, ahead, worker>>
  BY DEF Initialize
<1>2. S \subseteq Job /\ \A k \in S : job[k].state \in Ended
  BY DEF InState
<1>3. /\ job \in [Job -> JobRow] /\ CountedIn(job)
      /\ used \in TableType /\ spent \in TableType
      /\ slices \in [Job -> Seq(SliceRow)] /\ worker \in [Worker -> WorkerJob]
      /\ QuotaIn(job, used, spent, today)
  BY FormFacts DEF BatchForm, JobsOK
<1> DEFINE g == [j \in Job |-> IF j \in S THEN NoRow ELSE job[j]]
           sl == [j \in Job |-> IF j \in S THEN <<>> ELSE slices[j]]
           T == [a \in AccountType |->
                   UNION {CommittedIn(job, j) : j \in {k \in S : AccountIn(job, k) = a}}]
<1>4. JobsOK(g, sl)
  <2>1. g \in [Job -> JobRow]
    BY <1>3, NoRowType
  <2>2. sl \in [Job -> Seq(SliceRow)]
    BY <1>3
  <2>3. \A k \in Job : RowOK(g[k], sl[k], UnitsOf(k))
    <3> TAKE k \in Job
    <3>1. CASE k \in S
      BY <3>1, EmptyRow, JobFacts
    <3>2. CASE k \notin S
      BY <3>2, FormFacts
    <3> QED
      BY <3>1, <3>2
  <2> QED
    BY <2>1, <2>2, <2>3 DEF JobsOK
<1>5. ASSUME NEW a \in AccountType
      PROVE  T[a] \subseteq ChargesIn(job, a) /\ ChargesIn(g, a) = ChargesIn(job, a) \ T[a]
  <2> DEFINE P == UNION {CommittedIn(job, j) : j \in {k \in S : AccountIn(job, k) = a}}
  <2>1. \A k \in S : k \in Job /\ ChargedIn(job, k) = CommittedIn(job, k)
                     /\ job[k].state # "absent" /\ g[k].state = "absent"
    BY <1>2 DEF ChargedIn, IsActive, Ended, NoRow
  <2>2. \A k \in Job \ S : g[k] = job[k] /\ ChargedIn(g, k) = ChargedIn(job, k)
    BY DEF ChargedIn, CommittedIn, LeftIn
  <2>3. T[a] = P
    OBVIOUS
  <2> HIDE DEF g, T
  <2>4. HoldersIn(g, a) = HoldersIn(job, a) \ S
    BY <2>1, <2>2 DEF HoldersIn, AccountIn
  <2>5. P \subseteq ChargesIn(job, a)
    <3> SUFFICES ASSUME NEW k \in S, AccountIn(job, k) = a
                 PROVE  CommittedIn(job, k) \subseteq ChargesIn(job, a)
      OBVIOUS
    <3>1. k \in HoldersIn(job, a)
      BY <2>1 DEF HoldersIn
    <3> QED
      BY <2>1, <3>1 DEF ChargesIn
  <2>6. ASSUME NEW x \in ChargesIn(g, a)
        PROVE  x \in ChargesIn(job, a) \ P
    <3>1. PICK k \in HoldersIn(job, a) \ S : x \in ChargedIn(job, k)
      BY <2>2, <2>4 DEF ChargesIn, HoldersIn
    <3>2. ASSUME NEW m \in S, x \in CommittedIn(job, m) PROVE FALSE
      BY <3>1, <3>2, ChargeOwner
    <3> QED
      BY <3>1, <3>2 DEF ChargesIn
  <2>7. ASSUME NEW x \in ChargesIn(job, a), x \notin P
        PROVE  x \in ChargesIn(g, a)
    <3>1. PICK k \in HoldersIn(job, a) : x \in ChargedIn(job, k)
      BY <2>7 DEF ChargesIn
    <3>2. k \notin S
      BY <2>1, <2>7, <3>1 DEF HoldersIn
    <3>3. k \in HoldersIn(g, a) /\ x \in ChargedIn(g, k)
      BY <2>2, <2>4, <3>1, <3>2 DEF HoldersIn
    <3> QED
      BY <3>3 DEF ChargesIn
  <2> HIDE DEF P
  <2> QED
    BY <2>3, <2>5, <2>6, <2>7
<1>6. spent' = [a \in AccountType |-> spent[a] + Cardinality(T[a])]
  BY <1>1 DEF AccountType, Committed, CommittedIn, Account, AccountIn
<1> HIDE DEF T
<1>7. /\ \A a \in AccountType : Cardinality(T[a]) \in Nat
      /\ QuotaIn(g, used, [a \in AccountType |-> spent[a] + Cardinality(T[a])], today)
  <2> HIDE DEF g
  <2>1. \A a \in AccountType : /\ T[a] \subseteq ChargesIn(job, a)
                               /\ ChargesIn(g, a) = ChargesIn(job, a) \ T[a]
    BY <1>5
  <2>2. job \in [Job -> JobRow] /\ CountedIn(job)
    BY <1>3
  <2>3. used \in TableType /\ spent \in TableType /\ QuotaIn(job, used, spent, today)
    BY <1>3
  <2> QED
    BY <2>1, <2>2, <2>3, DropQuota, ZenonT(30)
<1>8. spent' \in TableType
  BY <1>3, <1>6, <1>7 DEF TableType
<1>9. used' \in TableType
      /\ \A a \in AccountType : a[1] >= today - Retention => used'[a] = used[a]
  BY <1>1, BatchesAssumption DEF BatchForm, Pruned, TableType, AccountType, Day
<1>10. QuotaIn(g, used', spent', today)
  <2> HIDE DEF g
  <2> QED
    BY <1>6, <1>7, <1>9 DEF QuotaIn, AccountType
<1>11. LeasesOK(worker, g)
  <2> SUFFICES ASSUME NEW w \in Worker, worker[w] # Idle
               PROVE  LeaseOK(worker[w], g, w)
    BY DEF LeasesOK, LeaseOK
  <2>1. worker[w].job \in Job /\ LeaseOK(worker[w], job, w)
    BY WorkerFacts DEF BatchForm, LeasesOK
  <2>2. g[worker[w].job].state = "running" => g[worker[w].job] = job[worker[w].job]
    BY <2>1 DEF NoRow
  <2> QED
    BY <2>1, <2>2 DEF LeaseOK, HoldsIn
<1>12. job' = g /\ slices' = sl /\ UNCHANGED <<today, ahead, worker>>
  BY <1>1
<1> HIDE DEF g, sl
<1> QED
  BY <1>4, <1>8, <1>9, <1>10, <1>11, <1>12 DEF BatchForm
-----------------------------------------------------------------------------
(* The theorems *)

LEMMA InitForm ==
    ASSUME Init
    PROVE  BatchForm
<1>1. 0 \in Day /\ 0 \in Nat
  BY BatchesAssumption DEF Day
<1>2. today \in Day /\ used \in TableType /\ spent \in TableType /\ ahead \subseteq Job \X Job
  BY <1>1 DEF Init, TableType, AccountType
<1>3. worker \in [Worker -> WorkerJob] /\ LeasesOK(worker, job)
  BY DEF Init, WorkerJob, LeasesOK, LeaseOK
<1>4. JobsOK(job, slices)
  <2>1. \A k \in Job : job[k] = NoRow /\ slices[k] = <<>>
    BY DEF Init
  <2>2. job \in [Job -> JobRow] /\ slices \in [Job -> Seq(SliceRow)]
    BY NoRowType DEF Init
  <2> QED
    BY <2>1, <2>2, EmptyRow, JobFacts DEF JobsOK
<1>5. QuotaIn(job, used, spent, today)
  <2>1. \A a : HoldersIn(job, a) = {}
    BY DEF HoldersIn, Init, NoRow
  <2>2. \A a : Cardinality(ChargesIn(job, a)) = 0
    BY <2>1, FS_EmptySet DEF ChargesIn
  <2>3. \A a \in Day \X Subject : used[a] = 0 /\ spent[a] = 0
    BY DEF Init
  <2> QED
    BY <2>2, <2>3 DEF QuotaIn
<1> QED
  BY <1>2, <1>3, <1>4, <1>5 DEF BatchForm

LEMMA NextForm ==
    ASSUME BatchForm, [Next]_vars
    PROVE  BatchForm'
<1>1. ASSUME NEW s \in Subject, NEW n \in 1..MaxSpent, Spend(s, n) PROVE BatchForm'
  <2>1. n \in Nat
    BY BatchesAssumption
  <2> QED
    BY <1>1, <2>1, SpendStep
<1>2. ASSUME NEW s \in Subject, Refuse(s) PROVE BatchForm'
  BY <1>2, RefuseStep
<1>3. ASSUME NEW j \in Job, Enqueue(j) \/ Cancel(j) \/ LeaseExpires(j) PROVE BatchForm'
  BY <1>3, EnqueueStep, CancelStep, ExpiresStep
<1>4. ASSUME NEW w \in Worker, Claim(w) \/ Finish(w) \/ Fail(w) PROVE BatchForm'
  BY <1>4, ClaimStep, FinishStep, FailStep
<1>5. ASSUME NEW w \in Worker, LoseLease(w) \/ Dies(w) PROVE BatchForm'
  BY <1>5, WorkerGoesIdle DEF LoseLease, Dies
<1>6. CASE Midnight \/ Initialize
  BY <1>6, MidnightStep, InitializeStep
<1>7. CASE UNCHANGED vars
  BY <1>7 DEF vars, BatchForm
<1> QED
  BY <1>1, <1>2, <1>3, <1>4, <1>5, <1>6, <1>7 DEF Next, Progress, Failure, WorkerStep

\* Whatever clients, workers, failed lookups, lost leases and cancellations do, and in
\* whatever order, the invariant behind the properties of RecordBatches holds.
THEOREM BatchesCorrect == Spec => []BatchInv
<1>1. Init => BatchInv
  BY InitForm, BatchNow
<1>2. BatchInv /\ [Next]_vars => BatchInv'
  <2>1. BatchInv' <=> BatchForm'
    BY BatchNow, PTL
  <2> QED
    BY <2>1, BatchNow, NextForm
<1> QED
  BY <1>1, <1>2, PTL DEF Spec

\* No quota row is ever charged for a unit twice or given one back twice
\* (finish_record_batch_slice, fail_record_batch, cancel_record_batch,
\* claim_record_batch).
THEOREM QuotaExact == Spec => []QuotaIsExact
<1>1. BatchInv => QuotaIsExact
  BY DEF BatchInv
<1> QED
  BY <1>1, BatchesCorrect, PTL

\* The chunks of every job hold each apex once, in order, without a gap
\* (finish_record_batch_slice).
THEOREM ChunksTile == Spec => []ChunksTileTheRequest
<1>1. BatchInv => ChunksTileTheRequest
  BY DEF BatchInv
<1> QED
  BY <1>1, BatchesCorrect, PTL

\* The units of a job that was not cancelled add up, and those of one that was
\* never exceed what it reserved (the CHECK on record_batch_jobs).
THEOREM SettledUnits == Spec => []UnitsAddUpUnlessCancelled
<1>1. BatchInv => UnitsAddUpUnlessCancelled
  BY DEF BatchInv
<1> QED
  BY <1>1, BatchesCorrect, PTL
-----------------------------------------------------------------------------
(* What is promised of a row and its slices *)

PlainSlice == [first : Nat, count : Nat]

Plain(sl) == [i \in DOMAIN sl |-> [first |-> sl[i].from, count |-> sl[i].count]]

Held(row, u) ==
    IF IsActive(row) THEN row.committed + (u - row.completed) ELSE row.committed

Phase(row) ==
    IF row.state = "absent" THEN "absent" ELSE IF IsActive(row) THEN "open" ELSE "ended"

PromiseOf(row, sl, u) ==
    [state |-> Phase(row), size |-> IF row.state = "absent" THEN 0 ELSE u,
     held |-> Held(row, u), chunks |-> Plain(sl)]

LEMMA PromisedNow ==
    ASSUME NEW j \in Job
    PROVE  /\ Promised(j) = PromiseOf(job[j], slices[j], UnitsOf(j))
           /\ Promised(j)' = PromiseOf(job'[j], slices'[j], UnitsOf(j))
<1>1. /\ j \in Active <=> IsActive(job[j])
      /\ (j \in Active)' <=> IsActive(job'[j])
  BY DEF Active, InState, IsActive
<1> QED
  BY <1>1 DEF Promised, PromiseOf, Phase, Held, Plain, Remaining

\* The chunks promised are as many as the slices, and end where the job has come.
LEMMA PlainFacts ==
    ASSUME NEW row \in JobRow, NEW sl \in Seq(SliceRow), NEW u \in Nat, RowOK(row, sl, u)
    PROVE  /\ Plain(sl) \in Seq(PlainSlice)
           /\ Len(Plain(sl)) = Len(sl)
           /\ Plain(sl) = <<>> => row.completed = 0
           /\ Plain(sl) # <<>> =>
                Plain(sl)[Len(Plain(sl))].first + Plain(sl)[Len(Plain(sl))].count
                  = row.completed
<1> DEFINE L == Len(sl)
<1>1. /\ L \in Nat /\ DOMAIN sl = 1..L
      /\ \A i \in 1..L : sl[i] \in SliceRow
  BY LenProperties, ElementOfSeq
<1>2. /\ Plain(sl) \in Seq(PlainSlice) /\ Len(Plain(sl)) = L
  <2>1. \A i \in 1..L : [first |-> sl[i].from, count |-> sl[i].count] \in PlainSlice
    BY <1>1 DEF SliceRow, PlainSlice
  <2>2. Plain(sl) \in Seq(PlainSlice)
    BY <1>1, <2>1, IsASeq DEF Plain
  <2>3. DOMAIN Plain(sl) = 1..L
    BY <1>1 DEF Plain
  <2> QED
    BY <1>1, <2>2, <2>3, LenProperties
<1>3. /\ EndIn(sl, L) = row.completed
      /\ \A i \in 1..L : sl[i].from = sl[i].first
  BY <1>1 DEF RowOK, TilesOK
<1>4. CASE Plain(sl) = <<>>
  <2>1. L = 0
    BY <1>1, <1>2, <1>4, EmptySeq
  <2> QED
    BY <1>2, <1>3, <1>4, <2>1 DEF EndIn
<1>5. CASE Plain(sl) # <<>>
  <2>1. L \in 1..L /\ L # 0
    BY <1>1, <1>2, <1>5, EmptySeq
  <2>2. Plain(sl)[L].first = sl[L].from /\ Plain(sl)[L].count = sl[L].count
    BY <1>1, <2>1 DEF Plain
  <2>3. EndIn(sl, L) = sl[L].first + sl[L].count
    BY <2>1 DEF EndIn
  <2> QED
    BY <1>2, <1>3, <1>5, <2>1, <2>2, <2>3
<1> QED
  BY <1>4, <1>5

\* How far the contract says a batch has come is how far its row has.
LEMMA ContractFacts ==
    ASSUME BatchForm, NEW j \in Job, job[j].state # "absent"
    PROVE  /\ Contract(j)!Delivered = job[j].completed
           /\ Contract(j)!Left = UnitsOf(j) - job[j].completed
<1>1. /\ job[j] \in JobRow /\ slices[j] \in Seq(SliceRow) /\ UnitsOf(j) \in Nat
      /\ RowOK(job[j], slices[j], UnitsOf(j))
  BY FormFacts, JobFacts DEF BatchForm, JobsOK
<1>2. /\ Promised(j).chunks = Plain(slices[j])
      /\ Promised(j).size = UnitsOf(j)
  BY PromisedNow DEF PromiseOf
<1>3. Contract(j)!Delivered = job[j].completed
  BY <1>1, <1>2, PlainFacts DEF Contract!Delivered
<1> QED
  BY <1>2, <1>3 DEF Contract!Left

\* One more slice is one more chunk.
LEMMA OneMoreChunk ==
    ASSUME NEW sl \in Seq(SliceRow), NEW x \in SliceRow
    PROVE  Plain(Append(sl, x)) = Append(Plain(sl), [first |-> x.from, count |-> x.count])
<1> DEFINE plain == [first |-> x.from, count |-> x.count]
           more == Append(sl, x)
           L == Len(sl)
<1>1. /\ L \in Nat /\ DOMAIN sl = 1..L /\ more \in Seq(SliceRow)
      /\ DOMAIN more = 1..(L + 1)
      /\ more[L + 1] = x /\ \A i \in 1..L : more[i] = sl[i]
  BY AppendProperties, LenProperties
<1>2. plain \in PlainSlice
  BY DEF PlainSlice, SliceRow
<1>3. Plain(sl) \in Seq(PlainSlice) /\ Len(Plain(sl)) = L
  <2>0. \A i \in 1..L : sl[i] \in SliceRow
    BY LenProperties, ElementOfSeq
  <2>1. \A i \in 1..L : [first |-> sl[i].from, count |-> sl[i].count] \in PlainSlice
    BY <2>0 DEF SliceRow, PlainSlice
  <2>2. Plain(sl) \in Seq(PlainSlice)
    BY <1>1, <2>1, IsASeq DEF Plain
  <2>3. DOMAIN Plain(sl) = 1..L
    BY <1>1 DEF Plain
  <2> QED
    BY <1>1, <2>2, <2>3, LenProperties
<1>4. \A i \in 1..L : Plain(sl)[i] = [first |-> sl[i].from, count |-> sl[i].count]
  BY <1>1 DEF Plain
<1>5. Plain(more) = [i \in 1..(L + 1) |-> [first |-> more[i].from, count |-> more[i].count]]
  BY <1>1 DEF Plain
<1>6. /\ Append(Plain(sl), plain) \in Seq(PlainSlice)
      /\ DOMAIN Append(Plain(sl), plain) = 1..(L + 1)
      /\ Append(Plain(sl), plain)[L + 1] = plain
      /\ \A i \in 1..L : Append(Plain(sl), plain)[i] = Plain(sl)[i]
  <2> HIDE DEF plain
  <2>1. Append(Plain(sl), plain) \in Seq(PlainSlice)
    BY <1>2, <1>3, AppendProperties
  <2> QED
    BY <1>2, <1>3, <2>1, AppendProperties, LenProperties
<1>7. \A i \in 1..(L + 1) :
        [first |-> more[i].from, count |-> more[i].count] = Append(Plain(sl), plain)[i]
  <2> SUFFICES ASSUME NEW i \in 1..(L + 1)
               PROVE  [first |-> more[i].from, count |-> more[i].count]
                        = Append(Plain(sl), plain)[i]
    OBVIOUS
  <2> HIDE DEF more
  <2>1. CASE i \in 1..L
    BY <1>1, <1>4, <1>6, <2>1
  <2>2. CASE i = L + 1
    BY <1>1, <1>6, <2>2
  <2>3. i \in 1..L \/ i = L + 1
    BY <1>1
  <2> QED
    BY <2>1, <2>2, <2>3
<1>8. Append(Plain(sl), plain) = [i \in 1..(L + 1) |-> Append(Plain(sl), plain)[i]]
  <2> HIDE DEF plain
  <2> QED
    BY <1>6, LenProperties
<1> HIDE DEF plain, more
<1>9. Plain(more) = Append(Plain(sl), plain)
  BY <1>5, <1>7, <1>8
<1> QED
  BY <1>9 DEF plain, more
-----------------------------------------------------------------------------
(* What a step does to a job *)

\* Nothing that the consumer is told of.
Kept(j) ==
    /\ Phase(job'[j]) = Phase(job[j])
    /\ Held(job'[j], UnitsOf(j)) = Held(job[j], UnitsOf(j))
    /\ slices'[j] = slices[j]

\* It ends without another chunk.
Closed(j) ==
    /\ IsActive(job[j])
    /\ Phase(job'[j]) = "ended" /\ job'[j].committed = job[j].committed
    /\ slices'[j] = slices[j]

\* Its row is deleted.
Forgotten(j) ==
    /\ job[j].state \in Ended
    /\ job'[j] = NoRow /\ slices'[j] = <<>>

\* A slice of it is committed.
Sliced(j) ==
    \E w \in Worker, m, f \in Nat :
        /\ worker[w] # Idle /\ worker[w].job = j
        /\ m > 0 /\ m <= worker[w].count /\ f <= m
        /\ FinishSlice(w, m, f)

LEMMA SameIsKept ==
    ASSUME NEW j \in Job, job'[j] = job[j], slices'[j] = slices[j]
    PROVE  Kept(j)
BY DEF Kept

\* The recovery of a claim ends abandoned jobs; all others look the same.
LEMMA ClaimMoves ==
    ASSUME BatchForm, NEW w \in Worker, Claim(w), NEW j \in Job
    PROVE  Kept(j) \/ Closed(j)
<1> DEFINE r == Recovered[j]
<1>1. /\ r \in JobRow
      /\ r.completed = job[j].completed /\ r.committed = job[j].committed
      /\ r.state = "absent" <=> job[j].state = "absent"
      /\ j \in Abandoned => IsActive(job[j]) /\ ~IsActive(r)
      /\ j \notin Abandoned => (IsActive(r) <=> IsActive(job[j]))
      /\ j \in Queued \cup (Expired \ Abandoned) => r.state = "queued"
  BY RecoveredJobs
<1>2. \/ job'[j] = r
      \/ /\ r.state = "queued"
         /\ job'[j] = [r EXCEPT !.state = "running", !.owner = w, !.live = TRUE]
  <2>1. CASE job' = Recovered
    BY <2>1
  <2>2. ASSUME NEW k \in Chosen,
               job' = [Recovered EXCEPT ![k] =
                         [@ EXCEPT !.state = "running", !.owner = w, !.live = TRUE]]
        PROVE  \/ job'[j] = r
               \/ /\ r.state = "queued"
                  /\ job'[j] = [r EXCEPT !.state = "running", !.owner = w,
                                         !.live = TRUE]
    <3>1. k \in Queued \cup (Expired \ Abandoned)
      BY DEF Chosen
    <3>2. Recovered \in [Job -> JobRow]
      BY RecoveredForm DEF JobsOK
    <3>3. j # k => job'[j] = r
      BY <2>2, <3>2
    <3>4. j = k => job'[j] = [r EXCEPT !.state = "running", !.owner = w, !.live = TRUE]
      BY <2>2, <3>2
    <3> HIDE DEF r
    <3> QED
      BY <1>1, <3>1, <3>3, <3>4
  <2> QED
    BY <2>1, <2>2 DEF Claim
<1> HIDE DEF r
<1>3. /\ job'[j].completed = r.completed /\ job'[j].committed = r.committed
      /\ job'[j].state = "absent" <=> r.state = "absent"
      /\ IsActive(job'[j]) <=> IsActive(r)
  BY <1>1, <1>2 DEF JobRow, IsActive
<1>4. slices'[j] = slices[j]
  BY DEF Claim
<1>5. CASE j \in Abandoned
  BY <1>1, <1>3, <1>4, <1>5 DEF Closed, Phase, IsActive
<1>6. CASE j \notin Abandoned
  BY <1>1, <1>3, <1>4, <1>6 DEF Kept, Phase, Held
<1> QED
  BY <1>5, <1>6

LEMMA CancelMoves ==
    ASSUME BatchForm, NEW k \in Job, Cancel(k), NEW j \in Job
    PROVE  Kept(j) \/ Closed(j)
<1>1. job \in [Job -> JobRow] /\ slices' = slices
  BY FormFacts DEF Cancel
<1>2. CASE j # k
  <2>1. job'[j] = job[j]
    BY <1>1, <1>2 DEF Cancel
  <2> QED
    BY <1>1, <2>1, SameIsKept
<1>3. CASE j = k /\ job[k].state = "queued"
  <2>1. job' = [job EXCEPT ![k] =
                  [job[k] EXCEPT !.state = "cancelled", !.cancel = TRUE, !.ended = today,
                                 !.released = @ + Remaining(k)]]
    BY <1>3 DEF Cancel
  <2>2. job'[k].state = "cancelled" /\ job'[k].committed = job[k].committed
    BY <1>1, <2>1 DEF JobRow
  <2> QED
    BY <1>1, <1>3, <2>2 DEF Closed, Phase, IsActive
<1>4. CASE j = k /\ job[k].state = "running"
  <2>1. job' = [job EXCEPT ![k].cancel = TRUE]
    BY <1>4 DEF Cancel
  <2>2. /\ job'[k].state = "running" /\ job'[k].committed = job[k].committed
        /\ job'[k].completed = job[k].completed
    BY <1>1, <1>4, <2>1 DEF JobRow
  <2> QED
    BY <1>1, <1>4, <2>2 DEF Kept, Phase, Held, IsActive
<1> QED
  BY <1>2, <1>3, <1>4 DEF Cancel

LEMMA FailMoves ==
    ASSUME BatchForm, NEW w \in Worker, Fail(w), NEW j \in Job
    PROVE  Kept(j) \/ Closed(j)
<1>1. job \in [Job -> JobRow] /\ slices' = slices
  BY FormFacts DEF Fail
<1>2. PICK k \in Job : k = worker[w].job /\ job[k].state = "running"
  BY WorkerFacts DEF Fail, Holds
<1>3. job' = [job EXCEPT ![k] =
                [job[k] EXCEPT !.state = "failed", !.released = @ + Remaining(k),
                               !.owner = NoWorker, !.live = FALSE, !.ended = today]]
  BY <1>2 DEF Fail
<1>4. CASE j # k
  BY <1>1, <1>3, <1>4, SameIsKept
<1>5. CASE j = k
  <2>1. job'[k].state = "failed" /\ job'[k].committed = job[k].committed
    BY <1>1, <1>3 DEF JobRow
  <2> QED
    BY <1>1, <1>2, <1>5, <2>1 DEF Closed, Phase, IsActive
<1> QED
  BY <1>4, <1>5

LEMMA FinishMoves ==
    ASSUME BatchForm, NEW w \in Worker, Finish(w), NEW j \in Job
    PROVE  Kept(j) \/ Sliced(j)
<1>1. PICK m \in Halvings(worker[w].count), f \in {0, 1} :
           (f = 1 => m = 1) /\ FinishSlice(w, m, f)
  BY DEF Finish
<1>2. worker[w] # Idle /\ worker[w].count \in Nat /\ worker[w].job \in Job
  BY WorkerFacts DEF Finish
<1>3. m \in Nat /\ m > 0 /\ m <= worker[w].count /\ f \in Nat /\ f <= m
  BY <1>1, <1>2 DEF Halvings
<1>4. CASE worker[w].job = j
  BY <1>1, <1>2, <1>3, <1>4 DEF Sliced
<1>5. CASE worker[w].job # j
  <2>1. job \in [Job -> JobRow] /\ slices \in [Job -> Seq(SliceRow)]
    BY DEF BatchForm, JobsOK
  <2>2. PICK k : k = worker[w].job
    OBVIOUS
  <2>4. PICK row : job' = [job EXCEPT ![k] = row]
    BY <1>1, <2>2 DEF FinishSlice
  <2>5. PICK sl : slices' = [slices EXCEPT ![k] = sl]
    BY <1>1, <2>2 DEF FinishSlice
  <2>3. job'[j] = job[j] /\ slices'[j] = slices[j]
    BY <1>5, <2>1, <2>2, <2>4, <2>5
  <2> QED
    BY <2>3, SameIsKept
<1> QED
  BY <1>4, <1>5

LEMMA JobMoves ==
    ASSUME BatchForm, [Next]_vars, NEW j \in Job
    PROVE  Kept(j) \/ Closed(j) \/ Sliced(j) \/ Forgotten(j) \/ Enqueue(j)
<1>1. job \in [Job -> JobRow] /\ slices \in [Job -> Seq(SliceRow)]
  BY DEF BatchForm, JobsOK
<1>2. CASE job' = job /\ slices' = slices
  BY <1>2, SameIsKept
<1>3. ASSUME NEW k \in Job, Enqueue(k), k # j
      PROVE  Kept(j)
  <2>1. job'[j] = job[j] /\ slices'[j] = slices[j]
    BY <1>1, <1>3 DEF Enqueue
  <2> QED
    BY <2>1, SameIsKept
<1>4. ASSUME NEW k \in Job, LeaseExpires(k)
      PROVE  Kept(j)
  <2>1. /\ job'[j].state = job[j].state /\ job'[j].committed = job[j].committed
        /\ job'[j].completed = job[j].completed /\ slices'[j] = slices[j]
    BY <1>1, <1>4 DEF LeaseExpires, JobRow
  <2> QED
    BY <2>1 DEF Kept, Phase, Held, IsActive
<1>5. CASE Initialize
  <2>1. PICK S \in SUBSET {k \in InState(Ended) : job[k].ended < today} :
          /\ job' = [k \in Job |-> IF k \in S THEN NoRow ELSE job[k]]
          /\ slices' = [k \in Job |-> IF k \in S THEN <<>> ELSE slices[k]]
    BY <1>5 DEF Initialize
  <2>2. CASE j \in S
    BY <2>1, <2>2 DEF Forgotten, InState
  <2>3. CASE j \notin S
    BY <2>1, <2>3, SameIsKept
  <2> QED
    BY <2>2, <2>3
<1>6. ASSUME \/ \E s \in Subject, n \in 1..MaxSpent : Spend(s, n)
             \/ \E s \in Subject : Refuse(s)
             \/ \E w \in Worker : LoseLease(w) \/ Dies(w)
             \/ Midnight
             \/ UNCHANGED vars
      PROVE  job' = job /\ slices' = slices
  BY <1>6 DEF Spend, Refuse, LoseLease, Dies, Midnight, vars
<1> QED
  BY <1>2, <1>3, <1>4, <1>5, <1>6, ClaimMoves, CancelMoves, FailMoves, FinishMoves
     DEF Next, Progress, Failure, WorkerStep
-----------------------------------------------------------------------------
(* Each of these is a step of the contract *)

LEMMA KeptIsNoStep ==
    ASSUME NEW j \in Job, Kept(j)
    PROVE  Contract(j)!Step
<1>1. job'[j].state = "absent" <=> job[j].state = "absent"
  BY DEF Kept, Phase
<1>2. Promised(j)' = Promised(j)
  BY <1>1, PromisedNow DEF Kept, PromiseOf
<1> QED
  BY <1>2 DEF Contract!Step

LEMMA EnqueueIsAdmission ==
    ASSUME BatchForm, NEW j \in Job, Enqueue(j)
    PROVE  Contract(j)!Step
<1>1. /\ job[j] = NoRow /\ slices[j] = <<>> /\ slices' = slices
      /\ UnitsOf(j) \in Nat /\ today \in Day
  BY FormFacts, JobFacts DEF BatchForm, RowOK, CountOK, Enqueue
<1>2. job'[j] = [NoRow EXCEPT !.state = "queued", !.day = today]
  BY FormFacts DEF Enqueue
<1>3. job'[j].state = "queued" /\ job'[j].committed = 0 /\ job'[j].completed = 0
  BY <1>2 DEF NoRow
<1>4. Plain(<<>>) = <<>>
  BY DEF Plain
<1>5. Promised(j) = Contract(j)!Absent
  BY <1>1, <1>4, PromisedNow
     DEF PromiseOf, Phase, Held, IsActive, NoRow, Contract!Absent
<1>6. Promised(j)' = [state |-> "open", size |-> UnitsOf(j), held |-> UnitsOf(j),
                      chunks |-> <<>>]
  <2>1. Held(job'[j], UnitsOf(j)) = UnitsOf(j)
    BY <1>1, <1>3 DEF Held, IsActive
  <2> QED
    BY <1>1, <1>3, <1>4, <2>1, PromisedNow DEF PromiseOf, Phase, IsActive
<1>7. UnitsOf(j) \in {Units[k] : k \in Key}
  BY DEF UnitsOf, Job
<1> QED
  BY <1>5, <1>6, <1>7 DEF Contract!Step, Contract!Next, Contract!Admit

LEMMA ForgottenIsForget ==
    ASSUME NEW j \in Job, Forgotten(j)
    PROVE  Contract(j)!Step
<1>1. Promised(j)' = Contract(j)!Absent
  BY PromisedNow
     DEF Forgotten, PromiseOf, Phase, Held, IsActive, NoRow, Plain, Contract!Absent
<1>2. Promised(j).state = "ended"
  BY PromisedNow DEF Forgotten, PromiseOf, Phase, IsActive, Ended
<1> QED
  BY <1>1, <1>2 DEF Contract!Step, Contract!Next, Contract!Forget

LEMMA ClosedIsEnd ==
    ASSUME BatchForm, NEW j \in Job, Closed(j)
    PROVE  Contract(j)!Step
<1> DEFINE u == UnitsOf(j)
<1>1. /\ job[j].committed \in Nat /\ job[j].completed \in Nat /\ u \in Nat
      /\ job[j].state # "absent" /\ job'[j].state # "absent" /\ ~IsActive(job'[j])
      /\ IsActive(job[j])
  BY FormFacts, JobFacts DEF JobRow, Closed, IsActive, Phase
<1>2. PICK c : c = Plain(slices[j])
  OBVIOUS
<1>3. PICK h : h = job[j].committed + (u - job[j].completed)
  OBVIOUS
<1>4. Promised(j) = [state |-> "open", size |-> u, held |-> h, chunks |-> c]
  BY <1>1, <1>2, <1>3, PromisedNow DEF PromiseOf, Phase, Held
<1>5. Promised(j)' = [state |-> "ended", size |-> u, held |-> job[j].committed,
                      chunks |-> c]
  BY <1>1, <1>2, PromisedNow DEF PromiseOf, Phase, Held, Closed
<1>6. Promised(j).held - Contract(j)!Left = job[j].committed
  <2>1. Contract(j)!Left = u - job[j].completed
    BY <1>1, ContractFacts
  <2>2. Promised(j).held = h
    BY <1>4
  <2> QED
    BY <1>1, <1>3, <2>1, <2>2
<1> HIDE DEF u
<1>7. Promised(j)' =
        [Promised(j) EXCEPT !.state = "ended", !.held = job[j].committed]
  <2>1. PICK p : p = [Promised(j) EXCEPT !.state = "ended"]
    OBVIOUS
  <2>2. p = [state |-> "ended", size |-> u, held |-> h, chunks |-> c]
    BY <1>4, <2>1
  <2>3. [p EXCEPT !.held = job[j].committed]
          = [state |-> "ended", size |-> u, held |-> job[j].committed, chunks |-> c]
    BY <2>2
  <2> QED
    BY <1>5, <2>1, <2>3, Zenon
<1>8. Promised(j).state = "open"
  BY <1>4
<1>9. Contract(j)!End
  BY <1>6, <1>7, <1>8, Zenon DEF Contract!End
<1> QED
  BY <1>9 DEF Contract!Step, Contract!Next

\* What finish_record_batch_slice makes of the job of the slice.
LEMMA SliceFacts ==
    ASSUME BatchForm, NEW w \in Worker, worker[w] # Idle,
           NEW m \in Nat, m > 0, m <= worker[w].count, NEW f \in Nat, f <= m,
           FinishSlice(w, m, f), NEW j \in Job, worker[w].job = j
    PROVE  /\ job[j].state = "running" /\ m <= UnitsOf(j) - job[j].completed
           /\ slices'[j] = ChunksAnd(slices[j], job[j], m)
           /\ job'[j].completed = job[j].completed + m
           /\ job'[j].committed = job[j].committed + m - f
           /\ \/ job'[j].state \in {"cancelled", "done"}
              \/ job'[j].state = "queued" /\ m # UnitsOf(j) - job[j].completed
<1>1. Holds(w)
  BY DEF FinishSlice
<1>2. /\ job[j].state = "running"
      /\ worker[w].from = job[j].completed
      /\ worker[w].count \in Nat
      /\ worker[w].count <= UnitsOf(j) - job[j].completed
  BY <1>1, WorkerFacts
<1>3. /\ job \in [Job -> JobRow] /\ job[j] \in JobRow
      /\ UnitsOf(j) \in Nat /\ job[j].completed \in Nat
      /\ slices \in [Job -> Seq(SliceRow)]
  BY FormFacts, JobFacts DEF BatchForm, JobsOK, JobRow
<1> DEFINE left == IF job[j].cancel THEN AtLeast0(Remaining(j) - m) ELSE 0
           st == IF job[j].cancel THEN "cancelled"
                 ELSE IF Remaining(j) <= m THEN "done" ELSE "queued"
<1>4. job' = [job EXCEPT ![j] = FinishedAs(job[j], m, f, st, left, today)]
  BY <1>2, <1>3 DEF FinishSlice, FinishedAs
<1>5. slices' = [slices EXCEPT ![j] = ChunksAnd(slices[j], job[j], m)]
  BY <1>2, <1>3 DEF FinishSlice, ChunksAnd
<1>6. \/ st \in {"cancelled", "done"}
      \/ st = "queued" /\ m # UnitsOf(j) - job[j].completed
  BY <1>3 DEF Remaining
<1> HIDE DEF left, st
<1>7. /\ job'[j].state = st
      /\ job'[j].completed = job[j].completed + m
      /\ job'[j].committed = job[j].committed + m - f
  BY <1>3, <1>4 DEF FinishedAs, JobRow
<1> QED
  BY <1>2, <1>3, <1>5, <1>6, <1>7

LEMMA SlicedIsDelivery ==
    ASSUME BatchForm, NEW j \in Job, Sliced(j)
    PROVE  Contract(j)!Step
<1>1. PICK w \in Worker, m \in Nat, f \in Nat :
           /\ worker[w] # Idle /\ worker[w].job = j
           /\ m > 0 /\ m <= worker[w].count /\ f <= m
           /\ FinishSlice(w, m, f)
  BY DEF Sliced
<1>2. PICK u \in Nat, a \in Nat, b \in Nat :
           u = UnitsOf(j) /\ a = job[j].completed /\ b = job[j].committed
  BY FormFacts, JobFacts DEF JobRow
<1>3. /\ job[j].state = "running" /\ m <= u - a
      /\ slices'[j] = ChunksAnd(slices[j], job[j], m)
      /\ job'[j].completed = a + m
      /\ job'[j].committed = b + m - f
      /\ \/ job'[j].state \in {"cancelled", "done"}
         \/ job'[j].state = "queued" /\ m # u - a
  BY <1>1, <1>2, SliceFacts
<1>4. PICK c : c = Plain(slices[j])
  OBVIOUS
<1>5. Promised(j) = [state |-> "open", size |-> u, held |-> b + (u - a), chunks |-> c]
  BY <1>2, <1>3, <1>4, PromisedNow DEF PromiseOf, Phase, Held, IsActive
<1>6. Contract(j)!Delivered = a /\ Contract(j)!Left = u - a
  BY <1>2, <1>3, ContractFacts
<1>7. PICK d : d = Append(c, [first |-> a, count |-> m])
  OBVIOUS
<1>8. Plain(slices'[j]) = d
  <2>1. slices[j] \in Seq(SliceRow)
    BY DEF BatchForm, JobsOK
  <2>2. [first |-> a, from |-> a, count |-> m] \in SliceRow
    BY <1>2 DEF SliceRow
  <2>3. Plain(slices'[j]) = Append(c, [first |-> [first |-> a, from |-> a, count |-> m].from,
                                       count |-> [first |-> a, from |-> a, count |-> m].count])
    BY <1>2, <1>3, <1>4, <2>1, <2>2, OneMoreChunk DEF ChunksAnd
  <2> QED
    BY <1>7, <2>3
<1>9. CASE job'[j].state \in {"cancelled", "done"}
  <2>1. Promised(j)' = [state |-> "ended", size |-> u, held |-> b + m - f, chunks |-> d]
    BY <1>2, <1>3, <1>8, <1>9, PromisedNow DEF PromiseOf, Phase, Held, IsActive
  <2>2. b + (u - a) - f - (u - a - m) = b + m - f
    BY <1>2, <1>1
  <2>3. Promised(j)' = [Promised(j) EXCEPT !.state = IF TRUE THEN "ended" ELSE "open",
                          !.held = @ - f - (IF TRUE THEN Contract(j)!Left - m ELSE 0),
                          !.chunks = Append(@, [first |-> Contract(j)!Delivered,
                                                count |-> m])]
    <3>1. (IF TRUE THEN "ended" ELSE "open") = "ended"
      OBVIOUS
    <3>2. Promised(j).held - f - (IF TRUE THEN Contract(j)!Left - m ELSE 0) = b + m - f
      <4>1. Promised(j).held = b + (u - a)
        BY <1>5
      <4>2. (IF TRUE THEN Contract(j)!Left - m ELSE 0) = (u - a) - m
        BY <1>6
      <4> QED
        BY <2>2, <4>1, <4>2
    <3>3. Append(Promised(j).chunks, [first |-> Contract(j)!Delivered, count |-> m]) = d
      BY <1>5, <1>6, <1>7
    <3>4. [Promised(j) EXCEPT !.state = "ended", !.held = b + m - f, !.chunks = d]
            = [state |-> "ended", size |-> u, held |-> b + m - f, chunks |-> d]
      <4>1. PICK p : p = [Promised(j) EXCEPT !.state = "ended"]
        OBVIOUS
      <4>2. p = [state |-> "ended", size |-> u, held |-> b + (u - a), chunks |-> c]
        BY <1>5, <4>1
      <4>3. PICK q : q = [p EXCEPT !.held = b + m - f]
        OBVIOUS
      <4>4. q = [state |-> "ended", size |-> u, held |-> b + m - f, chunks |-> c]
        BY <4>2, <4>3
      <4>5. [q EXCEPT !.chunks = d]
              = [state |-> "ended", size |-> u, held |-> b + m - f, chunks |-> d]
        BY <4>4
      <4> QED
        BY <4>1, <4>3, <4>5, Zenon
    <3> QED
      BY <2>1, <3>1, <3>2, <3>3, <3>4, Zenon
  <2>4. m \in 1..Contract(j)!Left /\ f \in 0..m /\ Promised(j).state = "open"
    BY <1>1, <1>2, <1>3, <1>5, <1>6
  <2>5. Contract(j)!Deliver
    BY <2>3, <2>4, Zenon DEF Contract!Deliver
  <2> QED
    BY <2>5 DEF Contract!Step, Contract!Next
<1>10. CASE job'[j].state = "queued" /\ m # u - a
  <2>1. Promised(j)' = [state |-> "open", size |-> u,
                        held |-> b + m - f + (u - (a + m)), chunks |-> d]
    BY <1>2, <1>3, <1>8, <1>10, PromisedNow DEF PromiseOf, Phase, Held, IsActive
  <2>2. b + m - f + (u - (a + m)) = b + (u - a) - f - 0
    BY <1>2, <1>1
  <2>3. Promised(j)' = [Promised(j) EXCEPT !.state = IF FALSE THEN "ended" ELSE "open",
                          !.held = @ - f - (IF FALSE THEN Contract(j)!Left - m ELSE 0),
                          !.chunks = Append(@, [first |-> Contract(j)!Delivered,
                                                count |-> m])]
    <3>1. (IF FALSE THEN "ended" ELSE "open") = "open"
      OBVIOUS
    <3>2. Promised(j).held - f - (IF FALSE THEN Contract(j)!Left - m ELSE 0) = b + m - f + (u - (a + m))
      <4>1. Promised(j).held = b + (u - a)
        BY <1>5
      <4>2. (IF FALSE THEN Contract(j)!Left - m ELSE 0) = 0
        BY <1>6
      <4> QED
        BY <2>2, <4>1, <4>2
    <3>3. Append(Promised(j).chunks, [first |-> Contract(j)!Delivered, count |-> m]) = d
      BY <1>5, <1>6, <1>7
    <3>4. [Promised(j) EXCEPT !.state = "open", !.held = b + m - f + (u - (a + m)), !.chunks = d]
            = [state |-> "open", size |-> u, held |-> b + m - f + (u - (a + m)), chunks |-> d]
      <4>1. PICK p : p = [Promised(j) EXCEPT !.state = "open"]
        OBVIOUS
      <4>2. p = [state |-> "open", size |-> u, held |-> b + (u - a), chunks |-> c]
        BY <1>5, <4>1
      <4>3. PICK q : q = [p EXCEPT !.held = b + m - f + (u - (a + m))]
        OBVIOUS
      <4>4. q = [state |-> "open", size |-> u, held |-> b + m - f + (u - (a + m)), chunks |-> c]
        BY <4>2, <4>3
      <4>5. [q EXCEPT !.chunks = d]
              = [state |-> "open", size |-> u, held |-> b + m - f + (u - (a + m)), chunks |-> d]
        BY <4>4
      <4> QED
        BY <4>1, <4>3, <4>5, Zenon
    <3> QED
      BY <2>1, <3>1, <3>2, <3>3, <3>4, Zenon
  <2>4. /\ m \in 1..Contract(j)!Left /\ f \in 0..m /\ Promised(j).state = "open"
        /\ m = Contract(j)!Left => FALSE
    BY <1>1, <1>2, <1>3, <1>5, <1>6, <1>10
  <2>5. Contract(j)!Deliver
    BY <2>3, <2>4, Zenon DEF Contract!Deliver
  <2> QED
    BY <2>5 DEF Contract!Step, Contract!Next
<1> QED
  BY <1>3, <1>9, <1>10
-----------------------------------------------------------------------------
\* Whatever leases, cancellations and failures do to a batch is a step of
\* BatchContract or none: chunks are added at the end, with the quota they settle
\* (ControlDatabase: finish_record_batch_slice, fail_record_batch,
\* cancel_record_batch, claim_record_batch, initialize).
THEOREM ContractKept == Spec => KeepsTheContract
<1>1. Init => \A j \in Job : Contract(j)!Init
  BY DEF Init, Contract!Init, Contract!Absent, Promised, NoRow, Active, InState
<1>2. BatchInv /\ [Next]_vars => \A j \in Job : Contract(j)!Step
  <2> SUFFICES ASSUME BatchForm, [Next]_vars, NEW j \in Job
               PROVE  Contract(j)!Step
    BY BatchNow
  <2> QED
    BY JobMoves, KeptIsNoStep, EnqueueIsAdmission, ForgottenIsForget, ClosedIsEnd,
       SlicedIsDelivery
<1> QED
  BY <1>1, <1>2, BatchesCorrect, PTL DEF Spec, KeepsTheContract
-----------------------------------------------------------------------------
(* Cancellations *)

\* A job that waits was not cancelled: the invariant that CancellationHolds needs.
Waits(r) == r.cancel => r.state # "queued"

CancelInv == \A j \in Job : Waits(job[j])

\* What a step makes of a row.
RowStep(r, s) ==
    /\ Waits(s)
    /\ r.cancel => s.state # "queued" /\ s.owner \in {r.owner, NoWorker}
    /\ r.state \in Ended => s \in {r, NoRow}

\* The recovery ends what was cancelled, and queues only what was not.
LEMMA RecoveryKeepsCancelled ==
    ASSUME BatchForm, CancelInv, NEW j \in Job
    PROVE  RowStep(job[j], Recovered[j])
<1>1. job[j] \in JobRow /\ Waits(job[j])
  BY FormFacts DEF CancelInv
<1>2. CASE j \in Abandoned
  <2>1. Recovered[j] = [job[j] EXCEPT !.state = "cancelled", !.owner = NoWorker,
                                      !.live = FALSE, !.ended = today,
                                      !.released = UnitsOf(j) - job[j].committed]
    BY <1>2 DEF Recovered
  <2>2. Recovered[j].state = "cancelled" /\ Recovered[j].owner = NoWorker
    BY <1>1, <2>1 DEF JobRow
  <2>3. job[j].state = "running"
    BY <1>2 DEF Abandoned, Expired, InState
  <2> QED
    BY <2>2, <2>3 DEF RowStep, Waits, Ended
<1>3. CASE j \in Expired /\ j \notin Abandoned
  <2>1. Recovered[j] = [job[j] EXCEPT !.state = "queued", !.owner = NoWorker, !.live = FALSE]
    BY <1>3 DEF Recovered
  <2>2. Recovered[j].cancel = job[j].cancel
    BY <1>1, <2>1 DEF JobRow
  <2>3. job[j].state = "running" /\ ~job[j].cancel
    BY <1>3 DEF Abandoned, Expired, InState
  <2> QED
    BY <2>2, <2>3 DEF RowStep, Waits, Ended
<1>4. CASE j \notin Expired
  <2>1. Recovered[j] = job[j]
    BY <1>4 DEF Recovered, Abandoned
  <2> QED
    BY <1>1, <2>1 DEF RowStep, Waits
<1> QED
  BY <1>2, <1>3, <1>4

\* A job that a claim gives to a worker was not cancelled.
LEMMA ClaimKeepsCancelled ==
    ASSUME BatchForm, CancelInv, NEW w \in Worker, Claim(w), NEW j \in Job
    PROVE  RowStep(job[j], job'[j])
<1>1. Recovered \in [Job -> JobRow] /\ RowStep(job[j], Recovered[j])
  BY RecoveredForm, RecoveryKeepsCancelled DEF JobsOK
<1>2. CASE job' = Recovered
  BY <1>1, <1>2
<1>3. ASSUME NEW k \in Chosen,
             job' = [Recovered EXCEPT ![k] =
                       [@ EXCEPT !.state = "running", !.owner = w, !.live = TRUE]]
      PROVE  RowStep(job[j], job'[j])
  <2>1. k \in Queued \cup (Expired \ Abandoned)
    BY DEF Chosen
  <2>2. CASE j = k
    <3>1. job'[j].state = "running"
      BY <1>1, <1>3, <2>2 DEF JobRow
    <3>2. CASE j \in Queued
      <4>1. job[j].state = "queued" /\ ~job[j].cancel
        BY <3>2 DEF Queued, InState, CancelInv, Waits
      <4> QED
        BY <3>1, <4>1 DEF RowStep, Waits, Ended
    <3>3. CASE j \in Expired /\ j \notin Abandoned
      <4>1. job[j].state = "running" /\ ~job[j].cancel
        BY <3>3 DEF Expired, Abandoned, InState
      <4> QED
        BY <3>1, <4>1 DEF RowStep, Waits, Ended
    <3> QED
      BY <2>1, <2>2, <3>2, <3>3
  <2>3. CASE j # k
    BY <1>1, <1>3, <2>3
  <2> QED
    BY <2>2, <2>3
<1> QED
  BY <1>2, <1>3 DEF Claim

\* A slice that ends ends a job that was cancelled.
LEMMA FinishKeepsCancelled ==
    ASSUME BatchForm, CancelInv, NEW w \in Worker, Finish(w), NEW j \in Job
    PROVE  RowStep(job[j], job'[j])
<1>1. PICK m \in Halvings(worker[w].count), f \in {0, 1} : FinishSlice(w, m, f)
  BY DEF Finish
<1>2. PICK k \in Job : k = worker[w].job /\ job[k].state = "running"
  BY <1>1, WorkerFacts DEF FinishSlice, Holds
<1>3. job \in [Job -> JobRow] /\ Waits(job[j])
  BY FormFacts DEF CancelInv
<1> DEFINE left == IF job[k].cancel THEN AtLeast0(Remaining(k) - m) ELSE 0
           st == IF job[k].cancel THEN "cancelled"
                 ELSE IF Remaining(k) <= m THEN "done" ELSE "queued"
<1>4. job' = [job EXCEPT ![k] = FinishedAs(job[k], m, f, st, left, today)]
  BY <1>1, <1>2, <1>3 DEF FinishSlice, FinishedAs
<1>5. job[k].cancel => st # "queued"
  OBVIOUS
<1> HIDE DEF left, st
<1>6. CASE j = k
  <2>1. /\ job'[j].state = st /\ job'[j].cancel = job[j].cancel
        /\ job'[j].owner = NoWorker
    BY <1>3, <1>4, <1>6 DEF FinishedAs, JobRow
  <2> QED
    BY <1>2, <1>5, <1>6, <2>1 DEF RowStep, Waits, Ended
<1>7. CASE j # k
  <2>1. job'[j] = job[j]
    BY <1>3, <1>4, <1>7
  <2> QED
    BY <1>3, <2>1 DEF RowStep, Waits
<1> QED
  BY <1>6, <1>7

LEMMA CancelKeepsCancelled ==
    ASSUME BatchForm, CancelInv, NEW k \in Job, Cancel(k), NEW j \in Job
    PROVE  RowStep(job[j], job'[j])
<1>1. job \in [Job -> JobRow] /\ Waits(job[j])
  BY FormFacts DEF CancelInv
<1>2. CASE j # k
  <2>1. job'[j] = job[j]
    BY <1>1, <1>2 DEF Cancel
  <2> QED
    BY <1>1, <2>1 DEF RowStep, Waits
<1>3. CASE j = k /\ job[k].state = "queued"
  <2>1. job' = [job EXCEPT ![k] =
                  [job[k] EXCEPT !.state = "cancelled", !.cancel = TRUE, !.ended = today,
                                 !.released = @ + Remaining(k)]]
    BY <1>3 DEF Cancel
  <2>2. job'[j].state = "cancelled" /\ job'[j].owner = job[j].owner
    BY <1>1, <1>3, <2>1 DEF JobRow
  <2> QED
    BY <1>3, <2>2 DEF RowStep, Waits, Ended
<1>4. CASE j = k /\ job[k].state = "running"
  <2>1. job' = [job EXCEPT ![k].cancel = TRUE]
    BY <1>4 DEF Cancel
  <2>2. job'[j].state = "running" /\ job'[j].owner = job[j].owner
    BY <1>1, <1>4, <2>1 DEF JobRow
  <2> QED
    BY <1>4, <2>2 DEF RowStep, Waits, Ended
<1> QED
  BY <1>2, <1>3, <1>4 DEF Cancel

LEMMA FailKeepsCancelled ==
    ASSUME BatchForm, CancelInv, NEW w \in Worker, Fail(w), NEW j \in Job
    PROVE  RowStep(job[j], job'[j])
<1>1. job \in [Job -> JobRow] /\ Waits(job[j])
  BY FormFacts DEF CancelInv
<1>2. PICK k \in Job : k = worker[w].job /\ job[k].state = "running"
  BY WorkerFacts DEF Fail, Holds
<1>3. job' = [job EXCEPT ![k] =
                [job[k] EXCEPT !.state = "failed", !.released = @ + Remaining(k),
                               !.owner = NoWorker, !.live = FALSE, !.ended = today]]
  BY <1>2 DEF Fail
<1>4. CASE j # k
  <2>1. job'[j] = job[j]
    BY <1>1, <1>3, <1>4
  <2> QED
    BY <1>1, <2>1 DEF RowStep, Waits
<1>5. CASE j = k
  <2>1. job'[j].state = "failed" /\ job'[j].owner = NoWorker
    BY <1>1, <1>3, <1>5 DEF JobRow
  <2> QED
    BY <1>2, <1>5, <2>1 DEF RowStep, Waits, Ended
<1> QED
  BY <1>4, <1>5

LEMMA NextKeepsCancelled ==
    ASSUME BatchForm, CancelInv, [Next]_vars, NEW j \in Job
    PROVE  RowStep(job[j], job'[j])
<1>1. job \in [Job -> JobRow] /\ Waits(job[j])
  BY FormFacts DEF CancelInv
<1>2. ASSUME job'[j] = job[j]
      PROVE  RowStep(job[j], job'[j])
  BY <1>1, <1>2 DEF RowStep, Waits
<1>3. ASSUME NEW k \in Job, Enqueue(k)
      PROVE  RowStep(job[j], job'[j])
  <2>1. /\ job[k] = NoRow
        /\ job' = [job EXCEPT ![k] = [NoRow EXCEPT !.state = "queued", !.day = today]]
    BY <1>3, FormFacts DEF RowOK, CountOK, Enqueue
  <2>2. CASE j # k
    BY <1>1, <1>2, <2>1, <2>2
  <2>3. CASE j = k
    <3>1. job'[j].cancel = FALSE /\ job[j].cancel = FALSE /\ job[j].state = "absent"
      BY <1>1, <2>1, <2>3 DEF NoRow
    <3> QED
      BY <3>1 DEF RowStep, Waits, Ended
  <2> QED
    BY <2>2, <2>3
<1>4. ASSUME NEW k \in Job, LeaseExpires(k)
      PROVE  RowStep(job[j], job'[j])
  <2>1. /\ job'[j].state = job[j].state /\ job'[j].cancel = job[j].cancel
        /\ job'[j].owner = job[j].owner
        /\ job'[j] = job[j] \/ job[j].state = "running"
    BY <1>1, <1>4 DEF LeaseExpires, JobRow
  <2> QED
    BY <1>1, <2>1 DEF RowStep, Waits, Ended
<1>5. CASE Initialize
  <2>1. PICK S \in SUBSET {k \in InState(Ended) : job[k].ended < today} :
          job' = [k \in Job |-> IF k \in S THEN NoRow ELSE job[k]]
    BY <1>5 DEF Initialize
  <2>2. CASE j \in S
    <3>1. job'[j] = NoRow
      BY <2>1, <2>2
    <3> QED
      BY <3>1 DEF RowStep, Waits, NoRow
  <2>3. CASE j \notin S
    BY <1>2, <2>1, <2>3
  <2> QED
    BY <2>2, <2>3
<1>6. ASSUME \/ \E s \in Subject, n \in 1..MaxSpent : Spend(s, n)
             \/ \E s \in Subject : Refuse(s)
             \/ \E w \in Worker : LoseLease(w) \/ Dies(w)
             \/ Midnight
             \/ UNCHANGED vars
      PROVE  job'[j] = job[j]
  BY <1>6 DEF Spend, Refuse, LoseLease, Dies, Midnight, vars
<1> QED
  BY <1>2, <1>3, <1>4, <1>5, <1>6, ClaimKeepsCancelled, CancelKeepsCancelled,
     FailKeepsCancelled, FinishKeepsCancelled DEF Next, Progress, Failure, WorkerStep

\* Once its cancellation is asked for, a job never returns to the queue nor goes to
\* another worker, and one that has ended stays as it is until its row is deleted
\* (cancel_record_batch, claim_record_batch, finish_record_batch_slice).
THEOREM CancelledStaysCancelled == Spec => CancellationHolds
<1>1. Init => CancelInv
  BY DEF Init, CancelInv, Waits, NoRow
<1>2. BatchInv /\ CancelInv /\ [Next]_vars => CancelInv'
  BY BatchNow, NextKeepsCancelled DEF CancelInv, RowStep
<1>3. BatchInv /\ CancelInv /\ [Next]_vars =>
        [\A j \in Job :
           /\ job[j].cancel => job'[j].state \notin {"queued"}
                               /\ job'[j].owner \in {job[j].owner, NoWorker}
           /\ job[j].state \in Ended => job'[j] \in {job[j], NoRow}]_vars
  BY BatchNow, NextKeepsCancelled DEF RowStep
<1> QED
  BY <1>1, <1>2, <1>3, BatchesCorrect, PTL DEF Spec, CancellationHolds
-----------------------------------------------------------------------------
(* The shares of the subjects *)

RunningNow(s) == {j \in InState({"running"}) : SubjectOf(j) = s}

\* All steps but a claim leave at work what was, or less.
LEMMA OnlyClaimsRun ==
    ASSUME BatchForm, [Next]_vars, \A w \in Worker : ~Claim(w), NEW j \in Job,
           job'[j].state = "running"
    PROVE  job[j].state = "running"
<1>1. job \in [Job -> JobRow]
  BY FormFacts
<1>2. ASSUME NEW k \in Job, Enqueue(k)
      PROVE  job[j].state = "running"
  <2>1. job' = [job EXCEPT ![k] = [NoRow EXCEPT !.state = "queued", !.day = today]]
    BY <1>2 DEF Enqueue
  <2> QED
    BY <1>1, <2>1 DEF NoRow
<1>3. ASSUME NEW k \in Job, Cancel(k)
      PROVE  job[j].state = "running"
  <2>1. CASE j # k
    <3>1. job'[j] = job[j]
      BY <1>1, <1>3, <2>1 DEF Cancel
    <3> QED
      BY <3>1
  <2>2. CASE j = k /\ job[k].state = "queued"
    <3>1. job' = [job EXCEPT ![k] =
                    [job[k] EXCEPT !.state = "cancelled", !.cancel = TRUE, !.ended = today,
                                   !.released = @ + Remaining(k)]]
      BY <1>3, <2>2 DEF Cancel
    <3> QED
      BY <1>1, <2>2, <3>1 DEF JobRow
  <2> QED
    BY <1>3, <2>1, <2>2 DEF Cancel
<1>4. ASSUME NEW w \in Worker, Fail(w) \/ Finish(w)
      PROVE  job[j].state = "running"
  <2>1. PICK k \in Job : k = worker[w].job /\ job[k].state = "running"
    BY <1>4, WorkerFacts DEF Fail, Finish, FinishSlice, Holds
  <2>2. \E row : job' = [job EXCEPT ![k] = row]
    BY <1>4, <2>1 DEF Fail, Finish, FinishSlice
  <2>3. j # k => job'[j] = job[j]
    BY <1>1, <2>2
  <2> QED
    BY <2>1, <2>3
<1>5. ASSUME NEW k \in Job, LeaseExpires(k)
      PROVE  job[j].state = "running"
  BY <1>1, <1>5 DEF LeaseExpires, JobRow
<1>6. CASE Initialize
  <2>1. PICK S \in SUBSET {k \in InState(Ended) : job[k].ended < today} :
          job' = [k \in Job |-> IF k \in S THEN NoRow ELSE job[k]]
    BY <1>6 DEF Initialize
  <2>2. job'[j] = NoRow \/ job'[j] = job[j]
    BY <2>1
  <2> QED
    BY <2>2 DEF NoRow
<1>7. ASSUME \/ \E s \in Subject, n \in 1..MaxSpent : Spend(s, n)
             \/ \E s \in Subject : Refuse(s)
             \/ \E w \in Worker : LoseLease(w) \/ Dies(w)
             \/ Midnight
             \/ UNCHANGED vars
      PROVE  job' = job
  BY <1>7 DEF Spend, Refuse, LoseLease, Dies, Midnight, vars
<1> QED
  BY <1>2, <1>3, <1>4, <1>5, <1>6, <1>7 DEF Next, Progress, Failure, WorkerStep

\* A claim leaves at work what holds a live lease, and adds a job whose subject has
\* a share left beside it.
LEMMA ClaimRuns ==
    ASSUME BatchForm, NEW w \in Worker, Claim(w)
    PROVE  \/ \A s \in Subject : RunningNow(s)' \subseteq RunningOf(s)
           \/ \E k \in Job :
                /\ Cardinality(RunningOf(SubjectOf(k))) < MaxActivePerSubject
                /\ \A s \in Subject :
                     /\ RunningNow(s)' \subseteq RunningOf(s) \cup {k}
                     /\ s # SubjectOf(k) => RunningNow(s)' \subseteq RunningOf(s)
<1>1. Recovered \in [Job -> JobRow] /\ job \in [Job -> JobRow]
  BY FormFacts, RecoveredForm DEF JobsOK
<1>2. ASSUME NEW j \in Job, Recovered[j].state = "running"
      PROVE  j \in RunningOf(SubjectOf(j))
  <2>1. CASE j \in Abandoned
    <3>1. Recovered[j] = [job[j] EXCEPT !.state = "cancelled", !.owner = NoWorker,
                                        !.live = FALSE, !.ended = today,
                                        !.released = UnitsOf(j) - job[j].committed]
      BY <2>1 DEF Recovered
    <3> QED
      BY <1>1, <1>2, <3>1 DEF JobRow
  <2>2. CASE j \in Expired /\ j \notin Abandoned
    <3>1. Recovered[j] = [job[j] EXCEPT !.state = "queued", !.owner = NoWorker,
                                        !.live = FALSE]
      BY <2>2 DEF Recovered
    <3> QED
      BY <1>1, <1>2, <3>1 DEF JobRow
  <2>3. CASE j \notin Expired
    <3>1. Recovered[j] = job[j]
      BY <2>3 DEF Recovered, Abandoned
    <3> QED
      BY <1>1, <1>2, <2>3, <3>1 DEF Expired, RunningOf, InState
  <2> QED
    BY <2>1, <2>2, <2>3
<1>3. CASE job' = Recovered
  <2>1. \A s \in Subject : RunningNow(s)' \subseteq RunningOf(s)
    BY <1>2, <1>3 DEF RunningNow, InState
  <2> QED
    BY <2>1
<1>4. ASSUME NEW k \in Chosen,
             job' = [Recovered EXCEPT ![k] =
                       [@ EXCEPT !.state = "running", !.owner = w, !.live = TRUE]]
      PROVE  /\ \A s \in Subject : RunningNow(s)' \subseteq RunningOf(s) \cup {k}
             /\ k \in Job
             /\ Cardinality(RunningOf(SubjectOf(k))) < MaxActivePerSubject
             /\ \A s \in Subject : s # SubjectOf(k) =>
                  RunningNow(s)' \subseteq RunningOf(s)
  <2>1. k \in Job /\ Cardinality(RunningOf(SubjectOf(k))) < MaxActivePerSubject
    BY DEF Chosen, Eligible, Queued, Expired, InState
  <2>2. \A j \in Job : j # k => job'[j] = Recovered[j]
    BY <1>1, <1>4, <2>1
  <2>3. ASSUME NEW s \in Subject, NEW j \in RunningNow(s)'
        PROVE  j = k \/ j \in RunningOf(s)
    <3>1. j \in Job /\ job'[j].state = "running" /\ SubjectOf(j) = s
      BY DEF RunningNow, InState
    <3> QED
      BY <1>2, <2>2, <3>1
  <2>4. ASSUME NEW s \in Subject, s # SubjectOf(k), NEW j \in RunningNow(s)'
        PROVE  j # k
    BY <2>4 DEF RunningNow
  <2> QED
    BY <2>1, <2>3, <2>4
<1>5. CASE \E k \in Chosen :
             job' = [Recovered EXCEPT ![k] =
                       [@ EXCEPT !.state = "running", !.owner = w, !.live = TRUE]]
  BY <1>4, <1>5
<1>6. \/ job' = Recovered
      \/ \E k \in Chosen :
             job' = [Recovered EXCEPT ![k] =
                       [@ EXCEPT !.state = "running", !.owner = w, !.live = TRUE]]
  BY DEF Claim
<1> QED
  BY <1>3, <1>5, <1>6

LEMMA RunningFinite ==
    ASSUME NEW s
    PROVE  /\ IsFiniteSet(RunningNow(s)) /\ IsFiniteSet(RunningOf(s))
           /\ RunningOf(s) \subseteq RunningNow(s)
<1>1. RunningNow(s) \subseteq Job /\ RunningOf(s) \subseteq RunningNow(s)
  BY DEF RunningNow, RunningOf, InState
<1> QED
  BY <1>1, JobFacts, FS_Subset

LEMMA SharesStep ==
    ASSUME BatchForm, SubjectsShareWorkers, [Next]_vars, NEW s \in Subject
    PROVE  Cardinality(RunningNow(s)') <= MaxActivePerSubject
<1>1. PICK A : A = RunningNow(s)
  OBVIOUS
<1>2. PICK L : L = RunningOf(s)
  OBVIOUS
<1>3. PICK B : B = RunningNow(s)'
  OBVIOUS
<1>4. /\ IsFiniteSet(A) /\ IsFiniteSet(L) /\ L \subseteq A
      /\ Cardinality(A) <= MaxActivePerSubject
  BY <1>1, <1>2, RunningFinite DEF SubjectsShareWorkers, RunningNow
<1>5. Cardinality(L) <= Cardinality(A) /\ Cardinality(A) \in Nat /\ Cardinality(L) \in Nat
  BY <1>4, FS_Subset, FS_CardinalityType
<1>6. MaxActivePerSubject \in Nat \ {0}
  BY BatchesAssumption
<1>7. ASSUME B \subseteq A
      PROVE  Cardinality(B) <= MaxActivePerSubject
  <2>1. IsFiniteSet(B) /\ Cardinality(B) <= Cardinality(A)
    BY <1>4, <1>7, FS_Subset
  <2> QED
    BY <1>4, <1>5, <1>6, <2>1, FS_CardinalityType
<1>8. CASE \A w \in Worker : ~Claim(w)
  <2>1. B \subseteq A
    BY <1>1, <1>3, <1>8, OnlyClaimsRun DEF RunningNow, InState
  <2> QED
    BY <1>3, <1>7, <2>1
<1>9. ASSUME NEW w \in Worker, Claim(w)
      PROVE  Cardinality(B) <= MaxActivePerSubject
  <2>1. \/ B \subseteq L
        \/ \E k \in Job : /\ Cardinality(RunningOf(SubjectOf(k))) < MaxActivePerSubject
                          /\ B \subseteq L \cup {k}
                          /\ s # SubjectOf(k) => B \subseteq L
    BY <1>2, <1>3, <1>9, ClaimRuns
  <2>2. CASE B \subseteq L
    BY <1>4, <1>7, <2>2
  <2>3. ASSUME NEW k \in Job, B \subseteq L \cup {k}, s = SubjectOf(k),
               Cardinality(RunningOf(SubjectOf(k))) < MaxActivePerSubject
        PROVE  Cardinality(B) <= MaxActivePerSubject
    <3>1. Cardinality(L) < MaxActivePerSubject
      BY <1>2, <2>3
    <3>2. IsFiniteSet(L \cup {k}) /\ Cardinality(L \cup {k}) <= Cardinality(L) + 1
      <4>1. /\ IsFiniteSet(L \cup {k})
            /\ Cardinality(L \cup {k}) =
                 IF k \in L THEN Cardinality(L) ELSE Cardinality(L) + 1
        BY <1>4, FS_AddElement
      <4> QED
        BY <1>5, <4>1
    <3>3. Cardinality(B) <= Cardinality(L \cup {k})
          /\ Cardinality(B) \in Nat /\ Cardinality(L \cup {k}) \in Nat
      BY <2>3, <3>2, FS_Subset, FS_CardinalityType
    <3> QED
      BY <1>5, <1>6, <3>1, <3>2, <3>3
  <2> QED
    BY <2>1, <2>2, <2>3
<1> QED
  BY <1>3, <1>8, <1>9

\* No subject ever has more slices at work than its share, whatever leases run out
\* (claim_record_batch).
THEOREM SharesAreKept == Spec => []SubjectsShareWorkers
<1>1. Init => SubjectsShareWorkers
  <2> SUFFICES ASSUME Init, NEW s \in Subject
               PROVE  Cardinality(RunningNow(s)) <= MaxActivePerSubject
    BY DEF SubjectsShareWorkers, RunningNow
  <2>1. RunningNow(s) = {}
    BY DEF Init, NoRow, RunningNow, InState
  <2> QED
    BY <2>1, FS_EmptySet, BatchesAssumption
<1>2. BatchInv /\ SubjectsShareWorkers /\ [Next]_vars => SubjectsShareWorkers'
  <2> SUFFICES ASSUME BatchForm, SubjectsShareWorkers, [Next]_vars
               PROVE  SubjectsShareWorkers'
    BY BatchNow
  <2>1. \A s \in Subject : Cardinality(RunningNow(s)') <= MaxActivePerSubject
    BY SharesStep
  <2> QED
    BY <2>1 DEF SubjectsShareWorkers, RunningNow
<1> QED
  BY <1>1, <1>2, BatchesCorrect, PTL DEF Spec
=============================================================================
