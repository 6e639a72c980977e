-------------------------- MODULE CompactionProofs --------------------------
(***************************************************************************)
(* What is proved about the generation pipeline for any set of deltas,     *)
(* partitions and concurrent invocations: its types, its map phase, and    *)
(* the content of what it builds - every candidate is its base with the    *)
(* records of its own deltas, and what a reduced partition stores never    *)
(* changes.  The last two hold when deliveries end before a rollback.      *)
(*                                                                         *)
(* Then what readers of the catalog see, for as many rollbacks as an       *)
(* operator asks for: the root is a version that was activated and not     *)
(* withdrawn, and the pipeline is an implementation of Catalog.  Rollbacks *)
(* come from one operator at a time; where there are none, any number of   *)
(* operators may activate.                                                 *)
(***************************************************************************)
EXTENDS Compaction, FiniteSetTheorems, TLAPS
-----------------------------------------------------------------------------
(* Types *)

\* Both initial states are well typed.
LEMMA InitTypeOK ==
    ASSUME NEW s \in {"absent", "active"}, NEW doc \in {NoDoc, SeedDoc},
           StartsWith(s, doc)
    PROVE  TypeOK
<1>1. NoWorker \in Worker \cup {NoWorker}
  OBVIOUS
<1>2. NoDoc \in Doc /\ SeedDoc \in Doc
  BY DEF NoDoc, SeedDoc, Doc, Version, Content, Empty, NoVersion, Seed
<1> QED
  BY <1>1, <1>2, CompactionAssumption
     DEF StartsWith, TypeOK, DeltaRow, GenRow, GenState, PartRow, Content, Empty,
         CronJob, WorkerJob, AdminJob, Idle, Version, Seed, NoVersion

\* The number of partition rows is a number.
LEMMA CountsPartitions ==
    ASSUME NEW S \in SUBSET Prefix
    PROVE  Cardinality(S) \in Nat
BY CompactionAssumption, FS_Subset, FS_CardinalityType

\* A staged candidate is a root document.
LEMMA StageType ==
    ASSUME TypeOK, NEW g \in Gen, Stage(g)
    PROVE  candidate' \in [Version -> Doc] /\ gens' \in [Gen -> GenRow]
<1>1. StagedDoc(g) \in Doc
  BY DEF TypeOK, StagedDoc, Doc, Version, Content, PartRow, Rows
<1>2. candidate' \in [Version -> Doc]
  BY <1>1 DEF TypeOK, Stage
<1>3. gens' \in [Gen -> GenRow]
  BY DEF TypeOK, Stage, GenRow, GenState
<1> QED
  BY <1>2, <1>3

\* The steps of a scheduled invocation keep the types.
LEMMA CronType ==
    ASSUME TypeOK, NEW c \in Cron, CronStep(c)
    PROVE  TypeOK'
<1> USE CompactionAssumption
<1> SUFFICES /\ delta' \in [Delta -> DeltaRow]
             /\ gens' \in [Gen -> GenRow]
             /\ candidate' \in [Version -> Doc]
             /\ mapJobs' \subseteq Gen \X Delta
             /\ reduceJobs' \subseteq Gen \X Prefix
             /\ cron' \in [Cron -> CronJob]
  BY DEF TypeOK, CronStep, CronFindsLive, CronFindsNone, CronReadsPending,
         CronCommits, CronCommitRefused, CronSendsMapJobs, CronStartsReduce,
         CronStages, Stage, ledger, store, queue
<1>1. CASE CronFindsLive(c)
  BY <1>1 DEF TypeOK, CronFindsLive, CronGoes, CronJob, Oldest, InState, ledger,
              store, queue
<1>2. CASE CronFindsNone(c)
  BY <1>2 DEF TypeOK, CronFindsNone, CronGoes, CronJob, ledger, store, queue
<1>3. CASE CronReadsPending(c)
  <2>1. root.version \in Version \cup {NoVersion}
    BY DEF TypeOK, Doc
  <2>2. CASE CronGoes(c, [pc |-> "reduce"])
    BY <1>3, <2>2 DEF TypeOK, CronReadsPending, CronGoes, CronJob, ledger, store,
                      queue
  <2>3. ASSUME NEW S \in SUBSET Delta,
               CronGoes(c, [pc |-> "commit", deltas |-> S, base |-> root.version])
        PROVE  cron' \in [Cron -> CronJob]
    BY <2>1, <2>3 DEF TypeOK, CronGoes, CronJob
  <2> QED
    BY <1>3, <2>2, <2>3 DEF TypeOK, CronReadsPending, InDeltaState, ledger, store,
                            queue
<1>4. CASE CronCommits(c)
  <2>1. cron[c].base \in Version \cup {NoVersion}
    BY <1>4 DEF TypeOK, CronCommits, CronJob, Idle
  <2> QED
    BY <1>4, <2>1 DEF TypeOK, CronCommits, CronGoes, CronJob, Oldest, InState,
                      DeltaRow, GenRow, GenState, ledger, store, queue
<1>5. CASE CronCommitRefused(c)
  BY <1>5 DEF TypeOK, CronCommitRefused, CronGoes, CronJob, ledger, store, queue
<1>6. CASE CronSendsMapJobs(c)
  <2>1. cron[c].gen \in Gen
    BY <1>6 DEF TypeOK, CronSendsMapJobs, CronJob, Idle
  <2> QED
    BY <1>6, <2>1 DEF TypeOK, CronSendsMapJobs, CronGoes, CronJob, InDeltaState,
                      ledger, store, queue
<1>7. CASE CronStartsReduce(c)
  <2>1. CASE CronGoes(c, Idle) /\ UNCHANGED <<gens, reduceJobs>>
    BY <1>7, <2>1 DEF TypeOK, CronStartsReduce, CronGoes, CronJob, store
  <2>2. ASSUME NEW g \in Gen,
               gens' = [gens EXCEPT ![g].state = "reducing"],
               reduceJobs' = reduceJobs \cup {<<g, p>> : p \in Claimable(g)},
               CronGoes(c, IF Claimable(g) = {}
                           THEN [pc |-> "stage", gen |-> g] ELSE Idle)
        PROVE  /\ gens' \in [Gen -> GenRow]
               /\ reduceJobs' \subseteq Gen \X Prefix
               /\ cron' \in [Cron -> CronJob]
    <3>1. gens' \in [Gen -> GenRow]
      BY <2>2 DEF TypeOK, GenRow, GenState
    <3>2. Claimable(g) \subseteq Prefix
      BY DEF Claimable, Rows
    <3>3. reduceJobs' \subseteq Gen \X Prefix
      BY <2>2, <3>2 DEF TypeOK
    <3>4. cron' \in [Cron -> CronJob]
      BY <2>2 DEF TypeOK, CronGoes, CronJob
    <3> QED
      BY <3>1, <3>3, <3>4
  <2> DEFINE ready == InState({"mapped", "reducing"})
  <2>3. ASSUME NEW g \in Oldest(ready)
        PROVE  g \in Gen
    BY DEF Oldest, InState
  <2> HIDE DEF ready
  <2>4. CASE \E g \in Oldest(ready) :
               /\ gens' = [gens EXCEPT ![g].state = "reducing"]
               /\ reduceJobs' = reduceJobs \cup {<<g, p>> : p \in Claimable(g)}
               /\ CronGoes(c, IF Claimable(g) = {}
                              THEN [pc |-> "stage", gen |-> g] ELSE Idle)
    <3>1. /\ gens' \in [Gen -> GenRow]
          /\ reduceJobs' \subseteq Gen \X Prefix
          /\ cron' \in [Cron -> CronJob]
      BY <2>2, <2>3, <2>4
    <3> QED
      BY <1>7, <3>1 DEF TypeOK, CronStartsReduce, store
  <2> QED
    BY <1>7, <2>1, <2>4 DEF CronStartsReduce, ready
<1>8. CASE CronStages(c)
  <2>1. cron[c].gen \in Gen
    BY <1>8 DEF TypeOK, CronStages, CronJob, Idle
  <2>2. ASSUME Stage(cron[c].gen)
        PROVE  candidate' \in [Version -> Doc] /\ gens' \in [Gen -> GenRow]
    BY <2>1, <2>2, StageType
  <2> QED
    BY <1>8, <2>1, <2>2 DEF TypeOK, CronStages, CronGoes, CronJob, queue
<1> QED
  BY <1>1, <1>2, <1>3, <1>4, <1>5, <1>6, <1>7, <1>8 DEF CronStep

\* Leaving the map phase keeps the types.
LEMMA FinishType ==
    ASSUME TypeOK, NEW g \in Gen, FinishMapped(g)
    PROVE  part' \in [Gen -> [Prefix -> PartRow]] /\ gens' \in [Gen -> GenRow]
<1> DEFINE rows == {p \in Prefix : Overlay(g, p) # {}} \cup Rows(g)
<1>1. rows \in SUBSET Prefix
  BY DEF Rows
<1>2. Cardinality(rows) \in Nat
  BY <1>1, CountsPartitions
<1> DEFINE full == [p \in Prefix |->
                      IF p \in rows \ Rows(g)
                      THEN [part[g][p] EXCEPT !.state = "mapped"]
                      ELSE part[g][p]]
           done == [gens[g] EXCEPT !.state = "mapped",
                                   !.partitions = Cardinality(rows)]
<1>3. full \in [Prefix -> PartRow]
  <2> SUFFICES ASSUME NEW p \in Prefix
               PROVE  full[p] \in PartRow
    OBVIOUS
  <2>1. part[g][p] \in PartRow
    BY DEF TypeOK
  <2> QED
    BY <2>1 DEF PartRow
<1>4. done \in GenRow
  BY <1>2 DEF TypeOK, GenRow, GenState
<1>5. \/ UNCHANGED <<part, gens>>
      \/ /\ part' = [part EXCEPT ![g] = full]
         /\ gens' = gens \/ gens' = [gens EXCEPT ![g] = done]
  BY DEF FinishMapped
<1> HIDE DEF full, done
<1> QED
  BY <1>3, <1>4, <1>5 DEF TypeOK

\* The steps of a worker on a map job keep the types.
LEMMA MapType ==
    ASSUME TypeOK, NEW w \in Worker,
           \/ TakesMapJob(w)
           \/ MapCommits(w)
           \/ MapFinishes(w)
    PROVE  TypeOK'
<1> USE CompactionAssumption
<1>1. CASE TakesMapJob(w)
  <2> PICK g \in Gen, d \in Delta : MapReads(w, g, d)
    BY <1>1 DEF TakesMapJob
  <2>1. worker' \in [Worker -> WorkerJob]
    BY DEF TypeOK, MapReads, WorkerGoes, WorkerJob
  <2> QED
    BY <2>1 DEF TypeOK, MapReads, ledger, store, queue
<1>2. CASE MapCommits(w)
  <2> DEFINE g == worker[w].gen
             d == worker[w].delta
  <2>1. g \in Gen /\ d \in Delta
    BY <1>2 DEF TypeOK, MapCommits, WorkerJob, Idle
  <2>2. fragments' \subseteq Gen \X Delta \X Prefix
    BY <1>2, <2>1 DEF TypeOK, MapCommits
  <2>3. delta' \in [Delta -> DeltaRow]
    BY <1>2, <2>1 DEF TypeOK, MapCommits, DeltaRow
  <2>4. worker' \in [Worker -> WorkerJob]
    BY <1>2, <2>1 DEF TypeOK, MapCommits, WorkerGoes, WorkerJob
  <2> QED
    BY <1>2, <2>2, <2>3, <2>4 DEF TypeOK, MapCommits, store, queue
<1>3. CASE MapFinishes(w)
  <2> DEFINE g == worker[w].gen
  <2>1. g \in Gen
    BY <1>3 DEF TypeOK, MapFinishes, WorkerJob, Idle
  <2>2. FinishMapped(g)
    BY <1>3 DEF MapFinishes
  <2> HIDE DEF g
  <2>3. part' \in [Gen -> [Prefix -> PartRow]] /\ gens' \in [Gen -> GenRow]
    BY <2>1, <2>2, FinishType
  <2>4. worker' \in [Worker -> WorkerJob]
    BY <1>3 DEF TypeOK, MapFinishes, WorkerGoes, WorkerJob
  <2>5. mapJobs' \subseteq Gen \X Delta
    BY <1>3 DEF TypeOK, MapFinishes, Acknowledged
  <2> QED
    BY <1>3, <2>3, <2>4, <2>5 DEF TypeOK, MapFinishes, store
<1> QED
  BY <1>1, <1>2, <1>3

\* The steps of a worker on a reduce job, its failures included, keep the types.
LEMMA ReduceType ==
    ASSUME TypeOK, NEW w \in Worker,
           \/ TakesReduceJob(w)
           \/ ReduceReads(w) \/ ReducePuts(w) \/ ReduceChecks(w)
           \/ ReduceRefused(w) \/ ReduceCommits(w) \/ WorkerStages(w)
           \/ ReduceFails(w)
    PROVE  TypeOK'
<1> USE CompactionAssumption
<1>1. CASE TakesReduceJob(w)
  <2> PICK g \in Gen, p \in Prefix :
             ReduceClaims(w, g, p) \/ ReduceIsDuplicate(w, g, p)
    BY <1>1 DEF TakesReduceJob
  <2>1. worker' \in [Worker -> WorkerJob]
    BY DEF TypeOK, ReduceClaims, ReduceIsDuplicate, WorkerGoes, WorkerJob
  <2>2. part' \in [Gen -> [Prefix -> PartRow]]
    <3>1. ASSUME NEW row \in PartRow
          PROVE  [row EXCEPT !.state = "reducing", !.holder = w, !.live = TRUE]
                   \in PartRow
      BY DEF PartRow
    <3>2. CASE ReduceClaims(w, g, p)
      BY <3>1, <3>2 DEF TypeOK, ReduceClaims
    <3>3. CASE ReduceIsDuplicate(w, g, p)
      BY <3>3 DEF TypeOK, ReduceIsDuplicate, ledger
    <3> QED
      BY <3>2, <3>3
  <2> QED
    BY <2>1, <2>2 DEF TypeOK, ReduceClaims, ReduceIsDuplicate, ledger, store, queue
<1>2. CASE ReduceReads(w)
  <2> DEFINE g == worker[w].gen
             p == worker[w].prefix
  <2>1. g \in Gen /\ p \in Prefix
    BY <1>2 DEF TypeOK, ReduceReads, WorkerJob, Idle
  <2>2. root.parts[p] \cup Overlay(g, p) \subseteq Delta
    BY <2>1 DEF TypeOK, Doc, Content, Overlay
  <2>3. worker' \in [Worker -> WorkerJob]
    BY <1>2, <2>1, <2>2 DEF TypeOK, ReduceReads, WorkerGoes, WorkerJob
  <2> QED
    BY <1>2, <2>3 DEF TypeOK, ReduceReads, ledger, store, queue
<1>3. CASE ReducePuts(w)
  <2> DEFINE job == worker[w]
  <2>1. job \in [pc: {"put", "check", "commit"}, gen: Gen, prefix: Prefix,
                 content: SUBSET Delta, found: BOOLEAN]
    BY <1>3 DEF TypeOK, ReducePuts, WorkerJob, Idle
  <2>2. worker' \in [Worker -> WorkerJob]
    BY <1>3, <2>1 DEF TypeOK, ReducePuts, WorkerGoes, WorkerJob
  <2>3. objects' \in [Gen -> Content]
    BY <1>3, <2>1 DEF TypeOK, ReducePuts, Content
  <2> QED
    BY <1>3, <2>2, <2>3 DEF TypeOK, ReducePuts, ledger, queue
<1>4. CASE ReduceChecks(w)
  <2> DEFINE job == worker[w]
  <2>1. job \in [pc: {"put", "check", "commit"}, gen: Gen, prefix: Prefix,
                 content: SUBSET Delta, found: BOOLEAN]
    BY <1>4 DEF TypeOK, ReduceChecks, WorkerJob, Idle
  <2>2. worker' \in [Worker -> WorkerJob]
    BY <1>4, <2>1 DEF TypeOK, ReduceChecks, WorkerGoes, WorkerJob
  <2> QED
    BY <1>4, <2>2 DEF TypeOK, ReduceChecks, ledger, store, queue
<1>5. CASE ReduceRefused(w) \/ ReduceFails(w)
  <2>1. worker[w].gen \in Gen /\ worker[w].prefix \in Prefix
    BY <1>5 DEF TypeOK, ReduceRefused, Refused, ReduceFails, WorkerJob, Idle
  <2>2. Release(w)
    BY <1>5 DEF ReduceRefused, ReduceFails
  <2>3. part' \in [Gen -> [Prefix -> PartRow]]
    <3>1. ASSUME NEW row \in PartRow
          PROVE  [row EXCEPT !.state = "mapped", !.holder = NoWorker,
                             !.live = FALSE] \in PartRow
      BY DEF PartRow
    <3> QED
      BY <2>1, <2>2, <3>1 DEF TypeOK, Release
  <2>4. worker' \in [Worker -> WorkerJob]
    BY <2>2 DEF TypeOK, Release, WorkerGoes, WorkerJob
  <2> QED
    BY <1>5, <2>3, <2>4 DEF TypeOK, ReduceRefused, ReduceFails, store, queue
<1>6. CASE ReduceCommits(w)
  <2>1. worker[w] \in [pc: {"put", "check", "commit"}, gen: Gen, prefix: Prefix,
                       content: SUBSET Delta, found: BOOLEAN]
    BY <1>6 DEF TypeOK, ReduceCommits, WorkerJob, Idle
  <2>2. part' \in [Gen -> [Prefix -> PartRow]]
    BY <1>6, <2>1 DEF TypeOK, ReduceCommits, PartRow
  <2>3. worker' \in [Worker -> WorkerJob]
    BY <1>6, <2>1 DEF TypeOK, ReduceCommits, WorkerGoes, WorkerJob
  <2> QED
    BY <1>6, <2>2, <2>3 DEF TypeOK, ReduceCommits, store, queue
<1>7. CASE WorkerStages(w)
  <2>1. worker[w].gen \in Gen
    BY <1>7 DEF TypeOK, WorkerStages, WorkerJob, Idle
  <2>2. candidate' \in [Version -> Doc] /\ gens' \in [Gen -> GenRow]
    BY <1>7, <2>1, StageType DEF TypeOK, WorkerStages
  <2>3. reduceJobs' \subseteq Gen \X Prefix
    BY <1>7 DEF TypeOK, WorkerStages, Acknowledged
  <2>4. worker' \in [Worker -> WorkerJob]
    BY <1>7 DEF TypeOK, WorkerStages, WorkerGoes, WorkerJob
  <2> QED
    BY <1>7, <2>2, <2>3, <2>4 DEF TypeOK, WorkerStages
<1> QED
  BY <1>1, <1>2, <1>3, <1>4, <1>5, <1>6, <1>7

\* The steps of an operator keep the types.
LEMMA AdminType ==
    ASSUME TypeOK, NEW a \in Admin, AdminStep(a)
    PROVE  TypeOK'
<1> USE CompactionAssumption
<1>0. ASSUME NEW job \in AdminJob, AdminGoes(a, job)
      PROVE  admin' \in [Admin -> AdminJob]
  BY <1>0 DEF TypeOK, AdminGoes
<1>a. /\ Idle \in AdminJob
      /\ \A v \in Version : [pc |-> "actSettle", version |-> v] \in AdminJob
      /\ \A g \in Gen : [pc |-> "rbSettle", version |-> g] \in AdminJob
  BY DEF AdminJob
<1>b. \A v \in Version, d \in Doc :
        [pc |-> "actSwap", version |-> v, seen |-> d] \in AdminJob
  BY DEF AdminJob
<1>c. \A g \in Gen, d, e \in Doc :
        [pc |-> "rbSwap", version |-> g, seen |-> d, prior |-> e] \in AdminJob
  BY DEF AdminJob
<1>1. CASE RegistersSeed(a)
  BY <1>1 DEF TypeOK, RegistersSeed, store, queue
<1>2. ASSUME NEW v \in Version, ActivateBegins(a, v)
      PROVE  TypeOK'
  <2>1. archive' \in [Version -> Doc]
    BY <1>2 DEF TypeOK, ActivateBegins, Archived
  <2>2. admin' \in [Admin -> AdminJob]
    BY <1>0, <1>2, <1>a, <1>b DEF TypeOK, ActivateBegins
  <2> QED
    BY <1>2, <2>1, <2>2 DEF TypeOK, ActivateBegins, ledger, queue
<1>3. ASSUME NEW g \in Gen, RollbackBegins(a, g)
      PROVE  TypeOK'
  <2>1. archive' \in [Version -> Doc]
    BY <1>3 DEF TypeOK, RollbackBegins, Archived
  <2>2. admin' \in [Admin -> AdminJob]
    <3>1. gens[g].base \in Version
      BY <1>3 DEF TypeOK, RollbackBegins, GenRow
    <3>2. archive[gens[g].base] \in Doc
      BY <3>1 DEF TypeOK
    <3> QED
      BY <1>0, <1>3, <1>a, <1>c, <3>2 DEF TypeOK, RollbackBegins
  <2> QED
    BY <1>3, <2>1, <2>2 DEF TypeOK, RollbackBegins, ledger, queue
<1>4. CASE ActivateSwaps(a)
  <2>1. admin[a].version \in Version
    BY <1>4 DEF TypeOK, ActivateSwaps, AdminJob, Idle
  <2>2. root' \in Doc
    BY <1>4, <2>1 DEF TypeOK, ActivateSwaps
  <2>3. admin' \in [Admin -> AdminJob]
    BY <1>0, <1>4, <1>a, <2>1 DEF ActivateSwaps
  <2> QED
    BY <1>4, <2>2, <2>3 DEF TypeOK, ActivateSwaps, ledger, queue
<1>5. CASE ActivateSettles(a)
  <2>1. admin[a].version \in Version
    BY <1>5 DEF TypeOK, ActivateSettles, AdminJob, Idle
  <2>2. gens' \in [Gen -> GenRow]
    BY <1>5, <2>1 DEF TypeOK, ActivateSettles, Version, GenRow, GenState
  <2>3. admin' \in [Admin -> AdminJob]
    BY <1>5 DEF TypeOK, ActivateSettles, AdminGoes, AdminJob
  <2> QED
    BY <1>5, <2>2, <2>3 DEF TypeOK, ActivateSettles, store, queue
<1>6. CASE RollbackSwaps(a)
  <2>1. admin[a].version \in Gen /\ admin[a].prior \in Doc
    BY <1>6 DEF TypeOK, RollbackSwaps, AdminJob, Idle
  <2>2. admin' \in [Admin -> AdminJob]
    BY <1>0, <1>6, <1>a, <2>1 DEF RollbackSwaps
  <2>3. root' \in Doc
    BY <1>6, <2>1 DEF TypeOK, RollbackSwaps
  <2> QED
    BY <1>6, <2>2, <2>3 DEF TypeOK, RollbackSwaps, ledger, queue
<1>7. CASE RollbackSettles(a)
  <2>1. admin[a].version \in Gen
    BY <1>7 DEF TypeOK, RollbackSettles, AdminJob, Idle
  <2>2. gens' \in [Gen -> GenRow]
    <3>1. ASSUME NEW row \in GenRow
          PROVE  [row EXCEPT !.state =
                    IF @ = "active" THEN "rolled_back" ELSE @] \in GenRow
      BY DEF GenRow, GenState
    <3> QED
      BY <1>7, <2>1, <3>1 DEF TypeOK, RollbackSettles
  <2>3. delta' \in [Delta -> DeltaRow]
    BY <1>7 DEF TypeOK, RollbackSettles, GivenBack, DeltaRow
  <2>4. admin' \in [Admin -> AdminJob]
    BY <1>7 DEF TypeOK, RollbackSettles, AdminGoes, AdminJob
  <2> QED
    BY <1>7, <2>2, <2>3, <2>4 DEF TypeOK, RollbackSettles, store, queue
<1> QED
  BY <1>1, <1>2, <1>3, <1>4, <1>5, <1>6, <1>7 DEF AdminStep, AdminGoesOn

\* So do the other steps.
LEMMA OtherType ==
    ASSUME TypeOK,
           \/ \E d \in Delta : Register(d)
           \/ TimePasses
           \/ \E c \in Cron : CronDies(c)
           \/ \E w \in Worker : WorkerDies(w)
           \/ \E a \in Admin : AdminDies(a)
           \/ UNCHANGED vars
    PROVE  TypeOK'
<1>1. ASSUME NEW d \in Delta, Register(d)
      PROVE  TypeOK'
  BY <1>1 DEF TypeOK, Register, DeltaRow, store, queue
<1>2. ASSUME NEW g \in Gen, NEW p \in Prefix, LeaseExpires(g, p)
      PROVE  TypeOK'
  <2>1. ASSUME NEW row \in PartRow
        PROVE  [row EXCEPT !.live = FALSE] \in PartRow
    BY DEF PartRow
  <2>2. part' \in [Gen -> [Prefix -> PartRow]]
    BY <1>2, <2>1 DEF TypeOK, LeaseExpires
  <2> QED
    BY <1>2, <2>2 DEF TypeOK, LeaseExpires, store, queue
<1>3. ASSUME NEW c \in Cron, CronDies(c)
      PROVE  TypeOK'
  BY <1>3 DEF TypeOK, CronDies, CronGoes, CronJob, ledger, store, queue
<1>4. ASSUME NEW w \in Worker, WorkerDies(w)
      PROVE  TypeOK'
  BY <1>4 DEF TypeOK, WorkerDies, WorkerGoes, WorkerJob, ledger, store, queue
<1>5. ASSUME NEW a \in Admin, AdminDies(a)
      PROVE  TypeOK'
  BY <1>5 DEF TypeOK, AdminDies, AdminGoes, AdminJob, ledger, store, queue
<1>6. CASE UNCHANGED vars
  BY <1>6 DEF TypeOK, vars, ledger, store, queue
<1> QED
  BY <1>1, <1>2, <1>3, <1>4, <1>5, <1>6 DEF TimePasses

LEMMA NextTypeOK ==
    ASSUME TypeOK, [Next]_vars
    PROVE  TypeOK'
BY CronType, MapType, ReduceType, AdminType, OtherType
   DEF Next, Progress, Failure, WorkerStep, WorkerGoesOn

\* Type correctness of the ledger, the object store, the queue and every
\* invocation, whether the deployment starts empty or seeded.
THEOREM TypeCorrect == Spec \/ SeededSpec => []TypeOK
<1>1. Init \/ InitSeeded => TypeOK
  BY InitTypeOK DEF Init, InitSeeded
<1>2. TypeOK /\ [Next]_vars => TypeOK'
  BY NextTypeOK
<1> QED
  BY <1>1, <1>2, PTL DEF Spec, SeededSpec
-----------------------------------------------------------------------------
(* The map phase *)

\* A step that leaves the deltas and fragments alone, moves only generations that
\* have left the map phase, and starts neither a delivery nor a rollback keeps the
\* invariant.
LEMMA MapPhaseQuiet ==
    ASSUME TypeOK, MapPhaseInv,
           delta' = delta, fragments' = fragments,
           \A g \in Gen :
               \/ gens'[g].state = gens[g].state
               \/ /\ gens[g].state \notin {"absent", "mapping"}
                  /\ gens'[g].state \notin {"absent", "mapping"},
           \A w \in Worker :
               worker'[w] = worker[w] \/ worker'[w].pc # "mapCommit",
           \A a \in Admin :
               admin'[a].pc \in {"rbSwap", "rbSettle"} =>
                   /\ admin[a].pc \in {"rbSwap", "rbSettle"}
                   /\ admin'[a].version = admin[a].version
    PROVE  MapPhaseInv'
<1>1. AssignedDeltasHaveAGeneration'
  BY DEF MapPhaseInv, AssignedDeltasHaveAGeneration
<1>2. DeliveriesOwnTheirDelta'
  BY DEF MapPhaseInv, DeliveriesOwnTheirDelta
<1>3. PastMapPhaseAllMapped'
  BY DEF MapPhaseInv, PastMapPhaseAllMapped
<1>4. RollbacksAreDrained'
  <2> SUFFICES ASSUME NEW a \in Admin, admin'[a].pc \in {"rbSwap", "rbSettle"}
               PROVE  /\ gens'[admin'[a].version].state \notin {"absent", "mapping"}
                      /\ \A w \in Worker :
                           ~(worker'[w].pc = "mapCommit" /\ worker'[w].gen = admin'[a].version)
    BY DEF RollbacksAreDrained, Drained
  <2>1. admin[a].version \in Gen
    BY DEF TypeOK, AdminJob, Idle
  <2> QED
    BY <2>1 DEF MapPhaseInv, RollbacksAreDrained, Drained
<1>5. MappedDeltasHaveFragments'
  BY DEF MapPhaseInv, MappedDeltasHaveFragments
<1> QED
  BY <1>1, <1>2, <1>3, <1>4, <1>5 DEF MapPhaseInv

\* Starting a generation takes registered deltas only.
LEMMA MapPhaseCommit ==
    ASSUME TypeOK, MapPhaseInv, NEW c \in Cron, CronCommits(c)
    PROVE  MapPhaseInv'
<1> PICK g \in Oldest(InState({"absent"})) :
           /\ gens' = [gens EXCEPT ![g] = [state |-> "mapping", partitions |-> 0,
                                           base |-> cron[c].base]]
           /\ delta' = [d \in Delta |->
                          IF d \in cron[c].deltas /\ delta[d].state = "registered"
                          THEN [state |-> "assigned", gen |-> g] ELSE delta[d]]
  BY DEF CronCommits
<1>a. g \in Gen /\ gens[g].state = "absent"
  BY DEF Oldest, InState
<1>b. UNCHANGED <<fragments, worker, admin>>
  BY DEF CronCommits, store
<1>c. \A d \in Delta : \/ delta'[d] = delta[d]
                       \/ /\ delta[d].state = "registered"
                          /\ delta'[d] = [state |-> "assigned", gen |-> g]
  OBVIOUS
<1>d. \A h \in Gen : h # g => gens'[h] = gens[h]
  BY <1>a DEF TypeOK
<1>e. gens'[g].state = "mapping"
  BY <1>a DEF TypeOK
<1>f. \A d \in Delta : delta[d].gen # g
  BY <1>a DEF MapPhaseInv, PastMapPhaseAllMapped
<1>g. \A d \in Delta : delta[d].state = "registered" => delta[d].gen \notin Gen
  BY DEF MapPhaseInv, AssignedDeltasHaveAGeneration
<1>1. AssignedDeltasHaveAGeneration'
  BY <1>a, <1>c DEF MapPhaseInv, AssignedDeltasHaveAGeneration
<1>2. DeliveriesOwnTheirDelta'
  <2> SUFFICES ASSUME NEW w \in Worker, worker[w].pc = "mapCommit"
               PROVE  delta'[worker[w].delta].gen = worker[w].gen
    BY <1>b DEF DeliveriesOwnTheirDelta
  <2>1. worker[w].gen \in Gen /\ worker[w].delta \in Delta
    BY DEF TypeOK, WorkerJob, Idle
  <2> QED
    BY <1>c, <1>g, <2>1 DEF MapPhaseInv, DeliveriesOwnTheirDelta
<1>3. PastMapPhaseAllMapped'
  BY <1>a, <1>c, <1>d, <1>e, <1>f DEF MapPhaseInv, PastMapPhaseAllMapped
<1>4. RollbacksAreDrained'
  <2> SUFFICES ASSUME NEW a \in Admin, admin[a].pc \in {"rbSwap", "rbSettle"}
               PROVE  /\ gens'[admin[a].version].state \notin {"absent", "mapping"}
                      /\ \A v \in Worker :
                           ~(worker'[v].pc = "mapCommit" /\ worker'[v].gen = admin[a].version)
    BY <1>b DEF RollbacksAreDrained, Drained
  <2>1. admin[a].version \in Gen
    BY DEF TypeOK, AdminJob, Idle
  <2> QED
    BY <1>a, <1>b, <1>d, <2>1 DEF MapPhaseInv, RollbacksAreDrained, Drained
<1>5. MappedDeltasHaveFragments'
  BY <1>b, <1>c DEF MapPhaseInv, MappedDeltasHaveFragments
<1> QED
  BY <1>1, <1>2, <1>3, <1>4, <1>5 DEF MapPhaseInv

\* A delivery that starts on an assigned delta works for a generation that is
\* still being mapped, so no rollback of it is under way.
LEMMA MapPhaseRead ==
    ASSUME TypeOK, MapPhaseInv, NEW w \in Worker, TakesMapJob(w)
    PROVE  MapPhaseInv'
<1> PICK g \in Gen, d \in Delta : MapReads(w, g, d)
  BY DEF TakesMapJob
<1>a. UNCHANGED <<delta, gens, fragments, admin>>
  BY DEF MapReads, ledger
<1>b. \A v \in Worker \ {w} : worker'[v] = worker[v]
  BY DEF TypeOK, MapReads, WorkerGoes
<1>c. delta[d].gen = g
  BY DEF MapReads, Owns
<1>d. \/ worker'[w] = [pc |-> "mapFinish", gen |-> g, delta |-> d]
      \/ /\ delta[d].state = "assigned"
         /\ worker'[w] = [pc |-> "mapCommit", gen |-> g, delta |-> d]
  BY DEF TypeOK, MapReads, WorkerGoes
<1>1. AssignedDeltasHaveAGeneration' /\ PastMapPhaseAllMapped'
  BY <1>a DEF MapPhaseInv, AssignedDeltasHaveAGeneration, PastMapPhaseAllMapped
<1>2. MappedDeltasHaveFragments'
  BY <1>a DEF MapPhaseInv, MappedDeltasHaveFragments
<1>3. DeliveriesOwnTheirDelta'
  BY <1>a, <1>b, <1>c, <1>d DEF MapPhaseInv, DeliveriesOwnTheirDelta
<1>4. RollbacksAreDrained'
  <2> SUFFICES ASSUME NEW a \in Admin, admin[a].pc \in {"rbSwap", "rbSettle"}
               PROVE  /\ gens[admin[a].version].state \notin {"absent", "mapping"}
                      /\ \A v \in Worker :
                           ~(worker'[v].pc = "mapCommit" /\ worker'[v].gen = admin[a].version)
    BY <1>a DEF RollbacksAreDrained, Drained
  <2>1. /\ gens[admin[a].version].state \notin {"absent", "mapping"}
        /\ Drained(admin[a].version)
    BY DEF MapPhaseInv, RollbacksAreDrained
  <2>2. admin[a].version = g => delta[d].state = "mapped"
    BY <1>c, <2>1 DEF MapPhaseInv, PastMapPhaseAllMapped
  <2> QED
    BY <1>b, <1>d, <2>1, <2>2 DEF Drained
<1> QED
  BY <1>1, <1>2, <1>3, <1>4 DEF MapPhaseInv

\* A delivery that still owns its delta stores its fragments and marks it mapped.
LEMMA MapPhaseMap ==
    ASSUME TypeOK, MapPhaseInv, NEW w \in Worker, MapCommits(w)
    PROVE  MapPhaseInv'
<1> DEFINE g == worker[w].gen
           d == worker[w].delta
<1>a. g \in Gen /\ d \in Delta /\ delta[d].gen = g
  BY DEF TypeOK, MapCommits, WorkerJob, Idle, MapPhaseInv, DeliveriesOwnTheirDelta
<1>b. delta[d].state \in {"assigned", "mapped"}
  BY <1>a DEF MapPhaseInv, AssignedDeltasHaveAGeneration
<1>c. UNCHANGED <<gens, admin>>
  BY DEF MapCommits
<1>d. /\ \A e \in Delta \ {d} : delta'[e] = delta[e]
      /\ delta'[d].state = "mapped" /\ delta'[d].gen = g
  <2>1. delta' = [delta EXCEPT ![d].state = IF @ = "assigned" THEN "mapped" ELSE @]
    BY DEF MapCommits
  <2> QED
    BY <1>a, <1>b, <2>1 DEF TypeOK, DeltaRow
<1>e. /\ \A v \in Worker \ {w} : worker'[v] = worker[v]
      /\ worker'[w].pc = "mapFinish"
  BY DEF TypeOK, MapCommits, WorkerGoes
<1>f. fragments' = fragments \cup ({g} \X {d} \X PrefixesOf[d])
  BY DEF MapCommits
<1> HIDE DEF g, d
<1>1. AssignedDeltasHaveAGeneration'
  BY <1>a, <1>d DEF MapPhaseInv, AssignedDeltasHaveAGeneration
<1>2. DeliveriesOwnTheirDelta'
  <2> SUFFICES ASSUME NEW v \in Worker \ {w}, worker[v].pc = "mapCommit"
               PROVE  delta'[worker[v].delta].gen = worker[v].gen
    BY <1>e DEF DeliveriesOwnTheirDelta
  <2>1. worker[v].delta \in Delta /\ delta[worker[v].delta].gen = worker[v].gen
    BY DEF TypeOK, WorkerJob, Idle, MapPhaseInv, DeliveriesOwnTheirDelta
  <2> QED
    BY <1>a, <1>d, <2>1
<1>3. PastMapPhaseAllMapped'
  BY <1>a, <1>c, <1>d DEF MapPhaseInv, PastMapPhaseAllMapped
<1>4. RollbacksAreDrained'
  BY <1>c, <1>e DEF MapPhaseInv, RollbacksAreDrained, Drained
<1>5. MappedDeltasHaveFragments'
  <2>1. \A e \in Delta \ {d} : delta[e].state = "mapped" =>
          {delta[e].gen} \X {e} \X PrefixesOf[e] \subseteq fragments'
    BY <1>f DEF MapPhaseInv, MappedDeltasHaveFragments
  <2>2. {g} \X {d} \X PrefixesOf[d] \subseteq fragments'
    BY <1>f
  <2> QED
    BY <1>d, <2>1, <2>2 DEF MappedDeltasHaveFragments
<1> QED
  BY <1>1, <1>2, <1>3, <1>4, <1>5 DEF MapPhaseInv

\* A generation leaves its map phase only when all its deltas are mapped.
LEMMA MapPhaseFinish ==
    ASSUME TypeOK, MapPhaseInv, NEW w \in Worker, MapFinishes(w)
    PROVE  MapPhaseInv'
<1> DEFINE g == worker[w].gen
<1>a. g \in Gen
  BY DEF TypeOK, MapFinishes, WorkerJob, Idle
<1>b. UNCHANGED <<delta, fragments, admin>>
  BY DEF MapFinishes
<1>c. /\ \A v \in Worker \ {w} : worker'[v] = worker[v]
      /\ worker'[w].pc = "idle"
  BY DEF TypeOK, MapFinishes, WorkerGoes, Idle
<1>d. \/ gens' = gens
      \/ /\ \A e \in DeltasOf(g) : delta[e].state = "mapped"
         /\ gens'[g].state = "mapped"
         /\ gens[g].state = "mapping"
         /\ \A h \in Gen \ {g} : gens'[h] = gens[h]
  <2>1. FinishMapped(g)
    BY DEF MapFinishes
  <2> HIDE DEF g
  <2> QED
    BY <1>a, <2>1 DEF FinishMapped, AllMapped, TypeOK, GenRow
<1> HIDE DEF g
<1>1. CASE gens' = gens
  BY <1>1, <1>b, <1>c, MapPhaseQuiet
<1>2. CASE /\ \A e \in DeltasOf(g) : delta[e].state = "mapped"
           /\ gens'[g].state = "mapped"
           /\ gens[g].state = "mapping"
           /\ \A h \in Gen \ {g} : gens'[h] = gens[h]
  <2>1. AssignedDeltasHaveAGeneration' /\ MappedDeltasHaveFragments'
    BY <1>b DEF MapPhaseInv, AssignedDeltasHaveAGeneration,
                MappedDeltasHaveFragments
  <2>2. DeliveriesOwnTheirDelta'
    BY <1>b, <1>c DEF MapPhaseInv, DeliveriesOwnTheirDelta
  <2>3. PastMapPhaseAllMapped'
    BY <1>2, <1>a, <1>b DEF MapPhaseInv, PastMapPhaseAllMapped, DeltasOf
  <2>4. RollbacksAreDrained'
    <3> SUFFICES ASSUME NEW a \in Admin, admin[a].pc \in {"rbSwap", "rbSettle"}
                 PROVE  /\ gens'[admin[a].version].state \notin {"absent", "mapping"}
                        /\ \A v \in Worker :
                             ~(worker'[v].pc = "mapCommit" /\ worker'[v].gen = admin[a].version)
      BY <1>b DEF RollbacksAreDrained, Drained
    <3>1. admin[a].version \in Gen
      BY DEF TypeOK, AdminJob, Idle
    <3> QED
      BY <1>2, <1>c, <3>1 DEF MapPhaseInv, RollbacksAreDrained, Drained
  <2> QED
    BY <2>1, <2>2, <2>3, <2>4 DEF MapPhaseInv
<1> QED
  BY <1>1, <1>2, <1>d

\* A delta that is registered has no generation.
LEMMA MapPhaseRegister ==
    ASSUME TypeOK, MapPhaseInv, NEW d \in Delta, Register(d)
    PROVE  MapPhaseInv'
<1>a. /\ delta[d].state = "absent"
      /\ delta'[d].state = "registered"
      /\ delta'[d].gen = delta[d].gen
      /\ \A e \in Delta \ {d} : delta'[e] = delta[e]
  BY DEF Register, TypeOK, DeltaRow
<1>b. UNCHANGED <<gens, fragments, worker, admin>>
  BY DEF Register
<1>1. AssignedDeltasHaveAGeneration'
  BY <1>a DEF MapPhaseInv, AssignedDeltasHaveAGeneration
<1>2. DeliveriesOwnTheirDelta'
  <2> SUFFICES ASSUME NEW w \in Worker, worker[w].pc = "mapCommit"
               PROVE  delta'[worker[w].delta].gen = worker[w].gen
    BY <1>b DEF DeliveriesOwnTheirDelta
  <2>1. worker[w].delta \in Delta
    BY DEF TypeOK, WorkerJob, Idle
  <2> QED
    BY <1>a, <2>1 DEF MapPhaseInv, DeliveriesOwnTheirDelta
<1>3. PastMapPhaseAllMapped'
  <2>1. delta[d].gen \notin Gen
    BY <1>a DEF MapPhaseInv, AssignedDeltasHaveAGeneration
  <2> QED
    BY <1>a, <1>b, <2>1 DEF MapPhaseInv, PastMapPhaseAllMapped
<1>4. RollbacksAreDrained'
  BY <1>b DEF MapPhaseInv, RollbacksAreDrained, Drained
<1>5. MappedDeltasHaveFragments'
  BY <1>a, <1>b DEF MapPhaseInv, MappedDeltasHaveFragments
<1> QED
  BY <1>1, <1>2, <1>3, <1>4, <1>5 DEF MapPhaseInv

\* A rollback begins on an active generation that no delivery works for.
LEMMA MapPhaseRollbackBegins ==
    ASSUME TypeOK, MapPhaseInv, ConsumersDrain, NEW a \in Admin, NEW g \in Gen,
           RollbackBegins(a, g)
    PROVE  MapPhaseInv'
<1>a. UNCHANGED <<delta, gens, fragments, worker>>
  BY DEF RollbackBegins, ledger
<1>b. gens[g].state = "active" /\ Drained(g)
  BY DEF RollbackBegins
<1>c. /\ \A b \in Admin \ {a} : admin'[b] = admin[b]
      /\ admin'[a].version = g
  BY DEF RollbackBegins, AdminGoes, TypeOK
<1>1. /\ AssignedDeltasHaveAGeneration' /\ DeliveriesOwnTheirDelta'
      /\ PastMapPhaseAllMapped' /\ MappedDeltasHaveFragments'
  BY <1>a DEF MapPhaseInv, AssignedDeltasHaveAGeneration, DeliveriesOwnTheirDelta,
              PastMapPhaseAllMapped, MappedDeltasHaveFragments
<1>2. RollbacksAreDrained'
  BY <1>a, <1>b, <1>c DEF MapPhaseInv, RollbacksAreDrained, Drained
<1> QED
  BY <1>1, <1>2 DEF MapPhaseInv

\* It gives back only deltas that no delivery is about to map.
LEMMA MapPhaseRollbackSettles ==
    ASSUME TypeOK, MapPhaseInv, NEW a \in Admin, RollbackSettles(a)
    PROVE  MapPhaseInv'
<1> DEFINE g == admin[a].version
<1>a. g \in Gen
  BY DEF TypeOK, RollbackSettles, AdminJob, Idle
<1>b. gens[g].state \notin {"absent", "mapping"} /\ Drained(g)
  BY DEF RollbackSettles, MapPhaseInv, RollbacksAreDrained
<1>c. UNCHANGED <<fragments, worker>>
  BY DEF RollbackSettles
<1>d. /\ \A b \in Admin \ {a} : admin'[b] = admin[b]
      /\ admin'[a].pc = "idle"
  BY DEF RollbackSettles, AdminGoes, TypeOK, Idle
<1>e. \A h \in Gen : \/ gens'[h].state = gens[h].state
                     \/ /\ gens[h].state = "active"
                        /\ gens'[h].state = "rolled_back"
  BY <1>a DEF RollbackSettles, TypeOK, GenRow
<1>f. \A d \in Delta : \/ delta'[d] = delta[d]
                       \/ /\ delta[d].state = "mapped" /\ delta[d].gen = g
                          /\ delta'[d] = [state |-> "registered", gen |-> NoVersion]
  BY DEF RollbackSettles, GivenBack
<1> HIDE DEF g
<1>1. AssignedDeltasHaveAGeneration'
  <2>1. NoVersion \notin Gen
    BY CompactionAssumption DEF NoVersion, Gen
  <2> QED
    BY <1>f, <2>1 DEF MapPhaseInv, AssignedDeltasHaveAGeneration
<1>2. DeliveriesOwnTheirDelta'
  <2> SUFFICES ASSUME NEW w \in Worker, worker[w].pc = "mapCommit"
               PROVE  delta'[worker[w].delta].gen = worker[w].gen
    BY <1>c DEF DeliveriesOwnTheirDelta
  <2>1. worker[w].delta \in Delta /\ worker[w].gen # g
    BY <1>b DEF TypeOK, WorkerJob, Idle, Drained
  <2>2. delta[worker[w].delta].gen = worker[w].gen
    BY DEF MapPhaseInv, DeliveriesOwnTheirDelta
  <2> QED
    BY <1>f, <2>1, <2>2
<1>3. PastMapPhaseAllMapped'
  <2>1. NoVersion \notin Gen
    BY CompactionAssumption DEF NoVersion, Gen
  <2> QED
    BY <1>e, <1>f, <2>1 DEF MapPhaseInv, PastMapPhaseAllMapped
<1>4. RollbacksAreDrained'
  <2> SUFFICES ASSUME NEW b \in Admin \ {a}, admin[b].pc \in {"rbSwap", "rbSettle"}
               PROVE  /\ gens'[admin[b].version].state \notin {"absent", "mapping"}
                      /\ \A v \in Worker :
                           ~(worker'[v].pc = "mapCommit" /\ worker'[v].gen = admin[b].version)
    BY <1>d DEF RollbacksAreDrained, Drained
  <2>1. admin[b].version \in Gen
    BY DEF TypeOK, AdminJob, Idle
  <2> QED
    BY <1>c, <1>e, <2>1 DEF MapPhaseInv, RollbacksAreDrained, Drained
<1>5. MappedDeltasHaveFragments'
  BY <1>c, <1>f DEF MapPhaseInv, MappedDeltasHaveFragments
<1> QED
  BY <1>1, <1>2, <1>3, <1>4, <1>5 DEF MapPhaseInv

\* Staging moves a generation that is past its map phase.
LEMMA StageMoves ==
    ASSUME TypeOK, NEW g \in Gen, Stage(g)
    PROVE  \A h \in Gen :
               \/ gens'[h].state = gens[h].state
               \/ /\ gens[h].state \notin {"absent", "mapping"}
                  /\ gens'[h].state \notin {"absent", "mapping"}
<1>1. gens[g].state \in {"reducing", "published"}
  BY DEF Stage, CanStage
<1> QED
  BY <1>1 DEF Stage, TypeOK, GenRow

\* The other steps of a scheduled invocation.
LEMMA MapPhaseCron ==
    ASSUME TypeOK, MapPhaseInv, NEW c \in Cron, CronStep(c)
    PROVE  MapPhaseInv'
<1>1. CASE CronCommits(c)
  BY <1>1, MapPhaseCommit
<1>2. CASE CronStartsReduce(c)
  <2>1. \A g \in Gen :
            \/ gens'[g].state = gens[g].state
            \/ /\ gens[g].state \in {"mapped", "reducing"}
               /\ gens'[g].state = "reducing"
    <3>1. CASE gens' = gens
      BY <3>1
    <3>2. CASE \E h \in Oldest(InState({"mapped", "reducing"})) :
                 gens' = [gens EXCEPT ![h].state = "reducing"]
      <4> PICK h \in Oldest(InState({"mapped", "reducing"})) :
                 gens' = [gens EXCEPT ![h].state = "reducing"]
        BY <3>2
      <4>1. h \in Gen /\ gens[h].state \in {"mapped", "reducing"}
        BY DEF Oldest, InState
      <4> QED
        BY <4>1 DEF TypeOK, GenRow
    <3> QED
      BY <1>2, <3>1, <3>2 DEF CronStartsReduce
  <2>2. UNCHANGED <<delta, fragments, worker, admin>>
    BY <1>2 DEF CronStartsReduce, store
  <2> QED
    BY <2>1, <2>2, MapPhaseQuiet
<1>3. CASE CronStages(c)
  <2>1. cron[c].gen \in Gen
    BY <1>3 DEF TypeOK, CronStages, CronJob, Idle
  <2>2. \A g \in Gen :
            \/ gens'[g].state = gens[g].state
            \/ /\ gens[g].state \notin {"absent", "mapping"}
               /\ gens'[g].state \notin {"absent", "mapping"}
    BY <1>3, <2>1, StageMoves DEF CronStages
  <2>3. UNCHANGED <<delta, fragments, worker, admin>>
    BY <1>3 DEF CronStages
  <2> QED
    BY <2>2, <2>3, MapPhaseQuiet
<1>4. CASE \/ CronFindsLive(c) \/ CronFindsNone(c) \/ CronReadsPending(c)
           \/ CronCommitRefused(c) \/ CronSendsMapJobs(c)
  <2>1. UNCHANGED <<delta, gens, fragments, worker, admin>>
    BY <1>4 DEF CronFindsLive, CronFindsNone, CronReadsPending, CronCommitRefused,
                CronSendsMapJobs, ledger
  <2> QED
    BY <2>1, MapPhaseQuiet
<1> QED
  BY <1>1, <1>2, <1>3, <1>4 DEF CronStep

\* A reduce job, whatever becomes of it.
LEMMA MapPhaseReduce ==
    ASSUME TypeOK, MapPhaseInv, NEW w \in Worker,
           \/ TakesReduceJob(w)
           \/ ReduceReads(w) \/ ReducePuts(w) \/ ReduceChecks(w)
           \/ ReduceRefused(w) \/ ReduceCommits(w) \/ WorkerStages(w)
           \/ ReduceFails(w) \/ WorkerDies(w)
    PROVE  MapPhaseInv'
<1>1. UNCHANGED <<delta, fragments, admin>>
  BY DEF TakesReduceJob, ReduceClaims, ReduceIsDuplicate, ReduceReads, ReducePuts,
         ReduceChecks, ReduceRefused, ReduceCommits, WorkerStages, ReduceFails,
         WorkerDies, ledger
<1>2. \E job : job.pc # "mapCommit" /\ WorkerGoes(w, job)
  <2>1. ASSUME NEW g \in Gen, NEW p \in Prefix,
               ReduceClaims(w, g, p) \/ ReduceIsDuplicate(w, g, p)
        PROVE  \E job : job.pc # "mapCommit" /\ WorkerGoes(w, job)
    BY <2>1 DEF ReduceClaims, ReduceIsDuplicate
  <2>2. Idle.pc # "mapCommit"
    BY DEF Idle
  <2>3. CASE ReduceRefused(w) \/ ReduceFails(w) \/ WorkerStages(w) \/ WorkerDies(w)
    BY <2>2, <2>3 DEF ReduceRefused, ReduceFails, Release, WorkerStages, WorkerDies
  <2>4. CASE ReducePuts(w) \/ ReduceChecks(w)
    <3>1. worker[w] \in [pc: {"put", "check", "commit"}, gen: Gen, prefix: Prefix,
                         content: SUBSET Delta, found: BOOLEAN]
      BY <2>4 DEF TypeOK, ReducePuts, ReduceChecks, WorkerJob, Idle
    <3>2. /\ [worker[w] EXCEPT !.pc = "check"].pc # "mapCommit"
          /\ [worker[w] EXCEPT !.pc = "commit"].pc # "mapCommit"
      BY <3>1
    <3> QED
      BY <2>4, <3>2 DEF ReducePuts, ReduceChecks
  <2>5. CASE ReduceReads(w)
    BY <2>5 DEF ReduceReads
  <2>6. CASE ReduceCommits(w)
    BY <2>6 DEF ReduceCommits
  <2> QED
    BY <2>1, <2>3, <2>4, <2>5, <2>6 DEF TakesReduceJob
<1>3. \A v \in Worker : worker'[v] = worker[v] \/ worker'[v].pc # "mapCommit"
  BY <1>2 DEF TypeOK, WorkerGoes
<1>4. CASE WorkerStages(w)
  <2>1. worker[w].gen \in Gen
    BY <1>4 DEF TypeOK, WorkerStages, WorkerJob, Idle
  <2>2. \A g \in Gen :
            \/ gens'[g].state = gens[g].state
            \/ /\ gens[g].state \notin {"absent", "mapping"}
               /\ gens'[g].state \notin {"absent", "mapping"}
    BY <1>4, <2>1, StageMoves DEF WorkerStages
  <2> QED
    BY <1>1, <1>3, <2>2, MapPhaseQuiet
<1>5. CASE ~WorkerStages(w)
  <2>1. gens' = gens
    BY <1>5 DEF TakesReduceJob, ReduceClaims, ReduceIsDuplicate, ReduceReads,
                ReducePuts, ReduceChecks, ReduceRefused, ReduceCommits, ReduceFails,
                WorkerDies, ledger
  <2> QED
    BY <1>1, <1>3, <2>1, MapPhaseQuiet
<1> QED
  BY <1>4, <1>5

\* The steps of an operator, and of nobody.
LEMMA MapPhaseAdmin ==
    ASSUME TypeOK, MapPhaseInv, ConsumersDrain,
           NEW a \in Admin, AdminStep(a) \/ AdminDies(a)
    PROVE  MapPhaseInv'
<1>1. ASSUME NEW g \in Gen, RollbackBegins(a, g)
      PROVE  MapPhaseInv'
  BY <1>1, MapPhaseRollbackBegins
<1>2. CASE RollbackSettles(a)
  BY <1>2, MapPhaseRollbackSettles
<1>3. CASE ActivateSettles(a)
  <2>1. admin[a].version \in Version
    BY <1>3 DEF TypeOK, ActivateSettles, AdminJob, Idle
  <2>2. \A g \in Gen :
            \/ gens'[g].state = gens[g].state
            \/ gens[g].state = "published" /\ gens'[g].state = "active"
    BY <1>3, <2>1 DEF ActivateSettles, StateOf, TypeOK, Version, GenRow
  <2>3. UNCHANGED <<delta, fragments, worker>>
    BY <1>3 DEF ActivateSettles
  <2>4. \A b \in Admin : admin'[b] = admin[b] \/ admin'[b].pc = "idle"
    BY <1>3 DEF ActivateSettles, AdminGoes, TypeOK, Idle
  <2> QED
    BY <2>2, <2>3, <2>4, MapPhaseQuiet
<1>4. CASE RollbackSwaps(a)
  <2>1. \A b \in Admin : \/ admin'[b] = admin[b]
                         \/ admin'[b].pc = "idle"
                         \/ /\ admin[b].pc = "rbSwap"
                            /\ admin'[b].pc = "rbSettle"
                            /\ admin'[b].version = admin[b].version
    BY <1>4 DEF RollbackSwaps, AdminGoes, TypeOK, Idle
  <2>2. UNCHANGED <<delta, gens, fragments, worker>>
    BY <1>4 DEF RollbackSwaps, ledger
  <2> QED
    BY <2>1, <2>2, MapPhaseQuiet
<1>5. ASSUME \/ RegistersSeed(a) \/ ActivateSwaps(a) \/ AdminDies(a)
             \/ \E v \in Version : ActivateBegins(a, v)
      PROVE  MapPhaseInv'
  <2>1. \A b \in Admin : \/ admin'[b] = admin[b]
                         \/ admin'[b].pc \in {"idle", "actSwap", "actSettle"}
    BY <1>5 DEF RegistersSeed, ActivateSwaps, AdminDies, ActivateBegins, AdminGoes,
                TypeOK, Idle
  <2>2. UNCHANGED <<delta, gens, fragments, worker>>
    BY <1>5 DEF RegistersSeed, ActivateSwaps, AdminDies, ActivateBegins, ledger
  <2> QED
    BY <2>1, <2>2, MapPhaseQuiet
<1> QED
  BY <1>1, <1>2, <1>3, <1>4, <1>5 DEF AdminStep, AdminGoesOn

LEMMA MapPhaseOther ==
    ASSUME TypeOK, MapPhaseInv,
           \/ TimePasses
           \/ \E c \in Cron : CronDies(c)
           \/ UNCHANGED vars
    PROVE  MapPhaseInv'
<1>1. UNCHANGED <<delta, gens, fragments, worker, admin>>
  BY DEF TimePasses, LeaseExpires, CronDies, vars, ledger
<1> QED
  BY <1>1, MapPhaseQuiet

LEMMA MapPhaseNext ==
    ASSUME ConsumersDrain, TypeOK, MapPhaseInv, [Next]_vars
    PROVE  MapPhaseInv'
BY MapPhaseCron, MapPhaseRead, MapPhaseMap, MapPhaseFinish, MapPhaseRegister,
   MapPhaseReduce, MapPhaseAdmin, MapPhaseOther
   DEF Next, Progress, Failure, WorkerStep, WorkerGoesOn

\* If deliveries end before the generation they work for is rolled back, every
\* delta the ledger calls mapped has all its fragments, in the generation it is
\* mapped for: the reduce phase never reads an incomplete overlay.
THEOREM MappedIsComplete ==
    ASSUME ConsumersDrain
    PROVE  Spec \/ SeededSpec => []MapPhaseInv /\ []MappedDeltasHaveFragments
<1>1. Init \/ InitSeeded => TypeOK /\ MapPhaseInv
  <2>1. NoVersion \notin Gen
    BY CompactionAssumption DEF NoVersion, Gen
  <2> QED
    BY <2>1, InitTypeOK
       DEF Init, InitSeeded, StartsWith, Idle, MapPhaseInv,
           AssignedDeltasHaveAGeneration, DeliveriesOwnTheirDelta,
           PastMapPhaseAllMapped, RollbacksAreDrained, MappedDeltasHaveFragments
<1>2. TypeOK /\ MapPhaseInv /\ [Next]_vars => TypeOK' /\ MapPhaseInv'
  BY NextTypeOK, MapPhaseNext
<1>3. MapPhaseInv => MappedDeltasHaveFragments
  BY DEF MapPhaseInv
<1> QED
  BY <1>1, <1>2, <1>3, PTL DEF Spec, SeededSpec
-----------------------------------------------------------------------------
(* Reduced partitions *)

\* A reduced partition has no lease that a late failure could give back.
ReducedRowsAreFree ==
    \A g \in Gen, p \in Prefix :
        part[g][p].state = "reduced" => part[g][p].holder = NoWorker

\* What a step may do to a partition row.
RowMoves ==
    \A g \in Gen, p \in Prefix :
        \/ /\ part'[g][p].state = part[g][p].state
           /\ part'[g][p].holder = part[g][p].holder
        \/ /\ part[g][p].state # "reduced"
           /\ part'[g][p].state = "reduced" => part'[g][p].holder = NoWorker

LEMMA RowsMoveByWorkers ==
    ASSUME TypeOK, ReducedRowsAreFree, NEW w \in Worker,
           \/ TakesReduceJob(w) \/ MapFinishes(w) \/ ReduceRefused(w)
           \/ ReduceCommits(w) \/ ReduceFails(w)
    PROVE  RowMoves
<1>1. ASSUME NEW g \in Gen, NEW p \in Prefix, ReduceClaims(w, g, p)
      PROVE  RowMoves
  BY <1>1 DEF ReduceClaims, Claimable, RowMoves, TypeOK, PartRow
<1>2. ASSUME NEW g \in Gen, NEW p \in Prefix, ReduceIsDuplicate(w, g, p)
      PROVE  RowMoves
  BY <1>2 DEF ReduceIsDuplicate, RowMoves, ledger
<1>3. CASE MapFinishes(w)
  <2> DEFINE g == worker[w].gen
             rows == {p \in Prefix : Overlay(g, p) # {}} \cup Rows(g)
  <2>1. g \in Gen
    BY <1>3 DEF TypeOK, MapFinishes, WorkerJob, Idle
  <2>2. \/ part' = part
        \/ part' = [part EXCEPT ![g] = [p \in Prefix |->
                      IF p \in rows \ Rows(g)
                      THEN [part[g][p] EXCEPT !.state = "mapped"]
                      ELSE part[g][p]]]
    BY <1>3 DEF MapFinishes, FinishMapped
  <2> HIDE DEF g, rows
  <2>3. \A p \in Prefix : p \notin Rows(g) => part[g][p].state = "absent"
    BY DEF Rows
  <2>4. \A p \in Prefix : part'[g][p] = part[g][p] \/ part'[g][p].state = "mapped"
    BY <2>1, <2>2 DEF TypeOK, PartRow
  <2>5. \A p \in Prefix : p \in Rows(g) => part'[g][p] = part[g][p]
    BY <2>1, <2>2 DEF TypeOK
  <2>6. \A h \in Gen \ {g} : part'[h] = part[h]
    BY <2>1, <2>2 DEF TypeOK
  <2>7. \A p \in Prefix :
            \/ part'[g][p] = part[g][p]
            \/ part[g][p].state = "absent" /\ part'[g][p].state = "mapped"
    BY <2>3, <2>4, <2>5
  <2> QED
    BY <2>6, <2>7 DEF RowMoves
<1>4. CASE ReduceRefused(w) \/ ReduceFails(w)
  <2> DEFINE g == worker[w].gen
             p == worker[w].prefix
  <2>1. g \in Gen /\ p \in Prefix
    BY <1>4 DEF TypeOK, ReduceRefused, Refused, ReduceFails, WorkerJob, Idle
  <2>2. \/ part' = part
        \/ /\ part[g][p].holder = w
           /\ part' = [part EXCEPT ![g][p] =
                         [@ EXCEPT !.state = "mapped", !.holder = NoWorker,
                                   !.live = FALSE]]
    BY <1>4 DEF ReduceRefused, ReduceFails, Release
  <2>3. part[g][p].holder = w => part[g][p].state # "reduced"
    BY <2>1, CompactionAssumption DEF ReducedRowsAreFree
  <2> HIDE DEF g, p
  <2>4. CASE part' = part
    BY <2>4 DEF RowMoves
  <2>5. CASE /\ part[g][p].holder = w
             /\ part' = [part EXCEPT ![g][p] =
                           [@ EXCEPT !.state = "mapped", !.holder = NoWorker,
                                     !.live = FALSE]]
    <3>1. part'[g][p].state = "mapped"
      BY <2>1, <2>5 DEF TypeOK, PartRow
    <3>2. \A h \in Gen, q \in Prefix :
              h # g \/ q # p => part'[h][q] = part[h][q]
      BY <2>1, <2>5 DEF TypeOK
    <3> QED
      BY <2>3, <2>5, <3>1, <3>2 DEF RowMoves
  <2> QED
    BY <2>2, <2>4, <2>5
<1>5. CASE ReduceCommits(w)
  <2>1. worker[w].gen \in Gen /\ worker[w].prefix \in Prefix
    BY <1>5 DEF TypeOK, ReduceCommits, WorkerJob, Idle
  <2> QED
    BY <1>5, <2>1 DEF ReduceCommits, RowMoves, TypeOK
<1> QED
  BY <1>1, <1>2, <1>3, <1>4, <1>5 DEF TakesReduceJob

LEMMA RowsMove ==
    ASSUME TypeOK, ReducedRowsAreFree, [Next]_vars
    PROVE  RowMoves
<1>1. ASSUME NEW g \in Gen, NEW p \in Prefix, LeaseExpires(g, p)
      PROVE  RowMoves
  BY <1>1 DEF LeaseExpires, RowMoves, TypeOK, PartRow
<1>2. CASE part' = part
  BY <1>2 DEF RowMoves
<1>3. ASSUME NEW c \in Cron, CronStep(c) \/ CronDies(c)
      PROVE  part' = part
  BY <1>3 DEF CronStep, CronFindsLive, CronFindsNone, CronReadsPending, CronCommits,
              CronCommitRefused, CronSendsMapJobs, CronStartsReduce, CronStages,
              CronDies, ledger
<1>4. ASSUME NEW a \in Admin, AdminStep(a) \/ AdminDies(a)
      PROVE  part' = part
  BY <1>4 DEF AdminStep, AdminGoesOn, RegistersSeed, ActivateBegins, ActivateSwaps,
              ActivateSettles, RollbackBegins, RollbackSwaps, RollbackSettles,
              AdminDies, ledger
<1>5. ASSUME NEW w \in Worker,
             \/ TakesMapJob(w) \/ MapCommits(w) \/ ReduceReads(w) \/ ReducePuts(w)
             \/ ReduceChecks(w) \/ WorkerStages(w) \/ WorkerDies(w)
      PROVE  part' = part
  BY <1>5 DEF TakesMapJob, MapReads, MapCommits, ReduceReads, ReducePuts,
              ReduceChecks, WorkerStages, WorkerDies, ledger
<1>6. ASSUME NEW d \in Delta, Register(d)
      PROVE  part' = part
  BY <1>6 DEF Register
<1>7. CASE UNCHANGED vars
  BY <1>2, <1>7 DEF vars, ledger
<1> QED
  BY <1>1, <1>2, <1>3, <1>4, <1>5, <1>6, <1>7, RowsMoveByWorkers
     DEF Next, Progress, Failure, WorkerStep, WorkerGoesOn, TimePasses

\* A partition is reduced for good, although expired leases let any number of
\* reducers work on it at once and each of them may still fail.
THEOREM ReducedStaysReduced == Spec \/ SeededSpec => ReducedIsFinal
<1>1. Init \/ InitSeeded => TypeOK /\ ReducedRowsAreFree
  BY InitTypeOK DEF Init, InitSeeded, StartsWith, ReducedRowsAreFree
<1>2. TypeOK /\ ReducedRowsAreFree /\ [Next]_vars =>
        TypeOK' /\ ReducedRowsAreFree' /\ RowMoves
  <2>1. ReducedRowsAreFree /\ RowMoves => ReducedRowsAreFree'
    BY DEF ReducedRowsAreFree, RowMoves
  <2> QED
    BY <2>1, NextTypeOK, RowsMove
<1>3. RowMoves =>
        \A g \in Gen, p \in Prefix :
            part[g][p].state = "reduced" => part'[g][p].state = "reduced"
  BY DEF RowMoves
<1> QED
  BY <1>1, <1>2, <1>3, PTL DEF Spec, SeededSpec, ReducedIsFinal
-----------------------------------------------------------------------------
(* The inductive invariant *)

\* The generation has left its map phase.
Past(g) == gens[g].state \notin {"absent", "mapping"}

\* What the version a generation is built on holds.
BaseParts(g) ==
    IF gens[g].base = NoVersion THEN Empty ELSE candidate[gens[g].base].parts

\* What every reducer of the partition has to compute.
Final(g, p) == BaseParts(g)[p] \cup Overlay(g, p)

\* The version has a candidate, or is the null of an absent root.
Known(v) == v = NoVersion \/ (v \in Version /\ candidate[v] # NoDoc)

\* A root document that was staged.
Genuine(doc) ==
    doc = NoDoc \/ (doc.version \in Version /\ doc = candidate[doc.version])

CandidatesAreNamed ==
    \A v \in Version : candidate[v] = NoDoc \/ candidate[v].version = v

\* What the object store calls a root, and what a rollback is about to restore,
\* was staged: a root is known by its version.
RootsWereStaged ==
    /\ Genuine(root)
    /\ \A v \in Version : Genuine(archive[v])
    /\ \A a \in Admin : admin[a].pc = "rbSwap" => Genuine(admin[a].prior)

BasesAreKnown ==
    /\ \A g \in Gen : gens[g].state # "absent" => Known(gens[g].base)
    /\ \A c \in Cron : cron[c].pc = "commit" => Known(cron[c].base)

\* Only a generation that was rolled back has fragments of deltas that are not
\* its own.
FragmentsAreOwn ==
    \A g \in Gen, d \in Delta, p \in Prefix :
        <<g, d, p>> \in fragments =>
            /\ p \in PrefixesOf[d]
            /\ delta[d].gen = g \/ gens[g].state = "rolled_back"

OverlaysHaveRows ==
    \A g \in Gen, p \in Prefix :
        Past(g) /\ Overlay(g, p) # {} => part[g][p].state # "absent"

\* Reducers of one partition agree, whenever each of them read the root and the
\* fragments, and one about to commit has seen its content stored.
ReducersAgree ==
    \A w \in Worker :
        worker[w].pc \in {"put", "check", "commit"} =>
            LET g == worker[w].gen
                p == worker[w].prefix
            IN /\ Past(g)
               /\ worker[w].content = Final(g, p)
               /\ worker[w].pc = "commit" => objects[g][p] = Final(g, p)

ReducedRowsAreFinal ==
    \A g \in Gen, p \in Prefix :
        part[g][p].state = "reduced" =>
            /\ Past(g)
            /\ part[g][p].output = Final(g, p)
            /\ objects[g][p] = Final(g, p)

RollbacksAreOfActive ==
    \A a \in Admin :
        admin[a].pc \in {"rbSwap", "rbSettle"} =>
            gens[admin[a].version].state \in {"active", "rolled_back"}

DataInv ==
    /\ CandidatesAreNamed
    /\ RootsWereStaged
    /\ BasesAreKnown
    /\ FragmentsAreOwn
    /\ OverlaysHaveRows
    /\ ReducersAgree
    /\ ReducedRowsAreFinal
    /\ RollbacksAreOfActive
    /\ CandidatesAreBasePlusDeltas
-----------------------------------------------------------------------------
(* Who writes what *)

\* Each variable changes only in the steps listed for it.
Writers ==
    /\ \/ delta' = delta
       \/ \E d \in Delta : Register(d)
       \/ \E c \in Cron : CronCommits(c)
       \/ \E w \in Worker : MapCommits(w)
       \/ \E a \in Admin : RollbackSettles(a)
    /\ \/ gens' = gens
       \/ \E c \in Cron : CronCommits(c) \/ CronStartsReduce(c) \/ CronStages(c)
       \/ \E w \in Worker : MapFinishes(w) \/ WorkerStages(w)
       \/ \E a \in Admin : ActivateSettles(a) \/ RollbackSettles(a)
    /\ \/ fragments' = fragments
       \/ \E w \in Worker : MapCommits(w)
    /\ \/ part' = part
       \/ \E w \in Worker : \/ MapFinishes(w) \/ TakesReduceJob(w)
                            \/ ReduceRefused(w) \/ ReduceFails(w)
                            \/ ReduceCommits(w)
       \/ TimePasses
    /\ \/ candidate' = candidate
       \/ \E c \in Cron : CronStages(c)
       \/ \E w \in Worker : WorkerStages(w)
    /\ objects' = objects \/ \E w \in Worker : ReducePuts(w)
    /\ root' = root \/ \E a \in Admin : ActivateSwaps(a) \/ RollbackSwaps(a)
    /\ \/ archive' = archive
       \/ \E a \in Admin : \/ \E v \in Version : ActivateBegins(a, v)
                           \/ \E g \in Gen : RollbackBegins(a, g)
    /\ worker' = worker \/ \E w \in Worker : WorkerStep(w) \/ WorkerDies(w)
                                             \/ ReduceFails(w)
    /\ cron' = cron \/ \E c \in Cron : CronStep(c) \/ CronDies(c)
    /\ admin' = admin \/ \E a \in Admin : AdminStep(a) \/ AdminDies(a)

LEMMA CronWrites ==
    ASSUME NEW c \in Cron, CronStep(c) \/ CronDies(c)
    PROVE  Writers
<1>1. UNCHANGED <<fragments, part, objects, root, archive, worker, admin>>
  BY DEF CronStep, CronFindsLive, CronFindsNone, CronReadsPending, CronCommits,
         CronCommitRefused, CronSendsMapJobs, CronStartsReduce, CronStages,
         CronDies, ledger, store
<1>2. delta' = delta \/ CronCommits(c)
  BY DEF CronStep, CronFindsLive, CronFindsNone, CronReadsPending,
         CronCommitRefused, CronSendsMapJobs, CronStartsReduce, CronStages,
         CronDies, ledger
<1>3. gens' = gens \/ CronCommits(c) \/ CronStartsReduce(c) \/ CronStages(c)
  BY DEF CronStep, CronFindsLive, CronFindsNone, CronReadsPending,
         CronCommitRefused, CronSendsMapJobs, CronDies, ledger
<1>4. candidate' = candidate \/ CronStages(c)
  BY DEF CronStep, CronFindsLive, CronFindsNone, CronReadsPending, CronCommits,
         CronCommitRefused, CronSendsMapJobs, CronStartsReduce, CronDies, store
<1> QED
  BY <1>1, <1>2, <1>3, <1>4 DEF Writers

LEMMA WorkerWrites ==
    ASSUME NEW w \in Worker, WorkerStep(w) \/ WorkerDies(w) \/ ReduceFails(w)
    PROVE  Writers
<1>1. UNCHANGED <<root, archive, cron, admin>>
  BY DEF WorkerStep, WorkerGoesOn, TakesMapJob, TakesReduceJob, MapReads,
         MapCommits, MapFinishes, ReduceClaims, ReduceIsDuplicate, ReduceReads,
         ReducePuts, ReduceChecks, ReduceRefused, ReduceCommits, WorkerStages,
         WorkerDies, ReduceFails, store
<1>2. (UNCHANGED <<delta, fragments>>) \/ MapCommits(w)
  BY DEF WorkerStep, WorkerGoesOn, TakesMapJob, TakesReduceJob, MapReads,
         MapFinishes, ReduceClaims, ReduceIsDuplicate, ReduceReads,
         ReducePuts, ReduceChecks, ReduceRefused, ReduceCommits, WorkerStages,
         WorkerDies, ReduceFails, ledger
<1>3. gens' = gens \/ MapFinishes(w) \/ WorkerStages(w)
  BY DEF WorkerStep, WorkerGoesOn, TakesMapJob, TakesReduceJob, MapReads,
         MapCommits, ReduceClaims, ReduceIsDuplicate, ReduceReads,
         ReducePuts, ReduceChecks, ReduceRefused, ReduceCommits,
         WorkerDies, ReduceFails, ledger
<1>4. \/ part' = part
      \/ MapFinishes(w) \/ TakesReduceJob(w) \/ ReduceRefused(w)
      \/ ReduceFails(w) \/ ReduceCommits(w)
  BY DEF WorkerStep, WorkerGoesOn, TakesMapJob, MapReads, MapCommits, ReduceReads,
         ReducePuts, ReduceChecks, WorkerStages, WorkerDies, ledger
<1>5. candidate' = candidate \/ WorkerStages(w)
  BY DEF WorkerStep, WorkerGoesOn, TakesMapJob, TakesReduceJob, MapReads,
         MapCommits, MapFinishes, ReduceClaims, ReduceIsDuplicate, ReduceReads,
         ReducePuts, ReduceChecks, ReduceRefused, ReduceCommits, WorkerDies,
         ReduceFails, store
<1>6. objects' = objects \/ ReducePuts(w)
  BY DEF WorkerStep, WorkerGoesOn, TakesMapJob, TakesReduceJob, MapReads,
         MapCommits, MapFinishes, ReduceClaims, ReduceIsDuplicate, ReduceReads,
         ReduceChecks, ReduceRefused, ReduceCommits, WorkerStages, WorkerDies,
         ReduceFails, store
<1> QED
  BY <1>1, <1>2, <1>3, <1>4, <1>5, <1>6 DEF Writers

LEMMA AdminWrites ==
    ASSUME NEW a \in Admin, AdminStep(a) \/ AdminDies(a)
    PROVE  Writers
<1>1. UNCHANGED <<fragments, part, candidate, objects, worker, cron>>
  BY DEF AdminStep, AdminGoesOn, RegistersSeed, ActivateBegins, ActivateSwaps,
         ActivateSettles, RollbackBegins, RollbackSwaps, RollbackSettles,
         AdminDies, ledger, store
<1>2. /\ delta' = delta \/ RollbackSettles(a)
      /\ gens' = gens \/ ActivateSettles(a) \/ RollbackSettles(a)
  BY DEF AdminStep, AdminGoesOn, RegistersSeed, ActivateBegins, ActivateSwaps,
         ActivateSettles, RollbackBegins, RollbackSwaps, AdminDies, ledger
<1>3. root' = root \/ ActivateSwaps(a) \/ RollbackSwaps(a)
  BY DEF AdminStep, AdminGoesOn, RegistersSeed, ActivateBegins, ActivateSettles,
         RollbackBegins, RollbackSettles, AdminDies, store
<1>4. \/ archive' = archive
      \/ \E v \in Version : ActivateBegins(a, v)
      \/ \E g \in Gen : RollbackBegins(a, g)
  BY DEF AdminStep, AdminGoesOn, RegistersSeed, ActivateSwaps, ActivateSettles,
         RollbackSwaps, RollbackSettles, AdminDies, store
<1> QED
  BY <1>1, <1>2, <1>3, <1>4 DEF Writers

LEMMA EveryStepWrites ==
    ASSUME [Next]_vars
    PROVE  Writers
<1>1. CASE UNCHANGED vars
  BY <1>1 DEF vars, ledger, store, Writers
<1>2. ASSUME NEW d \in Delta, Register(d)
      PROVE  Writers
  BY <1>2 DEF Register, store, Writers
<1>3. CASE TimePasses
  <2>1. UNCHANGED <<delta, gens, fragments, store, cron, worker, admin>>
    BY <1>3 DEF TimePasses, LeaseExpires
  <2> QED
    BY <1>3, <2>1 DEF store, Writers
<1> QED
  BY <1>1, <1>2, <1>3, CronWrites, WorkerWrites, AdminWrites
     DEF Next, Progress, Failure
-----------------------------------------------------------------------------
(* What a step may do to a generation and its candidate *)

\* The candidate of the generation is staged in this step.
Staged(g) ==
    /\ gens[g].state \in {"reducing", "published"}
    /\ Unreduced(g) = {}
    /\ root.version = gens[g].base
    /\ candidate'[g] = StagedDoc(g)

\* The map phase of the generation ends in this step.
Mapped(g) ==
    /\ AllMapped(g)
    /\ \A p \in Prefix : Overlay(g, p) # {} => part'[g][p].state # "absent"

GenMoves ==
    \A g \in Gen :
        \/ gens'[g].state = gens[g].state /\ gens'[g].base = gens[g].base
        \/ /\ gens[g].state = "absent" /\ gens'[g].state = "mapping"
           /\ \E c \in Cron : cron[c].pc = "commit" /\ gens'[g].base = cron[c].base
        \/ /\ gens'[g].base = gens[g].base
           /\ \/ gens[g].state = "mapping" /\ gens'[g].state = "mapped" /\ Mapped(g)
              \/ gens[g].state = "mapped" /\ gens'[g].state = "reducing"
              \/ gens[g].state = "reducing" /\ gens'[g].state = "published" /\ Staged(g)
              \/ gens[g].state = "published" /\ gens'[g].state = "active"
              \/ gens[g].state = "active" /\ gens'[g].state = "rolled_back"

CandidateMoves ==
    \A v \in Version :
        \/ candidate'[v] = candidate[v]
        \/ v \in Gen /\ candidate[v] = NoDoc /\ Staged(v)

\* A staging that succeeds, in whatever invocation.
LEMMA StageStages ==
    ASSUME TypeOK, NEW g \in Gen, Stage(g)
    PROVE  GenMoves /\ CandidateMoves
<1>1. g \in Version
  BY DEF Version
<1>2. Staged(g)
  BY <1>1 DEF Stage, CanStage, Staged, TypeOK
<1>3. /\ gens'[g].state = "published" /\ gens'[g].base = gens[g].base
      /\ \A h \in Gen \ {g} : gens'[h] = gens[h]
  BY DEF Stage, TypeOK, GenRow
<1>4. \A v \in Version \ {g} : candidate'[v] = candidate[v]
  BY DEF Stage, TypeOK
<1>5. candidate[g] = NoDoc \/ candidate'[g] = candidate[g]
  BY <1>2 DEF Stage, CanStage, Staged
<1>6. GenMoves
  BY <1>2, <1>3 DEF GenMoves, Staged
<1>7. CandidateMoves
  BY <1>2, <1>4, <1>5 DEF CandidateMoves
<1> QED
  BY <1>6, <1>7

LEMMA FinishMoves ==
    ASSUME TypeOK, NEW w \in Worker, MapFinishes(w)
    PROVE  GenMoves
<1> DEFINE g == worker[w].gen
           rows == {p \in Prefix : Overlay(g, p) # {}} \cup Rows(g)
<1>1. g \in Gen
  BY DEF TypeOK, MapFinishes, WorkerJob, Idle
<1>2. \/ gens' = gens
      \/ /\ AllMapped(g)
         /\ gens[g].state = "mapping"
         /\ gens' = [gens EXCEPT ![g].state = "mapped",
                                 ![g].partitions = Cardinality(rows)]
         /\ part' = [part EXCEPT ![g] = [p \in Prefix |->
                       IF p \in rows \ Rows(g)
                       THEN [part[g][p] EXCEPT !.state = "mapped"]
                       ELSE part[g][p]]]
  BY DEF MapFinishes, FinishMapped
<1>3. CASE gens' = gens
  BY <1>3 DEF GenMoves
<1>4. CASE /\ AllMapped(g)
           /\ gens[g].state = "mapping"
           /\ gens' = [gens EXCEPT ![g].state = "mapped",
                                   ![g].partitions = Cardinality(rows)]
           /\ part' = [part EXCEPT ![g] = [p \in Prefix |->
                         IF p \in rows \ Rows(g)
                         THEN [part[g][p] EXCEPT !.state = "mapped"]
                         ELSE part[g][p]]]
  <2>1. /\ gens'[g].state = "mapped" /\ gens'[g].base = gens[g].base
        /\ \A h \in Gen \ {g} : gens'[h] = gens[h]
    BY <1>1, <1>4 DEF TypeOK, GenRow
  <2>2. ASSUME NEW p \in Prefix, Overlay(g, p) # {}
        PROVE  part'[g][p].state # "absent"
    <3>1. p \in rows
      BY <2>2
    <3>2. CASE p \in Rows(g)
      <4>1. part'[g][p] = part[g][p] /\ part[g][p].state # "absent"
        BY <1>1, <1>4, <3>2 DEF TypeOK, Rows
      <4> QED
        BY <4>1
    <3>3. CASE p \notin Rows(g)
      <4> HIDE DEF g, rows
      <4>1. part'[g][p] = [part[g][p] EXCEPT !.state = "mapped"]
        BY <1>1, <1>4, <3>1, <3>3 DEF TypeOK
      <4> QED
        BY <1>1, <4>1 DEF TypeOK, PartRow
    <3> QED
      BY <3>2, <3>3
  <2>3. Mapped(g)
    BY <1>4, <2>2 DEF Mapped
  <2> HIDE DEF g, rows
  <2> QED
    BY <1>4, <2>1, <2>3 DEF GenMoves
<1> QED
  BY <1>2, <1>3, <1>4

LEMMA GensMove ==
    ASSUME TypeOK, [Next]_vars
    PROVE  GenMoves /\ CandidateMoves
<1>0. Writers
  BY EveryStepWrites
<1>a. gens' = gens => GenMoves
  BY DEF GenMoves
<1>b. candidate' = candidate => CandidateMoves
  BY DEF CandidateMoves
<1>1. ASSUME NEW c \in Cron, CronCommits(c)
      PROVE  GenMoves
  <2>1. PICK g \in Oldest(InState({"absent"})) :
          gens' = [gens EXCEPT ![g] = [state |-> "mapping", partitions |-> 0,
                                       base |-> cron[c].base]]
    BY <1>1 DEF CronCommits
  <2>2. g \in Gen /\ gens[g].state = "absent"
    BY DEF Oldest, InState
  <2>3. cron[c].pc = "commit"
    BY <1>1 DEF CronCommits
  <2>4. /\ gens'[g].state = "mapping" /\ gens'[g].base = cron[c].base
        /\ \A h \in Gen \ {g} : gens'[h] = gens[h]
    BY <2>1, <2>2 DEF TypeOK
  <2> QED
    BY <2>2, <2>3, <2>4 DEF GenMoves
<1>2. ASSUME NEW c \in Cron, CronStartsReduce(c)
      PROVE  GenMoves
  <2>1. CASE \E h \in Oldest(InState({"mapped", "reducing"})) :
               gens' = [gens EXCEPT ![h].state = "reducing"]
    <3> PICK h \in Oldest(InState({"mapped", "reducing"})) :
               gens' = [gens EXCEPT ![h].state = "reducing"]
      BY <2>1
    <3>1. h \in Gen /\ gens[h].state \in {"mapped", "reducing"}
      BY DEF Oldest, InState
    <3>2. /\ gens'[h].state = "reducing" /\ gens'[h].base = gens[h].base
          /\ \A g \in Gen \ {h} : gens'[g] = gens[g]
      BY <3>1 DEF TypeOK, GenRow
    <3> QED
      BY <3>1, <3>2 DEF GenMoves
  <2> QED
    BY <1>2, <1>a, <2>1 DEF CronStartsReduce
<1>3. ASSUME NEW c \in Cron, CronStages(c)
      PROVE  GenMoves /\ CandidateMoves
  <2>1. cron[c].gen \in Gen
    BY <1>3 DEF TypeOK, CronStages, CronJob, Idle
  <2> QED
    BY <1>3, <1>a, <1>b, <2>1, StageStages DEF CronStages
<1>4. ASSUME NEW w \in Worker, WorkerStages(w)
      PROVE  GenMoves /\ CandidateMoves
  <2>1. worker[w].gen \in Gen
    BY <1>4 DEF TypeOK, WorkerStages, WorkerJob, Idle
  <2> QED
    BY <1>4, <1>a, <1>b, <2>1, StageStages DEF WorkerStages
<1>5. ASSUME NEW a \in Admin, ActivateSettles(a)
      PROVE  GenMoves
  <2>1. admin[a].version \in Version
    BY <1>5 DEF TypeOK, ActivateSettles, AdminJob, Idle
  <2>2. \/ gens' = gens
        \/ /\ admin[a].version \in Gen
           /\ gens[admin[a].version].state = "published"
           /\ gens' = [gens EXCEPT ![admin[a].version].state = "active"]
    BY <1>5, <2>1 DEF ActivateSettles, StateOf, Version
  <2>3. CASE /\ admin[a].version \in Gen
             /\ gens[admin[a].version].state = "published"
             /\ gens' = [gens EXCEPT ![admin[a].version].state = "active"]
    <3> DEFINE v == admin[a].version
    <3>1. /\ gens'[v].state = "active" /\ gens'[v].base = gens[v].base
          /\ \A g \in Gen \ {v} : gens'[g] = gens[g]
      BY <2>3 DEF TypeOK, GenRow
    <3> QED
      BY <2>3, <3>1 DEF GenMoves
  <2> QED
    BY <1>a, <2>2, <2>3
<1>6. ASSUME NEW a \in Admin, RollbackSettles(a)
      PROVE  GenMoves
  <2>1. admin[a].version \in Gen
    BY <1>6 DEF TypeOK, RollbackSettles, AdminJob, Idle
  <2> QED
    BY <1>6, <2>1 DEF RollbackSettles, GenMoves, TypeOK, GenRow
<1> QED
  BY <1>0, <1>a, <1>b, <1>1, <1>2, <1>3, <1>4, <1>5, <1>6, FinishMoves DEF Writers
-----------------------------------------------------------------------------
(* What a step may do to deltas and fragments *)

DeltaMoves ==
    \A d \in Delta :
        \/ delta'[d].gen = delta[d].gen
        \/ /\ delta[d].gen \notin Gen
           /\ delta'[d].gen \in Gen
           /\ gens[delta'[d].gen].state = "absent"
        \/ /\ delta[d].gen \in Gen
           /\ delta'[d].gen \notin Gen
           /\ gens'[delta[d].gen].state = "rolled_back"

\* New fragments are of a delta the generation owns and still has to map.
FragmentMoves ==
    /\ fragments \subseteq fragments'
    /\ \A g \in Gen, d \in Delta, p \in Prefix :
           <<g, d, p>> \in fragments' \ fragments =>
               /\ gens[g].state = "mapping"
               /\ delta[d].gen = g
               /\ delta'[d].gen = g
               /\ p \in PrefixesOf[d]

LEMMA FragmentsMove ==
    ASSUME TypeOK, MapPhaseInv, [Next]_vars
    PROVE  FragmentMoves
<1>1. CASE fragments' = fragments
  BY <1>1 DEF FragmentMoves
<1>2. ASSUME NEW w \in Worker, MapCommits(w)
      PROVE  FragmentMoves
  <2> DEFINE h == worker[w].gen
             e == worker[w].delta
  <2>1. h \in Gen /\ e \in Delta /\ delta[e].gen = h
    BY <1>2 DEF TypeOK, MapCommits, WorkerJob, Idle, MapPhaseInv,
                DeliveriesOwnTheirDelta
  <2>2. /\ fragments' = fragments \cup ({h} \X {e} \X PrefixesOf[e])
        /\ delta' = [delta EXCEPT ![e].state =
                       IF @ = "assigned" THEN "mapped" ELSE @]
    BY <1>2 DEF MapCommits
  <2> HIDE DEF h, e
  <2>3. delta'[e].gen = h
    BY <2>1, <2>2 DEF TypeOK, DeltaRow
  <2>4. delta[e].state = "mapped" => {h} \X {e} \X PrefixesOf[e] \subseteq fragments
    BY <2>1 DEF MapPhaseInv, MappedDeltasHaveFragments
  <2>5. delta[e].state # "mapped" => gens[h].state = "mapping"
    BY <2>1 DEF MapPhaseInv, PastMapPhaseAllMapped, TypeOK, GenRow
  <2> QED
    BY <2>1, <2>2, <2>3, <2>4, <2>5 DEF FragmentMoves
<1> QED
  BY <1>1, <1>2, EveryStepWrites DEF Writers

LEMMA DeltasMove ==
    ASSUME TypeOK, MapPhaseInv, DataInv, [Next]_vars
    PROVE  DeltaMoves
<1>0. NoVersion \notin Gen
  BY CompactionAssumption DEF NoVersion, Gen
<1>1. CASE delta' = delta
  BY <1>1 DEF DeltaMoves
<1>2. ASSUME NEW d \in Delta, Register(d)
      PROVE  DeltaMoves
  BY <1>2 DEF Register, DeltaMoves, TypeOK, DeltaRow
<1>3. ASSUME NEW c \in Cron, CronCommits(c)
      PROVE  DeltaMoves
  <2>1. PICK g \in Oldest(InState({"absent"})) :
          delta' = [d \in Delta |->
                      IF d \in cron[c].deltas /\ delta[d].state = "registered"
                      THEN [state |-> "assigned", gen |-> g] ELSE delta[d]]
    BY <1>3 DEF CronCommits
  <2>2. g \in Gen /\ gens[g].state = "absent"
    BY DEF Oldest, InState
  <2>3. \A d \in Delta : delta[d].state = "registered" => delta[d].gen \notin Gen
    BY DEF MapPhaseInv, AssignedDeltasHaveAGeneration
  <2>4. \A d \in Delta :
            \/ delta'[d] = delta[d]
            \/ delta[d].state = "registered" /\ delta'[d].gen = g
    BY <2>1
  <2> QED
    BY <2>2, <2>3, <2>4 DEF DeltaMoves
<1>4. ASSUME NEW w \in Worker, MapCommits(w)
      PROVE  DeltaMoves
  <2>1. delta' = [delta EXCEPT ![worker[w].delta].state =
                    IF @ = "assigned" THEN "mapped" ELSE @]
    BY <1>4 DEF MapCommits
  <2>2. \A d \in Delta : delta'[d].gen = delta[d].gen
    BY <2>1 DEF TypeOK, DeltaRow
  <2> QED
    BY <2>2 DEF DeltaMoves
<1>5. ASSUME NEW a \in Admin, RollbackSettles(a)
      PROVE  DeltaMoves
  <2> DEFINE g == admin[a].version
  <2>1. g \in Gen
    BY <1>5 DEF TypeOK, RollbackSettles, AdminJob, Idle
  <2>2. gens[g].state \in {"active", "rolled_back"}
    BY <1>5 DEF RollbackSettles, DataInv, RollbacksAreOfActive
  <2>3. gens' = [gens EXCEPT ![g].state = IF @ = "active" THEN "rolled_back" ELSE @]
    BY <1>5 DEF RollbackSettles
  <2>4. \A d \in Delta : \/ delta'[d] = delta[d]
                         \/ /\ delta[d].gen = g
                            /\ delta'[d] = [state |-> "registered", gen |-> NoVersion]
    BY <1>5 DEF RollbackSettles, GivenBack
  <2> HIDE DEF g
  <2>5. gens'[g].state = "rolled_back"
    BY <2>1, <2>2, <2>3 DEF TypeOK, GenRow
  <2> QED
    BY <1>0, <2>1, <2>4, <2>5 DEF DeltaMoves
<1> QED
  BY <1>1, <1>2, <1>3, <1>4, <1>5, EveryStepWrites DEF Writers
-----------------------------------------------------------------------------
(* What is final stays final *)

LEMMA NoVersionIsNone == NoVersion \notin Version /\ NoVersion \notin Gen
BY CompactionAssumption DEF NoVersion, Version, Seed, Gen

\* Once the map phase is over no delivery adds to the fragments, and a candidate
\* that exists is never replaced.
LEMMA FinalStays ==
    ASSUME TypeOK, MapPhaseInv, DataInv, [Next]_vars,
           NEW g \in Gen, Past(g)
    PROVE  /\ Past(g)'
           /\ BaseParts(g)' = BaseParts(g)
           /\ \A p \in Prefix : /\ Overlay(g, p)' = Overlay(g, p)
                                /\ Final(g, p)' = Final(g, p)
<1>1. /\ gens'[g].state \notin {"absent", "mapping"}
      /\ gens'[g].base = gens[g].base
  BY GensMove DEF GenMoves, Past
<1>2. Known(gens[g].base)
  BY DEF Past, DataInv, BasesAreKnown
<1>3. gens[g].base # NoVersion =>
        candidate'[gens[g].base] = candidate[gens[g].base]
  BY <1>2, GensMove DEF CandidateMoves, Known
<1>4. BaseParts(g)' = BaseParts(g)
  BY <1>1, <1>3 DEF BaseParts
<1>5. ASSUME NEW p \in Prefix
      PROVE  Overlay(g, p)' = Overlay(g, p)
  BY FragmentsMove DEF FragmentMoves, Overlay, Past
<1> QED
  BY <1>1, <1>4, <1>5 DEF Past, Final

\* A staged document stays known by its version.
LEMMA GenuineStays ==
    ASSUME TypeOK, [Next]_vars, NEW doc, Genuine(doc)
    PROVE  doc = NoDoc \/ (doc.version \in Version /\ doc = candidate'[doc.version])
BY GensMove DEF CandidateMoves, Genuine
-----------------------------------------------------------------------------
(* Roots and bases *)

LEMMA CandidatesStayNamed ==
    ASSUME TypeOK, DataInv, [Next]_vars
    PROVE  CandidatesAreNamed'
<1>1. CandidateMoves
  BY GensMove
<1>2. \A v \in Version : candidate[v] = NoDoc \/ candidate[v].version = v
  BY DEF DataInv, CandidatesAreNamed
<1>3. \A v \in Gen : Staged(v) => candidate'[v].version = v
  BY DEF Staged, StagedDoc
<1> QED
  BY <1>1, <1>2, <1>3 DEF CandidateMoves, CandidatesAreNamed

\* Where the roots of the next state come from.
LEMMA RootsMove ==
    ASSUME TypeOK, DataInv, [Next]_vars
    PROVE  /\ Genuine(root')
           /\ \A v \in Version : Genuine(archive'[v])
           /\ \A a \in Admin : admin'[a].pc = "rbSwap" => Genuine(admin'[a].prior)
<1>0. Writers
  BY EveryStepWrites
<1>a. /\ Genuine(root)
      /\ \A v \in Version : Genuine(archive[v])
      /\ \A a \in Admin : admin[a].pc = "rbSwap" => Genuine(admin[a].prior)
  BY DEF DataInv, RootsWereStaged
<1>b. \A v \in Version : Genuine(candidate[v])
  BY DEF DataInv, CandidatesAreNamed, Genuine
<1>1. Genuine(root')
  <2>1. ASSUME NEW a \in Admin, ActivateSwaps(a)
        PROVE  Genuine(root')
    <3>1. admin[a].version \in Version
      BY <2>1 DEF TypeOK, ActivateSwaps, AdminJob, Idle
    <3> QED
      BY <2>1, <3>1, <1>a, <1>b DEF ActivateSwaps
  <2>2. ASSUME NEW a \in Admin, RollbackSwaps(a)
        PROVE  Genuine(root')
    BY <2>2, <1>a DEF RollbackSwaps
  <2>3. CASE root' = root
    BY <1>a, <2>3
  <2> QED
    BY <1>0, <2>1, <2>2, <2>3 DEF Writers
<1>2. \A v \in Version : Genuine(archive'[v])
  <2>1. CASE archive' = archive
    BY <1>a, <2>1
  <2>2. CASE archive' = Archived
    BY <1>a, <2>2 DEF Archived
  <2> QED
    BY <1>0, <2>1, <2>2 DEF Writers, ActivateBegins, RollbackBegins
<1>3. ASSUME NEW b \in Admin, admin'[b].pc = "rbSwap"
      PROVE  Genuine(admin'[b].prior)
  <2>1. CASE admin'[b] = admin[b]
    BY <1>3, <1>a, <2>1
  <2>2. ASSUME NEW a \in Admin, AdminStep(a) \/ AdminDies(a), admin'[b] # admin[b]
        PROVE  \E g \in Gen : /\ gens[g].base # NoVersion
                              /\ admin'[b].prior = archive[gens[g].base]
    <3>1. ASSUME NEW g \in Gen, RollbackBegins(a, g)
          PROVE  \E h \in Gen : /\ gens[h].base # NoVersion
                                /\ admin'[b].prior = archive[gens[h].base]
      BY <1>3, <2>2, <3>1 DEF RollbackBegins, AdminGoes, TypeOK
    <3>2. ASSUME \/ RegistersSeed(a) \/ AdminGoesOn(a) \/ AdminDies(a)
                 \/ \E v \in Version : ActivateBegins(a, v)
          PROVE  FALSE
      BY <1>3, <2>2, <3>2 DEF RegistersSeed, AdminGoesOn, ActivateBegins, ActivateSwaps,
                              ActivateSettles, RollbackSwaps, RollbackSettles, AdminDies,
                              AdminGoes, TypeOK, Idle
    <3> QED
      BY <2>2, <3>1, <3>2 DEF AdminStep
  <2>3. \A g \in Gen : gens[g].base # NoVersion => gens[g].base \in Version
    BY DEF TypeOK, GenRow
  <2> QED
    BY <1>0, <1>a, <2>1, <2>2, <2>3 DEF Writers
<1> QED
  BY <1>1, <1>2, <1>3

LEMMA RootsStayStaged ==
    ASSUME TypeOK, DataInv, [Next]_vars
    PROVE  RootsWereStaged'
<1>1. ASSUME NEW doc, Genuine(doc)
      PROVE  doc = NoDoc \/ (doc.version \in Version /\ doc = candidate'[doc.version])
  BY <1>1, GenuineStays
<1> QED
  BY <1>1, RootsMove DEF RootsWereStaged, Genuine

\* A version read from the root has a candidate, and keeps it.
LEMMA BasesStayKnown ==
    ASSUME TypeOK, DataInv, [Next]_vars
    PROVE  BasesAreKnown'
<1>1. ASSUME NEW v, Known(v)
      PROVE  v = NoVersion \/ (v \in Version /\ candidate'[v] # NoDoc)
  <2>1. \A u \in Version : candidate[u] # NoDoc => candidate'[u] = candidate[u]
    BY GensMove DEF CandidateMoves
  <2> QED
    BY <1>1, <2>1 DEF Known
<1>2. Known(root.version)
  <2>1. NoDoc.version = NoVersion
    BY DEF NoDoc
  <2> QED
    BY <2>1, NoVersionIsNone DEF DataInv, RootsWereStaged, Genuine, Known
<1>3. ASSUME NEW g \in Gen, gens'[g].state # "absent"
      PROVE  Known(gens'[g].base)
  BY <1>3, GensMove DEF GenMoves, DataInv, BasesAreKnown
<1>4. ASSUME NEW c \in Cron, cron'[c].pc = "commit"
      PROVE  Known(cron'[c].base)
  <2>1. CASE cron'[c] = cron[c]
    BY <1>4, <2>1 DEF DataInv, BasesAreKnown
  <2>2. ASSUME NEW k \in Cron, CronStep(k) \/ CronDies(k), cron'[c] # cron[c]
        PROVE  cron'[c].base = root.version
    <3>1. CASE CronReadsPending(k)
      <4>1. \/ CronGoes(k, [pc |-> "reduce"])
            \/ \E S : CronGoes(k, [pc |-> "commit", deltas |-> S,
                                   base |-> root.version])
        BY <3>1 DEF CronReadsPending
      <4> QED
        BY <1>4, <2>2, <4>1 DEF CronGoes, TypeOK
    <3>2. CASE \/ CronFindsLive(k) \/ CronFindsNone(k) \/ CronCommits(k)
               \/ CronCommitRefused(k) \/ CronSendsMapJobs(k)
               \/ CronStartsReduce(k) \/ CronStages(k) \/ CronDies(k)
      <4>1. \E job : job.pc # "commit" /\ CronGoes(k, job)
        <5>1. /\ \A g \in Gen : [pc |-> "send", gen |-> g].pc # "commit"
              /\ \A g \in Gen : [pc |-> "stage", gen |-> g].pc # "commit"
              /\ [pc |-> "reduce"].pc # "commit" /\ [pc |-> "pending"].pc # "commit"
              /\ Idle.pc # "commit"
          BY DEF Idle
        <5> QED
          BY <3>2, <5>1 DEF CronFindsLive, CronFindsNone, CronCommits,
             CronCommitRefused, CronSendsMapJobs, CronStartsReduce, CronStages,
             CronDies, Oldest, InState
      <4> QED
        BY <1>4, <2>2, <4>1 DEF CronGoes, TypeOK
    <3> QED
      BY <2>2, <3>1, <3>2 DEF CronStep
  <2>3. Writers
    BY EveryStepWrites
  <2> QED
    BY <1>2, <2>1, <2>2, <2>3 DEF Writers
<1> QED
  BY <1>1, <1>3, <1>4 DEF BasesAreKnown, Known

\* Between the write of the root and the batch of a rollback its generation stays
\* active, or another rollback has settled it.
LEMMA RollbacksStayOfActive ==
    ASSUME TypeOK, DataInv, [Next]_vars
    PROVE  RollbacksAreOfActive'
<1> SUFFICES ASSUME NEW b \in Admin, admin'[b].pc \in {"rbSwap", "rbSettle"}
             PROVE  gens'[admin'[b].version].state \in {"active", "rolled_back"}
  BY DEF RollbacksAreOfActive
<1>0. Writers
  BY EveryStepWrites
<1>1. \/ /\ admin[b].pc \in {"rbSwap", "rbSettle"}
         /\ admin'[b].version = admin[b].version
      \/ /\ admin'[b].version \in Gen
         /\ gens[admin'[b].version].state = "active"
  <2>1. CASE admin'[b] = admin[b]
    BY <2>1
  <2>2. ASSUME NEW a \in Admin, AdminStep(a) \/ AdminDies(a), admin'[b] # admin[b]
        PROVE  \/ /\ admin[b].pc \in {"rbSwap", "rbSettle"}
                  /\ admin'[b].version = admin[b].version
               \/ /\ admin'[b].version \in Gen
                  /\ gens[admin'[b].version].state = "active"
    <3>1. ASSUME NEW g \in Gen, RollbackBegins(a, g)
          PROVE  admin'[b].version = g /\ gens[g].state = "active"
      BY <2>2, <3>1 DEF RollbackBegins, AdminGoes, TypeOK
    <3>2. CASE RollbackSwaps(a)
      BY <2>2, <3>2 DEF RollbackSwaps, AdminGoes, TypeOK, Idle
    <3>3. ASSUME \/ RegistersSeed(a) \/ AdminDies(a)
                 \/ ActivateSwaps(a) \/ ActivateSettles(a) \/ RollbackSettles(a)
                 \/ \E v \in Version : ActivateBegins(a, v)
          PROVE  FALSE
      BY <2>2, <3>3 DEF RegistersSeed, ActivateBegins, ActivateSwaps,
                        ActivateSettles, RollbackSettles, AdminDies, AdminGoes,
                        TypeOK, Idle
    <3> QED
      BY <2>2, <3>1, <3>2, <3>3 DEF AdminStep, AdminGoesOn
  <2> QED
    BY <1>0, <2>1, <2>2 DEF Writers
<1>2. admin[b].pc \in {"rbSwap", "rbSettle"} => admin[b].version \in Gen
  BY DEF TypeOK, AdminJob, Idle
<1>3. /\ admin'[b].version \in Gen
      /\ gens[admin'[b].version].state \in {"active", "rolled_back"}
  BY <1>1, <1>2 DEF DataInv, RollbacksAreOfActive
<1> QED
  BY <1>3, GensMove DEF GenMoves
-----------------------------------------------------------------------------
(* Fragments and rows *)

LEMMA FragmentsStayOwn ==
    ASSUME TypeOK, MapPhaseInv, DataInv, [Next]_vars
    PROVE  FragmentsAreOwn'
<1> SUFFICES ASSUME NEW g \in Gen, NEW d \in Delta, NEW p \in Prefix,
                    <<g, d, p>> \in fragments'
             PROVE  /\ p \in PrefixesOf[d]
                    /\ delta'[d].gen = g \/ gens'[g].state = "rolled_back"
  BY DEF FragmentsAreOwn
<1>1. CASE <<g, d, p>> \notin fragments
  BY <1>1, FragmentsMove DEF FragmentMoves
<1>2. CASE <<g, d, p>> \in fragments
  <2>1. p \in PrefixesOf[d] /\ (delta[d].gen = g \/ gens[g].state = "rolled_back")
    BY <1>2 DEF DataInv, FragmentsAreOwn
  <2>2. CASE gens[g].state = "rolled_back"
    BY <2>1, <2>2, GensMove DEF GenMoves
  <2>3. CASE delta[d].gen = g
    BY <2>1, <2>3, DeltasMove DEF DeltaMoves
  <2> QED
    BY <2>1, <2>2, <2>3
<1> QED
  BY <1>1, <1>2

\* What a step may do to a partition row: nothing a later reader cares about,
\* start or give back a reduction, or end one.
RowSteps ==
    \A g \in Gen, p \in Prefix :
        \/ /\ part'[g][p].state = part[g][p].state
           /\ part'[g][p].output = part[g][p].output
        \/ part'[g][p].state \in {"mapped", "reducing"}
        \/ /\ part'[g][p].state = "reduced"
           /\ \E w \in Worker : /\ worker[w].pc = "commit"
                                /\ worker[w].gen = g /\ worker[w].prefix = p
                                /\ part'[g][p].output = worker[w].content

LEMMA RowsStep ==
    ASSUME TypeOK, [Next]_vars
    PROVE  RowSteps
<1>1. CASE part' = part
  BY <1>1 DEF RowSteps
<1>2. ASSUME NEW g \in Gen, NEW p \in Prefix, LeaseExpires(g, p)
      PROVE  RowSteps
  BY <1>2 DEF LeaseExpires, RowSteps, TypeOK, PartRow
<1>3. ASSUME NEW w \in Worker, TakesReduceJob(w)
      PROVE  RowSteps
  <2>1. ASSUME NEW g \in Gen, NEW p \in Prefix, ReduceClaims(w, g, p)
        PROVE  RowSteps
    BY <2>1 DEF ReduceClaims, RowSteps, TypeOK, PartRow
  <2>2. ASSUME NEW g \in Gen, NEW p \in Prefix, ReduceIsDuplicate(w, g, p)
        PROVE  RowSteps
    BY <2>2, <1>1 DEF ReduceIsDuplicate, ledger
  <2> QED
    BY <1>3, <2>1, <2>2 DEF TakesReduceJob
<1>4. ASSUME NEW w \in Worker, MapFinishes(w)
      PROVE  RowSteps
  <2> DEFINE g == worker[w].gen
             rows == {p \in Prefix : Overlay(g, p) # {}} \cup Rows(g)
  <2>1. g \in Gen
    BY <1>4 DEF TypeOK, MapFinishes, WorkerJob, Idle
  <2>2. \/ part' = part
        \/ part' = [part EXCEPT ![g] = [p \in Prefix |->
                      IF p \in rows \ Rows(g)
                      THEN [part[g][p] EXCEPT !.state = "mapped"]
                      ELSE part[g][p]]]
    BY <1>4 DEF MapFinishes, FinishMapped
  <2> HIDE DEF g, rows
  <2>3. \A p \in Prefix : part'[g][p] = part[g][p] \/ part'[g][p].state = "mapped"
    BY <2>1, <2>2 DEF TypeOK, PartRow
  <2>4. \A h \in Gen \ {g} : part'[h] = part[h]
    BY <2>1, <2>2 DEF TypeOK
  <2> QED
    BY <2>3, <2>4 DEF RowSteps
<1>5. ASSUME NEW w \in Worker, ReduceRefused(w) \/ ReduceFails(w)
      PROVE  RowSteps
  <2> DEFINE g == worker[w].gen
             p == worker[w].prefix
  <2>1. g \in Gen /\ p \in Prefix
    BY <1>5 DEF TypeOK, ReduceRefused, Refused, ReduceFails, WorkerJob, Idle
  <2>2. \/ part' = part
        \/ part' = [part EXCEPT ![g][p] =
                      [@ EXCEPT !.state = "mapped", !.holder = NoWorker,
                                !.live = FALSE]]
    BY <1>5 DEF ReduceRefused, ReduceFails, Release
  <2> HIDE DEF g, p
  <2>3. CASE part' = [part EXCEPT ![g][p] =
                        [@ EXCEPT !.state = "mapped", !.holder = NoWorker,
                                  !.live = FALSE]]
    <3>1. part'[g][p].state = "mapped"
      BY <2>1, <2>3 DEF TypeOK, PartRow
    <3>2. \A h \in Gen, q \in Prefix :
              h # g \/ q # p => part'[h][q] = part[h][q]
      BY <2>1, <2>3 DEF TypeOK
    <3> QED
      BY <3>1, <3>2 DEF RowSteps
  <2> QED
    BY <1>1, <2>2, <2>3
<1>6. ASSUME NEW w \in Worker, ReduceCommits(w)
      PROVE  RowSteps
  <2> DEFINE g == worker[w].gen
             p == worker[w].prefix
  <2>1. g \in Gen /\ p \in Prefix
    BY <1>6 DEF TypeOK, ReduceCommits, WorkerJob, Idle
  <2>2. /\ worker[w].pc = "commit"
        /\ \/ part' = part
           \/ part' = [part EXCEPT ![g][p] =
                         [state |-> "reduced", holder |-> NoWorker,
                          live |-> FALSE, output |-> worker[w].content]]
    BY <1>6 DEF ReduceCommits
  <2>3. CASE part' = [part EXCEPT ![g][p] =
                        [state |-> "reduced", holder |-> NoWorker,
                         live |-> FALSE, output |-> worker[w].content]]
    <3>1. /\ part'[g][p].state = "reduced"
          /\ part'[g][p].output = worker[w].content
      BY <2>1, <2>3 DEF TypeOK
    <3>2. \A h \in Gen, q \in Prefix :
              h # g \/ q # p => part'[h][q] = part[h][q]
      BY <2>1, <2>3 DEF TypeOK
    <3> QED
      BY <2>2, <3>1, <3>2 DEF RowSteps
  <2> QED
    BY <1>1, <2>2, <2>3
<1> QED
  BY <1>1, <1>2, <1>3, <1>4, <1>5, <1>6, EveryStepWrites DEF Writers, TimePasses

\* The rows of the fragments appear with the end of the map phase, and stay.
LEMMA OverlaysKeepRows ==
    ASSUME TypeOK, MapPhaseInv, DataInv, [Next]_vars
    PROVE  OverlaysHaveRows'
<1> SUFFICES ASSUME NEW g \in Gen, NEW p \in Prefix,
                    Past(g)', Overlay(g, p)' # {}
             PROVE  part'[g][p].state # "absent"
  BY DEF OverlaysHaveRows
<1>1. CASE Past(g)
  <2>1. Overlay(g, p) # {}
    BY <1>1, FinalStays
  <2>2. part[g][p].state # "absent"
    BY <1>1, <2>1 DEF DataInv, OverlaysHaveRows
  <2> QED
    BY <2>2, RowsStep DEF RowSteps
<1>2. CASE ~Past(g)
  <2>1. gens[g].state = "mapping" /\ Mapped(g)
    BY <1>2, GensMove DEF GenMoves, Past
  <2>2. Overlay(g, p) # {}
    <3> PICK d \in Delta : <<g, d, p>> \in fragments'
      BY DEF Overlay
    <3>1. CASE <<g, d, p>> \in fragments
      BY <3>1 DEF Overlay
    <3>2. CASE <<g, d, p>> \notin fragments
      <4>1. delta[d].gen = g /\ p \in PrefixesOf[d]
        BY <3>2, FragmentsMove DEF FragmentMoves
      <4>2. delta[d].state = "mapped"
        BY <2>1, <4>1 DEF Mapped, AllMapped, DeltasOf
      <4> QED
        BY <3>2, <4>1, <4>2 DEF MapPhaseInv, MappedDeltasHaveFragments
    <3> QED
      BY <3>1, <3>2
  <2> QED
    BY <2>1, <2>2 DEF Mapped
<1> QED
  BY <1>1, <1>2
-----------------------------------------------------------------------------
(* Reducers *)

\* What a reducer does next, if it goes on at all.
ReducerSteps ==
    \A w \in Worker :
        worker'[w].pc \in {"put", "check", "commit"} =>
            \/ /\ worker[w].pc \in {"put", "check", "commit"}
               /\ worker'[w].gen = worker[w].gen
               /\ worker'[w].prefix = worker[w].prefix
               /\ worker'[w].content = worker[w].content
               /\ worker'[w].pc = "commit" => worker[w].pc = "commit" \/ ReadsBack(w)
            \/ /\ worker'[w].pc = "put"
               /\ worker'[w].gen \in Gen
               /\ worker'[w].prefix \in Prefix
               /\ Past(worker'[w].gen)
               /\ root.version = gens[worker'[w].gen].base
               /\ worker'[w].content =
                    root.parts[worker'[w].prefix] \cup
                    Overlay(worker'[w].gen, worker'[w].prefix)

LEMMA ReducersStep ==
    ASSUME TypeOK, [Next]_vars
    PROVE  ReducerSteps
<1> SUFFICES ASSUME NEW v \in Worker,
                    worker'[v].pc \in {"put", "check", "commit"},
                    worker'[v] # worker[v]
             PROVE  \/ /\ worker[v].pc \in {"put", "check", "commit"}
                       /\ worker'[v].gen = worker[v].gen
                       /\ worker'[v].prefix = worker[v].prefix
                       /\ worker'[v].content = worker[v].content
                       /\ worker'[v].pc = "commit" =>
                            worker[v].pc = "commit" \/ ReadsBack(v)
                    \/ /\ worker'[v].pc = "put"
                       /\ worker'[v].gen \in Gen
                       /\ worker'[v].prefix \in Prefix
                       /\ Past(worker'[v].gen)
                       /\ root.version = gens[worker'[v].gen].base
                       /\ worker'[v].content =
                            root.parts[worker'[v].prefix] \cup
                            Overlay(worker'[v].gen, worker'[v].prefix)
  BY DEF ReducerSteps
<1>1. PICK w \in Worker : WorkerStep(w) \/ WorkerDies(w) \/ ReduceFails(w)
  BY EveryStepWrites DEF Writers
<1>2. ASSUME NEW job, WorkerGoes(w, job)
      PROVE  v = w /\ worker'[v] = job
  BY <1>2 DEF WorkerGoes, TypeOK
<1>3. CASE \/ TakesMapJob(w) \/ MapCommits(w) \/ MapFinishes(w)
           \/ TakesReduceJob(w) \/ ReduceRefused(w) \/ ReduceCommits(w)
           \/ WorkerStages(w) \/ WorkerDies(w) \/ ReduceFails(w)
  <2>1. \E job : job.pc \notin {"put", "check", "commit"} /\ WorkerGoes(w, job)
    <3>1. Idle.pc \notin {"put", "check", "commit"}
      BY DEF Idle
    <3>2. CASE MapFinishes(w) \/ ReduceRefused(w) \/ WorkerStages(w)
               \/ WorkerDies(w) \/ ReduceFails(w)
      BY <3>1, <3>2 DEF MapFinishes, ReduceRefused, ReduceFails, Release,
                        WorkerStages, WorkerDies
    <3>3. CASE MapCommits(w) \/ ReduceCommits(w)
      BY <3>3 DEF MapCommits, ReduceCommits
    <3>4. ASSUME NEW g \in Gen, NEW d \in Delta, MapReads(w, g, d)
          PROVE  \E job : /\ job.pc \notin {"put", "check", "commit"}
                          /\ WorkerGoes(w, job)
      BY <3>4 DEF MapReads
    <3>5. ASSUME NEW g \in Gen, NEW p \in Prefix,
                 ReduceClaims(w, g, p) \/ ReduceIsDuplicate(w, g, p)
          PROVE  \E job : /\ job.pc \notin {"put", "check", "commit"}
                          /\ WorkerGoes(w, job)
      BY <3>5 DEF ReduceClaims, ReduceIsDuplicate
    <3> QED
      BY <1>3, <3>2, <3>3, <3>4, <3>5 DEF TakesMapJob, TakesReduceJob
  <2> QED
    BY <1>2, <2>1
<1>4. CASE ReduceReads(w)
  <2> DEFINE g == worker[w].gen
             p == worker[w].prefix
  <2>1. g \in Gen /\ p \in Prefix
    BY <1>4 DEF TypeOK, ReduceReads, WorkerJob, Idle
  <2>2. /\ CanReduce(g, p)
        /\ part[g][p].state # "reduced"
        /\ WorkerGoes(w, [pc |-> "put", gen |-> g, prefix |-> p,
                          content |-> root.parts[p] \cup Overlay(g, p),
                          found |-> objects[g][p] # {}])
    BY <1>4, <1>2 DEF ReduceReads
  <2> HIDE DEF g, p
  <2>3. Past(g) /\ root.version = gens[g].base
    BY <2>2 DEF CanReduce, Past
  <2> QED
    BY <1>2, <2>1, <2>2, <2>3
<1>5. CASE ReducePuts(w) \/ ReduceChecks(w)
  <2>1. /\ worker[w] \in [pc: {"put", "check", "commit"}, gen: Gen, prefix: Prefix,
                          content: SUBSET Delta, found: BOOLEAN]
    BY <1>5 DEF TypeOK, ReducePuts, ReduceChecks, WorkerJob, Idle
  <2>2. CASE ReducePuts(w)
    <3>1. v = w /\ worker'[v] = [worker[w] EXCEPT !.pc = "check"]
      BY <1>2, <2>2 DEF ReducePuts
    <3> QED
      BY <2>1, <3>1
  <2>3. CASE ReduceChecks(w)
    <3>1. v = w /\ worker'[v] = [worker[w] EXCEPT !.pc = "commit"] /\ ReadsBack(w)
      BY <1>2, <2>3 DEF ReduceChecks
    <3> QED
      BY <2>1, <3>1
  <2> QED
    BY <1>5, <2>2, <2>3
<1> QED
  BY <1>1, <1>3, <1>4, <1>5 DEF WorkerStep, WorkerGoesOn

\* A root with the version of the base is the base.
LEMMA RootIsBase ==
    ASSUME TypeOK, DataInv, NEW g \in Gen, root.version = gens[g].base
    PROVE  root.parts = BaseParts(g)
<1>1. root = NoDoc \/ (root.version \in Version /\ root = candidate[root.version])
  BY DEF DataInv, RootsWereStaged, Genuine
<1>2. NoDoc.version = NoVersion /\ NoDoc.parts = Empty
  BY DEF NoDoc
<1> QED
  BY <1>1, <1>2, NoVersionIsNone DEF BaseParts

\* A put is not conditional, but all puts of a partition are of one content.
LEMMA ObjectsStep ==
    ASSUME TypeOK, DataInv, [Next]_vars, NEW g \in Gen, NEW p \in Prefix
    PROVE  objects'[g][p] = objects[g][p] \/ objects'[g][p] = Final(g, p)
<1>1. ASSUME NEW w \in Worker, ReducePuts(w)
      PROVE  objects'[g][p] = objects[g][p] \/ objects'[g][p] = Final(g, p)
  <2>1. /\ worker[w].gen \in Gen /\ worker[w].prefix \in Prefix
        /\ worker[w].pc = "put"
    BY <1>1 DEF TypeOK, ReducePuts, WorkerJob, Idle
  <2>2. worker[w].content = Final(worker[w].gen, worker[w].prefix)
    BY <2>1 DEF DataInv, ReducersAgree
  <2>3. \/ objects' = objects
        \/ objects' = [objects EXCEPT ![worker[w].gen][worker[w].prefix] =
                         worker[w].content]
    BY <1>1 DEF ReducePuts
  <2>4. CASE worker[w].gen = g /\ worker[w].prefix = p
    BY <2>2, <2>3, <2>4 DEF TypeOK, Content
  <2>5. CASE worker[w].gen # g \/ worker[w].prefix # p
    BY <2>1, <2>3, <2>5 DEF TypeOK, Content
  <2> QED
    BY <2>4, <2>5
<1> QED
  BY <1>1, EveryStepWrites DEF Writers

LEMMA ReducersStillAgree ==
    ASSUME TypeOK, MapPhaseInv, DataInv, [Next]_vars
    PROVE  ReducersAgree'
<1> SUFFICES ASSUME NEW w \in Worker,
                    worker'[w].pc \in {"put", "check", "commit"},
                    NEW g, g = worker'[w].gen,
                    NEW p, p = worker'[w].prefix
             PROVE  /\ Past(g)'
                    /\ worker'[w].content = Final(g, p)'
                    /\ worker'[w].pc = "commit" => objects'[g][p] = Final(g, p)'
  BY DEF ReducersAgree, Past, Final, BaseParts, Overlay
<1>1. /\ g \in Gen /\ p \in Prefix
      /\ Past(g)
      /\ worker'[w].content = Final(g, p)
      /\ worker'[w].pc = "commit" => objects[g][p] = Final(g, p)
  <2>1. CASE /\ worker[w].pc \in {"put", "check", "commit"}
             /\ worker'[w].gen = worker[w].gen
             /\ worker'[w].prefix = worker[w].prefix
             /\ worker'[w].content = worker[w].content
             /\ worker'[w].pc = "commit" => worker[w].pc = "commit" \/ ReadsBack(w)
    <3>1. g \in Gen /\ p \in Prefix
      BY <2>1 DEF TypeOK, WorkerJob, Idle
    <3>2. /\ Past(g)
          /\ worker[w].content = Final(g, p)
          /\ worker[w].pc = "commit" => objects[g][p] = Final(g, p)
      BY <2>1 DEF DataInv, ReducersAgree
    <3> QED
      BY <2>1, <3>1, <3>2 DEF ReadsBack
  <2>2. CASE /\ worker'[w].pc = "put"
             /\ g \in Gen
             /\ p \in Prefix
             /\ Past(g)
             /\ root.version = gens[g].base
             /\ worker'[w].content = root.parts[p] \cup Overlay(g, p)
    BY <2>2, RootIsBase DEF Final
  <2> QED
    BY <2>1, <2>2, ReducersStep DEF ReducerSteps
<1>2. Past(g)' /\ Final(g, p)' = Final(g, p)
  BY <1>1, FinalStays
<1>3. objects'[g][p] = objects[g][p] \/ objects'[g][p] = Final(g, p)
  BY <1>1, ObjectsStep
<1> QED
  BY <1>1, <1>2, <1>3

LEMMA ReducedRowsStayFinal ==
    ASSUME TypeOK, MapPhaseInv, DataInv, [Next]_vars
    PROVE  ReducedRowsAreFinal'
<1> SUFFICES ASSUME NEW g \in Gen, NEW p \in Prefix,
                    part'[g][p].state = "reduced"
             PROVE  /\ Past(g)'
                    /\ part'[g][p].output = Final(g, p)'
                    /\ objects'[g][p] = Final(g, p)'
  BY DEF ReducedRowsAreFinal
<1>1. /\ Past(g)
      /\ part'[g][p].output = Final(g, p)
      /\ objects[g][p] = Final(g, p)
  <2>1. CASE /\ part'[g][p].state = part[g][p].state
             /\ part'[g][p].output = part[g][p].output
    BY <2>1 DEF DataInv, ReducedRowsAreFinal
  <2>2. ASSUME NEW w \in Worker, worker[w].pc = "commit",
               worker[w].gen = g, worker[w].prefix = p,
               part'[g][p].output = worker[w].content
        PROVE  /\ Past(g)
               /\ part'[g][p].output = Final(g, p)
               /\ objects[g][p] = Final(g, p)
    BY <2>2 DEF DataInv, ReducersAgree
  <2> QED
    BY <2>1, <2>2, RowsStep DEF RowSteps
<1>2. Past(g)' /\ Final(g, p)' = Final(g, p)
  BY <1>1, FinalStays
<1>3. objects'[g][p] = objects[g][p] \/ objects'[g][p] = Final(g, p)
  BY ObjectsStep
<1> QED
  BY <1>1, <1>2, <1>3
-----------------------------------------------------------------------------
(* Candidates *)

\* What the candidate of a generation has to be.
Expected(g) ==
    [version |-> g,
     parts |-> [p \in Prefix |->
       BaseParts(g)[p] \cup {d \in DeltasOf(g) : p \in PrefixesOf[d]}]]

LEMMA CandidatesAreExpected ==
    CandidatesAreBasePlusDeltas <=>
        \A g \in InState({"published", "active"}) : candidate[g] = Expected(g)
<1>1. ASSUME NEW g
      PROVE  (IF gens[g].base = NoVersion THEN NoDoc
              ELSE candidate[gens[g].base]).parts = BaseParts(g)
  BY DEF BaseParts, NoDoc
<1> QED
  BY <1>1 DEF CandidatesAreBasePlusDeltas, Expected

\* The fragments of a generation past its map phase are those of its deltas.
LEMMA OverlayIsOwn ==
    ASSUME TypeOK, MapPhaseInv, DataInv, NEW g \in Gen, NEW p \in Prefix,
           Past(g), gens[g].state # "rolled_back"
    PROVE  Overlay(g, p) = {d \in DeltasOf(g) : p \in PrefixesOf[d]}
<1>1. ASSUME NEW d \in Delta, <<g, d, p>> \in fragments
      PROVE  delta[d].gen = g /\ p \in PrefixesOf[d]
  BY <1>1 DEF DataInv, FragmentsAreOwn
<1>2. ASSUME NEW d \in Delta, delta[d].gen = g, p \in PrefixesOf[d]
      PROVE  <<g, d, p>> \in fragments
  BY <1>2 DEF MapPhaseInv, PastMapPhaseAllMapped, MappedDeltasHaveFragments, Past
<1> QED
  BY <1>1, <1>2 DEF Overlay, DeltasOf

\* Staging puts the reduced partitions over the base.
LEMMA StagedIsExpected ==
    ASSUME TypeOK, MapPhaseInv, DataInv, NEW g \in Gen, Staged(g)
    PROVE  candidate'[g] = Expected(g)
<1>1. Past(g) /\ gens[g].state # "rolled_back"
  BY DEF Staged, Past
<1>2. root.parts = BaseParts(g)
  BY RootIsBase DEF Staged
<1>3. ASSUME NEW p \in Prefix
      PROVE  (IF p \in Rows(g) THEN part[g][p].output ELSE root.parts[p])
             = BaseParts(g)[p] \cup {d \in DeltasOf(g) : p \in PrefixesOf[d]}
  <2>1. Overlay(g, p) = {d \in DeltasOf(g) : p \in PrefixesOf[d]}
    BY <1>1, OverlayIsOwn
  <2>2. CASE p \in Rows(g)
    <3>1. part[g][p].state = "reduced"
      BY <2>2 DEF Staged, Unreduced
    <3> QED
      BY <2>1, <2>2, <3>1 DEF DataInv, ReducedRowsAreFinal, Final
  <2>3. CASE p \notin Rows(g)
    <3>1. Overlay(g, p) = {}
      BY <1>1, <2>3 DEF DataInv, OverlaysHaveRows, Rows
    <3> QED
      BY <1>2, <2>1, <2>3, <3>1
  <2> QED
    BY <2>2, <2>3
<1> QED
  BY <1>3 DEF Staged, StagedDoc, Expected

\* A generation that is not rolled back keeps its deltas.
LEMMA ExpectedStays ==
    ASSUME TypeOK, MapPhaseInv, DataInv, [Next]_vars, NEW g \in Gen,
           Past(g), gens'[g].state # "rolled_back"
    PROVE  Expected(g)' = Expected(g)
<1>1. BaseParts(g)' = BaseParts(g)
  BY FinalStays
<1>2. DeltasOf(g)' = DeltasOf(g)
  <2>1. ASSUME NEW d \in Delta
        PROVE  delta'[d].gen = g <=> delta[d].gen = g
    BY DeltasMove DEF DeltaMoves, Past
  <2> QED
    BY <2>1 DEF DeltasOf
<1> QED
  BY <1>1, <1>2 DEF Expected

LEMMA CandidatesStayExpected ==
    ASSUME TypeOK, MapPhaseInv, DataInv, [Next]_vars,
           NEW g \in Gen, gens'[g].state \in {"published", "active"}
    PROVE  candidate'[g] = Expected(g)'
<1>0. g \in Version
  BY DEF Version
<1>1. CASE Staged(g)
  <2>1. Past(g)
    BY <1>1 DEF Staged, Past
  <2> QED
    BY <1>1, <2>1, StagedIsExpected, ExpectedStays
<1>2. CASE ~Staged(g)
  <2>1. gens[g].state \in {"published", "active"}
    BY <1>2, GensMove DEF GenMoves
  <2>2. candidate[g] = Expected(g)
    BY <2>1, CandidatesAreExpected DEF DataInv, InState
  <2>3. candidate'[g] = candidate[g]
    BY <1>0, <1>2, GensMove DEF CandidateMoves
  <2>4. Past(g)
    BY <2>1 DEF Past
  <2> QED
    BY <2>2, <2>3, <2>4, ExpectedStays
<1> QED
  BY <1>1, <1>2
-----------------------------------------------------------------------------
(* The theorems *)

Inv == TypeOK /\ MapPhaseInv /\ DataInv

LEMMA InitInv ==
    ASSUME Init \/ InitSeeded
    PROVE  Inv
<1>1. TypeOK
  BY InitTypeOK DEF Init, InitSeeded
<1>2. MapPhaseInv
  BY NoVersionIsNone
     DEF Init, InitSeeded, StartsWith, Idle, MapPhaseInv,
         AssignedDeltasHaveAGeneration, DeliveriesOwnTheirDelta,
         PastMapPhaseAllMapped, RollbacksAreDrained, MappedDeltasHaveFragments
<1>3. CandidatesAreNamed /\ RootsWereStaged
  BY DEF Init, InitSeeded, StartsWith, CandidatesAreNamed, RootsWereStaged, Genuine,
         SeedDoc, Seed, Version, Idle
<1>4. /\ BasesAreKnown /\ FragmentsAreOwn /\ OverlaysHaveRows /\ ReducersAgree
      /\ ReducedRowsAreFinal /\ RollbacksAreOfActive
  BY DEF Init, InitSeeded, StartsWith, BasesAreKnown, FragmentsAreOwn,
         OverlaysHaveRows, ReducersAgree, ReducedRowsAreFinal, RollbacksAreOfActive,
         Past, Idle
<1>5. CandidatesAreBasePlusDeltas
  BY DEF Init, InitSeeded, StartsWith, CandidatesAreBasePlusDeltas, InState
<1> QED
  BY <1>1, <1>2, <1>3, <1>4, <1>5 DEF Inv, DataInv

LEMMA NextInv ==
    ASSUME ConsumersDrain, Inv, [Next]_vars
    PROVE  Inv'
<1> USE DEF Inv
<1>1. TypeOK' /\ MapPhaseInv'
  BY NextTypeOK, MapPhaseNext
<1>2. CandidatesAreBasePlusDeltas'
  <2>1. \A g \in Gen : gens'[g].state \in {"published", "active"} =>
            candidate'[g] = Expected(g)'
    BY CandidatesStayExpected
  <2>2. CandidatesAreBasePlusDeltas' <=>
            (\A g \in InState({"published", "active"}) : candidate[g] = Expected(g))'
    BY CandidatesAreExpected, PTL
  <2> QED
    BY <2>1, <2>2 DEF InState
<1> QED
  BY <1>1, <1>2, CandidatesStayNamed, RootsStayStaged, BasesStayKnown,
     FragmentsStayOwn, OverlaysKeepRows, ReducersStillAgree, ReducedRowsStayFinal,
     RollbacksStayOfActive DEF DataInv

\* If deliveries end before the generation they work for is rolled back, a
\* published generation is its base with exactly the records of its deltas,
\* whatever leases expired, whichever reducers ran at once, and whatever was
\* retried (reducer.js reducePartition, stageCandidateRoot).
THEOREM CandidatesAreComplete ==
    ASSUME ConsumersDrain
    PROVE  Spec \/ SeededSpec => []CandidatesAreBasePlusDeltas
<1>1. Inv => CandidatesAreBasePlusDeltas
  BY DEF Inv, DataInv
<1>2. Init \/ InitSeeded => Inv
  BY InitInv
<1>3. Inv /\ [Next]_vars => Inv'
  BY NextInv
<1> QED
  BY <1>1, <1>2, <1>3, PTL DEF Spec, SeededSpec

\* Under the same assumption the unconditional put never changes the objects of a
\* reduced partition: every reducer that still writes computed the same content
\* (reducer.js reducePartition).
THEOREM ReducedObjectsStay ==
    ASSUME ConsumersDrain
    PROVE  Spec \/ SeededSpec => ReducedObjectsAreImmutable
<1>1. ASSUME Inv, [Next]_vars, NEW g \in Gen, NEW p \in Prefix,
             part[g][p].state = "reduced"
      PROVE  objects'[g][p] = objects[g][p]
  BY <1>1, ObjectsStep DEF Inv, DataInv, ReducedRowsAreFinal
<1>2. Init \/ InitSeeded => Inv
  BY InitInv
<1>3. Inv /\ [Next]_vars => Inv'
  BY NextInv
<1>4. Inv /\ [Next]_vars =>
        \A g \in Gen, p \in Prefix :
            part[g][p].state = "reduced" => objects'[g][p] = objects[g][p]
  BY <1>1
<1> QED
  BY <1>2, <1>3, <1>4, PTL DEF Spec, SeededSpec, ReducedObjectsAreImmutable
-----------------------------------------------------------------------------
(* The catalog: an inductive invariant for one operator at a time *)

\* Operators who roll back do not race each other (see README.md for what two of
\* them can do).
OneOperator == RollbackAllowed => \A a, b \in Admin : a = b

\* What the candidate of a version holds.
PartsOf(v) == IF v = NoVersion THEN Empty ELSE candidate[v].parts

\* The ledger lets the version be the root.
Kept(v) == StateOf(v) \in {"published", "active"}

SeedIsExported == candidate[Seed] = SeedDoc

StagedArePast == \A g \in Gen : candidate[g] # NoDoc => Past(g)

ArchivesAreNamed ==
    \A v \in Version : archive[v] # NoDoc => archive[v].version = v

\* Generations are started in their order, each over an older version.
GenerationsAreOrdered ==
    /\ \A g, h \in Gen :
         gens[g].state = "absent" /\ g < h => gens[h].state = "absent"
    /\ \A g \in Gen : gens[g].state # "absent" => gens[g].base < g

\* No version holds a delta twice: what a schedule has read as pending, and the
\* deltas of a generation, are not in the version they will be added to.
PendingAreNew ==
    \A c \in Cron, p \in Prefix :
        cron[c].pc = "commit" => PartsOf(cron[c].base)[p] \cap cron[c].deltas = {}

OwnDeltasAreNew ==
    \A g \in Gen, p \in Prefix :
        gens[g].state # "absent" => BaseParts(g)[p] \cap DeltasOf(g) = {}

\* The root and all the versions it was built on, one on the other.
Line(L) ==
    /\ root.version \in L \cup {NoVersion}
    /\ \A v \in L : Kept(v) /\ BaseOf(v) \in L \cup {NoVersion}

RootHasALine == \E L \in SUBSET Version : Line(L)

\* What an operator about to write the root has made sure of.
Activating(a) ==
    /\ Kept(admin[a].version)
    /\ admin[a].seen.version = BaseOf(admin[a].version)
    /\ admin[a].seen.version \in Version => archive[admin[a].seen.version] # NoDoc

Withdrawing(a) ==
    LET g == admin[a].version IN
    /\ admin[a].seen.version = g
    /\ admin[a].prior # NoDoc
    /\ admin[a].prior.version = gens[g].base
    /\ gens[g].state = "active"
    /\ archive[g] # NoDoc
    /\ archive[gens[g].base] # NoDoc

OperatorsAreRight ==
    \A a \in Admin :
        /\ admin[a].pc \in {"rbSwap", "rbSettle"} => RollbackAllowed
        /\ admin[a].pc = "actSwap" => Activating(a)
        /\ admin[a].pc = "rbSwap" => Withdrawing(a)
        /\ admin[a].pc = "rbSettle" => root.version = gens[admin[a].version].base

CatalogInv ==
    /\ SeedIsExported
    /\ StagedArePast
    /\ ArchivesAreNamed
    /\ GenerationsAreOrdered
    /\ PendingAreNew
    /\ OwnDeltasAreNew
    /\ OnlyActivatedIsVisible
    /\ RootHasALine
    /\ OperatorsAreRight
-----------------------------------------------------------------------------
(* Documents *)

LEMMA NoDocIsEmpty == NoDoc.version = NoVersion /\ NoDoc.parts = Empty
BY DEF NoDoc

LEMMA RootHasItsParts ==
    ASSUME TypeOK, DataInv
    PROVE  /\ root.parts = PartsOf(root.version)
           /\ root = NoDoc <=> root.version = NoVersion
           /\ root.version \in Version => root = candidate[root.version]
BY NoDocIsEmpty, NoVersionIsNone DEF DataInv, RootsWereStaged, Genuine, PartsOf

LEMMA BasePartsAreParts ==
    ASSUME NEW g
    PROVE  BaseParts(g) = PartsOf(gens[g].base)
BY DEF BaseParts, PartsOf

\* The candidate of a version that may be the root.
LEMMA KeptCandidate ==
    ASSUME TypeOK, DataInv, CatalogInv, NEW v \in Version, Kept(v)
    PROVE  /\ candidate[v].version = v
           /\ v = Seed => candidate[v].parts = Empty
           /\ v \in Gen => /\ candidate[v] = Expected(v)
                           /\ Past(v)
<1>1. CASE v = Seed
  BY <1>1, NoVersionIsNone DEF CatalogInv, SeedIsExported, SeedDoc, Seed, Gen
<1>2. CASE v # Seed
  <2>1. v \in Gen /\ gens[v].state \in {"published", "active"}
    BY <1>2 DEF Version, Kept, StateOf
  <2>2. candidate[v] = Expected(v)
    BY <2>1, CandidatesAreExpected DEF DataInv, InState
  <2> QED
    BY <1>2, <2>1, <2>2 DEF Expected, Past
<1> QED
  BY <1>1, <1>2

\* The deltas of a generation that may be the root.
LEMMA KeptDeltas ==
    ASSUME TypeOK, MapPhaseInv, NEW v \in Gen, Past(v),
           NEW d \in Delta, delta[d].gen = v
    PROVE  delta[d].state = "mapped"
BY DEF MapPhaseInv, PastMapPhaseAllMapped, Past
-----------------------------------------------------------------------------
(* What a step may do to what is in the catalog *)

\* Only the batch of a rollback withdraws a generation.
LEMMA OnlyRollbackWithdraws ==
    ASSUME TypeOK, [Next]_vars, NEW g \in Gen,
           gens[g].state # "rolled_back", gens'[g].state = "rolled_back"
    PROVE  \E a \in Admin : RollbackSettles(a) /\ admin[a].version = g
<1>1. ASSUME NEW S, NEW s, s # "rolled_back", NEW h \in Gen,
             gens' = [gens EXCEPT ![h].state = s]
      PROVE  FALSE
  BY <1>1 DEF TypeOK, GenRow
<1>2. ASSUME NEW c \in Cron, CronCommits(c)
      PROVE  FALSE
  <2>1. PICK h \in Oldest(InState({"absent"})) :
          gens' = [gens EXCEPT ![h] = [state |-> "mapping", partitions |-> 0,
                                       base |-> cron[c].base]]
    BY <1>2 DEF CronCommits
  <2> QED
    BY <2>1 DEF TypeOK, Oldest, InState
<1>3. ASSUME NEW c \in Cron, CronStartsReduce(c)
      PROVE  FALSE
  <2>1. \A h \in Oldest(InState({"mapped", "reducing"})) : h \in Gen
    BY DEF Oldest, InState
  <2> QED
    BY <1>1, <1>3, <2>1 DEF CronStartsReduce
<1>4. ASSUME NEW c \in Cron, CronStages(c)
      PROVE  FALSE
  <2>1. cron[c].gen \in Gen
    BY <1>4 DEF TypeOK, CronStages, CronJob, Idle
  <2> QED
    BY <1>1, <1>4, <2>1 DEF CronStages, Stage
<1>5. ASSUME NEW w \in Worker, WorkerStages(w)
      PROVE  FALSE
  <2>1. worker[w].gen \in Gen
    BY <1>5 DEF TypeOK, WorkerStages, WorkerJob, Idle
  <2> QED
    BY <1>1, <1>5, <2>1 DEF WorkerStages, Stage
<1>6. ASSUME NEW w \in Worker, MapFinishes(w)
      PROVE  FALSE
  <2>1. GenMoves
    BY <1>6, FinishMoves
  <2>2. gens[g].state = "active"
    BY <2>1 DEF GenMoves
  <2>3. gens'[g] = gens[g]
    BY <1>6, <2>2 DEF MapFinishes, FinishMapped, TypeOK
  <2> QED
    BY <2>3
<1>7. ASSUME NEW a \in Admin, ActivateSettles(a)
      PROVE  FALSE
  <2>1. admin[a].version \in Version
    BY <1>7 DEF TypeOK, ActivateSettles, AdminJob, Idle
  <2>2. \/ gens' = gens
        \/ /\ admin[a].version \in Gen
           /\ gens' = [gens EXCEPT ![admin[a].version].state = "active"]
    BY <1>7, <2>1 DEF ActivateSettles, Version
  <2> QED
    BY <1>1, <2>2
<1>8. ASSUME NEW a \in Admin, RollbackSettles(a)
      PROVE  admin[a].version = g
  BY <1>8 DEF RollbackSettles, TypeOK, GenRow
<1> QED
  BY <1>2, <1>3, <1>4, <1>5, <1>6, <1>7, <1>8, EveryStepWrites DEF Writers

\* Nor does anything else give a mapped delta back.
LEMMA OnlyRollbackGivesBack ==
    ASSUME TypeOK, [Next]_vars, NEW d \in Delta, delta[d].state = "mapped"
    PROVE  \/ delta'[d] = delta[d]
           \/ \E a \in Admin : RollbackSettles(a) /\ admin[a].version = delta[d].gen
<1>1. ASSUME NEW e \in Delta, Register(e)
      PROVE  delta'[d] = delta[d]
  BY <1>1 DEF Register, TypeOK
<1>2. ASSUME NEW c \in Cron, CronCommits(c)
      PROVE  delta'[d] = delta[d]
  BY <1>2 DEF CronCommits
<1>3. ASSUME NEW w \in Worker, MapCommits(w)
      PROVE  delta'[d] = delta[d]
  <2>1. delta' = [delta EXCEPT ![worker[w].delta].state =
                    IF @ = "assigned" THEN "mapped" ELSE @]
    BY <1>3 DEF MapCommits
  <2> QED
    BY <2>1 DEF TypeOK, DeltaRow
<1>4. ASSUME NEW a \in Admin, RollbackSettles(a)
      PROVE  delta'[d] = delta[d] \/ admin[a].version = delta[d].gen
  BY <1>4 DEF RollbackSettles, GivenBack
<1> QED
  BY <1>1, <1>2, <1>3, <1>4, EveryStepWrites DEF Writers

\* A registered seed stays registered.
LEMMA SeedStaysKept ==
    ASSUME [Next]_vars, seed \in {"published", "active"}
    PROVE  seed' \in {"published", "active"}
<1>1. ASSUME NEW c \in Cron, CronStep(c) \/ CronDies(c)
      PROVE  seed' = seed
  BY <1>1 DEF CronStep, CronFindsLive, CronFindsNone, CronReadsPending, CronCommits,
         CronCommitRefused, CronSendsMapJobs, CronStartsReduce, CronStages,
         CronDies, ledger
<1>2. ASSUME NEW w \in Worker, WorkerStep(w) \/ WorkerDies(w) \/ ReduceFails(w)
      PROVE  seed' = seed
  BY <1>2 DEF WorkerStep, WorkerGoesOn, TakesMapJob, TakesReduceJob, MapReads,
         MapCommits, MapFinishes, ReduceClaims, ReduceIsDuplicate, ReduceReads,
         ReducePuts, ReduceChecks, ReduceRefused, ReduceCommits, WorkerStages,
         WorkerDies, ReduceFails, ledger
<1>3. ASSUME NEW a \in Admin, AdminStep(a) \/ AdminDies(a)
      PROVE  seed' \in {"published", "active"}
  BY <1>3 DEF AdminStep, AdminGoesOn, RegistersSeed, ActivateBegins, ActivateSwaps,
         ActivateSettles, RollbackBegins, RollbackSwaps, RollbackSettles,
         AdminDies, ledger
<1>4. ASSUME NEW d \in Delta, Register(d)
      PROVE  seed' = seed
  BY <1>4 DEF Register
<1>5. CASE TimePasses
  BY <1>5 DEF TimePasses, LeaseExpires
<1>6. CASE UNCHANGED vars
  BY <1>6 DEF vars, ledger
<1> QED
  BY <1>1, <1>2, <1>3, <1>4, <1>5, <1>6 DEF Next, Progress, Failure

\* A version that may be the root keeps its base, and may be the root until a
\* rollback of it is settled.
LEMMA KeptStays ==
    ASSUME TypeOK, [Next]_vars, NEW v \in Version, Kept(v)
    PROVE  /\ BaseOf(v)' = BaseOf(v)
           /\ \/ Kept(v)'
              \/ v \in Gen /\ \E a \in Admin : RollbackSettles(a) /\ admin[a].version = v
<1>1. CASE v = Seed
  BY <1>1, SeedStaysKept DEF Kept, StateOf, BaseOf
<1>2. CASE v # Seed
  <2>1. v \in Gen /\ gens[v].state \in {"published", "active"}
    BY <1>2 DEF Version, Kept, StateOf
  <2>2. /\ gens'[v].base = gens[v].base
        /\ gens'[v].state \in {"published", "active", "rolled_back"}
    BY <2>1, GensMove DEF GenMoves
  <2> QED
    BY <1>2, <2>1, <2>2, OnlyRollbackWithdraws DEF Kept, StateOf, BaseOf
<1> QED
  BY <1>1, <1>2

LEMMA PartsStay ==
    ASSUME TypeOK, [Next]_vars, NEW v, Known(v)
    PROVE  PartsOf(v)' = PartsOf(v)
BY GensMove DEF CandidateMoves, Known, PartsOf

LEMMA ArchiveMoves ==
    ASSUME [Next]_vars
    PROVE  archive' = archive \/ (archive' = Archived /\ root' = root)
<1>1. \/ archive' = archive
      \/ \E a \in Admin : \/ \E v \in Version : ActivateBegins(a, v)
                          \/ \E g \in Gen : RollbackBegins(a, g)
  BY EveryStepWrites DEF Writers
<1> QED
  BY <1>1 DEF ActivateBegins, RollbackBegins

LEMMA ArchiveGrows ==
    ASSUME TypeOK, DataInv, [Next]_vars, NEW v \in Version, archive[v] # NoDoc
    PROVE  archive'[v] # NoDoc
<1>1. CASE archive' = Archived
  BY <1>1, RootHasItsParts, NoVersionIsNone DEF Archived
<1> QED
  BY <1>1, ArchiveMoves

\* A generation is started by the batch of a schedule.
LEMMA StartsGeneration ==
    ASSUME TypeOK, MapPhaseInv, [Next]_vars, NEW g \in Gen,
           gens[g].state = "absent", gens'[g].state # "absent"
    PROVE  \E c \in Cron :
             /\ cron[c].pc = "commit"
             /\ gens'[g].base = cron[c].base
             /\ \A h \in Gen : gens[h].state = "absent" => g <= h
             /\ \A d \in Delta : delta'[d].gen = g => d \in cron[c].deltas
<1>1. ASSUME NEW c \in Cron, CronCommits(c)
      PROVE  /\ cron[c].pc = "commit"
             /\ gens'[g].base = cron[c].base
             /\ \A h \in Gen : gens[h].state = "absent" => g <= h
             /\ \A d \in Delta : delta'[d].gen = g => d \in cron[c].deltas
  <2>1. PICK k \in Oldest(InState({"absent"})) :
          /\ gens' = [gens EXCEPT ![k] = [state |-> "mapping", partitions |-> 0,
                                          base |-> cron[c].base]]
          /\ delta' = [d \in Delta |->
                         IF d \in cron[c].deltas /\ delta[d].state = "registered"
                         THEN [state |-> "assigned", gen |-> k] ELSE delta[d]]
    BY <1>1 DEF CronCommits
  <2>2. k \in Gen /\ \A h \in Gen : gens[h].state = "absent" => k <= h
    BY DEF Oldest, InState
  <2>3. g = k
    BY <2>1, <2>2 DEF TypeOK
  <2>4. \A d \in Delta : delta[d].gen # g
    BY DEF MapPhaseInv, PastMapPhaseAllMapped
  <2>5. cron[c].pc = "commit"
    BY <1>1 DEF CronCommits
  <2>6. gens'[g].base = cron[c].base
    BY <2>1, <2>2, <2>3 DEF TypeOK
  <2>7. \A d \in Delta : delta'[d].gen = g => d \in cron[c].deltas
    BY <2>1, <2>3, <2>4
  <2> QED
    BY <2>2, <2>3, <2>5, <2>6, <2>7
<1>2. ASSUME NEW c \in Cron, CronStartsReduce(c) \/ CronStages(c)
      PROVE  FALSE
  <2>1. \A s \in GenState : \A h \in Gen :
           gens' = [gens EXCEPT ![h].state = s] => h = g
    BY DEF TypeOK, GenRow
  <2>2. \A h \in Oldest(InState({"mapped", "reducing"})) :
          h \in Gen /\ h # g
    BY DEF Oldest, InState
  <2>3. cron[c].pc = "stage" => cron[c].gen \in Gen
    BY DEF TypeOK, CronJob, Idle
  <2>4. CASE CronStartsReduce(c)
    BY <2>1, <2>2, <2>4 DEF CronStartsReduce, GenState
  <2>5. CASE CronStages(c)
    BY <2>1, <2>3, <2>5 DEF CronStages, Stage, CanStage, GenState
  <2> QED
    BY <1>2, <2>4, <2>5
<1>3. ASSUME NEW w \in Worker, MapFinishes(w) \/ WorkerStages(w)
      PROVE  FALSE
  <2>1. worker[w].pc # "idle" /\ worker[w].pc \in {"mapFinish", "stage"} =>
           worker[w].gen \in Gen
    BY DEF TypeOK, WorkerJob, Idle
  <2>2. worker[w].gen \in Gen
    BY <1>3, <2>1 DEF MapFinishes, WorkerStages
  <2>3. gens'[g] = gens[g]
    BY <1>3, <2>2 DEF MapFinishes, FinishMapped, WorkerStages, Stage, CanStage,
                      TypeOK, GenRow
  <2> QED
    BY <2>3
<1>4. ASSUME NEW a \in Admin, ActivateSettles(a)
      PROVE  FALSE
  <2>1. admin[a].version \in Version
    BY <1>4 DEF TypeOK, ActivateSettles, AdminJob, Idle
  <2>2. \/ gens' = gens
        \/ /\ admin[a].version \in Gen
           /\ gens[admin[a].version].state = "published"
           /\ gens' = [gens EXCEPT ![admin[a].version].state = "active"]
    BY <1>4, <2>1 DEF ActivateSettles, StateOf, Version
  <2> QED
    BY <2>2 DEF TypeOK, GenRow
<1>5. ASSUME NEW a \in Admin, RollbackSettles(a)
      PROVE  FALSE
  BY <1>5 DEF RollbackSettles, TypeOK, GenRow
<1> QED
  BY <1>1, <1>2, <1>3, <1>4, <1>5, EveryStepWrites DEF Writers
-----------------------------------------------------------------------------
(* The invariant is kept: versions *)

LEMMA VersionsStayRight ==
    ASSUME TypeOK, MapPhaseInv, DataInv, CatalogInv, [Next]_vars
    PROVE  SeedIsExported' /\ StagedArePast' /\ ArchivesAreNamed'
<1>0. CandidateMoves
  BY GensMove
<1>1. SeedIsExported'
  <2>1. Seed \in Version /\ Seed \notin Gen
    BY CompactionAssumption DEF Seed, Version, Gen
  <2> QED
    BY <1>0, <2>1 DEF CandidateMoves, CatalogInv, SeedIsExported
<1>2. ASSUME NEW g \in Gen, candidate'[g] # NoDoc
      PROVE  Past(g)'
  <2>1. g \in Version
    BY DEF Version
  <2>2. candidate[g] # NoDoc \/ Staged(g)
    BY <1>0, <1>2, <2>1 DEF CandidateMoves
  <2>3. Past(g)
    BY <2>2 DEF CatalogInv, StagedArePast, Staged, Past
  <2> QED
    BY <2>3, FinalStays
<1>3. ArchivesAreNamed'
  BY ArchiveMoves DEF CatalogInv, ArchivesAreNamed, Archived
<1> QED
  BY <1>1, <1>2, <1>3 DEF StagedArePast

\* A version with a candidate is older than every generation not yet started.
LEMMA KnownIsOlder ==
    ASSUME CatalogInv, NEW v, Known(v), NEW g \in Gen, gens[g].state = "absent"
    PROVE  v < g
<1>1. CASE v \in {NoVersion, Seed}
  BY <1>1, CompactionAssumption DEF NoVersion, Seed, Gen
<1>2. CASE v \notin {NoVersion, Seed}
  <2>1. v \in Gen /\ Past(v)
    BY <1>2 DEF Known, Version, CatalogInv, StagedArePast
  <2>2. ~(v = g) /\ ~(g < v)
    BY <2>1 DEF CatalogInv, GenerationsAreOrdered, Past
  <2> QED
    BY <2>1, <2>2, CompactionAssumption DEF Gen
<1> QED
  BY <1>1, <1>2

LEMMA OrderStays ==
    ASSUME TypeOK, MapPhaseInv, DataInv, CatalogInv, [Next]_vars
    PROVE  GenerationsAreOrdered'
<1>1. ASSUME NEW g \in Gen, NEW h \in Gen, gens'[g].state = "absent", g < h
      PROVE  gens'[h].state = "absent"
  <2>1. gens[g].state = "absent"
    BY <1>1, GensMove DEF GenMoves
  <2>2. gens[h].state = "absent"
    BY <1>1, <2>1 DEF CatalogInv, GenerationsAreOrdered
  <2>3. SUFFICES ASSUME gens'[h].state # "absent"
                 PROVE  FALSE
    OBVIOUS
  <2>4. h <= g
    BY <2>1, <2>2, <2>3, StartsGeneration
  <2> QED
    BY <1>1, <2>4, CompactionAssumption DEF Gen
<1>2. ASSUME NEW g \in Gen, gens'[g].state # "absent"
      PROVE  gens'[g].base < g
  <2>1. CASE gens[g].state # "absent"
    <3>1. gens'[g].base = gens[g].base
      BY <2>1, GensMove DEF GenMoves
    <3> QED
      BY <2>1, <3>1 DEF CatalogInv, GenerationsAreOrdered
  <2>2. CASE gens[g].state = "absent"
    <3>1. PICK c \in Cron : cron[c].pc = "commit" /\ gens'[g].base = cron[c].base
      BY <1>2, <2>2, StartsGeneration
    <3>2. Known(cron[c].base)
      BY <3>1 DEF DataInv, BasesAreKnown
    <3> QED
      BY <2>2, <3>1, <3>2, KnownIsOlder
  <2> QED
    BY <2>1, <2>2
<1> QED
  BY <1>1, <1>2 DEF GenerationsAreOrdered

\* What a schedule reads as pending is not visible.
LEMMA PendingStayNew ==
    ASSUME TypeOK, MapPhaseInv, DataInv, CatalogInv, [Next]_vars
    PROVE  PendingAreNew'
<1> SUFFICES ASSUME NEW c \in Cron, NEW p \in Prefix, cron'[c].pc = "commit"
             PROVE  PartsOf(cron[c].base)'[p] \cap cron'[c].deltas = {}
  BY DEF PendingAreNew
<1>1. CASE cron'[c] = cron[c]
  <2>1. Known(cron[c].base)
    BY <1>1 DEF DataInv, BasesAreKnown
  <2>2. \A v : Known(v) => (v = NoVersion \/ candidate'[v] = candidate[v])
    BY GensMove DEF CandidateMoves, Known
  <2>3. PartsOf(cron[c].base)' = PartsOf(cron[c].base)
    BY <1>1, <2>1, <2>2 DEF PartsOf
  <2> QED
    BY <1>1, <2>3 DEF CatalogInv, PendingAreNew
<1>2. ASSUME NEW S \in SUBSET InDeltaState("registered"),
             cron'[c].deltas = S, cron'[c].base = root.version,
             candidate' = candidate
      PROVE  PartsOf(cron[c].base)'[p] \cap cron'[c].deltas = {}
  <2>1. PartsOf(cron[c].base)' = root.parts
    BY <1>2, RootHasItsParts DEF PartsOf
  <2>2. \A d \in S : d \in Delta /\ delta[d].state = "registered"
    BY DEF InDeltaState
  <2>3. \A d \in S : d \notin root.parts[p]
    BY <2>2 DEF CatalogInv, OnlyActivatedIsVisible
  <2> QED
    BY <1>2, <2>1, <2>3
<1>3. ASSUME NEW k \in Cron, CronStep(k) \/ CronDies(k), cron'[c] # cron[c]
      PROVE  \E S \in SUBSET InDeltaState("registered") :
               /\ cron'[c].deltas = S /\ cron'[c].base = root.version
               /\ candidate' = candidate
  <2>1. CASE CronReadsPending(k)
    <3>1. \/ CronGoes(k, [pc |-> "reduce"])
          \/ \E S \in SUBSET InDeltaState("registered") :
               CronGoes(k, [pc |-> "commit", deltas |-> S, base |-> root.version])
      BY <2>1 DEF CronReadsPending
    <3>2. candidate' = candidate
      BY <2>1 DEF CronReadsPending, store
    <3> QED
      BY <1>3, <3>1, <3>2 DEF CronGoes, TypeOK
  <2>2. CASE \/ CronFindsLive(k) \/ CronFindsNone(k) \/ CronCommits(k)
             \/ CronCommitRefused(k) \/ CronSendsMapJobs(k)
             \/ CronStartsReduce(k) \/ CronStages(k) \/ CronDies(k)
    <3>1. \E job : job.pc # "commit" /\ CronGoes(k, job)
      <4>1. /\ \A g \in Gen : [pc |-> "send", gen |-> g].pc # "commit"
            /\ \A g \in Gen : [pc |-> "stage", gen |-> g].pc # "commit"
            /\ [pc |-> "reduce"].pc # "commit" /\ [pc |-> "pending"].pc # "commit"
            /\ Idle.pc # "commit"
        BY DEF Idle
      <4> QED
        BY <2>2, <4>1 DEF CronFindsLive, CronFindsNone, CronCommits,
           CronCommitRefused, CronSendsMapJobs, CronStartsReduce, CronStages,
           CronDies, Oldest, InState
    <3> QED
      BY <1>3, <3>1 DEF CronGoes, TypeOK
  <2> QED
    BY <1>3, <2>1, <2>2 DEF CronStep
<1> QED
  BY <1>1, <1>2, <1>3, EveryStepWrites DEF Writers

LEMMA OwnDeltasStayNew ==
    ASSUME TypeOK, MapPhaseInv, DataInv, CatalogInv, [Next]_vars
    PROVE  OwnDeltasAreNew'
<1> SUFFICES ASSUME NEW g \in Gen, NEW p \in Prefix, gens'[g].state # "absent"
             PROVE  BaseParts(g)'[p] \cap DeltasOf(g)' = {}
  BY DEF OwnDeltasAreNew
<1>0. \A v : Known(v) => (v = NoVersion \/ candidate'[v] = candidate[v])
  BY GensMove DEF CandidateMoves, Known
<1>1. CASE gens[g].state # "absent"
  <2>1. gens'[g].base = gens[g].base /\ Known(gens[g].base)
    BY <1>1, GensMove DEF GenMoves, DataInv, BasesAreKnown
  <2>2. BaseParts(g)' = BaseParts(g)
    BY <1>0, <2>1 DEF BaseParts
  <2>3. \A d \in Delta : delta'[d].gen = g => delta[d].gen = g
    BY <1>1, DeltasMove DEF DeltaMoves
  <2> QED
    BY <1>1, <2>2, <2>3 DEF DeltasOf, CatalogInv, OwnDeltasAreNew
<1>2. CASE gens[g].state = "absent"
  <2>1. PICK c \in Cron : /\ cron[c].pc = "commit"
                          /\ gens'[g].base = cron[c].base
                          /\ \A d \in Delta : delta'[d].gen = g => d \in cron[c].deltas
    BY <1>2, StartsGeneration
  <2>2. Known(cron[c].base)
    BY <2>1 DEF DataInv, BasesAreKnown
  <2>3. BaseParts(g)' = PartsOf(cron[c].base)
    BY <1>0, <2>1, <2>2 DEF BaseParts, PartsOf
  <2>4. PartsOf(cron[c].base)[p] \cap cron[c].deltas = {}
    BY <2>1 DEF CatalogInv, PendingAreNew
  <2> QED
    BY <2>1, <2>3, <2>4 DEF DeltasOf
<1> QED
  BY <1>1, <1>2
-----------------------------------------------------------------------------
(* The invariant is kept: operators *)

\* The root is written over the version it was read as.
LEMMA ActivateWrites ==
    ASSUME TypeOK, DataInv, CatalogInv, NEW a \in Admin, ActivateSwaps(a),
           root' # root
    PROVE  /\ admin[a].version \in Version
           /\ Kept(admin[a].version)
           /\ root.version = BaseOf(admin[a].version)
           /\ root.version \in Version => archive[root.version] # NoDoc
           /\ root' = candidate[admin[a].version]
           /\ UNCHANGED <<ledger, candidate, archive>>
<1>1. admin[a].version \in Version /\ admin[a].pc = "actSwap"
  BY DEF TypeOK, ActivateSwaps, AdminJob, Idle
<1>2. root = admin[a].seen /\ root' = candidate[admin[a].version]
  BY DEF ActivateSwaps
<1>3. Activating(a)
  BY <1>1 DEF CatalogInv, OperatorsAreRight
<1> QED
  BY <1>1, <1>2, <1>3 DEF Activating, ActivateSwaps

LEMMA RollbackWrites ==
    ASSUME TypeOK, DataInv, CatalogInv, NEW a \in Admin, RollbackSwaps(a),
           root' # root
    PROVE  /\ admin[a].version \in Gen
           /\ gens[admin[a].version].state = "active"
           /\ root.version = admin[a].version
           /\ archive[root.version] # NoDoc
           /\ gens[root.version].base \in Version
           /\ archive[gens[root.version].base] # NoDoc
           /\ root'.version = gens[root.version].base
           /\ root' = candidate[root'.version]
           /\ UNCHANGED <<ledger, candidate, archive>>
<1>1. admin[a].version \in Gen /\ admin[a].pc = "rbSwap"
  BY DEF TypeOK, RollbackSwaps, AdminJob, Idle
<1>2. root = admin[a].seen /\ root' = admin[a].prior
  BY DEF RollbackSwaps
<1>3. Withdrawing(a)
  BY <1>1 DEF CatalogInv, OperatorsAreRight
<1>4. Genuine(root') /\ root' # NoDoc
  BY <1>1, <1>2, <1>3 DEF DataInv, RootsWereStaged, Withdrawing
<1>5. UNCHANGED <<ledger, candidate, archive>>
  BY DEF RollbackSwaps
<1> QED
  BY <1>1, <1>2, <1>3, <1>4, <1>5 DEF Withdrawing, Genuine

\* With one operator, what is done to the root or withdrawn is done by the one
\* whose step it is.
LEMMA OnlyOneRolls ==
    ASSUME OneOperator, CatalogInv, NEW a \in Admin, NEW b \in Admin,
           admin[a].pc \in {"rbSwap", "rbSettle"} \/ admin[b].pc \in {"rbSwap", "rbSettle"}
    PROVE  a = b
BY DEF OneOperator, CatalogInv, OperatorsAreRight

LEMMA OperatorWaits ==
    ASSUME OneOperator, TypeOK, MapPhaseInv, DataInv, CatalogInv, [Next]_vars,
           NEW b \in Admin, admin'[b] = admin[b]
    PROVE  /\ admin[b].pc \in {"rbSwap", "rbSettle"} => RollbackAllowed
           /\ admin[b].pc = "actSwap" => Activating(b)'
           /\ admin[b].pc = "rbSwap" => Withdrawing(b)'
           /\ admin[b].pc = "rbSettle" =>
                root'.version = gens'[admin[b].version].base
<1>0. Writers
  BY EveryStepWrites
<1>1. ASSUME NEW a \in Admin, RollbackSettles(a)
      PROVE  admin[b].pc \notin {"actSwap", "rbSwap"}
  <2>1. admin[a].pc = "rbSettle"
    BY <1>1 DEF RollbackSettles
  <2>2. a = b
    BY <2>1, OnlyOneRolls
  <2> QED
    BY <2>1, <2>2
<1>2. admin[b].pc \in {"rbSwap", "rbSettle"} => RollbackAllowed
  BY DEF CatalogInv, OperatorsAreRight
<1>3. ASSUME admin[b].pc = "actSwap"
      PROVE  Activating(b)'
  <2>1. Activating(b)
    BY <1>3 DEF CatalogInv, OperatorsAreRight
  <2>2. PICK v : v = admin[b].version
    OBVIOUS
  <2>3. v \in Version /\ Kept(v)
    BY <1>3, <2>1, <2>2 DEF TypeOK, AdminJob, Idle, Activating
  <2>4. Kept(v)' /\ BaseOf(v)' = BaseOf(v)
    BY <1>1, <1>3, <2>3, KeptStays
  <2>5. PICK u : u = admin[b].seen.version
    OBVIOUS
  <2>6. u \in Version /\ archive[u] # NoDoc => archive'[u] # NoDoc
    BY ArchiveGrows
  <2> QED
    BY <2>1, <2>2, <2>4, <2>5, <2>6 DEF Activating, Kept, StateOf, BaseOf
<1>4. ASSUME admin[b].pc = "rbSwap"
      PROVE  Withdrawing(b)'
  <2>1. Withdrawing(b)
    BY <1>4 DEF CatalogInv, OperatorsAreRight
  <2>2. PICK g : g = admin[b].version
    OBVIOUS
  <2>3. g \in Gen /\ g \in Version /\ gens[g].state = "active"
    BY <1>4, <2>1, <2>2 DEF TypeOK, AdminJob, Idle, Withdrawing, Version
  <2>4. gens'[g].state = "active" /\ gens'[g].base = gens[g].base
    BY <1>1, <1>4, <2>3, GensMove, OnlyRollbackWithdraws DEF GenMoves
  <2>5. admin[b].prior \in Doc
    BY <1>4 DEF TypeOK, AdminJob, Idle
  <2>6. gens[g].base \in Version
    <3>1. Genuine(admin[b].prior)
      BY <1>4 DEF DataInv, RootsWereStaged
    <3> QED
      BY <2>1, <2>2, <3>1 DEF Withdrawing, Genuine
  <2>7. archive'[g] # NoDoc /\ archive'[gens[g].base] # NoDoc
    BY <2>1, <2>2, <2>3, <2>6, ArchiveGrows DEF Withdrawing
  <2> QED
    BY <2>1, <2>2, <2>4, <2>7 DEF Withdrawing
<1>5. ASSUME admin[b].pc = "rbSettle"
      PROVE  root'.version = gens'[admin[b].version].base
  <2>1. root.version = gens[admin[b].version].base
    BY <1>5 DEF CatalogInv, OperatorsAreRight
  <2>2. \A a \in Admin : ~ActivateSwaps(a) /\ ~RollbackSwaps(a)
    <3>1. \A a \in Admin : a = b
      BY <1>5, OnlyOneRolls
    <3> QED
      BY <1>5, <3>1 DEF ActivateSwaps, RollbackSwaps
  <2>3. admin[b].version \in Gen /\ gens[admin[b].version].state # "absent"
    BY <1>5 DEF TypeOK, AdminJob, Idle, DataInv, RollbacksAreOfActive
  <2>4. gens'[admin[b].version].base = gens[admin[b].version].base
    BY <2>3, GensMove DEF GenMoves
  <2> QED
    BY <1>0, <2>1, <2>2, <2>4 DEF Writers
<1> QED
  BY <1>2, <1>3, <1>4, <1>5

LEMMA OperatorActs ==
    ASSUME TypeOK, MapPhaseInv, DataInv, CatalogInv,
           NEW b \in Admin, AdminStep(b) \/ AdminDies(b)
    PROVE  /\ admin'[b].pc \in {"rbSwap", "rbSettle"} => RollbackAllowed
           /\ admin'[b].pc = "actSwap" => Activating(b)'
           /\ admin'[b].pc = "rbSwap" => Withdrawing(b)'
           /\ admin'[b].pc = "rbSettle" =>
                root'.version = gens'[admin'[b].version].base
<1> DEFINE Goal ==
           /\ admin'[b].pc \in {"rbSwap", "rbSettle"} => RollbackAllowed
           /\ admin'[b].pc = "actSwap" => Activating(b)'
           /\ admin'[b].pc = "rbSwap" => Withdrawing(b)'
           /\ admin'[b].pc = "rbSettle" =>
                root'.version = gens'[admin'[b].version].base
<1>0. \A job : AdminGoes(b, job) => admin'[b] = job
  BY DEF AdminGoes, TypeOK
<1>1. ASSUME admin'[b].pc \notin {"actSwap", "rbSwap", "rbSettle"}
      PROVE  Goal
  BY <1>1
<1>2. CASE RegistersSeed(b)
  BY <1>1, <1>2 DEF RegistersSeed
<1>3. CASE \/ ActivateSwaps(b) \/ ActivateSettles(b) \/ RollbackSettles(b)
           \/ AdminDies(b)
  <2>1. \E job : job.pc \in {"idle", "actSettle"} /\ AdminGoes(b, job)
    <3>1. /\ Idle.pc = "idle"
          /\ [pc |-> "actSettle", version |-> admin[b].version].pc = "actSettle"
      BY DEF Idle
    <3> QED
      BY <1>3, <3>1 DEF ActivateSwaps, ActivateSettles, RollbackSettles, AdminDies
  <2> QED
    BY <1>0, <1>1, <2>1
<1>4. ASSUME NEW v \in Version, ActivateBegins(b, v)
      PROVE  Goal
  <2>1. /\ StateOf(v) \in {"published", "active"}
        /\ UNCHANGED <<seed, gens, root>>
    BY <1>4 DEF ActivateBegins, ledger
  <2>2. CASE AdminGoes(b, [pc |-> "actSettle", version |-> v])
    BY <1>0, <1>1, <2>2
  <2>3. CASE /\ Swappable(v)
             /\ archive' = Archived
             /\ AdminGoes(b, [pc |-> "actSwap", version |-> v, seen |-> root])
    <3>1. /\ admin'[b].pc = "actSwap" /\ admin'[b].version = v
          /\ admin'[b].seen = root
      BY <1>0, <2>3
    <3>2. Kept(v)' /\ BaseOf(v)' = root.version
      BY <2>1, <2>3 DEF Kept, StateOf, BaseOf, Swappable
    <3>3. root.version \in Version => archive'[root.version] # NoDoc
      BY <2>3, RootHasItsParts, NoVersionIsNone DEF Archived
    <3>4. Activating(b)'
      BY <3>1, <3>2, <3>3 DEF Activating, Kept, StateOf, BaseOf
    <3> QED
      BY <3>1, <3>4
  <2> QED
    BY <1>4, <2>2, <2>3 DEF ActivateBegins
<1>5. ASSUME NEW g \in Gen, RollbackBegins(b, g)
      PROVE  Goal
  <2>1. /\ RollbackAllowed
        /\ gens[g].state = "active"
        /\ gens[g].base # NoVersion
        /\ archive[gens[g].base] # NoDoc
        /\ UNCHANGED <<gens, root>>
    BY <1>5 DEF RollbackBegins, ledger
  <2>2. gens[g].base \in Version /\ g \in Version
    BY <2>1 DEF TypeOK, GenRow, Version
  <2>3. archive[gens[g].base].version = gens[g].base
    BY <2>1, <2>2 DEF CatalogInv, ArchivesAreNamed
  <2>4. CASE /\ Withdrawable(g)
             /\ archive' = Archived
             /\ AdminGoes(b, [pc |-> "rbSwap", version |-> g, seen |-> root,
                              prior |-> archive[gens[g].base]])
    <3>1. /\ admin'[b].pc = "rbSwap" /\ admin'[b].version = g
          /\ admin'[b].seen = root /\ admin'[b].prior = archive[gens[g].base]
      BY <1>0, <2>4
    <3>2. root.version = g
      BY <2>4 DEF Withdrawable
    <3>3. root # NoDoc
      BY <2>2, <3>2, RootHasItsParts, NoVersionIsNone
    <3>4. archive'[g] # NoDoc /\ archive'[gens[g].base] # NoDoc
      BY <2>1, <2>2, <2>4, <3>2, <3>3 DEF Archived
    <3>5. Withdrawing(b)'
      BY <2>1, <2>3, <3>1, <3>2, <3>4 DEF Withdrawing
    <3> QED
      BY <2>1, <3>1, <3>5
  <2>5. CASE Resumable(g) /\ AdminGoes(b, [pc |-> "rbSettle", version |-> g])
    <3>1. admin'[b].pc = "rbSettle" /\ admin'[b].version = g
      BY <1>0, <2>5
    <3>2. root.version = gens[g].base
      BY <2>3, <2>5 DEF Resumable
    <3> QED
      BY <2>1, <3>1, <3>2
  <2> QED
    BY <1>5, <2>4, <2>5 DEF RollbackBegins
<1>6. CASE RollbackSwaps(b)
  <2>1. /\ admin[b].pc = "rbSwap" /\ Withdrawing(b) /\ RollbackAllowed
        /\ gens' = gens
    BY <1>6 DEF RollbackSwaps, CatalogInv, OperatorsAreRight, ledger
  <2>2. CASE AdminGoes(b, Idle)
    BY <1>0, <1>1, <2>2 DEF Idle
  <2>3. CASE /\ root' = admin[b].prior
             /\ AdminGoes(b, [pc |-> "rbSettle", version |-> admin[b].version])
    <3>1. admin'[b].pc = "rbSettle" /\ admin'[b].version = admin[b].version
      BY <1>0, <2>3
    <3> QED
      BY <2>1, <2>3, <3>1 DEF Withdrawing
  <2> QED
    BY <1>6, <2>2, <2>3 DEF RollbackSwaps
<1> QED
  BY <1>2, <1>3, <1>4, <1>5, <1>6 DEF AdminStep, AdminGoesOn

LEMMA OperatorsStayRight ==
    ASSUME OneOperator, TypeOK, MapPhaseInv, DataInv, CatalogInv, [Next]_vars
    PROVE  OperatorsAreRight'
<1>1. ASSUME NEW b \in Admin
      PROVE  admin'[b] = admin[b] \/ AdminStep(b) \/ AdminDies(b)
  <2>1. ASSUME NEW a \in Admin, AdminStep(a) \/ AdminDies(a), a # b
        PROVE  admin'[b] = admin[b]
    <3>1. admin' = admin \/ \E job : AdminGoes(a, job)
      BY <2>1 DEF AdminStep, AdminGoesOn, RegistersSeed, ActivateBegins, ActivateSwaps,
         ActivateSettles, RollbackBegins, RollbackSwaps, RollbackSettles, AdminDies
    <3> QED
      BY <2>1, <3>1 DEF AdminGoes, TypeOK
  <2> QED
    BY <2>1, EveryStepWrites DEF Writers
<1>2. ASSUME NEW b \in Admin
      PROVE  /\ admin'[b].pc \in {"rbSwap", "rbSettle"} => RollbackAllowed
             /\ admin'[b].pc = "actSwap" => Activating(b)'
             /\ admin'[b].pc = "rbSwap" => Withdrawing(b)'
             /\ admin'[b].pc = "rbSettle" =>
                  root'.version = gens'[admin'[b].version].base
  <2>1. CASE admin'[b] = admin[b]
    BY <2>1, OperatorWaits
  <2>2. CASE AdminStep(b) \/ AdminDies(b)
    BY <2>2, OperatorActs
  <2> QED
    BY <1>1, <2>1, <2>2
<1> QED
  BY <1>2 DEF OperatorsAreRight
-----------------------------------------------------------------------------
(* The invariant is kept: the root *)

\* What the batch of a rollback gives back is not in the root.
LEMMA GivenBackIsHidden ==
    ASSUME TypeOK, DataInv, CatalogInv, NEW a \in Admin, RollbackSettles(a)
    PROVE  /\ admin[a].version \in Gen
           /\ root.version = gens[admin[a].version].base
           /\ root.version < admin[a].version
           /\ \A d \in Delta, p \in Prefix :
                d \in root.parts[p] => delta[d].gen # admin[a].version
<1>1. admin[a].version \in Gen /\ admin[a].pc = "rbSettle"
  BY DEF TypeOK, RollbackSettles, AdminJob, Idle
<1>2. PICK g \in Gen : g = admin[a].version
  BY <1>1
<1>3. root.version = gens[g].base /\ gens[g].state # "absent"
  BY <1>1, <1>2 DEF CatalogInv, OperatorsAreRight, DataInv, RollbacksAreOfActive
<1>4. gens[g].base < g
  BY <1>3 DEF CatalogInv, GenerationsAreOrdered
<1>5. root.parts = BaseParts(g)
  BY <1>3, RootIsBase
<1>6. \A p \in Prefix : BaseParts(g)[p] \cap DeltasOf(g) = {}
  BY <1>3 DEF CatalogInv, OwnDeltasAreNew
<1> QED
  BY <1>1, <1>2, <1>3, <1>4, <1>5, <1>6 DEF DeltasOf

\* What the root holds after a step that writes it.
LEMMA WrittenRootIsVisible ==
    ASSUME TypeOK, MapPhaseInv, DataInv, CatalogInv, [Next]_vars, root' # root,
           NEW d \in Delta, NEW p \in Prefix, d \in root'.parts[p]
    PROVE  delta[d].state = "mapped" /\ Kept(delta[d].gen)
<1>0. d \in root.parts[p] => delta[d].state = "mapped" /\ Kept(delta[d].gen)
  BY DEF CatalogInv, OnlyActivatedIsVisible, Kept
<1>1. ASSUME NEW a \in Admin, ActivateSwaps(a)
      PROVE  delta[d].state = "mapped" /\ Kept(delta[d].gen)
  <2>1. PICK v \in Version : /\ Kept(v) /\ root.version = BaseOf(v)
                             /\ root' = candidate[v]
    BY <1>1, ActivateWrites
  <2>2. v \in Gen /\ candidate[v] = Expected(v) /\ Past(v)
    BY <2>1, KeptCandidate DEF Version, Empty
  <2>3. root.version = gens[v].base
    BY <2>1, <2>2, CompactionAssumption DEF BaseOf, Seed, Gen
  <2>4. BaseParts(v) = root.parts
    BY <2>2, <2>3, RootIsBase
  <2>5. d \in root.parts[p] \/ (delta[d].gen = v)
    BY <2>1, <2>2, <2>4 DEF Expected, DeltasOf
  <2>6. delta[d].gen = v => delta[d].state = "mapped"
    BY <2>2, KeptDeltas
  <2> QED
    BY <1>0, <2>1, <2>5, <2>6
<1>2. ASSUME NEW a \in Admin, RollbackSwaps(a)
      PROVE  delta[d].state = "mapped" /\ Kept(delta[d].gen)
  <2>1. PICK g \in Gen : /\ g = root.version /\ gens[g].state = "active"
                         /\ gens[g].base \in Version
                         /\ root' = candidate[gens[g].base]
    BY <1>2, RollbackWrites
  <2>2. g \in Version /\ Kept(g)
    BY <2>1, CompactionAssumption DEF Version, Kept, StateOf, Seed, Gen
  <2>3. root = Expected(g)
    BY <2>1, <2>2, KeptCandidate, RootHasItsParts
  <2>4. root'.parts = BaseParts(g)
    BY <2>1, NoVersionIsNone DEF BaseParts
  <2> QED
    BY <1>0, <2>3, <2>4 DEF Expected
<1> QED
  BY <1>1, <1>2, EveryStepWrites DEF Writers

LEMMA VisibleStaysActivated ==
    ASSUME TypeOK, MapPhaseInv, DataInv, CatalogInv, [Next]_vars
    PROVE  OnlyActivatedIsVisible'
<1> SUFFICES ASSUME NEW d \in Delta, NEW p \in Prefix, d \in root'.parts[p]
             PROVE  /\ delta'[d].state = "mapped"
                    /\ StateOf(delta[d].gen)' \in {"published", "active"}
  BY DEF OnlyActivatedIsVisible
<1>1. delta[d].state = "mapped" /\ Kept(delta[d].gen)
  <2>1. CASE root' = root
    BY <2>1 DEF CatalogInv, OnlyActivatedIsVisible, Kept
  <2> QED
    BY <2>1, WrittenRootIsVisible
<1>2. PICK g \in Gen : g = delta[d].gen
  BY <1>1 DEF MapPhaseInv, AssignedDeltasHaveAGeneration
<1>3. ~ \E a \in Admin : RollbackSettles(a) /\ admin[a].version = g
  <2> SUFFICES ASSUME NEW a \in Admin, RollbackSettles(a), admin[a].version = g
               PROVE  FALSE
    OBVIOUS
  <2>1. root' = root
    BY DEF RollbackSettles, store
  <2> QED
    BY <1>2, <2>1, GivenBackIsHidden
<1>4. delta'[d] = delta[d]
  BY <1>1, <1>2, <1>3, OnlyRollbackGivesBack
<1>5. Kept(g)'
  <2>1. g \in Version /\ Kept(g)
    BY <1>1, <1>2 DEF Version
  <2> QED
    BY <1>3, <2>1, KeptStays
<1> QED
  BY <1>1, <1>2, <1>4, <1>5 DEF Kept, StateOf

\* A version on a line is kept by every step that does not withdraw it.
LEMMA LineStays ==
    ASSUME TypeOK, [Next]_vars, NEW L \in SUBSET Version,
           \A v \in L : Kept(v) /\ BaseOf(v) \in L \cup {NoVersion},
           \A a \in Admin : RollbackSettles(a) => admin[a].version \notin L
    PROVE  \A v \in L : Kept(v)' /\ BaseOf(v)' \in L \cup {NoVersion}
<1> SUFFICES ASSUME NEW v \in L
             PROVE  Kept(v)' /\ BaseOf(v)' \in L \cup {NoVersion}
  OBVIOUS
<1>1. v \in Version /\ Kept(v)
  OBVIOUS
<1> QED
  BY <1>1, KeptStays

LEMMA RootKeepsALine ==
    ASSUME TypeOK, MapPhaseInv, DataInv, CatalogInv, [Next]_vars
    PROVE  RootHasALine'
<1>0. PICK L \in SUBSET Version : Line(L)
  BY DEF CatalogInv, RootHasALine
<1>1. /\ root.version \in L \cup {NoVersion}
      /\ \A v \in L : Kept(v) /\ BaseOf(v) \in L \cup {NoVersion}
  BY <1>0 DEF Line
<1>2. ASSUME NEW M \in SUBSET Version, root'.version \in M \cup {NoVersion},
             \A v \in M : Kept(v) /\ BaseOf(v) \in M \cup {NoVersion},
             \A a \in Admin : RollbackSettles(a) => admin[a].version \notin M
      PROVE  RootHasALine'
  <2>1. \A v \in M : Kept(v)' /\ BaseOf(v)' \in M \cup {NoVersion}
    BY <1>2, LineStays
  <2>2. Line(M)'
    BY <1>2, <2>1 DEF Line, Kept, StateOf, BaseOf
  <2> QED
    BY <2>2 DEF RootHasALine
<1>3. ASSUME NEW a \in Admin, RollbackSettles(a)
      PROVE  RootHasALine'
  <2> DEFINE M == {v \in L : v <= root.version}
  <2>1. root' = root
    BY <1>3 DEF RollbackSettles, store
  <2>2. /\ admin[a].version \in Gen
        /\ root.version < admin[a].version
    BY <1>3, GivenBackIsHidden
  <2>3. Version \subseteq Int /\ NoVersion \in Int /\ root.version \in Int
    BY CompactionAssumption DEF TypeOK, Doc, Version, Seed, Gen, NoVersion
  <2>4. root'.version \in M \cup {NoVersion}
    BY <1>1, <2>1, <2>3
  <2>5. ASSUME NEW v \in M
        PROVE  Kept(v) /\ BaseOf(v) \in M \cup {NoVersion}
    <3>1. v \in Version /\ Kept(v) /\ BaseOf(v) \in L \cup {NoVersion}
      BY <1>1
    <3>2. CASE v = Seed
      BY <3>1, <3>2 DEF BaseOf
    <3>3. CASE v # Seed
      <4>1. /\ v \in Gen /\ gens[v].state # "absent"
            /\ BaseOf(v) = gens[v].base
        BY <3>1, <3>3 DEF Version, Kept, StateOf, BaseOf
      <4>2. BaseOf(v) < v
        BY <4>1 DEF CatalogInv, GenerationsAreOrdered
      <4>3. v <= root.version /\ v \in Int
        BY <2>3, <3>1
      <4>4. ASSUME NEW u \in L, u < v
            PROVE  u <= root.version
        <5>1. u \in Int
          BY <2>3
        <5> QED
          BY <2>3, <4>3, <4>4, <5>1
      <4> QED
        BY <3>1, <4>2, <4>4
    <3> QED
      BY <3>2, <3>3
  <2>6. \A b \in Admin : RollbackSettles(b) => admin[b].version \notin M
    <3> SUFFICES ASSUME NEW b \in Admin, RollbackSettles(b)
                 PROVE  admin[b].version \notin M
      OBVIOUS
    <3>1. /\ admin[b].version \in Gen
          /\ root.version < admin[b].version
      BY GivenBackIsHidden
    <3> QED
      BY <2>3, <3>1 DEF Version
  <2>7. M \in SUBSET Version
    OBVIOUS
  <2> HIDE DEF M
  <2> QED
    BY <1>2, <2>4, <2>5, <2>6, <2>7
<1>4. ASSUME NEW a \in Admin, ActivateSwaps(a), root' # root
      PROVE  RootHasALine'
  <2>1. PICK v \in Version : /\ Kept(v) /\ root.version = BaseOf(v)
                             /\ root' = candidate[v]
    BY <1>4, ActivateWrites
  <2>2. root'.version = v
    BY <2>1, KeptCandidate
  <2>3. \A b \in Admin : ~RollbackSettles(b)
    BY <1>4 DEF RollbackSettles, store
  <2> DEFINE M == L \cup {v}
  <2>4. M \in SUBSET Version /\ root'.version \in M
    BY <2>2
  <2>5. \A u \in M : Kept(u) /\ BaseOf(u) \in M \cup {NoVersion}
    BY <1>1, <2>1
  <2> HIDE DEF M
  <2> QED
    BY <1>2, <2>3, <2>4, <2>5
<1>5. ASSUME NEW a \in Admin, RollbackSwaps(a), root' # root
      PROVE  RootHasALine'
  <2>1. /\ root.version \in Gen
        /\ root'.version = gens[root.version].base
    BY <1>5, RollbackWrites
  <2>2. root.version \in L /\ BaseOf(root.version) = root'.version
    <3>1. root.version # NoVersion /\ root.version # Seed
      BY <2>1, NoVersionIsNone, CompactionAssumption DEF Seed, Gen
    <3> QED
      BY <1>1, <2>1, <3>1 DEF BaseOf
  <2>3. root'.version \in L \cup {NoVersion}
    BY <1>1, <2>2
  <2>4. \A b \in Admin : ~RollbackSettles(b)
    BY <1>5 DEF RollbackSettles, store
  <2> QED
    BY <1>1, <1>2, <2>3, <2>4
<1>6. CASE root' = root /\ \A a \in Admin : ~RollbackSettles(a)
  BY <1>1, <1>2, <1>6
<1> QED
  BY <1>3, <1>4, <1>5, <1>6, EveryStepWrites DEF Writers
-----------------------------------------------------------------------------
(* The theorems about the catalog *)

LEMMA CatalogInit ==
    ASSUME Init \/ InitSeeded
    PROVE  CatalogInv
<1> USE DEF Init, InitSeeded, StartsWith
<1>1. Seed \in Version /\ Seed \notin Gen
  BY CompactionAssumption DEF Seed, Version, Gen
<1>2. SeedIsExported /\ ArchivesAreNamed
  BY <1>1 DEF SeedIsExported, ArchivesAreNamed
<1>3. StagedArePast
  BY <1>1 DEF StagedArePast, Version
<1>4. GenerationsAreOrdered /\ PendingAreNew /\ OwnDeltasAreNew /\ OperatorsAreRight
  BY DEF GenerationsAreOrdered, PendingAreNew, OwnDeltasAreNew, OperatorsAreRight, Idle
<1>5. OnlyActivatedIsVisible
  BY DEF OnlyActivatedIsVisible, NoDoc, SeedDoc, Empty
<1>6. RootHasALine
  <2>1. CASE Init
    <3>1. Line({})
      BY <2>1, NoDocIsEmpty DEF Line
    <3> QED
      BY <3>1 DEF RootHasALine
  <2>2. CASE InitSeeded
    <3>1. Line({Seed})
      BY <2>2 DEF Line, SeedDoc, Kept, StateOf, BaseOf
    <3> QED
      BY <1>1, <3>1 DEF RootHasALine
  <2> QED
    BY <2>1, <2>2
<1> QED
  BY <1>2, <1>3, <1>4, <1>5, <1>6 DEF CatalogInv

LEMMA CatalogNext ==
    ASSUME ConsumersDrain, OneOperator, Inv, CatalogInv, [Next]_vars
    PROVE  (Inv /\ CatalogInv)'
<1>1. Inv'
  BY NextInv
<1>2. CatalogInv'
  BY VersionsStayRight, OrderStays, PendingStayNew, OwnDeltasStayNew,
     VisibleStaysActivated, RootKeepsALine, OperatorsStayRight DEF Inv, CatalogInv
<1> QED
  BY <1>1, <1>2

\* With one operator who rolls back, and deliveries that end before a rollback:
\* whatever dies between the writes of an activation or a rollback, only records
\* of deltas of activated generations are searchable (publication.js).
THEOREM VisibleIsActivated ==
    ASSUME ConsumersDrain, OneOperator
    PROVE  Spec \/ SeededSpec => []OnlyActivatedIsVisible
<1>1. Init \/ InitSeeded => Inv /\ CatalogInv
  BY InitInv, CatalogInit
<1>2. Inv /\ CatalogInv /\ [Next]_vars => (Inv /\ CatalogInv)'
  BY CatalogNext
<1>3. CatalogInv => OnlyActivatedIsVisible
  BY DEF CatalogInv
<1> QED
  BY <1>1, <1>2, <1>3, PTL DEF Spec, SeededSpec

\* Under the same assumptions the root is always a version that an operator may
\* roll back or build on (publication.js rollbackGeneration).
THEOREM RootStaysUsable ==
    ASSUME ConsumersDrain, OneOperator
    PROVE  Spec \/ SeededSpec => []RootIsNotWithdrawn
<1>1. Init \/ InitSeeded => Inv /\ CatalogInv
  BY InitInv, CatalogInit
<1>2. Inv /\ CatalogInv /\ [Next]_vars => (Inv /\ CatalogInv)'
  BY CatalogNext
<1>3. Inv /\ CatalogInv => RootIsNotWithdrawn
  <2> SUFFICES ASSUME Inv, CatalogInv, root # NoDoc
               PROVE  Kept(root.version)
    BY DEF RootIsNotWithdrawn, Kept
  <2>1. root.version # NoVersion
    BY RootHasItsParts DEF Inv
  <2>2. PICK L \in SUBSET Version : Line(L)
    BY DEF CatalogInv, RootHasALine
  <2> QED
    BY <2>1, <2>2 DEF Line
<1> QED
  BY <1>1, <1>2, <1>3, PTL DEF Spec, SeededSpec
-----------------------------------------------------------------------------
(* The pipeline implements the abstract catalog *)

Parent == [v \in Version |-> IF v \in Made THEN BaseOf(v) ELSE NoVersion]
PartsMade == [v \in Version |-> IF v \in Made THEN candidate[v].parts ELSE Empty]

\* What has been the root was staged, and is never staged again.
LEMMA MadeWereStaged ==
    ASSUME TypeOK, DataInv, CatalogInv, NEW v \in Made
    PROVE  /\ v \in Version /\ candidate[v] # NoDoc
           /\ v \in Gen => Past(v)
<1>1. v \in Version
  BY DEF Made
<1>2. CASE root.version = v
  BY <1>1, <1>2, RootHasItsParts, NoVersionIsNone DEF CatalogInv, StagedArePast
<1>3. CASE archive[v] # NoDoc
  <2>1. archive[v].version = v
    BY <1>1, <1>3 DEF CatalogInv, ArchivesAreNamed
  <2>2. Genuine(archive[v])
    BY <1>1 DEF DataInv, RootsWereStaged
  <2> QED
    BY <1>1, <1>3, <2>1, <2>2 DEF Genuine, CatalogInv, StagedArePast
<1> QED
  BY <1>1, <1>2, <1>3 DEF Made

LEMMA MadeStay ==
    ASSUME TypeOK, MapPhaseInv, DataInv, CatalogInv, [Next]_vars, NEW v \in Made
    PROVE  BaseOf(v)' = BaseOf(v) /\ candidate'[v] = candidate[v]
<1>1. v \in Version /\ candidate[v] # NoDoc /\ (v \in Gen => Past(v))
  BY MadeWereStaged
<1>2. candidate'[v] = candidate[v]
  BY <1>1, GensMove DEF CandidateMoves
<1>3. v \in Gen => gens'[v].base = gens[v].base
  BY <1>1, GensMove DEF GenMoves, Past
<1> QED
  BY <1>1, <1>2, <1>3 DEF BaseOf, Version

\* Archiving the root makes no new version.
LEMMA CatalogIdles ==
    ASSUME TypeOK, MapPhaseInv, DataInv, CatalogInv, [Next]_vars, root' = root
    PROVE  UNCHANGED AbstractCatalog!vars
<1>1. Made' = Made
  <2>1. ASSUME NEW v \in Version
        PROVE  (root'.version = v \/ archive'[v] # NoDoc)
               <=> (root.version = v \/ archive[v] # NoDoc)
    <3>1. CASE archive' = archive
      BY <3>1
    <3>2. CASE archive' = Archived
      BY <3>2 DEF Archived
    <3> QED
      BY <3>1, <3>2, ArchiveMoves
  <2> QED
    BY <2>1 DEF Made
<1>2. \A v \in Made : BaseOf(v)' = BaseOf(v) /\ candidate'[v] = candidate[v]
  BY MadeStay
<1>3. Parent' = Parent
  BY <1>1, <1>2 DEF Parent, BaseOf
<1>4. PartsMade' = PartsMade
  BY <1>1, <1>2 DEF PartsMade
<1> QED
  BY <1>1, <1>3, <1>4 DEF AbstractCatalog!vars, Parent, PartsMade

LEMMA VisibleIsRoot ==
    ASSUME TypeOK, DataInv
    PROVE  AbstractCatalog!Visible = root.parts
<1>1. CASE root.version = NoVersion
  BY <1>1, RootHasItsParts, NoDocIsEmpty
     DEF AbstractCatalog!Visible, AbstractCatalog!Empty, Empty
<1>2. CASE root.version # NoVersion
  <2>1. root.version \in Version /\ root = candidate[root.version]
    BY <1>2, RootHasItsParts DEF TypeOK, Doc
  <2>2. root.version \in Made
    BY <2>1 DEF Made
  <2> QED
    BY <1>2, <2>1, <2>2 DEF AbstractCatalog!Visible
<1> QED
  BY <1>1, <1>2

\* Writing the root in an activation publishes a version the first time, and
\* restores it when it was withdrawn since.
LEMMA ActivateRefines ==
    ASSUME TypeOK, MapPhaseInv, DataInv, CatalogInv, [Next]_vars, root' # root,
           NEW a \in Admin, ActivateSwaps(a)
    PROVE  AbstractCatalog!Next
<1>1. PICK v \in Version : /\ Kept(v) /\ root.version = BaseOf(v)
                           /\ root.version \in Version => archive[root.version] # NoDoc
                           /\ root' = candidate[v]
                           /\ UNCHANGED <<ledger, candidate, archive>>
  BY ActivateWrites
<1>2. candidate[v].version = v
  BY <1>1, KeptCandidate
<1>3. Made' = Made \cup {v}
  BY <1>1, <1>2 DEF Made
<1>4. \A u \in Version : BaseOf(u)' = BaseOf(u)
  BY <1>1 DEF ledger, BaseOf
<1>5. CASE v \in Made
  <2>1. Made' = Made
    BY <1>3, <1>5
  <2>2. Parent' = Parent
    BY <1>4, <2>1 DEF Parent
  <2>3. PartsMade' = PartsMade
    BY <1>1, <2>1 DEF PartsMade
  <2>4. Parent[v] = root.version
    BY <1>1, <1>5 DEF Parent
  <2>5. AbstractCatalog!Restore(v)
    BY <1>1, <1>2, <1>5, <2>1, <2>2, <2>3, <2>4
       DEF AbstractCatalog!Restore, Parent, PartsMade
  <2> QED
    BY <2>5 DEF AbstractCatalog!Next
<1>6. CASE v \notin Made
  <2>1. (IF v = Seed THEN {} ELSE DeltasOf(v)) \in SUBSET Delta
    BY DEF DeltasOf
  <2> PICK S \in SUBSET Delta : S = IF v = Seed THEN {} ELSE DeltasOf(v)
    BY <2>1
  <2>2. /\ \A p \in Prefix : root.parts[p] \cap S = {}
        /\ \A p \in Prefix :
             candidate[v].parts[p] = root.parts[p] \cup {d \in S : p \in PrefixesOf[d]}
        /\ candidate[v].parts = [p \in Prefix |-> candidate[v].parts[p]]
    <3>1. CASE v = Seed
      <4>1. candidate[v].parts = Empty
        BY <1>1, <3>1, KeptCandidate
      <4>2. root.parts = Empty
        BY <1>1, <3>1, RootHasItsParts, NoDocIsEmpty DEF BaseOf
      <4> QED
        BY <3>1, <4>1, <4>2 DEF Empty
    <3>2. CASE v # Seed
      <4>1. v \in Gen
        BY <3>2 DEF Version
      <4>2. candidate[v] = Expected(v) /\ gens[v].state # "absent"
        BY <1>1, <4>1, KeptCandidate DEF Past
      <4>3. root.parts = BaseParts(v)
        BY <1>1, <3>2, <4>1, RootIsBase DEF BaseOf
      <4>4. \A p \in Prefix : BaseParts(v)[p] \cap DeltasOf(v) = {}
        BY <4>1, <4>2 DEF CatalogInv, OwnDeltasAreNew
      <4> QED
        BY <3>2, <4>2, <4>3, <4>4 DEF Expected
    <3> QED
      BY <3>1, <3>2
  <2>3. S \cap AbstractCatalog!Held(AbstractCatalog!Visible) = {}
    BY <2>2, VisibleIsRoot DEF AbstractCatalog!Held
  <2>4. Parent' = [Parent EXCEPT ![v] = root.version]
    BY <1>1, <1>3, <1>4 DEF Parent
  <2>5. PartsMade' = [PartsMade EXCEPT ![v] = candidate[v].parts]
    BY <1>1, <1>3 DEF PartsMade
  <2>6. candidate[v].parts = [p \in Prefix |-> AbstractCatalog!Visible[p]
                                                \cup AbstractCatalog!Slice(S, p)]
    BY <2>2, VisibleIsRoot DEF AbstractCatalog!Slice
  <2>7. AbstractCatalog!Publish(v, S)
    BY <1>1, <1>2, <1>3, <1>6, <2>3, <2>4, <2>5, <2>6
       DEF AbstractCatalog!Publish, Parent, PartsMade
  <2> QED
    BY <2>7 DEF AbstractCatalog!Next
<1> QED
  BY <1>5, <1>6

LEMMA RollbackRefines ==
    ASSUME TypeOK, MapPhaseInv, DataInv, CatalogInv, [Next]_vars, root' # root,
           NEW a \in Admin, RollbackSwaps(a)
    PROVE  AbstractCatalog!Next
<1>1. PICK g \in Gen : /\ g = root.version
                       /\ archive[g] # NoDoc
                       /\ gens[g].base \in Version
                       /\ archive[gens[g].base] # NoDoc
                       /\ root'.version = gens[g].base
                       /\ UNCHANGED <<ledger, candidate, archive>>
  BY RollbackWrites
<1>2. g \in Version /\ g # NoVersion /\ g # Seed
  BY NoVersionIsNone, CompactionAssumption DEF Version, Seed, Gen
<1>3. Made' = Made
  BY <1>1, <1>2 DEF Made
<1>4. \A u \in Version : BaseOf(u)' = BaseOf(u)
  BY <1>1 DEF ledger, BaseOf
<1>5. Parent' = Parent
  BY <1>3, <1>4 DEF Parent
<1>6. PartsMade' = PartsMade
  BY <1>1, <1>3 DEF PartsMade
<1>7. Parent[g] = gens[g].base /\ gens[g].base # NoVersion
  BY <1>1, <1>2, NoVersionIsNone DEF Parent, Made, BaseOf
<1>8. AbstractCatalog!Withdraw
  BY <1>1, <1>2, <1>3, <1>5, <1>6, <1>7
     DEF AbstractCatalog!Withdraw, Parent, PartsMade
<1> QED
  BY <1>8 DEF AbstractCatalog!Next

LEMMA CatalogStep ==
    ASSUME Inv, CatalogInv, [Next]_vars
    PROVE  [AbstractCatalog!Next]_AbstractCatalog!vars
<1>1. CASE root' = root
  BY <1>1, CatalogIdles DEF Inv
<1>2. CASE root' # root
  BY <1>2, ActivateRefines, RollbackRefines, EveryStepWrites DEF Inv, Writers
<1> QED
  BY <1>1, <1>2

LEMMA CatalogStarts ==
    ASSUME Init \/ InitSeeded
    PROVE  AbstractCatalog!Init
<1>1. Seed \in Version /\ Seed \notin Gen
  BY CompactionAssumption DEF Seed, Version, Gen
<1>2. \A v \in Version : archive[v] = NoDoc
  BY DEF Init, InitSeeded, StartsWith
<1>3. root = NoDoc \/ root = SeedDoc
  BY DEF Init, InitSeeded, StartsWith
<1>4. root.version = NoVersion \/ root.version = Seed
  BY <1>3, NoDocIsEmpty DEF SeedDoc
<1>5. Made = {root.version} \ {NoVersion}
  BY <1>1, <1>2, <1>4, NoVersionIsNone DEF Made
<1>6. Parent = [v \in Version |-> NoVersion]
  BY <1>4, <1>5 DEF Parent, BaseOf
<1>7. candidate[Seed].parts = Empty
  BY <1>1 DEF Init, InitSeeded, StartsWith, SeedDoc
<1>8. PartsMade = [v \in Version |-> Empty]
  BY <1>4, <1>5, <1>7 DEF PartsMade
<1> QED
  BY <1>1, <1>4, <1>5, <1>6, <1>8
     DEF AbstractCatalog!Init, AbstractCatalog!Empty, Empty, Parent, PartsMade

\* Every change of catalog/root.json publishes whole deltas over the current
\* version, withdraws it for its parent, or restores a version over its parent;
\* everything else the pipeline does, and every failure, changes nothing that a
\* search can see (publication.js, reducer.js stageCandidateRoot).
THEOREM PipelineImplementsCatalog ==
    ASSUME ConsumersDrain, OneOperator
    PROVE  Spec \/ SeededSpec => ImplementsCatalog
<1>1. Init \/ InitSeeded => Inv /\ CatalogInv /\ AbstractCatalog!Init
  BY InitInv, CatalogInit, CatalogStarts
<1>2. Inv /\ CatalogInv /\ [Next]_vars => (Inv /\ CatalogInv)'
  BY CatalogNext
<1>3. Inv /\ CatalogInv /\ [Next]_vars => [AbstractCatalog!Next]_AbstractCatalog!vars
  BY CatalogStep
<1> QED
  BY <1>1, <1>2, <1>3, PTL
     DEF Spec, SeededSpec, ImplementsCatalog, AbstractCatalog!Spec
=============================================================================
