----------------------------- MODULE Compaction -----------------------------
(***************************************************************************)
(* The generation pipeline of the Cloudflare deployment                    *)
(* (cloudflare/compaction-worker): ingested deltas are grouped into a      *)
(* generation, mapped to fragments, reduced per partition over the active  *)
(* catalog root, staged as a candidate root, and activated or rolled back  *)
(* by an operator.                                                         *)
(*                                                                         *)
(* Three kinds of invocation run concurrently, each a sequence of steps    *)
(* separated by an await: scheduled ones (Cron), queue deliveries          *)
(* (Worker) and calls of the admin routes (Admin).  They share a ledger    *)
(* (D1; a batch of statements is atomic), an object store (R2; a           *)
(* conditional put is atomic) and an at-least-once queue.                  *)
(*                                                                         *)
(* The data of a catalog is abstracted to the deltas it was merged from:   *)
(* the content of a partition is the set of the deltas whose records it    *)
(* holds, and merging is union.                                            *)
(***************************************************************************)
EXTENDS Integers, FiniteSets

CONSTANTS
    Delta,            \* delta_id of every delta ingestion may announce
    Prefix,           \* partition prefixes
    PrefixesOf,       \* [Delta -> SUBSET Prefix]: where the delta has records
    MaxGenerations,   \* bound on the generations ever started
    DeltaLimit,       \* env.GENERATION_DELTA_LIMIT
    MaxReduceDeltas,  \* env.MAX_REDUCE_RECORDS, in deltas
    Cron, Worker, Admin,
    NoWorker,         \* a lease_token that is NULL
    RollbackAllowed,  \* whether operators ever call /admin/rollback
    ConsumersDrain    \* whether a map delivery always ends before the
                      \* generation it works for is rolled back

ASSUME CompactionAssumption ==
    /\ IsFiniteSet(Prefix)
    /\ PrefixesOf \in [Delta -> SUBSET Prefix]
    /\ MaxGenerations \in Nat
    /\ DeltaLimit \in Nat \ {0}
    /\ MaxReduceDeltas \in Nat \ {0}
    /\ NoWorker \notin Worker
    /\ RollbackAllowed \in BOOLEAN
    /\ ConsumersDrain \in BOOLEAN

\* Generations are numbered in the order of their created_at.  Version 0 is the
\* exported seed; NoVersion is the null of an absent root.
Gen == 1..MaxGenerations
Seed == 0
Version == {Seed} \cup Gen
NoVersion == -1

VARIABLES
    \* the ledger
    delta,       \* catalog_deltas
    gens,        \* catalog_generations
    seed,        \* the state column of catalog_seeds
    fragments,   \* generation_fragments, as (generation, delta, prefix)
    part,        \* generation_partitions
    \* the object store
    root,        \* catalog/root.json
    candidate,   \* catalog/candidates/<version>.json
    archive,     \* catalog/roots/<version>.json
    objects,     \* generations/<generation>/partitions/<prefix>.*; {} if absent
    \* the queue
    mapJobs, reduceJobs,
    \* the invocations
    cron, worker, admin

ledger == <<delta, gens, seed, fragments, part>>
store == <<root, candidate, archive, objects>>
queue == <<mapJobs, reduceJobs>>
vars == <<ledger, store, queue, cron, worker, admin>>
-----------------------------------------------------------------------------
(* Types *)

Content == [Prefix -> SUBSET Delta]
Empty == [p \in Prefix |-> {}]

\* A root document: its generation and what its partitions hold.
Doc == [version: Version \cup {NoVersion}, parts: Content]
NoDoc == [version |-> NoVersion, parts |-> Empty]

\* The seed is exported before any delta exists.
SeedDoc == [version |-> Seed, parts |-> Empty]

DeltaRow == [state: {"absent", "registered", "assigned", "mapped"},
             gen: Gen \cup {NoVersion}]

GenState == {"absent", "mapping", "mapped", "reducing", "published", "active",
             "rolled_back"}

GenRow == [state: GenState, base: Version \cup {NoVersion}, partitions: Nat]

\* live is FALSE once lease_until has passed; output is output_json.
PartRow == [state: {"absent", "mapped", "reducing", "reduced"},
            holder: Worker \cup {NoWorker}, live: BOOLEAN, output: SUBSET Delta]

Idle == [pc |-> "idle"]

CronJob == {Idle}
    \cup [pc: {"pending", "reduce"}]
    \cup [pc: {"commit"}, deltas: SUBSET Delta, base: Version \cup {NoVersion}]
    \cup [pc: {"send", "stage"}, gen: Gen]

WorkerJob == {Idle}
    \cup [pc: {"mapCommit", "mapFinish"}, gen: Gen, delta: Delta]
    \cup [pc: {"read", "stage"}, gen: Gen, prefix: Prefix]
    \cup [pc: {"put", "check", "commit"}, gen: Gen, prefix: Prefix,
          content: SUBSET Delta, found: BOOLEAN]

AdminJob == {Idle}
    \cup [pc: {"actSwap"}, version: Version, seen: Doc]
    \cup [pc: {"actSettle"}, version: Version]
    \cup [pc: {"rbSwap"}, version: Gen, seen: Doc, prior: Doc]
    \cup [pc: {"rbSettle"}, version: Gen]

TypeOK ==
    /\ delta \in [Delta -> DeltaRow]
    /\ gens \in [Gen -> GenRow]
    /\ seed \in {"absent", "published", "active"}
    /\ fragments \subseteq Gen \X Delta \X Prefix
    /\ part \in [Gen -> [Prefix -> PartRow]]
    /\ root \in Doc
    /\ candidate \in [Version -> Doc]
    /\ archive \in [Version -> Doc]
    /\ objects \in [Gen -> Content]
    /\ mapJobs \subseteq Gen \X Delta
    /\ reduceJobs \subseteq Gen \X Prefix
    /\ cron \in [Cron -> CronJob]
    /\ worker \in [Worker -> WorkerJob]
    /\ admin \in [Admin -> AdminJob]
-----------------------------------------------------------------------------
\* The ledger and the queue are empty; the root is the one given.
StartsWith(seedState, doc) ==
    /\ delta = [d \in Delta |-> [state |-> "absent", gen |-> NoVersion]]
    /\ gens = [g \in Gen |-> [state |-> "absent", base |-> NoVersion,
                              partitions |-> 0]]
    /\ seed = seedState
    /\ fragments = {}
    /\ part = [g \in Gen |-> [p \in Prefix |->
                 [state |-> "absent", holder |-> NoWorker, live |-> FALSE,
                  output |-> {}]]]
    /\ root = doc
    /\ candidate = [v \in Version |-> IF v = Seed THEN SeedDoc ELSE NoDoc]
    /\ archive = [v \in Version |-> NoDoc]
    /\ objects = [g \in Gen |-> Empty]
    /\ mapJobs = {} /\ reduceJobs = {}
    /\ cron = [c \in Cron |-> Idle]
    /\ worker = [w \in Worker |-> Idle]
    /\ admin = [a \in Admin |-> Idle]

\* An empty deployment, with an exported seed that is not registered yet.
Init == StartsWith("absent", NoDoc)

\* A deployment set up in the order docs/operations/cloudflare.md gives: the seed
\* is active before the schedules are enabled.
InitSeeded == StartsWith("active", SeedDoc)
-----------------------------------------------------------------------------
(* The ledger's queries *)

InState(S) == {g \in Gen : gens[g].state \in S}

\* The states startGeneration treats as a generation in progress.
LiveStates == {"mapping", "mapped", "reducing", "published"}

\* ORDER BY created_at LIMIT 1: the one oldest generation of S, if it has any.
Oldest(S) == {g \in S : \A h \in S : g <= h}

InDeltaState(s) == {d \in Delta : delta[d].state = s}

DeltasOf(g) == {d \in Delta : delta[d].gen = g}

\* The partition rows of g.
Rows(g) == {p \in Prefix : part[g][p].state # "absent"}

\* (Here and below, an operator whose comment begins with "Faulty" is no part of
\* the model.  It is a mistake the code could have made in the definition that
\* follows it, and a run has been seen to reject it; see README.md.)
\* Faulty: a partition whose reducer is at work is not outstanding.
UnreducedButRunning(g) == {p \in Rows(g) : part[g][p].state = "mapped"}

Unreduced(g) == {p \in Rows(g) : part[g][p].state # "reduced"}

\* Faulty: the lease of a reducer never runs out.
ClaimableIfMapped(g) == {p \in Rows(g) : part[g][p].state = "mapped"}

\* Partitions a reducer may claim: mapped, or leased to a reducer whose lease
\* has run out.
Claimable(g) ==
    {p \in Rows(g) :
        \/ part[g][p].state = "mapped"
        \/ part[g][p].state = "reducing" /\ ~part[g][p].live}

\* The fragments of g in partition p, as the deltas they come from.
Overlay(g, p) == {d \in Delta : <<g, d, p>> \in fragments}
-----------------------------------------------------------------------------
(* registerDelta: a delta-ready message.  A repeated one changes nothing. *)

Register(d) ==
    /\ delta[d].state = "absent"
    /\ delta' = [delta EXCEPT ![d].state = "registered"]
    /\ UNCHANGED <<gens, seed, fragments, part, store, queue, cron, worker, admin>>
-----------------------------------------------------------------------------
(* scheduled(): startGeneration, then startReduce *)

CronGoes(c, job) == cron' = [cron EXCEPT ![c] = job]

\* Faulty: a generation in its map phase is waited for but its jobs are not sent.
CronFindsLiveWithoutResuming(c) ==
    /\ cron[c].pc = "idle"
    /\ InState(LiveStates) # {}
    /\ CronGoes(c, [pc |-> "reduce"])
    /\ UNCHANGED <<ledger, store, queue, worker, admin>>

\* A generation is in progress: resume its map phase, or wait for its reduce.
CronFindsLive(c) ==
    /\ cron[c].pc = "idle"
    /\ \E g \in Oldest(InState(LiveStates)) :
         CronGoes(c, IF gens[g].state = "mapping"
                     THEN [pc |-> "send", gen |-> g] ELSE [pc |-> "reduce"])
    /\ UNCHANGED <<ledger, store, queue, worker, admin>>

CronFindsNone(c) ==
    /\ cron[c].pc = "idle"
    /\ InState(LiveStates) = {}
    /\ CronGoes(c, [pc |-> "pending"])
    /\ UNCHANGED <<ledger, store, queue, worker, admin>>

\* Up to DeltaLimit registered deltas and the base generation, both read before
\* the ledger is changed.
CronReadsPending(c) ==
    /\ cron[c].pc = "pending"
    /\ LET pending == InDeltaState("registered") IN
       \/ /\ pending = {}
          /\ CronGoes(c, [pc |-> "reduce"])
       \/ \E S \in SUBSET pending :
            /\ S # {}
            /\ IF Cardinality(pending) <= DeltaLimit
               THEN S = pending ELSE Cardinality(S) = DeltaLimit
            /\ CronGoes(c, [pc |-> "commit", deltas |-> S,
                            base |-> root.version])
    /\ UNCHANGED <<ledger, store, queue, worker, admin>>

\* The atomic batch.  Deltas another invocation has taken meanwhile stay with it.
CronCommits(c) ==
    /\ cron[c].pc = "commit"
    /\ InState({"mapping"}) = {}
    /\ \E g \in Oldest(InState({"absent"})) :
         /\ gens' = [gens EXCEPT ![g] = [state |-> "mapping", partitions |-> 0,
                                         base |-> cron[c].base]]
         /\ delta' = [d \in Delta |->
                        IF d \in cron[c].deltas /\ delta[d].state = "registered"
                        THEN [state |-> "assigned", gen |-> g] ELSE delta[d]]
         /\ CronGoes(c, [pc |-> "send", gen |-> g])
    /\ UNCHANGED <<seed, fragments, part, store, queue, worker, admin>>

\* The unique index catalog_one_mapping_generation refuses the batch.
CronCommitRefused(c) ==
    /\ cron[c].pc = "commit"
    /\ InState({"mapping"}) # {}
    /\ CronGoes(c, Idle)
    /\ UNCHANGED <<ledger, store, queue, worker, admin>>

CronSendsMapJobs(c) ==
    /\ cron[c].pc = "send"
    /\ LET g == cron[c].gen IN
       mapJobs' = mapJobs \cup
         {<<g, d>> : d \in DeltasOf(g) \cap InDeltaState("assigned")}
    /\ CronGoes(c, [pc |-> "reduce"])
    /\ UNCHANGED <<ledger, store, reduceJobs, worker, admin>>

CronStartsReduce(c) ==
    /\ cron[c].pc = "reduce"
    /\ LET ready == InState({"mapped", "reducing"}) IN
       \/ ready = {} /\ CronGoes(c, Idle) /\ UNCHANGED <<gens, reduceJobs>>
       \/ \E g \in Oldest(ready) :
            /\ gens' = [gens EXCEPT ![g].state = "reducing"]
            /\ reduceJobs' = reduceJobs \cup {<<g, p>> : p \in Claimable(g)}
            /\ CronGoes(c, IF Claimable(g) = {}
                           THEN [pc |-> "stage", gen |-> g] ELSE Idle)
    /\ UNCHANGED <<delta, seed, fragments, part, store, mapJobs, worker, admin>>
-----------------------------------------------------------------------------
(* finishCandidate and stageCandidateRoot, run by crons and by workers *)

StagedDoc(g) ==
    [version |-> g,
     parts |-> [p \in Prefix |-> IF p \in Rows(g) THEN part[g][p].output
                                 ELSE root.parts[p]]]

CanStage(g) ==
    /\ gens[g].state \in {"reducing", "published"}
    /\ Cardinality(Rows(g)) = gens[g].partitions
    /\ root.version = gens[g].base
    /\ candidate[g] \in {NoDoc, StagedDoc(g)}

\* stageCandidateRoot succeeds.
Stage(g) ==
    /\ Unreduced(g) = {}
    /\ CanStage(g)
    /\ candidate' = [candidate EXCEPT ![g] = StagedDoc(g)]
    /\ gens' = [gens EXCEPT ![g].state = "published"]

\* finishCandidate returns without staging, or stageCandidateRoot throws.
StageSkipped(g) == Unreduced(g) # {}
StageRefused(g) == Unreduced(g) = {} /\ ~CanStage(g)

CronStages(c) ==
    /\ cron[c].pc = "stage"
    /\ LET g == cron[c].gen IN
       \/ Stage(g)
       \/ (StageSkipped(g) \/ StageRefused(g)) /\ UNCHANGED <<candidate, gens>>
    /\ CronGoes(c, Idle)
    /\ UNCHANGED <<delta, seed, fragments, part, root, archive, objects, queue,
                   worker, admin>>
-----------------------------------------------------------------------------
(* queue(): a map job *)

WorkerGoes(w, job) == worker' = [worker EXCEPT ![w] = job]

\* An acknowledged message may still be delivered again, by the queue's
\* at-least-once delivery or because it had been sent twice.
Acknowledged(jobs, m) == {jobs, jobs \ {m}}

\* Faulty: any generation the delta is assigned to will do.
OwnsForAny(g, d) == delta[d].gen # NoVersion

\* The delta is assigned to the generation the message names.
Owns(g, d) == delta[d].gen = g

\* mapDelta reads the row of its delta.  A row of another generation makes it
\* throw, and the message is retried.
MapReads(w, g, d) ==
    /\ worker[w].pc = "idle"
    /\ <<g, d>> \in mapJobs
    /\ Owns(g, d)
    /\ \/ /\ delta[d].state = "mapped"
          /\ WorkerGoes(w, [pc |-> "mapFinish", gen |-> g, delta |-> d])
       \/ /\ delta[d].state = "assigned"
          /\ WorkerGoes(w, [pc |-> "mapCommit", gen |-> g, delta |-> d])
    /\ UNCHANGED <<ledger, store, queue, cron, admin>>

\* The fragments and the new state are one batch; the state changes only if the
\* delta is still assigned, whatever generation it is assigned to by now.
MapCommits(w) ==
    /\ worker[w].pc = "mapCommit"
    /\ LET g == worker[w].gen
           d == worker[w].delta
       IN /\ fragments' = fragments \cup ({g} \X {d} \X PrefixesOf[d])
          /\ delta' = [delta EXCEPT ![d].state =
                         IF @ = "assigned" THEN "mapped" ELSE @]
          /\ WorkerGoes(w, [pc |-> "mapFinish", gen |-> g, delta |-> d])
    /\ UNCHANGED <<gens, seed, part, store, queue, cron, admin>>

\* Faulty: one mapped delta is enough.
SomeMapped(g) == \E d \in DeltasOf(g) : delta[d].state = "mapped"

AllMapped(g) == \A d \in DeltasOf(g) : delta[d].state = "mapped"

\* finishMappedGeneration: when every delta of g is mapped, the partition rows
\* appear and the generation leaves its map phase.  (Nothing reads the new rows
\* before the state changes, and repeating the statements is harmless, so they
\* are one step.)
FinishMapped(g) ==
    IF AllMapped(g)
    THEN LET rows == {p \in Prefix : Overlay(g, p) # {}} \cup Rows(g) IN
         /\ part' = [part EXCEPT ![g] = [p \in Prefix |->
                       IF p \in rows \ Rows(g)
                       THEN [part[g][p] EXCEPT !.state = "mapped"]
                       ELSE part[g][p]]]
         /\ gens' = IF gens[g].state = "mapping"
                    THEN [gens EXCEPT ![g].state = "mapped",
                                      ![g].partitions = Cardinality(rows)]
                    ELSE gens
    ELSE UNCHANGED <<part, gens>>

MapFinishes(w) ==
    /\ worker[w].pc = "mapFinish"
    /\ FinishMapped(worker[w].gen)
    /\ mapJobs' \in Acknowledged(mapJobs, <<worker[w].gen, worker[w].delta>>)
    /\ WorkerGoes(w, Idle)
    /\ UNCHANGED <<delta, seed, fragments, store, reduceJobs, cron, admin>>
-----------------------------------------------------------------------------
(* queue(): a reduce job *)

\* The claim of runReduce: one conditional UPDATE.
ReduceClaims(w, g, p) ==
    /\ worker[w].pc = "idle"
    /\ <<g, p>> \in reduceJobs
    /\ p \in Claimable(g)
    /\ part' = [part EXCEPT ![g][p] =
                  [@ EXCEPT !.state = "reducing", !.holder = w, !.live = TRUE]]
    /\ WorkerGoes(w, [pc |-> "read", gen |-> g, prefix |-> p])
    /\ UNCHANGED <<delta, gens, seed, fragments, store, queue, cron, admin>>

\* A job for a reduced partition only tries to finish the candidate.
ReduceIsDuplicate(w, g, p) ==
    /\ worker[w].pc = "idle"
    /\ <<g, p>> \in reduceJobs
    /\ part[g][p].state = "reduced"
    /\ WorkerGoes(w, [pc |-> "stage", gen |-> g, prefix |-> p])
    /\ UNCHANGED <<ledger, store, queue, cron, admin>>

\* Faulty: the catch of runReduce does not look whose lease it is.
ReleaseAnyLease(w) ==
    /\ part' = [part EXCEPT ![worker[w].gen][worker[w].prefix] =
                  [@ EXCEPT !.state = "mapped", !.holder = NoWorker, !.live = FALSE]]
    /\ WorkerGoes(w, Idle)

\* The catch of runReduce gives the lease back if it is still this worker's;
\* the message stays and is retried.
Release(w) ==
    LET g == worker[w].gen
        p == worker[w].prefix
    IN /\ part' = IF part[g][p].holder = w
                  THEN [part EXCEPT ![g][p] =
                          [@ EXCEPT !.state = "mapped", !.holder = NoWorker,
                                    !.live = FALSE]]
                  ELSE part
       /\ WorkerGoes(w, Idle)

CanReduce(g, p) ==
    /\ gens[g].state \in {"mapped", "reducing", "published"}
    /\ \/ part[g][p].state = "reduced"
       \/ /\ root.version = gens[g].base
          /\ Overlay(g, p) # {}
          /\ Cardinality(Overlay(g, p)) <= MaxReduceDeltas

\* reducePartition reads the ledger, the active root, the fragments and the
\* base partition, and looks whether its object is there already.
ReduceReads(w) ==
    /\ worker[w].pc = "read"
    /\ LET g == worker[w].gen
           p == worker[w].prefix
       IN /\ CanReduce(g, p)
          /\ WorkerGoes(w,
               IF part[g][p].state = "reduced"
               THEN [pc |-> "stage", gen |-> g, prefix |-> p]
               ELSE [pc |-> "put", gen |-> g, prefix |-> p,
                     content |-> root.parts[p] \cup Overlay(g, p),
                     found |-> objects[g][p] # {}])
    /\ UNCHANGED <<ledger, store, queue, cron, admin>>

\* The put is not conditional: a reducer that saw no object writes over what
\* another one stored since it looked.
ReducePuts(w) ==
    /\ worker[w].pc = "put"
    /\ objects' = IF worker[w].found THEN objects
                  ELSE [objects EXCEPT ![worker[w].gen][worker[w].prefix] =
                          worker[w].content]
    /\ WorkerGoes(w, [worker[w] EXCEPT !.pc = "check"])
    /\ UNCHANGED <<ledger, root, candidate, archive, queue, cron, admin>>

\* What is stored, by this reducer or by another, has the bytes it computed.
ReadsBack(w) == objects[worker[w].gen][worker[w].prefix] = worker[w].content

ReduceChecks(w) ==
    /\ worker[w].pc = "check"
    /\ ReadsBack(w)
    /\ WorkerGoes(w, [worker[w] EXCEPT !.pc = "commit"])
    /\ UNCHANGED <<ledger, store, queue, cron, admin>>

\* reducePartition throws.
Refused(w) ==
    \/ worker[w].pc = "read" /\ ~CanReduce(worker[w].gen, worker[w].prefix)
    \/ worker[w].pc = "check" /\ ~ReadsBack(w)

ReduceRefused(w) ==
    /\ Refused(w)
    /\ Release(w)
    /\ UNCHANGED <<delta, gens, seed, fragments, store, queue, cron, admin>>

\* The row becomes reduced whoever holds its lease.
ReduceCommits(w) ==
    /\ worker[w].pc = "commit"
    /\ LET g == worker[w].gen
           p == worker[w].prefix
       IN /\ part' = IF part[g][p].state = "reducing"
                     THEN [part EXCEPT ![g][p] =
                             [state |-> "reduced", holder |-> NoWorker,
                              live |-> FALSE, output |-> worker[w].content]]
                     ELSE part
          /\ WorkerGoes(w, [pc |-> "stage", gen |-> g, prefix |-> p])
    /\ UNCHANGED <<delta, gens, seed, fragments, store, queue, cron, admin>>

WorkerStages(w) ==
    /\ worker[w].pc = "stage"
    /\ LET g == worker[w].gen
           m == <<g, worker[w].prefix>>
       IN \/ Stage(g) /\ reduceJobs' \in Acknowledged(reduceJobs, m)
          \/ /\ StageSkipped(g)
             /\ reduceJobs' \in Acknowledged(reduceJobs, m)
             /\ UNCHANGED <<candidate, gens>>
          \/ StageRefused(g) /\ UNCHANGED <<candidate, gens, reduceJobs>>
    /\ WorkerGoes(w, Idle)
    /\ UNCHANGED <<delta, seed, fragments, part, root, archive, objects, mapJobs,
                   cron, admin>>
-----------------------------------------------------------------------------
(* The admin routes *)

AdminGoes(a, job) == admin' = [admin EXCEPT ![a] = job]

\* verifyRootObjects, for the partitions the version itself wrote.
Intact(v) ==
    v \in Gen => \A p \in Rows(v) : objects[v][p] = candidate[v].parts[p]

\* registerSeed: the exported candidate becomes known to the ledger.
RegistersSeed(a) ==
    /\ admin[a].pc = "idle"
    /\ seed = "absent"
    /\ root \in {NoDoc, candidate[Seed]}
    /\ seed' = IF root = NoDoc THEN "published" ELSE "active"
    /\ UNCHANGED <<delta, gens, fragments, part, store, queue, cron, worker, admin>>

StateOf(v) == IF v = Seed THEN seed ELSE gens[v].state
BaseOf(v) == IF v = Seed THEN NoVersion ELSE gens[v].base

\* immutableRoot: the current root is archived before it is replaced.
Archived == [v \in Version |-> IF v = root.version THEN root ELSE archive[v]]

\* An archive of the version, if there is one, has the bytes of the root.
CanArchive == root # NoDoc => archive[root.version] \in {NoDoc, root}

\* Faulty: the candidate need not be built on the root it replaces.
SwappableForAnyRoot(v) == root.version # v /\ CanArchive

Swappable(v) == root.version # v /\ root.version = BaseOf(v) /\ CanArchive

\* activateGeneration up to the write: the version is published, and the root
\* is either its base or the version already.
ActivateBegins(a, v) ==
    /\ admin[a].pc = "idle"
    /\ StateOf(v) \in {"published", "active"}
    /\ Intact(v)
    /\ \/ /\ root = candidate[v]
          /\ AdminGoes(a, [pc |-> "actSettle", version |-> v])
          /\ UNCHANGED archive
       \/ /\ Swappable(v)
          /\ archive' = Archived
          /\ AdminGoes(a, [pc |-> "actSwap", version |-> v, seen |-> root])
    /\ UNCHANGED <<ledger, root, candidate, objects, queue, cron, worker>>

\* The conditional put of catalog/root.json, on the ETag of the root read.
ActivateSwaps(a) ==
    /\ admin[a].pc = "actSwap"
    /\ IF root = admin[a].seen
       THEN /\ root' = candidate[admin[a].version]
            /\ AdminGoes(a, [pc |-> "actSettle", version |-> admin[a].version])
       ELSE AdminGoes(a, Idle) /\ UNCHANGED root
    /\ UNCHANGED <<ledger, candidate, archive, objects, queue, cron, worker>>

ActivateSettles(a) ==
    /\ admin[a].pc = "actSettle"
    /\ LET v == admin[a].version IN
       /\ seed' = IF v = Seed /\ seed = "published" THEN "active" ELSE seed
       /\ gens' = IF v # Seed /\ StateOf(v) = "published"
                  THEN [gens EXCEPT ![v].state = "active"] ELSE gens
    /\ AdminGoes(a, Idle)
    /\ UNCHANGED <<delta, fragments, part, store, queue, cron, worker>>

\* No delivery still holds a delta row it read while g was being mapped.
Drained(g) ==
    \A w \in Worker : ~(worker[w].pc = "mapCommit" /\ worker[w].gen = g)

Withdrawable(g) == root.version = g /\ CanArchive

\* Faulty: an archive of the generation is taken as the sign that the root has
\* been put back.
ResumableWhenArchived(g) == archive[g] # NoDoc

Resumable(g) == root = archive[gens[g].base] /\ archive[g] # NoDoc

\* rollbackGeneration up to the write.  It resumes an interrupted rollback when
\* the root already is the base and the withdrawn root has been archived.
RollbackBegins(a, g) ==
    /\ RollbackAllowed
    /\ ConsumersDrain => Drained(g)
    /\ admin[a].pc = "idle"
    /\ gens[g].state = "active"
    /\ gens[g].base # NoVersion
    /\ archive[gens[g].base] # NoDoc
    /\ Intact(gens[g].base)
    /\ \/ /\ Withdrawable(g)
          /\ archive' = Archived
          /\ AdminGoes(a, [pc |-> "rbSwap", version |-> g, seen |-> root,
                           prior |-> archive[gens[g].base]])
       \/ /\ Resumable(g)
          /\ AdminGoes(a, [pc |-> "rbSettle", version |-> g])
          /\ UNCHANGED archive
    /\ UNCHANGED <<ledger, root, candidate, objects, queue, cron, worker>>

RollbackSwaps(a) ==
    /\ admin[a].pc = "rbSwap"
    /\ IF root = admin[a].seen
       THEN /\ root' = admin[a].prior
            /\ AdminGoes(a, [pc |-> "rbSettle", version |-> admin[a].version])
       ELSE AdminGoes(a, Idle) /\ UNCHANGED root
    /\ UNCHANGED <<ledger, candidate, archive, objects, queue, cron, worker>>

\* Faulty: the mapped deltas of every generation are given back.
GivenBackByAll(g) ==
    [d \in Delta |-> IF delta[d].state = "mapped"
                     THEN [state |-> "registered", gen |-> NoVersion]
                     ELSE delta[d]]

GivenBack(g) ==
    [d \in Delta |-> IF delta[d] = [state |-> "mapped", gen |-> g]
                     THEN [state |-> "registered", gen |-> NoVersion]
                     ELSE delta[d]]

\* The batch: the generation is rolled back and its deltas may be used again.
RollbackSettles(a) ==
    /\ admin[a].pc = "rbSettle"
    /\ LET g == admin[a].version IN
       /\ gens' = [gens EXCEPT ![g].state =
                     IF @ = "active" THEN "rolled_back" ELSE @]
       /\ delta' = GivenBack(g)
    /\ AdminGoes(a, Idle)
    /\ UNCHANGED <<seed, fragments, part, store, queue, cron, worker>>
-----------------------------------------------------------------------------
(* Failures *)

LeaseExpires(g, p) ==
    /\ part[g][p].live
    /\ part' = [part EXCEPT ![g][p].live = FALSE]
    /\ UNCHANGED <<delta, gens, seed, fragments, store, queue, cron, worker, admin>>

\* An invocation dies at an await.  A queue message it had is delivered again.
CronDies(c) ==
    /\ cron[c] # Idle
    /\ CronGoes(c, Idle)
    /\ UNCHANGED <<ledger, store, queue, worker, admin>>

WorkerDies(w) ==
    /\ worker[w] # Idle
    /\ WorkerGoes(w, Idle)
    /\ UNCHANGED <<ledger, store, queue, cron, admin>>

AdminDies(a) ==
    /\ admin[a] # Idle
    /\ AdminGoes(a, Idle)
    /\ UNCHANGED <<ledger, store, queue, cron, worker>>

\* A read or write of a claimed reduce job fails, and the catch still runs.
ReduceFails(w) ==
    /\ worker[w].pc \in {"read", "put", "check", "commit"}
    /\ Release(w)
    /\ UNCHANGED <<delta, gens, seed, fragments, store, queue, cron, admin>>
-----------------------------------------------------------------------------
CronStep(c) ==
    \/ CronFindsLive(c) \/ CronFindsNone(c) \/ CronReadsPending(c)
    \/ CronCommits(c) \/ CronCommitRefused(c) \/ CronSendsMapJobs(c)
    \/ CronStartsReduce(c) \/ CronStages(c)

\* The queue hands a message to a worker.
TakesMapJob(w) == \E g \in Gen, d \in Delta : MapReads(w, g, d)

TakesReduceJob(w) ==
    \E g \in Gen, p \in Prefix : ReduceClaims(w, g, p) \/ ReduceIsDuplicate(w, g, p)

\* A worker goes on with the message it has.
WorkerGoesOn(w) ==
    \/ MapCommits(w) \/ MapFinishes(w)
    \/ ReduceReads(w) \/ ReducePuts(w) \/ ReduceChecks(w) \/ ReduceRefused(w)
    \/ ReduceCommits(w) \/ WorkerStages(w)

WorkerStep(w) == TakesMapJob(w) \/ TakesReduceJob(w) \/ WorkerGoesOn(w)

AdminGoesOn(a) ==
    \/ ActivateSwaps(a) \/ ActivateSettles(a)
    \/ RollbackSwaps(a) \/ RollbackSettles(a)

AdminStep(a) ==
    \/ RegistersSeed(a)
    \/ \E v \in Version : ActivateBegins(a, v)
    \/ \E g \in Gen : RollbackBegins(a, g)
    \/ AdminGoesOn(a)

TimePasses == \E g \in Gen, p \in Prefix : LeaseExpires(g, p)

Failure ==
    \/ \E c \in Cron : CronDies(c)
    \/ \E w \in Worker : WorkerDies(w) \/ ReduceFails(w)
    \/ \E a \in Admin : AdminDies(a)

Progress ==
    \/ \E d \in Delta : Register(d)
    \/ \E c \in Cron : CronStep(c)
    \/ \E w \in Worker : WorkerStep(w)
    \/ \E a \in Admin : AdminStep(a)
    \/ TimePasses

Next == Progress \/ Failure

Spec == Init /\ [][Next]_vars

SeededSpec == InitSeeded /\ [][Next]_vars
-----------------------------------------------------------------------------
(* Safety *)

\* A delta the ledger calls mapped has its records in the fragments of the
\* generation it is mapped for, one for each of its partitions; that is what
\* the reduce phase will read (index.js mapDelta, finishMappedGeneration).
MappedDeltasHaveFragments ==
    \A d \in Delta :
        delta[d].state = "mapped" =>
            {delta[d].gen} \X {d} \X PrefixesOf[d] \subseteq fragments

\* The argument behind MappedDeltasHaveFragments, as an inductive invariant: what
\* the two asynchronous readers of the map phase may rely on.  A delivery that is
\* about to store fragments still owns its delta; a generation that has left its
\* map phase has only mapped deltas; and a rollback that is under way finds no
\* delivery that could bring a delta of its generation back (index.js mapDelta,
\* finishMappedGeneration, publication.js rollbackGeneration).
AssignedDeltasHaveAGeneration ==
    \A d \in Delta : delta[d].state \in {"assigned", "mapped"} <=> delta[d].gen \in Gen

DeliveriesOwnTheirDelta ==
    \A w \in Worker :
        worker[w].pc = "mapCommit" => delta[worker[w].delta].gen = worker[w].gen

PastMapPhaseAllMapped ==
    \A d \in Delta :
        delta[d].gen \in Gen =>
            /\ gens[delta[d].gen].state # "absent"
            /\ gens[delta[d].gen].state # "mapping" => delta[d].state = "mapped"

RollbacksAreDrained ==
    \A a \in Admin :
        admin[a].pc \in {"rbSwap", "rbSettle"} =>
            /\ gens[admin[a].version].state \notin {"absent", "mapping"}
            /\ Drained(admin[a].version)

MapPhaseInv ==
    /\ AssignedDeltasHaveAGeneration
    /\ DeliveriesOwnTheirDelta
    /\ PastMapPhaseAllMapped
    /\ RollbacksAreDrained
    /\ MappedDeltasHaveFragments

\* A staged candidate holds the content of its base and, in every partition,
\* exactly the records of the deltas the ledger says it is made of: however its
\* partitions were leased, retried and rebuilt, nothing is lost and nothing of
\* another generation slips in (reducer.js reducePartition, stageCandidateRoot).
CandidatesAreBasePlusDeltas ==
    \A g \in InState({"published", "active"}) :
        LET base == IF gens[g].base = NoVersion THEN NoDoc
                    ELSE candidate[gens[g].base]
        IN candidate[g] =
             [version |-> g,
              parts |-> [p \in Prefix |->
                base.parts[p] \cup {d \in DeltasOf(g) : p \in PrefixesOf[d]}]]

\* What a search can see comes from deltas that are mapped for a generation that
\* was verified and activated: a delta that is registered, assigned, or in a
\* generation that was withdrawn is not searchable (publication.js).
OnlyActivatedIsVisible ==
    \A d \in Delta, p \in Prefix :
        d \in root.parts[p] =>
            /\ delta[d].state = "mapped"
            /\ StateOf(delta[d].gen) \in {"published", "active"}

\* The root is never a version the ledger has withdrawn, so the operator can
\* always roll it back (publication.js rollbackGeneration).
RootIsNotWithdrawn ==
    root # NoDoc => StateOf(root.version) \in {"published", "active"}

\* Once the ledger calls a partition reduced its objects are immutable, although
\* the put itself is unconditional and any number of reducers that lost their
\* lease may still be writing (reducer.js reducePartition).
ReducedObjectsAreImmutable ==
    [][\A g \in Gen, p \in Prefix :
         part[g][p].state = "reduced" => objects'[g][p] = objects[g][p]]_vars

\* A partition is reduced for good: no late failure of an earlier claim of its
\* lease takes it back (index.js runReduce).
ReducedIsFinal ==
    [][\A g \in Gen, p \in Prefix :
         part[g][p].state = "reduced" => part'[g][p].state = "reduced"]_vars
-----------------------------------------------------------------------------
(* The pipeline implements the abstract catalog *)

\* A version has been current if it is the root or has been archived.
Made == {v \in Version : root.version = v \/ archive[v] # NoDoc}

AbstractCatalog == INSTANCE Catalog WITH
    current <- root.version,
    made <- Made,
    parent <- [v \in Version |-> IF v \in Made THEN BaseOf(v) ELSE NoVersion],
    content <- [v \in Version |-> IF v \in Made THEN candidate[v].parts ELSE Empty]

ImplementsCatalog == AbstractCatalog!Spec
=============================================================================
