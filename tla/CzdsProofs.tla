----------------------------- MODULE CzdsProofs -----------------------------
(***************************************************************************)
(* What is proved about the staging and the announcement of zone files,    *)
(* for any zones, length of a file, attempts, stagers, schedules and       *)
(* faults: a job that is staged or complete holds one file in full, chunks *)
(* are announced once all are there, and an announced object does not      *)
(* change.                                                                 *)
(***************************************************************************)
EXTENDS Czds, WellFoundedInduction, TLAPS
-----------------------------------------------------------------------------
(* Data *)

StagerPc == {"begin", "mark", "append", "put", "row", "complete", "settle"}

StagerMode == {"held", "adrift", "call"}

\* A stager that is at work.
AtWork == [pc: StagerPc, job: Job, chunk: Chunk, i: 0..Length, mode: StagerMode]

LEMMA ConstantFacts ==
    /\ Length \in Nat \ {0} /\ Attempts \in Nat \ {0} /\ PageSize \in Nat \ {0}
    /\ MaxFaults \in Nat /\ MaxDay \in Nat /\ MaxVersion \in Nat
    /\ 0 \in Day /\ 0 \in Version /\ 0 \in Index /\ 0 \in 0..Length
    /\ Index \subseteq 0..Length /\ -1 \notin Index /\ -1 \notin Version
    /\ Day \subseteq Nat /\ Version \subseteq Nat /\ Index \subseteq Nat
BY CzdsAssumption DEF Day, Version, Index

\* The greatest of a set of chunks is one of them.
LEMMA MaxIsMember ==
    ASSUME NEW S \in SUBSET (Index \cup {-1}), S # {}
    PROVE  Max(S) \in S /\ \A i \in S : i <= Max(S)
<1> DEFINE R == {ss \in Nat \X Nat : ss[1] < ss[2]}
           T == {n \in Nat : Length - n \in S}
<1>1. IsWellFoundedOn(R, Nat)
  BY NatLessThanWellFounded, Zenon DEF OpToRel
<1>2. T \subseteq Nat /\ T # {}
  <2>1. PICK i \in S : TRUE
    OBVIOUS
  <2>2. Length - i \in Nat /\ Length - (Length - i) = i
    BY ConstantFacts DEF Index
  <2>3. Length - i \in T
    BY <2>2
  <2> QED
    BY <2>3
<1>3. PICK m \in T : \A n \in T : ~(<<n, m>> \in R)
  <2> HIDE DEF R, T
  <2> QED
    BY <1>1, <1>2, WFMin
<1>4. \A i \in S : i <= Length - m
  <2> SUFFICES ASSUME NEW i \in S
               PROVE  i <= Length - m
    OBVIOUS
  <2>1. m \in Nat /\ i \in Int /\ Length \in Nat /\ Length - i \in Nat
        /\ Length - (Length - i) = i
    BY ConstantFacts DEF Index
  <2>2. ~(<<Length - i, m>> \in R)
    BY <1>3, <2>1
  <2>3. ~(Length - i < m)
    BY <2>1, <2>2
  <2> QED
    BY <2>1, <2>3
<1>5. Length - m \in S /\ \A i \in S : Length - m >= i
  <2>1. \A i \in S : i \in Int
    BY ConstantFacts
  <2>2. m \in Nat /\ Length - m \in S /\ Length \in Nat
    BY ConstantFacts
  <2> QED
    BY <1>4, <2>1, <2>2
<1>6. PICK x \in S : \A i \in S : x >= i
  <2> HIDE DEF R, T
  <2> QED
    BY <1>5, Zenon
<1>7. Max(S) \in S /\ \A i \in S : Max(S) >= i
  <2> HIDE DEF R, T
  <2> QED
    BY <1>6 DEF Max
<1>8. \A i \in S : i \in Int
  BY ConstantFacts
<1> QED
  BY <1>7, <1>8

LEMMA ChunkFacts ==
    /\ NoChunk \notin Chunk
    /\ \A c \in Chunk : c # NoChunk /\ c.version \in Version /\ c.version # None
                        /\ c.whole \in BOOLEAN
    /\ \A v \in Version, w \in BOOLEAN : [version |-> v, whole |-> w] \in Chunk
    /\ \A c, d \in Chunk : c.version = d.version /\ c.whole = d.whole => c = d
BY ConstantFacts DEF Chunk, NoChunk, None

LEMMA StagerFacts ==
    ASSUME TypeOK, NEW s \in Stager, stager[s] # Idle \/ stager[s].pc # "idle"
    PROVE  /\ stager[s] \in AtWork /\ stager[s] # Idle
           /\ stager[s].pc \in StagerPc /\ stager[s].job \in Job
           /\ stager[s].chunk \in Chunk /\ stager[s].i \in 0..Length
           /\ stager[s].mode \in StagerMode
<1>1. stager[s] \in {Idle} \cup AtWork
  BY DEF TypeOK, StagerJob, AtWork, StagerPc, StagerMode
<1>2. Idle.pc = "idle"
  BY DEF Idle
<1> QED
  BY <1>1, <1>2 DEF AtWork

LEMMA AtWorkIsNotIdle == \A x \in AtWork : x # Idle /\ x \in StagerJob
BY DEF AtWork, Idle, StagerJob, StagerPc, StagerMode

\* A stager that is elsewhere, or in another mode.
LEMMA StagerPlace ==
    ASSUME NEW x \in AtWork, NEW pc \in StagerPc
    PROVE  LET y == [x EXCEPT !.pc = pc] IN
           /\ y \in AtWork /\ y.pc = pc /\ y.job = x.job /\ y.chunk = x.chunk
           /\ y.i = x.i /\ y.mode = x.mode
<1>1. [x EXCEPT !.pc = pc] =
        [pc |-> pc, job |-> x.job, chunk |-> x.chunk, i |-> x.i, mode |-> x.mode]
  BY DEF AtWork
<1> QED
  BY <1>1 DEF AtWork

LEMMA StagerChange ==
    ASSUME NEW x \in AtWork, NEW m \in StagerMode
    PROVE  LET y == [x EXCEPT !.mode = m] IN
           /\ y \in AtWork /\ y.pc = x.pc /\ y.job = x.job /\ y.chunk = x.chunk
           /\ y.i = x.i /\ y.mode = m
<1>1. [x EXCEPT !.mode = m] =
        [pc |-> x.pc, job |-> x.job, chunk |-> x.chunk, i |-> x.i, mode |-> m]
  BY DEF AtWork
<1> QED
  BY <1>1 DEF AtWork

LEMMA StagerChunk ==
    ASSUME NEW x \in AtWork
    PROVE  LET y == [x EXCEPT !.chunk.whole = FALSE] IN
           /\ y \in AtWork /\ y.pc = x.pc /\ y.job = x.job
           /\ y.chunk = [version |-> x.chunk.version, whole |-> FALSE]
           /\ y.i = x.i /\ y.mode = x.mode
<1>1. PICK c : c = [x.chunk EXCEPT !.whole = FALSE]
  OBVIOUS
<1>2. c = [version |-> x.chunk.version, whole |-> FALSE] /\ c \in Chunk
  BY <1>1 DEF AtWork, Chunk
<1>3. [x EXCEPT !.chunk = c] =
        [pc |-> x.pc, job |-> x.job, chunk |-> c, i |-> x.i, mode |-> x.mode]
  BY DEF AtWork
<1>4. [x EXCEPT !.chunk.whole = FALSE] = [x EXCEPT !.chunk = c]
  BY <1>1, Zenon
<1>5. PICK y : y = [x EXCEPT !.chunk = c]
  OBVIOUS
<1>6. /\ y \in AtWork /\ y.pc = x.pc /\ y.job = x.job /\ y.chunk = c
      /\ y.i = x.i /\ y.mode = x.mode
  BY <1>2, <1>3, <1>5 DEF AtWork
<1> QED
  BY <1>2, <1>4, <1>5, <1>6, Zenon

\* Where a stager comes to after a chunk.
LEMMA AfterChunkFacts ==
    ASSUME TypeOK, NEW s \in Stager, stager[s] # Idle
    PROVE  LET x == stager[s]
               y == AfterChunk(s) IN
           /\ y \in AtWork /\ y.job = x.job /\ y.chunk = x.chunk /\ y.mode = x.mode
           /\ \/ y.pc = "append" /\ y.i \in Index
              \/ y.pc = "complete" /\ y.i = Length
<1>1. stager[s] \in AtWork
  BY StagerFacts
<1>2. PICK x \in AtWork : x = stager[s]
  BY <1>1
<1>3. CASE stager[s].i + 1 < Length
  <2>1. PICK y : y = [x EXCEPT !.pc = "append"]
    OBVIOUS
  <2>2. y \in AtWork /\ y = [pc |-> "append", job |-> x.job, chunk |-> x.chunk, i |-> x.i,
                             mode |-> x.mode]
    BY <2>1 DEF AtWork, StagerPc
  <2>3. PICK z : z = [y EXCEPT !.i = x.i + 1]
    OBVIOUS
  <2>4. z = [pc |-> "append", job |-> x.job, chunk |-> x.chunk, i |-> x.i + 1,
             mode |-> x.mode]
    BY <2>2, <2>3
  <2>5. x.i + 1 \in Index /\ x.i + 1 \in 0..Length
    <3>1. x.i \in 0..Length /\ x.i + 1 < Length
      BY <1>2, <1>3 DEF AtWork
    <3> QED
      BY <3>1, ConstantFacts DEF Index
  <2>6. AfterChunk(s) = [x EXCEPT !.pc = "append", !.i = @ + 1]
    BY <1>2, <1>3 DEF AfterChunk
  <2>7. [x EXCEPT !.pc = "append", !.i = @ + 1] = z
    BY <2>1, <2>2, <2>3
  <2>8. /\ z \in AtWork /\ z.job = x.job /\ z.chunk = x.chunk /\ z.mode = x.mode
        /\ z.pc = "append" /\ z.i \in Index
    BY <2>4, <2>5 DEF AtWork, StagerPc
  <2> QED
    BY <1>2, <2>6, <2>7, <2>8, Zenon
<1>4. CASE ~(stager[s].i + 1 < Length)
  <2>1. PICK y : y = [x EXCEPT !.pc = "complete"]
    OBVIOUS
  <2>2. y \in AtWork /\ y = [pc |-> "complete", job |-> x.job, chunk |-> x.chunk, i |-> x.i,
                             mode |-> x.mode]
    BY <2>1 DEF AtWork, StagerPc
  <2>3. PICK z : z = [y EXCEPT !.i = Length]
    OBVIOUS
  <2>4. z = [pc |-> "complete", job |-> x.job, chunk |-> x.chunk, i |-> Length,
             mode |-> x.mode]
    BY <2>2, <2>3
  <2>5. AfterChunk(s) = [x EXCEPT !.pc = "complete", !.i = Length]
    BY <1>2, <1>4 DEF AfterChunk
  <2>6. [x EXCEPT !.pc = "complete", !.i = Length] = z
    BY <2>1, <2>3, Zenon
  <2>7. /\ z \in AtWork /\ z.job = x.job /\ z.chunk = x.chunk /\ z.mode = x.mode
        /\ z.pc = "complete" /\ z.i = Length
    BY <2>4, ConstantFacts DEF AtWork, StagerPc
  <2> QED
    BY <1>2, <2>5, <2>6, <2>7, Zenon
<1> QED
  BY <1>3, <1>4

LEMMA RowFacts ==
    ASSUME TypeOK, NEW j \in Job
    PROVE  /\ job \in [Job -> JobRow] /\ job[j] \in JobRow
           /\ \A i \in Index : /\ row[j][i] \in Chunk \cup {NoChunk}
                               /\ object[j][i] \in Chunk \cup {NoChunk}
           /\ j.zone \in Zone /\ j.day \in Day
<1>1. j.zone \in Zone /\ j.day \in Day
  BY DEF Job
<1> QED
  BY <1>1 DEF TypeOK

\* A job in another state, or of another version.
LEMMA JobStates ==
    ASSUME TypeOK, NEW j \in Job, NEW st \in {"absent", "complete", "failed"} \cup Active,
           job' = [job EXCEPT ![j].state = st]
    PROVE  /\ job' \in [Job -> JobRow]
           /\ job'[j].state = st /\ job'[j].version = job[j].version
           /\ \A k \in Job : k # j => job'[k] = job[k]
<1>1. job \in [Job -> JobRow] /\ job[j] \in JobRow
  BY RowFacts
<1>2. job'[j] = [job[j] EXCEPT !.state = st] /\ \A k \in Job : k # j => job'[k] = job[k]
  BY <1>1
<1>3. job'[j] = [state |-> st, version |-> job[j].version]
  BY <1>1, <1>2 DEF JobRow
<1>4. job'[j] \in JobRow /\ job'[j].state = st /\ job'[j].version = job[j].version
  BY <1>1, <1>3 DEF JobRow
<1> QED
  BY <1>1, <1>2, <1>4

LEMMA JobVersions ==
    ASSUME TypeOK, NEW j \in Job, NEW v \in Version, job' = [job EXCEPT ![j].version = v]
    PROVE  /\ job' \in [Job -> JobRow]
           /\ job'[j].version = v /\ job'[j].state = job[j].state
           /\ \A k \in Job : k # j => job'[k] = job[k]
<1>1. job \in [Job -> JobRow] /\ job[j] \in JobRow
  BY RowFacts
<1>2. job'[j] = [job[j] EXCEPT !.version = v] /\ \A k \in Job : k # j => job'[k] = job[k]
  BY <1>1
<1>3. job'[j] = [state |-> job[j].state, version |-> v]
  BY <1>1, <1>2 DEF JobRow
<1>4. job'[j] \in JobRow /\ job'[j].version = v /\ job'[j].state = job[j].state
  BY <1>1, <1>3 DEF JobRow
<1> QED
  BY <1>1, <1>2, <1>4

LEMMA JobGone ==
    ASSUME TypeOK, NEW j \in Job, job' = [job EXCEPT ![j] = NoRow]
    PROVE  /\ job' \in [Job -> JobRow] /\ job'[j] = NoRow
           /\ \A k \in Job : k # j => job'[k] = job[k]
BY RowFacts DEF NoRow, JobRow
-----------------------------------------------------------------------------
(* Types *)

LEMMA InitType == Init => TypeOK
<1> SUFFICES ASSUME Init
             PROVE  TypeOK
  OBVIOUS
<1>1. NoRow \in JobRow /\ NoChunk \in Chunk \cup {NoChunk}
  BY DEF NoRow, JobRow
<1>2. /\ today \in Day /\ registry \in [Zone -> Version] /\ faults \in 0..MaxFaults
      /\ zone \in [Zone -> [attempted: Day \cup {Never}, completed: Day \cup {Never}]]
  BY ConstantFacts DEF Init
<1>3. /\ job \in [Job -> JobRow]
      /\ row \in [Job -> [Index -> Chunk \cup {NoChunk}]]
      /\ object \in [Job -> [Index -> Chunk \cup {NoChunk}]]
  BY <1>1 DEF Init
<1>4. /\ workflow \in [Job -> Run] /\ parser \in [Job -> {"idle", "running", "failed", "staged"}]
      /\ cron \in [Cron -> CronJob] /\ stager \in [Stager -> StagerJob]
  BY DEF Init, Run, CronJob, StagerJob
<1> QED
  BY <1>2, <1>3, <1>4 DEF Init, TypeOK

LEMMA CronFacts ==
    ASSUME TypeOK, NEW c \in Cron, cron[c] # Idle \/ cron[c].pc # "idle"
    PROVE  /\ cron[c].job \in Job /\ cron[c].pc \in {"insert", "create", "uncreate", "mark"}
           /\ \A pc \in {"insert", "create", "uncreate", "mark"} :
                [cron[c] EXCEPT !.pc = pc] \in CronJob
<1>1. cron[c] \in [pc: {"insert", "create", "uncreate", "mark"}, job: Job]
  BY DEF TypeOK, CronJob, Idle
<1>2. \A pc \in {"insert", "create", "uncreate", "mark"} :
        [cron[c] EXCEPT !.pc = pc] = [pc |-> pc, job |-> cron[c].job]
  BY <1>1
<1> QED
  BY <1>1, <1>2 DEF CronJob

LEMMA WorkflowFacts ==
    ASSUME TypeOK, NEW j \in Job
    PROVE  /\ workflow[j] \in Run
           /\ workflow[j].pc \in {"start", "watch"} => workflow[j].attempt \in 1..Attempts
           /\ workflow[j].pc = "page" => workflow[j].last \in Index \cup {-1}
BY DEF TypeOK, Run

\* Places for a Workflow to go to.
LEMMA RunTypes ==
    ASSUME TypeOK
    PROVE  /\ \A pc \in {"none", "claim", "finish", "settle", "release", "fail", "ended"} :
                [pc |-> pc] \in Run
           /\ \A last \in Index \cup {-1} : [pc |-> "page", last |-> last] \in Run
           /\ [pc |-> "start", attempt |-> 1] \in Run
           /\ \A j \in Job : workflow[j].pc \in {"start", "watch"} =>
                /\ NextAttempt(j) \in Run /\ NextAttempt(j).pc \in {"start", "fail"}
                /\ [workflow[j] EXCEPT !.pc = "watch"] \in Run
                /\ [workflow[j] EXCEPT !.pc = "watch"].pc = "watch"
<1>1. ASSUME NEW j \in Job, workflow[j].pc \in {"start", "watch"}
      PROVE  /\ NextAttempt(j) \in Run /\ NextAttempt(j).pc \in {"start", "fail"}
             /\ [workflow[j] EXCEPT !.pc = "watch"] \in Run
             /\ [workflow[j] EXCEPT !.pc = "watch"].pc = "watch"
  <2>1. workflow[j].attempt \in 1..Attempts
    BY <1>1, WorkflowFacts
  <2>2. workflow[j].attempt < Attempts => workflow[j].attempt + 1 \in 1..Attempts
    BY <2>1, ConstantFacts
  <2>3. NextAttempt(j) \in Run /\ NextAttempt(j).pc \in {"start", "fail"}
    BY <2>2 DEF NextAttempt, Run
  <2>4. workflow[j] \in [pc: {"start", "watch"}, attempt: 1..Attempts]
    BY <1>1, WorkflowFacts DEF Run
  <2>5. [workflow[j] EXCEPT !.pc = "watch"] =
          [pc |-> "watch", attempt |-> workflow[j].attempt]
    BY <2>4
  <2> QED
    BY <2>1, <2>3, <2>5 DEF Run
<1>2. 1 \in 1..Attempts
  BY ConstantFacts
<1> QED
  BY <1>1, <1>2 DEF Run

\* What each kind of process leaves alone.
LEMMA CronFrame ==
    ASSUME TypeOK, NEW c \in Cron, NEW at \in CronJob, CronGoes(c, at),
           zone' \in [Zone -> [attempted: Day \cup {Never}, completed: Day \cup {Never}]],
           job' \in [Job -> JobRow], workflow' \in [Job -> Run], faults' \in 0..MaxFaults
    PROVE  TypeOK'
<1>1. cron' \in [Cron -> CronJob]
  BY DEF CronGoes, TypeOK
<1> QED
  BY <1>1 DEF TypeOK, CronGoes, world, chunks

LEMMA WorkflowFrame ==
    ASSUME TypeOK, NEW j \in Job, NEW at \in Run, WorkflowGoes(j, at),
           zone' \in [Zone -> [attempted: Day \cup {Never}, completed: Day \cup {Never}]],
           job' \in [Job -> JobRow], announced' \subseteq Job \X Index,
           parser' \in [Job -> {"idle", "running", "failed", "staged"}],
           stager' \in [Stager -> StagerJob], faults' \in 0..MaxFaults, outlived' \subseteq Job
    PROVE  TypeOK'
<1>1. workflow' \in [Job -> Run]
  BY DEF WorkflowGoes, TypeOK
<1> QED
  BY <1>1 DEF TypeOK, WorkflowGoes, world, chunks

LEMMA StagerFrame ==
    ASSUME TypeOK, NEW s \in Stager, NEW at \in StagerJob, StagerGoes(s, at),
           job' \in [Job -> JobRow],
           row' \in [Job -> [Index -> Chunk \cup {NoChunk}]],
           object' \in [Job -> [Index -> Chunk \cup {NoChunk}]],
           parser' \in [Job -> {"idle", "running", "failed", "staged"}],
           faults' \in 0..MaxFaults, outlived' \subseteq Job
    PROVE  TypeOK'
<1>1. stager' \in [Stager -> StagerJob]
  BY DEF StagerGoes, TypeOK
<1> QED
  BY <1>1 DEF TypeOK, StagerGoes, world

LEMMA FaultType ==
    ASSUME TypeOK
    PROVE  Fault => faults' \in 0..MaxFaults
BY ConstantFacts DEF TypeOK, Fault

LEMMA CronTypes ==
    ASSUME TypeOK, NEW c \in Cron,
           (\E z \in Zone : CronReads(c, z)) \/ CronStep(c) \/ CronDies(c)
    PROVE  TypeOK'
<1>1. /\ zone \in [Zone -> [attempted: Day \cup {Never}, completed: Day \cup {Never}]]
      /\ job \in [Job -> JobRow] /\ workflow \in [Job -> Run] /\ faults \in 0..MaxFaults
      /\ Idle \in CronJob
  BY DEF TypeOK, CronJob
<1>2. ASSUME NEW z \in Zone, CronReads(c, z) PROVE TypeOK'
  <2>1. [pc |-> "insert", job |-> [zone |-> z, day |-> today]] \in CronJob
    BY DEF TypeOK, CronJob, Job
  <2>2. CronGoes(c, [pc |-> "insert", job |-> [zone |-> z, day |-> today]])
    BY <1>2 DEF CronReads
  <2>3. zone' = zone /\ job' = job /\ workflow' = workflow /\ faults' = faults
    BY <1>2 DEF CronReads
  <2> QED
    BY <1>1, <2>1, <2>2, <2>3, CronFrame
<1>3. ASSUME CronInserts(c) PROVE TypeOK'
  <2>1. cron[c].job \in Job /\ [cron[c] EXCEPT !.pc = "create"] \in CronJob
    BY <1>3, CronFacts DEF CronInserts
  <2>2. job' \in [Job -> JobRow] /\ zone' = zone /\ workflow' = workflow /\ faults' = faults
    BY <1>1, <1>3, <2>1, JobStates DEF CronInserts, Active
  <2>3. CronGoes(c, Idle) \/ CronGoes(c, [cron[c] EXCEPT !.pc = "create"])
    BY <1>3 DEF CronInserts, CronTo
  <2> QED
    BY <1>1, <2>1, <2>2, <2>3, CronFrame
<1>4. ASSUME CronCreates(c) PROVE TypeOK'
  <2>1. /\ cron[c].job \in Job
        /\ [cron[c] EXCEPT !.pc = "mark"] \in CronJob
        /\ [cron[c] EXCEPT !.pc = "uncreate"] \in CronJob
    BY <1>4, CronFacts DEF CronCreates
  <2>2. workflow' \in [Job -> Run]
    <3>1. Created(cron[c].job) \in [Job -> Run]
      BY <1>1 DEF Created, Run
    <3> QED
      BY <1>1, <1>4, <3>1 DEF CronCreates
  <2>3. zone' = zone /\ job' = job /\ faults' \in 0..MaxFaults
    BY <1>1, <1>4, FaultType DEF CronCreates
  <2>4. \/ CronGoes(c, [cron[c] EXCEPT !.pc = "mark"])
        \/ CronGoes(c, [cron[c] EXCEPT !.pc = "uncreate"])
    BY <1>4 DEF CronCreates, CronTo
  <2> QED
    BY <1>1, <2>1, <2>2, <2>3, <2>4, CronFrame
<1>5. ASSUME CronUncreates(c) PROVE TypeOK'
  <2>1. cron[c].job \in Job
    BY <1>5, CronFacts DEF CronUncreates
  <2>2. job' \in [Job -> JobRow]
    BY <1>1, <1>5, <2>1, JobGone DEF CronUncreates
  <2> QED
    BY <1>1, <1>5, <2>2, CronFrame DEF CronUncreates
<1>6. ASSUME CronMarks(c) PROVE TypeOK'
  <2>1. cron[c].job \in Job /\ cron[c].job.zone \in Zone /\ cron[c].job.day \in Day
    BY <1>6, CronFacts DEF CronMarks, Job
  <2>2. zone' \in [Zone -> [attempted: Day \cup {Never}, completed: Day \cup {Never}]]
    BY <1>1, <1>6, <2>1 DEF CronMarks
  <2> QED
    BY <1>1, <1>6, <2>2, CronFrame DEF CronMarks
<1>7. ASSUME CronDies(c) PROVE TypeOK'
  BY <1>1, <1>7, CronFrame, FaultType DEF CronDies
<1> QED
  BY <1>2, <1>3, <1>4, <1>5, <1>6, <1>7 DEF CronStep

\* A container that stops leaves calls.
LEMMA StopsTypes ==
    ASSUME TypeOK, NEW j \in Job, ContainerStops(j)
    PROVE  /\ stager' \in [Stager -> StagerJob] /\ outlived' \subseteq Job
           /\ parser' \in [Job -> {"idle", "running", "failed", "staged"}]
<1>1. ASSUME NEW s \in Stager PROVE stager'[s] \in StagerJob
  <2>1. stager[s] \in StagerJob /\ Idle \in StagerJob
    BY DEF TypeOK, StagerJob
  <2>2. stager[s] # Idle => [stager[s] EXCEPT !.mode = "call"] \in StagerJob
    BY StagerFacts, StagerChange, AtWorkIsNotIdle DEF StagerMode
  <2> QED
    BY <2>1, <2>2 DEF ContainerStops, Holds
<1>2. stager' \in [Stager -> StagerJob]
  <2>1. stager' = [s \in Stager |-> stager'[s]]
    BY DEF ContainerStops
  <2> QED
    BY <1>1, <2>1
<1>3. /\ outlived' \subseteq Job
      /\ parser' \in [Job -> {"idle", "running", "failed", "staged"}]
  BY DEF ContainerStops, TypeOK
<1> QED
  BY <1>2, <1>3
\* The last chunk of a page.
LEMMA MaxOfPage ==
    ASSUME TypeOK, NEW j \in Job, NEW last \in Index \cup {-1}, Page(j, last) # {}
    PROVE  /\ Max(Page(j, last)) \in Page(j, last) /\ Max(Page(j, last)) \in Index
           /\ \A i \in Page(j, last) : i <= Max(Page(j, last))
<1>1. Page(j, last) \in SUBSET (Index \cup {-1}) /\ Page(j, last) \subseteq Index
  BY DEF Page, Staged
<1> QED
  BY <1>1, MaxIsMember

LEMMA WorkflowTypes ==
    ASSUME TypeOK, NEW j \in Job,
           WorkflowStep(j) \/ TimesOut(j) \/ WorkflowFails(j) \/ Restarts(j)
    PROVE  TypeOK'
<1>1. /\ zone \in [Zone -> [attempted: Day \cup {Never}, completed: Day \cup {Never}]]
      /\ job \in [Job -> JobRow] /\ announced \subseteq Job \X Index
      /\ parser \in [Job -> {"idle", "running", "failed", "staged"}]
      /\ stager \in [Stager -> StagerJob] /\ faults \in 0..MaxFaults /\ outlived \subseteq Job
  BY DEF TypeOK
<1>2. job' \in [Job -> JobRow]
  BY <1>1, JobStates DEF WorkflowStep, Claims, Starts, Watches, Finishes, Announces,
     Settles, Releases, Fails, TimesOut, WorkflowFails, Restarts, Active
<1>3. CASE Claims(j)
  <2>1. job' \in [Job -> JobRow]
    BY <1>1, <1>2, <1>3 DEF Claims, Active
  <2>2. PICK at \in Run : WorkflowGoes(j, at)
    BY <1>3, RunTypes DEF Claims
  <2> QED
    BY <1>1, <1>3, <2>1, <2>2, WorkflowFrame DEF Claims
<1>4. CASE Starts(j)
  <2>1. PICK at \in Run : WorkflowGoes(j, at)
    BY <1>4, RunTypes DEF Starts
  <2>2. parser' \in [Job -> {"idle", "running", "failed", "staged"}]
    BY <1>1, <1>4 DEF Starts
  <2>3. stager' \in [Stager -> StagerJob]
    <3>1. [pc |-> "begin", job |-> j, i |-> 0, mode |-> "held",
           chunk |-> [version |-> registry[j.zone], whole |-> TRUE]] \in StagerJob
      <4>1. j.zone \in Zone /\ registry[j.zone] \in Version
        BY RowFacts DEF TypeOK
      <4>2. [version |-> registry[j.zone], whole |-> TRUE] \in Chunk
        BY <4>1, ChunkFacts
      <4> QED
        BY <4>2, ConstantFacts DEF StagerJob
    <3> QED
      BY <1>1, <1>4, <3>1 DEF Starts
  <2> QED
    BY <1>1, <1>4, <2>1, <2>2, <2>3, WorkflowFrame DEF Starts
<1>5. CASE Watches(j)
  <2>1. PICK at \in Run : WorkflowGoes(j, at)
    BY <1>5, RunTypes DEF Watches
  <2> QED
    BY <1>1, <1>5, <2>1, WorkflowFrame DEF Watches
<1>6. CASE Finishes(j)
  <2>1. -1 \in Index \cup {-1}
    OBVIOUS
  <2>2. PICK at \in Run : WorkflowGoes(j, at)
    BY <1>6, <2>1, RunTypes DEF Finishes
  <2> QED
    BY <1>1, <1>6, <2>2, WorkflowFrame DEF Finishes
<1>7. CASE Announces(j)
  <2>1. workflow[j].last \in Index \cup {-1}
    BY <1>7, WorkflowFacts DEF Announces
  <2>2. announced' \subseteq Job \X Index
    BY <1>1, <1>7 DEF Announces, Page, Staged
  <2>3. Page(j, workflow[j].last) # {} => Max(Page(j, workflow[j].last)) \in Index
    BY <2>1, MaxOfPage
  <2>4. PICK at \in Run : WorkflowGoes(j, at)
    BY <1>7, <2>3, RunTypes DEF Announces
  <2> QED
    BY <1>1, <1>7, <2>2, <2>4, WorkflowFrame DEF Announces
<1>8. CASE Settles(j)
  <2>1. zone' \in [Zone -> [attempted: Day \cup {Never}, completed: Day \cup {Never}]]
    BY <1>1, <1>8, RowFacts DEF Settles, TypeOK
  <2>2. job' \in [Job -> JobRow]
    BY <1>2, <1>8 DEF Settles
  <2>3. WorkflowGoes(j, [pc |-> "release"])
    BY <1>8 DEF Settles
  <2> QED
    BY <1>1, <1>8, <2>1, <2>2, <2>3, RunTypes, WorkflowFrame DEF Settles
<1>9. CASE Releases(j)
  <2>1. WorkflowGoes(j, [pc |-> "ended"])
    BY <1>9 DEF Releases
  <2>2. /\ stager' \in [Stager -> StagerJob] /\ outlived' \subseteq Job
        /\ parser' \in [Job -> {"idle", "running", "failed", "staged"}]
    BY <1>1, <1>9, StopsTypes DEF Releases
  <2> QED
    BY <1>1, <1>9, <2>1, <2>2, RunTypes, WorkflowFrame DEF Releases
<1>10. CASE Fails(j)
  <2>1. job' \in [Job -> JobRow]
    BY <1>1, <1>2, <1>10 DEF Fails
  <2>2. WorkflowGoes(j, [pc |-> "ended"])
    BY <1>10 DEF Fails
  <2> QED
    BY <1>1, <1>10, <2>1, <2>2, RunTypes, WorkflowFrame DEF Fails
<1>11. CASE TimesOut(j)
  <2>1. WorkflowGoes(j, NextAttempt(j)) /\ NextAttempt(j) \in Run
    BY <1>11, RunTypes DEF TimesOut
  <2>2. stager' \in [Stager -> StagerJob]
    <3>1. ASSUME NEW s \in Stager PROVE stager'[s] \in StagerJob
      <4>1. stager[s] \in StagerJob
        BY DEF TypeOK
      <4>2. stager[s] # Idle => [stager[s] EXCEPT !.mode = "adrift"] \in StagerJob
        BY StagerFacts, StagerChange, AtWorkIsNotIdle DEF StagerMode
      <4> QED
        BY <1>11, <4>1, <4>2 DEF TimesOut, Holds
    <3>2. stager' = [s \in Stager |-> stager'[s]]
      BY <1>11 DEF TimesOut
    <3> QED
      BY <3>1, <3>2
  <2> QED
    BY <1>1, <1>11, <2>1, <2>2, FaultType, WorkflowFrame DEF TimesOut
<1>12. CASE WorkflowFails(j)
  <2>1. PICK at \in Run : WorkflowGoes(j, at)
    BY <1>12, RunTypes DEF WorkflowFails
  <2> QED
    BY <1>1, <1>12, <2>1, FaultType, WorkflowFrame DEF WorkflowFails
<1>13. CASE Restarts(j)
  <2>1. WorkflowGoes(j, [pc |-> "claim"])
    BY <1>13 DEF Restarts
  <2> QED
    BY <1>1, <1>13, <2>1, FaultType, RunTypes, WorkflowFrame DEF Restarts
<1> QED
  BY <1>3, <1>4, <1>5, <1>6, <1>7, <1>8, <1>9, <1>10, <1>11, <1>12, <1>13 DEF WorkflowStep

\* What a stager's step does to it.
LEMMA EndsType ==
    ASSUME TypeOK, NEW s \in Stager, NEW how \in {"failed", "staged"}, Ends(s, how),
           stager[s] # Idle
    PROVE  /\ StagerGoes(s, Idle) /\ Idle \in StagerJob
           /\ parser' \in [Job -> {"idle", "running", "failed", "staged"}]
<1>1. stager[s].job \in Job
  BY StagerFacts
<1> QED
  BY <1>1 DEF Ends, TypeOK, StagerJob

LEMMA ReturnsType ==
    ASSUME TypeOK, NEW s \in Stager, NEW at \in StagerJob, Returns(s, at)
    PROVE  /\ \E to \in StagerJob : StagerGoes(s, to)
           /\ parser' \in [Job -> {"idle", "running", "failed", "staged"}]
BY DEF Returns, TypeOK, StagerJob

LEMMA NextChunkType ==
    ASSUME TypeOK, NEW s \in Stager, stager[s] # Idle, NextChunk(s)
    PROVE  /\ \E to \in StagerJob : StagerGoes(s, to)
           /\ parser' \in [Job -> {"idle", "running", "failed", "staged"}]
<1>1. AfterChunk(s) \in StagerJob
  BY AfterChunkFacts, AtWorkIsNotIdle
<1> QED
  BY <1>1, EndsType, ReturnsType DEF NextChunk

LEMMA StagerTypes ==
    ASSUME TypeOK, NEW s \in Stager, StagerStep(s) \/ StagerFailure(s)
    PROVE  TypeOK'
<1>1. /\ job \in [Job -> JobRow] /\ faults \in 0..MaxFaults /\ outlived \subseteq Job
      /\ row \in [Job -> [Index -> Chunk \cup {NoChunk}]]
      /\ object \in [Job -> [Index -> Chunk \cup {NoChunk}]]
      /\ parser \in [Job -> {"idle", "running", "failed", "staged"}]
  BY DEF TypeOK
<1>2. stager[s] # Idle
  BY DEF StagerStep, StagerFailure, Begins, Marks, Appends, Puts, Writes, Completes, Stages,
         BreaksOff, StagerThrows, AnswerIsLost, PostsAgain, Idle
<1>3. stager[s] \in AtWork /\ stager[s].job \in Job /\ stager[s].chunk \in Chunk
  BY <1>2, StagerFacts
<1>4. \A pc \in StagerPc : [stager[s] EXCEPT !.pc = pc] \in StagerJob
  BY <1>3, StagerPlace, AtWorkIsNotIdle
<1>5. \A pc \in StagerPc : StagerTo(s, pc) =>
        \E to \in StagerJob : StagerGoes(s, to) /\ parser' = parser
  BY <1>4 DEF StagerTo
<1>6. CASE Begins(s)
  <2>1. \/ \E to \in StagerJob : StagerGoes(s, to) /\ parser' = parser
        \/ Ends(s, "failed")
    BY <1>5, <1>6 DEF Begins, StagerPc
  <2> QED
    BY <1>1, <1>2, <1>6, <2>1, EndsType, StagerFrame DEF Begins, chunks
<1>7. CASE Marks(s)
  <2>1. [stager[s] EXCEPT !.pc = "append"] \in StagerJob
    BY <1>4 DEF StagerPc
  <2>2. /\ \E to \in StagerJob : StagerGoes(s, to)
        /\ parser' \in [Job -> {"idle", "running", "failed", "staged"}]
    BY <1>7, <2>1, ReturnsType DEF Marks
  <2>3. job' \in [Job -> JobRow]
    <3>1. stager[s].chunk.version \in Version
      BY <1>3, ChunkFacts
    <3> QED
      BY <1>1, <1>3, <1>7, <3>1, JobVersions DEF Marks
  <2> QED
    BY <1>1, <1>7, <2>2, <2>3, StagerFrame DEF Marks, chunks
<1>8. CASE Appends(s)
  <2>1. /\ \E to \in StagerJob : StagerGoes(s, to)
        /\ parser' \in [Job -> {"idle", "running", "failed", "staged"}]
    BY <1>1, <1>2, <1>5, <1>8, EndsType, NextChunkType DEF Appends, StagerPc
  <2> QED
    BY <1>1, <1>8, <2>1, StagerFrame DEF Appends, chunks
<1>9. CASE Puts(s)
  <2>1. \E to \in StagerJob : StagerGoes(s, to) /\ parser' = parser
    BY <1>5, <1>9 DEF Puts, StagerPc
  <2>2. object' \in [Job -> [Index -> Chunk \cup {NoChunk}]]
    BY <1>1, <1>3, <1>9 DEF Puts
  <2> QED
    BY <1>1, <1>9, <2>1, <2>2, StagerFrame DEF Puts
<1>10. CASE Writes(s)
  <2>1. row' \in [Job -> [Index -> Chunk \cup {NoChunk}]]
    BY <1>1, <1>3, <1>10 DEF Writes
  <2> QED
    BY <1>1, <1>2, <1>10, <2>1, NextChunkType, StagerFrame DEF Writes
<1>11. CASE Completes(s)
  <2>1. \/ \E to \in StagerJob : StagerGoes(s, to) /\ parser' = parser
        \/ Ends(s, "failed")
    BY <1>5, <1>11 DEF Completes, StagerPc
  <2> QED
    BY <1>1, <1>2, <1>11, <2>1, EndsType, StagerFrame DEF Completes, chunks
<1>12. CASE Stages(s)
  <2>1. job' \in [Job -> JobRow]
    BY <1>1, <1>3, <1>12, JobStates DEF Stages, Active
  <2>2. Ends(s, "staged") \/ Ends(s, "failed")
    BY <1>12 DEF Stages
  <2> QED
    BY <1>1, <1>2, <1>12, <2>1, <2>2, EndsType, StagerFrame DEF Stages, chunks
<1>13. CASE BreaksOff(s)
  <2>1. [stager[s] EXCEPT !.chunk.whole = FALSE] \in StagerJob
    BY <1>3, StagerChunk, AtWorkIsNotIdle
  <2>2. StagerGoes(s, [stager[s] EXCEPT !.chunk.whole = FALSE])
    BY <1>13 DEF BreaksOff
  <2> QED
    BY <1>1, <1>13, <2>1, <2>2, FaultType, StagerFrame DEF BreaksOff, chunks
<1>14. CASE StagerThrows(s)
  BY <1>1, <1>2, <1>14, EndsType, FaultType, StagerFrame DEF StagerThrows, chunks
<1>15. CASE AnswerIsLost(s)
  <2>1. [stager[s] EXCEPT !.mode = "call"] \in StagerJob
    BY <1>3, StagerChange, AtWorkIsNotIdle DEF StagerMode
  <2>2. StagerGoes(s, [stager[s] EXCEPT !.mode = "call"])
    BY <1>15 DEF AnswerIsLost
  <2>3. /\ parser' \in [Job -> {"idle", "running", "failed", "staged"}]
        /\ outlived' \subseteq Job
    BY <1>1, <1>3, <1>15 DEF AnswerIsLost
  <2> QED
    BY <1>1, <1>15, <2>1, <2>2, <2>3, FaultType, StagerFrame DEF AnswerIsLost, chunks
<1>16. CASE \E t \in Stager : PostsAgain(s, t)
  <2>1. PICK t \in Stager : PostsAgain(s, t)
    BY <1>16
  <2>2. /\ [stager[s] EXCEPT !.pc = "append"] \in StagerJob
        /\ [stager[s] EXCEPT !.mode = "call"] \in StagerJob
    BY <1>3, <1>4, StagerChange, AtWorkIsNotIdle DEF StagerPc, StagerMode
  <2>3. stager' = [stager EXCEPT ![s] = [stager[s] EXCEPT !.pc = "append"],
                                 ![t] = [stager[s] EXCEPT !.mode = "call"]]
    BY <2>1, Zenon DEF PostsAgain
  <2>4. stager' \in [Stager -> StagerJob]
    BY <2>2, <2>3 DEF TypeOK
  <2>5. outlived' \subseteq Job
    BY <1>1, <1>3, <2>1 DEF PostsAgain
  <2> QED
    BY <2>1, <2>4, <2>5, FaultType DEF PostsAgain, TypeOK, world, chunks
<1> QED
  BY <1>6, <1>7, <1>8, <1>9, <1>10, <1>11, <1>12, <1>13, <1>14, <1>15, <1>16
     DEF StagerStep, StagerFailure

LEMMA TypeStep == TypeOK /\ [Next]_vars => TypeOK'
<1> SUFFICES ASSUME TypeOK, [Next]_vars
             PROVE  TypeOK'
  OBVIOUS
<1>1. ASSUME NEW j \in Job, ContainerDies(j) \/ Reaps(j) PROVE TypeOK'
  <2>1. /\ stager' \in [Stager -> StagerJob] /\ outlived' \subseteq Job
        /\ parser' \in [Job -> {"idle", "running", "failed", "staged"}]
    BY <1>1, StopsTypes DEF ContainerDies, Reaps
  <2>2. faults' \in 0..MaxFaults
    BY <1>1, FaultType DEF ContainerDies, Reaps, TypeOK
  <2> QED
    BY <1>1, <2>1, <2>2 DEF TypeOK, ContainerDies, Reaps, world, chunks
<1>2. CASE Midnight
  BY <1>2, ConstantFacts DEF Midnight, TypeOK, chunks, Day
<1>3. ASSUME NEW z \in Zone, FileChanges(z) PROVE TypeOK'
  BY <1>3, ConstantFacts DEF FileChanges, TypeOK, chunks, Version
<1>4. CASE UNCHANGED vars
  BY <1>4 DEF TypeOK, vars
<1> QED
  BY <1>1, <1>2, <1>3, <1>4, CronTypes, WorkflowTypes, StagerTypes DEF Next

\* Every variable keeps its type, whichever stagers and calls go on.
THEOREM TypeCorrect == Spec => []TypeOK
<1> QED
  BY InitType, TypeStep, PTL DEF Spec
-----------------------------------------------------------------------------
(* The inductive invariant *)

At(s, j) == stager[s] # Idle /\ stager[s].job = j

HasBegun(j) == job[j].state \notin {"absent", "queued"}

\* What a stager, or a call that is left of one, may rely on when it goes on.  The
\* fingerprint it has compared or stored is still that of its job, and of all stagers
\* of a job one at a time is between the comparison and the update.
StagerFollows(s) ==
    LET j == stager[s].job IN
    /\ HasBegun(j)
    /\ stager[s].pc = "mark" =>
         /\ job[j].version \in {None, stager[s].chunk.version}
         /\ \A t \in Stager : At(t, j) /\ stager[t].pc = "mark" => t = s
    /\ stager[s].pc \notin {"begin", "mark"} => job[j].version = stager[s].chunk.version
    /\ stager[s].pc \notin {"complete", "settle"} => stager[s].i \in Index
    /\ stager[s].pc = "row" => object[j][stager[s].i] # NoChunk
    /\ stager[s].pc = "settle" => Staged(j) = Index

\* A step adrift is never of a container; a call left of a container has outlived its
\* stager; and a container has one stager at a time.
StagerIsInMode(s) ==
    LET j == stager[s].job IN
    /\ stager[s].mode = "adrift" => ~InContainer(j)
    /\ stager[s].mode = "call" => InContainer(j) /\ j \in outlived
    /\ InContainer(j) /\ stager[s].mode = "held" =>
         /\ parser[j] = "running"
         /\ \A t \in Stager : Holds(t, j) => t = s
    /\ ~InContainer(j) => stager[s].chunk.whole

StagersAreRight == \A s \in Stager : stager[s] # Idle => StagerFollows(s) /\ StagerIsInMode(s)

\* All rows and objects of a job are of the file of its fingerprint.
FileIsOne(j) ==
    /\ ~HasBegun(j) => job[j].version = None
    /\ \A i \in Index :
         /\ row[j][i] # NoChunk =>
              row[j][i].version = job[j].version /\ object[j][i] # NoChunk
         /\ object[j][i] # NoChunk => object[j][i].version = job[j].version
         /\ ~InContainer(j) => /\ row[j][i] # NoChunk => row[j][i].whole
                               /\ object[j][i] # NoChunk => object[j][i].whole

\* As long as no call has outlived its stager, a container writes a row for each
\* object before it comes to the next, and only counts whole ones.
ContainerIsInStep(j) ==
    InContainer(j) /\ j \notin outlived =>
        /\ \A i \in Index : row[j][i] # NoChunk => object[j][i] = row[j][i]
        /\ job[j].state \in {"staged", "complete"} => \A i \in Index : row[j][i].whole
        /\ \A s \in Stager : At(s, j) =>
             /\ stager[s].pc \in {"put", "row"} => row[j][stager[s].i] = NoChunk
             /\ stager[s].pc = "row" => object[j][stager[s].i] = stager[s].chunk
             /\ stager[s].pc = "settle" => \A i \in Index : row[j][i].whole

\* The walk over the pages leaves no chunk out.
WalkIsInOrder(j) ==
    /\ job[j].state \in {"staged", "complete"} => Staged(j) = Index
    /\ workflow[j].pc \in {"page", "settle"} => job[j].state \in {"staged", "complete"}
    /\ workflow[j].pc = "page" =>
         \A i \in Index : i <= workflow[j].last => <<j, i>> \in announced
    /\ workflow[j].pc = "settle" \/ job[j].state = "complete" =>
         \A i \in Index : <<j, i>> \in announced
    /\ (\E i \in Index : <<j, i>> \in announced) => Staged(j) = Index

CzdsInv ==
    /\ TypeOK
    /\ StagersAreRight
    /\ \A j \in Job : /\ FileIsOne(j) /\ ContainerIsInStep(j) /\ WalkIsInOrder(j)
-----------------------------------------------------------------------------
(* What a step may do *)

\* Nothing but its mode changes of the stager, unless it is gone.
Kept(s) ==
    \/ stager'[s] = Idle
    \/ /\ stager[s] # Idle /\ stager'[s] # Idle
       /\ stager'[s].job = stager[s].job /\ stager'[s].pc = stager[s].pc
       /\ stager'[s].chunk = stager[s].chunk /\ stager'[s].i = stager[s].i
       /\ \/ stager'[s].mode = stager[s].mode
          \/ stager'[s].mode = "adrift" /\ ~InContainer(stager[s].job)
          \/ /\ stager'[s].mode = "call"
             /\ InContainer(stager[s].job) /\ stager[s].job \in outlived'

\* The ways of a stager through its calls, with what each step of it did or saw.
Advances(s) ==
    /\ stager[s] # Idle /\ stager'[s] \in AtWork
    /\ stager'[s].job = stager[s].job /\ stager'[s].mode = stager[s].mode
    /\ \/ /\ Begins(s) /\ MayBegin(s)
          /\ stager[s].pc = "begin" /\ stager'[s].pc = "mark" /\ stager'[s].i = stager[s].i
       \/ /\ Marks(s)
          /\ stager[s].pc = "mark" /\ stager'[s].pc = "append" /\ stager'[s].i = stager[s].i
       \/ /\ Appends(s) /\ stager[s].i = Last(stager[s].job) + 1
          /\ stager[s].pc = "append" /\ stager'[s].pc = "put" /\ stager'[s].i = stager[s].i
       \/ /\ Puts(s)
          /\ stager[s].pc = "put" /\ stager'[s].pc = "row" /\ stager'[s].i = stager[s].i
       \/ /\ Appends(s) \/ Writes(s)
          /\ stager[s].pc \in {"append", "row"}
          /\ \/ stager'[s].pc = "append" /\ stager'[s].i \in Index
             \/ stager'[s].pc = "complete"
       \/ /\ Completes(s) /\ CountsMatch(stager[s].job)
          /\ stager[s].pc = "complete" /\ stager'[s].pc = "settle"
    /\ stager'[s].chunk = stager[s].chunk

\* The last of a download that breaks off.
Breaks(s) ==
    /\ stager[s] # Idle /\ stager'[s] \in AtWork /\ InContainer(stager[s].job)
    /\ stager'[s].job = stager[s].job /\ stager'[s].mode = stager[s].mode
    /\ stager[s].pc = "append" /\ stager'[s].pc = "append" /\ stager'[s].i = stager[s].i
    /\ stager'[s].chunk.version = stager[s].chunk.version

\* A stager is started by the Workflow of a job.
Enters(s, j) ==
    /\ Starts(j) /\ job[j].state = "running"
    /\ ~(InContainer(j) /\ parser[j] \in {"running", "staged"})
    /\ stager[s] = Idle
    /\ stager'[s] \in AtWork /\ stager'[s].pc = "begin" /\ stager'[s].job = j
    /\ stager'[s].i = 0 /\ stager'[s].mode = "held" /\ stager'[s].chunk.whole
    /\ parser' = [parser EXCEPT ![j] = "running"]

LEMMA OthersStay ==
    ASSUME TypeOK, NEW s \in Stager,
           StagerStep(s) \/ BreaksOff(s) \/ StagerThrows(s) \/ AnswerIsLost(s)
    PROVE  \A t \in Stager : t # s => stager'[t] = stager[t]
<1>1. \E at : StagerGoes(s, at)
  BY DEF StagerStep, BreaksOff, StagerThrows, AnswerIsLost, Begins, Marks, Appends, Puts, Writes,
         Completes, Stages, StagerTo, Ends, Returns, NextChunk
<1> QED
  BY <1>1 DEF StagerGoes, TypeOK

LEMMA PlaceOfStager ==
    ASSUME TypeOK, NEW s \in Stager, stager[s] # Idle, NEW pc \in StagerPc,
           StagerGoes(s, [stager[s] EXCEPT !.pc = pc])
    PROVE  /\ stager'[s] \in AtWork /\ stager'[s].pc = pc
           /\ stager'[s].job = stager[s].job /\ stager'[s].mode = stager[s].mode
           /\ stager'[s].chunk = stager[s].chunk /\ stager'[s].i = stager[s].i
<1>1. stager'[s] = [stager[s] EXCEPT !.pc = pc]
  BY DEF StagerGoes, TypeOK
<1> QED
  BY <1>1, StagerFacts, StagerPlace

LEMMA StagerAdvances ==
    ASSUME TypeOK, NEW s \in Stager, StagerStep(s), stager'[s] # Idle
    PROVE  Advances(s)
<1>1. stager[s] # Idle
  BY DEF StagerStep, Begins, Marks, Appends, Puts, Writes, Completes, Stages, Idle
<1>2. stager \in [Stager -> StagerJob]
  BY DEF TypeOK
<1>3. \A how : ~Ends(s, how)
  BY <1>2 DEF Ends, StagerGoes
<1>4. \A at : StagerGoes(s, at) => stager'[s] = at
  BY <1>2 DEF StagerGoes
<1>5. ASSUME NextChunk(s)
      PROVE  /\ stager'[s] \in AtWork /\ stager'[s].job = stager[s].job
             /\ stager'[s].mode = stager[s].mode /\ stager'[s].chunk = stager[s].chunk
             /\ \/ stager'[s].pc = "append" /\ stager'[s].i \in Index
                \/ stager'[s].pc = "complete"
  <2>1. Returns(s, AfterChunk(s))
    BY <1>3, <1>5 DEF NextChunk
  <2>2. stager'[s] = AfterChunk(s)
    BY <1>4, <2>1 DEF Returns
  <2> QED
    BY <1>1, <2>2, AfterChunkFacts, Zenon
<1>6. CASE Begins(s)
  <2>1. MayBegin(s) /\ StagerGoes(s, [stager[s] EXCEPT !.pc = "mark"]) /\ stager[s].pc = "begin"
    BY <1>3, <1>6 DEF Begins, StagerTo
  <2>2. "mark" \in StagerPc
    BY DEF StagerPc
  <2> QED
    BY <1>1, <1>6, <2>1, <2>2, PlaceOfStager, Zenon DEF Advances
<1>7. CASE Marks(s)
  <2>1. StagerGoes(s, [stager[s] EXCEPT !.pc = "append"]) /\ stager[s].pc = "mark"
    BY <1>4, <1>7 DEF Marks, Returns
  <2>2. "append" \in StagerPc
    BY DEF StagerPc
  <2> QED
    BY <1>1, <1>7, <2>1, <2>2, PlaceOfStager, Zenon DEF Advances
<1>8. CASE Appends(s)
  <2>1. stager[s].pc = "append"
    BY <1>8 DEF Appends
  <2>2. CASE NextChunk(s)
    BY <1>1, <1>5, <1>8, <2>1, <2>2, Zenon DEF Advances
  <2>3. CASE StagerTo(s, "put") /\ stager[s].i = Last(stager[s].job) + 1
    <3>1. "put" \in StagerPc
      BY DEF StagerPc
    <3> QED
      BY <1>1, <1>8, <2>1, <2>3, <3>1, PlaceOfStager, Zenon DEF Advances, StagerTo
  <2> QED
    BY <1>3, <1>8, <2>2, <2>3 DEF Appends
<1>9. CASE Puts(s)
  <2>1. StagerGoes(s, [stager[s] EXCEPT !.pc = "row"]) /\ stager[s].pc = "put"
    BY <1>9 DEF Puts, StagerTo
  <2>2. "row" \in StagerPc
    BY DEF StagerPc
  <2> QED
    BY <1>1, <1>9, <2>1, <2>2, PlaceOfStager, Zenon DEF Advances
<1>10. CASE Writes(s)
  <2>1. stager[s].pc = "row" /\ NextChunk(s)
    BY <1>10 DEF Writes
  <2> QED
    BY <1>1, <1>5, <1>10, <2>1, Zenon DEF Advances
<1>11. CASE Completes(s)
  <2>1. /\ CountsMatch(stager[s].job) /\ stager[s].pc = "complete"
        /\ StagerGoes(s, [stager[s] EXCEPT !.pc = "settle"])
    BY <1>3, <1>11 DEF Completes, StagerTo
  <2>2. "settle" \in StagerPc
    BY DEF StagerPc
  <2> QED
    BY <1>1, <1>11, <2>1, <2>2, PlaceOfStager, Zenon DEF Advances
<1>12. CASE Stages(s)
  BY <1>3, <1>12 DEF Stages
<1> QED
  BY <1>6, <1>7, <1>8, <1>9, <1>10, <1>11, <1>12 DEF StagerStep

\* A container that posts a chunk again, and the call it did not get the answer to.
LEMMA Copies ==
    ASSUME TypeOK, NEW s \in Stager, NEW t \in Stager, PostsAgain(s, t)
    PROVE  /\ s # t /\ stager[s] \in AtWork /\ stager[t] = Idle
           /\ stager[s].pc \in {"put", "row"} /\ stager[s].mode = "held"
           /\ InContainer(stager[s].job)
           /\ stager'[s] \in AtWork /\ stager'[s].pc = "append" /\ stager'[s].mode = "held"
           /\ stager'[s].job = stager[s].job /\ stager'[s].chunk = stager[s].chunk
           /\ stager'[s].i = stager[s].i
           /\ stager'[t] \in AtWork /\ stager'[t].pc = stager[s].pc /\ stager'[t].mode = "call"
           /\ stager'[t].job = stager[s].job /\ stager'[t].chunk = stager[s].chunk
           /\ stager'[t].i = stager[s].i
           /\ \A r \in Stager : r # s /\ r # t => stager'[r] = stager[r]
<1>1. stager[s].pc \in {"put", "row"} /\ stager[s].mode = "held" /\ stager[t] = Idle
      /\ InContainer(stager[s].job)
  BY DEF PostsAgain
<1>2. stager[s] # Idle /\ stager[s] \in AtWork /\ s # t
  BY <1>1, StagerFacts DEF Idle
<1>3. stager' = [stager EXCEPT ![s] = [stager[s] EXCEPT !.pc = "append"],
                               ![t] = [stager[s] EXCEPT !.mode = "call"]]
  BY Zenon DEF PostsAgain
<1>4. stager'[s] = [stager[s] EXCEPT !.pc = "append"]
      /\ stager'[t] = [stager[s] EXCEPT !.mode = "call"]
      /\ \A r \in Stager : r # s /\ r # t => stager'[r] = stager[r]
  <2>1. PICK x : x = [stager[s] EXCEPT !.pc = "append"]
    OBVIOUS
  <2>2. PICK y : y = [stager[s] EXCEPT !.mode = "call"]
    OBVIOUS
  <2>3. stager' = [stager EXCEPT ![s] = x, ![t] = y]
    BY <1>3, <2>1, <2>2, Zenon
  <2>4. stager'[s] = x /\ stager'[t] = y
        /\ \A r \in Stager : r # s /\ r # t => stager'[r] = stager[r]
    BY <1>2, <2>3 DEF TypeOK
  <2> QED
    BY <2>1, <2>2, <2>4, Zenon
<1>5. "append" \in StagerPc
  BY DEF StagerPc
<1>6. /\ stager'[s] \in AtWork /\ stager'[s].pc = "append" /\ stager'[s].mode = stager[s].mode
      /\ stager'[s].job = stager[s].job /\ stager'[s].chunk = stager[s].chunk
      /\ stager'[s].i = stager[s].i
  BY <1>2, <1>4, <1>5, StagerPlace
<1>7. /\ stager'[t] \in AtWork /\ stager'[t].pc = stager[s].pc /\ stager'[t].mode = "call"
      /\ stager'[t].job = stager[s].job /\ stager'[t].chunk = stager[s].chunk
      /\ stager'[t].i = stager[s].i
  <2>1. "call" \in StagerMode
    BY DEF StagerMode
  <2> QED
    BY <1>2, <1>4, <2>1, StagerChange
<1> QED
  BY <1>1, <1>2, <1>4, <1>6, <1>7

LEMMA StopsKeep ==
    ASSUME TypeOK, NEW j \in Job, ContainerStops(j), NEW s \in Stager
    PROVE  Kept(s) /\ ~Holds(s, j)'
<1>1. CASE ~Holds(s, j)
  <2>1. stager'[s] = stager[s]
    BY <1>1 DEF ContainerStops
  <2> QED
    BY <1>1, <2>1 DEF Kept, Holds
<1>2. CASE Holds(s, j)
  <2>1. CASE stager[s].pc \in InCall
    <3>1. stager'[s] = [stager[s] EXCEPT !.mode = "call"] /\ j \in outlived'
      BY <1>2, <2>1 DEF ContainerStops
    <3>2. /\ stager'[s] \in AtWork /\ stager'[s].pc = stager[s].pc
          /\ stager'[s].job = stager[s].job /\ stager'[s].chunk = stager[s].chunk
          /\ stager'[s].i = stager[s].i /\ stager'[s].mode = "call"
      <4>1. "call" \in StagerMode /\ stager[s] \in AtWork
        BY <1>2, StagerFacts DEF Holds, StagerMode
      <4> QED
        BY <3>1, <4>1, StagerChange
    <3> QED
      BY <1>2, <3>1, <3>2, AtWorkIsNotIdle DEF Kept, Holds, ContainerStops
  <2>2. CASE stager[s].pc \notin InCall
    <3>1. stager'[s] = Idle
      BY <1>2, <2>2 DEF ContainerStops
    <3> QED
      BY <3>1 DEF Kept, Holds
  <2> QED
    BY <2>1, <2>2
<1> QED
  BY <1>1, <1>2

\* What becomes of a stager.
LEMMA WhoMoves ==
    ASSUME TypeOK, [Next]_vars, NEW s \in Stager
    PROVE  \/ Kept(s) \/ Advances(s) \/ Breaks(s)
           \/ \E t \in Stager : PostsAgain(s, t) \/ PostsAgain(t, s)
           \/ \E j \in Job : Enters(s, j)
<1>1. stager'[s] = stager[s] => Kept(s)
  BY DEF Kept
<1>2. ASSUME NEW c \in Cron, (\E z \in Zone : CronReads(c, z)) \/ CronStep(c) \/ CronDies(c)
      PROVE  stager' = stager
  BY <1>2 DEF CronReads, CronStep, CronInserts, CronCreates, CronUncreates, CronMarks, CronDies,
              CronTo, CronGoes
<1>3. ASSUME NEW j \in Job, Starts(j)
      PROVE  stager'[s] = stager[s] \/ Enters(s, j)
  <2>1. CASE stager' = stager
    BY <2>1
  <2>2. CASE stager' # stager
    <3>1. /\ job[j].state = "running"
          /\ ~(InContainer(j) /\ parser[j] \in {"running", "staged"})
          /\ parser' = [parser EXCEPT ![j] = "running"]
      BY <1>3, <2>2 DEF Starts
    <3>2. PICK x : x = [pc |-> "begin", job |-> j, i |-> 0, mode |-> "held",
                        chunk |-> [version |-> registry[j.zone], whole |-> TRUE]]
      OBVIOUS
    <3>3. PICK t \in Stager : stager[t] = Idle /\ stager' = [stager EXCEPT ![t] = x]
      BY <1>3, <2>2, <3>2, Zenon DEF Starts
    <3>4. /\ x \in AtWork /\ x.pc = "begin" /\ x.job = j /\ x.i = 0 /\ x.mode = "held"
          /\ x.chunk.whole
      <4>1. j.zone \in Zone /\ registry[j.zone] \in Version
        BY RowFacts DEF TypeOK
      <4>2. [version |-> registry[j.zone], whole |-> TRUE] \in Chunk
        BY <4>1, ChunkFacts
      <4> QED
        BY <3>2, <4>2, ConstantFacts DEF AtWork, StagerPc, StagerMode
    <3>5. IF t = s THEN stager'[s] = x ELSE stager'[s] = stager[s]
      BY <3>3 DEF TypeOK
    <3> QED
      BY <1>3, <3>1, <3>3, <3>4, <3>5 DEF Enters
  <2> QED
    BY <2>1, <2>2
<1>4. ASSUME NEW j \in Job, TimesOut(j) PROVE Kept(s)
  <2>1. CASE Holds(s, j) /\ ~InContainer(j)
    <3>1. stager'[s] = [stager[s] EXCEPT !.mode = "adrift"]
      BY <1>4, <2>1 DEF TimesOut
    <3>2. stager[s] \in AtWork /\ stager[s].job = j /\ "adrift" \in StagerMode
      BY <2>1, StagerFacts DEF Holds, StagerMode
    <3>3. /\ stager'[s] \in AtWork /\ stager'[s].pc = stager[s].pc
          /\ stager'[s].job = stager[s].job /\ stager'[s].chunk = stager[s].chunk
          /\ stager'[s].i = stager[s].i /\ stager'[s].mode = "adrift"
      BY <3>1, <3>2, StagerChange
    <3> QED
      BY <2>1, <3>2, <3>3, AtWorkIsNotIdle DEF Kept
  <2>2. CASE ~(Holds(s, j) /\ ~InContainer(j))
    BY <1>1, <1>4, <2>2 DEF TimesOut
  <2> QED
    BY <2>1, <2>2
<1>5. ASSUME NEW j \in Job, WorkflowStep(j) \/ WorkflowFails(j) \/ Restarts(j)
      PROVE  stager' = stager \/ Starts(j) \/ ContainerStops(j)
  BY <1>5 DEF WorkflowStep, Claims, Watches, Finishes, Announces, Settles, Releases, Fails,
              WorkflowFails, Restarts
<1>6. ASSUME NEW j \in Job, ContainerDies(j) \/ Reaps(j)
      PROVE  ContainerStops(j)
  BY <1>6 DEF ContainerDies, Reaps
<1>7. ASSUME NEW t \in Stager, StagerStep(t)
      PROVE  Kept(s) \/ Advances(s)
  <2>1. CASE t = s
    BY <1>7, <2>1, StagerAdvances DEF Kept
  <2>2. CASE t # s
    BY <1>1, <1>7, <2>2, OthersStay
  <2> QED
    BY <2>1, <2>2
<1>8. ASSUME NEW t \in Stager, BreaksOff(t)
      PROVE  Kept(s) \/ Breaks(s)
  <2>1. CASE t = s
    <3>1. stager[s].pc = "append" /\ InContainer(stager[s].job) /\ stager[s] \in AtWork
          /\ stager[s] # Idle
      BY <1>8, <2>1, StagerFacts DEF BreaksOff, Idle
    <3>2. stager'[s] = [stager[s] EXCEPT !.chunk.whole = FALSE]
      <4>1. StagerGoes(s, [stager[s] EXCEPT !.chunk.whole = FALSE])
        BY <1>8, <2>1 DEF BreaksOff
      <4>2. PICK y : y = [stager[s] EXCEPT !.chunk.whole = FALSE]
        OBVIOUS
      <4>3. stager' = [stager EXCEPT ![s] = y]
        BY <4>1, <4>2, Zenon DEF StagerGoes
      <4>4. stager'[s] = y
        BY <4>3 DEF TypeOK
      <4> QED
        BY <4>2, <4>4, Zenon
    <3>3. /\ stager'[s] \in AtWork /\ stager'[s].pc = stager[s].pc
          /\ stager'[s].job = stager[s].job /\ stager'[s].i = stager[s].i
          /\ stager'[s].chunk = [version |-> stager[s].chunk.version, whole |-> FALSE]
          /\ stager'[s].mode = stager[s].mode
      BY <3>1, <3>2, StagerChunk
    <3> QED
      BY <3>1, <3>3 DEF Breaks
  <2>2. CASE t # s
    BY <1>1, <1>8, <2>2, OthersStay
  <2> QED
    BY <2>1, <2>2
<1>9. ASSUME NEW t \in Stager, StagerThrows(t)
      PROVE  Kept(s)
  <2>1. CASE t = s
    BY <1>9, <2>1 DEF StagerThrows, Ends, StagerGoes, Kept, TypeOK
  <2>2. CASE t # s
    BY <1>1, <1>9, <2>2, OthersStay
  <2> QED
    BY <2>1, <2>2
<1>10. ASSUME NEW t \in Stager, AnswerIsLost(t)
       PROVE  Kept(s)
  <2>1. CASE t = s
    <3>1. stager[s] \in AtWork /\ stager[s] # Idle /\ "call" \in StagerMode
      BY <1>10, <2>1, StagerFacts DEF AnswerIsLost, Idle, StagerMode
    <3>2. stager'[s] = [stager[s] EXCEPT !.mode = "call"]
      BY <1>10, <2>1 DEF AnswerIsLost, StagerGoes, TypeOK
    <3>3. /\ stager'[s] \in AtWork /\ stager'[s].pc = stager[s].pc
          /\ stager'[s].job = stager[s].job /\ stager'[s].chunk = stager[s].chunk
          /\ stager'[s].i = stager[s].i /\ stager'[s].mode = "call"
      BY <3>1, <3>2, StagerChange
    <3>4. InContainer(stager[s].job) /\ stager[s].job \in outlived'
      BY <1>10, <2>1 DEF AnswerIsLost
    <3> QED
      BY <3>1, <3>3, <3>4, AtWorkIsNotIdle DEF Kept
  <2>2. CASE t # s
    BY <1>1, <1>10, <2>2, OthersStay
  <2> QED
    BY <2>1, <2>2
<1>11. ASSUME NEW t \in Stager, NEW r \in Stager, PostsAgain(t, r)
       PROVE  s = t \/ s = r \/ Kept(s)
  BY <1>1, <1>11, Copies
<1>12. ASSUME Midnight \/ (\E z \in Zone : FileChanges(z)) \/ UNCHANGED vars
       PROVE  stager' = stager
  BY <1>12 DEF Midnight, FileChanges, vars
<1> QED
  BY <1>1, <1>2, <1>3, <1>4, <1>5, <1>6, <1>7, <1>8, <1>9, <1>10, <1>11, <1>12, StopsKeep
     DEF Next, StagerFailure

\* What is written by whom.
LEMMA WhoWrites ==
    ASSUME TypeOK, [Next]_vars
    PROVE  /\ config' = config /\ outlived \subseteq outlived'
           /\ announced' = announced \/ \E j \in Job : Announces(j)
           /\ row' = row \/ \E s \in Stager : Writes(s)
           /\ object' = object \/ \E s \in Stager : Puts(s)
<1>1. ASSUME NEW c \in Cron, (\E z \in Zone : CronReads(c, z)) \/ CronStep(c) \/ CronDies(c)
      PROVE  UNCHANGED <<config, outlived, announced, row, object>>
  BY <1>1 DEF CronReads, CronStep, CronInserts, CronCreates, CronUncreates, CronMarks, CronDies,
              CronTo, CronGoes, world, chunks
<1>2. ASSUME NEW j \in Job, ContainerStops(j) PROVE outlived \subseteq outlived'
  BY <1>2 DEF ContainerStops
<1>3. ASSUME NEW j \in Job, WorkflowStep(j) \/ TimesOut(j) \/ WorkflowFails(j) \/ Restarts(j)
      PROVE  /\ UNCHANGED <<config, row, object>> /\ outlived \subseteq outlived'
             /\ announced' = announced \/ Announces(j)
  BY <1>2, <1>3
     DEF WorkflowStep, Claims, Starts, Watches, Finishes, Announces, Settles, Releases, Fails,
         TimesOut, WorkflowFails, Restarts, WorkflowGoes, world, chunks
<1>4. ASSUME NEW j \in Job, ContainerDies(j) \/ Reaps(j)
      PROVE  UNCHANGED <<config, announced, row, object>> /\ outlived \subseteq outlived'
  BY <1>2, <1>4 DEF ContainerDies, Reaps, world, chunks
<1>5. ASSUME NEW s \in Stager, NEW at, StagerGoes(s, at)
      PROVE  UNCHANGED <<config, announced>>
  BY <1>5 DEF StagerGoes, world
<1>6. ASSUME NEW s \in Stager, StagerStep(s)
      PROVE  /\ UNCHANGED <<config, announced>> /\ outlived' = outlived
             /\ row' = row \/ Writes(s)
             /\ object' = object \/ Puts(s)
  <2>1. \E at : StagerGoes(s, at)
    BY <1>6 DEF StagerStep, Begins, Marks, Appends, Puts, Writes, Completes, Stages, StagerTo,
                Ends, Returns, NextChunk
  <2>2. UNCHANGED <<config, announced>>
    BY <1>5, <2>1
  <2>3. outlived' = outlived /\ (row' = row \/ Writes(s)) /\ (object' = object \/ Puts(s))
    BY <1>6 DEF StagerStep, Begins, Marks, Appends, Puts, Writes, Completes, Stages, chunks
  <2> QED
    BY <2>2, <2>3
<1>7. ASSUME NEW s \in Stager, BreaksOff(s) \/ StagerThrows(s) \/ AnswerIsLost(s)
      PROVE  UNCHANGED <<config, announced, row, object>> /\ outlived \subseteq outlived'
  BY <1>5, <1>7 DEF BreaksOff, StagerThrows, AnswerIsLost, Ends, chunks
<1>8. ASSUME NEW s \in Stager, NEW t \in Stager, PostsAgain(s, t)
      PROVE  UNCHANGED <<config, announced, row, object>> /\ outlived \subseteq outlived'
  BY <1>8 DEF PostsAgain, world, chunks
<1>9. CASE Midnight \/ (\E z \in Zone : FileChanges(z)) \/ UNCHANGED vars
  BY <1>9 DEF Midnight, FileChanges, vars, chunks
<1> QED
  BY <1>1, <1>3, <1>4, <1>6, <1>7, <1>8, <1>9 DEF Next, StagerFailure

LEMMA ContainersStay ==
    ASSUME TypeOK, [Next]_vars, NEW j \in Job
    PROVE  InContainer(j)' <=> InContainer(j)
BY WhoWrites DEF InContainer

\* A row, and an object, becomes the chunk of a stager or stays.
LEMMA RowMoves ==
    ASSUME TypeOK, [Next]_vars, NEW j \in Job, NEW i \in Index
    PROVE  \/ row'[j][i] = row[j][i]
           \/ \E s \in Stager : /\ Writes(s) /\ stager[s].job = j /\ stager[s].i = i
                                /\ stager[s].pc = "row" /\ stager[s] # Idle
                                /\ row'[j][i] = stager[s].chunk
<1>1. CASE row' = row
  BY <1>1
<1>2. ASSUME NEW s \in Stager, Writes(s)
      PROVE  \/ row'[j][i] = row[j][i]
             \/ /\ stager[s].job = j /\ stager[s].i = i
                /\ stager[s].pc = "row" /\ stager[s] # Idle
                /\ row'[j][i] = stager[s].chunk
  <2>1. stager[s].pc = "row"
    BY <1>2 DEF Writes
  <2>2. stager[s] # Idle /\ stager[s].job \in Job
    BY <2>1, StagerFacts
  <2>3. PICK k, n, c : k = stager[s].job /\ n = stager[s].i /\ c = stager[s].chunk
    OBVIOUS
  <2>4. row' = [row EXCEPT ![k][n] = c] /\ k \in Job
    BY <1>2, <2>2, <2>3 DEF Writes
  <2>5. row \in [Job -> [Index -> Chunk \cup {NoChunk}]]
    BY DEF TypeOK
  <2>6. row'[j][i] = IF j = k /\ i = n THEN c ELSE row[j][i]
    BY <2>4, <2>5
  <2> QED
    BY <2>1, <2>2, <2>3, <2>6
<1> QED
  BY <1>1, <1>2, WhoWrites

LEMMA ObjectMoves ==
    ASSUME TypeOK, [Next]_vars, NEW j \in Job, NEW i \in Index
    PROVE  \/ object'[j][i] = object[j][i]
           \/ \E s \in Stager : /\ Puts(s) /\ stager[s].job = j /\ stager[s].i = i
                                /\ stager[s].pc = "put" /\ stager[s] # Idle
                                /\ object'[j][i] = stager[s].chunk
<1>1. CASE object' = object
  BY <1>1
<1>2. ASSUME NEW s \in Stager, Puts(s)
      PROVE  \/ object'[j][i] = object[j][i]
             \/ /\ stager[s].job = j /\ stager[s].i = i
                /\ stager[s].pc = "put" /\ stager[s] # Idle
                /\ object'[j][i] = stager[s].chunk
  <2>1. stager[s].pc = "put"
    BY <1>2 DEF Puts
  <2>2. stager[s] # Idle /\ stager[s].job \in Job
    BY <2>1, StagerFacts
  <2>3. PICK k, n, c : k = stager[s].job /\ n = stager[s].i /\ c = stager[s].chunk
    OBVIOUS
  <2>4. object' = [object EXCEPT ![k][n] = c] /\ k \in Job
    BY <1>2, <2>2, <2>3 DEF Puts
  <2>5. object \in [Job -> [Index -> Chunk \cup {NoChunk}]]
    BY DEF TypeOK
  <2>6. object'[j][i] = IF j = k /\ i = n THEN c ELSE object[j][i]
    BY <2>4, <2>5
  <2> QED
    BY <2>1, <2>2, <2>3, <2>6
<1> QED
  BY <1>1, <1>2, WhoWrites

\* No row is taken back, and no object.
LEMMA RowsStay ==
    ASSUME TypeOK, [Next]_vars, NEW j \in Job
    PROVE  /\ Staged(j) \subseteq Staged(j)'
           /\ \A i \in Index : object[j][i] # NoChunk => object'[j][i] # NoChunk
<1>1. \A s \in Stager : stager[s] # Idle => stager[s].chunk # NoChunk
  BY StagerFacts, ChunkFacts
<1> QED
  BY <1>1, RowMoves, ObjectMoves DEF Staged

\* What a step may make of a job.
LEMMA JobMoves ==
    ASSUME TypeOK, [Next]_vars, NEW j \in Job, ~HasBegun(j) => job[j].version = None
    PROVE  /\ HasBegun(j) => HasBegun(j)'
           /\ \/ job'[j].version = job[j].version
              \/ \E s \in Stager : /\ Marks(s) /\ stager[s].job = j
                                   /\ job'[j].version = stager[s].chunk.version
           /\ job'[j].state = "staged" =>
                \/ job[j].state = "staged"
                \/ \E s \in Stager : Stages(s) /\ stager[s].job = j
           /\ job'[j].state = "complete" => job[j].state = "complete" \/ Settles(j)
           /\ job[j].state = "complete" => job'[j].state = "complete"
           /\ job[j].state = "staged" =>
                job'[j].state \in {"staged", "complete"} \/ Fails(j)
<1> DEFINE Moved ==
           /\ HasBegun(j) => HasBegun(j)'
           /\ \/ job'[j].version = job[j].version
              \/ \E s \in Stager : /\ Marks(s) /\ stager[s].job = j
                                   /\ job'[j].version = stager[s].chunk.version
           /\ job'[j].state = "staged" =>
                \/ job[j].state = "staged"
                \/ \E s \in Stager : Stages(s) /\ stager[s].job = j
           /\ job'[j].state = "complete" => job[j].state = "complete" \/ Settles(j)
           /\ job[j].state = "complete" => job'[j].state = "complete"
           /\ job[j].state = "staged" =>
                job'[j].state \in {"staged", "complete"} \/ Fails(j)
<1>1. job'[j] = job[j] => Moved
  BY DEF HasBegun
<1>2. job' = job => Moved
  BY <1>1
<1>3. ASSUME NEW c \in Cron, CronInserts(c) PROVE Moved
  <2>1. cron[c].job \in Job
    BY <1>3, CronFacts DEF CronInserts
  <2>2. CASE job[cron[c].job].state = "absent"
    <3>1. job' = [job EXCEPT ![cron[c].job].state = "queued"]
      BY <1>3, <2>2 DEF CronInserts
    <3>2. /\ job'[cron[c].job].state = "queued"
          /\ job'[cron[c].job].version = job[cron[c].job].version
          /\ j # cron[c].job => job'[j] = job[j]
      BY <2>1, <3>1, JobStates DEF Active
    <3> QED
      BY <1>1, <2>2, <3>2 DEF HasBegun
  <2>3. CASE job[cron[c].job].state # "absent"
    BY <1>2, <1>3, <2>3 DEF CronInserts
  <2> QED
    BY <2>2, <2>3
<1>4. ASSUME NEW c \in Cron, CronUncreates(c) PROVE Moved
  <2>1. cron[c].job \in Job
    BY <1>4, CronFacts DEF CronUncreates
  <2>2. CASE job[cron[c].job].state = "queued"
    <3>1. job'[cron[c].job] = NoRow /\ (j # cron[c].job => job'[j] = job[j])
      BY <1>4, <2>1, <2>2, JobGone DEF CronUncreates
    <3> QED
      BY <1>1, <2>2, <3>1 DEF HasBegun, NoRow
  <2>3. CASE job[cron[c].job].state # "queued"
    BY <1>2, <1>4, <2>3 DEF CronUncreates
  <2> QED
    BY <2>2, <2>3
<1>5. ASSUME NEW k \in Job, Claims(k) PROVE Moved
  <2>1. CASE Claimable(k)
    <3>1. job' = [job EXCEPT ![k].state = "running"]
      BY <1>5, <2>1 DEF Claims
    <3>2. /\ job'[k].state = "running" /\ job'[k].version = job[k].version
          /\ j # k => job'[j] = job[j]
      BY <3>1, JobStates DEF Active
    <3> QED
      BY <1>1, <2>1, <3>2 DEF HasBegun, Claimable
  <2>2. CASE ~Claimable(k)
    BY <1>2, <1>5, <2>2 DEF Claims
  <2> QED
    BY <2>1, <2>2
<1>6. ASSUME NEW k \in Job, Settles(k) PROVE Moved
  <2>1. /\ job'[k].state = "complete" /\ job'[k].version = job[k].version
        /\ j # k => job'[j] = job[j]
    BY <1>6, JobStates DEF Settles
  <2> QED
    BY <1>1, <1>6, <2>1 DEF HasBegun
<1>7. ASSUME NEW k \in Job, Fails(k) PROVE Moved
  <2>1. CASE Failable(k)
    <3>1. job' = [job EXCEPT ![k].state = "failed"]
      BY <1>7, <2>1 DEF Fails
    <3>2. /\ job'[k].state = "failed" /\ job'[k].version = job[k].version
          /\ j # k => job'[j] = job[j]
      BY <3>1, JobStates
    <3> QED
      BY <1>1, <1>7, <2>1, <3>2 DEF HasBegun, Failable
  <2>2. CASE ~Failable(k)
    BY <1>2, <1>7, <2>2 DEF Fails
  <2> QED
    BY <2>1, <2>2
<1>8. ASSUME NEW s \in Stager, Marks(s) PROVE Moved
  <2>1. stager[s].pc = "mark"
    BY <1>8 DEF Marks
  <2>2. stager[s].job \in Job /\ stager[s].chunk \in Chunk
    BY <2>1, StagerFacts
  <2>3. CASE job[stager[s].job].state # "absent"
    <3>1. job' = [job EXCEPT ![stager[s].job].version = stager[s].chunk.version]
      BY <1>8, <2>3 DEF Marks
    <3>2. /\ job'[stager[s].job].version = stager[s].chunk.version
          /\ job'[stager[s].job].state = job[stager[s].job].state
          /\ j # stager[s].job => job'[j] = job[j]
      <4>1. stager[s].chunk.version \in Version
        BY <2>2, ChunkFacts
      <4> QED
        BY <2>2, <3>1, <4>1, JobVersions
    <3> QED
      BY <1>1, <1>8, <3>2 DEF HasBegun
  <2>4. CASE job[stager[s].job].state = "absent"
    BY <1>2, <1>8, <2>4 DEF Marks
  <2> QED
    BY <2>3, <2>4
<1>9. ASSUME NEW s \in Stager, Stages(s) PROVE Moved
  <2>1. stager[s].pc = "settle"
    BY <1>9 DEF Stages
  <2>2. stager[s].job \in Job
    BY <2>1, StagerFacts
  <2>3. CASE job[stager[s].job].state = "running"
    <3>1. job' = [job EXCEPT ![stager[s].job].state = "staged"]
      BY <1>9, <2>3 DEF Stages
    <3>2. /\ job'[stager[s].job].state = "staged"
          /\ job'[stager[s].job].version = job[stager[s].job].version
          /\ j # stager[s].job => job'[j] = job[j]
      BY <2>2, <3>1, JobStates DEF Active
    <3> QED
      BY <1>1, <1>9, <2>3, <3>2 DEF HasBegun
  <2>4. CASE job[stager[s].job].state # "running"
    BY <1>2, <1>9, <2>4 DEF Stages
  <2> QED
    BY <2>3, <2>4
<1> HIDE DEF Moved
<1>10. ASSUME NEW c \in Cron, (\E z \in Zone : CronReads(c, z)) \/ CronStep(c) \/ CronDies(c)
       PROVE  Moved
  BY <1>2, <1>3, <1>4, <1>10 DEF CronReads, CronStep, CronCreates, CronMarks, CronDies
<1>11. ASSUME NEW k \in Job, WorkflowStep(k) \/ TimesOut(k) \/ WorkflowFails(k) \/ Restarts(k)
       PROVE  Moved
  BY <1>2, <1>5, <1>6, <1>7, <1>11
     DEF WorkflowStep, Starts, Watches, Finishes, Announces, Releases, TimesOut, WorkflowFails,
         Restarts
<1>12. ASSUME NEW s \in Stager, StagerStep(s) \/ StagerFailure(s)
       PROVE  Moved
  BY <1>2, <1>8, <1>9, <1>12
     DEF StagerStep, StagerFailure, Begins, Appends, Puts, Writes, Completes, BreaksOff,
         StagerThrows, AnswerIsLost, PostsAgain
<1>13. ASSUME \/ \E k \in Job : ContainerDies(k) \/ Reaps(k)
              \/ Midnight \/ (\E z \in Zone : FileChanges(z)) \/ UNCHANGED vars
       PROVE  Moved
  BY <1>2, <1>13 DEF ContainerDies, Reaps, Midnight, FileChanges, vars
<1>14. Moved
  BY <1>10, <1>11, <1>12, <1>13 DEF Next
<1> QED
  BY <1>14 DEF Moved
-----------------------------------------------------------------------------
(* The invariant is kept: stagers *)

\* What a step leaves to all who go on.
LEMMA Persists ==
    ASSUME CzdsInv, [Next]_vars, NEW j \in Job
    PROVE  /\ HasBegun(j) => HasBegun(j)'
           /\ job[j].version # None => job'[j].version = job[j].version
           /\ Staged(j) \subseteq Staged(j)' /\ Staged(j)' \subseteq Index
           /\ \A i \in Index : object[j][i] # NoChunk => object'[j][i] # NoChunk
           /\ InContainer(j)' <=> InContainer(j)
           /\ j \in outlived => j \in outlived'
<1>1. TypeOK /\ FileIsOne(j)
  BY DEF CzdsInv
<1>2. \A s \in Stager : Marks(s) /\ stager[s].job = j =>
        job[j].version \in {None, stager[s].chunk.version}
  <2>1. \A s \in Stager : Marks(s) => stager[s].pc = "mark"
    BY DEF Marks
  <2>2. \A s \in Stager : stager[s].pc = "mark" => stager[s] # Idle
    BY DEF Idle
  <2> QED
    BY <2>1, <2>2 DEF CzdsInv, StagersAreRight, StagerFollows
<1>3. HasBegun(j) => HasBegun(j)'
  BY <1>1, JobMoves DEF FileIsOne
<1>4. job[j].version # None => job'[j].version = job[j].version
  BY <1>1, <1>2, JobMoves DEF FileIsOne
<1>5. Staged(j)' \subseteq Index
  BY DEF Staged
<1> QED
  BY <1>1, <1>3, <1>4, <1>5, RowsStay, ContainersStay, WhoWrites

LEMMA StagerHasVersion ==
    ASSUME TypeOK, NEW s \in Stager, stager[s] # Idle
    PROVE  stager[s].job \in Job /\ stager[s].chunk.version # None
           /\ stager[s].chunk.version \in Version
BY StagerFacts, ChunkFacts

\* Of the stagers of a job, one at a time comes to mark it.
LEMMA OneMarks ==
    ASSUME CzdsInv, OneBegins, [Next]_vars, NEW s \in Stager, NEW t \in Stager,
           stager'[s] # Idle, stager'[s].pc = "mark",
           stager'[t] # Idle, stager'[t].pc = "mark", stager'[t].job = stager'[s].job
    PROVE  t = s
<1>1. TypeOK
  BY DEF CzdsInv
<1>2. ASSUME NEW r \in Stager, stager'[r] # Idle, stager'[r].pc = "mark"
      PROVE  /\ stager[r] # Idle /\ stager'[r].job = stager[r].job
             /\ stager[r].pc = "mark" \/ Begins(r)
  <2>1. CASE Kept(r)
    BY <1>2, <2>1 DEF Kept
  <2>2. CASE Advances(r)
    BY <1>2, <2>2 DEF Advances
  <2>3. CASE Breaks(r)
    BY <1>2, <2>3 DEF Breaks
  <2>4. CASE \E q \in Stager : PostsAgain(r, q) \/ PostsAgain(q, r)
    BY <1>1, <1>2, <2>4, Copies
  <2>5. CASE \E j \in Job : Enters(r, j)
    BY <1>2, <2>5 DEF Enters
  <2> QED
    BY <1>1, <2>1, <2>2, <2>3, <2>4, <2>5, WhoMoves
<1>3. /\ stager[s] # Idle /\ stager[t] # Idle /\ stager[t].job = stager[s].job
      /\ stager[s].pc = "mark" \/ Begins(s)
      /\ stager[t].pc = "mark" \/ Begins(t)
  BY <1>2
<1>4. ASSUME NEW r \in Stager, NEW q \in Stager, Begins(r), stager[q].pc = "mark",
             stager[q].job = stager[r].job
      PROVE  FALSE
  BY <1>4 DEF Begins
<1>5. CASE Begins(s) /\ Begins(t)
  <2>1. stager[s].pc = "begin" /\ stager[t].pc = "begin"
    BY <1>5 DEF Begins
  <2>2. \A r \in Stager : r # s => stager'[r] = stager[r]
    BY <1>1, <1>5, OthersStay DEF StagerStep
  <2> QED
    BY <2>1, <2>2
<1>6. CASE stager[s].pc = "mark" /\ stager[t].pc = "mark"
  BY <1>3, <1>6 DEF CzdsInv, StagersAreRight, StagerFollows, At
<1> QED
  BY <1>3, <1>4, <1>5, <1>6

\* What a stager relies on stays while others go on.
LEMMA KeptFollows ==
    ASSUME CzdsInv, OneBegins, [Next]_vars, NEW s \in Stager, stager[s] # Idle,
           stager'[s] # Idle, stager'[s].job = stager[s].job, stager'[s].pc = stager[s].pc,
           stager'[s].chunk.version = stager[s].chunk.version, stager'[s].i = stager[s].i
    PROVE  StagerFollows(s)'
<1>1. TypeOK /\ StagerFollows(s)
  BY DEF CzdsInv, StagersAreRight
<1>2. PICK j \in Job : j = stager[s].job
  BY <1>1, StagerFacts
<1>3. stager[s].chunk.version # None
  BY <1>1, StagerHasVersion
<1>4. HasBegun(j)'
  BY <1>1, <1>2, Persists DEF StagerFollows
<1>5. ASSUME stager[s].pc = "mark"
      PROVE  job'[j].version \in {None, stager[s].chunk.version}
  <2>1. job[j].version \in {None, stager[s].chunk.version} /\ FileIsOne(j)
    BY <1>1, <1>2, <1>5 DEF StagerFollows, CzdsInv
  <2>2. ASSUME NEW t \in Stager, Marks(t), stager[t].job = j
        PROVE  FALSE
    <3>1. stager[t].pc = "mark" /\ stager[t] # Idle
      BY <2>2 DEF Marks, Idle
    <3>2. t = s
      BY <1>1, <1>2, <1>5, <2>2, <3>1 DEF StagerFollows, At
    <3>3. Advances(s)
      BY <1>1, <2>2, <3>2, StagerAdvances DEF StagerStep
    <3> QED
      BY <1>5, <2>2, <3>2, <3>3 DEF Advances, Begins, Appends, Puts, Writes, Completes
  <2> QED
    BY <1>1, <2>1, <2>2, JobMoves DEF FileIsOne
<1>6. stager[s].pc \notin {"begin", "mark"} => job'[j].version = stager[s].chunk.version
  BY <1>1, <1>2, <1>3, Persists DEF StagerFollows
<1>7. stager[s].pc = "row" => stager[s].i \in Index /\ object'[j][stager[s].i] # NoChunk
  BY <1>1, <1>2, Persists DEF StagerFollows
<1>8. stager[s].pc = "settle" => Staged(j)' = Index
  BY <1>1, <1>2, Persists DEF StagerFollows
<1>9. stager[s].pc \notin {"complete", "settle"} => stager[s].i \in Index
  BY <1>1 DEF StagerFollows
<1>10. stager[s].pc = "mark" =>
         \A t \in Stager : At(t, j)' /\ stager'[t].pc = "mark" => t = s
  BY <1>2, OneMarks DEF At
<1> QED
  BY <1>2, <1>4, <1>5, <1>6, <1>7, <1>8, <1>9, <1>10 DEF StagerFollows

LEMMA FollowStep ==
    ASSUME CzdsInv, OneBegins, [Next]_vars, NEW s \in Stager, stager'[s] # Idle
    PROVE  StagerFollows(s)'
<1>1. TypeOK
  BY DEF CzdsInv
<1>2. CASE Kept(s)
  BY <1>2, KeptFollows DEF Kept
<1>3. CASE Breaks(s)
  BY <1>3, KeptFollows DEF Breaks
<1>4. ASSUME NEW t \in Stager, PostsAgain(t, s)
      PROVE  StagerFollows(s)'
  <2>1. /\ stager[t] # Idle /\ stager'[s].pc = stager[t].pc /\ stager'[s].job = stager[t].job
        /\ stager'[s].chunk = stager[t].chunk /\ stager'[s].i = stager[t].i
        /\ stager[t].pc \in {"put", "row"}
    BY <1>1, <1>4, Copies, AtWorkIsNotIdle
  <2>2. StagerFollows(t)
    BY <2>1 DEF CzdsInv, StagersAreRight
  <2>3. PICK j \in Job : j = stager[t].job
    BY <1>1, <2>1, StagerFacts
  <2>4. stager[t].chunk.version # None
    BY <1>1, <2>1, StagerHasVersion
  <2> QED
    BY <2>1, <2>2, <2>3, <2>4, Persists DEF StagerFollows
<1>5. ASSUME NEW t \in Stager, PostsAgain(s, t)
      PROVE  StagerFollows(s)'
  <2>1. /\ stager[s] # Idle /\ stager'[s].pc = "append" /\ stager'[s].job = stager[s].job
        /\ stager'[s].chunk = stager[s].chunk /\ stager'[s].i = stager[s].i
        /\ stager[s].pc \in {"put", "row"}
    BY <1>1, <1>5, Copies, AtWorkIsNotIdle
  <2>2. StagerFollows(s)
    BY <2>1 DEF CzdsInv, StagersAreRight
  <2>3. PICK j \in Job : j = stager[s].job
    BY <1>1, <2>1, StagerFacts
  <2>4. stager[s].chunk.version # None
    BY <1>1, <2>1, StagerHasVersion
  <2> QED
    BY <2>1, <2>2, <2>3, <2>4, Persists DEF StagerFollows
<1>6. ASSUME NEW j \in Job, Enters(s, j)
      PROVE  StagerFollows(s)'
  <2>1. /\ job' = job /\ job[j].state = "running" /\ stager'[s].job = j
        /\ stager'[s].pc = "begin" /\ stager'[s].i \in Index
    BY <1>6, ConstantFacts DEF Enters, Starts
  <2> QED
    BY <2>1 DEF StagerFollows, HasBegun
<1>7. CASE Advances(s)
  <2>1. /\ stager[s] # Idle /\ stager'[s].job = stager[s].job
        /\ stager'[s].chunk = stager[s].chunk
    BY <1>7 DEF Advances
  <2>2. StagerFollows(s)
    BY <2>1 DEF CzdsInv, StagersAreRight
  <2>3. PICK j \in Job : j = stager[s].job
    BY <1>1, <2>1, StagerFacts
  <2>4. stager[s].chunk.version # None
    BY <1>1, <2>1, StagerHasVersion
  <2>5. HasBegun(j)'
    BY <2>2, <2>3, Persists DEF StagerFollows
  <2>6. CASE Begins(s) /\ MayBegin(s) /\ stager'[s].pc = "mark" /\ stager'[s].i = stager[s].i
             /\ stager[s].pc = "begin"
    <3>1. job' = job /\ job[j].version \in {None, stager[s].chunk.version}
      BY <2>3, <2>6 DEF Begins, MayBegin
    <3>2. \A t \in Stager : At(t, j)' /\ stager'[t].pc = "mark" => t = s
      BY <2>1, <2>3, <2>6, OneMarks DEF At
    <3> QED
      BY <2>1, <2>2, <2>3, <2>5, <2>6, <3>1, <3>2 DEF StagerFollows
  <2>7. CASE Marks(s) /\ stager'[s].pc = "append" /\ stager'[s].i = stager[s].i
             /\ stager[s].pc = "mark"
    <3>1. job' = [job EXCEPT ![j].version = stager[s].chunk.version]
      BY <2>2, <2>3, <2>7 DEF Marks, StagerFollows, HasBegun
    <3>2. stager[s].chunk.version \in Version
      BY <1>1, <2>1, StagerHasVersion
    <3>3. job'[j].version = stager[s].chunk.version
      BY <1>1, <3>1, <3>2, JobVersions
    <3> QED
      BY <2>1, <2>2, <2>3, <2>5, <2>7, <3>3 DEF StagerFollows
  <2>8. CASE stager[s].pc = "append" /\ stager'[s].pc = "put" /\ stager'[s].i = stager[s].i
    BY <2>1, <2>2, <2>3, <2>4, <2>5, <2>8, Persists DEF StagerFollows
  <2>9. CASE Puts(s) /\ stager[s].pc = "put" /\ stager'[s].pc = "row"
             /\ stager'[s].i = stager[s].i
    <3>1. object'[j][stager[s].i] # NoChunk
      <4>1. PICK k, n, c : k = stager[s].job /\ n = stager[s].i /\ c = stager[s].chunk
        OBVIOUS
      <4>2. object' = [object EXCEPT ![k][n] = c] /\ n \in Index /\ k = j
        BY <2>2, <2>3, <2>9, <4>1 DEF Puts, StagerFollows
      <4>3. object'[j][n] = c
        BY <1>1, <4>2 DEF TypeOK
      <4>4. c # NoChunk
        BY <1>1, <2>1, <4>1, StagerFacts, ChunkFacts
      <4> QED
        BY <4>1, <4>3, <4>4
    <3> QED
      BY <2>1, <2>2, <2>3, <2>4, <2>5, <2>9, <3>1, Persists DEF StagerFollows
  <2>10. CASE /\ stager[s].pc \in {"append", "row"}
              /\ \/ stager'[s].pc = "append" /\ stager'[s].i \in Index
                 \/ stager'[s].pc = "complete"
    BY <2>1, <2>2, <2>3, <2>4, <2>5, <2>10, Persists DEF StagerFollows
  <2>11. CASE /\ CountsMatch(stager[s].job) /\ stager[s].pc = "complete"
              /\ stager'[s].pc = "settle"
    <3>1. Staged(j) = Index
      BY <2>3, <2>11 DEF CountsMatch
    <3> QED
      BY <2>1, <2>2, <2>3, <2>4, <2>5, <2>11, <3>1, Persists DEF StagerFollows
  <2> QED
    BY <1>7, <2>6, <2>7, <2>8, <2>9, <2>10, <2>11 DEF Advances
<1> QED
  BY <1>1, <1>2, <1>3, <1>4, <1>5, <1>6, <1>7, WhoMoves

\* A stager that its Workflow waits for was waited for before, or has just begun.
LEMMA HeldBefore ==
    ASSUME TypeOK, [Next]_vars, NEW s \in Stager, NEW j \in Job, Holds(s, j)'
    PROVE  Holds(s, j) \/ Enters(s, j)
<1>1. stager'[s] # Idle /\ stager'[s].job = j /\ stager'[s].mode = "held"
  BY DEF Holds
<1>2. CASE Kept(s)
  BY <1>1, <1>2 DEF Kept, Holds
<1>3. CASE Advances(s)
  BY <1>1, <1>3 DEF Advances, Holds
<1>4. CASE Breaks(s)
  BY <1>1, <1>4 DEF Breaks, Holds
<1>5. ASSUME NEW t \in Stager, PostsAgain(s, t) \/ PostsAgain(t, s)
      PROVE  Holds(s, j)
  BY <1>1, <1>5, Copies, AtWorkIsNotIdle DEF Holds
<1>6. ASSUME NEW k \in Job, Enters(s, k)
      PROVE  Enters(s, j)
  BY <1>1, <1>6 DEF Enters
<1> QED
  BY <1>2, <1>3, <1>4, <1>5, <1>6, WhoMoves

\* A container counts as running until its stager has ended.
LEMMA ParserMoves ==
    ASSUME TypeOK, [Next]_vars, NEW j \in Job, parser[j] = "running"
    PROVE  \/ parser'[j] = "running"
           \/ \A s \in Stager : ~Holds(s, j)'
           \/ \E s \in Stager : Holds(s, j) /\ ~Holds(s, j)'
<1> DEFINE Told == \/ parser'[j] = "running"
                   \/ \A s \in Stager : ~Holds(s, j)'
                   \/ \E s \in Stager : Holds(s, j) /\ ~Holds(s, j)'
<1>1. parser' = parser => Told
  OBVIOUS
<1>2. ASSUME NEW k \in Job, ContainerStops(k) PROVE Told
  <2>1. CASE k = j
    BY <1>2, <2>1, StopsKeep
  <2>2. CASE k # j
    BY <1>2, <2>2 DEF ContainerStops, TypeOK
  <2> QED
    BY <2>1, <2>2
<1>3. ASSUME NEW s \in Stager, NEW how, Ends(s, how), stager[s] # Idle PROVE Told
  <2>1. stager'[s] = Idle
    BY <1>3 DEF Ends, StagerGoes, TypeOK
  <2>2. CASE stager[s].mode = "held" /\ stager[s].job = j
    BY <1>3, <2>1, <2>2 DEF Holds
  <2>3. CASE ~(stager[s].mode = "held" /\ stager[s].job = j)
    BY <1>3, <2>3 DEF Ends, TypeOK
  <2> QED
    BY <2>2, <2>3
<1>4. ASSUME NEW s \in Stager, AnswerIsLost(s) PROVE Told
  <2>1. /\ stager[s] # Idle /\ stager[s] \in AtWork
        /\ stager[s].mode = "held" /\ "call" \in StagerMode
    BY <1>4, StagerFacts DEF AnswerIsLost, Idle, StagerMode
  <2>2. stager'[s] = [stager[s] EXCEPT !.mode = "call"]
    BY <1>4 DEF AnswerIsLost, StagerGoes, TypeOK
  <2>3. stager'[s].mode = "call"
    BY <2>1, <2>2, StagerChange
  <2>4. CASE stager[s].job = j
    BY <2>1, <2>3, <2>4 DEF Holds
  <2>5. CASE stager[s].job # j
    BY <1>4, <2>5 DEF AnswerIsLost, TypeOK
  <2> QED
    BY <2>4, <2>5
<1>5. ASSUME NEW k \in Job, Starts(k) PROVE Told
  BY <1>5 DEF Starts, TypeOK
<1> HIDE DEF Told
<1>6. ASSUME NEW c \in Cron, (\E z \in Zone : CronReads(c, z)) \/ CronStep(c) \/ CronDies(c)
      PROVE  Told
  BY <1>1, <1>6 DEF CronReads, CronStep, CronInserts, CronCreates, CronUncreates, CronMarks,
                    CronDies, CronTo, CronGoes
<1>7. ASSUME NEW k \in Job, WorkflowStep(k) \/ TimesOut(k) \/ WorkflowFails(k) \/ Restarts(k)
      PROVE  Told
  BY <1>1, <1>2, <1>5, <1>7
     DEF WorkflowStep, Claims, Watches, Finishes, Announces, Settles, Releases, Fails, TimesOut,
         WorkflowFails, Restarts
<1>8. ASSUME NEW k \in Job, ContainerDies(k) \/ Reaps(k) PROVE Told
  BY <1>2, <1>8 DEF ContainerDies, Reaps
<1>9. ASSUME NEW s \in Stager, StagerStep(s) \/ StagerThrows(s) PROVE Told
  <2>1. stager[s] # Idle
    BY <1>9 DEF StagerStep, StagerThrows, Begins, Marks, Appends, Puts, Writes, Completes, Stages,
                Idle
  <2>2. parser' = parser \/ \E how : Ends(s, how)
    BY <1>9 DEF StagerStep, StagerThrows, Begins, Marks, Appends, Puts, Writes, Completes, Stages,
                StagerTo, Returns, NextChunk
  <2> QED
    BY <1>1, <1>3, <2>1, <2>2
<1>10. ASSUME NEW s \in Stager, BreaksOff(s) PROVE Told
  BY <1>1, <1>10 DEF BreaksOff
<1>11. ASSUME NEW s \in Stager, NEW t \in Stager, PostsAgain(s, t) PROVE Told
  BY <1>1, <1>11 DEF PostsAgain
<1>12. ASSUME Midnight \/ (\E z \in Zone : FileChanges(z)) \/ UNCHANGED vars PROVE Told
  BY <1>1, <1>12 DEF Midnight, FileChanges, vars
<1>13. Told
  BY <1>4, <1>6, <1>7, <1>8, <1>9, <1>10, <1>11, <1>12 DEF Next, StagerFailure
<1> QED
  BY <1>13 DEF Told

\* A container has one stager at a time.
LEMMA ContainerStays ==
    ASSUME CzdsInv, [Next]_vars, NEW s \in Stager, NEW j \in Job, InContainer(j), Holds(s, j)'
    PROVE  parser'[j] = "running" /\ \A t \in Stager : Holds(t, j)' => t = s
<1>1. TypeOK
  BY DEF CzdsInv
<1>2. ASSUME NEW t \in Stager, Holds(t, j)
      PROVE  parser[j] = "running" /\ \A r \in Stager : Holds(r, j) => r = t
  <2>1. StagerIsInMode(t) /\ stager[t].job = j /\ stager[t].mode = "held"
    BY <1>2 DEF CzdsInv, StagersAreRight, Holds
  <2> QED
    BY <2>1 DEF StagerIsInMode
<1>3. CASE Holds(s, j)
  <2>1. parser[j] = "running" /\ \A r \in Stager : Holds(r, j) => r = s
    BY <1>2, <1>3
  <2>2. \A t \in Stager : ~Enters(t, j)
    BY <2>1 DEF Enters
  <2> QED
    BY <1>1, <2>1, <2>2, HeldBefore, ParserMoves
<1>4. CASE Enters(s, j)
  <2>1. parser[j] # "running" /\ parser' = [parser EXCEPT ![j] = "running"]
    BY <1>4 DEF Enters
  <2>2. \A t \in Stager : ~Holds(t, j)
    BY <1>2, <2>1
  <2>3. ASSUME NEW t \in Stager, Holds(t, j)', t # s PROVE FALSE
    <3>1. Enters(t, j)
      BY <1>1, <2>2, <2>3, HeldBefore
    <3>2. Starts(j) /\ job[j].state = "running"
          /\ ~(InContainer(j) /\ parser[j] \in {"running", "staged"})
      BY <1>4 DEF Enters
    <3>3. stager[s] = Idle /\ stager[t] = Idle /\ stager'[s] # Idle /\ stager'[t] # Idle
      BY <1>4, <3>1, AtWorkIsNotIdle DEF Enters
    <3>4. PICK x : x = [pc |-> "begin", job |-> j, i |-> 0, mode |-> "held",
                        chunk |-> [version |-> registry[j.zone], whole |-> TRUE]]
      OBVIOUS
    <3>5. PICK r \in Stager : stager' = [stager EXCEPT ![r] = x]
      <4>1. stager' # stager
        BY <3>3
      <4> QED
        BY <3>2, <3>4, <4>1, Zenon DEF Starts
    <3> QED
      BY <1>1, <2>3, <3>3, <3>5 DEF TypeOK
  <2> QED
    BY <1>1, <2>1, <2>3 DEF TypeOK
<1> QED
  BY <1>1, <1>3, <1>4, HeldBefore

LEMMA ModeStep ==
    ASSUME CzdsInv, [Next]_vars, NEW s \in Stager, stager'[s] # Idle
    PROVE  StagerIsInMode(s)'
<1>1. TypeOK
  BY DEF CzdsInv
<1>2. TypeOK'
  BY <1>1, TypeStep
<1>3. PICK j \in Job : j = stager'[s].job
  <2>1. stager'[s].job \in Job
    BY <1>2 DEF TypeOK, StagerJob, Idle
  <2> QED
    BY <2>1
<1>4. InContainer(j)' <=> InContainer(j)
  BY <1>1, ContainersStay
<1>5. InContainer(j) /\ stager'[s].mode = "held" =>
        parser'[j] = "running" /\ \A t \in Stager : Holds(t, j)' => t = s
  BY <1>3, ContainerStays DEF Holds
<1>6. \/ /\ stager[s] # Idle /\ stager[s].job = j /\ stager'[s].mode = stager[s].mode
         /\ stager'[s].chunk = stager[s].chunk \/ InContainer(j)
      \/ /\ stager[s] # Idle /\ stager[s].job = j /\ stager'[s].mode = "adrift"
         /\ ~InContainer(j) /\ stager'[s].chunk = stager[s].chunk
      \/ InContainer(j) /\ stager'[s].mode = "call" /\ j \in outlived'
      \/ stager'[s].mode = "held" /\ stager'[s].chunk.whole
  <2>1. CASE Kept(s)
    BY <1>3, <2>1 DEF Kept
  <2>2. CASE Advances(s)
    BY <1>3, <2>2 DEF Advances
  <2>3. CASE Breaks(s)
    BY <1>3, <2>3 DEF Breaks
  <2>4. ASSUME NEW t \in Stager, PostsAgain(s, t)
        PROVE  stager[s] # Idle /\ stager[s].job = j /\ stager'[s].mode = stager[s].mode
               /\ InContainer(j)
    BY <1>1, <1>3, <2>4, Copies, AtWorkIsNotIdle
  <2>5. ASSUME NEW t \in Stager, PostsAgain(t, s)
        PROVE  InContainer(j) /\ stager'[s].mode = "call" /\ j \in outlived'
    <3>1. /\ stager'[s].job = stager[t].job /\ InContainer(stager[t].job)
          /\ stager'[s].mode = "call"
      BY <1>1, <2>5, Copies
    <3>2. outlived' = outlived \cup {stager[t].job}
      BY <2>5 DEF PostsAgain
    <3> QED
      BY <1>3, <3>1, <3>2
  <2>6. CASE \E k \in Job : Enters(s, k)
    BY <2>6 DEF Enters
  <2> QED
    BY <1>1, <2>1, <2>2, <2>3, <2>4, <2>5, <2>6, WhoMoves
<1>7. stager[s] # Idle => StagerIsInMode(s)
  BY DEF CzdsInv, StagersAreRight
<1>8. j \in outlived => j \in outlived'
  BY <1>1, WhoWrites
<1> QED
  BY <1>3, <1>4, <1>5, <1>6, <1>7, <1>8 DEF StagerIsInMode
-----------------------------------------------------------------------------
(* The invariant is kept: files *)

LEMMA FileStep ==
    ASSUME CzdsInv, [Next]_vars, NEW j \in Job
    PROVE  FileIsOne(j)'
<1>1. TypeOK /\ FileIsOne(j)
  BY DEF CzdsInv
<1>2. ASSUME NEW s \in Stager, stager[s] # Idle, stager[s].job = j
      PROVE  /\ StagerFollows(s) /\ StagerIsInMode(s) /\ HasBegun(j)
             /\ stager[s].chunk.version # None
  BY <1>1, <1>2, StagerHasVersion DEF CzdsInv, StagersAreRight, StagerFollows
<1>3. ~HasBegun(j)' => job'[j].version = None
  <2>1. \A s \in Stager : Marks(s) => stager[s] # Idle
    BY DEF Marks, Idle
  <2> QED
    BY <1>1, <1>2, <2>1, JobMoves DEF FileIsOne
<1>4. InContainer(j)' <=> InContainer(j)
  BY <1>1, ContainersStay
<1>5. ASSUME NEW i \in Index, row'[j][i] # NoChunk
      PROVE  /\ row'[j][i].version = job'[j].version /\ object'[j][i] # NoChunk
             /\ ~InContainer(j) => row'[j][i].whole
  <2>1. CASE row'[j][i] = row[j][i]
    <3>1. /\ row[j][i].version = job[j].version /\ object[j][i] # NoChunk
          /\ ~InContainer(j) => row[j][i].whole
      BY <1>1, <1>5, <2>1 DEF FileIsOne
    <3>2. row[j][i].version # None
      BY <1>1, <1>5, <2>1, RowFacts, ChunkFacts
    <3> QED
      BY <2>1, <3>1, <3>2, Persists
  <2>2. ASSUME NEW s \in Stager, stager[s].job = j, stager[s].i = i,
               stager[s].pc = "row", stager[s] # Idle, row'[j][i] = stager[s].chunk
        PROVE  /\ row'[j][i].version = job'[j].version /\ object'[j][i] # NoChunk
               /\ ~InContainer(j) => row'[j][i].whole
    <3>1. /\ stager[s].chunk.version = job[j].version /\ stager[s].chunk.version # None
          /\ object[j][i] # NoChunk
          /\ ~InContainer(j) => stager[s].chunk.whole
      BY <1>2, <2>2 DEF StagerFollows, StagerIsInMode
    <3> QED
      BY <2>2, <3>1, Persists
  <2> QED
    BY <1>1, <2>1, <2>2, RowMoves
<1>6. ASSUME NEW i \in Index, object'[j][i] # NoChunk
      PROVE  /\ object'[j][i].version = job'[j].version
             /\ ~InContainer(j) => object'[j][i].whole
  <2>1. CASE object'[j][i] = object[j][i]
    <3>1. /\ object[j][i].version = job[j].version
          /\ ~InContainer(j) => object[j][i].whole
      BY <1>1, <1>6, <2>1 DEF FileIsOne
    <3>2. object[j][i].version # None
      BY <1>1, <1>6, <2>1, RowFacts, ChunkFacts
    <3> QED
      BY <2>1, <3>1, <3>2, Persists
  <2>2. ASSUME NEW s \in Stager, stager[s].job = j, stager[s].i = i,
               stager[s].pc = "put", stager[s] # Idle, object'[j][i] = stager[s].chunk
        PROVE  /\ object'[j][i].version = job'[j].version
               /\ ~InContainer(j) => object'[j][i].whole
    <3>1. /\ stager[s].chunk.version = job[j].version /\ stager[s].chunk.version # None
          /\ ~InContainer(j) => stager[s].chunk.whole
      BY <1>2, <2>2 DEF StagerFollows, StagerIsInMode
    <3> QED
      BY <2>2, <3>1, Persists
  <2> QED
    BY <1>1, <2>1, <2>2, ObjectMoves
<1> QED
  BY <1>3, <1>4, <1>5, <1>6 DEF FileIsOne

\* In a container whose calls all came back, nobody writes besides its one stager.
LEMMA OneWrites ==
    ASSUME CzdsInv, [Next]_vars, NEW j \in Job, InContainer(j), j \notin outlived,
           NEW s \in Stager, At(s, j)
    PROVE  /\ \A t \in Stager : At(t, j) => t = s
           /\ Writes(s) \/ \A i \in Index : row'[j][i] = row[j][i]
           /\ Puts(s) \/ \A i \in Index : object'[j][i] = object[j][i]
<1>1. TypeOK
  BY DEF CzdsInv
<1>2. ASSUME NEW t \in Stager, At(t, j) PROVE Holds(t, j)
  <2>1. StagerIsInMode(t) /\ stager[t].mode \in StagerMode
    BY <1>1, <1>2, StagerFacts DEF CzdsInv, StagersAreRight, At
  <2> QED
    BY <1>2, <2>1 DEF StagerIsInMode, At, Holds, StagerMode
<1>3. StagerIsInMode(s) /\ Holds(s, j)
  BY <1>2 DEF CzdsInv, StagersAreRight, At
<1>4. \A t \in Stager : At(t, j) => t = s
  BY <1>2, <1>3 DEF StagerIsInMode, Holds
<1> QED
  BY <1>1, <1>4, RowMoves, ObjectMoves DEF At

LEMMA ContainerStep ==
    ASSUME CzdsInv, [Next]_vars, NEW j \in Job, InContainer(j)', j \notin outlived'
    PROVE  ContainerIsInStep(j)'
<1>1. /\ TypeOK /\ ContainerIsInStep(j) /\ WalkIsInOrder(j)
      /\ InContainer(j) /\ j \notin outlived
  BY ContainersStay, WhoWrites DEF CzdsInv
<1>2. \A i \in Index : row[j][i] # NoChunk => object[j][i] = row[j][i]
  BY <1>1 DEF ContainerIsInStep
<1>3. ASSUME NEW s \in Stager, At(s, j)
      PROVE  /\ stager[s].pc \in {"put", "row"} => row[j][stager[s].i] = NoChunk
             /\ stager[s].pc = "row" => object[j][stager[s].i] = stager[s].chunk
             /\ stager[s].pc = "settle" => \A i \in Index : row[j][i].whole
             /\ StagerFollows(s)
  BY <1>1, <1>3 DEF ContainerIsInStep, CzdsInv, StagersAreRight, At
<1>4. \A s \in Stager : (Puts(s) => stager[s].pc = "put") /\ (Writes(s) => stager[s].pc = "row")
  BY DEF Puts, Writes
<1>5. ASSUME NEW i \in Index, row'[j][i] # NoChunk
      PROVE  object'[j][i] = row'[j][i]
  <2>1. ASSUME NEW s \in Stager, stager[s].job = j, stager[s].i = i,
               stager[s].pc = "row", stager[s] # Idle, row'[j][i] = stager[s].chunk
        PROVE  object'[j][i] = row'[j][i]
    <3>1. At(s, j) /\ ~Puts(s)
      BY <1>4, <2>1 DEF At
    <3> QED
      BY <1>1, <1>3, <2>1, <3>1, OneWrites
  <2>2. ASSUME row'[j][i] = row[j][i], NEW s \in Stager, stager[s].job = j, stager[s].i = i,
               stager[s].pc = "put", stager[s] # Idle
        PROVE  FALSE
    BY <1>3, <1>5, <2>2 DEF At
  <2> QED
    BY <1>1, <1>2, <1>5, <2>1, <2>2, RowMoves, ObjectMoves
<1>6. ASSUME job'[j].state \in {"staged", "complete"}, NEW i \in Index
      PROVE  row'[j][i].whole
  <2>1. ASSUME job[j].state \in {"staged", "complete"}
        PROVE  row'[j][i].whole
    <3>1. row[j][i] # NoChunk /\ row[j][i].whole
      BY <1>1, <2>1 DEF WalkIsInOrder, ContainerIsInStep, Staged
    <3>2. row'[j][i] = row[j][i]
      BY <1>1, <1>3, <3>1, RowMoves DEF At
    <3> QED
      BY <3>1, <3>2
  <2>2. ASSUME NEW s \in Stager, Stages(s), stager[s].job = j
        PROVE  row'[j][i].whole
    <3>1. stager[s].pc = "settle" /\ At(s, j) /\ row' = row
      BY <2>2 DEF Stages, At, Idle, chunks
    <3> QED
      BY <1>3, <3>1
  <2>3. Settles(j) => job[j].state \in {"staged", "complete"}
    BY <1>1 DEF Settles, WalkIsInOrder
  <2>4. ~HasBegun(j) => job[j].version = None
    BY DEF CzdsInv, FileIsOne
  <2> QED
    BY <1>1, <1>6, <2>1, <2>2, <2>3, <2>4, JobMoves
<1>7. ASSUME NEW s \in Stager, At(s, j)'
      PROVE  /\ stager'[s].pc \in {"put", "row"} => row'[j][stager'[s].i] = NoChunk
             /\ stager'[s].pc = "row" => object'[j][stager'[s].i] = stager'[s].chunk
             /\ stager'[s].pc = "settle" => \A i \in Index : row'[j][i].whole
  <2>1. stager'[s] # Idle /\ stager'[s].job = j
    BY <1>7 DEF At
  <2>2. CASE Kept(s)
    <3>1. /\ At(s, j) /\ stager'[s].pc = stager[s].pc
          /\ stager'[s].chunk = stager[s].chunk /\ stager'[s].i = stager[s].i
      BY <2>1, <2>2 DEF Kept, At
    <3>2. ~Writes(s) /\ ~Puts(s)
      <4>1. StagerStep(s) => Advances(s)
        BY <1>1, <2>1, StagerAdvances
      <4>2. Writes(s) \/ Puts(s) => StagerStep(s)
        BY DEF StagerStep
      <4>3. Advances(s) => \/ stager[s].pc # "put" /\ stager[s].pc # "row"
                           \/ stager'[s].pc # stager[s].pc
        BY DEF Advances
      <4> QED
        BY <1>4, <3>1, <4>1, <4>2, <4>3
    <3>3. \A i \in Index : row'[j][i] = row[j][i] /\ object'[j][i] = object[j][i]
      BY <1>1, <3>1, <3>2, OneWrites
    <3>4. stager[s].pc \in {"put", "row"} => stager[s].i \in Index
      BY <1>3, <3>1 DEF StagerFollows
    <3> QED
      BY <1>3, <3>1, <3>3, <3>4
  <2>3. CASE Advances(s)
    <3>1. At(s, j) /\ stager'[s].chunk = stager[s].chunk
      BY <2>1, <2>3 DEF Advances, At
    <3>2. CASE Appends(s) /\ stager[s].i = Last(j) + 1 /\ stager[s].pc = "append"
               /\ stager'[s].pc = "put" /\ stager'[s].i = stager[s].i
      <4>1. stager[s].i \in Index
        BY <1>3, <3>1, <3>2 DEF StagerFollows
      <4>2. stager[s].i \notin Staged(j)
        <5>1. {-1} \cup Staged(j) \in SUBSET (Index \cup {-1}) /\ {-1} \cup Staged(j) # {}
          BY DEF Staged
        <5>2. Last(j) \in Index \cup {-1} /\ \A i \in Staged(j) : i <= Last(j)
          BY <5>1, MaxIsMember DEF Last
        <5>3. \A i \in Staged(j) : i \in Int
          BY ConstantFacts DEF Staged
        <5>4. PICK l \in Int : l = Last(j)
          <6>1. \A l \in Index \cup {-1} : l \in Int
            BY ConstantFacts
          <6> QED
            BY <5>2, <6>1
        <5>5. ~(l + 1 <= l)
          OBVIOUS
        <5> QED
          BY <3>2, <5>2, <5>4, <5>5
      <4>3. row'[j][stager[s].i] = row[j][stager[s].i]
        BY <1>1, <1>4, <3>1, <3>2, <4>1, OneWrites
      <4> QED
        BY <3>2, <4>1, <4>2, <4>3 DEF Staged
    <3>3. CASE Puts(s) /\ stager[s].pc = "put" /\ stager'[s].pc = "row"
               /\ stager'[s].i = stager[s].i
      <4>1. stager[s].i \in Index /\ row[j][stager[s].i] = NoChunk
        BY <1>3, <3>1, <3>3 DEF StagerFollows
      <4>2. row'[j][stager[s].i] = row[j][stager[s].i]
        BY <1>1, <1>4, <3>1, <3>3, <4>1, OneWrites
      <4>3. object'[j][stager[s].i] = stager[s].chunk
        <5>1. PICK n, c : n = stager[s].i /\ c = stager[s].chunk
          OBVIOUS
        <5>2. object' = [object EXCEPT ![j][n] = c] /\ n \in Index
          BY <3>1, <3>3, <4>1, <5>1 DEF Puts, At
        <5>3. object'[j][n] = c
          BY <1>1, <5>2 DEF TypeOK
        <5> QED
          BY <5>1, <5>3
      <4> QED
        BY <3>1, <3>3, <4>1, <4>2, <4>3
    <3>4. CASE /\ CountsMatch(stager[s].job) /\ stager[s].pc = "complete"
               /\ stager'[s].pc = "settle"
      <4>1. \A i \in Index : row[j][i].whole
        BY <3>1, <3>4 DEF CountsMatch, At
      <4>2. \A i \in Index : row'[j][i] = row[j][i]
        BY <1>1, <1>4, <3>1, <3>4, OneWrites
      <4> QED
        BY <3>4, <4>1, <4>2
    <3>5. CASE stager'[s].pc \in {"mark", "append", "complete"}
      BY <3>5
    <3> QED
      BY <2>3, <3>1, <3>2, <3>3, <3>4, <3>5 DEF Advances, At
  <2>4. CASE Breaks(s)
    BY <2>4 DEF Breaks
  <2>5. ASSUME NEW t \in Stager, PostsAgain(s, t) \/ PostsAgain(t, s)
        PROVE  FALSE
    <3>1. stager[s] # Idle /\ PostsAgain(s, t) => stager[s].job = j
      BY <1>1, <2>1, Copies
    <3>2. PostsAgain(t, s) => stager[t].job = j
      BY <1>1, <2>1, Copies
    <3>3. PostsAgain(s, t) => stager[s] # Idle /\ stager[s].job \in outlived'
      BY DEF PostsAgain, Idle
    <3>4. PostsAgain(t, s) => stager[t].job \in outlived'
      BY DEF PostsAgain
    <3> QED
      BY <2>5, <3>1, <3>2, <3>3, <3>4
  <2>6. CASE \E k \in Job : Enters(s, k)
    BY <2>6 DEF Enters
  <2> QED
    BY <1>1, <2>2, <2>3, <2>4, <2>5, <2>6, WhoMoves
<1> QED
  BY <1>5, <1>6, <1>7 DEF ContainerIsInStep
-----------------------------------------------------------------------------
(* The invariant is kept: pages *)

LEMMA WorkflowMoves ==
    ASSUME TypeOK, [Next]_vars, NEW j \in Job
    PROVE  \/ workflow'[j] = workflow[j] \/ workflow'[j].pc \notin {"page", "settle"}
           \/ Finishes(j) \/ Announces(j)
<1>1. ASSUME NEW k \in Job, k # j, NEW at, WorkflowGoes(k, at)
      PROVE  workflow'[j] = workflow[j]
  BY <1>1 DEF WorkflowGoes, TypeOK
<1>2. ASSUME NEW at, WorkflowGoes(j, at)
      PROVE  workflow'[j] = at
  BY <1>2 DEF WorkflowGoes, TypeOK
<1>3. ASSUME NEW k \in Job, WorkflowStep(k) \/ TimesOut(k) \/ WorkflowFails(k) \/ Restarts(k)
      PROVE  \/ workflow'[j] = workflow[j] \/ workflow'[j].pc \notin {"page", "settle"}
             \/ Finishes(j) \/ Announces(j)
  <2>1. \E at : WorkflowGoes(k, at)
    BY <1>3 DEF WorkflowStep, Claims, Starts, Watches, Finishes, Announces, Settles, Releases,
                Fails, TimesOut, WorkflowFails, Restarts
  <2>2. CASE k # j
    BY <1>1, <2>1, <2>2
  <2>3. CASE k = j /\ ~Finishes(j) /\ ~Announces(j)
    <3>1. workflow[j].pc \in {"start", "watch"} =>
            /\ NextAttempt(j).pc \in {"start", "fail"}
            /\ [workflow[j] EXCEPT !.pc = "watch"].pc = "watch"
      BY RunTypes
    <3>2. CASE Starts(j)
      <4>1. CASE WorkflowGoes(j, [pc |-> "finish"]) \/ WorkflowGoes(j, [pc |-> "fail"])
        BY <1>2, <4>1
      <4>2. CASE WorkflowGoes(j, [workflow[j] EXCEPT !.pc = "watch"])
        <5>1. workflow'[j] = [workflow[j] EXCEPT !.pc = "watch"] /\ workflow[j].pc = "start"
          BY <1>2, <3>2, <4>2 DEF Starts
        <5> QED
          BY <3>1, <5>1
      <4> QED
        BY <3>2, <4>1, <4>2 DEF Starts
    <3>3. CASE Watches(j)
      BY <1>2, <3>1, <3>3 DEF Watches
    <3>4. CASE TimesOut(j)
      BY <1>2, <3>1, <3>4 DEF TimesOut
    <3>5. CASE \/ Claims(j) \/ Settles(j) \/ Releases(j) \/ Fails(j)
               \/ WorkflowFails(j) \/ Restarts(j)
      BY <1>2, <3>5 DEF Claims, Settles, Releases, Fails, WorkflowFails, Restarts
    <3> QED
      BY <1>3, <2>3, <3>2, <3>3, <3>4, <3>5 DEF WorkflowStep
  <2> QED
    BY <2>2, <2>3
<1>4. ASSUME NEW c \in Cron, CronCreates(c)
      PROVE  workflow'[j] = workflow[j] \/ workflow'[j].pc \notin {"page", "settle"}
  BY <1>4 DEF CronCreates, Created, TypeOK
<1>5. ASSUME NEW c \in Cron, (\E z \in Zone : CronReads(c, z)) \/ CronStep(c) \/ CronDies(c)
      PROVE  CronCreates(c) \/ workflow' = workflow
  BY <1>5 DEF CronReads, CronStep, CronInserts, CronUncreates, CronMarks, CronDies
<1>6. ASSUME NEW s \in Stager, StagerStep(s) \/ StagerFailure(s)
      PROVE  workflow' = workflow
  BY <1>6 DEF StagerStep, StagerFailure, Begins, Marks, Appends, Puts, Writes, Completes, Stages,
              BreaksOff, StagerThrows, AnswerIsLost, PostsAgain, StagerTo, Ends, Returns,
              NextChunk, StagerGoes
<1>7. ASSUME \/ \E k \in Job : ContainerDies(k) \/ Reaps(k)
             \/ Midnight \/ (\E z \in Zone : FileChanges(z)) \/ UNCHANGED vars
      PROVE  workflow' = workflow
  BY <1>7 DEF ContainerDies, Reaps, Midnight, FileChanges, vars
<1> QED
  BY <1>3, <1>4, <1>5, <1>6, <1>7 DEF Next

\* A page takes the walk further, and an empty one is the end.
LEMMA PageFacts ==
    ASSUME TypeOK, NEW j \in Job, NEW last \in Index \cup {-1}, Staged(j) = Index
    PROVE  /\ Page(j, last) = {} => \A i \in Index : i <= last
           /\ Page(j, last) # {} =>
                \A i \in Index : i <= Max(Page(j, last)) => i <= last \/ i \in Page(j, last)
<1>1. last \in Int /\ PageSize \in Nat \ {0} /\ Length \in Nat /\ -1 <= last
  BY ConstantFacts
<1>2. \A i \in Index : i \in Page(j, last) <=> last < i /\ i <= last + PageSize
  BY DEF Page
<1>3. ASSUME Page(j, last) = {}, NEW i \in Index, ~(i <= last) PROVE FALSE
  <2>1. last + 1 \in Index
    BY <1>1, <1>3 DEF Index
  <2>2. last + 1 \in Page(j, last)
    BY <1>1, <1>2, <2>1
  <2> QED
    BY <1>3, <2>2
<1>4. ASSUME Page(j, last) # {}, NEW i \in Index, i <= Max(Page(j, last)), ~(i <= last)
      PROVE  i \in Page(j, last)
  <2>1. PICK m \in Index : m = Max(Page(j, last)) /\ m \in Page(j, last)
    BY <1>4, MaxOfPage
  <2>2. m <= last + PageSize /\ i <= m /\ i \in Int /\ m \in Int
    BY <1>2, <1>4, <2>1, ConstantFacts
  <2>3. last < i /\ i <= last + PageSize
    BY <1>1, <1>4, <2>2
  <2> QED
    BY <1>2, <2>3
<1> QED
  BY <1>3, <1>4

LEMMA WalkStep ==
    ASSUME CzdsInv, [Next]_vars, NEW j \in Job
    PROVE  WalkIsInOrder(j)'
<1>1. TypeOK /\ WalkIsInOrder(j)
  BY DEF CzdsInv
<1>2. Staged(j) = Index => Staged(j)' = Index
  BY Persists
<1>3. 0 \in Index
  BY ConstantFacts
<1>4. announced \subseteq announced'
  BY <1>1, WhoWrites DEF Announces
<1>5. ~HasBegun(j) => job[j].version = None
  BY DEF CzdsInv, FileIsOne
<1>6. \A s \in Stager : Stages(s) /\ stager[s].job = j => Staged(j) = Index
  <2>1. \A s \in Stager : Stages(s) => stager[s].pc = "settle" /\ stager[s] # Idle
    BY DEF Stages, Idle
  <2> QED
    BY <2>1 DEF CzdsInv, StagersAreRight, StagerFollows
<1>7. Settles(j) => /\ Staged(j) = Index /\ job[j].state \in {"staged", "complete"}
                    /\ \A i \in Index : <<j, i>> \in announced
  BY <1>1, <1>3 DEF Settles, WalkIsInOrder
<1>8. job'[j].state \in {"staged", "complete"} => Staged(j)' = Index
  BY <1>1, <1>2, <1>5, <1>6, <1>7, JobMoves DEF WalkIsInOrder
<1>9. job'[j].state = "complete" => \A i \in Index : <<j, i>> \in announced'
  BY <1>1, <1>4, <1>5, <1>7, JobMoves DEF WalkIsInOrder
<1>10. (\E i \in Index : <<j, i>> \in announced') => Staged(j)' = Index
  <2>1. ASSUME NEW k \in Job, Announces(k), NEW i \in Index, <<j, i>> \in announced'
        PROVE  <<j, i>> \in announced \/ (k = j /\ workflow[j].pc = "page")
    BY <2>1 DEF Announces
  <2> QED
    BY <1>1, <1>2, <2>1, WhoWrites DEF WalkIsInOrder
<1>11. /\ workflow'[j].pc \in {"page", "settle"} => job'[j].state \in {"staged", "complete"}
       /\ workflow'[j].pc = "page" =>
            \A i \in Index : i <= workflow'[j].last => <<j, i>> \in announced'
       /\ workflow'[j].pc = "settle" => \A i \in Index : <<j, i>> \in announced'
  <2>1. CASE workflow'[j].pc \notin {"page", "settle"}
    BY <2>1
  <2>2. CASE workflow'[j] = workflow[j]
    <3>1. workflow[j].pc \in {"page", "settle"} => ~Fails(j)
      BY DEF Fails
    <3> QED
      BY <1>1, <1>4, <1>5, <2>2, <3>1, JobMoves DEF WalkIsInOrder
  <2>3. CASE Finishes(j) /\ workflow'[j].pc \in {"page", "settle"}
    <3>1. job' = job /\ job[j].state = "staged" /\ workflow'[j] = [pc |-> "page", last |-> -1]
      BY <1>1, <2>3 DEF Finishes, WorkflowGoes, TypeOK
    <3>2. \A i \in Index : ~(i <= -1)
      BY ConstantFacts DEF Index
    <3> QED
      BY <3>1, <3>2
  <2>4. CASE Announces(j)
    <3>1. workflow[j].pc = "page" /\ workflow[j].last \in Index \cup {-1} /\ job' = job
      BY <1>1, <2>4, WorkflowFacts DEF Announces
    <3>2. /\ job[j].state \in {"staged", "complete"} /\ Staged(j) = Index
          /\ \A i \in Index : i <= workflow[j].last => <<j, i>> \in announced
      BY <1>1, <3>1 DEF WalkIsInOrder
    <3>3. PICK last \in Index \cup {-1} : last = workflow[j].last
      BY <3>1
    <3>4. PICK page : page = Page(j, last)
      OBVIOUS
    <3>5. /\ \A i \in page : <<j, i>> \in announced'
          /\ workflow'[j] = IF page = {} THEN [pc |-> "settle"]
                            ELSE [pc |-> "page", last |-> Max(page)]
      BY <1>1, <2>4, <3>3, <3>4 DEF Announces, WorkflowGoes, TypeOK
    <3>6. CASE page = {}
      <4>1. \A i \in Index : <<j, i>> \in announced
        BY <1>1, <3>2, <3>3, <3>4, <3>6, PageFacts
      <4> QED
        BY <1>4, <3>1, <3>2, <3>5, <3>6, <4>1
    <3>7. CASE page # {}
      <4>1. workflow'[j].pc = "page" /\ workflow'[j].last = Max(page)
        BY <3>5, <3>7
      <4>2. \A i \in Index : i <= Max(page) => <<j, i>> \in announced'
        BY <1>1, <1>4, <3>2, <3>3, <3>4, <3>5, <3>7, PageFacts
      <4> QED
        BY <3>1, <3>2, <4>1, <4>2
    <3> QED
      BY <3>6, <3>7
  <2> QED
    BY <1>1, <2>1, <2>2, <2>3, <2>4, WorkflowMoves
<1> QED
  BY <1>8, <1>9, <1>10, <1>11 DEF WalkIsInOrder
-----------------------------------------------------------------------------
(* The results *)

LEMMA CzdsInit == Init => CzdsInv
<1> SUFFICES ASSUME Init
             PROVE  CzdsInv
  OBVIOUS
<1>1. TypeOK
  BY InitType
<1>2. StagersAreRight
  BY DEF Init, StagersAreRight
<1>3. ASSUME NEW j \in Job
      PROVE  FileIsOne(j) /\ ContainerIsInStep(j) /\ WalkIsInOrder(j)
  <2>1. /\ job[j].state = "absent" /\ job[j].version = None
        /\ workflow[j].pc = "none" /\ announced = {}
    BY <1>3 DEF Init, NoRow
  <2>2. \A i \in Index : row[j][i] = NoChunk /\ object[j][i] = NoChunk
    BY <1>3 DEF Init
  <2>3. \A s \in Stager : ~At(s, j)
    BY DEF Init, At
  <2>4. FileIsOne(j)
    BY <2>1, <2>2 DEF FileIsOne, HasBegun
  <2>5. ContainerIsInStep(j)
    BY <2>1, <2>2, <2>3 DEF ContainerIsInStep
  <2>6. WalkIsInOrder(j)
    BY <2>1 DEF WalkIsInOrder
  <2> QED
    BY <2>4, <2>5, <2>6
<1> QED
  BY <1>1, <1>2, <1>3 DEF CzdsInv

LEMMA CzdsStep ==
    ASSUME OneBegins, CzdsInv, [Next]_vars
    PROVE  CzdsInv'
<1>1. TypeOK'
  BY TypeStep DEF CzdsInv
<1>2. StagersAreRight'
  BY FollowStep, ModeStep DEF StagersAreRight
<1>3. ASSUME NEW j \in Job PROVE ContainerIsInStep(j)'
  <2>1. CASE InContainer(j)' /\ j \notin outlived'
    BY <2>1, ContainerStep
  <2>2. CASE ~(InContainer(j)' /\ j \notin outlived')
    BY <2>2 DEF ContainerIsInStep
  <2> QED
    BY <2>1, <2>2
<1>4. \A j \in Job : FileIsOne(j)' /\ WalkIsInOrder(j)'
  BY FileStep, WalkStep
<1> QED
  BY <1>1, <1>2, <1>3, <1>4 DEF CzdsInv

\* What is staged is of one file, and whole if no call outlived its stager.
LEMMA StagedFiles == CzdsInv => StagedIsOneFile
<1> SUFFICES ASSUME CzdsInv, NEW j \in Job, job[j].state \in {"staged", "complete"},
                    NEW i \in Index
             PROVE  /\ row[j][i].version = job[j].version
                    /\ object[j][i].version = job[j].version
                    /\ j \notin outlived => row[j][i].whole /\ object[j][i].whole
  BY DEF StagedIsOneFile
<1>1. FileIsOne(j) /\ ContainerIsInStep(j) /\ WalkIsInOrder(j)
  BY DEF CzdsInv
<1>2. row[j][i] # NoChunk
  BY <1>1 DEF WalkIsInOrder, Staged
<1>3. /\ row[j][i].version = job[j].version /\ object[j][i] # NoChunk
      /\ object[j][i].version = job[j].version
  BY <1>1, <1>2 DEF FileIsOne
<1>4. CASE InContainer(j)
  BY <1>1, <1>2, <1>3, <1>4 DEF ContainerIsInStep
<1>5. CASE ~InContainer(j)
  BY <1>1, <1>2, <1>3, <1>5 DEF FileIsOne
<1> QED
  BY <1>3, <1>4, <1>5

\* An object that was announced is replaced by its like.
LEMMA AnnouncedStay ==
    ASSUME CzdsInv, [Next]_vars, NEW a \in announced
    PROVE  /\ object'[a[1]][a[2]].version = object[a[1]][a[2]].version
           /\ a[1] \notin outlived => object'[a[1]][a[2]] = object[a[1]][a[2]]
<1>1. TypeOK
  BY DEF CzdsInv
<1>2. PICK j \in Job, i \in Index : a = <<j, i>>
  BY <1>1 DEF TypeOK
<1>3. a[1] = j /\ a[2] = i
  BY <1>2
<1>4. FileIsOne(j) /\ ContainerIsInStep(j) /\ WalkIsInOrder(j)
  BY DEF CzdsInv
<1>5. row[j][i] # NoChunk
  BY <1>2, <1>4 DEF WalkIsInOrder, Staged
<1>6. /\ object[j][i] # NoChunk /\ object[j][i].version = job[j].version
      /\ ~InContainer(j) => object[j][i].whole
  BY <1>4, <1>5 DEF FileIsOne
<1>7. ASSUME NEW s \in Stager, stager[s] # Idle, stager[s].job = j, stager[s].i = i,
             stager[s].pc = "put", object'[j][i] = stager[s].chunk
      PROVE  /\ object'[j][i].version = object[j][i].version
             /\ j \notin outlived => object'[j][i] = object[j][i]
  <2>1. StagerFollows(s) /\ StagerIsInMode(s)
    BY <1>7 DEF CzdsInv, StagersAreRight
  <2>2. stager[s].chunk.version = job[j].version
    BY <1>7, <2>1 DEF StagerFollows
  <2>3. CASE InContainer(j) /\ j \notin outlived
    BY <1>4, <1>5, <1>7, <2>3 DEF ContainerIsInStep, At
  <2>4. CASE ~InContainer(j)
    <3>1. stager[s].chunk \in Chunk /\ object[j][i] \in Chunk
      BY <1>1, <1>6, <1>7, StagerFacts, RowFacts
    <3>2. stager[s].chunk.whole
      BY <1>7, <2>1, <2>4 DEF StagerIsInMode
    <3>3. stager[s].chunk.whole = object[j][i].whole
      BY <1>6, <2>4, <3>1, <3>2, ChunkFacts DEF Chunk
    <3> QED
      BY <1>6, <1>7, <2>2, <3>1, <3>3, ChunkFacts
  <2> QED
    BY <1>6, <1>7, <2>2, <2>3, <2>4
<1> QED
  BY <1>1, <1>3, <1>7, ObjectMoves

\* Whatever stagers and calls are given up and go on, the invariant holds if no two of
\* them are between the comparison and the update of a fingerprint (beginCzdsArtifact).
THEOREM CzdsInvariant ==
    ASSUME OneBegins
    PROVE  Spec => []CzdsInv
<1> QED
  BY CzdsInit, CzdsStep, PTL DEF Spec

\* A job that is staged or complete holds one file in full, of any length, whichever
\* attempts, containers and lost calls its chunks are from, and whatever the registry
\* made of the file meanwhile (appendCzdsChunk, completeCzdsArtifact).
THEOREM StagedFilesAreOne ==
    ASSUME OneBegins
    PROVE  Spec => []StagedIsOneFile
<1> QED
  BY CzdsInit, CzdsStep, StagedFiles, PTL DEF Spec

\* No chunk is announced before all are staged, and a job is not complete before all
\* are announced, in pages of any size and in whatever step the Workflow is run again
\* (publishCzdsJob).
THEOREM AnnouncedFilesAreFull ==
    ASSUME OneBegins
    PROVE  Spec => []AnnouncedInFull
<1>1. CzdsInv => AnnouncedInFull
  BY DEF CzdsInv, WalkIsInOrder, AnnouncedInFull
<1> QED
  BY <1>1, CzdsInit, CzdsStep, PTL DEF Spec

\* What the compaction Worker was told to read does not change under it: no attempt,
\* and no call that outlived one, puts anything else under an announced key
\* (writeChunk).
THEOREM AnnouncedObjectsStay ==
    ASSUME OneBegins
    PROVE  Spec => AnnouncedIsImmutable
<1>1. CzdsInv /\ [Next]_vars =>
        [\A a \in announced :
           LET old == object[a[1]][a[2]]
               new == object'[a[1]][a[2]]
           IN new.version = old.version /\ (a[1] \notin outlived => new = old)]_vars
  BY AnnouncedStay
<1> QED
  BY <1>1, CzdsInit, CzdsStep, PTL DEF Spec, AnnouncedIsImmutable
=============================================================================
