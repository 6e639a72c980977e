-------------------------- MODULE EnrichmentProofs --------------------------
(***************************************************************************)
(* Proofs about Enrichment: what a user is charged for and what an admitted*)
(* request has cost, for any users, days, allowances and failures.  What   *)
(* the URLScan Worker does to the rows of requests is taken from           *)
(* UrlScanProofs.                                                          *)
(***************************************************************************)
EXTENDS Enrichment, UrlScanProofs

-----------------------------------------------------------------------------
(* The invariant *)

IsThere(r) == job[r].state # "absent"
IsPosting(c, r) == post[c] # Idle /\ post[c].job = r

\* A call that has charged r and has not come to know that it was taken.
IsCharging(c, r) ==
    /\ IsPosting(c, r)
    /\ \/ post[c].pc = "release"
       \/ post[c].pc \in {"forward", "wait"} /\ ~post[c].replay

WasCharged(r) == \E d \in Day : <<d, r>> \in keys

RouteTypes ==
    /\ TypeOK
    /\ keys \subseteq Day \X Request
    /\ \A k \in keys : k[1] <= today
    /\ post \in [Client -> PostJob]
    /\ killed \subseteq Request /\ doubled \subseteq Request

\* The URLScan Worker is at a request exactly while a call of the route waits for it.
CallsAreWaitedFor ==
    \A c \in Client :
        /\ client[c] # Idle <=> post[c].pc = "wait"
        /\ client[c] # Idle => client[c].job = post[c].job

\* What a call is told of its job is so.
Says(c) ==
    /\ client[c].pc = "send" => IsThere(client[c].job)
    /\ client[c].pc = "answer" => (client[c].status # 409 <=> IsThere(client[c].job))

\* It remains so, but for a refusal of what another call has had admitted since.
AnswersAreTrue ==
    \A c \in Client :
        /\ client[c].pc = "send" => IsThere(client[c].job)
        /\ client[c].pc = "answer" /\ client[c].status # 409 => IsThere(client[c].job)
        /\ client[c].pc = "answer" /\ client[c].status = 409 /\ client[c].job \notin doubled =>
             ~IsThere(client[c].job)

PostedInTurn ==
    \A r \in Request \ doubled, c, d \in Client : IsPosting(c, r) /\ IsPosting(d, r) => c = d

ChargesAreHeld ==
    \A r \in Request \ killed :
        <<today, r>> \in keys => IsThere(r) \/ \E c \in Client : IsCharging(c, r)

\* What has been admitted, or is forwarded, was charged; what is given back was not.
IsAccountedFor(r) ==
    /\ IsThere(r) => WasCharged(r)
    /\ \A c \in Client : IsPosting(c, r) =>
         /\ post[c].pc \in {"forward", "wait"} => WasCharged(r)
         /\ post[c].pc = "release" => ~IsThere(r)

ForwardedIsCharged == \A r \in Request \ doubled : IsAccountedFor(r)

\* The units used in a day are its keys.
ChargedOn(d) == {r \in Request : <<d, r>> \in keys}

LedgerIsExact ==
    \A d \in Day :
        /\ IsFiniteSet(ChargedOn(d))
        /\ spent[d] = Cardinality(ChargedOn(d)) /\ spent[d] <= Allowance

RouteInv ==
    /\ RouteTypes /\ CallsAreWaitedFor /\ AnswersAreTrue /\ PostedInTurn
    /\ ChargesAreHeld /\ ForwardedIsCharged
-----------------------------------------------------------------------------
(* What a step does to rows and calls *)

LEMMA PostFacts ==
    ASSUME RouteTypes, NEW c \in Client
    PROVE  /\ post[c].pc = "idle" <=> post[c] = Idle
           /\ post[c] # Idle => post[c].job \in Request
           /\ post[c].pc \in {"forward", "wait"} => post[c].replay \in BOOLEAN
           /\ post[c].pc \in {"idle", "admit", "forward", "wait", "release"}
BY DEF RouteTypes, PostJob, Idle

\* Calls that change nothing of the URLScan Worker, or one step of it.
LEMMA ScanSteps ==
    ASSUME RouteTypes, RouteNext, \A c \in Client : ~RouteDies(c)
    PROVE  [Next]_vars
<1>1. ASSUME NEW c \in Client, RouteForwards(c) PROVE [Next]_vars
  <2>1. post[c].job \in Request
    BY <1>1, PostFacts DEF RouteForwards, Idle
  <2> QED
    BY <1>1, <2>1 DEF RouteForwards, Next
<1>2. ASSUME NEW c \in Client, RouteIsAnswered(c) PROVE [Next]_vars
  BY <1>2 DEF RouteIsAnswered, Next, ClientStep
<1>3. ASSUME NEW c \in Client,
             (\E r \in Request : RouteLooks(c, r)) \/ RouteAdmits(c) \/ RouteReleases(c)
      PROVE  [Next]_vars
  BY <1>3 DEF RouteLooks, RouteAdmits, RouteReleases
<1>4. ASSUME NEW c \in Client, ClientInserts(c) \/ ClientSends(c) PROVE [Next]_vars
  BY <1>4 DEF Next, ClientStep
<1>5. CASE Runs
  BY <1>5 DEF Next
<1> QED
  BY <1>1, <1>2, <1>3, <1>4, <1>5 DEF RouteNext, RouteStep

\* The row of a request is never deleted, and only its own insert makes it.
LEMMA RequestRows ==
    ASSUME RouteTypes, RouteNext
    PROVE  /\ TypeOK'
           /\ \A r \in Request : IsThere(r) => IsThere(r)'
           /\ \A r \in Request : ~IsThere(r) /\ IsThere(r)' =>
                \E c \in Client : client[c].pc = "insert" /\ client[c].job = r
<1>1. ASSUME NEW c \in Client, RouteDies(c)
      PROVE  TypeOK' /\ UNCHANGED job
  <2>1. faults' \in 0..MaxFaults
    BY <1>1, FaultType DEF RouteDies, RouteTypes
  <2> QED
    BY <1>1, <2>1 DEF RouteDies, RouteTypes, TypeOK, quota, stored
<1>2. CASE \A c \in Client : ~RouteDies(c)
  <2>1. TypeOK /\ [Next]_vars
    BY <1>2, ScanSteps DEF RouteTypes
  <2>2. TypeOK' /\ Persists
    BY <2>1, NextType, NextPersists
  <2>3. \A r \in Request : ~IsThere(r) /\ IsThere(r)' =>
          \E c \in Client : client[c].pc = "insert" /\ client[c].job = r
    BY <2>1, NewRows, RequestFacts DEF IsThere
  <2> QED
    BY <2>2, <2>3 DEF Persists, IsThere
<1> QED
  BY <1>1, <1>2 DEF IsThere

\* What the Worker does on its own account leaves the calls alone.
LEMMA RunsFrame ==
    ASSUME TypeOK, Runs
    PROVE  client' = client /\ today' \in {today, today + 1} /\ today' \in Day /\ today <= today'
<1>1. today \in Day /\ Day \subseteq Nat /\ MaxDay \in Nat
  BY ConstantFacts DEF TypeOK
<1>2. ASSUME NEW b \in Cron,
             (\E a \in Recurring : CronReads(b, a)) \/ CronStep(b) \/ CronDies(b)
      PROVE  UNCHANGED <<client, today>>
  BY <1>2 DEF CronReads, CronStep, CronInserts, CronSends, CronUnsends, CronDies, CronGoes
<1>3. ASSUME NEW w \in Worker, WorkerStep(w) \/ WorkerThrows(w) \/ WorkerDies(w)
      PROVE  UNCHANGED <<client, today>>
  BY <1>3 DEF WorkerStep, WorkerThrows, WorkerDies, Loads, Claims, ClaimRefused, Reloads,
         Charges, Marks, Reads, Commits, Notifies, GivesUp, Throws, WorkerGoes
<1>4. ASSUME NEW j \in Job, LeaseExpires(j) PROVE UNCHANGED <<client, today>>
  BY <1>4 DEF LeaseExpires
<1>5. CASE Midnight
  BY <1>1, <1>5 DEF Midnight, Day
<1> QED
  BY <1>1, <1>2, <1>3, <1>4, <1>5 DEF Runs

\* A request that is taken up, inserted or sent.
LEMMA AskSays ==
    ASSUME TypeOK, NEW c \in Client, NEW j \in Request, ClientAsks(c, j)
    PROVE  /\ client[c] = Idle /\ client'[c] # Idle /\ client'[c].job = j /\ Says(c)'
           /\ \A d \in Client \ {c} : client'[d] = client[d]
           /\ UNCHANGED <<today, job>>
<1>1. client \in [Client -> ClientJob] /\ UNCHANGED <<today, job>>
  BY DEF TypeOK, ClientAsks, ClientGoes
<1>2. CASE IsThere(j)
  <2>1. client'[c] = WithJob(j)
    BY <1>1, <1>2 DEF ClientAsks, ClientGoes, IsThere
  <2>2. WithJob(j) = [pc |-> "send", job |-> j] \/ WithJob(j) = Answer(j, 202)
    BY DEF WithJob
  <2> QED
    BY <1>1, <1>2, <2>1, <2>2 DEF ClientAsks, ClientGoes, Answer, Says, IsThere, Idle
<1>3. CASE ~IsThere(j)
  <2>1. \/ client'[c] = [pc |-> "insert", job |-> j, cursor |-> source[Target[j]].cursor]
        \/ client'[c] = Answer(j, 409)
    BY <1>1, <1>3 DEF ClientAsks, ClientGoes, IsThere
  <2> QED
    BY <1>1, <1>3, <2>1 DEF ClientAsks, ClientGoes, Answer, Says, IsThere, Idle
<1> QED
  BY <1>2, <1>3

LEMMA StepSays ==
    ASSUME TypeOK, NEW c \in Client, ClientInserts(c) \/ ClientSends(c), Says(c)
    PROVE  /\ client[c] # Idle /\ client'[c] # Idle
           /\ client'[c].job = client[c].job /\ Says(c)'
           /\ \A d \in Client \ {c} : client'[d] = client[d]
           /\ UNCHANGED today
<1>1. client \in [Client -> ClientJob] /\ job \in [Job -> JobRow] /\ UNCHANGED today
  BY DEF TypeOK, ClientInserts, ClientSends, ClientGoes
<1>2. CASE ClientSends(c)
  <2>1. job' = job /\ client[c].pc = "send" /\ client[c].job \in Request
    BY <1>2, ClientFacts DEF ClientSends
  <2>2. client'[c] = Answer(client[c].job, 202) \/ client'[c] = Answer(client[c].job, 503)
    BY <1>1, <1>2 DEF ClientSends, ClientGoes
  <2>3. \A d \in Client \ {c} : client'[d] = client[d]
    BY <1>1, <1>2 DEF ClientSends, ClientGoes
  <2> QED
    BY <1>1, <2>1, <2>2, <2>3 DEF Answer, Says, IsThere, Idle
<1>3. CASE ClientInserts(c)
  <2> DEFINE j == client[c].job
  <2>1. client[c].pc = "insert" /\ j \in Job /\ j \in Request /\ client[c].cursor \in Page
    BY <1>3, ClientFacts, RequestFacts DEF ClientInserts
  <2>2. \A d \in Client \ {c} : client'[d] = client[d]
    BY <1>1, <1>3 DEF ClientInserts, ClientGoes
  <2>3. CASE job[j].state = "absent" /\ ActiveOn(Target[j]) = {}
    <3>1. /\ client'[c] = [pc |-> "send", job |-> j]
          /\ job' = [job EXCEPT ![j] = Queued(client[c].cursor)]
      BY <1>1, <1>3, <2>3 DEF ClientInserts, ClientGoes
    <3>2. job'[j].state = "queued"
      BY <1>1, <2>1, <3>1, NewRowType
    <3> QED
      BY <1>1, <2>1, <2>2, <3>1, <3>2 DEF Says, IsThere, Idle
  <2>4. CASE job[j].state = "absent" /\ ActiveOn(Target[j]) # {}
    <3>1. client'[c] = Answer(j, 409) /\ job' = job
      BY <1>1, <1>3, <2>4 DEF ClientInserts, ClientGoes
    <3> QED
      BY <1>1, <2>1, <2>2, <2>4, <3>1 DEF Answer, Says, IsThere, Idle
  <2>5. CASE job[j].state # "absent"
    <3>1. client'[c] = WithJob(j) /\ job' = job
      BY <1>1, <1>3, <2>5 DEF ClientInserts, ClientGoes
    <3>2. WithJob(j) = [pc |-> "send", job |-> j] \/ WithJob(j) = Answer(j, 202)
      BY DEF WithJob
    <3> QED
      BY <1>1, <2>1, <2>2, <2>5, <3>1, <3>2 DEF Answer, Says, IsThere, Idle
  <2> QED
    BY <2>3, <2>4, <2>5
<1> QED
  BY <1>2, <1>3
-----------------------------------------------------------------------------
(* Types *)

\* A step of a call changes the place of no other.
LEMMA OtherPosts ==
    ASSUME RouteTypes, NEW c \in Client, RouteStep(c)
    PROVE  \A d \in Client \ {c} : post'[d] = post[d]
BY DEF RouteTypes, RouteStep, RouteLooks, RouteAdmits, RouteForwards, RouteIsAnswered,
       RouteReleases, RouteDies, PostGoes

LEMMA ForwardFacts ==
    ASSUME RouteTypes, NEW c \in Client, RouteForwards(c)
    PROVE  /\ post[c].pc = "forward" /\ post[c].job \in Request
           /\ post'[c] \in PostJob /\ post'[c].pc = "wait" /\ post'[c] # Idle
           /\ post'[c].job = post[c].job /\ post'[c].replay = post[c].replay
           /\ client[c] = Idle /\ client'[c] # Idle /\ client'[c].job = post[c].job /\ Says(c)'
           /\ \A d \in Client \ {c} : client'[d] = client[d]
           /\ UNCHANGED <<today, job, spent, keys, killed, doubled>>
<1>1. /\ post[c].pc = "forward" /\ ClientAsks(c, post[c].job) /\ TypeOK
      /\ UNCHANGED <<spent, keys, killed, doubled>>
  BY DEF RouteForwards, RouteTypes
<1>2. post[c] \in [pc: {"forward", "wait"}, job: Request, replay: BOOLEAN]
  BY <1>1 DEF RouteTypes, PostJob, Idle
<1>3. post'[c] = [post[c] EXCEPT !.pc = "wait"]
  BY DEF RouteForwards, PostGoes, RouteTypes
<1>4. post'[c] = [pc |-> "wait", job |-> post[c].job, replay |-> post[c].replay]
  BY <1>2, <1>3
<1>5. post'[c] \in PostJob /\ post'[c] # Idle
  BY <1>2, <1>4 DEF PostJob, Idle
<1>6. post[c].job \in Request
  BY <1>2
<1> QED
  BY <1>1, <1>4, <1>5, <1>6, AskSays

LEMMA AnswerFacts ==
    ASSUME RouteTypes, NEW c \in Client, RouteIsAnswered(c)
    PROVE  /\ post[c].pc = "wait" /\ post[c] # Idle /\ post[c].job \in Request
           /\ client[c].pc = "answer" /\ client[c] # Idle
           /\ post'[c] \in PostJob
           /\ \/ /\ client[c].status = 409 /\ ~post[c].replay
                 /\ post'[c].pc = "release" /\ post'[c].job = post[c].job /\ post'[c] # Idle
              \/ ~(client[c].status = 409 /\ ~post[c].replay) /\ post'[c] = Idle
           /\ client'[c] = Idle
           /\ \A d \in Client \ {c} : client'[d] = client[d]
           /\ UNCHANGED <<today, job, spent, keys, killed, doubled>>
<1>1. /\ post \in [Client -> PostJob] /\ client \in [Client -> ClientJob]
      /\ post[c].pc = "wait" /\ client[c].pc = "answer" /\ post[c] \in PostJob
      /\ UNCHANGED <<today, job, spent, keys, killed, doubled>>
  BY DEF RouteTypes, TypeOK, RouteIsAnswered, ClientIsAnswered, ClientGoes
<1>2. post[c] \in [pc: {"forward", "wait"}, job: Request, replay: BOOLEAN]
  BY <1>1 DEF PostJob, Idle
<1>3. post'[c] = IF Releases(client[c], post[c].replay)
                 THEN [pc |-> "release", job |-> post[c].job] ELSE Idle
  BY <1>1 DEF RouteIsAnswered, PostGoes
<1>4. client' = [client EXCEPT ![c] = Idle]
  BY DEF RouteIsAnswered, ClientIsAnswered, ClientGoes
<1>5. /\ post'[c] \in PostJob
      /\ \/ /\ client[c].status = 409 /\ ~post[c].replay
            /\ post'[c].pc = "release" /\ post'[c].job = post[c].job /\ post'[c] # Idle
         \/ ~(client[c].status = 409 /\ ~post[c].replay) /\ post'[c] = Idle
  BY <1>2, <1>3 DEF Releases, PostJob, Idle
<1> QED
  BY <1>1, <1>2, <1>4, <1>5 DEF Idle

LEMMA TypesStay ==
    ASSUME RouteTypes, RouteNext
    PROVE  RouteTypes'
<1>1. /\ TypeOK' /\ post \in [Client -> PostJob] /\ keys \subseteq Day \X Request
      /\ killed \subseteq Request /\ doubled \subseteq Request
      /\ \A k \in keys : k[1] <= today
      /\ today \in Day /\ Day \subseteq Nat /\ TypeOK /\ Idle \in PostJob
  BY RequestRows, ConstantFacts DEF RouteTypes, TypeOK, PostJob
<1>2. ASSUME NEW c \in Client, NEW r \in Request, RouteLooks(c, r) PROVE RouteTypes'
  <2>1. [pc |-> "admit", job |-> r] \in PostJob
    BY DEF PostJob
  <2> QED
    BY <1>1, <1>2, <2>1 DEF RouteLooks, PostGoes, RouteTypes, vars
<1>3. ASSUME NEW c \in Client, RouteAdmits(c) PROVE RouteTypes'
  <2>1. post[c].job \in Request
    BY <1>3, PostFacts DEF RouteAdmits, Idle
  <2>2. \A b \in BOOLEAN : [pc |-> "forward", job |-> post[c].job, replay |-> b] \in PostJob
    BY <2>1 DEF PostJob
  <2>3. post' \in [Client -> PostJob]
    BY <1>1, <1>3, <2>2 DEF RouteAdmits, PostGoes
  <2>4. /\ keys' \subseteq keys \cup {<<today, post[c].job>>}
        /\ UNCHANGED <<today, killed, doubled>>
    BY <1>3 DEF RouteAdmits, vars
  <2> QED
    BY <1>1, <2>1, <2>3, <2>4 DEF RouteTypes
<1>4. ASSUME NEW c \in Client, RouteForwards(c) PROVE RouteTypes'
  <2>1. post' \in [Client -> PostJob]
    BY <1>1, <1>4, ForwardFacts DEF RouteForwards, PostGoes
  <2> QED
    BY <1>1, <1>4, <2>1, ForwardFacts DEF RouteTypes
<1>5. ASSUME NEW c \in Client, RouteIsAnswered(c) PROVE RouteTypes'
  <2>1. post' \in [Client -> PostJob]
    BY <1>1, <1>5, AnswerFacts DEF RouteIsAnswered, PostGoes
  <2> QED
    BY <1>1, <1>5, <2>1, AnswerFacts DEF RouteTypes
<1>6. ASSUME NEW c \in Client, RouteReleases(c) PROVE RouteTypes'
  <2>1. /\ post' \in [Client -> PostJob] /\ keys' \subseteq keys
        /\ UNCHANGED <<today, killed, doubled>>
    BY <1>1, <1>6 DEF RouteReleases, PostGoes, vars
  <2> QED
    BY <1>1, <2>1 DEF RouteTypes
<1>7. ASSUME NEW c \in Client, RouteDies(c) PROVE RouteTypes'
  <2>1. post[c].job \in Request
    BY <1>7, PostFacts DEF RouteDies, Idle
  <2> QED
    BY <1>1, <1>7, <2>1 DEF RouteDies, PostGoes, RouteTypes
<1>8. ASSUME UNCHANGED routeVars, Runs \/ \E c \in Client : ClientInserts(c) \/ ClientSends(c)
      PROVE  RouteTypes'
  <2>1. today' \in Day /\ today <= today'
    BY <1>1, <1>8, RunsFrame DEF ClientInserts, ClientSends, ClientGoes
  <2>2. ASSUME NEW k \in keys PROVE k[1] <= today'
    <3>1. k[1] \in Day /\ k[1] <= today
      BY <1>1
    <3>2. k[1] \in Nat /\ today \in Nat /\ today' \in Nat
      BY <1>1, <2>1, <3>1
    <3> QED
      BY <2>1, <3>1, <3>2
  <2> QED
    BY <1>1, <1>8, <2>1, <2>2 DEF RouteTypes, routeVars
<1> QED
  BY <1>2, <1>3, <1>4, <1>5, <1>6, <1>7, <1>8 DEF RouteNext, RouteStep
-----------------------------------------------------------------------------
(* Calls and answers *)

\* A step of the URLScan Worker on its own.
ScanAlone ==
    /\ UNCHANGED routeVars
    /\ Runs \/ \E c \in Client : ClientInserts(c) \/ ClientSends(c)

\* What a client of such a step goes on with.
LEMMA ScanFacts ==
    ASSUME RouteTypes, AnswersAreTrue, ScanAlone, NEW c \in Client
    PROVE  /\ \/ client'[c] = client[c]
              \/ /\ client[c] # Idle /\ client'[c] # Idle
                 /\ client'[c].job = client[c].job /\ Says(c)'
           /\ today' \in {today, today + 1} /\ today <= today' /\ today' \in Day
<1>1. TypeOK /\ today \in Day /\ Day \subseteq Nat
  BY ConstantFacts DEF RouteTypes, TypeOK
<1>2. CASE Runs
  BY <1>1, <1>2, RunsFrame
<1>3. ASSUME NEW d \in Client, ClientInserts(d) \/ ClientSends(d)
      PROVE  /\ \/ client'[c] = client[c]
                \/ /\ client[c] # Idle /\ client'[c] # Idle
                   /\ client'[c].job = client[c].job /\ Says(c)'
             /\ UNCHANGED today
  <2>1. Says(d)
    BY <1>3 DEF AnswersAreTrue, Says, ClientInserts, ClientSends
  <2>2. /\ client[d] # Idle /\ client'[d] # Idle
        /\ client'[d].job = client[d].job /\ Says(d)'
        /\ \A e \in Client \ {d} : client'[e] = client[e]
        /\ UNCHANGED today
    BY <1>1, <1>3, <2>1, StepSays
  <2> QED
    BY <2>2
<1> QED
  BY <1>1, <1>2, <1>3 DEF ScanAlone

LEMMA CallsStay ==
    ASSUME RouteTypes, CallsAreWaitedFor, AnswersAreTrue, RouteNext
    PROVE  CallsAreWaitedFor'
<1>1. \A c \in Client : RouteStep(c) => \A d \in Client \ {c} : post'[d] = post[d]
  BY OtherPosts
<1>2. ASSUME NEW c \in Client, UNCHANGED client, post'[c].pc # "wait", post[c].pc # "wait",
             \A d \in Client \ {c} : post'[d] = post[d]
      PROVE  CallsAreWaitedFor'
  BY <1>2 DEF CallsAreWaitedFor
<1>3. ASSUME NEW c \in Client,
             (\E r \in Request : RouteLooks(c, r)) \/ RouteAdmits(c) \/ RouteReleases(c)
               \/ RouteDies(c)
      PROVE  CallsAreWaitedFor'
  <2>1. UNCHANGED client /\ post[c].pc # "wait" /\ post'[c].pc # "wait"
    BY <1>3 DEF RouteLooks, RouteAdmits, RouteReleases, RouteDies, PostGoes, RouteTypes, vars,
           Idle
  <2> QED
    BY <1>1, <1>2, <1>3, <2>1 DEF RouteStep
<1>4. ASSUME NEW c \in Client, RouteForwards(c) PROVE CallsAreWaitedFor'
  BY <1>1, <1>4, ForwardFacts DEF CallsAreWaitedFor, RouteStep
<1>5. ASSUME NEW c \in Client, RouteIsAnswered(c) PROVE CallsAreWaitedFor'
  <2>1. post'[c].pc # "wait"
    BY <1>5, AnswerFacts DEF Idle
  <2> QED
    BY <1>1, <1>5, <2>1, AnswerFacts DEF CallsAreWaitedFor, RouteStep
<1>6. CASE ScanAlone
  BY <1>6, ScanFacts DEF CallsAreWaitedFor, ScanAlone, routeVars
<1> QED
  BY <1>3, <1>4, <1>5, <1>6 DEF RouteNext, RouteStep, ScanAlone

\* A client that inserts r is the only one at a request that is posted in turn.
LEMMA InsertedAlone ==
    ASSUME RouteTypes, CallsAreWaitedFor, PostedInTurn, RouteNext,
           NEW r \in Request \ doubled, ~IsThere(r), IsThere(r)',
           NEW d \in Client, IsPosting(d, r)
    PROVE  client[d].pc = "insert" /\ post[d].pc = "wait"
<1>1. PICK c \in Client : client[c].pc = "insert" /\ client[c].job = r
  BY RequestRows
<1>2. post[c].pc = "wait" /\ IsPosting(c, r)
  BY <1>1 DEF CallsAreWaitedFor, IsPosting, Idle
<1> QED
  BY <1>1, <1>2 DEF PostedInTurn

LEMMA AnswersStayTrue ==
    ASSUME RouteTypes, CallsAreWaitedFor, AnswersAreTrue, PostedInTurn, RouteNext
    PROVE  AnswersAreTrue'
<1>1. doubled \subseteq doubled'
  BY DEF RouteNext, RouteStep, RouteLooks, RouteAdmits, RouteForwards, RouteIsAnswered,
         RouteReleases, RouteDies, routeVars
<1> SUFFICES ASSUME NEW c \in Client
             PROVE  /\ client'[c].pc = "send" => IsThere(client[c].job)'
                    /\ client'[c].pc = "answer" /\ client'[c].status # 409 =>
                         IsThere(client[c].job)'
                    /\ client'[c].pc = "answer" /\ client'[c].status = 409
                         /\ client'[c].job \notin doubled' => ~IsThere(client[c].job)'
  BY DEF AnswersAreTrue
<1>2. \/ client'[c] = client[c]
      \/ client'[c] = Idle
      \/ Says(c)'
  <2>1. ASSUME NEW d \in Client, RouteForwards(d)
        PROVE  client'[c] = client[c] \/ Says(c)'
    BY <2>1, ForwardFacts
  <2>2. ASSUME NEW d \in Client, RouteIsAnswered(d)
        PROVE  client'[c] = client[c] \/ client'[c] = Idle
    BY <2>2, AnswerFacts
  <2>3. ASSUME NEW d \in Client,
               (\E r \in Request : RouteLooks(d, r)) \/ RouteAdmits(d) \/ RouteReleases(d)
                 \/ RouteDies(d)
        PROVE  client'[c] = client[c]
    BY <2>3 DEF RouteLooks, RouteAdmits, RouteReleases, RouteDies, vars
  <2>4. ScanAlone => client'[c] = client[c] \/ Says(c)'
    BY ScanFacts
  <2> QED
    BY <2>1, <2>2, <2>3, <2>4 DEF RouteNext, RouteStep, ScanAlone
<1>3. CASE client'[c] = Idle
  BY <1>3 DEF Idle
<1>4. CASE Says(c)'
  BY <1>4 DEF Says
<1>5. CASE client'[c] = client[c] /\ client[c] # Idle
  <2>1. client[c].job \in Request /\ IsPosting(c, client[c].job)
    BY <1>5, ClientFacts DEF CallsAreWaitedFor, IsPosting, RouteTypes, Idle
  <2>2. IsThere(client[c].job) => IsThere(client[c].job)'
    BY <1>5, <2>1, RequestRows
  <2>3. ASSUME client[c].pc = "answer", client[c].job \notin doubled, ~IsThere(client[c].job)
        PROVE  ~IsThere(client[c].job)'
    BY <2>1, <2>3, <1>5, InsertedAlone
  <2> QED
    BY <1>1, <1>5, <2>2, <2>3 DEF AnswersAreTrue
<1> QED
  BY <1>2, <1>3, <1>4, <1>5
-----------------------------------------------------------------------------
(* Charges *)

\* A post, and what is in the ledger, stay but for a step of a call.
LEMMA LooksFacts ==
    ASSUME RouteTypes, NEW c \in Client, NEW r \in Request, RouteLooks(c, r)
    PROVE  /\ post[c] = Idle /\ post'[c] # Idle /\ post'[c].pc = "admit" /\ post'[c].job = r
           /\ \A d \in Client \ {c} : post'[d] = post[d]
           /\ doubled' = IF AtWork(r) THEN doubled \cup {r} ELSE doubled
           /\ UNCHANGED <<today, job, client, spent, keys, killed>>
BY DEF RouteLooks, RouteTypes, PostGoes, Idle, vars

LEMMA AdmitsFacts ==
    ASSUME RouteTypes, NEW c \in Client, RouteAdmits(c)
    PROVE  /\ post[c].pc = "admit" /\ post[c] # Idle /\ post[c].job \in Request
           /\ \A d \in Client \ {c} : post'[d] = post[d]
           /\ \/ /\ <<today, post[c].job>> \in keys /\ UNCHANGED <<spent, keys>>
                 /\ post'[c].pc = "forward" /\ post'[c].job = post[c].job /\ post'[c].replay
              \/ /\ <<today, post[c].job>> \notin keys /\ spent[today] < Allowance
                 /\ spent' = [spent EXCEPT ![today] = @ + 1]
                 /\ keys' = keys \cup {<<today, post[c].job>>}
                 /\ post'[c].pc = "forward" /\ post'[c].job = post[c].job /\ ~post'[c].replay
              \/ UNCHANGED <<spent, keys>> /\ post'[c] = Idle
           /\ UNCHANGED <<today, job, client, killed, doubled>>
<1>1. post[c].pc = "admit" /\ post[c] # Idle /\ post[c].job \in Request
  BY PostFacts DEF RouteAdmits, Idle
<1> QED
  BY <1>1 DEF RouteAdmits, RouteTypes, PostGoes, Replay, vars

LEMMA ReleasesFacts ==
    ASSUME RouteTypes, NEW c \in Client, RouteReleases(c)
    PROVE  /\ post[c].pc = "release" /\ post[c] # Idle /\ post[c].job \in Request
           /\ post'[c] = Idle /\ \A d \in Client \ {c} : post'[d] = post[d]
           /\ \/ /\ <<today, post[c].job>> \in keys
                 /\ spent' = [spent EXCEPT ![today] = @ - 1]
                 /\ keys' = keys \ {<<today, post[c].job>>}
              \/ <<today, post[c].job>> \notin keys /\ UNCHANGED <<spent, keys>>
           /\ UNCHANGED <<today, job, client, killed, doubled>>
<1>1. post[c].pc = "release" /\ post[c] # Idle /\ post[c].job \in Request
  BY PostFacts DEF RouteReleases, Idle
<1> QED
  BY <1>1 DEF RouteReleases, RouteTypes, PostGoes, Replay, vars

LEMMA DiesFacts ==
    ASSUME RouteTypes, NEW c \in Client, RouteDies(c)
    PROVE  /\ post'[c] = Idle /\ \A d \in Client \ {c} : post'[d] = post[d]
           /\ killed' = killed \cup {post[c].job}
           /\ UNCHANGED <<today, job, client, spent, keys, doubled>>
BY DEF RouteDies, RouteTypes, PostGoes

LEMMA TurnsStay ==
    ASSUME RouteTypes, PostedInTurn, RouteNext
    PROVE  PostedInTurn'
<1> SUFFICES ASSUME NEW r \in Request \ doubled', NEW c \in Client, NEW d \in Client,
                    IsPosting(c, r)', IsPosting(d, r)'
             PROVE  c = d
  BY DEF PostedInTurn
<1>1. ASSUME doubled' = doubled, \A e \in Client : IsPosting(e, r)' => IsPosting(e, r)
      PROVE  c = d
  BY <1>1 DEF PostedInTurn
<1>2. ASSUME NEW b \in Client, NEW q \in Request, RouteLooks(b, q) PROVE c = d
  <2>1. CASE q # r
    BY <1>1, <1>2, <2>1, LooksFacts DEF IsPosting, AtWork, PostedInTurn
  <2>2. CASE q = r
    <3>1. ~AtWork(r)
      BY <1>2, <2>2, LooksFacts
    <3>2. \A e \in Client \ {b} : ~IsPosting(e, r)'
      BY <1>2, <3>1, LooksFacts DEF AtWork, IsPosting
    <3> QED
      BY <3>2
  <2> QED
    BY <2>1, <2>2
<1>3. ASSUME NEW b \in Client, RouteAdmits(b) PROVE c = d
  BY <1>1, <1>3, AdmitsFacts DEF IsPosting
<1>4. ASSUME NEW b \in Client, RouteForwards(b) PROVE c = d
  BY <1>1, <1>4, ForwardFacts, OtherPosts, PostFacts DEF IsPosting, RouteStep, Idle
<1>5. ASSUME NEW b \in Client, RouteIsAnswered(b) PROVE c = d
  BY <1>1, <1>5, AnswerFacts, OtherPosts DEF IsPosting, RouteStep
<1>6. ASSUME NEW b \in Client, RouteReleases(b) PROVE c = d
  BY <1>1, <1>6, ReleasesFacts DEF IsPosting
<1>7. ASSUME NEW b \in Client, RouteDies(b) PROVE c = d
  BY <1>1, <1>7, DiesFacts DEF IsPosting
<1>8. CASE ScanAlone
  BY <1>1, <1>8 DEF ScanAlone, routeVars, IsPosting
<1> QED
  BY <1>2, <1>3, <1>4, <1>5, <1>6, <1>7, <1>8 DEF RouteNext, RouteStep, ScanAlone

\* The unit of today is held until the call that charged it is answered.
LEMMA ChargesStay ==
    ASSUME RouteTypes, CallsAreWaitedFor, AnswersAreTrue, ChargesAreHeld, RouteNext
    PROVE  ChargesAreHeld'
<1> SUFFICES ASSUME NEW r \in Request \ killed', <<today', r>> \in keys', ~IsThere(r)'
             PROVE  \E c \in Client : IsCharging(c, r)'
  BY DEF ChargesAreHeld
<1>1. ~IsThere(r)
  BY RequestRows
<1>2. ASSUME <<today, r>> \in keys, r \notin killed
      PROVE  \E c \in Client : IsCharging(c, r)
  BY <1>1, <1>2 DEF ChargesAreHeld
<1>3. ASSUME NEW b \in Client, NEW q \in Request, RouteLooks(b, q)
      PROVE  \E c \in Client : IsCharging(c, r)'
  <2>1. PICK c \in Client : IsCharging(c, r)
    BY <1>2, <1>3, LooksFacts
  <2>2. c # b
    BY <1>3, <2>1, LooksFacts DEF IsCharging, IsPosting
  <2> QED
    BY <1>3, <2>1, <2>2, LooksFacts DEF IsCharging, IsPosting
<1>4. ASSUME NEW b \in Client, RouteAdmits(b) PROVE \E c \in Client : IsCharging(c, r)'
  <2>1. CASE <<today, r>> \in keys
    <3>1. PICK c \in Client : IsCharging(c, r)
      BY <1>2, <1>4, <2>1, AdmitsFacts
    <3>2. c # b
      BY <1>4, <3>1, AdmitsFacts DEF IsCharging
    <3> QED
      BY <1>4, <3>1, <3>2, AdmitsFacts DEF IsCharging, IsPosting
  <2>2. CASE <<today, r>> \notin keys
    <3>1. <<today, r>> \in keys' /\ keys' # keys
      <4>1. today' = today
        BY <1>4, AdmitsFacts
      <4> QED
        BY <2>2, <4>1
    <3>2. /\ keys' = keys \cup {<<today, post[b].job>>}
          /\ post'[b].pc = "forward" /\ post'[b].job = post[b].job /\ ~post'[b].replay
      BY <1>4, <3>1, AdmitsFacts
    <3>3. post[b].job = r
      BY <2>2, <3>1, <3>2
    <3> QED
      BY <3>2, <3>3 DEF IsCharging, IsPosting, Idle
  <2> QED
    BY <2>1, <2>2
<1>5. ASSUME NEW b \in Client, RouteForwards(b) PROVE \E c \in Client : IsCharging(c, r)'
  <2>1. PICK c \in Client : IsCharging(c, r)
    BY <1>2, <1>5, ForwardFacts
  <2>2. CASE c = b
    BY <1>5, <2>1, <2>2, ForwardFacts DEF IsCharging, IsPosting
  <2>3. CASE c # b
    BY <1>5, <2>1, <2>3, OtherPosts DEF IsCharging, IsPosting, RouteStep
  <2> QED
    BY <2>2, <2>3
<1>6. ASSUME NEW b \in Client, RouteIsAnswered(b) PROVE \E c \in Client : IsCharging(c, r)'
  <2>1. PICK c \in Client : IsCharging(c, r)
    BY <1>2, <1>6, AnswerFacts
  <2>2. CASE c = b
    <3>1. client[b].job = r /\ client[b].pc = "answer"
      BY <1>6, <2>1, <2>2, AnswerFacts DEF CallsAreWaitedFor, IsCharging, IsPosting
    <3>2. client[b].status = 409
      BY <1>1, <3>1 DEF AnswersAreTrue
    <3>3. ~post[b].replay /\ post[b].job = r
      BY <1>6, <2>1, <2>2, AnswerFacts DEF IsCharging, IsPosting
    <3> QED
      BY <1>6, <3>2, <3>3, AnswerFacts DEF IsCharging, IsPosting
  <2>3. CASE c # b
    BY <1>6, <2>1, <2>3, OtherPosts DEF IsCharging, IsPosting, RouteStep
  <2> QED
    BY <2>2, <2>3
<1>7. ASSUME NEW b \in Client, RouteReleases(b) PROVE \E c \in Client : IsCharging(c, r)'
  <2>1. <<today, r>> \in keys' /\ today' = today /\ killed' = killed
    BY <1>7, ReleasesFacts
  <2>2. <<today, r>> \in keys /\ post[b].job # r
    BY <1>7, <2>1, ReleasesFacts
  <2>3. PICK c \in Client : IsCharging(c, r)
    BY <1>2, <2>1, <2>2
  <2>4. c # b
    BY <2>2, <2>3 DEF IsCharging, IsPosting
  <2> QED
    BY <1>7, <2>3, <2>4, ReleasesFacts DEF IsCharging, IsPosting
<1>8. ASSUME NEW b \in Client, RouteDies(b) PROVE \E c \in Client : IsCharging(c, r)'
  <2>1. PICK c \in Client : IsCharging(c, r)
    BY <1>2, <1>8, DiesFacts
  <2>2. c # b
    BY <1>8, <2>1, DiesFacts DEF IsCharging, IsPosting
  <2> QED
    BY <1>8, <2>1, <2>2, DiesFacts DEF IsCharging, IsPosting
<1>9. CASE ScanAlone
  <2>1. today' = today
    <3>1. <<today', r>> \in keys
      BY <1>9 DEF ScanAlone, routeVars
    <3>2. today' <= today
      BY <3>1 DEF RouteTypes
    <3>3. today' \in {today, today + 1} /\ today <= today' /\ today \in Nat
      BY <1>9, RunsFrame, ConstantFacts
         DEF ScanAlone, ClientInserts, ClientSends, ClientGoes, RouteTypes, TypeOK
    <3> QED
      BY <3>2, <3>3
  <2> QED
    BY <1>2, <1>9, <2>1 DEF ScanAlone, routeVars, IsCharging, IsPosting
<1> QED
  BY <1>3, <1>4, <1>5, <1>6, <1>7, <1>8, <1>9 DEF RouteNext, RouteStep, ScanAlone

LEMMA AdmittedStay ==
    ASSUME RouteTypes, CallsAreWaitedFor, AnswersAreTrue, PostedInTurn, ForwardedIsCharged,
           RouteNext
    PROVE  ForwardedIsCharged'
<1>1. doubled \subseteq doubled'
  BY DEF RouteNext, RouteStep, RouteLooks, RouteAdmits, RouteForwards, RouteIsAnswered,
         RouteReleases, RouteDies, routeVars
<1> SUFFICES ASSUME NEW r \in Request \ doubled'
             PROVE  IsAccountedFor(r)'
  BY DEF ForwardedIsCharged
<1>2. r \in Request /\ r \notin doubled /\ IsAccountedFor(r)
  BY <1>1 DEF ForwardedIsCharged
<1>3. IsThere(r)' => WasCharged(r)
  <2>1. CASE IsThere(r)
    BY <1>2, <2>1 DEF IsAccountedFor
  <2>2. CASE ~IsThere(r) /\ IsThere(r)'
    <3>1. PICK c \in Client : client[c].pc = "insert" /\ client[c].job = r
      BY <1>2, <2>2, RequestRows
    <3>2. IsPosting(c, r) /\ post[c].pc = "wait"
      BY <3>1 DEF CallsAreWaitedFor, IsPosting, Idle
    <3> QED
      BY <1>2, <3>2 DEF IsAccountedFor
  <2> QED
    BY <2>1, <2>2
<1>4. ASSUME NEW c \in Client, IsPosting(c, r), post[c].pc = "release"
      PROVE  ~IsThere(r)'
  BY <1>2, <1>4, InsertedAlone DEF IsAccountedFor
<1>5. ASSUME NEW b \in Client, \A d \in Client \ {b} : post'[d] = post[d], keys \subseteq keys',
             IsPosting(b, r)' /\ post'[b].pc \in {"forward", "wait"} => WasCharged(r)',
             IsPosting(b, r)' /\ post'[b].pc = "release" => ~IsThere(r)'
      PROVE  IsAccountedFor(r)'
  <2>1. WasCharged(r) => WasCharged(r)'
    BY <1>5 DEF WasCharged
  <2>2. ASSUME NEW c \in Client, c # b, IsPosting(c, r)'
        PROVE  /\ post'[c].pc \in {"forward", "wait"} => WasCharged(r)'
               /\ post'[c].pc = "release" => ~IsThere(r)'
    BY <1>2, <1>4, <1>5, <2>1, <2>2 DEF IsPosting, IsAccountedFor
  <2> QED
    BY <1>3, <1>5, <2>1, <2>2 DEF IsAccountedFor
<1>6. ASSUME NEW b \in Client, NEW q \in Request, RouteLooks(b, q) PROVE IsAccountedFor(r)'
  BY <1>5, <1>6, LooksFacts
<1>7. ASSUME NEW b \in Client, RouteAdmits(b) PROVE IsAccountedFor(r)'
  <2>1. /\ \/ post'[b] = Idle
           \/ /\ post'[b].pc = "forward" /\ post'[b].job = post[b].job
              /\ <<today, post[b].job>> \in keys'
        /\ keys \subseteq keys' /\ \A d \in Client \ {b} : post'[d] = post[d]
    <3>1. \/ keys' = keys /\ <<today, post[b].job>> \in keys /\ post'[b].pc = "forward"
             /\ post'[b].job = post[b].job
          \/ keys' = keys \cup {<<today, post[b].job>>} /\ post'[b].pc = "forward"
             /\ post'[b].job = post[b].job
          \/ keys' = keys /\ post'[b] = Idle
      BY <1>7, AdmitsFacts
    <3>2. \A d \in Client \ {b} : post'[d] = post[d]
      BY <1>7, AdmitsFacts
    <3> QED
      BY <3>1, <3>2
  <2>2. IsPosting(b, r)' => WasCharged(r)'
    BY <2>1 DEF IsPosting, WasCharged, RouteTypes, TypeOK
  <2> QED
    BY <1>5, <2>1, <2>2 DEF IsPosting, Idle
<1>8. ASSUME NEW b \in Client, RouteForwards(b) PROVE IsAccountedFor(r)'
  <2>1. IsPosting(b, r)' => WasCharged(r)
    BY <1>2, <1>8, ForwardFacts DEF IsPosting, IsAccountedFor, Idle
  <2>2. keys' = keys /\ WasCharged(r)' = WasCharged(r)
    BY <1>8, ForwardFacts DEF WasCharged
  <2> QED
    BY <1>5, <1>8, <2>1, <2>2, ForwardFacts, OtherPosts DEF RouteStep
<1>9. ASSUME NEW b \in Client, RouteIsAnswered(b) PROVE IsAccountedFor(r)'
  <2>1. ASSUME IsPosting(b, r)'
        PROVE  post'[b].pc = "release" /\ ~IsThere(r)'
    <3>1. /\ client[b].status = 409 /\ client[b].pc = "answer" /\ client[b] # Idle
          /\ post'[b].pc = "release" /\ post[b].job = r
      BY <1>9, <2>1, AnswerFacts DEF IsPosting
    <3>2. ~IsThere(r)
      BY <1>2, <3>1 DEF AnswersAreTrue, CallsAreWaitedFor
    <3> QED
      BY <1>9, <3>1, <3>2, AnswerFacts DEF IsThere
  <2> QED
    BY <1>5, <1>9, <2>1, AnswerFacts, OtherPosts DEF RouteStep
<1>10. ASSUME NEW b \in Client, RouteReleases(b) PROVE IsAccountedFor(r)'
  <2>1. CASE post[b].job = r
    <3>1. IsPosting(b, r) /\ post[b].pc = "release" /\ post'[b] = Idle
      BY <1>10, <2>1, ReleasesFacts DEF IsPosting
    <3>2. ~IsThere(r)'
      BY <1>4, <3>1
    <3>3. ASSUME NEW c \in Client, IsPosting(c, r)' PROVE FALSE
      <4>1. c # b
        BY <3>1, <3>3 DEF IsPosting
      <4>2. IsPosting(c, r)
        BY <1>10, <3>3, <4>1, ReleasesFacts DEF IsPosting
      <4> QED
        BY <1>2, <3>1, <4>1, <4>2 DEF PostedInTurn
    <3> QED
      BY <3>2, <3>3 DEF IsAccountedFor
  <2>2. CASE post[b].job # r
    <3>1. WasCharged(r) => WasCharged(r)'
      BY <1>10, <2>2, ReleasesFacts DEF WasCharged
    <3>2. \A c \in Client : IsPosting(c, r)' => IsPosting(c, r) /\ post'[c] = post[c]
      BY <1>10, ReleasesFacts DEF IsPosting
    <3> QED
      BY <1>2, <1>3, <1>4, <3>1, <3>2 DEF IsAccountedFor
  <2> QED
    BY <2>1, <2>2
<1>11. ASSUME NEW b \in Client, RouteDies(b) PROVE IsAccountedFor(r)'
  BY <1>5, <1>11, DiesFacts DEF IsPosting
<1>12. CASE ScanAlone
  <2>1. post' = post /\ (WasCharged(r)' <=> WasCharged(r))
    BY <1>12 DEF ScanAlone, routeVars, WasCharged
  <2>2. \A c \in Client : IsPosting(c, r)' => IsPosting(c, r) /\ post'[c] = post[c]
    BY <2>1 DEF IsPosting
  <2> QED
    BY <1>2, <1>3, <1>4, <2>1, <2>2 DEF IsAccountedFor
<1> QED
  BY <1>6, <1>7, <1>8, <1>9, <1>10, <1>11, <1>12 DEF RouteNext, RouteStep, ScanAlone
-----------------------------------------------------------------------------
(* The ledger *)

LEMMA LedgerStays ==
    ASSUME RouteTypes, LedgerIsExact, spent \in [Day -> Int], RouteNext
    PROVE  LedgerIsExact' /\ spent' \in [Day -> Int]
<1>1. /\ today \in Day /\ Allowance \in Nat
      /\ \A d \in Day : IsFiniteSet(ChargedOn(d)) /\ Cardinality(ChargedOn(d)) \in Nat
  BY EnrichmentAssumption, FS_CardinalityType DEF RouteTypes, TypeOK, LedgerIsExact
<1> PICK t \in Day : t = today
  BY <1>1
<1>2. CASE UNCHANGED <<spent, keys>>
  BY <1>2 DEF LedgerIsExact, ChargedOn
\* Of the sets of a day, only that of today changes.
<1>3. ASSUME NEW r \in Request, keys' \in {keys \cup {<<today, r>>}, keys \ {<<today, r>>}}
      PROVE  \A d \in Day \ {today} : ChargedOn(d)' = ChargedOn(d)
  BY <1>3 DEF ChargedOn
<1>4. ASSUME NEW r \in Request, <<today, r>> \notin keys, spent[today] < Allowance,
             spent' = [spent EXCEPT ![today] = @ + 1], keys' = keys \cup {<<today, r>>}
      PROVE  LedgerIsExact' /\ spent' \in [Day -> Int]
  <2>1. ChargedOn(t)' = ChargedOn(t) \cup {r} /\ r \notin ChargedOn(t)
    BY <1>4 DEF ChargedOn
  <2>2. /\ IsFiniteSet(ChargedOn(t) \cup {r})
        /\ Cardinality(ChargedOn(t) \cup {r}) = Cardinality(ChargedOn(t)) + 1
    BY <1>1, <2>1, FS_AddElement
  <2>3. spent[today] = Cardinality(ChargedOn(t))
    BY <1>1 DEF LedgerIsExact
  <2>4. spent'[today] = Cardinality(ChargedOn(t)) + 1 /\ spent'[today] <= Allowance
    BY <1>1, <1>4, <2>3
  <2>5. \A d \in Day \ {today} : spent'[d] = spent[d] /\ ChargedOn(d)' = ChargedOn(d)
    BY <1>3, <1>4
  <2>6. ASSUME NEW d \in Day
        PROVE  /\ IsFiniteSet(ChargedOn(d)')
               /\ spent'[d] = Cardinality(ChargedOn(d)') /\ spent'[d] <= Allowance
    <3>1. CASE d = t
      BY <2>1, <2>2, <2>4, <3>1
    <3>2. CASE d # t
      <4>1. spent'[d] = spent[d] /\ ChargedOn(d)' = ChargedOn(d)
        BY <2>5, <3>2
      <4> QED
        BY <4>1 DEF LedgerIsExact
    <3> QED
      BY <3>1, <3>2
  <2>7. spent' \in [Day -> Int]
    BY <1>4
  <2> QED
    BY <2>6, <2>7 DEF LedgerIsExact
<1>5. ASSUME NEW r \in Request, <<today, r>> \in keys,
             spent' = [spent EXCEPT ![today] = @ - 1], keys' = keys \ {<<today, r>>}
      PROVE  LedgerIsExact' /\ spent' \in [Day -> Int]
  <2>1. ChargedOn(t)' = ChargedOn(t) \ {r} /\ r \in ChargedOn(t)
    BY <1>5 DEF ChargedOn
  <2>2. /\ IsFiniteSet(ChargedOn(t) \ {r})
        /\ Cardinality(ChargedOn(t) \ {r}) = Cardinality(ChargedOn(t)) - 1
    BY <1>1, <2>1, FS_RemoveElement
  <2>3. spent[today] = Cardinality(ChargedOn(t)) /\ spent[today] <= Allowance
    BY <1>1 DEF LedgerIsExact
  <2>4. spent'[today] = Cardinality(ChargedOn(t)) - 1 /\ spent'[today] <= Allowance
    BY <1>1, <1>5, <2>3
  <2>5. \A d \in Day \ {today} : spent'[d] = spent[d] /\ ChargedOn(d)' = ChargedOn(d)
    BY <1>3, <1>5
  <2>6. ASSUME NEW d \in Day
        PROVE  /\ IsFiniteSet(ChargedOn(d)')
               /\ spent'[d] = Cardinality(ChargedOn(d)') /\ spent'[d] <= Allowance
    <3>1. CASE d = t
      BY <2>1, <2>2, <2>4, <3>1
    <3>2. CASE d # t
      <4>1. spent'[d] = spent[d] /\ ChargedOn(d)' = ChargedOn(d)
        BY <2>5, <3>2
      <4> QED
        BY <4>1 DEF LedgerIsExact
    <3> QED
      BY <3>1, <3>2
  <2>7. spent' \in [Day -> Int]
    BY <1>5
  <2> QED
    BY <2>6, <2>7 DEF LedgerIsExact
<1>6. ASSUME NEW c \in Client, RouteAdmits(c) PROVE LedgerIsExact' /\ spent' \in [Day -> Int]
  BY <1>2, <1>4, <1>6, AdmitsFacts
<1>7. ASSUME NEW c \in Client, RouteReleases(c) PROVE LedgerIsExact' /\ spent' \in [Day -> Int]
  BY <1>2, <1>5, <1>7, ReleasesFacts
<1> QED
  BY <1>2, <1>6, <1>7 DEF RouteNext, RouteStep, RouteLooks, RouteForwards, RouteIsAnswered,
     RouteDies, routeVars
-----------------------------------------------------------------------------
(* Theorems *)

LEMMA RouteInvInit == RouteInit => RouteInv /\ LedgerIsExact /\ spent \in [Day -> Int]
<1> SUFFICES ASSUME RouteInit
             PROVE  RouteInv /\ LedgerIsExact /\ spent \in [Day -> Int]
  OBVIOUS
<1>1. RouteTypes
  BY InitType DEF RouteInit, RouteTypes, PostJob
<1>2. CallsAreWaitedFor /\ AnswersAreTrue /\ PostedInTurn /\ ChargesAreHeld
  BY DEF RouteInit, Init, CallsAreWaitedFor, AnswersAreTrue, PostedInTurn, ChargesAreHeld,
         IsPosting, Idle
<1>3. \A r \in Request : ~IsThere(r)
  BY RequestFacts DEF RouteInit, Init, IsThere, NoRow
<1>4. ForwardedIsCharged
  BY <1>3 DEF RouteInit, ForwardedIsCharged, IsAccountedFor, IsPosting
<1>5. \A d \in Day : ChargedOn(d) = {} /\ spent[d] = 0
  BY DEF RouteInit, ChargedOn
<1>6. LedgerIsExact
  BY <1>5, FS_EmptySet, EnrichmentAssumption DEF LedgerIsExact
<1> QED
  BY <1>1, <1>2, <1>4, <1>6 DEF RouteInv, RouteInit

LEMMA RouteInvStep == RouteInv /\ RouteNext => RouteInv'
BY TypesStay, CallsStay, AnswersStayTrue, TurnsStay, ChargesStay, AdmittedStay DEF RouteInv

LEMMA RouteStutter ==
    ASSUME RouteInv, UNCHANGED allVars
    PROVE  RouteInv'
<1>1. RouteTypes'
  BY DEF RouteInv, allVars, routeVars, vars, quota, stored, RouteTypes, TypeOK
<1> QED
  BY <1>1 DEF RouteInv, allVars, routeVars, vars, CallsAreWaitedFor, AnswersAreTrue,
     PostedInTurn, ChargesAreHeld, ForwardedIsCharged, IsAccountedFor, IsPosting, IsCharging,
     IsThere, WasCharged

\* The inductive invariant of a request from end to end (enrichmentJobsRoute, the quota
\* ledger and admitEnrichment).
THEOREM RouteInvariant == RouteSpec => []RouteInv
BY RouteInvInit, RouteInvStep, RouteStutter, PTL DEF RouteSpec

\* The allowance a user has used in a day is the number of requests whose key is in the
\* ledger, and never more than there is: no order of charges, retries and releases
\* takes the count below zero or past the allowance (QuotaLedger).
THEOREM LedgerExact == RouteSpec => [](LedgerIsExact /\ RouteTypeOK)
<1> DEFINE Inv == RouteInv /\ LedgerIsExact /\ spent \in [Day -> Int]
<1>1. RouteInit => Inv
  BY RouteInvInit
<1>2. Inv /\ [RouteNext]_allVars => Inv'
  <2>1. CASE RouteNext
    BY <2>1, RouteInvStep, LedgerStays DEF RouteInv
  <2>2. CASE UNCHANGED allVars
    BY <2>2, RouteStutter DEF allVars, routeVars, LedgerIsExact, ChargedOn
  <2> QED
    BY <2>1, <2>2
<1>3. Inv => LedgerIsExact /\ RouteTypeOK
  <2> SUFFICES ASSUME Inv
               PROVE  LedgerIsExact /\ RouteTypeOK
    OBVIOUS
  <2>1. \A d \in Day : spent[d] \in 0..Allowance
    BY FS_CardinalityType, EnrichmentAssumption DEF LedgerIsExact
  <2>2. spent \in [Day -> 0..Allowance]
    BY <2>1
  <2> QED
    BY <2>2 DEF RouteTypeOK, RouteInv, RouteTypes
<1> QED
  BY <1>1, <1>2, <1>3, PTL DEF RouteSpec

\* A refused request costs nothing, whatever day, call or retry it is refused in
\* (releaseQuota).
THEOREM RefusalsAreFree == RouteSpec => []NoChargeForNothing
<1>1. RouteInv => NoChargeForNothing
  BY DEF RouteInv, ChargesAreHeld, NoChargeForNothing, IsCharging, IsPosting, IsThere, AtWork
<1> QED
  BY <1>1, RouteInvariant, PTL

\* An admitted request was charged, if it was posted in turn (admitQuota comes before
\* the request is forwarded, and a release only after it was refused).
THEOREM AdmissionsAreCharged == RouteSpec => []AdmittedIsChargedIfPostedInTurn
<1>1. RouteInv => AdmittedIsChargedIfPostedInTurn
  BY DEF RouteInv, ForwardedIsCharged, IsAccountedFor, AdmittedIsChargedIfPostedInTurn,
         IsThere, WasCharged
<1> QED
  BY <1>1, RouteInvariant, PTL
=============================================================================
