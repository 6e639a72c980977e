----------------------------- MODULE Enrichment -----------------------------
(***************************************************************************)
(* A user's request for enrichment, from end to end: the route of the read *)
(* Worker (cloudflare/index-worker), which charges it to the daily         *)
(* allowance of the user in the quota ledger, and the URLScan Worker, which*)
(* admits and runs it (UrlScan).                                           *)
(*                                                                         *)
(* The ledger is a Durable Object, each call of it one transaction.  The   *)
(* route calls the ledger and the URLScan Worker in turn.  A user has one  *)
(* ledger row for a day; Client is a POST of that user, under a key that   *)
(* gives the request its job_id.                                           *)
(***************************************************************************)
EXTENDS UrlScan

CONSTANT Allowance    \* searches of a user in a day

ASSUME EnrichmentAssumption == Allowance \in Nat

VARIABLES
    spent,    \* request_counts: units used in a day
    keys,     \* admission_keys: the requests charged in a day
    post,     \* the calls of the route
    killed,   \* history: requests whose call of the route died
    doubled   \* history: requests posted again before the answer

routeVars == <<spent, keys, post, killed, doubled>>

allVars == <<vars, routeVars>>

PostJob == {Idle}
    \cup [pc: {"admit"}, job: Request]
    \cup [pc: {"forward", "wait"}, job: Request, replay: BOOLEAN]
    \cup [pc: {"release"}, job: Request]

RouteTypeOK ==
    /\ TypeOK
    /\ spent \in [Day -> 0..Allowance]
    /\ keys \subseteq Day \X Request
    /\ post \in [Client -> PostJob]
    /\ killed \subseteq Request /\ doubled \subseteq Request

RouteInit ==
    /\ Init
    /\ spent = [d \in Day |-> 0]
    /\ keys = {}
    /\ post = [c \in Client |-> Idle]
    /\ killed = {} /\ doubled = {}
-----------------------------------------------------------------------------
PostGoes(c, at) == post' = [post EXCEPT ![c] = at]

AtWork(r) == \E c \in Client : post[c] # Idle /\ post[c].job = r

\* A request whose job is there and no longer queued is answered with it.
RouteLooks(c, r) ==
    /\ post[c] = Idle
    /\ job[r].state \in {"absent", "queued"}
    /\ PostGoes(c, [pc |-> "admit", job |-> r])
    /\ doubled' = IF AtWork(r) THEN doubled \cup {r} ELSE doubled
    /\ UNCHANGED <<vars, spent, keys, killed>>

\* The keys of the ledger end with the day.
Replay(r) == <<today, r>> \in keys

\* admitQuota; a user whose allowance is spent is told so (429).
RouteAdmits(c) ==
    /\ post[c].pc = "admit"
    /\ LET r == post[c].job IN
       \/ /\ Replay(r)
          /\ PostGoes(c, [pc |-> "forward", job |-> r, replay |-> TRUE])
          /\ UNCHANGED <<spent, keys>>
       \/ /\ ~Replay(r)
          /\ spent[today] < Allowance
          /\ spent' = [spent EXCEPT ![today] = @ + 1]
          /\ keys' = keys \cup {<<today, r>>}
          /\ PostGoes(c, [pc |-> "forward", job |-> r, replay |-> FALSE])
       \/ /\ ~Replay(r)
          /\ spent[today] = Allowance
          /\ PostGoes(c, Idle)
          /\ UNCHANGED <<spent, keys>>
    /\ UNCHANGED <<vars, killed, doubled>>

RouteForwards(c) ==
    /\ post[c].pc = "forward"
    /\ ClientAsks(c, post[c].job)
    /\ PostGoes(c, [post[c] EXCEPT !.pc = "wait"])
    /\ UNCHANGED <<spent, keys, killed, doubled>>

\* Faulty: a request that was refused stays charged.
ReleasesNever(answer, replay) == FALSE

\* Faulty: the unit of a job whose message was not taken is given back too.
ReleasesUnlessTaken(answer, replay) == answer.status # 202 /\ ~replay

\* Only the call that charged a request that was refused gives the unit back.
Releases(answer, replay) == answer.status = 409 /\ ~replay

RouteIsAnswered(c) ==
    /\ post[c].pc = "wait"
    /\ ClientIsAnswered(c)
    /\ PostGoes(c, IF Releases(client[c], post[c].replay)
                   THEN [pc |-> "release", job |-> post[c].job] ELSE Idle)
    /\ UNCHANGED <<spent, keys, killed, doubled>>

\* releaseQuota finds the key of the same day only.
RouteReleases(c) ==
    /\ post[c].pc = "release"
    /\ LET r == post[c].job IN
       IF Replay(r)
       THEN /\ spent' = [spent EXCEPT ![today] = @ - 1]
            /\ keys' = keys \ {<<today, r>>}
       ELSE UNCHANGED <<spent, keys>>
    /\ PostGoes(c, Idle)
    /\ UNCHANGED <<vars, killed, doubled>>

\* The read Worker dies; what it has forwarded goes on.
RouteDies(c) ==
    /\ post[c].pc \in {"admit", "forward", "release"}
    /\ Fault
    /\ killed' = killed \cup {post[c].job}
    /\ PostGoes(c, Idle)
    /\ UNCHANGED <<today, source, job, quota, stored, messages, cron, client, worker,
                   orphaned, spent, keys, doubled>>
-----------------------------------------------------------------------------
RouteStep(c) ==
    \/ \E r \in Request : RouteLooks(c, r)
    \/ RouteAdmits(c) \/ RouteForwards(c) \/ RouteIsAnswered(c) \/ RouteReleases(c)
    \/ RouteDies(c)

RouteNext ==
    \/ \E c \in Client : RouteStep(c)
    \/ \E c \in Client : (ClientInserts(c) \/ ClientSends(c)) /\ UNCHANGED routeVars
    \/ Runs /\ UNCHANGED routeVars

RouteSpec == RouteInit /\ [][RouteNext]_allVars
-----------------------------------------------------------------------------
(* Properties *)

\* A user is charged today only for a request that has been admitted, or that a
\* call of the route is still at work on, unless such a call died
\* (enrichmentJobsRoute gives back the unit of a request that was refused).
NoChargeForNothing ==
    \A r \in Request \ killed :
        <<today, r>> \in keys => job[r].state # "absent" \/ AtWork(r)

\* A request that has been admitted was charged, on some day, unless it was posted
\* again before the answer to an earlier post: neither a post that dies, a queue that
\* is down nor midnight lets a search through for nothing.
AdmittedIsChargedIfPostedInTurn ==
    \A r \in Request \ doubled :
        job[r].state # "absent" => \E d \in Day : <<d, r>> \in keys

\* "An admitted request uses one normal search allowance unit."  The code does not
\* keep this of one that is posted twice: see the README, section 7.
AdmittedIsCharged ==
    \A r \in Request : job[r].state # "absent" => \E d \in Day : <<d, r>> \in keys
=============================================================================
