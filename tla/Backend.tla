------------------------------- MODULE Backend ------------------------------
(***************************************************************************)
(* One backend process and the two things its requests compete for: the    *)
(* worker threads in which FastAPI runs plain functions, and the           *)
(* connections of the SQLAlchemy pool (app/core/db.py).  A request waits   *)
(* for a thread as long as it takes and for a connection no longer than    *)
(* pool_timeout.  The session of a request (app/api/deps.py) takes its     *)
(* connection with its first statement and gives it back with a commit or  *)
(* when it is closed, after the answer.                                    *)
(*                                                                         *)
(* A request runs in two functions.  The first enforces a rate limit, or   *)
(* is get_current_identity, which resolves the tenant and returns, giving  *)
(* up its thread but not its connection; the endpoint needs a thread       *)
(* again.  A probe of readiness blocks none of these threads.              *)
(***************************************************************************)
EXTENDS Integers, FiniteSets

CONSTANTS
    Visitors,    \* submissions of visitors
    Owners,      \* requests with a bearer token
    Logins,      \* requests for a token
    Probes,      \* requests for readiness
    Threads,     \* worker threads
    PoolSize,    \* connections, those of the overflow included
    UsesRedis,   \* settings.redis_url is not empty
    MaxOutages   \* bound: how often the database goes down

ASSUME SizeAssumption ==
    /\ Threads \in Nat \ {0} /\ PoolSize \in Nat \ {0} /\ MaxOutages \in Nat
    /\ UsesRedis \in BOOLEAN
ASSUME KindAssumption ==
    /\ \A A, B \in {Visitors, Owners, Logins, Probes} : A = B \/ A \cap B = {}
    /\ IsFiniteSet(Visitors \cup Owners \cup Logins \cup Probes)

VARIABLES
    phase,     \* of the process
    db,
    outages,
    pc,
    idleThreads,
    free,      \* the connections no session holds
    stale,     \* how many of those may be from before an outage
    conn,      \* conn[r]: none, or a connection that is live or dead
    database,  \* of a probe: the result of database_health
    answer,    \* of an open request: served (2xx or 4xx) or a 500
    hindered,  \* history: the open requests that met an outage or a crowd
    faulted,   \* history: ... that met a fault of their own
    reachable  \* history: the open probes during which the database was up

pool == <<free, stale, conn>>
history == <<hindered, faulted, reachable>>
vars == <<phase, db, outages, pc, idleThreads, pool, database, answer, history>>

Requests == Visitors \cup Owners \cup Logins \cup Probes
Open == {r \in Requests : pc[r] \notin {"new", "done"}}
Serving == {"checks", "auth", "first", "last", "refresh"}
Running == {r \in Requests : pc[r] \in Serving}
Holding == {r \in Requests : conn[r] # "none"}

TypeOK ==
    /\ phase \in {"running", "draining", "closing", "stopped"}
    /\ db \in {"up", "down"} /\ outages \in 0..MaxOutages
    /\ pc \in [Requests -> Serving \cup {"new", "queued", "ready", "probe",
                                        "redis", "answered", "done"}]
    /\ idleThreads \in 0..Threads
    /\ free \in 0..PoolSize /\ stale \in 0..free
    /\ conn \in [Requests -> {"none", "live", "dead"}]
    /\ database \in [Probes -> {"unknown", "healthy", "unhealthy"}]
    /\ answer \in [Requests -> {"none", "served", "error", "ready", "unready"}]
    /\ hindered \subseteq Open /\ faulted \subseteq Open
    /\ reachable \subseteq Open \cap Probes

Init ==
    /\ phase = "running"
    /\ db = "up" /\ outages = 0
    /\ pc = [r \in Requests |-> "new"]
    /\ idleThreads = Threads
    /\ free = PoolSize /\ stale = 0
    /\ conn = [r \in Requests |-> "none"]
    /\ database = [p \in Probes |-> "unknown"]
    /\ answer = [r \in Requests |-> "none"]
    /\ hindered = {} /\ faulted = {} /\ reachable = {}
-----------------------------------------------------------------------------
Go(r, there) == pc' = [pc EXCEPT ![r] = there]

(* The function returns or raises: its thread is free for another.         *)
Leave(r, there) == Go(r, there) /\ idleThreads' = idleThreads + 1
Answers(r, what) ==
    /\ answer' = [answer EXCEPT ![r] = what]
    /\ Leave(r, "answered")

(* The connection goes back to the pool; one that is dead goes back too.   *)
GiveBack_LiveOnly(r) ==
    /\ conn' = [conn EXCEPT ![r] = "none"]
    /\ free' = IF conn[r] = "live" THEN free + 1 ELSE free
    /\ UNCHANGED stale
GiveBack(r) ==
    /\ conn' = [conn EXCEPT ![r] = "none"]
    /\ free' = IF conn[r] = "none" THEN free ELSE free + 1
    /\ stale' = IF conn[r] = "dead" THEN stale + 1 ELSE stale

(* A request comes in.  Who finds as many others open as there are         *)
(* connections is in a crowd, and so are they.                             *)
Arrive(r) ==
    LET open == Open \cup {r}
        crowd == IF Cardinality(open) > PoolSize THEN open ELSE {}
        outage == IF db = "down" THEN {r} ELSE {}
    IN
    /\ phase = "running" /\ pc[r] = "new"
    /\ Go(r, IF r \in Probes THEN "probe" ELSE "queued")
    /\ hindered' = hindered \cup crowd \cup outage
    /\ reachable' = IF db = "up" THEN reachable \cup ({r} \cap Probes) ELSE reachable
    /\ UNCHANGED <<phase, db, outages, idleThreads, pool, database, answer, faulted>>

(* A thread takes up the next function of the request.                     *)
TakeThread(r) ==
    /\ idleThreads > 0
    /\ idleThreads' = idleThreads - 1
    /\ \/ pc[r] = "queued" /\ Go(r, "checks")
       \/ pc[r] = "ready" /\ Go(r, "first")
    /\ UNCHANGED <<phase, db, outages, pool, database, answer, history>>

(* What is decided without the database: a rate limit, or the bearer token *)
(* (missing, forged or expired: 401).  The limits are a function of their  *)
(* own; with a good token get_current_identity goes on to the membership.  *)
Check(r) ==
    /\ pc[r] = "checks"
    /\ \/ Answers(r, "served")
       \/ r \in Owners /\ Go(r, "auth") /\ UNCHANGED <<idleThreads, answer>>
       \/ r \notin Owners /\ Leave(r, "ready") /\ UNCHANGED answer
    /\ UNCHANGED <<phase, db, outages, pool, database, history>>

(* RateLimiter.acquire raises KeyError (InProcessLimiter shows when).      *)
Faults(r) == faulted' = faulted \cup {r}
LimiterRaises(r) ==
    /\ r \notin Owners /\ pc[r] = "checks"
    /\ Answers(r, "error") /\ Faults(r)
    /\ UNCHANGED <<phase, db, outages, pool, database, hindered, reachable>>

(* The session, or the probe, is about to execute a statement and has no   *)
(* connection yet.                                                         *)
NeedsConnection(r) ==
    /\ pc[r] \in {"auth", "first", "refresh", "probe"}
    /\ conn[r] = "none"

(* pool_pre_ping: a connection that does not answer is replaced.           *)
Handed_Unpinged(isStale) == IF isStale THEN "dead" ELSE "live"
Handed(isStale) == "live"
Checkout(r) ==
    /\ NeedsConnection(r) /\ free > 0 /\ db = "up"
    /\ \E isStale \in BOOLEAN :
          /\ IF isStale THEN stale > 0 ELSE stale < free
          /\ stale' = IF isStale THEN stale - 1 ELSE stale
          /\ conn' = [conn EXCEPT ![r] = Handed(isStale)]
    /\ free' = free - 1
    /\ UNCHANGED <<phase, db, outages, pc, idleThreads, database, answer, history>>

(* An exception nothing catches: the session is closed later; a probe      *)
(* catches everything, its connection is closed with its context.          *)
Fail(r) ==
    IF r \in Probes
    THEN /\ database' = [database EXCEPT ![r] = "unhealthy"]
         /\ Go(r, "redis") /\ GiveBack(r)
         /\ UNCHANGED <<idleThreads, answer>>
    ELSE Answers(r, "error") /\ UNCHANGED <<pool, database>>

(* TimeoutError: no connection came back within pool_timeout.              *)
PoolTimeout_Never(r) == FALSE /\ UNCHANGED vars
PoolTimeout(r) ==
    /\ NeedsConnection(r) /\ free = 0
    /\ Fail(r)
    /\ UNCHANGED <<phase, db, outages, history>>

(* The pool has room and the server cannot be reached (connect_timeout),   *)
(* or is there and takes no more connections.                              *)
ConnectFails(r) ==
    /\ NeedsConnection(r) /\ free > 0
    /\ Fail(r)
    /\ IF db = "up" THEN Faults(r) ELSE UNCHANGED faulted
    /\ UNCHANGED <<phase, db, outages, hindered, reachable>>

Executing(r) ==
    pc[r] \in {"auth", "first", "last", "refresh", "probe"} /\ conn[r] # "none"

(* The server has gone since the connection was taken.                     *)
StatementFails(r) ==
    /\ Executing(r) /\ conn[r] = "dead"
    /\ Fail(r)
    /\ UNCHANGED <<phase, db, outages, history>>

(* The server is there and the statement fails: by statement_timeout, at a *)
(* foreign key or an id that is taken, on a value the column cannot hold,  *)
(* or because the row to update or to read again has been deleted.         *)
StatementRefused(r) ==
    /\ Executing(r) /\ conn[r] = "live"
    /\ Fail(r) /\ Faults(r)
    /\ UNCHANGED <<phase, db, outages, hindered, reachable>>

Executes(r, here) == pc[r] = here /\ conn[r] = "live"

(* get_identity_for_user in get_current_identity: no membership is a 403;  *)
(* otherwise the endpoint waits for a thread, the session keeps what it    *)
(* holds.                                                                  *)
Identify(r) ==
    /\ Executes(r, "auth")
    /\ \/ Answers(r, "served")
       \/ Leave(r, "ready") /\ UNCHANGED answer
    /\ UNCHANGED <<phase, db, outages, pool, database, history>>

(* The first statement of the endpoint: the widget, the user, a page.  It  *)
(* may be all there is (404, 422, a read, a honeypot); else the geo        *)
(* lookups or the test of the password follow, with the connection held.   *)
First(r) ==
    /\ Executes(r, "first")
    /\ \/ Answers(r, "served")
       \/ Go(r, "last") /\ UNCHANGED <<idleThreads, answer>>
    /\ UNCHANGED <<phase, db, outages, pool, database, history>>

(* create_token: the membership decides between a token and a 403.         *)
IssueToken(r) ==
    /\ r \in Logins /\ Executes(r, "last")
    /\ Answers(r, "served")
    /\ UNCHANGED <<phase, db, outages, pool, database, history>>

(* COMMIT gives the connection back.  A visitor is answered then, and the  *)
(* owner of a deleted widget; one who has written has the row read again.  *)
CommitWrite(r) ==
    /\ r \in Visitors \cup Owners /\ Executes(r, "last")
    /\ GiveBack(r)
    /\ \/ Answers(r, "served")
       \/ r \in Owners /\ Go(r, "refresh") /\ UNCHANGED <<idleThreads, answer>>
    /\ UNCHANGED <<phase, db, outages, database, history>>

(* session.refresh after the commit: a connection is needed again.         *)
Refresh(r) ==
    /\ Executes(r, "refresh")
    /\ Answers(r, "served")
    /\ UNCHANGED <<phase, db, outages, pool, database, history>>

(* get_db resumes after the answer and closes the session.                 *)
CloseSession(r) ==
    /\ pc[r] = "answered"
    /\ Go(r, "done")
    /\ GiveBack(r)
    /\ answer' = [answer EXCEPT ![r] = "none"]
    /\ database' = [p \in Probes |-> IF p = r THEN "unknown" ELSE database[p]]
    /\ hindered' = hindered \ {r} /\ faulted' = faulted \ {r}
    /\ reachable' = reachable \ {r}
    /\ UNCHANGED <<phase, db, outages, idleThreads>>

(* check_database_sync: SELECT 1.                                          *)
SelectOne(r) ==
    /\ Executes(r, "probe")
    /\ database' = [database EXCEPT ![r] = "healthy"]
    /\ Go(r, "redis")
    /\ GiveBack(r)
    /\ UNCHANGED <<phase, db, outages, idleThreads, answer, history>>

(* The status of the report is the database's; Redis only shows.           *)
Verdict_Best(sql, redis) ==
    IF sql = "healthy" \/ redis = "healthy" THEN "ready" ELSE "unready"
Verdict(sql, redis) == IF sql = "healthy" THEN "ready" ELSE "unready"

(* redis_health, if there is a Redis, and the answer of the probe.         *)
Report(r) ==
    /\ pc[r] = "redis"
    /\ \E redis \in IF UsesRedis THEN {"healthy", "degraded"} ELSE {"unasked"} :
          answer' = [answer EXCEPT ![r] = Verdict(database[r], redis)]
    /\ Go(r, "answered")
    /\ UNCHANGED <<phase, db, outages, idleThreads, pool, database, history>>
-----------------------------------------------------------------------------
(* The database goes down and takes every connection with it.              *)
DatabaseFails ==
    /\ db = "up" /\ outages < MaxOutages
    /\ db' = "down" /\ outages' = outages + 1
    /\ stale' = free
    /\ conn' = [r \in Requests |-> IF conn[r] = "none" THEN "none" ELSE "dead"]
    /\ hindered' = Open
    /\ UNCHANGED <<phase, pc, idleThreads, free, database, answer>>
    /\ UNCHANGED <<faulted, reachable>>

DatabaseReturns ==
    /\ db = "down"
    /\ db' = "up"
    /\ reachable' = Open \cap Probes
    /\ UNCHANGED <<phase, outages, pc, idleThreads, pool, database, answer>>
    /\ UNCHANGED <<hindered, faulted>>

(* SIGTERM: the server takes no more requests and finishes those it has.   *)
Terminate ==
    /\ phase = "running"
    /\ phase' = "draining"
    /\ UNCHANGED <<db, outages, pc, idleThreads, pool, database, answer, history>>

(* close_resources: the limiters first; a Redis that fails is ignored ...  *)
CloseLimiters ==
    /\ phase = "draining" /\ Open = {}
    /\ phase' = "closing"
    /\ UNCHANGED <<db, outages, pc, idleThreads, pool, database, answer, history>>

(* ... then the pool: engine.dispose.                                      *)
Dispose ==
    /\ phase = "closing"
    /\ phase' = "stopped"
    /\ stale' = 0
    /\ UNCHANGED <<db, outages, pc, idleThreads, free, conn, database, answer, history>>

Step(r) ==
    \/ TakeThread(r) \/ Check(r) \/ LimiterRaises(r)
    \/ Checkout(r) \/ PoolTimeout(r) \/ ConnectFails(r)
    \/ StatementFails(r) \/ StatementRefused(r)
    \/ Identify(r) \/ First(r) \/ IssueToken(r) \/ CommitWrite(r) \/ Refresh(r)
    \/ SelectOne(r) \/ Report(r) \/ CloseSession(r)

Next ==
    \/ \E r \in Requests : Arrive(r) \/ Step(r)
    \/ DatabaseFails \/ DatabaseReturns
    \/ Terminate \/ CloseLimiters \/ Dispose

(* Threads take up what waits in the order it came, a wait for a           *)
(* connection ends, and the server finishes its shutdown.                  *)
Fairness ==
    /\ \A r \in Requests : WF_vars(Step(r))
    /\ WF_vars(CloseLimiters) /\ WF_vars(Dispose)

Spec == Init /\ [][Next]_vars /\ Fairness
-----------------------------------------------------------------------------
(* Nobody is failed for what only others met or what was over before he    *)
(* came: a 500, or a 503 of the probe, has a cause while its request is    *)
(* open.  Either its own statement was refused, or its own limiter raised; *)
(* or the database was away; or as many others were open with it as the    *)
(* pool has connections, since a request takes one at a time.  Connections *)
(* from before an outage, a Redis that is down and requests that have      *)
(* ended are none of these.                                                *)
FailureHasACause ==
    \A r \in Requests :
        answer[r] \in {"error", "unready"} => r \in hindered \cup faulted

(* No outage reads as health, whatever Redis and the pool say: a probe     *)
(* that answers 200 was open while the database was there.  The converse,  *)
(* "readiness returns 200 for a usable database", the code does not keep:  *)
(* when the pool is exhausted the probe answers 503.                       *)
ReadyMeansReachable ==
    \A p \in Probes : answer[p] = "ready" => p \in reachable

(* What no request runs in or holds is there for the next: when nobody is  *)
(* open, every thread and every connection is back, whatever went wrong    *)
(* before.                                                                 *)
AllComesBack ==
    /\ TypeOK
    /\ idleThreads + Cardinality(Running) = Threads
    /\ free + Cardinality(Holding) = PoolSize
    /\ Holding \subseteq Open

(* Requests that hold connections wait for threads and threads wait for    *)
(* connections: still none of those who are open is so for ever, and a     *)
(* process told to stop does.                                              *)
EveryRequestEnds ==
    /\ Open # {} ~> Open = {}
    /\ phase = "draining" ~> phase = "stopped"
-----------------------------------------------------------------------------
(* The strengthenings that make the invariants above inductive.            *)

(* A probe never takes a worker thread, and only a probe asks Redis.       *)
ProbesApart ==
    \A r \in Requests :
        /\ r \in Probes => pc[r] \in {"new", "probe", "redis", "answered", "done"}
        /\ pc[r] \in {"probe", "redis"} => r \in Probes

(* Who is open while the database is down, or has a dead connection, or is *)
(* one of a crowd, is known to be hindered.                                *)
OutageSeen ==
    /\ db = "down" => Open \subseteq hindered
    /\ \A r \in Requests : conn[r] = "dead" => r \in hindered
CrowdSeen == Cardinality(Open) > PoolSize => Open \subseteq hindered

(* A probe has met what its result says.                                   *)
DatabaseSeen ==
    /\ db = "up" => Open \cap Probes \subseteq reachable
    /\ \A p \in Probes :
        /\ conn[p] = "live" \/ database[p] = "healthy" => p \in reachable
        /\ database[p] = "unhealthy" => p \in hindered \cup faulted
        /\ pc[p] = "redis" => database[p] # "unknown"

BackendInv ==
    /\ AllComesBack /\ FailureHasACause /\ ReadyMeansReachable
    /\ ProbesApart /\ OutageSeen /\ CrowdSeen /\ DatabaseSeen
=============================================================================
