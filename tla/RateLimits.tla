----------------------------- MODULE RateLimits -----------------------------
(***************************************************************************)
(* The rate limits over several backend processes: of submissions per      *)
(* address and per widget (enforce_submission_rate_limits) and of logins   *)
(* per address (enforce_login_rate_limit).  Each is a ResilientRateLimiter *)
(* of its own: a window in Redis that all processes share and, when a call *)
(* to Redis fails, a window of the process itself.                         *)
(*                                                                         *)
(* A call to Redis may fail before it had an effect, after it, or between  *)
(* its two commands; Redis keeps nothing over a restart and may evict any  *)
(* key for memory (compose.yaml: allkeys-lru).  A call to the window of a  *)
(* process has no lock: calls to it may overlap, what they do to its lists *)
(* is InProcessLimiter's subject, and here a hit of a call that overlapped *)
(* another may be missed by any later one.                                 *)
(***************************************************************************)
EXTENDS Integers, FiniteSets, Functions

CONSTANTS
    Requests, Processes, Addresses, Widgets,
    Redis,                  \* the shared store
    IpLimit, WidgetLimit, LoginLimit,
    Window, LoginWindow,    \* their window_seconds, in ticks
    MaxKeys,                \* max_keys of the local windows
    MaxTime,                \* bound: the clock stops here
    MaxFailures,            \* bound: how many calls to Redis fail
    MaxLosses               \* bound: restarts, and evictions by Redis

ASSUME StoresAssumption == Redis \notin Processes
ASSUME RequestsAssumption == IsFiniteSet(Requests)
ASSUME LimitsAssumption ==
    /\ {IpLimit, WidgetLimit, LoginLimit, Window, LoginWindow, MaxKeys}
            \subseteq Nat \ {0}
    /\ {MaxTime, MaxFailures, MaxLosses} \subseteq Nat

VARIABLES
    clock,
    hits,       \* hits[s][k]: the entries of key k in store s, one a request
    pc,
    scope,      \* scope[r]: the limiter that r is at
    process,    \* the process that serves a request
    source,     \* source[r]: its address and the widget, or Login
    now,        \* now[r]: the moment its local acquire began
    failures, restarts,
    granted,    \* history: who was allowed by which scope and store when
    overlapped, \* history: the local calls that ran while another did
    evictions   \* history: evictions[s][k], how often s evicted k

request == <<scope, process, source>>
history == <<failures, restarts, evictions>>
vars == <<clock, hits, pc, request, now, history, granted, overlapped>>
-----------------------------------------------------------------------------
Time == 0 .. MaxTime
Stores == Processes \cup {Redis}
Scopes == {"ip", "widget", "login"}
Keys == {"ip", "login"} \X Addresses \cup {"widget"} \X Widgets
LimitOf(k) ==
    [ip |-> IpLimit, widget |-> WidgetLimit, login |-> LoginLimit][k[1]]
WindowOf(k) == IF k[1] = "login" THEN LoginWindow ELSE Window
Login == "login"
Source == [address: Addresses, target: Widgets \cup {Login}]
Hit == [request: Requests, at: Time]
Grant == [request: Requests, scope: Scopes, store: Stores, at: Time]

(* "idle": about to ask its first limiter; "primary": its next one, Redis  *)
(* first as always; "fallback": Redis did not answer; Within, inside       *)
(* the local acquire: about to test, to append, to evict; "failed": by an  *)
(* exception, or with its process.                                         *)
Within == {"test", "append", "evict"}
Ended == {"admitted", "refused", "failed"}
Place == {"idle", "primary", "fallback"} \cup Within \cup Ended

TypeOK ==
    /\ clock \in Time
    /\ hits \in [Stores -> [Keys -> SUBSET Hit]]
    /\ pc \in [Requests -> Place] /\ scope \in [Requests -> Scopes]
    /\ process \in [Requests -> Processes]
    /\ source \in [Requests -> Source]
    /\ failures \in 0 .. MaxFailures
    /\ restarts \in Nat
    /\ now \in [Requests -> Time]
    /\ granted \subseteq Grant
    /\ overlapped \subseteq Requests \X Scopes
    /\ evictions \in [Stores -> [Keys -> Nat]]

Init ==
    /\ clock = 0
    /\ hits = [s \in Stores |-> [k \in Keys |-> {}]]
    /\ pc = [r \in Requests |-> "idle"]
    /\ process \in [Requests -> Processes]
    /\ source \in [Requests -> Source]
    /\ scope = [r \in Requests |->
                    IF source[r].target = Login THEN "login" ELSE "ip"]
    /\ failures = 0
    /\ restarts = 0
    /\ now = [r \in Requests |-> 0]
    /\ granted = {}
    /\ overlapped = {}
    /\ evictions = [s \in Stores |-> [k \in Keys |-> 0]]
-----------------------------------------------------------------------------
Tick ==
    /\ clock < MaxTime
    /\ clock' = clock + 1
    /\ UNCHANGED <<hits, pc, request, now, history, granted, overlapped>>

KeyOf_Shared(r) == IF scope[r] = "widget" THEN <<"widget", source[r].target>>
                                          ELSE <<"ip", source[r].address>>
KeyOf(r) ==
    IF scope[r] = "widget" THEN <<"widget", source[r].target>>
                           ELSE <<scope[r], source[r].address>>

(* A decision.  Of a submission the widget is asked for after the address. *)
Allow(r, s, at) ==
    /\ granted' = granted \cup
            {[request |-> r, scope |-> scope[r], store |-> s, at |-> at]}
    /\ IF scope[r] = "ip"
       THEN /\ scope' = [scope EXCEPT ![r] = "widget"]
            /\ pc' = [pc EXCEPT ![r] = "primary"]
       ELSE /\ pc' = [pc EXCEPT ![r] = "admitted"]
            /\ UNCHANGED scope
Go(r, place) == pc' = [pc EXCEPT ![r] = place] /\ UNCHANGED <<scope, granted>>

(* One call to Redis fails: retries are switched off (Retry(.., 0)).       *)
Fails == failures < MaxFailures /\ failures' = failures + 1

NewHit(r, at) == [request |-> r, at |-> at]

(* MovingWindowRateLimiter.hit of the limits library, its script in Redis: *)
(* full if the entry at the limit, of the newest first, is recent; else    *)
(* the new one is put before them.  An entry that was not recent then is   *)
(* never counted again, whether or not the script still keeps it.          *)
Recent(k) == {h \in hits[Redis][k] : h.at >= clock - WindowOf(k)}
RedisFull(k) == Cardinality(Recent(k)) >= LimitOf(k)
RedisCharged_Unshared(k, r) ==
    [hits EXCEPT ![process[r]][k] = Recent(k) \cup {NewHit(r, clock)}]
RedisCharged(k, r) == [hits EXCEPT ![Redis][k] = Recent(k) \cup {NewHit(r, clock)}]

(* RedisRateLimiter.acquire within ResilientRateLimiter.acquire: allowed,  *)
(* or the reply is lost, or refused, or the second call, which asks how    *)
(* long to wait, fails; or Redis is never reached.                         *)
AskRedis(r) ==
    LET k == KeyOf(r) IN
    /\ pc[r] \in {"idle", "primary"}
    /\ \/ /\ ~RedisFull(k)
          /\ hits' = RedisCharged(k, r)
          /\ \/ Allow(r, Redis, clock) /\ UNCHANGED failures
             \/ Go(r, "fallback") /\ Fails
       \/ /\ RedisFull(k)
          /\ Go(r, "refused")
          /\ UNCHANGED <<hits, failures>>
       \/ /\ Go(r, "fallback") /\ Fails
          /\ UNCHANGED hits
    /\ UNCHANGED <<clock, process, source, now, restarts, evictions, overlapped>>

(* Redis is out of memory and takes a key.                                 *)
Losses == restarts + SumFunction(evictions[Redis])
EvictFromRedis(k) ==
    /\ hits[Redis][k] # {}
    /\ Losses < MaxLosses
    /\ evictions' = [evictions EXCEPT ![Redis][k] = @ + 1]
    /\ hits' = [hits EXCEPT ![Redis][k] = {}]
    /\ UNCHANGED <<clock, pc, request, now, failures, restarts, granted, overlapped>>
-----------------------------------------------------------------------------
(* RateLimiter.acquire of the process, for the limiter of the scope.       *)

(* Who is within the same limiter object when r comes.                     *)
Met(r) == {q \in Requests \ {r} : /\ pc[q] \in Within
                                  /\ process[q] = process[r]
                                  /\ scope[q] = scope[r]}

(* The clock is read.  From now on others may come.                        *)
EnterLocal(r) ==
    /\ pc[r] = "fallback"
    /\ Go(r, "test")
    /\ now' = [now EXCEPT ![r] = clock]
    /\ overlapped' = overlapped \cup
            (IF Met(r) = {} THEN {} ELSE (Met(r) \cup {r}) \X {scope[r]})
    /\ UNCHANGED <<clock, hits, process, source, history>>

Overlapped(r) == <<r, scope[r]>> \in overlapped

(* The window of p after _discard_expired at some moment.                  *)
Fresh(p, c, at) ==
    [k \in Keys |-> IF k[1] = c THEN {h \in hits[p][k] : h.at + WindowOf(k) > at}
                                ELSE hits[p][k]]

(* What a call may find of hits: those of calls that overlapped may have   *)
(* been lost with a list that another replaced.                            *)
Alone(k, hs) == {h \in hs : <<h.request, k[1]>> \notin overlapped}
Views(k, hs) == {seen \in SUBSET hs : Alone(k, hs) \subseteq seen}

LocalFull_Never(k, seen) == FALSE
LocalFull(k, seen) == Cardinality(seen) >= LimitOf(k)

(* Expired entries go, then the limit is tested.  Where calls overlap, a   *)
(* key may be gone when it is looked at: KeyError.                         *)
TestLocal(r) ==
    LET k == KeyOf(r)
        fresh == Fresh(process[r], scope[r], now[r])
    IN
    /\ pc[r] = "test"
    /\ \/ /\ hits' = [hits EXCEPT ![process[r]] = fresh]
          /\ \E seen \in Views(k, fresh[k]) :
                Go(r, IF LocalFull(k, seen) THEN "refused" ELSE "append")
       \/ /\ Overlapped(r)
          /\ Go(r, "failed")
          /\ UNCHANGED hits
    /\ UNCHANGED <<clock, process, source, now, history, overlapped>>

(* timestamps.append(now).                                                 *)
AppendLocal(r) ==
    /\ pc[r] = "append"
    /\ Go(r, "evict")
    /\ hits' = [hits EXCEPT ![process[r]][KeyOf(r)] = @ \cup {NewHit(r, now[r])}]
    /\ UNCHANGED <<clock, process, source, now, history, overlapped>>

(* _evict_over_cap: the keys over the cap, not the one just used; which,   *)
(* by their last use, is left open.  Calls that overlap may take too many  *)
(* or put back what was taken, and find nothing left to take: KeyError.    *)
Tracked(p, c) == {k \in Keys : k[1] = c /\ hits[p][k] # {}}
Excess(r, taken) ==
    LET tracked == Tracked(process[r], scope[r]) IN
    /\ KeyOf(r) \notin taken
    /\ IF Cardinality(tracked) <= MaxKeys
       THEN taken = {} ELSE Cardinality(tracked \ taken) = MaxKeys

EvictLocal(r) ==
    LET p == process[r] IN
    /\ pc[r] = "evict"
    /\ \/ \E taken \in SUBSET Tracked(p, scope[r]) :
          /\ Overlapped(r) \/ Excess(r, taken)
          /\ hits' = [hits EXCEPT ![p] =
                [k \in Keys |-> IF k \in taken THEN {} ELSE @[k]]]
          /\ evictions' = [evictions EXCEPT ![p] =
                [k \in Keys |-> IF k \in taken THEN @[k] + 1 ELSE @[k]]]
          /\ Allow(r, p, now[r])
       \/ /\ Overlapped(r)
          /\ Go(r, "failed")
          /\ UNCHANGED <<hits, evictions>>
    /\ UNCHANGED <<clock, process, source, now, failures, restarts, overlapped>>
-----------------------------------------------------------------------------
(* A process dies with its windows and its requests; Redis restarts empty. *)
Restart(s) ==
    /\ Losses < MaxLosses
    /\ restarts' = restarts + 1
    /\ hits' = [hits EXCEPT ![s] = [k \in Keys |-> {}]]
    /\ pc' = [r \in Requests |->
                IF process[r] = s /\ pc[r] \notin Ended \cup {"idle"}
                THEN "failed" ELSE pc[r]]
    /\ UNCHANGED <<clock, request, now, failures, evictions, granted, overlapped>>

AskLocal(r) ==
    EnterLocal(r) \/ TestLocal(r) \/ AppendLocal(r) \/ EvictLocal(r)

Next ==
    \/ Tick
    \/ \E r \in Requests : AskRedis(r) \/ AskLocal(r)
    \/ \E s \in Stores : Restart(s)
    \/ \E k \in Keys : EvictFromRedis(k)

Spec == Init /\ [][Next]_vars
-----------------------------------------------------------------------------
(* A grant is for a key if its request asked the limiter for that key.     *)
IsFor(g, k) ==
    /\ g.scope = k[1]
    /\ k[2] = IF g.scope = "widget" THEN source[g.request].target
                                    ELSE source[g.request].address

(* The grants of k by the stores S in the window that ends at a moment.    *)
GrantedIn(k, S, moment) ==
    {g \in granted : IsFor(g, k) /\ g.store \in S
                    /\ g.at <= moment /\ moment < g.at + WindowOf(k)}

(* Those of one store, to calls that no other call overlapped in it.       *)
RanAlone(g) == <<g.request, g.scope>> \notin overlapped
Counting(k, s, moment) == {g \in GrantedIn(k, {s}, moment) : RanAlone(g)}

(* "N x the limit with N": in any window a store allows a key one budget,  *)
(* and one more for every restart and for every time it evicted the key.   *)
(* Calls that overlap in a process may pass together on its last slot, and *)
(* are not counted.                                                        *)
Lost(k, s) == LimitOf(k) * (restarts + evictions[s][k])
BudgetPerStore ==
    /\ TypeOK
    /\ \A k \in Keys, s \in Stores, moment \in Time :
            Cardinality(Counting(k, s, moment)) <= LimitOf(k) + Lost(k, s)

(* "Limiter state is shared across backend replicas": while no call to     *)
(* Redis fails, nothing restarts and Redis does not evict the key, all     *)
(* processes share one budget.                                             *)
SharedBudget ==
    failures = 0 /\ restarts = 0 =>
        \A k \in Keys, moment \in Time :
            evictions[Redis][k] = 0 =>
                Cardinality(GrantedIn(k, Stores, moment)) <= LimitOf(k)

(* Requests that used up a slot of k somewhere no longer than Window before*)
(* r asked.                                                                *)
AskedAt(r) == IF pc[r] \in Within THEN now[r] ELSE clock
Chargers(k, at) ==
    {r \in Requests : \E s \in Stores : \E h \in hits[s][k] :
        h.request = r /\ h.at >= at - WindowOf(k)}
SameRoute(r) == {q \in Requests : (source[q].target = Login)
                                    <=> (source[r].target = Login)}

(* "Login and public submissions have separate per-IP budgets": a request  *)
(* is refused for as many others of its route as the limit says, never for *)
(* those of the other or for a reply of its own that was lost.             *)
RefusedForTraffic ==
    [][\A r \in Requests : pc'[r] = "refused" /\ pc[r] # "refused" =>
            Cardinality((Chargers(KeyOf(r), AskedAt(r)) \cap SameRoute(r)) \ {r})
                >= LimitOf(KeyOf(r))]_vars
-----------------------------------------------------------------------------
(* What the proofs of these properties add to them.                        *)

(* A submission asks for its address and its widget, a login for its       *)
(* address only.                                                           *)
OnRoute == \A r \in Requests : scope[r] = "login" <=> source[r].target = Login

(* An entry is of a request of the key's route, which is past the limiter  *)
(* of that key or, with its reply lost, about to ask its own process; and  *)
(* it is the only one of this request there.                               *)
HitsAreCharged == \A s \in Stores, k \in Keys :
    \A h \in hits[s][k] :
        LET r == h.request IN
        /\ k[1] = "login" <=> source[r].target = Login
        /\ k[1] = "widget" => scope[r] = "widget"
        /\ k[1] = scope[r] =>
                /\ pc[r] \notin {"idle", "primary"}
                /\ pc[r] \in {"fallback", "test", "append"} => s = Redis
        /\ \A other \in hits[s][k] : other.request = r => other = h

AllFinite ==
    /\ IsFiniteSet(granted)
    /\ \A s \in Stores, k \in Keys : IsFiniteSet(hits[s][k])

NothingAhead ==
    /\ \A g \in granted : g.at <= clock
    /\ \A r \in Requests : now[r] <= clock

(* Of two calls within one limiter each knows that it is not alone.        *)
TogetherIsKnown ==
    \A q, r \in Requests : q \in Met(r) /\ pc[r] \in Within => Overlapped(r)

(* The grants that count at a moment and of which the store has no entry:  *)
(* it lost them in restarts and evictions.                                 *)
HitOf(g) == [request |-> g.request, at |-> g.at]
Forgotten(k, s, moment) ==
    {g \in Counting(k, s, moment) : HitOf(g) \notin hits[s][k]}
FewForgotten(k, s, start) == \A moment \in Time : moment >= start =>
    Cardinality(Forgotten(k, s, moment)) <= Lost(k, s)

ForgottenInLosses == \A k \in Keys, s \in Stores : FewForgotten(k, s, clock)

(* A call alone within a limiter: no grant there is later than its own     *)
(* moment, after the test there is room for it, and then its hit is there. *)
OthersIn(k, hs, r) == {h \in Alone(k, hs) : h.request # r
                                          /\ h.at + WindowOf(k) > now[r]}
AloneWithin(r) ==
    LET p == process[r]
        k == KeyOf(r)
    IN
    pc[r] \in Within /\ ~Overlapped(r) =>
        /\ \A g \in granted :
                g.store = p /\ g.scope = scope[r] /\ RanAlone(g) => g.at <= now[r]
        /\ \A j \in Keys : j[1] = scope[r] => FewForgotten(j, p, now[r])
        /\ pc[r] # "test" =>
                Cardinality(OthersIn(k, hits[p][k], r)) < LimitOf(k)
        /\ pc[r] = "evict" => NewHit(r, now[r]) \in hits[p][k]

(* Without a failed call nobody asks a window of a process.                *)
RedisGrantsAll ==
    failures = 0 =>
        /\ overlapped = {}
        /\ \A r \in Requests : pc[r] \notin {"fallback"} \cup Within
        /\ \A g \in granted : g.store = Redis

Inv ==
    /\ BudgetPerStore
    /\ OnRoute
    /\ HitsAreCharged
    /\ AllFinite
    /\ NothingAhead
    /\ TogetherIsKnown
    /\ ForgottenInLosses
    /\ RedisGrantsAll
    /\ \A r \in Requests : AloneWithin(r)
=============================================================================
