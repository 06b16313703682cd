-------------------------- MODULE RateLimitsProofs --------------------------
(***************************************************************************)
(* Proofs about RateLimits, for any number of requests, processes,         *)
(* addresses and widgets, any limits, windows and caps, and any number of  *)
(* failed calls, restarts and evictions: the budget of each store, the one *)
(* budget of all processes while nothing fails, and what a refusal rests   *)
(* on.                                                                     *)
(***************************************************************************)
EXTENDS RateLimits, FiniteSetTheorems, TLAPS
-----------------------------------------------------------------------------
(* A set that maps one to one into a finite set is finite and no larger.   *)
LEMMA OneToOne ==
    ASSUME NEW S, NEW T, IsFiniteSet(T), NEW f \in [S -> T],
           \A x, y \in S : f[x] = f[y] => x = y
    PROVE  IsFiniteSet(S) /\ Cardinality(S) <= Cardinality(T)
<1>1. f \in Injection(S, T)
    BY DEF Injection, IsInjective
<1> QED BY <1>1, FS_Injection

(* One more element makes a finite set larger by one at most.              *)
LEMMA OneMore ==
    ASSUME NEW S, IsFiniteSet(S), NEW x
    PROVE  IsFiniteSet(S \cup {x}) /\ Cardinality(S \cup {x}) <= Cardinality(S) + 1
<1>1. Cardinality(S) \in Nat
    BY FS_CardinalityType
<1>2. /\ IsFiniteSet(S \cup {x})
      /\ Cardinality(S \cup {x}) = IF x \in S THEN Cardinality(S) ELSE Cardinality(S) + 1
    BY FS_AddElement
<1> QED BY <1>1, <1>2

(* Every key has a limit and a window, of at least one.                    *)
LEMMA KeyTypes ==
    ASSUME NEW k \in Keys
    PROVE  /\ LimitOf(k) \in Nat /\ LimitOf(k) > 0
           /\ WindowOf(k) \in Nat /\ WindowOf(k) > 0
           /\ k[1] \in Scopes
BY LimitsAssumption DEF Keys, LimitOf, WindowOf, Scopes

(* What a request is charged for is a key of its route.                    *)
LEMMA KeyOfIsKey ==
    ASSUME TypeOK, OnRoute, NEW r \in Requests
    PROVE  KeyOf(r) \in Keys /\ KeyOf(r)[1] = scope[r]
<1>1. source[r] \in Source /\ scope[r] \in Scopes
    BY DEF TypeOK
<1>2. CASE scope[r] = "widget"
    <2>1. source[r].target \in Widgets
        BY <1>1, <1>2 DEF OnRoute, Source
    <2> QED BY <1>2, <2>1 DEF KeyOf, Keys
<1>3. CASE scope[r] \in {"ip", "login"}
    BY <1>1, <1>3 DEF KeyOf, Keys, Source
<1> QED BY <1>1, <1>2, <1>3 DEF Scopes
-----------------------------------------------------------------------------
(* The type of every variable at the start.                                *)
LEMMA TypeInit == Init => TypeOK /\ OnRoute
<1> SUFFICES ASSUME Init PROVE TypeOK /\ OnRoute
    OBVIOUS
<1>1. hits \in [Stores -> [Keys -> SUBSET Hit]] /\ evictions \in [Stores -> [Keys -> Nat]]
    BY DEF Init
<1>2. clock \in Time /\ failures \in 0 .. MaxFailures /\ restarts \in Nat
    BY LimitsAssumption DEF Init, Time
<1>3. /\ pc \in [Requests -> Place] /\ scope \in [Requests -> Scopes]
      /\ process \in [Requests -> Processes] /\ source \in [Requests -> Source]
      /\ granted \subseteq Grant /\ overlapped \subseteq Requests \X Scopes
    BY DEF Init, Place, Scopes
<1>4. now \in [Requests -> Time]
    BY LimitsAssumption DEF Init, Time
<1>5. OnRoute
    BY DEF Init, OnRoute
<1> QED BY <1>1, <1>2, <1>3, <1>4, <1>5 DEF TypeOK

(* A decision, or a move to a place, keeps the types of what it changes.   *)
LEMMA DecisionTypes ==
    ASSUME TypeOK, OnRoute, NEW r \in Requests,
           \/ \E s \in Stores, at \in Time : Allow(r, s, at)
           \/ \E place \in Place : Go(r, place),
           UNCHANGED source
    PROVE  /\ pc' \in [Requests -> Place] /\ scope' \in [Requests -> Scopes]
           /\ granted' \subseteq Grant /\ OnRoute'
<1> USE DEF TypeOK
<1>1. ASSUME NEW s \in Stores, NEW at \in Time, Allow(r, s, at)
      PROVE  /\ pc' \in [Requests -> Place] /\ scope' \in [Requests -> Scopes]
             /\ granted' \subseteq Grant /\ OnRoute'
    <2>1. [request |-> r, scope |-> scope[r], store |-> s, at |-> at] \in Grant
        BY DEF Grant
    <2>2. granted' \subseteq Grant
        BY <1>1, <2>1 DEF Allow
    <2>3. {"primary", "admitted"} \subseteq Place
        BY DEF Place, Ended
    <2>4. pc' \in [Requests -> Place]
        BY <1>1, <2>3 DEF Allow
    <2>5. scope' \in [Requests -> Scopes] /\ OnRoute'
        BY <1>1 DEF Allow, Scopes, OnRoute
    <2> QED BY <2>2, <2>4, <2>5
<1>2. ASSUME NEW place \in Place, Go(r, place)
      PROVE  /\ pc' \in [Requests -> Place] /\ scope' \in [Requests -> Scopes]
             /\ granted' \subseteq Grant /\ OnRoute'
    BY <1>2 DEF Go, OnRoute
<1> QED BY <1>1, <1>2

(* A window after the expired entries have gone is still one.              *)
LEMMA FreshTypes ==
    ASSUME TypeOK, NEW p \in Stores, NEW c, NEW at
    PROVE  Fresh(p, c, at) \in [Keys -> SUBSET Hit]
BY DEF TypeOK, Fresh

(* A call to Redis keeps the types and the routes.                         *)
LEMMA TypeAskRedis ==
    ASSUME TypeOK, OnRoute, NEW r \in Requests, AskRedis(r)
    PROVE  TypeOK' /\ OnRoute'
<1> DEFINE k == KeyOf(r)
<1> USE DEF TypeOK
<1>1. k \in Keys /\ NewHit(r, clock) \in Hit /\ Redis \in Stores
    BY KeyOfIsKey DEF NewHit, Hit, Stores
<1> HIDE DEF k
<1>2. hits' \in [Stores -> [Keys -> SUBSET Hit]]
    <2>1. Recent(k) \cup {NewHit(r, clock)} \in SUBSET Hit
        BY <1>1 DEF Recent
    <2>2. RedisCharged(k, r) \in [Stores -> [Keys -> SUBSET Hit]]
        BY <1>1, <2>1 DEF RedisCharged
    <2> QED BY <2>2 DEF AskRedis, k
<1>3. {"fallback", "refused"} \subseteq Place
    BY DEF Place, Ended
<1>4. /\ \/ \E s \in Stores, at \in Time : Allow(r, s, at)
         \/ \E place \in Place : Go(r, place)
      /\ UNCHANGED source
    BY <1>1, <1>3 DEF AskRedis
<1>5. failures' \in 0 .. MaxFailures
    BY LimitsAssumption DEF AskRedis, Fails
<1>6. UNCHANGED <<clock, process, source, now, restarts, evictions, overlapped>>
    BY DEF AskRedis
<1> QED BY <1>2, <1>4, <1>5, <1>6, DecisionTypes

(* So does a step within a process.                                        *)
LEMMA TypeAskLocal ==
    ASSUME TypeOK, OnRoute, NEW r \in Requests, AskLocal(r)
    PROVE  TypeOK' /\ OnRoute'
<1> DEFINE k == KeyOf(r)
           p == process[r]
<1> USE DEF TypeOK
<1>1. /\ k \in Keys /\ p \in Stores /\ now[r] \in Time /\ scope[r] \in Scopes
      /\ NewHit(r, now[r]) \in Hit
    BY KeyOfIsKey DEF Stores, NewHit, Hit
<1>2. {"test", "append", "evict", "refused", "failed"} \subseteq Place
    BY DEF Place, Within, Ended
<1>3. ASSUME UNCHANGED <<clock, process, source, failures, restarts>>,
             hits' \in [Stores -> [Keys -> SUBSET Hit]],
             evictions' \in [Stores -> [Keys -> Nat]],
             now' \in [Requests -> Time], overlapped' \subseteq Requests \X Scopes,
             \/ \E s \in Stores, at \in Time : Allow(r, s, at)
             \/ \E place \in Place : Go(r, place)
      PROVE  TypeOK' /\ OnRoute'
    BY <1>3, DecisionTypes
<1> HIDE DEF k, p
<1>4. CASE EnterLocal(r)
    <2>1. overlapped' \subseteq Requests \X Scopes
        BY <1>1, <1>4 DEF EnterLocal, Met
    <2> QED BY <1>2, <1>3, <1>4, <2>1 DEF EnterLocal, history
<1>5. CASE TestLocal(r)
    <2>1. Fresh(p, scope[r], now[r]) \in [Keys -> SUBSET Hit]
        BY <1>1, FreshTypes
    <2>2. hits' \in [Stores -> [Keys -> SUBSET Hit]]
        BY <1>1, <1>5, <2>1 DEF TestLocal, p
    <2>3. \E place \in Place : Go(r, place)
        BY <1>2, <1>5 DEF TestLocal
    <2> QED BY <1>3, <1>5, <2>2, <2>3 DEF TestLocal, history
<1>6. CASE AppendLocal(r)
    <2>1. hits' \in [Stores -> [Keys -> SUBSET Hit]]
        BY <1>1, <1>6 DEF AppendLocal, p, k
    <2> QED BY <1>2, <1>3, <1>6, <2>1 DEF AppendLocal, history
<1>7. CASE EvictLocal(r)
    <2>1. ASSUME NEW taken,
                 hits' = [hits EXCEPT ![p] = [j \in Keys |-> IF j \in taken THEN {} ELSE @[j]]],
                 evictions' = [evictions EXCEPT ![p] =
                                  [j \in Keys |-> IF j \in taken THEN @[j] + 1 ELSE @[j]]]
          PROVE  /\ hits' \in [Stores -> [Keys -> SUBSET Hit]]
                 /\ evictions' \in [Stores -> [Keys -> Nat]]
        <3>1. [j \in Keys |-> IF j \in taken THEN {} ELSE hits[p][j]] \in [Keys -> SUBSET Hit]
            BY <1>1
        <3>2. [j \in Keys |-> IF j \in taken THEN evictions[p][j] + 1 ELSE evictions[p][j]]
                    \in [Keys -> Nat]
            BY <1>1
        <3>3. hits' \in [Stores -> [Keys -> SUBSET Hit]]
            BY <1>1, <2>1, <3>1
        <3>4. evictions' \in [Stores -> [Keys -> Nat]]
            BY <1>1, <2>1, <3>2
        <3> QED BY <3>3, <3>4
    <2>3. /\ hits' \in [Stores -> [Keys -> SUBSET Hit]]
          /\ evictions' \in [Stores -> [Keys -> Nat]]
        BY <1>7, <2>1 DEF EvictLocal, p
    <2>2. \/ \E s \in Stores, at \in Time : Allow(r, s, at)
          \/ \E place \in Place : Go(r, place)
        BY <1>1, <1>2, <1>7 DEF EvictLocal, p
    <2> QED BY <1>3, <1>7, <2>2, <2>3 DEF EvictLocal
<1> QED BY <1>4, <1>5, <1>6, <1>7 DEF AskLocal

(* Every step keeps the types and the routes.                              *)
LEMMA TypeStep ==
    ASSUME TypeOK, OnRoute, [Next]_vars
    PROVE  TypeOK' /\ OnRoute'
<1> USE DEF TypeOK, OnRoute
<1>1. CASE Tick
    BY <1>1, LimitsAssumption DEF Tick, Time, request, history
<1>2. ASSUME NEW s \in Stores, Restart(s)
      PROVE  TypeOK' /\ OnRoute'
    <2>1. hits' \in [Stores -> [Keys -> SUBSET Hit]]
        BY <1>2 DEF Restart
    <2>2. pc' \in [Requests -> Place] /\ restarts' \in Nat
        BY <1>2 DEF Restart, Place, Ended
    <2> QED BY <1>2, <2>1, <2>2 DEF Restart, request
<1>3. ASSUME NEW k \in Keys, EvictFromRedis(k)
      PROVE  TypeOK' /\ OnRoute'
    <2>1. Redis \in Stores
        BY DEF Stores
    <2>2. /\ hits' \in [Stores -> [Keys -> SUBSET Hit]]
          /\ evictions' \in [Stores -> [Keys -> Nat]]
        BY <1>3, <2>1 DEF EvictFromRedis
    <2> QED BY <1>3, <2>2 DEF EvictFromRedis, request
<1>4. CASE UNCHANGED vars
    BY <1>4 DEF vars, request, history
<1> QED BY <1>1, <1>2, <1>3, <1>4, TypeAskRedis, TypeAskLocal DEF Next
-----------------------------------------------------------------------------
(* What a call to Redis does to the entries: none, or of the key it asked  *)
(* for the recent ones stay and its own joins them.                        *)
LEMMA RedisHits ==
    ASSUME TypeOK, OnRoute, NEW r \in Requests, AskRedis(r), NEW t \in Stores, NEW j \in Keys
    PROVE  \/ hits'[t][j] = hits[t][j]
           \/ /\ t = Redis /\ j = KeyOf(r)
              /\ hits'[t][j] = Recent(j) \cup {NewHit(r, clock)}
<1>1. KeyOf(r) \in Keys /\ Redis \in Stores
    BY KeyOfIsKey DEF Stores
<1>2. CASE UNCHANGED hits
    BY <1>2
<1>3. CASE hits' = RedisCharged(KeyOf(r), r)
    BY <1>1, <1>3 DEF RedisCharged, TypeOK
<1> QED BY <1>2, <1>3 DEF AskRedis

(* What the test of a local window does: the expired entries of its keys   *)
(* are gone, or nothing has changed.                                       *)
LEMMA TestHits ==
    ASSUME TypeOK, OnRoute, NEW r \in Requests, TestLocal(r), NEW t \in Stores, NEW j \in Keys
    PROVE  \/ hits'[t][j] = hits[t][j]
           \/ /\ t = process[r] /\ j[1] = scope[r]
              /\ hits'[t][j] = {h \in hits[t][j] : h.at + WindowOf(j) > now[r]}
<1> DEFINE p == process[r]
           fresh == Fresh(p, scope[r], now[r])
<1>1. p \in Stores
    BY DEF Stores, TypeOK
<1>2. fresh[j] = IF j[1] = scope[r] THEN {h \in hits[p][j] : h.at + WindowOf(j) > now[r]}
                                    ELSE hits[p][j]
    BY DEF Fresh
<1>3. UNCHANGED hits \/ hits' = [hits EXCEPT ![p] = fresh]
    BY DEF TestLocal
<1> HIDE DEF p, fresh
<1>4. CASE t # p
    BY <1>1, <1>3, <1>4 DEF TypeOK
<1>5. CASE t = p
    BY <1>1, <1>2, <1>3, <1>5 DEF TypeOK, p
<1> QED BY <1>4, <1>5

(* What the append does: the call's own entry joins those of its key.      *)
LEMMA AppendHits ==
    ASSUME TypeOK, OnRoute, NEW r \in Requests, AppendLocal(r), NEW t \in Stores, NEW j \in Keys
    PROVE  \/ hits'[t][j] = hits[t][j] /\ (t # process[r] \/ j # KeyOf(r))
           \/ /\ t = process[r] /\ j = KeyOf(r)
              /\ hits'[t][j] = hits[t][j] \cup {NewHit(r, now[r])}
<1> DEFINE k == KeyOf(r)
           p == process[r]
<1>1. k \in Keys /\ p \in Stores
    BY KeyOfIsKey DEF Stores, TypeOK
<1>2. hits' = [hits EXCEPT ![p][k] = @ \cup {NewHit(r, now[r])}]
    BY DEF AppendLocal
<1> HIDE DEF k, p
<1>3. \/ hits'[t][j] = hits[t][j] /\ (t # p \/ j # k)
      \/ t = p /\ j = k /\ hits'[t][j] = hits[t][j] \cup {NewHit(r, now[r])}
    BY <1>1, <1>2 DEF TypeOK
<1> QED BY <1>3 DEF k, p

(* What an eviction does: of the keys of its limiter some lose all they    *)
(* have, which is counted, and the others nothing.                         *)
LEMMA EvictHits ==
    ASSUME TypeOK, OnRoute, NEW r \in Requests, EvictLocal(r), NEW t \in Stores, NEW j \in Keys
    PROVE  \/ hits'[t][j] = hits[t][j] /\ evictions'[t][j] = evictions[t][j]
           \/ /\ t = process[r] /\ j[1] = scope[r]
              /\ Overlapped(r) \/ j # KeyOf(r)
              /\ hits'[t][j] = {} /\ evictions'[t][j] = evictions[t][j] + 1
<1> DEFINE p == process[r]
<1>1. p \in Stores
    BY DEF Stores, TypeOK
<1>2. CASE UNCHANGED <<hits, evictions>>
    BY <1>2
<1>3. ASSUME NEW taken \in SUBSET Tracked(p, scope[r]),
             Overlapped(r) \/ Excess(r, taken),
             hits' = [hits EXCEPT ![p] = [i \in Keys |-> IF i \in taken THEN {} ELSE @[i]]],
             evictions' = [evictions EXCEPT ![p] =
                              [i \in Keys |-> IF i \in taken THEN @[i] + 1 ELSE @[i]]]
      PROVE  \/ hits'[t][j] = hits[t][j] /\ evictions'[t][j] = evictions[t][j]
             \/ /\ t = p /\ j[1] = scope[r]
                /\ Overlapped(r) \/ j # KeyOf(r)
                /\ hits'[t][j] = {} /\ evictions'[t][j] = evictions[t][j] + 1
    <2> HIDE DEF p
    <2>1. CASE t # p
        BY <1>1, <1>3, <2>1 DEF TypeOK
    <2>2. CASE t = p /\ j \notin taken
        BY <1>1, <1>3, <2>2 DEF TypeOK
    <2>3. CASE t = p /\ j \in taken
        <3>1. j[1] = scope[r]
            BY <2>3 DEF Tracked
        <3>2. Overlapped(r) \/ j # KeyOf(r)
            BY <1>3, <2>3 DEF Excess
        <3>3. hits'[t][j] = {} /\ evictions'[t][j] = evictions[t][j] + 1
            BY <1>1, <1>3, <2>3 DEF TypeOK
        <3> QED BY <2>3, <3>1, <3>2, <3>3
    <2> QED BY <2>1, <2>2, <2>3
<1> QED BY <1>2, <1>3 DEF EvictLocal
-----------------------------------------------------------------------------
(* What is charged: no entry but that of r in one store, for the key it    *)
(* asked for, joins those that were there.                                 *)
Charged(r, s, at) ==
    \A t \in Stores, j \in Keys : \A h \in hits'[t][j] :
        h \in hits[t][j] \/ (t = s /\ j = KeyOf(r) /\ h = NewHit(r, at))
NoneCharged == \A t \in Stores, j \in Keys : hits'[t][j] \subseteq hits[t][j]

(* A call to Redis and the append of a local one charge their store, once; *)
(* the other steps of a local call charge nothing.                         *)
LEMMA AskCharges ==
    ASSUME TypeOK, OnRoute, NEW r \in Requests
    PROVE  /\ AskRedis(r) => Charged(r, Redis, clock)
           /\ AppendLocal(r) => Charged(r, process[r], now[r])
           /\ EnterLocal(r) \/ TestLocal(r) \/ EvictLocal(r) => NoneCharged
<1>1. ASSUME AskRedis(r) PROVE Charged(r, Redis, clock)
    BY <1>1, RedisHits DEF Charged, Recent
<1>2. ASSUME AppendLocal(r) PROVE Charged(r, process[r], now[r])
    BY <1>2, AppendHits DEF Charged
<1>3. ASSUME EnterLocal(r) PROVE NoneCharged
    BY <1>3 DEF EnterLocal, NoneCharged
<1>4. ASSUME TestLocal(r) PROVE NoneCharged
    BY <1>4, TestHits DEF NoneCharged
<1>5. ASSUME EvictLocal(r) PROVE NoneCharged
    BY <1>5, EvictHits DEF NoneCharged
<1> QED BY <1>1, <1>2, <1>3, <1>4, <1>5

(* How a request gets on: it stays, or it goes on within its limiter,      *)
(* towards its end, or from its address to its widget.                     *)
Asking == {"idle", "primary"}
BeforeItsHit == {"fallback", "test", "append"}
GoesOn(q) ==
    \/ pc'[q] = pc[q] /\ scope'[q] = scope[q]
    \/ /\ scope'[q] = scope[q] /\ pc'[q] \notin Asking
       /\ pc'[q] \in BeforeItsHit => pc[q] \in Asking \cup BeforeItsHit
    \/ scope[q] = "ip" /\ scope'[q] = "widget"

(* Every step of a request is one of these, and the others stay.           *)
LEMMA AskGoesOn ==
    ASSUME TypeOK, NEW r \in Requests, AskRedis(r) \/ AskLocal(r)
    PROVE  /\ GoesOn(r)
           /\ \A q \in Requests \ {r} : pc'[q] = pc[q] /\ scope'[q] = scope[q]
           /\ UNCHANGED source
<1>1. /\ \A q \in Requests \ {r} : pc'[q] = pc[q] /\ scope'[q] = scope[q]
      /\ UNCHANGED source
    BY DEF AskRedis, AskLocal, EnterLocal, TestLocal, AppendLocal, EvictLocal, Allow, Go, TypeOK
<1> USE DEF GoesOn, Asking, BeforeItsHit, TypeOK
<1> SUFFICES GoesOn(r)
    BY <1>1
<1>2. CASE AskRedis(r)
    <2>1. pc[r] \in Asking
        BY <1>2 DEF AskRedis
    <2>2. CASE Go(r, "fallback") \/ Go(r, "refused")
        BY <2>1, <2>2 DEF Go
    <2>3. CASE Allow(r, Redis, clock)
        BY <2>3 DEF Allow
    <2> QED BY <1>2, <2>2, <2>3 DEF AskRedis
<1>3. CASE EnterLocal(r) \/ AppendLocal(r)
    BY <1>3 DEF EnterLocal, AppendLocal, Go
<1>4. CASE TestLocal(r)
    <2>1. pc[r] = "test" /\ \E place \in {"append", "refused", "failed"} : Go(r, place)
        BY <1>4 DEF TestLocal
    <2> QED BY <2>1 DEF Go
<1>5. CASE EvictLocal(r)
    <2>1. CASE Go(r, "failed")
        BY <2>1 DEF Go
    <2>2. CASE Allow(r, process[r], now[r])
        BY <2>2 DEF Allow
    <2> QED BY <1>5, <2>1, <2>2 DEF EvictLocal
<1> QED BY <1>2, <1>3, <1>4, <1>5 DEF AskLocal

(* Where nothing is charged, what is charged stays right.                  *)
LEMMA ChargedStays ==
    ASSUME TypeOK, OnRoute, HitsAreCharged, NoneCharged, UNCHANGED source,
           \A q \in Requests : GoesOn(q)
    PROVE  HitsAreCharged'
<1>1. SUFFICES ASSUME NEW t \in Stores, NEW j \in Keys, NEW h \in hits'[t][j]
               PROVE  /\ j[1] = "login" <=> source[h.request].target = Login
                      /\ j[1] = "widget" => scope'[h.request] = "widget"
                      /\ j[1] = scope'[h.request] =>
                            /\ pc'[h.request] \notin Asking
                            /\ pc'[h.request] \in BeforeItsHit => t = Redis
                      /\ \A other \in hits'[t][j] : other.request = h.request => other = h
    BY DEF HitsAreCharged, Asking, BeforeItsHit
<1>2. h \in hits[t][j] /\ h.request \in Requests
    BY DEF NoneCharged, TypeOK, Hit
<1>3. /\ j[1] = "login" <=> source[h.request].target = Login
      /\ j[1] = "widget" => scope[h.request] = "widget"
      /\ j[1] = scope[h.request] =>
            /\ pc[h.request] \notin Asking
            /\ pc[h.request] \in BeforeItsHit => t = Redis
      /\ \A other \in hits[t][j] : other.request = h.request => other = h
    BY <1>2 DEF HitsAreCharged, Asking, BeforeItsHit
<1>4. GoesOn(h.request)
    BY <1>2
<1>5. \A other \in hits'[t][j] : other.request = h.request => other = h
    BY <1>3 DEF NoneCharged
<1> QED BY <1>3, <1>4, <1>5 DEF GoesOn

(* And so where a request is charged that had no entry there.              *)
LEMMA ChargedOnce ==
    ASSUME TypeOK, OnRoute, HitsAreCharged, NEW r \in Requests, NEW s \in Stores, NEW at,
           Charged(r, s, at), UNCHANGED source, GoesOn(r),
           \A q \in Requests \ {r} : pc'[q] = pc[q] /\ scope'[q] = scope[q],
           pc[r] \in Asking \/ (pc[r] = "append" /\ s # Redis),
           \/ scope[r] = "ip" /\ scope'[r] = "widget"
           \/ /\ scope'[r] = scope[r] /\ pc'[r] \notin Asking
              /\ pc'[r] \in BeforeItsHit => s = Redis
    PROVE  HitsAreCharged'
<1>1. SUFFICES ASSUME NEW t \in Stores, NEW j \in Keys, NEW h \in hits'[t][j]
               PROVE  /\ j[1] = "login" <=> source[h.request].target = Login
                      /\ j[1] = "widget" => scope'[h.request] = "widget"
                      /\ j[1] = scope'[h.request] =>
                            /\ pc'[h.request] \notin Asking
                            /\ pc'[h.request] \in BeforeItsHit => t = Redis
                      /\ \A other \in hits'[t][j] : other.request = h.request => other = h
    BY DEF HitsAreCharged, Asking, BeforeItsHit
<1> DEFINE k == KeyOf(r)
<1>2. k \in Keys /\ k[1] = scope[r] /\ scope[r] \in Scopes
    BY KeyOfIsKey DEF TypeOK
<1>3. scope[r] = "login" <=> source[r].target = Login
    BY DEF OnRoute
<1>4. NewHit(r, at).request = r
    BY DEF NewHit
<1>5. /\ h \in hits[t][j] \/ (t = s /\ j = k /\ h = NewHit(r, at))
      /\ \A other \in hits'[t][j] :
            other \in hits[t][j] \/ (t = s /\ j = k /\ other = NewHit(r, at))
    BY DEF Charged
<1> HIDE DEF k
<1>6. \A other \in hits[s][k] : other.request # r
    BY <1>2 DEF HitsAreCharged, Asking
<1>7. CASE h = NewHit(r, at) /\ t = s /\ j = k
    BY <1>2, <1>3, <1>4, <1>5, <1>6, <1>7
<1>8. ASSUME h \in hits[t][j]
      PROVE  /\ h.request \in Requests
             /\ j[1] = "login" <=> source[h.request].target = Login
             /\ j[1] = "widget" => scope[h.request] = "widget"
             /\ j[1] = scope[h.request] =>
                   /\ pc[h.request] \notin Asking
                   /\ pc[h.request] \in BeforeItsHit => t = Redis
             /\ \A other \in hits'[t][j] : other.request = h.request => other = h
    <2>1. \A other \in hits'[t][j] : other.request = h.request => other = h
        BY <1>4, <1>5, <1>6, <1>8 DEF HitsAreCharged
    <2> QED BY <1>8, <2>1 DEF HitsAreCharged, Asking, BeforeItsHit, TypeOK, Hit
<1>9. CASE h \in hits[t][j]
    <2>1. GoesOn(h.request)
        BY <1>8, <1>9 DEF GoesOn
    <2> QED BY <1>8, <1>9, <2>1 DEF GoesOn
<1> QED BY <1>5, <1>7, <1>9

(* An entry is charged once, for a request of the key's route that is past *)
(* the limiter of the key: every step keeps this.                          *)
LEMMA ChargedStep ==
    ASSUME TypeOK, OnRoute, HitsAreCharged, [Next]_vars
    PROVE  HitsAreCharged'
<1>1. CASE Tick \/ UNCHANGED vars
    BY <1>1, ChargedStays DEF Tick, vars, request, NoneCharged, GoesOn
<1>2. ASSUME NEW s \in Stores, Restart(s)
      PROVE  HitsAreCharged'
    <2>1. NoneCharged
        BY <1>2 DEF Restart, NoneCharged, TypeOK
    <2>2. UNCHANGED source /\ \A q \in Requests : GoesOn(q)
        BY <1>2 DEF Restart, request, GoesOn, Asking, BeforeItsHit
    <2> QED BY <2>1, <2>2, ChargedStays
<1>3. ASSUME NEW k \in Keys, EvictFromRedis(k)
      PROVE  HitsAreCharged'
    <2>1. NoneCharged
        BY <1>3 DEF EvictFromRedis, NoneCharged, TypeOK, Stores
    <2>2. UNCHANGED source /\ \A q \in Requests : GoesOn(q)
        BY <1>3 DEF EvictFromRedis, request, GoesOn
    <2> QED BY <2>1, <2>2, ChargedStays
<1>4. ASSUME NEW r \in Requests, AskRedis(r)
      PROVE  HitsAreCharged'
    <2>1. pc[r] \in Asking /\ Redis \in Stores
        BY <1>4 DEF AskRedis, Asking, Stores
    <2>2. \/ scope[r] = "ip" /\ scope'[r] = "widget"
          \/ scope'[r] = scope[r] /\ pc'[r] \notin Asking
        BY <1>4 DEF AskRedis, Allow, Go, TypeOK, Asking
    <2> QED BY <1>4, <2>1, <2>2, AskCharges, AskGoesOn, ChargedOnce
<1>5. ASSUME NEW r \in Requests, AppendLocal(r)
      PROVE  HitsAreCharged'
    <2>1. /\ pc[r] = "append" /\ pc'[r] \notin Asking \cup BeforeItsHit /\ scope'[r] = scope[r]
          /\ process[r] \in Stores /\ process[r] # Redis
        BY <1>5, StoresAssumption DEF AppendLocal, Go, TypeOK, Stores, Asking, BeforeItsHit
    <2> QED BY <1>5, <2>1, AskCharges, AskGoesOn, ChargedOnce DEF AskLocal
<1>6. ASSUME NEW r \in Requests, EnterLocal(r) \/ TestLocal(r) \/ EvictLocal(r)
      PROVE  HitsAreCharged'
    <2>1. NoneCharged
        BY <1>6, AskCharges
    <2>2. UNCHANGED source /\ \A q \in Requests : GoesOn(q)
        BY <1>6, AskGoesOn DEF AskLocal, GoesOn
    <2> QED BY <2>1, <2>2, ChargedStays
<1> QED BY <1>1, <1>2, <1>3, <1>4, <1>5, <1>6 DEF Next, AskLocal
-----------------------------------------------------------------------------
(* The grant a request is given, by the store it asked.                    *)
NewGrant(r, s, at) == [request |-> r, scope |-> scope[r], store |-> s, at |-> at]

(* It counts for the key its request asked for, and for no other.          *)
LEMMA NewGrantIsFor ==
    ASSUME TypeOK, OnRoute, NEW r \in Requests, NEW s \in Stores, NEW at \in Time, NEW k \in Keys
    PROVE  /\ IsFor(NewGrant(r, s, at), k) <=> k = KeyOf(r)
           /\ NewGrant(r, s, at) \in Grant
<1>1. source[r] \in Source /\ scope[r] \in Scopes
    BY DEF TypeOK
<1>2. k = <<k[1], k[2]>>
    BY DEF Keys
<1>3. NewGrant(r, s, at) \in Grant
    BY <1>1 DEF NewGrant, Grant
<1> QED BY <1>1, <1>2, <1>3 DEF NewGrant, IsFor, KeyOf, Source, Scopes

(* Redis grants at the moment it is asked, a process at the one its call   *)
(* began with; the other steps grant nothing.                              *)
LEMMA AskGrants ==
    ASSUME NEW r \in Requests, AskRedis(r) \/ AskLocal(r)
    PROVE  \/ UNCHANGED granted
           \/ AskRedis(r) /\ granted' = granted \cup {NewGrant(r, Redis, clock)}
           \/ EvictLocal(r) /\ granted' = granted \cup {NewGrant(r, process[r], now[r])}
<1>1. CASE AskRedis(r)
    BY <1>1 DEF AskRedis, Allow, Go, NewGrant
<1>2. CASE AskLocal(r)
    BY <1>2 DEF AskLocal, EnterLocal, TestLocal, AppendLocal, EvictLocal, Allow, Go, NewGrant
<1> QED BY <1>1, <1>2

(* Only finitely many are granted and charged: every step keeps this.      *)
LEMMA FiniteStep ==
    ASSUME TypeOK, OnRoute, AllFinite, [Next]_vars
    PROVE  AllFinite'
<1>1. ASSUME UNCHANGED granted, NoneCharged
      PROVE  AllFinite'
    BY <1>1, FS_Subset DEF AllFinite, NoneCharged
<1>2. ASSUME NEW r \in Requests, AskRedis(r) \/ AskLocal(r)
      PROVE  AllFinite'
    <2>1. NoneCharged \/ \E s, at : Charged(r, s, at)
        BY <1>2, AskCharges DEF AskLocal
    <2>2. ASSUME NEW t \in Stores, NEW j \in Keys
          PROVE  IsFiniteSet(hits'[t][j])
        <3>1. IsFiniteSet(hits[t][j])
            BY DEF AllFinite
        <3>2. CASE NoneCharged
            BY <3>1, <3>2, FS_Subset DEF NoneCharged
        <3>3. ASSUME NEW s, NEW at, Charged(r, s, at)
              PROVE  IsFiniteSet(hits'[t][j])
            <4>1. hits'[t][j] \in SUBSET (hits[t][j] \cup {NewHit(r, at)})
                BY <3>3 DEF Charged
            <4>2. IsFiniteSet(hits[t][j] \cup {NewHit(r, at)})
                BY <3>1, FS_AddElement
            <4> QED BY <4>1, <4>2, FS_Subset
        <3> QED BY <2>1, <3>2, <3>3
    <2>3. IsFiniteSet(granted')
        <3>1. IsFiniteSet(granted)
            BY DEF AllFinite
        <3>2. /\ IsFiniteSet(granted \cup {NewGrant(r, Redis, clock)})
              /\ IsFiniteSet(granted \cup {NewGrant(r, process[r], now[r])})
            BY <3>1, FS_AddElement
        <3> QED BY <1>2, <3>1, <3>2, AskGrants
    <2> QED BY <2>2, <2>3 DEF AllFinite
<1>3. CASE Tick \/ UNCHANGED vars
    BY <1>1, <1>3 DEF Tick, vars, NoneCharged
<1>4. ASSUME NEW s \in Stores, Restart(s)
      PROVE  AllFinite'
    BY <1>1, <1>4 DEF Restart, NoneCharged, TypeOK
<1>5. ASSUME NEW k \in Keys, EvictFromRedis(k)
      PROVE  AllFinite'
    BY <1>1, <1>5 DEF EvictFromRedis, NoneCharged, TypeOK, Stores
<1> QED BY <1>2, <1>3, <1>4, <1>5 DEF Next

(* Nothing is dated ahead of the clock: every step keeps this.             *)
LEMMA NothingAheadStep ==
    ASSUME TypeOK, NothingAhead, [Next]_vars
    PROVE  NothingAhead'
<1> USE DEF TypeOK, NothingAhead
<1>1. clock \in Nat /\ (\A g \in granted : g.at \in Nat) /\ \A r \in Requests : now[r] \in Nat
    BY DEF Grant, Time
<1>2. ASSUME UNCHANGED <<granted, now>>, clock' = clock \/ clock' = clock + 1
      PROVE  NothingAhead'
    BY <1>1, <1>2
<1>3. CASE Tick \/ UNCHANGED vars
    BY <1>2, <1>3 DEF Tick, vars
<1>4. ASSUME NEW s \in Stores, Restart(s)
      PROVE  NothingAhead'
    BY <1>2, <1>4 DEF Restart
<1>5. ASSUME NEW k \in Keys, EvictFromRedis(k)
      PROVE  NothingAhead'
    BY <1>2, <1>5 DEF EvictFromRedis
<1>6. ASSUME NEW r \in Requests, AskRedis(r) \/ AskLocal(r)
      PROVE  NothingAhead'
    <2>1. UNCHANGED clock /\ \A q \in Requests : now'[q] <= clock
        BY <1>1, <1>6 DEF AskRedis, AskLocal, EnterLocal, TestLocal, AppendLocal, EvictLocal, history
    <2>2. \A g \in granted' : g.at <= clock
        <3>1. /\ NewGrant(r, Redis, clock).at = clock
              /\ NewGrant(r, process[r], now[r]).at = now[r]
            BY DEF NewGrant
        <3> QED BY <1>1, <1>6, <3>1, AskGrants
    <2> QED BY <2>1, <2>2
<1> QED BY <1>3, <1>4, <1>5, <1>6 DEF Next

(* Who is within a local call, and of which limiter, changes only when a   *)
(* request enters one: for others it is as before.                         *)
LEMMA WithinStep ==
    ASSUME TypeOK, [Next]_vars, NEW q \in Requests, pc'[q] \in Within
    PROVE  \/ pc[q] \in Within /\ scope'[q] = scope[q] /\ process'[q] = process[q]
           \/ EnterLocal(q)
<1> USE DEF TypeOK
<1>1. CASE Tick \/ UNCHANGED vars
    BY <1>1 DEF Tick, vars, request
<1>2. ASSUME NEW s \in Stores, Restart(s)
      PROVE  pc[q] \in Within /\ scope'[q] = scope[q] /\ process'[q] = process[q]
    BY <1>2 DEF Restart, request, Within
<1>3. ASSUME NEW k \in Keys, EvictFromRedis(k)
      PROVE  pc[q] \in Within /\ scope'[q] = scope[q] /\ process'[q] = process[q]
    BY <1>3 DEF EvictFromRedis, request
<1>4. ASSUME NEW r \in Requests, AskRedis(r) \/ AskLocal(r), r # q
      PROVE  pc[q] \in Within /\ scope'[q] = scope[q] /\ process'[q] = process[q]
    <2>1. pc'[q] = pc[q] /\ scope'[q] = scope[q]
        BY <1>4, AskGoesOn
    <2>2. UNCHANGED process
        BY <1>4 DEF AskRedis, AskLocal, EnterLocal, TestLocal, AppendLocal, EvictLocal
    <2> QED BY <2>1, <2>2
<1>5. CASE AskRedis(q)
    BY <1>5 DEF AskRedis, Allow, Go, Within
<1>6. CASE TestLocal(q) \/ AppendLocal(q)
    BY <1>6 DEF TestLocal, AppendLocal, Go, Within
<1>7. CASE EvictLocal(q)
    BY <1>7 DEF EvictLocal, Allow, Go, Within
<1> QED BY <1>1, <1>2, <1>3, <1>4, <1>5, <1>6, <1>7 DEF Next, AskLocal

(* Only entering tells of an overlap.                                      *)
LEMMA OverlapStep ==
    ASSUME [Next]_vars
    PROVE  \/ UNCHANGED overlapped /\ \A r \in Requests : ~EnterLocal(r)
           \/ \E r \in Requests : EnterLocal(r)
<1>1. (\A r \in Requests : ~EnterLocal(r)) => UNCHANGED overlapped
    BY DEF Next, AskLocal, Tick, AskRedis, TestLocal, AppendLocal, EvictLocal, Restart,
           EvictFromRedis, vars
<1> QED BY <1>1

(* Who enters where others are, is known to overlap, and so are they.      *)
LEMMA TogetherStep ==
    ASSUME TypeOK, TogetherIsKnown, [Next]_vars
    PROVE  TogetherIsKnown'
<1> SUFFICES ASSUME NEW q \in Requests, NEW r \in Requests, q # r,
                    pc'[q] \in Within, pc'[r] \in Within,
                    process'[q] = process'[r], scope'[q] = scope'[r]
             PROVE  <<r, scope'[r]>> \in overlapped'
    BY DEF TogetherIsKnown, Met, Overlapped
<1>1. ASSUME NEW e \in Requests, EnterLocal(e)
      PROVE  /\ \A x \in Requests \ {e} : pc'[x] = pc[x]
             /\ UNCHANGED <<process, scope>>
             /\ overlapped \subseteq overlapped'
             /\ Met(e) # {} => (Met(e) \cup {e}) \X {scope[e]} \subseteq overlapped'
    BY <1>1 DEF EnterLocal, Go, TypeOK
<1>2. CASE EnterLocal(q)
    <2>1. r \in Met(q)
        BY <1>1, <1>2 DEF Met
    <2> QED BY <1>1, <1>2, <2>1
<1>3. CASE EnterLocal(r)
    <2>1. q \in Met(r)
        BY <1>1, <1>3 DEF Met
    <2> QED BY <1>1, <1>3, <2>1
<1>4. CASE ~EnterLocal(q) /\ ~EnterLocal(r)
    <2>1. <<r, scope[r]>> \in overlapped /\ scope'[r] = scope[r]
        BY <1>4, WithinStep DEF TogetherIsKnown, Met, Overlapped
    <2>2. overlapped \subseteq overlapped'
        BY <1>1, OverlapStep
    <2> QED BY <2>1, <2>2
<1> QED BY <1>2, <1>3, <1>4

(* While no call fails, Redis grants everything: every step keeps this.    *)
LEMMA RedisGrantsStep ==
    ASSUME TypeOK, RedisGrantsAll, [Next]_vars
    PROVE  RedisGrantsAll'
<1> USE DEF RedisGrantsAll, TypeOK
<1>1. CASE Tick \/ UNCHANGED vars
    BY <1>1 DEF Tick, vars, history
<1>2. ASSUME NEW t \in Stores, Restart(t)
      PROVE  RedisGrantsAll'
    BY <1>2 DEF Restart, Within
<1>3. ASSUME NEW k \in Keys, EvictFromRedis(k)
      PROVE  RedisGrantsAll'
    BY <1>3 DEF EvictFromRedis
<1>4. ASSUME NEW r \in Requests, AskRedis(r)
      PROVE  RedisGrantsAll'
    <2> SUFFICES ASSUME failures' = 0 PROVE RedisGrantsAll'
        OBVIOUS
    <2>1. failures \in Nat /\ ~Fails
        BY DEF Fails
    <2>2. failures = 0 /\ (Allow(r, Redis, clock) \/ Go(r, "refused")) /\ UNCHANGED overlapped
        BY <1>4, <2>1 DEF AskRedis
    <2> QED BY <2>2 DEF Allow, Go, Within
<1>5. ASSUME NEW r \in Requests, AskLocal(r)
      PROVE  RedisGrantsAll'
    <2>1. UNCHANGED failures /\ pc[r] \in {"fallback"} \cup Within
        BY <1>5 DEF AskLocal, EnterLocal, TestLocal, AppendLocal, EvictLocal, history, Within
    <2> QED BY <2>1
<1> QED BY <1>1, <1>2, <1>3, <1>4, <1>5 DEF Next
-----------------------------------------------------------------------------
(* A larger number of losses is worth at least as much, and one more is    *)
(* worth one budget.                                                       *)
LEMMA Budgets ==
    ASSUME NEW L \in Nat, NEW n \in Nat, NEW m \in Nat
    PROVE  /\ L * n \in Nat
           /\ n <= m => L * n <= L * m
           /\ n < m => L * n + L <= L * m
<1>1. ASSUME NEW d \in Nat, m = n + d
      PROVE  L * m = L * n + L * d /\ L * d \in Nat
    BY <1>1
<1>2. ASSUME n <= m PROVE L * n <= L * m
    <2>1. m - n \in Nat /\ m = n + (m - n)
        BY <1>2
    <2>2. L * m = L * n + L * (m - n) /\ L * (m - n) \in Nat
        BY <1>1, <2>1
    <2>3. L * n \in Nat
        OBVIOUS
    <2> QED BY <2>2, <2>3
<1>3. ASSUME n < m PROVE L * n + L <= L * m
    <2>1. n + 1 \in Nat /\ m - (n + 1) \in Nat /\ m = (n + 1) + (m - (n + 1))
        BY <1>3
    <2>2. L * (n + 1) = L * n + L /\ L * n \in Nat
        OBVIOUS
    <2>3. ASSUME NEW a \in Nat, NEW d \in Nat PROVE L * (a + d) = L * a + L * d /\ L * d \in Nat
        OBVIOUS
    <2>4. L * ((n + 1) + (m - (n + 1))) = L * (n + 1) + L * (m - (n + 1))
          /\ L * (m - (n + 1)) \in Nat
        BY <2>1, <2>3
    <2>5. L * m = L * (n + 1) + L * (m - (n + 1))
        BY <2>1, <2>4
    <2> QED BY <2>2, <2>4, <2>5
<1> QED BY <1>2, <1>3

(* The losses of a key in a store, as a budget, grow with their number.    *)
LEMMA LostGrows ==
    ASSUME TypeOK, TypeOK', NEW k \in Keys, NEW s \in Stores,
           restarts <= restarts', evictions[s][k] <= evictions'[s][k]
    PROVE  /\ Lost(k, s) \in Nat /\ Lost(k, s)' \in Nat /\ Lost(k, s) <= Lost(k, s)'
           /\ restarts < restarts' \/ evictions[s][k] < evictions'[s][k] =>
                    LimitOf(k) + Lost(k, s) <= Lost(k, s)'
<1> DEFINE n == restarts + evictions[s][k]
           m == restarts' + evictions'[s][k]
<1>1. /\ restarts \in Nat /\ restarts' \in Nat
      /\ evictions[s][k] \in Nat /\ evictions'[s][k] \in Nat
    BY DEF TypeOK
<1>2. /\ n \in Nat /\ m \in Nat /\ n <= m
      /\ restarts < restarts' \/ evictions[s][k] < evictions'[s][k] => n < m
    BY <1>1
<1>3. Lost(k, s) = LimitOf(k) * n /\ Lost(k, s)' = LimitOf(k) * m
    BY DEF Lost, LimitOf
<1>4. LimitOf(k) \in Nat
    BY KeyTypes
<1> HIDE DEF n, m
<1>5. /\ LimitOf(k) * n \in Nat /\ LimitOf(k) * m \in Nat
      /\ LimitOf(k) * n <= LimitOf(k) * m
      /\ n < m => LimitOf(k) * n + LimitOf(k) <= LimitOf(k) * m
    BY <1>2, <1>4, Budgets
<1> QED BY <1>2, <1>3, <1>4, <1>5

(* The grants that count, and those that are forgotten, are finitely many. *)
LEMMA CountingFinite ==
    ASSUME AllFinite, NEW k, NEW s, NEW m
    PROVE  /\ IsFiniteSet(Counting(k, s, m)) /\ Cardinality(Counting(k, s, m)) \in Nat
           /\ IsFiniteSet(Forgotten(k, s, m)) /\ Cardinality(Forgotten(k, s, m)) \in Nat
           /\ Cardinality(Forgotten(k, s, m)) <= Cardinality(Counting(k, s, m))
<1>1. Counting(k, s, m) \in SUBSET granted /\ IsFiniteSet(granted)
    BY DEF Counting, GrantedIn, AllFinite
<1>2. IsFiniteSet(Counting(k, s, m))
    BY <1>1, FS_Subset
<1>3. Forgotten(k, s, m) \in SUBSET Counting(k, s, m)
    BY DEF Forgotten
<1>4. /\ IsFiniteSet(Forgotten(k, s, m))
      /\ Cardinality(Forgotten(k, s, m)) <= Cardinality(Counting(k, s, m))
    BY <1>2, <1>3, FS_Subset
<1> QED BY <1>2, <1>4, FS_CardinalityType

(* No entry is lost that counts at a moment or later; no grant counts that *)
(* did not before; or if it does, its entry is there.                      *)
Keeps(k, s, start) ==
    \A h \in hits[s][k] : start < h.at + WindowOf(k) => h \in hits'[s][k]
NoneCounts(k, s) == \A m \in Time : Counting(k, s, m)' \subseteq Counting(k, s, m)
NewOnesAreHit(k, s) == \A m \in Time : \A g \in Counting(k, s, m)' :
    g \in Counting(k, s, m) \/ HitOf(g) \in hits'[s][k]

(* Then nothing is forgotten from that moment on.                          *)
LEMMA NoneForgotten ==
    ASSUME TypeOK, AllFinite, NEW k \in Keys, NEW s \in Stores, NEW start \in Nat,
           Keeps(k, s, start), NewOnesAreHit(k, s), NEW m \in Time, m >= start
    PROVE  /\ Forgotten(k, s, m)' \subseteq Forgotten(k, s, m)
           /\ Cardinality(Forgotten(k, s, m)') <= Cardinality(Forgotten(k, s, m))
<1>1. ASSUME NEW g \in Counting(k, s, m), HitOf(g) \in hits[s][k]
      PROVE  HitOf(g) \in hits'[s][k]
    <2>1. g \in Grant /\ m < g.at + WindowOf(k)
        BY DEF Counting, GrantedIn, TypeOK
    <2>2. start < g.at + WindowOf(k)
        BY <2>1, KeyTypes DEF Grant, Time
    <2>3. HitOf(g).at = g.at
        BY DEF HitOf
    <2> QED BY <1>1, <2>2, <2>3 DEF Keeps
<1>2. ASSUME NEW g \in Forgotten(k, s, m)'
      PROVE  g \in Forgotten(k, s, m)
    <2>1. g \in Counting(k, s, m)' /\ HitOf(g) \notin hits'[s][k]
        BY DEF Forgotten, HitOf
    <2>2. g \in Counting(k, s, m)
        BY <2>1 DEF NewOnesAreHit
    <2> QED BY <1>1, <2>1, <2>2 DEF Forgotten
<1>3. Forgotten(k, s, m)' \in SUBSET Forgotten(k, s, m)
    BY <1>2
<1> QED BY <1>3, CountingFinite, FS_Subset

(* So what few were forgotten stay as few.                                 *)
LEMMA FewStay ==
    ASSUME TypeOK, TypeOK', AllFinite, NEW k \in Keys, NEW s \in Stores,
           NEW start \in Nat, FewForgotten(k, s, start),
           Keeps(k, s, start), NewOnesAreHit(k, s),
           restarts <= restarts', evictions[s][k] <= evictions'[s][k],
           NEW m \in Time, m >= start
    PROVE  Cardinality(Forgotten(k, s, m)') <= Lost(k, s)'
<1>1. Cardinality(Forgotten(k, s, m)) <= Lost(k, s)
    BY DEF FewForgotten
<1>2. Cardinality(Forgotten(k, s, m)') <= Cardinality(Forgotten(k, s, m))
    BY NoneForgotten
<1>3. Cardinality(Forgotten(k, s, m)) \in Nat
    BY CountingFinite
<1>4. Cardinality(Forgotten(k, s, m)') \in Nat
    <2>1. Forgotten(k, s, m)' \in SUBSET Forgotten(k, s, m)
        BY NoneForgotten
    <2> QED BY <2>1, CountingFinite, FS_Subset, FS_CardinalityType
<1>5. Lost(k, s) \in Nat /\ Lost(k, s)' \in Nat /\ Lost(k, s) <= Lost(k, s)'
    BY LostGrows
<1> QED BY <1>1, <1>2, <1>3, <1>4, <1>5
-----------------------------------------------------------------------------
(* The budget of one store for one key.                                    *)
BudgetOf(k, s) ==
    /\ \A m \in Time : Cardinality(Counting(k, s, m)) <= LimitOf(k) + Lost(k, s)
    /\ FewForgotten(k, s, clock)

(* A step without a new grant that counts, that loses no entry that does,  *)
(* keeps the budget.                                                       *)
LEMMA BudgetKept ==
    ASSUME TypeOK, TypeOK', AllFinite, NEW k \in Keys, NEW s \in Stores,
           BudgetOf(k, s), clock <= clock', NoneCounts(k, s), Keeps(k, s, clock),
           restarts <= restarts', evictions[s][k] <= evictions'[s][k]
    PROVE  BudgetOf(k, s)'
<1>1. clock \in Nat /\ clock' \in Nat
    BY DEF TypeOK, Time
<1>2. /\ LimitOf(k) \in Nat
      /\ Lost(k, s) \in Nat /\ Lost(k, s)' \in Nat /\ Lost(k, s) <= Lost(k, s)'
    BY KeyTypes, LostGrows
<1>3. ASSUME NEW m \in Time
      PROVE  Cardinality(Counting(k, s, m)') <= LimitOf(k) + Lost(k, s)'
    <2>1. Counting(k, s, m)' \in SUBSET Counting(k, s, m)
        BY DEF NoneCounts
    <2>2. /\ Cardinality(Counting(k, s, m)') <= Cardinality(Counting(k, s, m))
          /\ IsFiniteSet(Counting(k, s, m)')
        BY <2>1, CountingFinite, FS_Subset
    <2>3. Cardinality(Counting(k, s, m)') \in Nat /\ Cardinality(Counting(k, s, m)) \in Nat
        BY <2>2, CountingFinite, FS_CardinalityType
    <2>4. Cardinality(Counting(k, s, m)) <= LimitOf(k) + Lost(k, s)
        BY DEF BudgetOf
    <2> QED BY <1>2, <2>2, <2>3, <2>4
<1>4. ASSUME NEW m \in Time, m >= clock'
      PROVE  Cardinality(Forgotten(k, s, m)') <= Lost(k, s)'
    <2>1. PICK start \in Nat : start = clock
        BY <1>1
    <2>2. FewForgotten(k, s, start) /\ Keeps(k, s, start) /\ NewOnesAreHit(k, s)
        BY <2>1 DEF BudgetOf, NoneCounts, NewOnesAreHit
    <2>3. m >= start
        BY <1>1, <1>4, <2>1 DEF Time
    <2> QED BY <2>2, <2>3, FewStay
<1> QED BY <1>3, <1>4 DEF BudgetOf, FewForgotten, LimitOf

(* A step that loses entries, without a new grant that counts, adds to the *)
(* losses a whole budget.                                                  *)
LEMMA BudgetLost ==
    ASSUME TypeOK, TypeOK', AllFinite, NEW k \in Keys, NEW s \in Stores,
           BudgetOf(k, s), NoneCounts(k, s),
           restarts <= restarts', evictions[s][k] <= evictions'[s][k],
           restarts < restarts' \/ evictions[s][k] < evictions'[s][k]
    PROVE  BudgetOf(k, s)'
<1>1. /\ LimitOf(k) \in Nat /\ Lost(k, s) \in Nat /\ Lost(k, s)' \in Nat
      /\ LimitOf(k) + Lost(k, s) <= Lost(k, s)'
    BY KeyTypes, LostGrows
<1>2. ASSUME NEW m \in Time
      PROVE  /\ Cardinality(Counting(k, s, m)') <= LimitOf(k) + Lost(k, s)'
             /\ Cardinality(Forgotten(k, s, m)') <= Lost(k, s)'
    <2>1. Counting(k, s, m)' \in SUBSET Counting(k, s, m)
        BY DEF NoneCounts
    <2>2. Forgotten(k, s, m)' \in SUBSET Counting(k, s, m)
        BY <2>1 DEF Forgotten
    <2>3. /\ Cardinality(Counting(k, s, m)') <= Cardinality(Counting(k, s, m))
          /\ Cardinality(Forgotten(k, s, m)') <= Cardinality(Counting(k, s, m))
          /\ IsFiniteSet(Counting(k, s, m)') /\ IsFiniteSet(Forgotten(k, s, m)')
        BY <2>1, <2>2, CountingFinite, FS_Subset
    <2>4. /\ Cardinality(Counting(k, s, m)') \in Nat /\ Cardinality(Counting(k, s, m)) \in Nat
          /\ Cardinality(Forgotten(k, s, m)') \in Nat
        BY <2>3, CountingFinite, FS_CardinalityType
    <2>5. Cardinality(Counting(k, s, m)) <= LimitOf(k) + Lost(k, s)
        BY DEF BudgetOf
    <2> QED BY <1>1, <2>3, <2>4, <2>5
<1> QED BY <1>2 DEF BudgetOf, FewForgotten, LimitOf
(* Where the entries that a store has of the grants that count are among   *)
(* H, those grants are no more than H, and those it has forgotten.         *)
LEMMA CountingBound ==
    ASSUME TypeOK, AllFinite, NEW k \in Keys, NEW s \in Stores, NEW a \in Time,
           NEW g0 \in Grant, g0.store = s, g0.scope = k[1], NEW H, IsFiniteSet(H),
           \A g \in Counting(k, s, a) :
                HitOf(g) \in hits[s][k] => HitOf(g) \in H \cup {HitOf(g0)}
    PROVE  /\ IsFiniteSet(Counting(k, s, a) \cup {g0})
           /\ Cardinality(Counting(k, s, a) \cup {g0})
                    <= Cardinality(H) + 1 + Cardinality(Forgotten(k, s, a))
<1> DEFINE C == Counting(k, s, a) \cup {g0}
           G == H \cup {HitOf(g0)}
           N == {g \in C : HitOf(g) \in G}
           F == Forgotten(k, s, a)
           f == [g \in N |-> HitOf(g)]
<1>1. IsFiniteSet(C)
    BY CountingFinite, FS_AddElement
<1>2. IsFiniteSet(G) /\ Cardinality(G) <= Cardinality(H) + 1
    BY OneMore
<1>3. f \in [N -> G]
    OBVIOUS
<1>4. \A x, y \in N : f[x] = f[y] => x = y
    <2> SUFFICES ASSUME NEW x \in N, NEW y \in N, f[x] = f[y] PROVE x = y
        OBVIOUS
    <2>1. /\ x \in Grant /\ x.store = s /\ x.scope = k[1]
          /\ y \in Grant /\ y.store = s /\ y.scope = k[1]
        BY DEF Counting, GrantedIn, IsFor, TypeOK
    <2>2. HitOf(x) = HitOf(y)
        OBVIOUS
    <2>3. x.request = y.request /\ x.at = y.at
        BY <2>2 DEF HitOf
    <2> HIDE DEF f, N
    <2> QED BY <2>1, <2>3 DEF Grant
<1>5. C = N \cup F
    <2>1. F \subseteq C /\ N \subseteq C
        BY DEF Forgotten
    <2>2. ASSUME NEW g \in C PROVE g \in N \cup F
        <3>1. CASE g = g0
            BY <3>1
        <3>2. CASE g \in Counting(k, s, a)
            BY <3>2 DEF Forgotten
        <3> QED BY <3>1, <3>2
    <2> HIDE DEF C, N, F
    <2> QED BY <2>1, <2>2
<1> HIDE DEF f, N, G
<1>6. IsFiniteSet(N) /\ Cardinality(N) <= Cardinality(G)
    BY <1>2, <1>3, <1>4, OneToOne
<1>7. IsFiniteSet(F) /\ Cardinality(F) \in Nat
    BY CountingFinite
<1> HIDE DEF F, C
<1>8. /\ Cardinality(N \cup F) = Cardinality(N) + Cardinality(F) - Cardinality(N \cap F)
      /\ IsFiniteSet(N \cap F)
    BY <1>6, <1>7, FS_Union, FS_Intersection
<1>9. /\ Cardinality(N) \in Nat /\ Cardinality(G) \in Nat /\ Cardinality(H) \in Nat
      /\ Cardinality(N \cap F) \in Nat
    BY <1>2, <1>6, <1>8, FS_CardinalityType
<1>10. Cardinality(C) <= Cardinality(H) + 1 + Cardinality(F)
    BY <1>2, <1>5, <1>6, <1>7, <1>8, <1>9
<1> QED BY <1>1, <1>10 DEF C, F

(* A grant keeps the budget of its key and store: the entries that counted *)
(* were fewer than the limit, the store keeps the new one, and no grant    *)
(* that counts is later.                                                   *)
LEMMA BudgetGranted ==
    ASSUME TypeOK, TypeOK', AllFinite, NEW k \in Keys, NEW s \in Stores,
           NEW a \in Time, a <= clock, UNCHANGED clock,
           BudgetOf(k, s), FewForgotten(k, s, a),
           NEW g0 \in Grant, g0.at = a, g0.store = s, g0.scope = k[1],
           HitOf(g0) \in hits'[s][k],
           \A m \in Time : Counting(k, s, m)' \subseteq Counting(k, s, m) \cup {g0},
           \A g \in granted : g.store = s /\ g.scope = k[1] /\ RanAlone(g) => g.at <= a,
           NEW H, IsFiniteSet(H), Cardinality(H) < LimitOf(k),
           \A g \in Counting(k, s, a) :
                HitOf(g) \in hits[s][k] => HitOf(g) \in H \cup {HitOf(g0)},
           Keeps(k, s, clock),
           restarts <= restarts', evictions[s][k] <= evictions'[s][k]
    PROVE  BudgetOf(k, s)'
<1>1. clock \in Nat /\ a \in Nat
    BY DEF TypeOK, Time
<1>2. /\ LimitOf(k) \in Nat /\ WindowOf(k) \in Nat
      /\ Lost(k, s) \in Nat /\ Lost(k, s)' \in Nat /\ Lost(k, s) <= Lost(k, s)'
    BY KeyTypes, LostGrows
<1>3. ASSUME NEW C, IsFiniteSet(C), Cardinality(C) <= LimitOf(k) + Lost(k, s),
             NEW S \in SUBSET C
      PROVE  Cardinality(S) <= LimitOf(k) + Lost(k, s)'
    <2>1. IsFiniteSet(S) /\ Cardinality(S) <= Cardinality(C)
        BY <1>3, FS_Subset
    <2>2. Cardinality(S) \in Nat /\ Cardinality(C) \in Nat
        BY <1>3, <2>1, FS_CardinalityType
    <2> QED BY <1>2, <1>3, <2>1, <2>2
<1>4. ASSUME NEW m \in Time
      PROVE  Cardinality(Counting(k, s, m)') <= LimitOf(k) + Lost(k, s)'
    <2>1. m \in Nat
        BY DEF Time
    <2>2. \A g \in Counting(k, s, m)' : g.at <= m /\ m < g.at + WindowOf(k)
        BY DEF Counting, GrantedIn, WindowOf
    <2>3. CASE m < a
        <3>1. g0 \notin Counting(k, s, m)'
            BY <1>1, <2>1, <2>2, <2>3
        <3>2. Counting(k, s, m)' \in SUBSET Counting(k, s, m)
            BY <3>1
        <3>3. Cardinality(Counting(k, s, m)) <= LimitOf(k) + Lost(k, s)
            BY DEF BudgetOf
        <3> QED BY <1>3, <3>2, <3>3, CountingFinite
    <2>4. CASE m >= a
        <3>1. ASSUME NEW g \in Counting(k, s, m)
              PROVE  g \in Counting(k, s, a)
            <4>1. /\ g \in granted /\ g \in Grant /\ IsFor(g, k) /\ g.store = s /\ RanAlone(g)
                  /\ m < g.at + WindowOf(k)
                BY DEF Counting, GrantedIn, TypeOK
            <4>2. g.at <= a
                BY <4>1 DEF IsFor
            <4>3. a < g.at + WindowOf(k)
                BY <1>1, <1>2, <2>1, <2>4, <4>1 DEF Grant, Time
            <4> QED BY <4>1, <4>2, <4>3 DEF Counting, GrantedIn
        <3>2. Counting(k, s, m)' \in SUBSET (Counting(k, s, a) \cup {g0})
            BY <3>1
        <3>3. /\ IsFiniteSet(Counting(k, s, a) \cup {g0})
              /\ Cardinality(Counting(k, s, a) \cup {g0})
                    <= Cardinality(H) + 1 + Cardinality(Forgotten(k, s, a))
            BY CountingBound
        <3>4. Cardinality(Forgotten(k, s, a)) <= Lost(k, s)
            BY <1>1 DEF FewForgotten
        <3>5. /\ Cardinality(H) \in Nat /\ Cardinality(Forgotten(k, s, a)) \in Nat
              /\ Cardinality(Counting(k, s, a) \cup {g0}) \in Nat
            BY <3>3, CountingFinite, FS_CardinalityType
        <3>6. Cardinality(Counting(k, s, a) \cup {g0}) <= LimitOf(k) + Lost(k, s)
            BY <1>2, <3>3, <3>4, <3>5
        <3> QED BY <1>3, <3>2, <3>3, <3>6
    <2> QED BY <1>1, <2>1, <2>3, <2>4
<1>5. ASSUME NEW m \in Time, m >= clock'
      PROVE  Cardinality(Forgotten(k, s, m)') <= Lost(k, s)'
    <2>1. PICK start \in Nat : start = clock
        BY <1>1
    <2>2. FewForgotten(k, s, start) /\ Keeps(k, s, start) /\ m >= start
        BY <1>5, <2>1 DEF BudgetOf
    <2>3. NewOnesAreHit(k, s)
        BY DEF NewOnesAreHit
    <2> QED BY <2>2, <2>3, FewStay
<1> QED BY <1>4, <1>5 DEF BudgetOf, FewForgotten, LimitOf
-----------------------------------------------------------------------------
(* Which grants may begin to count: the new one, if it is for this key and *)
(* by this store, to a call that ran alone.                                *)
LEMMA NewCounts ==
    ASSUME NEW k \in Keys, NEW s \in Stores, UNCHANGED source, overlapped \subseteq overlapped'
    PROVE  /\ (\A g \in granted' : g \in granted \/ ~(IsFor(g, k) /\ g.store = s /\ RanAlone(g)))
                    => NoneCounts(k, s)
           /\ \A g0 : granted' = granted \cup {g0} =>
                    \A m \in Time : Counting(k, s, m)' \subseteq Counting(k, s, m) \cup {g0}
<1>1. ASSUME NEW m \in Time, NEW g \in Counting(k, s, m)'
      PROVE  /\ g \in granted' /\ IsFor(g, k) /\ g.store = s /\ RanAlone(g)
             /\ g \in granted => g \in Counting(k, s, m)
    BY DEF Counting, GrantedIn, IsFor, RanAlone, WindowOf
<1> QED BY <1>1 DEF NoneCounts

(* The steps that are no request's keep every budget.                      *)
LEMMA BudgetOthers ==
    ASSUME TypeOK, TypeOK', AllFinite, NEW k \in Keys, NEW s \in Stores, BudgetOf(k, s),
           \/ Tick \/ UNCHANGED vars
           \/ \E t \in Stores : Restart(t)
           \/ \E j \in Keys : EvictFromRedis(j)
    PROVE  BudgetOf(k, s)'
<1>1. clock \in Nat /\ restarts \in Nat /\ evictions[s][k] \in Nat
    BY DEF TypeOK, Time
<1>2. UNCHANGED <<granted, source, overlapped>>
    BY DEF Tick, vars, request, Restart, EvictFromRedis
<1>3. NoneCounts(k, s)
    BY <1>2, NewCounts
<1>4. ASSUME hits'[s][k] = hits[s][k], clock <= clock',
             restarts <= restarts', evictions[s][k] <= evictions'[s][k]
      PROVE  BudgetOf(k, s)'
    BY <1>3, <1>4, BudgetKept DEF Keeps
<1>5. CASE Tick \/ UNCHANGED vars
    BY <1>1, <1>4, <1>5 DEF Tick, vars, history
<1>6. ASSUME NEW t \in Stores, Restart(t)
      PROVE  BudgetOf(k, s)'
    <2>1. restarts' = restarts + 1 /\ UNCHANGED evictions
        BY <1>6 DEF Restart
    <2>2. restarts <= restarts' /\ restarts < restarts' /\ evictions[s][k] <= evictions'[s][k]
        BY <1>1, <2>1
    <2> QED BY <1>3, <2>2, BudgetLost
<1>7. ASSUME NEW j \in Keys, EvictFromRedis(j)
      PROVE  BudgetOf(k, s)'
    <2>1. UNCHANGED <<clock, restarts>> /\ Redis \in Stores
        BY <1>7 DEF EvictFromRedis, Stores
    <2>2. CASE s = Redis /\ k = j
        <3>1. evictions'[s][k] = evictions[s][k] + 1
            BY <1>7, <2>1, <2>2 DEF EvictFromRedis, TypeOK
        <3>2. restarts <= restarts' /\ evictions[s][k] < evictions'[s][k]
              /\ evictions[s][k] <= evictions'[s][k]
            BY <1>1, <2>1, <3>1
        <3> QED BY <1>3, <3>2, BudgetLost
    <2>3. CASE ~(s = Redis /\ k = j)
        <3>1. hits'[s][k] = hits[s][k] /\ evictions'[s][k] = evictions[s][k]
            BY <1>7, <2>1, <2>3 DEF EvictFromRedis, TypeOK
        <3> QED BY <1>1, <1>4, <2>1, <3>1
    <2> QED BY <2>2, <2>3
<1> QED BY <1>5, <1>6, <1>7

(* A call to Redis keeps every budget: it grants only where the recent     *)
(* entries, which are all that count, are fewer than the limit.            *)
LEMMA BudgetAskRedis ==
    ASSUME TypeOK, TypeOK', OnRoute, AllFinite, NothingAhead, NEW r \in Requests, AskRedis(r),
           NEW k \in Keys, NEW s \in Stores, BudgetOf(k, s)
    PROVE  BudgetOf(k, s)'
<1>1. /\ clock \in Nat /\ clock \in Time /\ restarts \in Nat /\ evictions[s][k] \in Nat
      /\ WindowOf(k) \in Nat /\ LimitOf(k) \in Nat /\ Redis \in Stores
    BY KeyTypes DEF TypeOK, Time, Stores
<1>2. UNCHANGED <<clock, source, restarts, evictions, overlapped>>
    BY DEF AskRedis
<1>3. restarts <= restarts' /\ evictions[s][k] <= evictions'[s][k] /\ clock <= clock'
    BY <1>1, <1>2
<1>4. Keeps(k, s, clock)
    <2>1. \A h \in hits[s][k] : h.at \in Nat
        BY DEF TypeOK, Hit, Time
    <2>2. \A h \in hits[s][k] : clock < h.at + WindowOf(k) => h.at >= clock - WindowOf(k)
        BY <1>1, <2>1
    <2> QED BY <2>2, RedisHits DEF Keeps, Recent
<1>5. CASE NoneCounts(k, s)
    BY <1>3, <1>4, <1>5, BudgetKept
<1>6. CASE ~NoneCounts(k, s)
    <2>1. PICK at \in Time : at = clock
        BY <1>1
    <2> DEFINE g0 == NewGrant(r, Redis, at)
    <2>2. granted' = granted \cup {g0}
        BY <1>2, <1>6, <2>1, AskGrants, NewCounts DEF AskRedis, EvictLocal
    <2>3. IsFor(g0, k) /\ g0.store = s
        BY <1>2, <1>6, <2>2, NewCounts
    <2>4. k = KeyOf(r) /\ s = Redis /\ g0 \in Grant
        BY <1>1, <2>3, NewGrantIsFor DEF NewGrant
    <2>5. g0.at = at /\ HitOf(g0) = NewHit(r, clock) /\ g0.scope = k[1]
        BY <2>1, <2>3 DEF NewGrant, HitOf, NewHit, IsFor
    <2> HIDE DEF g0
    <2>6. ~RedisFull(k) /\ hits' = RedisCharged(k, r)
        <3>1. ~UNCHANGED granted
            BY <1>2, <1>6, NewCounts
        <3> QED BY <2>4, <3>1 DEF AskRedis, Go
    <2>7. HitOf(g0) \in hits'[s][k]
        BY <2>4, <2>5, <2>6 DEF RedisCharged, TypeOK
    <2>8. \A m \in Time : Counting(k, s, m)' \subseteq Counting(k, s, m) \cup {g0}
        BY <1>2, <2>2, NewCounts
    <2>9. IsFiniteSet(Recent(k)) /\ Cardinality(Recent(k)) < LimitOf(k)
        <3>1. Recent(k) \in SUBSET hits[Redis][k]
            BY DEF Recent
        <3>2. IsFiniteSet(Recent(k))
            BY <1>1, <3>1, FS_Subset DEF AllFinite
        <3> QED BY <1>1, <2>6, <3>2, FS_CardinalityType DEF RedisFull
    <2>10. \A g \in Counting(k, s, at) : HitOf(g) \in hits[s][k] => HitOf(g) \in Recent(k)
        <3> SUFFICES ASSUME NEW g \in Counting(k, s, at), HitOf(g) \in hits[s][k]
                     PROVE  HitOf(g).at >= clock - WindowOf(k)
            BY <2>4 DEF Recent
        <3>1. g \in Grant /\ at < g.at + WindowOf(k) /\ HitOf(g).at = g.at
            BY DEF Counting, GrantedIn, TypeOK, HitOf
        <3> QED BY <1>1, <2>1, <3>1 DEF Grant, Time
    <2>11. \A g \in granted : g.at <= at
        BY <2>1 DEF NothingAhead
    <2>12. at <= clock /\ FewForgotten(k, s, at)
        BY <1>1, <2>1 DEF BudgetOf
    <2>13. PICK H : H = Recent(k)
        OBVIOUS
    <2>14. /\ IsFiniteSet(H) /\ Cardinality(H) < LimitOf(k)
           /\ \A g \in Counting(k, s, at) :
                HitOf(g) \in hits[s][k] => HitOf(g) \in H \cup {HitOf(g0)}
        BY <2>9, <2>10, <2>13
    <2> QED BY <1>2, <1>3, <1>4, <2>3, <2>4, <2>5, <2>7, <2>8, <2>11, <2>12, <2>14, BudgetGranted
<1> QED BY <1>5, <1>6
(* So does a local call before it decides: no entry that counts is lost.   *)
LEMMA BudgetBeforeEvict ==
    ASSUME TypeOK, TypeOK', OnRoute, AllFinite, NothingAhead, NEW r \in Requests,
           EnterLocal(r) \/ TestLocal(r) \/ AppendLocal(r),
           NEW k \in Keys, NEW s \in Stores, BudgetOf(k, s)
    PROVE  BudgetOf(k, s)'
<1>1. /\ clock \in Nat /\ restarts \in Nat /\ evictions[s][k] \in Nat
      /\ now[r] \in Nat /\ now[r] <= clock /\ WindowOf(k) \in Nat
    BY KeyTypes DEF TypeOK, Time, NothingAhead
<1>2. /\ UNCHANGED <<clock, source, restarts, evictions, granted>>
      /\ overlapped \subseteq overlapped'
    BY DEF EnterLocal, TestLocal, AppendLocal, Go, history
<1>3. NoneCounts(k, s)
    BY <1>2, NewCounts
<1>4. Keeps(k, s, clock)
    <2>1. CASE EnterLocal(r)
        BY <2>1 DEF EnterLocal, Keeps
    <2>2. CASE TestLocal(r)
        <3>1. \A h \in hits[s][k] : h.at \in Nat
            BY DEF TypeOK, Hit, Time
        <3>2. \A h \in hits[s][k] : clock < h.at + WindowOf(k) => h.at + WindowOf(k) > now[r]
            BY <1>1, <3>1
        <3> QED BY <2>2, <3>2, TestHits DEF Keeps
    <2>3. CASE AppendLocal(r)
        BY <2>3, AppendHits DEF Keeps
    <2> QED BY <2>1, <2>2, <2>3
<1>5. restarts <= restarts' /\ evictions[s][k] <= evictions'[s][k] /\ clock <= clock'
    BY <1>1, <1>2
<1> QED BY <1>3, <1>4, <1>5, BudgetKept

(* The entries that count for a call alone in its limiter, and its own.    *)
LEMMA AloneRoom ==
    ASSUME TypeOK, OnRoute, HitsAreCharged, AllFinite, NEW r \in Requests,
           pc[r] = "evict", ~Overlapped(r), AloneWithin(r),
           NEW k \in Keys, k = KeyOf(r), NEW p \in Stores, p = process[r],
           NEW a \in Time, a = now[r]
    PROVE  LET H == OthersIn(k, hits[p][k], r) IN
           /\ IsFiniteSet(H) /\ Cardinality(H) < LimitOf(k)
           /\ FewForgotten(k, p, a)
           /\ \A g \in granted : g.store = p /\ g.scope = k[1] /\ RanAlone(g) => g.at <= a
           /\ NewHit(r, a) \in hits[p][k]
           /\ \A g \in Counting(k, p, a) :
                    HitOf(g) \in hits[p][k] => HitOf(g) \in H \cup {NewHit(r, a)}
<1> DEFINE H == OthersIn(k, hits[p][k], r)
<1>1. k[1] = scope[r]
    BY KeyOfIsKey
<1>2. /\ \A g \in granted :
            g.store = p /\ g.scope = scope[r] /\ RanAlone(g) => g.at <= now[r]
      /\ FewForgotten(k, p, now[r])
      /\ Cardinality(H) < LimitOf(k)
      /\ NewHit(r, now[r]) \in hits[p][k]
    BY <1>1 DEF AloneWithin, Within
<1>3. H \in SUBSET hits[p][k]
    BY DEF OthersIn, Alone
<1>4. IsFiniteSet(H)
    BY <1>3, FS_Subset DEF AllFinite
<1>5. ASSUME NEW g \in Counting(k, p, a), HitOf(g) \in hits[p][k]
      PROVE  HitOf(g) \in H \cup {NewHit(r, a)}
    <2>1. /\ HitOf(g).request = g.request /\ HitOf(g).at = g.at
          /\ NewHit(r, a).request = r
        BY DEF HitOf, NewHit
    <2>2. g.scope = k[1] /\ <<g.request, g.scope>> \notin overlapped /\ a < g.at + WindowOf(k)
        BY DEF Counting, GrantedIn, IsFor, RanAlone
    <2>3. CASE g.request = r
        BY <1>2, <1>5, <2>1, <2>3 DEF HitsAreCharged
    <2>4. CASE g.request # r
        <3>1. HitOf(g) \in Alone(k, hits[p][k])
            BY <1>5, <2>1, <2>2 DEF Alone
        <3>2. HitOf(g).at + WindowOf(k) > now[r]
            <4>1. g.at \in Nat /\ now[r] \in Nat /\ WindowOf(k) \in Nat
                BY KeyTypes DEF Counting, GrantedIn, TypeOK, Grant, Time
            <4> QED BY <2>1, <2>2, <4>1
        <3> QED BY <2>1, <2>4, <3>1, <3>2 DEF OthersIn
    <2> QED BY <2>3, <2>4
<1> QED BY <1>1, <1>2, <1>4, <1>5

(* And so does its decision: alone it had room, and the keys it evicts are *)
(* counted.                                                                *)
LEMMA BudgetEvictLocal ==
    ASSUME TypeOK, TypeOK', OnRoute, HitsAreCharged, AllFinite, NothingAhead,
           NEW r \in Requests, EvictLocal(r), AloneWithin(r),
           NEW k \in Keys, NEW s \in Stores, BudgetOf(k, s)
    PROVE  BudgetOf(k, s)'
<1>1. /\ clock \in Nat /\ restarts \in Nat /\ evictions[s][k] \in Nat
      /\ now[r] \in Time /\ now[r] <= clock /\ process[r] \in Stores
    BY DEF TypeOK, Time, Stores, NothingAhead
<1>2. UNCHANGED <<clock, source, restarts, overlapped>> /\ pc[r] = "evict"
    BY DEF EvictLocal
<1>3. \/ hits'[s][k] = hits[s][k] /\ evictions'[s][k] = evictions[s][k]
      \/ /\ s = process[r] /\ k[1] = scope[r]
         /\ Overlapped(r) \/ k # KeyOf(r)
         /\ evictions'[s][k] = evictions[s][k] + 1
    BY EvictHits
<1>4. restarts <= restarts' /\ evictions[s][k] <= evictions'[s][k] /\ clock <= clock'
    BY <1>1, <1>2, <1>3
<1>5. CASE NoneCounts(k, s)
    <2>1. CASE hits'[s][k] = hits[s][k]
        BY <1>4, <1>5, <2>1, BudgetKept DEF Keeps
    <2>2. CASE evictions'[s][k] = evictions[s][k] + 1
        <3>1. evictions[s][k] < evictions'[s][k]
            BY <1>1, <2>2
        <3> QED BY <1>4, <1>5, <3>1, BudgetLost
    <2> QED BY <1>3, <2>1, <2>2
<1>6. CASE ~NoneCounts(k, s)
    <2>1. PICK a \in Time : a = now[r]
        BY <1>1
    <2>2. PICK p \in Stores : p = process[r]
        BY <1>1
    <2> DEFINE g0 == NewGrant(r, p, a)
    <2>3. granted' = granted \cup {g0}
        BY <1>2, <1>6, <2>1, <2>2, AskGrants, NewCounts DEF AskRedis, EvictLocal, AskLocal
    <2>4. IsFor(g0, k) /\ g0.store = s /\ RanAlone(g0)
        BY <1>2, <1>6, <2>3, NewCounts
    <2>5. k = KeyOf(r) /\ s = p /\ g0 \in Grant
        BY <2>4, NewGrantIsFor DEF NewGrant
    <2>6. /\ g0.at = a /\ HitOf(g0) = NewHit(r, a) /\ g0.scope = k[1]
          /\ ~Overlapped(r)
        BY <2>4 DEF NewGrant, HitOf, NewHit, IsFor, RanAlone, Overlapped
    <2> HIDE DEF g0
    <2>7. hits'[s][k] = hits[s][k]
        BY <1>3, <2>5, <2>6, EvictHits
    <2>8. PICK H : H = OthersIn(k, hits[p][k], r)
        OBVIOUS
    <2>9. /\ IsFiniteSet(H) /\ Cardinality(H) < LimitOf(k)
          /\ FewForgotten(k, s, a)
          /\ \A g \in granted : g.store = s /\ g.scope = k[1] /\ RanAlone(g) => g.at <= a
          /\ HitOf(g0) \in hits'[s][k]
          /\ \A g \in Counting(k, s, a) :
                HitOf(g) \in hits[s][k] => HitOf(g) \in H \cup {HitOf(g0)}
        BY <1>2, <2>1, <2>2, <2>5, <2>6, <2>7, <2>8, AloneRoom
    <2>10. \A m \in Time : Counting(k, s, m)' \subseteq Counting(k, s, m) \cup {g0}
        BY <1>2, <2>3, NewCounts
    <2>11. Keeps(k, s, clock) /\ a <= clock
        BY <1>1, <2>1, <2>7 DEF Keeps
    <2> QED BY <1>2, <1>4, <2>4, <2>5, <2>6, <2>9, <2>10, <2>11, BudgetGranted
<1> QED BY <1>5, <1>6

(* Every step keeps every budget.                                          *)
LEMMA BudgetStep ==
    ASSUME TypeOK, TypeOK', OnRoute, HitsAreCharged, AllFinite, NothingAhead,
           \A r \in Requests : AloneWithin(r), [Next]_vars,
           NEW k \in Keys, NEW s \in Stores, BudgetOf(k, s)
    PROVE  BudgetOf(k, s)'
BY BudgetOthers, BudgetAskRedis, BudgetBeforeEvict, BudgetEvictLocal DEF Next, AskLocal
-----------------------------------------------------------------------------
(* What AloneWithin says of a request r at process p, key k, limiter c and *)
(* moment a.                                                               *)
AloneAt(r, p, k, c, a) ==
    /\ \A g \in granted : g.store = p /\ g.scope = c /\ RanAlone(g) => g.at <= a
    /\ \A j \in Keys, m \in Time : j[1] = c /\ m >= a =>
            Cardinality(Forgotten(j, p, m)) <= Lost(j, p)
    /\ pc[r] # "test" =>
            Cardinality({h \in Alone(k, hits[p][k]) : h.request # r /\ h.at + WindowOf(k) > a})
                < LimitOf(k)
    /\ pc[r] = "evict" => NewHit(r, a) \in hits[p][k]

(* It says so of those that are alone within their limiter.                *)
LEMMA AloneIs ==
    ASSUME NEW r, NEW p, p = process[r], NEW k, k = KeyOf(r), NEW c, c = scope[r],
           NEW a, a = now[r]
    PROVE  AloneWithin(r) <=> (pc[r] \in Within /\ ~Overlapped(r) => AloneAt(r, p, k, c, a))
BY DEF AloneWithin, AloneAt, FewForgotten, OthersIn

(* A limiter with one call within it is touched by that call only.         *)
LEMMA Untouched ==
    ASSUME TypeOK, OnRoute, TogetherIsKnown, [Next]_vars, NEW r \in Requests,
           pc[r] \in Within, pc'[r] \in Within, ~Overlapped(r),
           ~TestLocal(r), ~AppendLocal(r), ~EvictLocal(r),
           NEW p \in Stores, p = process[r]
    PROVE  /\ \A j \in Keys : j[1] = scope[r] =>
                hits'[p][j] = hits[p][j] /\ evictions'[p][j] = evictions[p][j]
           /\ restarts <= restarts' /\ pc'[r] = pc[r] /\ now'[r] = now[r]
           /\ UNCHANGED source /\ overlapped \subseteq overlapped'
           /\ \A g \in granted' : g.store = p /\ g.scope = scope[r] => g \in granted
<1>1. restarts \in Nat /\ p # Redis
    BY StoresAssumption DEF TypeOK
<1>2. CASE Tick \/ UNCHANGED vars
    BY <1>1, <1>2 DEF Tick, vars, request, history
<1>3. ASSUME NEW t \in Stores, Restart(t)
      PROVE  /\ t # p /\ UNCHANGED <<granted, source, now, overlapped, evictions>>
             /\ restarts' = restarts + 1 /\ pc'[r] = pc[r]
             /\ \A j \in Keys : hits'[p][j] = hits[p][j]
    <2>1. pc'[r] # "failed"
        BY DEF Within
    <2>2. t # p /\ pc'[r] = pc[r]
        BY <1>3, <2>1 DEF Restart, Within, Ended
    <2> QED BY <1>3, <2>2 DEF Restart, request, TypeOK
<1>4. ASSUME NEW k \in Keys, EvictFromRedis(k)
      PROVE  /\ UNCHANGED <<granted, source, now, overlapped, restarts, pc>>
             /\ \A j \in Keys : hits'[p][j] = hits[p][j] /\ evictions'[p][j] = evictions[p][j]
    BY <1>1, <1>4 DEF EvictFromRedis, request, TypeOK
<1>5. ASSUME NEW q \in Requests, AskRedis(q) \/ AskLocal(q)
      PROVE  /\ \A j \in Keys : j[1] = scope[r] =>
                   hits'[p][j] = hits[p][j] /\ evictions'[p][j] = evictions[p][j]
             /\ UNCHANGED <<restarts, source>> /\ pc'[r] = pc[r] /\ now'[r] = now[r]
             /\ overlapped \subseteq overlapped'
             /\ \A g \in granted' : g.store = p /\ g.scope = scope[r] => g \in granted
    <2>1. q # r
        BY <1>5 DEF AskRedis, AskLocal, EnterLocal, Within
    <2>2. /\ UNCHANGED <<restarts, source>> /\ pc'[r] = pc[r] /\ now'[r] = now[r]
          /\ overlapped \subseteq overlapped'
        <3>1. pc'[r] = pc[r]
            BY <1>5, <2>1, AskGoesOn
        <3> QED BY <1>5, <2>1, <3>1 DEF AskRedis, AskLocal, EnterLocal, TestLocal, AppendLocal,
                                        EvictLocal, history, TypeOK
    <2>3. CASE AskRedis(q)
        <3>1. UNCHANGED evictions /\ \A j \in Keys : hits'[p][j] = hits[p][j]
            BY <1>1, <2>3, RedisHits DEF AskRedis
        <3>2. NewGrant(q, Redis, clock).store # p /\ ~EvictLocal(q)
            BY <1>1, <2>3 DEF NewGrant, AskRedis, EvictLocal
        <3> QED BY <2>2, <2>3, <3>1, <3>2, AskGrants
    <2>4. CASE EnterLocal(q)
        BY <2>2, <2>4 DEF EnterLocal, Go, history
    <2>5. CASE TestLocal(q) \/ AppendLocal(q) \/ EvictLocal(q)
        <3>1. pc[q] \in Within /\ UNCHANGED process
            BY <2>5 DEF TestLocal, AppendLocal, EvictLocal, Within
        <3>2. process[q] # p \/ scope[q] # scope[r]
            BY <2>1, <3>1 DEF TogetherIsKnown, Met
        <3>3. KeyOf(q)[1] = scope[q]
            BY KeyOfIsKey
        <3>4. CASE TestLocal(q)
            BY <2>2, <3>2, <3>4, TestHits DEF TestLocal, Go, history
        <3>5. CASE AppendLocal(q)
            BY <2>2, <3>2, <3>3, <3>5, AppendHits DEF AppendLocal, Go, history
        <3>6. CASE EvictLocal(q)
            <4>1. \A j \in Keys : j[1] = scope[r] =>
                     hits'[p][j] = hits[p][j] /\ evictions'[p][j] = evictions[p][j]
                BY <3>2, <3>6, EvictHits
            <4>2. NewGrant(q, process[q], now[q]).store # p
                        \/ NewGrant(q, process[q], now[q]).scope # scope[r]
                BY <3>2 DEF NewGrant
            <4>3. ~AskRedis(q)
                BY <3>6 DEF AskRedis, EvictLocal
            <4> QED BY <1>5, <2>2, <4>1, <4>2, <4>3, AskGrants
        <3> QED BY <2>5, <3>4, <3>5, <3>6
    <2> QED BY <1>5, <2>3, <2>4, <2>5 DEF AskLocal
<1> QED BY <1>1, <1>2, <1>3, <1>4, <1>5 DEF Next
(* The same of the state after a step.                                     *)
LEMMA AloneIsNext ==
    ASSUME NEW r, NEW p, p = process'[r], NEW k, k = KeyOf(r)', NEW c, c = scope'[r],
           NEW a, a = now'[r], AloneAt(r, p, k, c, a)'
    PROVE  AloneWithin(r)'
<1>1. /\ \A g \in granted' : g.store = p /\ g.scope = c /\ RanAlone(g)' => g.at <= a
      /\ \A j \in Keys, m \in Time : j[1] = c /\ m >= a =>
            Cardinality(Forgotten(j, p, m)') <= Lost(j, p)'
      /\ pc'[r] # "test" =>
            Cardinality({h \in Alone(k, hits[p][k])' : h.request # r /\ h.at + WindowOf(k) > a})
                < LimitOf(k)
      /\ pc'[r] = "evict" => NewHit(r, a) \in hits'[p][k]
    BY DEF AloneAt, WindowOf, LimitOf, NewHit
<1> QED BY <1>1 DEF AloneWithin, FewForgotten, OthersIn, Alone, WindowOf, LimitOf, NewHit, RanAlone
(* What is forgotten stays as little, where nothing new is granted by p in *)
(* the limiter c and no entry is lost that counts from a on.               *)
LEMMA AloneForgets ==
    ASSUME TypeOK, TypeOK', AllFinite, UNCHANGED source, overlapped \subseteq overlapped',
           NEW p \in Stores, NEW c, NEW a \in Time,
           \A g \in granted' : g.store = p /\ g.scope = c => g \in granted,
           restarts <= restarts',
           NEW j \in Keys, j[1] = c, evictions'[p][j] = evictions[p][j],
           Keeps(j, p, a), FewForgotten(j, p, a),
           NEW m \in Time, m >= a
    PROVE  Cardinality(Forgotten(j, p, m)') <= Lost(j, p)'
<1>1. NoneCounts(j, p)
    BY NewCounts DEF IsFor
<1>2. NewOnesAreHit(j, p)
    BY <1>1 DEF NoneCounts, NewOnesAreHit
<1>3. evictions[p][j] <= evictions'[p][j] /\ a \in Nat
    BY DEF TypeOK, Time
<1> QED BY <1>2, <1>3, FewStay

(* Others leave a call alone: what it knows stays true.                    *)
LEMMA AloneOthers ==
    ASSUME TypeOK, TypeOK', OnRoute, AllFinite, TogetherIsKnown, [Next]_vars,
           NEW r \in Requests, AloneWithin(r),
           pc[r] \in Within, pc'[r] \in Within, ~Overlapped(r),
           scope'[r] = scope[r], process'[r] = process[r],
           ~TestLocal(r), ~AppendLocal(r), ~EvictLocal(r)
    PROVE  AloneWithin(r)'
<1>1. PICK p \in Stores : p = process[r]
    BY DEF TypeOK, Stores
<1>2. PICK k \in Keys : k = KeyOf(r)
    BY KeyOfIsKey
<1>3. PICK c : c = scope[r] /\ k[1] = c
    BY <1>2, KeyOfIsKey
<1>4. PICK a \in Time : a = now[r]
    BY DEF TypeOK
<1>5. /\ \A j \in Keys : j[1] = c =>
            hits'[p][j] = hits[p][j] /\ evictions'[p][j] = evictions[p][j]
      /\ restarts <= restarts' /\ pc'[r] = pc[r] /\ now'[r] = now[r]
      /\ UNCHANGED source /\ overlapped \subseteq overlapped'
      /\ \A g \in granted' : g.store = p /\ g.scope = c => g \in granted
    BY <1>1, <1>3, Untouched
<1>6. AloneAt(r, p, k, c, a)
    BY <1>1, <1>2, <1>3, <1>4, AloneIs
<1>7. \A g \in granted' : g.store = p /\ g.scope = c /\ RanAlone(g)' => g.at <= a
    BY <1>5, <1>6 DEF AloneAt, RanAlone
<1>8. ASSUME NEW j \in Keys, NEW m \in Time, j[1] = c, m >= a
      PROVE  Cardinality(Forgotten(j, p, m)') <= Lost(j, p)'
    <2>1. FewForgotten(j, p, a) /\ Keeps(j, p, a)
        BY <1>5, <1>6, <1>8 DEF AloneAt, FewForgotten, Keeps
    <2> QED BY <1>5, <1>8, <2>1, AloneForgets
<1>9. pc'[r] # "test" =>
        Cardinality({h \in Alone(k, hits[p][k])' : h.request # r /\ h.at + WindowOf(k) > a})
                < LimitOf(k)
    <2> DEFINE O == {h \in Alone(k, hits[p][k]) : h.request # r /\ h.at + WindowOf(k) > a}
               N == {h \in Alone(k, hits[p][k])' : h.request # r /\ h.at + WindowOf(k) > a}
    <2>1. N \in SUBSET O /\ O \in SUBSET hits[p][k]
        BY <1>3, <1>5 DEF Alone
    <2>2. pc'[r] # "test" => Cardinality(O) < LimitOf(k)
        BY <1>5, <1>6 DEF AloneAt
    <2>3. LimitOf(k) \in Nat
        BY KeyTypes
    <2> HIDE DEF O, N
    <2>4. IsFiniteSet(O) /\ IsFiniteSet(N) /\ Cardinality(N) <= Cardinality(O)
        BY <2>1, FS_Subset DEF AllFinite
    <2>5. Cardinality(O) \in Nat /\ Cardinality(N) \in Nat
        BY <2>4, FS_CardinalityType
    <2>6. pc'[r] # "test" => Cardinality(N) < LimitOf(k)
        BY <2>2, <2>3, <2>4, <2>5
    <2> QED BY <2>6 DEF N
<1>10. pc'[r] = "evict" => NewHit(r, a) \in hits'[p][k]
    BY <1>3, <1>5, <1>6 DEF AloneAt
<1>11. AloneAt(r, p, k, c, a)'
    BY <1>7, <1>8, <1>9, <1>10 DEF AloneAt, WindowOf, LimitOf, NewHit
<1>12. p = process'[r] /\ k = KeyOf(r)' /\ c = scope'[r] /\ a = now'[r]
    BY <1>1, <1>2, <1>3, <1>4, <1>5 DEF KeyOf
<1> QED BY <1>11, <1>12, AloneIsNext

(* A call that enters comes after all grants.                              *)
LEMMA AloneEnter ==
    ASSUME TypeOK, TypeOK', OnRoute, AllFinite, NothingAhead, ForgottenInLosses,
           NEW r \in Requests, EnterLocal(r)
    PROVE  AloneWithin(r)'
<1>1. PICK p \in Stores : p = process[r]
    BY DEF TypeOK, Stores
<1>2. PICK k \in Keys : k = KeyOf(r)
    BY KeyOfIsKey
<1>3. PICK c : c = scope[r]
    OBVIOUS
<1>4. PICK a \in Time : a = clock
    BY DEF TypeOK
<1>5. /\ UNCHANGED <<hits, granted, source, scope, process, evictions, restarts>>
      /\ overlapped \subseteq overlapped' /\ pc'[r] = "test" /\ now'[r] = a
    BY <1>4 DEF EnterLocal, Go, history, TypeOK
<1>6. \A g \in granted' : g.store = p /\ g.scope = c /\ RanAlone(g)' => g.at <= a
    BY <1>4, <1>5 DEF NothingAhead
<1>7. ASSUME NEW j \in Keys, NEW m \in Time, j[1] = c, m >= a
      PROVE  Cardinality(Forgotten(j, p, m)') <= Lost(j, p)'
    <2>1. FewForgotten(j, p, a) /\ Keeps(j, p, a)
        BY <1>4, <1>5 DEF ForgottenInLosses, Keeps
    <2>2. restarts <= restarts'
        BY <1>5 DEF TypeOK
    <2> QED BY <1>5, <1>7, <2>1, <2>2, AloneForgets
<1>8. AloneAt(r, p, k, c, a)'
    BY <1>5, <1>6, <1>7 DEF AloneAt
<1>9. p = process'[r] /\ k = KeyOf(r)' /\ c = scope'[r] /\ a = now'[r]
    BY <1>1, <1>2, <1>3, <1>5 DEF KeyOf
<1> QED BY <1>8, <1>9, AloneIsNext

(* A call alone that passes its test has room: it saw every entry of calls *)
(* alone, and they were fewer than the limit.                              *)
LEMMA AloneTest ==
    ASSUME TypeOK, TypeOK', OnRoute, AllFinite, NEW r \in Requests, AloneWithin(r),
           ~Overlapped(r), TestLocal(r), pc'[r] \in Within
    PROVE  AloneWithin(r)'
<1>1. PICK p \in Stores : p = process[r]
    BY DEF TypeOK, Stores
<1>2. PICK k \in Keys : k = KeyOf(r)
    BY KeyOfIsKey
<1>3. PICK c : c = scope[r] /\ k[1] = c
    BY <1>2, KeyOfIsKey
<1>4. PICK a \in Time : a = now[r]
    BY DEF TypeOK
<1>5. /\ UNCHANGED <<granted, source, scope, process, now, evictions, restarts, overlapped>>
      /\ pc[r] = "test"
    BY DEF TestLocal, Go, history
<1>6. PICK seen \in Views(k, Fresh(p, c, a)[k]) :
        /\ hits' = [hits EXCEPT ![p] = Fresh(p, c, a)]
        /\ Go(r, IF LocalFull(k, seen) THEN "refused" ELSE "append")
    BY <1>1, <1>2, <1>3, <1>4 DEF TestLocal
<1>7. pc'[r] = "append" /\ ~LocalFull(k, seen)
    BY <1>6 DEF Go, Within, TypeOK
<1>8. hits'[p][k] = Fresh(p, c, a)[k] /\ Fresh(p, c, a)[k] \in SUBSET hits[p][k]
    BY <1>6 DEF TypeOK, Fresh
<1>9. AloneAt(r, p, k, c, a)
    BY <1>1, <1>2, <1>3, <1>4, <1>5, AloneIs DEF Within
<1>10. \A g \in granted' : g.store = p /\ g.scope = c /\ RanAlone(g)' => g.at <= a
    BY <1>5, <1>9 DEF AloneAt, RanAlone
<1>11. ASSUME NEW j \in Keys, NEW m \in Time, j[1] = c, m >= a
       PROVE  Cardinality(Forgotten(j, p, m)') <= Lost(j, p)'
    <2>1. FewForgotten(j, p, a)
        BY <1>9, <1>11 DEF AloneAt, FewForgotten
    <2>2. Keeps(j, p, a)
        <3>1. \A h \in hits[p][j] : a < h.at + WindowOf(j) => h.at + WindowOf(j) > a
            BY KeyTypes DEF TypeOK, Hit, Time
        <3> QED BY <1>4, <3>1, TestHits DEF Keeps
    <2>3. restarts <= restarts'
        BY <1>5 DEF TypeOK
    <2> QED BY <1>5, <1>11, <2>1, <2>2, <2>3, AloneForgets
<1>12. Cardinality({h \in Alone(k, hits[p][k])' : h.request # r /\ h.at + WindowOf(k) > a})
            < LimitOf(k)
    <2> DEFINE N == {h \in Alone(k, hits[p][k])' : h.request # r /\ h.at + WindowOf(k) > a}
    <2>1. N \in SUBSET seen /\ seen \in SUBSET hits[p][k]
        BY <1>5, <1>8 DEF Alone, Views
    <2>2. IsFiniteSet(seen)
        BY <2>1, FS_Subset DEF AllFinite
    <2> HIDE DEF N
    <2>3. IsFiniteSet(N) /\ Cardinality(N) <= Cardinality(seen)
        BY <2>1, <2>2, FS_Subset
    <2>4. Cardinality(seen) \in Nat /\ Cardinality(N) \in Nat /\ LimitOf(k) \in Nat
        BY <2>2, <2>3, FS_CardinalityType, KeyTypes
    <2>5. Cardinality(N) < LimitOf(k)
        BY <1>7, <2>3, <2>4 DEF LocalFull
    <2> QED BY <2>5 DEF N
<1>13. AloneAt(r, p, k, c, a)'
    BY <1>7, <1>10, <1>11, <1>12 DEF AloneAt, WindowOf, LimitOf
<1>14. p = process'[r] /\ k = KeyOf(r)' /\ c = scope'[r] /\ a = now'[r]
    BY <1>1, <1>2, <1>3, <1>4, <1>5 DEF KeyOf
<1> QED BY <1>13, <1>14, AloneIsNext

(* Its entry is then there, beside those it saw.                           *)
LEMMA AloneAppend ==
    ASSUME TypeOK, TypeOK', OnRoute, AllFinite, NEW r \in Requests, AloneWithin(r),
           ~Overlapped(r), AppendLocal(r)
    PROVE  AloneWithin(r)'
<1>1. PICK p \in Stores : p = process[r]
    BY DEF TypeOK, Stores
<1>2. PICK k \in Keys : k = KeyOf(r)
    BY KeyOfIsKey
<1>3. PICK c : c = scope[r] /\ k[1] = c
    BY <1>2, KeyOfIsKey
<1>4. PICK a \in Time : a = now[r]
    BY DEF TypeOK
<1>5. /\ UNCHANGED <<granted, source, scope, process, now, evictions, restarts, overlapped>>
      /\ pc[r] = "append"
    BY DEF AppendLocal, Go, history
<1>6. hits'[p][k] = hits[p][k] \cup {NewHit(r, a)}
    BY <1>1, <1>2, <1>4, AppendHits
<1>7. AloneAt(r, p, k, c, a)
    BY <1>1, <1>2, <1>3, <1>4, <1>5, AloneIs DEF Within
<1>8. \A g \in granted' : g.store = p /\ g.scope = c /\ RanAlone(g)' => g.at <= a
    BY <1>5, <1>7 DEF AloneAt, RanAlone
<1>9. ASSUME NEW j \in Keys, NEW m \in Time, j[1] = c, m >= a
      PROVE  Cardinality(Forgotten(j, p, m)') <= Lost(j, p)'
    <2>1. FewForgotten(j, p, a) /\ Keeps(j, p, a)
        BY <1>7, <1>9, AppendHits DEF AloneAt, FewForgotten, Keeps
    <2>2. restarts <= restarts'
        BY <1>5 DEF TypeOK
    <2> QED BY <1>5, <1>9, <2>1, <2>2, AloneForgets
<1>10. Cardinality({h \in Alone(k, hits[p][k])' : h.request # r /\ h.at + WindowOf(k) > a})
            < LimitOf(k)
    <2>1. {h \in Alone(k, hits[p][k])' : h.request # r /\ h.at + WindowOf(k) > a}
            = {h \in Alone(k, hits[p][k]) : h.request # r /\ h.at + WindowOf(k) > a}
        BY <1>5, <1>6 DEF Alone, NewHit
    <2> QED BY <1>5, <1>7, <2>1 DEF AloneAt
<1>11. AloneAt(r, p, k, c, a)'
    BY <1>6, <1>8, <1>9, <1>10 DEF AloneAt, WindowOf, LimitOf, NewHit
<1>12. p = process'[r] /\ k = KeyOf(r)' /\ c = scope'[r] /\ a = now'[r]
    BY <1>1, <1>2, <1>3, <1>4, <1>5 DEF KeyOf
<1> QED BY <1>11, <1>12, AloneIsNext

(* Every step keeps what a call alone in its limiter relies on.            *)
LEMMA AloneStep ==
    ASSUME TypeOK, TypeOK', OnRoute, AllFinite, NothingAhead, TogetherIsKnown, ForgottenInLosses,
           [Next]_vars, NEW r \in Requests, AloneWithin(r)
    PROVE  AloneWithin(r)'
<1>1. CASE ~(pc'[r] \in Within /\ ~Overlapped(r)')
    BY <1>1 DEF AloneWithin
<1>2. CASE EnterLocal(r)
    BY <1>2, AloneEnter
<1>3. CASE pc'[r] \in Within /\ ~Overlapped(r)' /\ ~EnterLocal(r)
    <2>1. pc[r] \in Within /\ scope'[r] = scope[r] /\ process'[r] = process[r]
        BY <1>3, WithinStep
    <2>2. overlapped \subseteq overlapped'
        BY OverlapStep DEF EnterLocal
    <2>3. ~Overlapped(r)
        BY <1>3, <2>1, <2>2 DEF Overlapped
    <2>4. CASE TestLocal(r)
        BY <1>3, <2>3, <2>4, AloneTest
    <2>5. CASE AppendLocal(r)
        BY <2>3, <2>5, AloneAppend
    <2>6. ~EvictLocal(r)
        BY <1>3 DEF EvictLocal, Allow, Go, Within, TypeOK
    <2> QED BY <1>3, <2>1, <2>3, <2>4, <2>5, <2>6, AloneOthers
<1> QED BY <1>1, <1>2, <1>3
-----------------------------------------------------------------------------
(* The invariant holds at the start.                                       *)
LEMMA InvInit == Init => Inv
<1> SUFFICES ASSUME Init PROVE Inv
    OBVIOUS
<1>1. TypeOK /\ OnRoute
    BY TypeInit
<1>2. /\ clock = 0 /\ restarts = 0 /\ granted = {} /\ overlapped = {}
      /\ \A s \in Stores, k \in Keys : hits[s][k] = {} /\ evictions[s][k] = 0
      /\ \A r \in Requests : pc[r] = "idle" /\ now[r] = 0
    BY DEF Init
<1>3. HitsAreCharged
    BY <1>2 DEF HitsAreCharged
<1>4. AllFinite /\ NothingAhead
    <2>1. AllFinite
        BY <1>2, FS_EmptySet, Zenon DEF AllFinite
    <2>2. NothingAhead
        BY <1>2 DEF NothingAhead
    <2> QED BY <2>1, <2>2
<1>5. RedisGrantsAll /\ TogetherIsKnown /\ \A r \in Requests : AloneWithin(r)
    BY <1>2 DEF RedisGrantsAll, TogetherIsKnown, AloneWithin, Within
<1>6. \A k \in Keys, s \in Stores : BudgetOf(k, s)
    <2> SUFFICES ASSUME NEW k \in Keys, NEW s \in Stores PROVE BudgetOf(k, s)
        OBVIOUS
    <2>1. \A m : Counting(k, s, m) = {} /\ Forgotten(k, s, m) = {}
        BY <1>2 DEF GrantedIn, Forgotten, Counting
    <2>2. \A m : Cardinality(Counting(k, s, m)) = 0 /\ Cardinality(Forgotten(k, s, m)) = 0
        BY <2>1, FS_EmptySet
    <2>3. restarts + evictions[s][k] \in Nat /\ LimitOf(k) \in Nat
        BY <1>1, KeyTypes DEF TypeOK
    <2>4. 0 <= Lost(k, s) /\ 0 <= LimitOf(k) + Lost(k, s)
        <3>1. Lost(k, s) \in Nat
            BY <2>3, Budgets DEF Lost
        <3> QED BY <2>3, <3>1
    <2> QED BY <2>2, <2>4, Zenon DEF BudgetOf, FewForgotten
<1> QED BY <1>1, <1>3, <1>4, <1>5, <1>6
        DEF Inv, BudgetPerStore, ForgottenInLosses, BudgetOf

(* Every step keeps the invariant.                                         *)
LEMMA InvStep == Inv /\ [Next]_vars => Inv'
<1> SUFFICES ASSUME Inv, [Next]_vars PROVE Inv'
    OBVIOUS
<1>1. /\ TypeOK /\ OnRoute /\ HitsAreCharged /\ AllFinite /\ NothingAhead
      /\ TogetherIsKnown /\ ForgottenInLosses /\ RedisGrantsAll
      /\ \A r \in Requests : AloneWithin(r)
    BY DEF Inv, BudgetPerStore
<1>2. \A k \in Keys, s \in Stores : BudgetOf(k, s)
    BY DEF Inv, BudgetPerStore, ForgottenInLosses, BudgetOf
<1>3. TypeOK' /\ OnRoute'
    BY <1>1, TypeStep
<1>4. HitsAreCharged' /\ AllFinite' /\ NothingAhead' /\ TogetherIsKnown' /\ RedisGrantsAll'
    BY <1>1, ChargedStep, FiniteStep, NothingAheadStep, TogetherStep, RedisGrantsStep
<1>5. \A r \in Requests : AloneWithin(r)'
    BY <1>1, <1>3, AloneStep
<1>6. \A k \in Keys, s \in Stores : BudgetOf(k, s)'
    BY <1>1, <1>2, <1>3, BudgetStep
<1>7. (BudgetPerStore /\ ForgottenInLosses)'
    BY <1>3, <1>6 DEF BudgetPerStore, ForgottenInLosses, BudgetOf
<1> QED BY <1>3, <1>4, <1>5, <1>7 DEF Inv

(* What each request and entry in the limiters says of the others holds in *)
(* every state they can reach: an entry is charged once, two calls within  *)
(* one local window know of each other, one alone has room for its own,    *)
(* and what a store forgot it lost in a restart or an eviction.            *)
THEOREM RateLimitsInv == Spec => []Inv
<1> QED BY InvInit, InvStep, PTL DEF Spec

(* In any window a store allows the calls that ran alone in it one budget  *)
(* of a key, and one more for every restart and for every time it evicted  *)
(* the key: whatever calls that overlap do to the lists of a process.      *)
THEOREM OneBudgetPerStore == Spec => []BudgetPerStore
<1>1. Inv => BudgetPerStore
    BY DEF Inv
<1> QED BY <1>1, RateLimitsInv, PTL

(* While no call to Redis fails, nothing restarts and Redis does not evict *)
(* the key, all processes share one budget for it.                         *)
THEOREM ProcessesShareBudget == Spec => []SharedBudget
<1>1. Inv => SharedBudget
    <2> SUFFICES ASSUME Inv, failures = 0, restarts = 0, NEW k \in Keys, NEW m \in Time,
                        evictions[Redis][k] = 0
                 PROVE  Cardinality(GrantedIn(k, Stores, m)) <= LimitOf(k)
        BY DEF SharedBudget
    <2>1. GrantedIn(k, Stores, m) = Counting(k, Redis, m)
        BY DEF Inv, RedisGrantsAll, Counting, RanAlone, GrantedIn, Stores
    <2>2. Cardinality(Counting(k, Redis, m)) <= LimitOf(k) + Lost(k, Redis)
        BY DEF Inv, BudgetPerStore, Stores
    <2>3. LimitOf(k) + Lost(k, Redis) = LimitOf(k)
        BY KeyTypes DEF Lost
    <2> QED BY <2>1, <2>2, <2>3
<1> QED BY <1>1, RateLimitsInv, PTL
-----------------------------------------------------------------------------
(* The entries of a key that a store counts, for a request that is about   *)
(* to be charged there, are those of as many other requests of its route.  *)
LEMMA OthersCharged ==
    ASSUME TypeOK, OnRoute, HitsAreCharged, AllFinite, NEW r \in Requests, NEW s \in Stores,
           pc[r] \in Asking \/ (pc[r] \in BeforeItsHit /\ s # Redis),
           NEW k \in Keys, k = KeyOf(r), NEW at,
           NEW F \in SUBSET hits[s][k], \A h \in F : h.at >= at - WindowOf(k)
    PROVE  Cardinality(F) <= Cardinality((Chargers(k, at) \cap SameRoute(r)) \ {r})
<1> DEFINE T == (Chargers(k, at) \cap SameRoute(r)) \ {r}
           f == [h \in F |-> h.request]
<1>1. k[1] = scope[r]
    BY KeyOfIsKey
<1>2. IsFiniteSet(T)
    <2>1. T \in SUBSET Requests
        BY DEF Chargers
    <2> HIDE DEF T
    <2> QED BY <2>1, RequestsAssumption, FS_Subset
<1>3. f \in [F -> T]
    <2> SUFFICES ASSUME NEW h \in F PROVE h.request \in T
        OBVIOUS
    <2>1. h \in hits[s][k] /\ h.request \in Requests
        BY DEF TypeOK, Hit
    <2>2. h.request \in Chargers(k, at)
        BY <2>1 DEF Chargers
    <2>3. /\ k[1] = "login" <=> source[h.request].target = Login
          /\ k[1] = scope[h.request] =>
                pc[h.request] \notin Asking /\ (pc[h.request] \in BeforeItsHit => s = Redis)
        BY <2>1 DEF HitsAreCharged, Asking, BeforeItsHit
    <2>4. k[1] = "login" <=> source[r].target = Login
        BY <1>1 DEF OnRoute
    <2>5. h.request \in SameRoute(r)
        BY <2>1, <2>3, <2>4 DEF SameRoute
    <2>6. h.request # r
        BY <1>1, <2>3
    <2> QED BY <2>2, <2>5, <2>6
<1>4. \A x, y \in F : f[x] = f[y] => x = y
    BY DEF HitsAreCharged
<1> HIDE DEF f, T
<1> QED BY <1>2, <1>3, <1>4, OneToOne DEF T

(* So a store that is full of them has as many as the limit.               *)
LEMMA FullOfOthers ==
    ASSUME TypeOK, OnRoute, HitsAreCharged, AllFinite, NEW r \in Requests, NEW s \in Stores,
           pc[r] \in Asking \/ (pc[r] \in BeforeItsHit /\ s # Redis),
           NEW k \in Keys, k = KeyOf(r), NEW at,
           NEW F \in SUBSET hits[s][k], \A h \in F : h.at >= at - WindowOf(k),
           Cardinality(F) >= LimitOf(k)
    PROVE  Cardinality((Chargers(k, at) \cap SameRoute(r)) \ {r}) >= LimitOf(k)
<1> DEFINE T == (Chargers(k, at) \cap SameRoute(r)) \ {r}
<1>1. Cardinality(F) <= Cardinality(T)
    BY OthersCharged
<1>2. Cardinality(T) \in Nat
    <2>1. T \in SUBSET Requests
        BY DEF Chargers
    <2> HIDE DEF T
    <2> QED BY <2>1, RequestsAssumption, FS_Subset, FS_CardinalityType
<1>3. Cardinality(F) \in Nat /\ LimitOf(k) \in Nat
    BY FS_Subset, FS_CardinalityType, KeyTypes DEF AllFinite
<1> HIDE DEF T
<1>4. Cardinality(T) >= LimitOf(k)
    BY <1>1, <1>2, <1>3
<1> QED BY <1>4 DEF T

(* Who refuses: Redis, full of recent entries, or the test of a process    *)
(* that sees as many fresh ones.                                           *)
LEMMA WhoRefuses ==
    ASSUME TypeOK, [Next]_vars, NEW r \in Requests, pc'[r] = "refused", pc[r] # "refused"
    PROVE  \/ AskRedis(r) /\ RedisFull(KeyOf(r))
           \/ /\ TestLocal(r)
              /\ \E seen \in Views(KeyOf(r), Fresh(process[r], scope[r], now[r])[KeyOf(r)]) :
                    LocalFull(KeyOf(r), seen)
<1> USE DEF TypeOK
<1>1. ~Tick /\ ~UNCHANGED vars
    BY DEF Tick, vars
<1>2. ASSUME NEW s \in Stores PROVE ~Restart(s)
    BY DEF Restart
<1>3. ASSUME NEW k \in Keys PROVE ~EvictFromRedis(k)
    BY DEF EvictFromRedis
<1>4. ASSUME NEW q \in Requests, AskRedis(q) \/ AskLocal(q) PROVE q = r
    BY <1>4, AskGoesOn
<1>5. AskRedis(r) \/ AskLocal(r)
    BY <1>1, <1>2, <1>3, <1>4 DEF Next
<1>6. CASE AskRedis(r)
    BY <1>6 DEF AskRedis, Allow, Go
<1>7. CASE EnterLocal(r) \/ AppendLocal(r)
    BY <1>7 DEF EnterLocal, AppendLocal, Go
<1>8. CASE EvictLocal(r)
    BY <1>8 DEF EvictLocal, Allow, Go
<1>9. CASE TestLocal(r)
    BY <1>9 DEF TestLocal, Go
<1> QED BY <1>5, <1>6, <1>7, <1>8, <1>9 DEF AskLocal

(* A request is refused for as many others of its route as the limit says, *)
(* never for those of the other route or for a lost reply of its own.      *)
THEOREM RefusalsHaveACause == Spec => RefusedForTraffic
<1> DEFINE ForTraffic == \A r \in Requests : pc'[r] = "refused" /\ pc[r] # "refused" =>
              Cardinality((Chargers(KeyOf(r), AskedAt(r)) \cap SameRoute(r)) \ {r})
                    >= LimitOf(KeyOf(r))
<1>1. Inv /\ [Next]_vars => [ForTraffic]_vars
    <2> SUFFICES ASSUME Inv, [Next]_vars, NEW r \in Requests,
                        pc'[r] = "refused", pc[r] # "refused"
                 PROVE  Cardinality((Chargers(KeyOf(r), AskedAt(r)) \cap SameRoute(r)) \ {r})
                            >= LimitOf(KeyOf(r))
        OBVIOUS
    <2>1. TypeOK /\ OnRoute /\ HitsAreCharged /\ AllFinite
        BY DEF Inv, BudgetPerStore
    <2>2. PICK k \in Keys : k = KeyOf(r)
        BY <2>1, KeyOfIsKey
    <2>3. PICK at \in Time : at = AskedAt(r)
        BY <2>1 DEF AskedAt, TypeOK
    <2>4. WindowOf(k) \in Nat /\ at \in Nat
        BY KeyTypes DEF Time
    <2>5. CASE AskRedis(r) /\ RedisFull(k)
        <3>1. pc[r] \in Asking /\ Redis \in Stores /\ at = clock
            BY <2>3, <2>5 DEF AskRedis, Asking, Stores, AskedAt, Within
        <3>2. PICK F \in SUBSET hits[Redis][k] : F = Recent(k)
            BY DEF Recent
        <3>3. /\ \A h \in F : h.at >= at - WindowOf(k)
              /\ Cardinality(F) >= LimitOf(k)
            BY <2>5, <3>1, <3>2 DEF Recent, RedisFull
        <3> QED BY <2>1, <2>2, <2>3, <3>1, <3>3, FullOfOthers
    <2>6. CASE /\ TestLocal(r)
               /\ \E seen \in Views(k, Fresh(process[r], scope[r], now[r])[k]) : LocalFull(k, seen)
        <3>1. /\ pc[r] \in BeforeItsHit /\ at = now[r]
              /\ process[r] \in Stores /\ process[r] # Redis /\ k[1] = scope[r]
            BY <2>1, <2>2, <2>3, <2>6, KeyOfIsKey, StoresAssumption
            DEF TestLocal, BeforeItsHit, AskedAt, Within, TypeOK, Stores
        <3>2. PICK p \in Stores : p = process[r]
            BY <3>1
        <3>3. Fresh(process[r], scope[r], now[r])[k]
                    = {h \in hits[p][k] : h.at + WindowOf(k) > at}
            BY <3>1, <3>2 DEF Fresh
        <3>4. PICK F \in SUBSET hits[p][k] :
                    Cardinality(F) >= LimitOf(k) /\ \A h \in F : h.at + WindowOf(k) > at
            BY <2>6, <3>3 DEF Views, LocalFull
        <3>5. \A h \in F : h.at >= at - WindowOf(k)
            <4>1. \A h \in F : h.at \in Nat
                BY <2>1 DEF TypeOK, Hit, Time
            <4> QED BY <2>4, <3>4, <4>1
        <3> QED BY <2>1, <2>2, <2>3, <3>1, <3>2, <3>4, <3>5, FullOfOthers
    <2> QED BY <2>1, <2>2, <2>5, <2>6, WhoRefuses
<1>2. []Inv /\ [][Next]_vars => [][ForTraffic]_vars
    BY <1>1, PTL
<1> QED BY <1>2, RateLimitsInv, PTL DEF Spec, RefusedForTraffic
=============================================================================
