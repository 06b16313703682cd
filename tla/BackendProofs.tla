---------------------------- MODULE BackendProofs ---------------------------
(***************************************************************************)
(* Theorems about Backend for any number of requests, worker threads and   *)
(* connections, and any number of outages.                                 *)
(***************************************************************************)
EXTENDS Backend, FiniteSetTheorems, TLAPS

(* There are finitely many requests, so they can be counted.               *)
LEMMA RequestsFinite == ASSUME NEW S \in SUBSET Requests
                        PROVE  IsFiniteSet(S) /\ Cardinality(S) \in Nat
  BY KindAssumption, FS_Subset, FS_CardinalityType DEF Requests

(* One request that moves changes the number of those that run by one, if  *)
(* it enters or leaves a function.                                         *)
LEMMA RunningCount ==
    ASSUME TypeOK, NEW r \in Requests, NEW x, Go(r, x)
    PROVE  /\ Cardinality(Running) \in Nat
           /\ r \in Running /\ x \notin Serving =>
                Cardinality(Running') = Cardinality(Running) - 1
           /\ r \notin Running /\ x \in Serving =>
                Cardinality(Running') = Cardinality(Running) + 1
           /\ (r \in Running <=> x \in Serving) => Running' = Running
<1>1. /\ x \notin Serving => Running' = Running \ {r}
      /\ x \in Serving => Running' = Running \cup {r}
  BY DEF TypeOK, Go, Running
<1>2. IsFiniteSet(Running) /\ Cardinality(Running) \in Nat
  BY RequestsFinite DEF Running
<1> QED
  BY <1>1, <1>2, FS_AddElement, FS_RemoveElement DEF Running

(* The same of a session that takes a connection or gives one back.        *)
LEMMA HoldingCount ==
    ASSUME TypeOK, NEW r \in Requests
    PROVE  /\ Cardinality(Holding) \in Nat
           /\ conn' = [conn EXCEPT ![r] = "none"] =>
                /\ Holding' = Holding \ {r}
                /\ r \in Holding =>
                    Cardinality(Holding') = Cardinality(Holding) - 1
           /\ conn' = [conn EXCEPT ![r] = "live"] =>
                /\ Holding' = Holding \cup {r}
                /\ r \notin Holding =>
                    Cardinality(Holding') = Cardinality(Holding) + 1
<1>1. IsFiniteSet(Holding) /\ Cardinality(Holding) \in Nat
  BY RequestsFinite DEF Holding
<1>2. ASSUME conn' = [conn EXCEPT ![r] = "none"]
      PROVE  Holding' = Holding \ {r}
  BY <1>2 DEF TypeOK, Holding
<1>3. ASSUME conn' = [conn EXCEPT ![r] = "live"]
      PROVE  Holding' = Holding \cup {r}
  BY <1>3 DEF TypeOK, Holding
<1>4. /\ r \in Holding => Cardinality(Holding \ {r}) = Cardinality(Holding) - 1
      /\ r \notin Holding =>
            Cardinality(Holding \cup {r}) = Cardinality(Holding) + 1
  BY <1>1, FS_AddElement, FS_RemoveElement
<1> QED
  BY <1>1, <1>2, <1>3, <1>4
-----------------------------------------------------------------------------
(* The ways to fail at a statement.                                        *)
Failing(r) == \/ PoolTimeout(r) \/ ConnectFails(r)
              \/ StatementFails(r) \/ StatementRefused(r)

(* They have this in common.                                               *)
LEMMA FailingIs ==
    ASSUME NEW r \in Requests, Failing(r)
    PROVE  /\ Fail(r)
           /\ pc[r] \in {"auth", "first", "last", "refresh", "probe"}
           /\ UNCHANGED <<phase, db, outages, hindered, reachable>>
           /\ faulted' \in {faulted, faulted \cup {r}}
  BY DEF Failing, PoolTimeout, ConnectFails, StatementFails, StatementRefused,
         NeedsConnection, Executing, Faults, history
-----------------------------------------------------------------------------
ThreadsAccounted == idleThreads + Cardinality(Running) = Threads

(* A thread is given back by one who had it.                               *)
LEMMA LeaveKeepsThreads ==
    ASSUME TypeOK, ThreadsAccounted, NEW r \in Running,
           NEW x, x \notin Serving, Leave(r, x)
    PROVE  idleThreads' \in 0..Threads /\ ThreadsAccounted'
<1>1. r \in Requests
  BY DEF Running
<1>2. /\ Cardinality(Running) \in Nat
      /\ Cardinality(Running') = Cardinality(Running) - 1
  BY <1>1, RunningCount DEF Leave
<1>3. Cardinality(Running') \in Nat
  BY RequestsFinite DEF Running
<1> QED
  BY <1>2, <1>3, SizeAssumption DEF Leave, TypeOK, ThreadsAccounted

(* Moves within a function, or outside of any, change nothing about it.    *)
LEMMA MoveKeepsThreads ==
    ASSUME TypeOK, ThreadsAccounted, NEW r \in Requests, NEW x, Go(r, x),
           r \in Running <=> x \in Serving, UNCHANGED idleThreads
    PROVE  idleThreads' \in 0..Threads /\ ThreadsAccounted'
  BY RunningCount DEF TypeOK, ThreadsAccounted

(* A failure gives the thread back; a probe had none.                      *)
LEMMA FailKeepsThreads ==
    ASSUME TypeOK, ThreadsAccounted, ProbesApart, NEW r \in Requests,
           pc[r] \in {"auth", "first", "last", "refresh", "probe"}, Fail(r)
    PROVE  idleThreads' \in 0..Threads /\ ThreadsAccounted'
<1>1. CASE r \in Probes
  <2>1. r \notin Running
    BY <1>1 DEF ProbesApart, Running, Serving
  <2>2. Go(r, "redis") /\ UNCHANGED idleThreads
    BY <1>1 DEF Fail
  <2> QED
    BY <2>1, <2>2, MoveKeepsThreads DEF Serving
<1>2. CASE r \notin Probes
  <2>1. r \in Running
    BY <1>2 DEF ProbesApart, Running, Serving
  <2>2. Leave(r, "answered")
    BY <1>2 DEF Fail, Answers
  <2> QED
    BY <2>1, <2>2, LeaveKeepsThreads DEF Serving
<1> QED
  BY <1>1, <1>2

(* No step loses a worker thread or makes one up.                          *)
LEMMA ThreadsComeBack ==
    ASSUME TypeOK, ThreadsAccounted, ProbesApart, [Next]_vars
    PROVE  idleThreads' \in 0..Threads /\ ThreadsAccounted'
<1>0. ASSUME UNCHANGED <<pc, idleThreads>>
      PROVE  idleThreads' \in 0..Threads /\ ThreadsAccounted'
  BY <1>0 DEF TypeOK, ThreadsAccounted, Running
<1>1. ASSUME NEW r \in Requests, Arrive(r) \/ CloseSession(r)
                                    \/ SelectOne(r) \/ Report(r)
      PROVE  idleThreads' \in 0..Threads /\ ThreadsAccounted'
  <2>1. r \notin Running
    BY <1>1 DEF Arrive, CloseSession, SelectOne, Report, Executes, Running, Serving
  <2>2. PICK x \in {"probe", "queued", "done", "redis", "answered"} : Go(r, x)
    BY <1>1 DEF Arrive, CloseSession, SelectOne, Report
  <2>3. UNCHANGED idleThreads
    BY <1>1 DEF Arrive, CloseSession, SelectOne, Report
  <2> QED
    BY <2>1, <2>2, <2>3, MoveKeepsThreads DEF Serving
<1>2. ASSUME NEW r \in Requests, TakeThread(r)
      PROVE  idleThreads' \in 0..Threads /\ ThreadsAccounted'
  <2>1. r \notin Running
    BY <1>2 DEF TakeThread, Running, Serving
  <2>2. PICK x \in {"checks", "first"} : Go(r, x)
    BY <1>2 DEF TakeThread
  <2>3. /\ Cardinality(Running) \in Nat
        /\ Cardinality(Running') = Cardinality(Running) + 1
    BY <2>1, <2>2, RunningCount DEF Serving
  <2> QED
    BY <1>2, <2>3, SizeAssumption DEF TakeThread, TypeOK, ThreadsAccounted
<1>3. ASSUME NEW r \in Requests,
             Check(r) \/ LimiterRaises(r)
             \/ Identify(r) \/ First(r) \/ IssueToken(r)
                \/ CommitWrite(r) \/ Refresh(r)
      PROVE  idleThreads' \in 0..Threads /\ ThreadsAccounted'
  <2>1. r \in Running
    BY <1>3 DEF Check, LimiterRaises,
                Identify, First, IssueToken, CommitWrite, Refresh,
                Executes, Running, Serving
  <2>2. \/ \E x \in {"answered", "ready"} : Leave(r, x)
        \/ (\E x \in {"auth", "last", "refresh"} : Go(r, x)) /\ UNCHANGED idleThreads
    BY <1>3 DEF Check, LimiterRaises,
                Identify, First, IssueToken, CommitWrite, Refresh, Answers
  <2>3. ASSUME NEW x \in {"answered", "ready"}, Leave(r, x)
        PROVE  idleThreads' \in 0..Threads /\ ThreadsAccounted'
    BY <2>1, <2>3, LeaveKeepsThreads DEF Serving
  <2>4. ASSUME NEW x \in {"auth", "last", "refresh"}, Go(r, x),
               UNCHANGED idleThreads
        PROVE  idleThreads' \in 0..Threads /\ ThreadsAccounted'
    BY <2>1, <2>4, MoveKeepsThreads DEF Serving
  <2> QED
    BY <2>2, <2>3, <2>4
<1>4. ASSUME NEW r \in Requests,
             Failing(r)
      PROVE  idleThreads' \in 0..Threads /\ ThreadsAccounted'
  BY <1>4, FailingIs, FailKeepsThreads
<1>5. ASSUME NEW r \in Requests, Checkout(r)
      PROVE  UNCHANGED <<pc, idleThreads>>
  BY <1>5 DEF Checkout
<1>6. ASSUME \/ DatabaseFails \/ DatabaseReturns
             \/ Terminate \/ CloseLimiters \/ Dispose \/ UNCHANGED vars
      PROVE  UNCHANGED <<pc, idleThreads>>
  BY <1>6 DEF DatabaseFails, DatabaseReturns, Terminate, CloseLimiters, Dispose, vars
<1> QED
  BY <1>0, <1>1, <1>2, <1>3, <1>4, <1>5, <1>6 DEF Next, Step, Failing
-----------------------------------------------------------------------------
PoolTyped ==
    /\ free \in 0..PoolSize /\ stale \in 0..free
    /\ conn \in [Requests -> {"none", "live", "dead"}]
PoolAccounted == free + Cardinality(Holding) = PoolSize

(* Who moves is open then, unless it is done.                              *)
LEMMA OpenMoves ==
    ASSUME TypeOK, NEW r \in Requests, NEW x, Go(r, x)
    PROVE  /\ x \notin {"new", "done"} => Open' = Open \cup {r}
           /\ x \in {"new", "done"} => Open' = Open \ {r}
  BY DEF TypeOK, Go, Open

(* A connection, live, dead or none, is given back once.                   *)
LEMMA GiveBackKeepsPool ==
    ASSUME TypeOK, PoolAccounted, NEW r \in Requests, GiveBack(r)
    PROVE  PoolTyped' /\ PoolAccounted' /\ Holding' = Holding \ {r}
<1>1. /\ conn[r] \in {"none", "live", "dead"}
      /\ conn' = [conn EXCEPT ![r] = "none"]
      /\ PoolSize \in Nat
      /\ free \in 0..PoolSize /\ stale \in 0..free
      /\ conn' \in [Requests -> {"none", "live", "dead"}]
  BY SizeAssumption DEF TypeOK, GiveBack
<1>2. /\ Cardinality(Holding) \in Nat
      /\ Holding' = Holding \ {r}
      /\ r \in Holding => Cardinality(Holding') = Cardinality(Holding) - 1
  BY <1>1, HoldingCount
<1>3. Cardinality(Holding') \in Nat
  BY RequestsFinite DEF Holding
<1>4. CASE conn[r] = "none"
  <2>1. Holding' = Holding
    BY <1>2, <1>4 DEF Holding
  <2>2. free' = free /\ stale' = stale
    BY <1>1, <1>4 DEF GiveBack
  <2> QED
    BY <1>1, <1>2, <2>1, <2>2 DEF PoolTyped, PoolAccounted
<1>5. CASE conn[r] # "none"
  <2>1. r \in Holding
    BY <1>5 DEF Holding
  <2>2. /\ free' = free + 1
        /\ stale' \in {stale, stale + 1}
    BY <1>5 DEF GiveBack
  <2> QED
    BY <1>1, <1>2, <1>3, <2>1, <2>2 DEF PoolTyped, PoolAccounted
<1> QED
  BY <1>4, <1>5

(* The pool loses no connection either, and only open requests hold one.   *)
LEMMA ConnectionsComeBack ==
    ASSUME TypeOK, PoolAccounted, Holding \subseteq Open, [Next]_vars
    PROVE  PoolTyped' /\ PoolAccounted' /\ (Holding \subseteq Open)'
<1> DEFINE Kept == PoolTyped' /\ PoolAccounted' /\ (Holding \subseteq Open)'
<1>0. ASSUME UNCHANGED pool, Open \subseteq Open' PROVE Kept
  BY <1>0 DEF TypeOK, pool, PoolTyped, PoolAccounted, Holding
<1>1. ASSUME NEW r \in Requests,
             \/ Arrive(r) \/ TakeThread(r) \/ Check(r) \/ LimiterRaises(r)
             \/ Identify(r)
             \/ First(r) \/ IssueToken(r) \/ Refresh(r) \/ Report(r)
      PROVE  Kept
  <2>1. PICK x \in (Serving \cup {"queued", "ready", "probe", "answered"}) : Go(r, x)
    BY <1>1 DEF Arrive, TakeThread, Check, LimiterRaises,
                Identify, First, IssueToken, Refresh,
                Report, Answers, Leave, Serving
  <2>2. UNCHANGED pool
    BY <1>1 DEF Arrive, TakeThread, Check, LimiterRaises,
                Identify, First, IssueToken, Refresh,
                Report
  <2> QED
    BY <1>0, <2>1, <2>2, OpenMoves DEF Serving
<1>2. ASSUME NEW r \in Requests, GiveBack(r),
             NEW x \in {"answered", "refresh", "redis", "done"}, Go(r, x)
      PROVE  Kept
  <2>1. PoolTyped' /\ PoolAccounted' /\ Holding' = Holding \ {r}
    BY <1>2, GiveBackKeepsPool
  <2>2. Open \ {r} \subseteq Open'
    BY <1>2, OpenMoves
  <2> QED
    BY <2>1, <2>2
<1>3. ASSUME NEW r \in Requests, CommitWrite(r) \/ CloseSession(r) \/ SelectOne(r)
      PROVE  Kept
  <2>1. GiveBack(r)
        /\ \E x \in {"answered", "refresh", "redis", "done"} : Go(r, x)
    BY <1>3 DEF CommitWrite, CloseSession, SelectOne, Answers, Leave
  <2> QED
    BY <1>2, <2>1
<1>4. ASSUME NEW r \in Requests,
             Failing(r)
      PROVE  Kept
  <2>1. Fail(r)
    BY <1>4, FailingIs
  <2>2. CASE r \in Probes
    <3>1. GiveBack(r) /\ Go(r, "redis")
      BY <2>1, <2>2 DEF Fail
    <3> QED
      BY <1>2, <3>1
  <2>3. CASE r \notin Probes
    <3>1. UNCHANGED pool /\ Go(r, "answered")
      BY <2>1, <2>3 DEF Fail, Answers, Leave
    <3> QED
      BY <1>0, <3>1, OpenMoves
  <2> QED
    BY <2>2, <2>3
<1>5. ASSUME NEW r \in Requests, Checkout(r) PROVE Kept
  <2>1. /\ r \in Open /\ r \notin Holding
        /\ Open' = Open
    BY <1>5 DEF Checkout, NeedsConnection, Open, Holding
  <2>2. /\ conn' = [conn EXCEPT ![r] = "live"]
        /\ free > 0 /\ free' = free - 1
        /\ \/ stale' = stale /\ stale < free
           \/ stale' = stale - 1 /\ stale > 0
    BY <1>5 DEF Checkout, Handed
  <2>3. /\ Cardinality(Holding) \in Nat
        /\ Cardinality(Holding') = Cardinality(Holding) + 1
        /\ Holding' = Holding \cup {r}
    BY <2>1, <2>2, HoldingCount
  <2>4. PoolTyped'
    BY <2>2, SizeAssumption DEF TypeOK, PoolTyped
  <2>5. PoolAccounted'
    BY <2>2, <2>3, SizeAssumption DEF PoolAccounted, TypeOK
  <2> QED
    BY <2>1, <2>3, <2>4, <2>5
<1>6. ASSUME DatabaseFails PROVE Kept
  <2>1. Holding' = Holding /\ Open' = Open
    BY <1>6 DEF DatabaseFails, Holding, Open, TypeOK
  <2> QED
    BY <1>6, <2>1 DEF DatabaseFails, TypeOK, PoolTyped, PoolAccounted
<1>7. ASSUME Dispose PROVE Kept
  <2>1. Holding' = Holding /\ Open' = Open
    BY <1>7 DEF Dispose, Holding, Open
  <2> QED
    BY <1>7, <2>1, SizeAssumption DEF Dispose, TypeOK, PoolTyped, PoolAccounted
<1>8. ASSUME DatabaseReturns \/ Terminate \/ CloseLimiters \/ UNCHANGED vars
      PROVE  Kept
  <2>1. UNCHANGED pool /\ Open' = Open
    BY <1>8 DEF DatabaseReturns, Terminate, CloseLimiters, vars, Open
  <2> QED
    BY <1>0, <2>1
<1> QED
  BY <1>1, <1>3, <1>4, <1>5, <1>6, <1>7, <1>8 DEF Next, Step, Failing
-----------------------------------------------------------------------------
(* What a request does short of closing its session keeps it open, touches *)
(* no other connection than its own, and that one is never dead after it.  *)
LEMMA StaysOpen ==
    ASSUME TypeOK, NEW r \in Requests, Step(r), ~CloseSession(r)
    PROVE  /\ Open' = Open /\ r \in Open
           /\ UNCHANGED <<phase, db, outages, hindered, reachable>>
           /\ faulted' \in {faulted, faulted \cup {r}}
           /\ \E x \in {"none", "live", conn[r]} : conn' = [conn EXCEPT ![r] = x]
<1> DEFINE Kept == /\ Open' = Open /\ r \in Open
                   /\ UNCHANGED <<phase, db, outages, hindered, reachable>>
                   /\ faulted' \in {faulted, faulted \cup {r}}
                   /\ \E x \in {"none", "live", conn[r]} :
                            conn' = [conn EXCEPT ![r] = x]
<1>0. conn = [conn EXCEPT ![r] = conn[r]]
  BY DEF TypeOK
<1>1. ASSUME \/ TakeThread(r) \/ Check(r) \/ LimiterRaises(r)
             \/ Identify(r) \/ First(r)
             \/ IssueToken(r) \/ CommitWrite(r) \/ Refresh(r)
             \/ SelectOne(r) \/ Report(r)
      PROVE  Kept
  <2>1. r \in Open
    BY <1>1 DEF TakeThread, Check, LimiterRaises,
                Identify, First, IssueToken, CommitWrite,
                Refresh, SelectOne, Report, Executes, Open
  <2>2. \E x \in Serving \cup {"ready", "answered", "redis"} : Go(r, x)
    BY <1>1 DEF TakeThread, Check, LimiterRaises,
                Identify, First, IssueToken, CommitWrite,
                Refresh, SelectOne, Report, Answers, Leave, Serving
  <2>3. /\ UNCHANGED <<phase, db, outages, hindered, reachable>>
        /\ faulted' \in {faulted, faulted \cup {r}}
    BY <1>1 DEF TakeThread, Check, LimiterRaises,
                Identify, First, IssueToken, CommitWrite,
                Refresh, SelectOne, Report, Faults, history
  <2>4. conn' = conn \/ conn' = [conn EXCEPT ![r] = "none"]
    BY <1>1 DEF TakeThread, Check, LimiterRaises,
                Identify, First, IssueToken, CommitWrite,
                Refresh, SelectOne, Report, GiveBack, pool
  <2>5. Open' = Open
    BY <2>1, <2>2, OpenMoves DEF Serving
  <2> QED
    BY <1>0, <2>1, <2>3, <2>4, <2>5
<1>2. ASSUME Checkout(r) PROVE Kept
  <2>1. r \in Open /\ Open' = Open
    BY <1>2 DEF Checkout, NeedsConnection, Open
  <2>2. conn' = [conn EXCEPT ![r] = "live"]
    BY <1>2 DEF Checkout, Handed
  <2> QED
    BY <1>2, <2>1, <2>2 DEF Checkout, history
<1>3. ASSUME Failing(r) PROVE Kept
  <2>1. r \in Open /\ Fail(r)
    BY <1>3, FailingIs DEF Open
  <2>2. UNCHANGED <<phase, db, outages, hindered, reachable>>
    BY <1>3, FailingIs
  <2>3. \E x \in {"redis", "answered"} : Go(r, x)
    BY <2>1 DEF Fail, Answers, Leave
  <2>4. Open' = Open
    BY <2>1, <2>3, OpenMoves
  <2>5. conn' = conn \/ conn' = [conn EXCEPT ![r] = "none"]
    BY <2>1 DEF Fail, GiveBack, pool
  <2> QED
    BY <1>0, <1>3, FailingIs, <2>1, <2>2, <2>4, <2>5
<1> QED
  BY <1>1, <1>2, <1>3 DEF Step, Failing

(* Closing a session ends the request and forgets it.                      *)
LEMMA Closes ==
    ASSUME TypeOK, NEW r \in Requests, CloseSession(r)
    PROVE  /\ Open' = Open \ {r} /\ r \in Open
           /\ conn' = [conn EXCEPT ![r] = "none"]
           /\ answer' = [answer EXCEPT ![r] = "none"]
<1>1. r \in Open /\ Go(r, "done")
  BY DEF CloseSession, Open
<1> QED
  BY <1>1, OpenMoves DEF CloseSession, GiveBack

(* The histories are about open requests.                                  *)
HistoryOpen == /\ hindered \subseteq Open /\ faulted \subseteq Open
               /\ reachable \subseteq Open \cap Probes

(* No step puts a request into them that is not.                           *)
LEMMA HistoryStaysOpen == ASSUME TypeOK, [Next]_vars PROVE HistoryOpen'
<1>0. HistoryOpen
  BY DEF TypeOK, HistoryOpen
<1>1. ASSUME NEW r \in Requests, Arrive(r) PROVE HistoryOpen'
  <2>1. Open' = Open \cup {r}
    BY <1>1, OpenMoves DEF Arrive
  <2> QED
    BY <1>0, <1>1, <2>1 DEF Arrive, HistoryOpen
<1>2. ASSUME NEW r \in Requests, CloseSession(r) PROVE HistoryOpen'
  BY <1>0, <1>2, Closes DEF CloseSession, HistoryOpen
<1>3. ASSUME NEW r \in Requests, Step(r), ~CloseSession(r) PROVE HistoryOpen'
  BY <1>0, <1>3, StaysOpen DEF HistoryOpen
<1>4. ASSUME \/ DatabaseFails \/ DatabaseReturns
             \/ Terminate \/ CloseLimiters \/ Dispose \/ UNCHANGED vars
      PROVE  HistoryOpen'
  <2>1. Open' = Open
    BY <1>4 DEF DatabaseFails, DatabaseReturns, Terminate, CloseLimiters,
                Dispose, vars, Open
  <2> QED
    BY <1>0, <1>4, <2>1 DEF DatabaseFails, DatabaseReturns, Terminate,
                CloseLimiters, Dispose, vars, history, HistoryOpen
<1> QED
  BY <1>1, <1>2, <1>3, <1>4 DEF Next
-----------------------------------------------------------------------------
(* What has a small type and is about one request.                         *)
RestTyped ==
    /\ phase \in {"running", "draining", "closing", "stopped"}
    /\ db \in {"up", "down"} /\ outages \in 0..MaxOutages
    /\ pc \in [Requests -> Serving \cup {"new", "queued", "ready", "probe",
                                        "redis", "answered", "done"}]
    /\ database \in [Probes -> {"unknown", "healthy", "unhealthy"}]
    /\ answer \in [Requests -> {"none", "served", "error", "ready", "unready"}]

(* It stays so.                                                            *)
LEMMA RestStaysTyped == ASSUME TypeOK, [Next]_vars PROVE RestTyped'
<1>0. RestTyped
  BY DEF TypeOK, RestTyped
<1>1. ASSUME NEW r \in Requests, Arrive(r) \/ TakeThread(r) PROVE RestTyped'
  BY <1>0, <1>1 DEF Arrive, TakeThread, Go, RestTyped, Serving
<1>2. ASSUME NEW r \in Requests, Check(r) \/ LimiterRaises(r)
             \/ Identify(r) \/ First(r)
                                    \/ IssueToken(r) \/ CommitWrite(r) \/ Refresh(r)
      PROVE  RestTyped'
  BY <1>0, <1>2 DEF Check, LimiterRaises,
                Identify, First, IssueToken, CommitWrite, Refresh,
                    Answers, Leave, Go, RestTyped, Serving
<1>3. ASSUME NEW r \in Requests,
             SelectOne(r) \/ Report(r) \/ CloseSession(r) \/ Checkout(r)
      PROVE  RestTyped'
  BY <1>0, <1>3 DEF SelectOne, Report, CloseSession, Checkout, Verdict, Go, RestTyped
<1>4. ASSUME NEW r \in Requests,
             Failing(r)
      PROVE  RestTyped'
  <2>1. Fail(r) /\ UNCHANGED <<phase, db, outages>>
    BY <1>4, FailingIs
  <2> QED
    BY <1>0, <2>1 DEF Fail, Answers, Leave, Go, RestTyped
<1>5. ASSUME \/ DatabaseFails \/ DatabaseReturns
             \/ Terminate \/ CloseLimiters \/ Dispose \/ UNCHANGED vars
      PROVE  RestTyped'
  BY <1>0, <1>5, SizeAssumption DEF DatabaseFails, DatabaseReturns, Terminate,
                CloseLimiters, Dispose, vars, RestTyped
<1> QED
  BY <1>1, <1>2, <1>3, <1>4, <1>5 DEF Next, Step, Failing

(* Probes stay apart from the requests that take worker threads.           *)
LEMMA ProbesStayApart ==
    ASSUME TypeOK, ProbesApart, [Next]_vars PROVE ProbesApart'
<1> DEFINE Apart(q, x) ==
        /\ q \in Probes => x \in {"new", "probe", "redis", "answered", "done"}
        /\ x \in {"probe", "redis"} => q \in Probes
<1>0. ASSUME NEW r \in Requests, NEW x, Go(r, x), Apart(r, x) PROVE ProbesApart'
  BY <1>0 DEF Go, TypeOK, ProbesApart
<1>1. ASSUME NEW r \in Requests, \/ Arrive(r) \/ TakeThread(r) \/ Check(r)
                                 \/ LimiterRaises(r)
                                 \/ Identify(r) \/ First(r) \/ IssueToken(r)
                                 \/ CommitWrite(r) \/ Refresh(r) \/ SelectOne(r)
                                 \/ Report(r) \/ CloseSession(r)
      PROVE  ProbesApart'
  <2>1. \E x \in {"probe", "queued", "ready", "redis", "answered", "done"}
                    \cup Serving : Go(r, x) /\ Apart(r, x)
    BY <1>1 DEF Arrive, TakeThread, Check, LimiterRaises,
                Identify, First, IssueToken,
                CommitWrite, Refresh, SelectOne, Report, CloseSession, Executes,
                Answers, Leave, Serving, ProbesApart
  <2> QED
    BY <1>0, <2>1
<1>2. ASSUME NEW r \in Requests,
             Failing(r)
      PROVE  ProbesApart'
  <2>1. \E x \in {"redis", "answered"} : Go(r, x) /\ Apart(r, x)
    BY <1>2, FailingIs DEF Fail, Answers, Leave
  <2> QED
    BY <1>0, <2>1
<1>3. ASSUME UNCHANGED pc PROVE ProbesApart'
  BY <1>3 DEF ProbesApart
<1>4. ASSUME NEW r \in Requests, Checkout(r) PROVE UNCHANGED pc
  BY <1>4 DEF Checkout
<1>5. ASSUME \/ DatabaseFails \/ DatabaseReturns
             \/ Terminate \/ CloseLimiters \/ Dispose \/ UNCHANGED vars
      PROVE  UNCHANGED pc
  BY <1>5 DEF DatabaseFails, DatabaseReturns, Terminate, CloseLimiters, Dispose, vars
<1> QED
  BY <1>1, <1>2, <1>3, <1>4, <1>5 DEF Next, Step, Failing

(* What makes AllComesBack hold.                                           *)
LEMMA ComesBackStep ==
    ASSUME AllComesBack, ProbesApart, [Next]_vars
    PROVE  AllComesBack' /\ ProbesApart'
<1>1. /\ TypeOK /\ ThreadsAccounted /\ PoolAccounted /\ Holding \subseteq Open
  BY DEF AllComesBack, ThreadsAccounted, PoolAccounted
<1>2. idleThreads' \in 0..Threads /\ ThreadsAccounted'
  BY <1>1, ThreadsComeBack
<1>3. PoolTyped' /\ PoolAccounted' /\ (Holding \subseteq Open)'
  BY <1>1, ConnectionsComeBack
<1>4. RestTyped' /\ HistoryOpen'
  BY <1>1, RestStaysTyped, HistoryStaysOpen
<1>5. TypeOK'
  BY <1>2, <1>3, <1>4 DEF TypeOK, PoolTyped, RestTyped, HistoryOpen
<1>6. AllComesBack'
  BY <1>2, <1>3, <1>5 DEF AllComesBack, ThreadsAccounted, PoolAccounted
<1> QED
  BY <1>1, <1>6, ProbesStayApart
-----------------------------------------------------------------------------
(* Who finds the pool empty is one of more requests than it has            *)
(* connections: those that hold them are open too.                         *)
LEMMA EmptyPoolIsACrowd ==
    ASSUME TypeOK, PoolAccounted, Holding \subseteq Open, CrowdSeen,
           NEW r \in Open, r \notin Holding, free = 0
    PROVE  r \in hindered
<1>1. /\ IsFiniteSet(Holding) /\ Cardinality(Holding) \in Nat
      /\ IsFiniteSet(Open) /\ Cardinality(Open) \in Nat
  BY RequestsFinite DEF Holding, Open
<1>2. Cardinality(Holding) = PoolSize
  BY <1>1, SizeAssumption DEF PoolAccounted
<1>3. Cardinality(Holding \cup {r}) = PoolSize + 1
  BY <1>1, <1>2, FS_AddElement
<1>4. Cardinality(Holding \cup {r}) <= Cardinality(Open)
  BY <1>1, FS_Subset
<1> QED
  BY <1>1, <1>3, <1>4, SizeAssumption DEF CrowdSeen

(* Every failure at a statement is that of a hindered request, or it is    *)
(* the request's own.                                                      *)
LEMMA FailsWithCause ==
    ASSUME TypeOK, PoolAccounted, Holding \subseteq Open, CrowdSeen, OutageSeen,
           NEW r \in Requests, Failing(r)
    PROVE  r \in (hindered \cup faulted)'
<1>0. UNCHANGED hindered
  BY FailingIs
<1>1. ASSUME PoolTimeout(r) PROVE r \in hindered
  <2>1. r \in Open /\ r \notin Holding /\ free = 0
    BY <1>1 DEF PoolTimeout, NeedsConnection, Open, Holding
  <2> QED
    BY <2>1, EmptyPoolIsACrowd
<1>2. ASSUME ConnectFails(r) PROVE r \in hindered \cup faulted'
  BY <1>2 DEF ConnectFails, NeedsConnection, Faults, Open, OutageSeen, TypeOK
<1>3. ASSUME StatementFails(r) PROVE r \in hindered
  BY <1>3 DEF StatementFails, OutageSeen
<1>4. ASSUME StatementRefused(r) PROVE r \in faulted'
  BY <1>4 DEF StatementRefused, Faults
<1> QED
  BY <1>0, <1>1, <1>2, <1>3, <1>4 DEF Failing

(* Outages and crowds are seen by all who are open.                        *)
LEMMA SeenStep ==
    ASSUME TypeOK, Holding \subseteq Open, OutageSeen, CrowdSeen, [Next]_vars
    PROVE  OutageSeen' /\ CrowdSeen'
<1>1. ASSUME NEW r \in Requests, Arrive(r) PROVE OutageSeen' /\ CrowdSeen'
  <2>1. Open' = Open \cup {r}
    BY <1>1, OpenMoves DEF Arrive
  <2>2. UNCHANGED <<db, conn>> /\ hindered \subseteq hindered'
    BY <1>1 DEF Arrive, pool
  <2>3. db = "down" => r \in hindered'
    BY <1>1 DEF Arrive
  <2>4. Cardinality(Open \cup {r}) > PoolSize => Open \cup {r} \subseteq hindered'
    BY <1>1 DEF Arrive
  <2> QED
    BY <2>1, <2>2, <2>3, <2>4 DEF OutageSeen, CrowdSeen
<1>2. ASSUME NEW r \in Requests, CloseSession(r) PROVE OutageSeen' /\ CrowdSeen'
  <2>1. /\ Open' = Open \ {r} /\ r \in Open
        /\ conn' = [conn EXCEPT ![r] = "none"]
        /\ UNCHANGED db /\ hindered' = hindered \ {r}
    BY <1>2, Closes DEF CloseSession
  <2>2. OutageSeen'
    BY <2>1 DEF OutageSeen, TypeOK
  <2>3. IsFiniteSet(Open) /\ Cardinality(Open) \in Nat
    BY RequestsFinite DEF Open
  <2>4. Cardinality(Open') = Cardinality(Open) - 1
    BY <2>1, <2>3, FS_RemoveElement
  <2>5. CrowdSeen'
    BY <2>1, <2>3, <2>4, SizeAssumption DEF CrowdSeen
  <2> QED
    BY <2>2, <2>5
<1>3. ASSUME NEW r \in Requests, Step(r), ~CloseSession(r)
      PROVE  OutageSeen' /\ CrowdSeen'
  <2>1. Open' = Open /\ UNCHANGED <<db, hindered>>
    BY <1>3, StaysOpen
  <2>2. PICK x \in {"none", "live", conn[r]} : conn' = [conn EXCEPT ![r] = x]
    BY <1>3, StaysOpen
  <2> QED
    BY <2>1, <2>2 DEF OutageSeen, CrowdSeen, TypeOK
<1>4. ASSUME DatabaseFails PROVE OutageSeen' /\ CrowdSeen'
  <2>1. Open' = Open /\ hindered' = Open
    BY <1>4 DEF DatabaseFails, Open
  <2>2. \A r \in Requests : conn'[r] = "dead" => r \in Holding
    BY <1>4 DEF DatabaseFails, Holding
  <2> QED
    BY <2>1, <2>2 DEF OutageSeen, CrowdSeen
<1>5. ASSUME \/ DatabaseReturns
             \/ Terminate \/ CloseLimiters \/ Dispose \/ UNCHANGED vars
      PROVE  OutageSeen' /\ CrowdSeen'
  <2>1. Open' = Open /\ UNCHANGED <<conn, hindered>>
    BY <1>5 DEF DatabaseReturns, Terminate, CloseLimiters, Dispose, vars, pool,
                history, Open
  <2>2. db' = "down" => db = "down"
    BY <1>5 DEF DatabaseReturns, Terminate, CloseLimiters, Dispose, vars
  <2> QED
    BY <2>1, <2>2 DEF OutageSeen, CrowdSeen
<1> QED
  BY <1>1, <1>2, <1>3, <1>4, <1>5 DEF Next

(* A 500 or a 503 is the answer of a request with a cause, and stays one.  *)
LEMMA CauseStep ==
    ASSUME TypeOK, PoolAccounted, Holding \subseteq Open, OutageSeen, CrowdSeen,
           ProbesApart, DatabaseSeen, FailureHasACause, [Next]_vars
    PROVE  FailureHasACause'
<1>0. ASSUME NEW r \in Requests, Step(r), ~CloseSession(r)
      PROVE  UNCHANGED hindered /\ faulted \subseteq faulted'
  BY <1>0, StaysOpen
<1>1. ASSUME NEW r \in Requests, Arrive(r) PROVE FailureHasACause'
  BY <1>1 DEF Arrive, FailureHasACause
<1>2. ASSUME NEW r \in Requests, CloseSession(r) PROVE FailureHasACause'
  BY <1>2 DEF CloseSession, FailureHasACause, TypeOK
<1>3. ASSUME NEW r \in Requests, Failing(r) PROVE FailureHasACause'
  <2>1. r \in (hindered \cup faulted)'
    BY <1>3, FailsWithCause
  <2>2. UNCHANGED hindered /\ faulted \subseteq faulted'
    BY <1>3, FailingIs
  <2>3. answer' = answer \/ answer' = [answer EXCEPT ![r] = "error"]
    BY <1>3, FailingIs DEF Fail, Answers
  <2> QED
    BY <2>1, <2>2, <2>3 DEF FailureHasACause, TypeOK
<1>4. ASSUME NEW r \in Requests, LimiterRaises(r) PROVE FailureHasACause'
  <2>1. /\ UNCHANGED hindered /\ faulted' = faulted \cup {r}
        /\ answer' = [answer EXCEPT ![r] = "error"]
    BY <1>4 DEF LimiterRaises, Faults, Answers
  <2> QED
    BY <2>1 DEF FailureHasACause, TypeOK
<1>5. ASSUME NEW r \in Requests, Report(r) PROVE FailureHasACause'
  <2>1. UNCHANGED <<hindered, faulted>>
    BY <1>5 DEF Report, history
  <2>2. r \in Probes /\ database[r] \in {"healthy", "unhealthy"}
    BY <1>5 DEF Report, ProbesApart, DatabaseSeen, TypeOK
  <2>3. answer' = [answer EXCEPT ![r] =
                        IF database[r] = "healthy" THEN "ready" ELSE "unready"]
    BY <1>5 DEF Report, Verdict
  <2> QED
    BY <2>1, <2>2, <2>3 DEF DatabaseSeen, FailureHasACause, TypeOK
<1>6. ASSUME NEW r \in Requests,
             \/ TakeThread(r) \/ Check(r) \/ Identify(r) \/ First(r)
             \/ IssueToken(r) \/ CommitWrite(r) \/ Refresh(r)
             \/ SelectOne(r) \/ Checkout(r)
      PROVE  FailureHasACause'
  <2>1. UNCHANGED <<hindered, faulted>>
    BY <1>6 DEF TakeThread, Check, Identify, First, IssueToken, CommitWrite,
                Refresh, SelectOne, Checkout, history
  <2>2. \/ answer' = answer
        \/ answer' = [answer EXCEPT ![r] = "served"]
    BY <1>6 DEF TakeThread, Check, Identify, First, IssueToken, CommitWrite,
                Refresh, SelectOne, Checkout, Answers
  <2> QED
    BY <2>1, <2>2 DEF FailureHasACause, TypeOK
<1>7. ASSUME DatabaseFails PROVE FailureHasACause'
  BY <1>7 DEF DatabaseFails, FailureHasACause, TypeOK
<1>8. ASSUME \/ DatabaseReturns
             \/ Terminate \/ CloseLimiters \/ Dispose \/ UNCHANGED vars
      PROVE  FailureHasACause'
  BY <1>8 DEF DatabaseReturns, Terminate, CloseLimiters, Dispose, vars, history,
              FailureHasACause
<1> QED
  BY <1>1, <1>2, <1>3, <1>4, <1>5, <1>6, <1>7, <1>8 DEF Next, Step, Failing
-----------------------------------------------------------------------------
(* What a probe found out it has met, and says.                            *)
LEMMA VerdictStep ==
    ASSUME TypeOK, PoolAccounted, Holding \subseteq Open, OutageSeen, CrowdSeen,
           ProbesApart, DatabaseSeen, ReadyMeansReachable, [Next]_vars
    PROVE  DatabaseSeen' /\ ReadyMeansReachable'
<1> DEFINE Good == DatabaseSeen' /\ ReadyMeansReachable'
<1>1. ASSUME NEW r \in Requests, Arrive(r) PROVE Good
  <2>1. Open' = Open \cup {r}
    BY <1>1, OpenMoves DEF Arrive
  <2>2. /\ UNCHANGED <<db, conn, database, answer>>
        /\ hindered \subseteq hindered' /\ reachable \subseteq reachable'
        /\ UNCHANGED faulted
        /\ db = "up" => {r} \cap Probes \subseteq reachable'
    BY <1>1 DEF Arrive, pool
  <2>3. \A p \in Probes : pc'[p] = "redis" => pc[p] = "redis"
    BY <1>1 DEF Arrive, Go, TypeOK, Requests
  <2> QED
    BY <2>1, <2>2, <2>3 DEF DatabaseSeen, ReadyMeansReachable
<1>2. ASSUME NEW r \in Requests, CloseSession(r) PROVE Good
  <2>1. /\ Open' = Open \ {r} /\ r \in Open
        /\ conn' = [conn EXCEPT ![r] = "none"]
        /\ answer' = [answer EXCEPT ![r] = "none"]
    BY <1>2, Closes
  <2>2. /\ database' = [p \in Probes |-> IF p = r THEN "unknown" ELSE database[p]]
        /\ hindered' = hindered \ {r} /\ reachable' = reachable \ {r}
        /\ faulted' = faulted \ {r}
        /\ UNCHANGED db
        /\ pc' = [pc EXCEPT ![r] = "done"]
    BY <1>2 DEF CloseSession, Go
  <2>3. DatabaseSeen'
    BY <2>1, <2>2 DEF DatabaseSeen, TypeOK, Requests
  <2>4. ReadyMeansReachable'
    BY <2>1, <2>2 DEF ReadyMeansReachable, TypeOK, Requests
  <2> QED
    BY <2>3, <2>4
<1>3. ASSUME NEW r \in Requests, Failing(r)
      PROVE  Good
  <2>1. r \in (hindered \cup faulted)' /\ Fail(r)
    BY <1>3, FailsWithCause, FailingIs
  <2>2. /\ Open' = Open /\ UNCHANGED <<db, hindered, reachable>>
        /\ faulted \subseteq faulted'
    <3>1. Step(r) /\ ~CloseSession(r)
      BY <1>3, FailingIs DEF Step, Failing, CloseSession
    <3> QED
      BY <3>1, StaysOpen
  <2>3. CASE r \in Probes
    <3>1. /\ database' = [database EXCEPT ![r] = "unhealthy"]
          /\ pc' = [pc EXCEPT ![r] = "redis"]
          /\ conn' = [conn EXCEPT ![r] = "none"]
          /\ UNCHANGED answer
      BY <2>1, <2>3 DEF Fail, Go, GiveBack
    <3> QED
      BY <2>1, <2>2, <3>1 DEF DatabaseSeen, ReadyMeansReachable, TypeOK, Requests
  <2>4. CASE r \notin Probes
    <3>1. /\ UNCHANGED <<conn, database>>
          /\ pc' = [pc EXCEPT ![r] = "answered"]
          /\ answer' = [answer EXCEPT ![r] = "error"]
      BY <2>1, <2>4 DEF Fail, Answers, Leave, Go, pool
    <3> QED
      BY <2>2, <2>4, <3>1 DEF DatabaseSeen, ReadyMeansReachable, TypeOK, Requests
  <2> QED
    BY <2>3, <2>4
<1>4. ASSUME NEW r \in Requests, SelectOne(r) PROVE Good
  <2>1. r \in Probes /\ r \in reachable
    BY <1>4 DEF SelectOne, Executes, ProbesApart, DatabaseSeen
  <2>2. /\ Open' = Open /\ UNCHANGED <<db, hindered, reachable>>
        /\ faulted \subseteq faulted'
    BY <1>4, StaysOpen DEF Step, SelectOne, Executes, CloseSession
  <2>3. /\ database' = [database EXCEPT ![r] = "healthy"]
        /\ pc' = [pc EXCEPT ![r] = "redis"]
        /\ conn' = [conn EXCEPT ![r] = "none"]
        /\ UNCHANGED answer
    BY <1>4 DEF SelectOne, Go, GiveBack
  <2> QED
    BY <2>1, <2>2, <2>3 DEF DatabaseSeen, ReadyMeansReachable, TypeOK, Requests
<1>5. ASSUME NEW r \in Requests, Report(r) PROVE Good
  <2>1. r \in Probes /\ database[r] \in {"healthy", "unhealthy"}
    BY <1>5 DEF Report, ProbesApart, DatabaseSeen, TypeOK
  <2>2. /\ Open' = Open /\ UNCHANGED <<db, hindered, reachable>>
        /\ faulted \subseteq faulted'
    BY <1>5, StaysOpen DEF Step, Report, CloseSession
  <2>3. /\ UNCHANGED <<conn, database>>
        /\ pc' = [pc EXCEPT ![r] = "answered"]
        /\ answer' = [answer EXCEPT ![r] =
                        IF database[r] = "healthy" THEN "ready" ELSE "unready"]
    BY <1>5 DEF Report, Go, Verdict, pool
  <2>4. DatabaseSeen'
    BY <2>2, <2>3 DEF DatabaseSeen, TypeOK, Requests
  <2>5. ReadyMeansReachable'
    BY <2>1, <2>2, <2>3 DEF DatabaseSeen, ReadyMeansReachable, TypeOK, Requests
  <2> QED
    BY <2>4, <2>5
<1>6. ASSUME NEW r \in Requests, Checkout(r) PROVE Good
  <2>1. r \in Open /\ db = "up"
    BY <1>6 DEF Checkout, NeedsConnection, Open
  <2>2. r \in Probes => r \in reachable
    BY <2>1 DEF DatabaseSeen
  <2>3. /\ Open' = Open /\ UNCHANGED <<db, hindered, reachable>>
        /\ faulted \subseteq faulted'
    BY <1>6, StaysOpen DEF Step, Checkout, NeedsConnection, CloseSession
  <2>4. /\ conn' = [conn EXCEPT ![r] = "live"]
        /\ UNCHANGED <<pc, database, answer>>
    BY <1>6 DEF Checkout, Handed
  <2> QED
    BY <2>2, <2>3, <2>4 DEF DatabaseSeen, ReadyMeansReachable, TypeOK, Requests
<1>7. ASSUME NEW r \in Requests,
             \/ TakeThread(r) \/ Check(r) \/ LimiterRaises(r)
             \/ Identify(r) \/ First(r)
             \/ IssueToken(r) \/ CommitWrite(r) \/ Refresh(r)
      PROVE  Good
  <2>1. /\ Open' = Open /\ UNCHANGED <<db, hindered, reachable>>
        /\ faulted \subseteq faulted'
    BY <1>7, StaysOpen DEF Step, TakeThread, Check, LimiterRaises,
                Identify, First, IssueToken,
                CommitWrite, Refresh, Executes, CloseSession
  <2>2. \E x \in Serving \cup {"ready", "answered"} : pc' = [pc EXCEPT ![r] = x]
    BY <1>7 DEF TakeThread, Check, LimiterRaises,
                Identify, First, IssueToken, CommitWrite,
                Refresh, Answers, Leave, Go, Serving
  <2>3. conn' = conn \/ conn' = [conn EXCEPT ![r] = "none"]
    BY <1>7 DEF TakeThread, Check, LimiterRaises,
                Identify, First, IssueToken, CommitWrite,
                Refresh, GiveBack, pool
  <2>4. \/ answer' = answer
        \/ \E a \in {"served", "error"} : answer' = [answer EXCEPT ![r] = a]
    BY <1>7 DEF TakeThread, Check, LimiterRaises,
                Identify, First, IssueToken, CommitWrite,
                Refresh, Answers
  <2>5. UNCHANGED database
    BY <1>7 DEF TakeThread, Check, LimiterRaises,
                Identify, First, IssueToken, CommitWrite,
                Refresh
  <2>6. DatabaseSeen'
    BY <2>1, <2>2, <2>3, <2>5 DEF DatabaseSeen, TypeOK, Requests, Serving
  <2>7. ReadyMeansReachable'
    BY <2>1, <2>4 DEF ReadyMeansReachable, TypeOK, Requests
  <2> QED
    BY <2>6, <2>7
<1>8. ASSUME DatabaseFails PROVE Good
  <2>1. /\ Open' = Open /\ hindered' = Open /\ db' = "down"
        /\ UNCHANGED <<pc, database, answer, faulted, reachable>>
    BY <1>8 DEF DatabaseFails, Open
  <2>2. \A p \in Probes : conn'[p] # "live"
    BY <1>8 DEF DatabaseFails, Requests
  <2> QED
    BY <2>1, <2>2 DEF DatabaseSeen, ReadyMeansReachable, TypeOK
<1>9. ASSUME DatabaseReturns PROVE Good
  <2>1. /\ Open' = Open /\ reachable' = Open \cap Probes
        /\ UNCHANGED <<pc, conn, database, answer, hindered, faulted>>
    BY <1>9 DEF DatabaseReturns, Open, pool
  <2> QED
    BY <2>1 DEF DatabaseSeen, ReadyMeansReachable, TypeOK
<1>10. ASSUME Terminate \/ CloseLimiters \/ Dispose \/ UNCHANGED vars
       PROVE  Good
  <2>1. UNCHANGED <<db, pc, conn, database, answer, history>>
    BY <1>10 DEF Terminate, CloseLimiters, Dispose, vars, pool, history
  <2> QED
    BY <2>1 DEF DatabaseSeen, ReadyMeansReachable, Open, history
<1> QED
  BY <1>1, <1>2, <1>3, <1>4, <1>5, <1>6, <1>7, <1>8, <1>9, <1>10 DEF Next, Step, Failing
-----------------------------------------------------------------------------
(* At the start nobody is open and everything is there.                    *)
LEMMA BackendInit == ASSUME Init PROVE BackendInv
<1>1. Open = {} /\ Running = {} /\ Holding = {}
  BY DEF Init, Open, Running, Holding, Serving
<1>2. Cardinality({}) = 0
  BY FS_EmptySet
<1>3. TypeOK
  BY <1>1, SizeAssumption DEF Init, TypeOK
<1>4. AllComesBack
  BY <1>1, <1>2, <1>3, SizeAssumption DEF Init, AllComesBack
<1>5. ProbesApart /\ FailureHasACause /\ ReadyMeansReachable
  BY DEF Init, ProbesApart, FailureHasACause, ReadyMeansReachable, Requests
<1>6. OutageSeen /\ CrowdSeen /\ DatabaseSeen
  BY <1>1 DEF Init, OutageSeen, CrowdSeen, DatabaseSeen, Requests
<1> QED
  BY <1>4, <1>5, <1>6 DEF BackendInv

(* The invariant is inductive.                                             *)
LEMMA BackendStep == ASSUME BackendInv, [Next]_vars PROVE BackendInv'
<1>1. /\ AllComesBack /\ FailureHasACause /\ ReadyMeansReachable
      /\ ProbesApart /\ OutageSeen /\ CrowdSeen /\ DatabaseSeen
      /\ TypeOK /\ PoolAccounted /\ Holding \subseteq Open
  BY DEF BackendInv, AllComesBack, PoolAccounted
<1>2. AllComesBack' /\ ProbesApart'
  BY <1>1, ComesBackStep
<1>3. OutageSeen' /\ CrowdSeen' /\ FailureHasACause'
  BY <1>1, SeenStep, CauseStep
<1>4. DatabaseSeen' /\ ReadyMeansReachable'
  BY <1>1, VerdictStep
<1> QED
  BY <1>2, <1>3, <1>4 DEF BackendInv

(* Whatever fails, times out or is cut off by an outage, every worker      *)
(* thread and every connection is either free or with an open request, for *)
(* any number of requests, threads and connections.                        *)
THEOREM NothingLeaks == Spec => []AllComesBack
<1>1. BackendInv => AllComesBack
  BY DEF BackendInv
<1> QED
  BY <1>1, BackendInit, BackendStep, PTL DEF Spec

(* A 500 of a request or a 503 of the probe has a cause while it is open:  *)
(* its own statement was refused or its limiter raised, or the database    *)
(* was away, or it was open together with at least as many others as the   *)
(* pool has connections.  Nothing an outage or a crowd leaves behind in    *)
(* the pool fails anybody who comes after it, for any number of requests,  *)
(* threads, connections and outages.                                       *)
THEOREM FailuresHaveACause == Spec => []FailureHasACause
<1>1. BackendInv => FailureHasACause
  BY DEF BackendInv
<1> QED
  BY <1>1, BackendInit, BackendStep, PTL DEF Spec

(* The readiness probe answers 200 only if the database was there while it *)
(* ran.                                                                    *)
THEOREM ReadyIsReachable == Spec => []ReadyMeansReachable
<1>1. BackendInv => ReadyMeansReachable
  BY DEF BackendInv
<1> QED
  BY <1>1, BackendInit, BackendStep, PTL DEF Spec
=============================================================================
