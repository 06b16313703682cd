---------------------------- MODULE OutboxProofs ----------------------------
(***************************************************************************)
(* Theorems about Outbox for every set of messages and workers, every      *)
(* batch size, every budget and any number of crashes.                     *)
(***************************************************************************)
EXTENDS Outbox, FiniteSetTheorems, TLAPS

USE DEF vars, rowVars, localVars, history

(* The value of a row that does not exist has the type of a row.           *)
LEMMA AbsentIsRow ==
    Absent \in Row /\ NoMsg \in [id: {0}, attempts: Nat, error: Error]
  BY DEF Absent, NoMsg, Row, Status, Error

(* The column-wise UPDATE of a row is a row.                               *)
LEMMA UpdatedIsRow ==
    ASSUME NEW c \in Row, NEW b \in Row, NEW n \in Row
    PROVE  Updated(c, b, n) \in Row
  BY DEF Updated, Row

(* _mark_exhausted always has an error text to write.                      *)
LEMMA KeptErrorIsError ==
    ASSUME NEW s \in Snapshot
    PROVE  KeptError(s) \in Error \ {NoError}
  BY ErrorsAssumption DEF KeptError, Snapshot, Error

(* The history counters stay numbers.                                      *)
LEMMA CountedIsNat == ASSUME NEW n \in Nat PROVE Counted(n) \in Nat
  BY DEF Counted

(* A claim takes its ids from the table.                                   *)
LEMMA ClaimedFromTable == ClaimedIds \subseteq Claimable /\ Claimable \subseteq Messages
  BY DEF ClaimedIds, Claimable

(* Releasing locks leaves a lock table.                                    *)
LEMMA ReleasedIsLock ==
    ASSUME NEW w \in Workers, lock \in [Messages -> Workers \cup {NoWorker}]
    PROVE  Released(w) \in [Messages -> Workers \cup {NoWorker}]
  BY DEF Released

(* Death resets only the process that dies.                                *)
LEMMA DieTypeOK ==
    ASSUME TypeOK, NEW w \in Workers, Die(w), crashes' \in Nat
    PROVE  TypeOK'
  BY ReleasedIsLock, AbsentIsRow DEF TypeOK, Die, Place, Delivering

(* The empty queue with stopped workers is well-typed.                     *)
LEMMA InitTypeOK == ASSUME Init PROVE TypeOK
  BY AbsentIsRow DEF Init, TypeOK, Place, Delivering

(* Every step of a worker, a crash and an enqueue keep the types.          *)
LEMMA NextTypeOK == ASSUME TypeOK, [Next]_vars PROVE TypeOK'
<1>0. CASE UNCHANGED vars
  BY <1>0 DEF TypeOK
<1>1. ASSUME NEW m \in Messages, Enqueue(m) PROVE TypeOK'
  BY <1>1 DEF TypeOK, Enqueue, Absent, Row, Status, Error
<1>2. ASSUME NEW w \in Workers, Start(w) PROVE TypeOK'
  BY <1>2 DEF TypeOK, Start, Place, Delivering
<1>3. ASSUME NEW w \in Workers, ClaimPending(w) PROVE TypeOK'
  <2> DEFINE new == {[id |-> m, attempts |-> row[m].attempts,
                      error |-> row[m].error] : m \in ClaimedIds}
  <2>0. \A m \in ClaimedIds : row[m] \in Row /\ m \in Messages
    BY ClaimedFromTable DEF TypeOK
  <2>1. new \in SUBSET Snapshot
    BY <2>0 DEF Snapshot, Row
  <2>2. batch' = [batch EXCEPT ![w] = new]
    BY <1>3 DEF ClaimPending
  <2> HIDE DEF new
  <2>3. batch' \in [Workers -> SUBSET Snapshot]
    BY <2>1, <2>2 DEF TypeOK
  <2>4. lock' \in [Messages -> Workers \cup {NoWorker}]
    BY <1>3 DEF TypeOK, ClaimPending
  <2> QED
    BY <1>3, <2>3, <2>4 DEF TypeOK, ClaimPending, Place, Delivering
<1>4. ASSUME NEW w \in Workers, PollEmpty(w) \/ EndBatch(w) PROVE TypeOK'
  BY <1>4 DEF TypeOK, PollEmpty, EndBatch, AfterBatch, Place,
              Delivering
<1> DEFINE Held(w) == msg[w] \in Snapshot
<1>a. \A w \in Workers : pc[w] \in Delivering => Held(w)
  BY DEF TypeOK
<1>5. ASSUME NEW w \in Workers, Deliver(w) PROVE TypeOK'
  <2>1. PICK s \in batch[w] : Deliver(w)!2!(s)
    BY <1>5 DEF Deliver
  <2>2. s \in Snapshot /\ KeptError(s) \in Error
    BY KeptErrorIsError DEF TypeOK
  <2>3. s # NoMsg
    BY <2>2, MessagesAssumption DEF Snapshot, NoMsg
  <2>4. [status |-> "failed", attempts |-> s.attempts,
         error |-> KeptError(s)] \in Row
    BY <2>2 DEF Row, Status, Snapshot
  <2> QED
    BY <1>5, <2>1, <2>2, <2>3, <2>4 DEF TypeOK, Deliver, Place, Delivering
<1>6. ASSUME NEW w \in Workers, SendSucceeds(w) PROVE TypeOK'
  <2>1. Held(w)
    BY <1>6, <1>a DEF SendSucceeds, Delivering
  <2>2. [status |-> "sent", attempts |-> msg[w].attempts + 1,
         error |-> NoError] \in Row
    BY <2>1 DEF Row, Status, Error, Snapshot
  <2>3. sends' \in [Messages -> Nat] /\ reached' \subseteq Messages
    BY <1>6, <2>1, CountedIsNat DEF SendSucceeds, TypeOK, Snapshot
  <2> QED BY <1>6, <2>2, <2>3 DEF TypeOK, SendSucceeds, Place, Delivering
<1>7. ASSUME NEW w \in Workers, SendFails(w) PROVE TypeOK'
  <2>1. Held(w)
    BY <1>7, <1>a DEF SendFails, Delivering
  <2>2. \A e \in Failures :
          [status |-> StatusAfterFailure(w, msg[w].attempts + 1),
           attempts |-> msg[w].attempts + 1, error |-> e] \in Row
    BY <2>1 DEF Row, Status, Error, Snapshot, StatusAfterFailure
  <2>3. mark' \in [Workers -> Row]
    BY <1>7, <2>2 DEF SendFails, TypeOK
  <2>4. sends' \in [Messages -> Nat] /\ reached' \subseteq Messages
    BY <1>7, <2>1, CountedIsNat DEF SendFails, TypeOK, Snapshot
  <2> QED BY <1>7, <2>3, <2>4 DEF TypeOK, SendFails, Place, Delivering
<1>8. ASSUME NEW w \in Workers, GetRecord(w) PROVE TypeOK'
  <2>1. row[msg[w].id] \in Row
    BY <1>8, <1>a DEF GetRecord, Delivering, Snapshot, TypeOK
  <2> QED BY <1>8, <2>1 DEF TypeOK, GetRecord, Place, Delivering
<1>9. ASSUME NEW w \in Workers, Commit(w) PROVE TypeOK'
  <2>1. row' \in [Messages -> Row]
    BY <1>9, UpdatedIsRow DEF Commit, TypeOK
  <2> QED
    BY <1>9, <2>1, ReleasedIsLock, AbsentIsRow
    DEF TypeOK, Commit, Place, Delivering
<1>10. ASSUME NEW w \in Workers, LockTimeout(w) \/ Crash(w) PROVE TypeOK'
  BY <1>10, DieTypeOK DEF LockTimeout, Crash, TypeOK
<1>11. ASSUME NEW w \in Workers, DeadLetter(w) PROVE TypeOK'
  BY <1>11, CountedIsNat DEF TypeOK, DeadLetter, Place, Delivering
<1> QED
  BY <1>0, <1>1, <1>2, <1>3, <1>4, <1>5, <1>6, <1>7, <1>8, <1>9, <1>10,
     <1>11 DEF Next, Step

(* Every variable keeps its type: TypeOK is inductive.                     *)
THEOREM TypeCorrect == Spec => []TypeOK
  BY InitTypeOK, NextTypeOK, PTL DEF Spec
-----------------------------------------------------------------------------
(* What a step does to the locks and to what a worker has in hand.         *)

(* What a worker has in hand are ids of the table.                         *)
LEMMA InHandIsMessages ==
    ASSUME TypeOK, NEW v \in Workers PROVE InHand(v) \subseteq Messages
  BY DEF TypeOK, InHand, Snapshot, Delivering

(* A worker gets hold of messages by claiming them, and only then.         *)
LEMMA InHandGrowsByClaim ==
    ASSUME TypeOK, [Next]_vars, NEW v \in Workers
    PROVE  IF ClaimPending(v) THEN InHand(v)' = ClaimedIds
                              ELSE InHand(v)' \subseteq InHand(v)
<1>0. ASSUME UNCHANGED <<pc, batch, msg>> PROVE InHand(v)' = InHand(v)
  BY <1>0 DEF InHand
<1>1. ASSUME NEW m \in Messages, Enqueue(m) PROVE InHand(v)' = InHand(v)
  BY <1>1 DEF Enqueue, InHand
<1>2. ASSUME NEW w \in Workers, Start(w) PROVE InHand(v)' = InHand(v)
  BY <1>2 DEF Start, InHand, TypeOK
<1>3. ASSUME NEW w \in Workers, ClaimPending(w)
      PROVE  IF v = w THEN InHand(v)' = ClaimedIds ELSE InHand(v)' = InHand(v)
  <2>1. CASE v # w
    BY <1>3, <2>1 DEF ClaimPending, InHand, TypeOK
  <2>2. CASE v = w
    <3>1. InHand(v)' = {s.id : s \in batch'[v]}
      BY <1>3, <2>2 DEF ClaimPending, InHand, TypeOK
    <3>2. batch'[v] = {[id |-> m, attempts |-> row[m].attempts,
                        error |-> row[m].error] : m \in ClaimedIds}
      BY <1>3, <2>2 DEF ClaimPending, TypeOK
    <3>3. ASSUME NEW s \in batch'[v] PROVE s.id \in ClaimedIds
      BY <3>2
    <3>4. ASSUME NEW m \in ClaimedIds PROVE \E s \in batch'[v] : s.id = m
      <4> DEFINE s == [id |-> m, attempts |-> row[m].attempts,
                       error |-> row[m].error]
      <4>1. s \in batch'[v]
        BY <3>2
      <4>2. s.id = m
        OBVIOUS
      <4> QED BY <4>1, <4>2
    <3>5. InHand(v)' = ClaimedIds
      BY <3>1, <3>3, <3>4
    <3> QED BY <2>2, <3>5
  <2> QED BY <2>1, <2>2
<1>4. ASSUME NEW w \in Workers, PollEmpty(w) \/ EndBatch(w)
      PROVE  InHand(v)' = InHand(v)
  BY <1>4 DEF PollEmpty, EndBatch, AfterBatch, InHand, TypeOK
<1>5. ASSUME NEW w \in Workers, Deliver(w)
      PROVE  InHand(v)' \subseteq InHand(v)
  BY <1>5 DEF Deliver, InHand, TypeOK
<1>6. ASSUME NEW w \in Workers,
             SendSucceeds(w) \/ SendFails(w) \/ GetRecord(w)
      PROVE  InHand(v)' = InHand(v)
  BY <1>6 DEF SendSucceeds, SendFails, GetRecord, InHand, TypeOK
<1>7. ASSUME NEW w \in Workers, Commit(w) \/ DeadLetter(w)
      PROVE  InHand(v)' \subseteq InHand(v)
  BY <1>7 DEF Commit, DeadLetter, InHand, TypeOK
<1>8. ASSUME NEW w \in Workers, LockTimeout(w) \/ Crash(w)
      PROVE  InHand(v)' \subseteq InHand(v)
  BY <1>8 DEF LockTimeout, Crash, Die, InHand, TypeOK
<1> QED
  <2>1. CASE ClaimPending(v)
    BY <2>1, <1>3
  <2>2. CASE ~ClaimPending(v)
    <3>1. InHand(v)' \subseteq InHand(v)
      BY <2>2, <1>0, <1>1, <1>2, <1>3, <1>4, <1>5, <1>6, <1>7, <1>8
      DEF Next, Step
    <3> QED BY <2>2, <3>1
  <2> QED BY <2>1, <2>2

(* A worker's locks stay until it commits or dies, when all of them go;    *)
(* it gets new ones by a claim, on rows nobody had locked.                 *)
LEMMA LocksOfAWorker ==
    ASSUME TypeOK, [Next]_vars, NEW v \in Workers
    PROVE  IF ClaimPending(v)
           THEN \A m \in Messages :
                    lock'[m] = v <=> m \in ClaimedIds \/ lock[m] = v
           ELSE \/ \A m \in Messages : lock'[m] = v <=> lock[m] = v
                \/ \A m \in Messages : lock'[m] # v
<1>1. ASSUME NEW w \in Workers, ClaimPending(w), w # v
      PROVE  \A m \in Messages : lock'[m] = v <=> lock[m] = v
  BY <1>1, ClaimedFromTable, WorkersAssumption
  DEF ClaimPending, TypeOK, Claimable
<1>2. ASSUME ClaimPending(v)
      PROVE  \A m \in Messages : lock'[m] = v <=>
                    m \in ClaimedIds \/ lock[m] = v
  BY <1>2 DEF ClaimPending
<1>3. ASSUME NEW w \in Workers,
             Commit(w) \/ LockTimeout(w) \/ Crash(w)
      PROVE  \A m \in Messages :
                IF w = v THEN lock'[m] # v ELSE lock'[m] = v <=> lock[m] = v
  BY <1>3, WorkersAssumption
  DEF Commit, LockTimeout, Crash, Die, Released, TypeOK
<1>4. ASSUME lock' = lock
      PROVE  \A m \in Messages : lock'[m] = v <=> lock[m] = v
  BY <1>4
<1> QED
  BY <1>1, <1>2, <1>3, <1>4
  DEF Next, Step, Enqueue, Start, PollEmpty, EndBatch, Deliver,
      SendSucceeds, SendFails, GetRecord, DeadLetter

(* Only the end of a transaction releases a worker's locks.                *)
LEMMA OnlyEndsReleaseLocks ==
    ASSUME TypeOK, [Next]_vars, NEW v \in Workers, NEW m \in Messages,
           lock[m] = v, lock'[m] # v
    PROVE  Commit(v) \/ LockTimeout(v) \/ Crash(v)
<1>1. ASSUME NEW w \in Workers, ClaimPending(w) PROVE FALSE
  BY <1>1, ClaimedFromTable, WorkersAssumption
  DEF ClaimPending, TypeOK, Claimable
<1>2. ASSUME NEW w \in Workers, w # v,
             Commit(w) \/ LockTimeout(w) \/ Crash(w)
      PROVE  FALSE
  BY <1>2 DEF Commit, LockTimeout, Crash, Die, Released, TypeOK
<1> QED
  BY <1>1, <1>2
  DEF Next, Step, Enqueue, Start, PollEmpty, EndBatch, Deliver,
      SendSucceeds, SendFails, GetRecord, DeadLetter
-----------------------------------------------------------------------------
(* No worker waits for a row while it keeps another one locked, for any    *)
(* number of workers and any batch: the database has no deadlock to break. *)
(* Argument: a worker has all its rows locked until its first commit, and  *)
(* none afterwards; so a row it must wait for is none of its own claim.    *)
THEOREM NoDeadlockOnRows == Spec => []NoHoldAndWait
<1>1. Init => AllOrNone
  BY WorkersAssumption DEF Init, AllOrNone
<1>2. TypeOK /\ AllOrNone /\ [Next]_vars => AllOrNone'
  <2> SUFFICES ASSUME TypeOK, AllOrNone, [Next]_vars,
                      NEW v \in Workers, NEW m \in Messages, lock'[m] = v,
                      NEW n \in InHand(v)'
               PROVE  lock'[n] = v
    BY DEF AllOrNone
  <2>1. CASE ClaimPending(v)
    BY <2>1, InHandGrowsByClaim, LocksOfAWorker, ClaimedFromTable
  <2>2. CASE ~ClaimPending(v)
    <3>1. n \in InHand(v) /\ n \in Messages
      BY <2>2, InHandGrowsByClaim, InHandIsMessages
    <3>2. lock[m] = v
      BY <2>2, LocksOfAWorker
    <3> QED BY <2>2, <3>1, <3>2, LocksOfAWorker DEF AllOrNone
  <2> QED BY <2>1, <2>2
<1>3. TypeOK /\ AllOrNone => NoHoldAndWait
  BY WorkersAssumption
  DEF AllOrNone, NoHoldAndWait, Waits, LockedByOther, InHand
<1> QED
  BY <1>1, <1>2, <1>3, TypeCorrect, PTL DEF Spec
-----------------------------------------------------------------------------
(* A row changes by being enqueued or by the commit of the worker that is  *)
(* delivering it.                                                          *)
LEMMA RowsChange ==
    ASSUME TypeOK, [Next]_vars, NEW m \in Messages
    PROVE  \/ row'[m] = row[m]
           \/ Enqueue(m)
           \/ \E w \in Workers :
                /\ Commit(w) /\ msg[w].id = m
                /\ row'[m] = Updated(row[m], loaded[w], mark[w])
<1>1. ASSUME NEW n \in Messages, Enqueue(n), n # m PROVE row'[m] = row[m]
  BY <1>1 DEF Enqueue, TypeOK
<1>2. ASSUME NEW w \in Workers, Commit(w)
      PROVE  IF msg[w].id = m
             THEN row'[m] = Updated(row[m], loaded[w], mark[w])
             ELSE row'[m] = row[m]
  BY <1>2 DEF Commit, TypeOK
<1> QED
  BY <1>1, <1>2
  DEF Next, Step, Start, ClaimPending, PollEmpty, EndBatch, Deliver,
      SendSucceeds, SendFails, GetRecord, DeadLetter, LockTimeout, Crash, Die

(* A message the receiver has processed stays processed.                   *)
LEMMA ReachedGrows == ASSUME [Next]_vars PROVE reached \subseteq reached'
  BY DEF Next, Step, Enqueue, Start, ClaimPending, PollEmpty, EndBatch, Deliver,
         SendSucceeds, SendFails, GetRecord, Commit, DeadLetter, LockTimeout,
         Crash, Die

(* What a worker writes it has earned: the strengthening of the theorem    *)
(* below, and of the refinement.                                           *)
LEMMA MarksStep ==
    ASSUME TypeOK, MarksAreEarned, [Next]_vars
    PROVE  MarksAreEarned'
<1> SUFFICES ASSUME NEW v \in Workers PROVE MarkEarned(v)'
  BY DEF MarksAreEarned
<1> USE DEF MarksAreEarned, MarkEarned, TypeOK
<1>0. ASSUME UNCHANGED <<pc, msg, mark>> PROVE MarkEarned(v)'
  BY <1>0, ReachedGrows
<1>1. ASSUME NEW w \in Workers,
             \/ Start(w) \/ ClaimPending(w) \/ PollEmpty(w)
             \/ EndBatch(w) \/ DeadLetter(w)
      PROVE  MarkEarned(v)'
  BY <1>1, ReachedGrows
  DEF Start, ClaimPending, PollEmpty, EndBatch, AfterBatch, DeadLetter
<1>2. ASSUME NEW w \in Workers, Deliver(w) PROVE MarkEarned(v)'
  BY <1>2, ReachedGrows DEF Deliver
<1>3. ASSUME NEW w \in Workers, SendSucceeds(w) \/ SendFails(w)
      PROVE  MarkEarned(v)'
  BY <1>3, ReachedGrows DEF SendSucceeds, SendFails, StatusAfterFailure
<1>4. ASSUME NEW w \in Workers, GetRecord(w) PROVE MarkEarned(v)'
  BY <1>4, ReachedGrows DEF GetRecord
<1>5. ASSUME NEW w \in Workers, Commit(w) \/ LockTimeout(w) \/ Crash(w)
      PROVE  MarkEarned(v)'
  BY <1>5, ReachedGrows DEF Commit, LockTimeout, Crash, Die, Absent
<1> QED
  BY <1>0, <1>1, <1>2, <1>3, <1>4, <1>5 DEF Next, Step, Enqueue

(* A row is recorded as sent only after the receiver processed the         *)
(* message, for any number of overlapping workers: a stale worker can undo *)
(* a record of success, it cannot invent one.                              *)
THEOREM SentImpliesDelivered == Spec => []SentWasDelivered
<1>1. Init => MarksAreEarned /\ SentWasDelivered
  BY DEF Init, MarksAreEarned, MarkEarned, SentWasDelivered, Absent
<1>2. TypeOK /\ MarksAreEarned /\ SentWasDelivered /\ [Next]_vars
        => SentWasDelivered'
  <2> SUFFICES ASSUME TypeOK, MarksAreEarned, SentWasDelivered, [Next]_vars,
                      NEW m \in Messages, row'[m].status = "sent"
               PROVE  m \in reached'
    BY DEF SentWasDelivered
  <2>1. CASE row'[m] = row[m]
    BY <2>1, ReachedGrows DEF SentWasDelivered
  <2>2. CASE Enqueue(m)
    BY <2>2 DEF Enqueue, Absent, TypeOK
  <2>3. ASSUME NEW w \in Workers, msg[w].id = m,
               row'[m] = Updated(row[m], loaded[w], mark[w])
        PROVE  m \in reached'
    <3>1. row[m].status = "sent" \/ mark[w].status = "sent"
      BY <2>3 DEF Updated
    <3> QED
      BY <2>3, <3>1, ReachedGrows
      DEF SentWasDelivered, MarksAreEarned, MarkEarned
  <2> QED
    BY <2>1, <2>2, <2>3, RowsChange
<1> QED
  BY <1>1, <1>2, MarksStep, TypeCorrect, PTL DEF Spec
-----------------------------------------------------------------------------
(* Exclusive operation: batches of one message, or a single worker.        *)

(* LIMIT 1 claims at most one row.                                         *)
LEMMA ClaimOfOne ==
    ASSUME BatchSize = 1, NEW m \in ClaimedIds, NEW n \in ClaimedIds
    PROVE  m = n
<1>1. \A i \in ClaimedIds : {j \in Claimable : j < i} = {}
  <2> SUFFICES ASSUME NEW i \in ClaimedIds
               PROVE  {j \in Claimable : j < i} = {}
    OBVIOUS
  <2> DEFINE below == {j \in Claimable : j < i}
  <2>1. IsFiniteSet(below)
    BY MessagesAssumption, ClaimedFromTable, FS_Subset
  <2>2. Cardinality(below) \in Nat /\ Cardinality(below) < 1
    BY <2>1, FS_CardinalityType DEF ClaimedIds
  <2> QED
    BY <2>1, <2>2, FS_EmptySet
<1>2. m \in Claimable /\ n \in Claimable /\ m \in Nat /\ n \in Nat
  BY ClaimedFromTable, MessagesAssumption
<1> QED
  BY <1>1, <1>2

(* A batch never holds a message twice.                                    *)
LEMMA InHandOnceStep ==
    ASSUME TypeOK, InHandOnce, [Next]_vars PROVE InHandOnce'
<1> SUFFICES ASSUME NEW v \in Workers PROVE HeldOnce(v)'
  BY DEF InHandOnce
<1> USE DEF InHandOnce, HeldOnce, TypeOK
<1>0. ASSUME UNCHANGED <<pc, msg, batch>> PROVE HeldOnce(v)'
  BY <1>0
<1>1. ASSUME NEW w \in Workers, Start(w) \/ PollEmpty(w) \/ EndBatch(w)
      PROVE  HeldOnce(v)'
  BY <1>1 DEF Start, PollEmpty, EndBatch, AfterBatch
<1>2. ASSUME NEW w \in Workers, ClaimPending(w) PROVE HeldOnce(v)'
  BY <1>2 DEF ClaimPending
<1>3. ASSUME NEW w \in Workers, Deliver(w) PROVE HeldOnce(v)'
  BY <1>3 DEF Deliver
<1>4. ASSUME NEW w \in Workers,
             SendSucceeds(w) \/ SendFails(w) \/ GetRecord(w)
      PROVE  HeldOnce(v)'
  BY <1>4 DEF SendSucceeds, SendFails, GetRecord
<1>5. ASSUME NEW w \in Workers, Commit(w) \/ DeadLetter(w)
      PROVE  HeldOnce(v)'
  BY <1>5 DEF Commit, DeadLetter
<1>6. ASSUME NEW w \in Workers, LockTimeout(w) \/ Crash(w)
      PROVE  HeldOnce(v)'
  BY <1>6 DEF LockTimeout, Crash, Die
<1> QED
  BY <1>0, <1>1, <1>2, <1>3, <1>4, <1>5, <1>6 DEF Next, Step, Enqueue

(* After a commit the committed message is out of the worker's hands.      *)
LEMMA CommitLetsGo ==
    ASSUME TypeOK, InHandOnce, NEW w \in Workers, Commit(w)
    PROVE  msg[w].id \in InHand(w) /\ msg[w].id \notin InHand(w)'
  BY DEF TypeOK, InHandOnce, HeldOnce, Commit, InHand

(* With batches of one, the row in hand stays locked until its commit.     *)
LEMMA SinglesLockedStep ==
    ASSUME TypeOK, SinglesLocked, [Next]_vars PROVE SinglesLocked'
<1> SUFFICES ASSUME BatchSize = 1, NEW v \in Workers PROVE LockedSingle(v)'
  BY DEF SinglesLocked
<1>a. LockedSingle(v)
  BY DEF SinglesLocked
<1>1. CASE ClaimPending(v)
  <2>1. \A n \in InHand(v)' : lock'[n] = v
    BY <1>1, InHandGrowsByClaim, LocksOfAWorker, ClaimedFromTable
  <2>2. \A s, t \in batch'[v] : s = t
    BY <1>1, ClaimOfOne DEF ClaimPending, TypeOK
  <2>3. pc'[v] \notin Delivering
    BY <1>1 DEF ClaimPending, TypeOK, Delivering
  <2> QED BY <2>1, <2>2, <2>3 DEF LockedSingle
<1>2. CASE (\E n \in InHand(v)' : lock'[n] # v) /\ ~ClaimPending(v)
  <2>1. InHand(v)' \subseteq InHand(v) /\ InHand(v) \subseteq Messages
    BY <1>2, InHandGrowsByClaim, InHandIsMessages
  <2>2. Commit(v) \/ LockTimeout(v) \/ Crash(v)
    BY <1>a, <1>2, <2>1, OnlyEndsReleaseLocks DEF LockedSingle
  <2>3. InHand(v)' = {}
    BY <1>a, <2>2
    DEF LockedSingle, Commit, LockTimeout, Crash, Die, InHand, TypeOK,
        Delivering
  <2> QED BY <1>2, <2>3
<1>3. CASE (\A n \in InHand(v)' : lock'[n] = v) /\ ~ClaimPending(v)
  <2> SUFFICES (\A s, t \in batch'[v] : s = t)
                /\ (pc'[v] \in Delivering => batch'[v] = {})
    BY <1>3 DEF LockedSingle
  <2> USE <1>a DEF LockedSingle, TypeOK
  <2>0. CASE UNCHANGED <<pc, batch>>
    BY <2>0
  <2>1. ASSUME NEW w \in Workers, Start(w) \/ PollEmpty(w) \/ EndBatch(w)
        PROVE  /\ batch' = batch
               /\ pc'[v] \in Delivering => pc[v] \in Delivering
    BY <2>1 DEF Start, PollEmpty, EndBatch, AfterBatch, Delivering
  <2>2. ASSUME NEW w \in Workers, ClaimPending(w), w # v
        PROVE  batch'[v] = batch[v] /\ pc'[v] = pc[v]
    BY <2>2 DEF ClaimPending
  <2>3. ASSUME NEW w \in Workers, Deliver(w)
        PROVE  IF w = v THEN batch'[v] = {}
                        ELSE batch'[v] = batch[v] /\ pc'[v] = pc[v]
    BY <2>3 DEF Deliver
  <2>4. ASSUME NEW w \in Workers,
               \/ SendSucceeds(w) \/ SendFails(w) \/ GetRecord(w)
               \/ Commit(w) \/ DeadLetter(w)
        PROVE  /\ batch' = batch
               /\ pc'[v] \in Delivering => pc[v] \in Delivering
    BY <2>4
    DEF SendSucceeds, SendFails, GetRecord, Commit, DeadLetter, Delivering
  <2>5. ASSUME NEW w \in Workers, LockTimeout(w) \/ Crash(w)
        PROVE  IF w = v THEN batch'[v] = {}
                        ELSE batch'[v] = batch[v] /\ pc'[v] = pc[v]
    BY <2>5 DEF LockTimeout, Crash, Die
  <2> QED
    BY <1>3, <2>0, <2>1, <2>2, <2>3, <2>4, <2>5 DEF Next, Step, Enqueue
<1> QED
  BY <1>1, <1>2, <1>3

(* Locks tell the claims of different workers apart.                       *)
LEMMA ExclusiveClaimsNext ==
    ASSUME Exclusive, SinglesLocked' PROVE NoSharedClaim'
  BY DEF Exclusive, SinglesLocked, LockedSingle, NoSharedClaim

(* What a worker has in hand is pending, as only its holder settles a row. *)
LEMMA InHandPendingStep ==
    ASSUME ExclusiveInv, [Next]_vars PROVE InHandPending'
<1> SUFFICES ASSUME NEW v \in Workers, NEW n \in InHand(v)'
             PROVE  row'[n].status = "pending"
  BY DEF InHandPending
<1> USE DEF ExclusiveInv
<1>1. CASE ClaimPending(v)
  BY <1>1, InHandGrowsByClaim DEF ClaimPending, ClaimedIds, Claimable
<1>2. CASE ~ClaimPending(v)
  <2>1. n \in InHand(v) /\ n \in Messages /\ row[n].status = "pending"
    BY <1>2, InHandGrowsByClaim, InHandIsMessages DEF InHandPending
  <2>2. ASSUME NEW w \in Workers, Commit(w), msg[w].id = n PROVE FALSE
    BY <2>1, <2>2, CommitLetsGo DEF NoSharedClaim
  <2>3. ~Enqueue(n)
    BY <2>1 DEF Enqueue, Absent
  <2> QED BY <2>1, <2>2, <2>3, RowsChange
<1> QED
  BY <1>1, <1>2

(* The inductive invariant of exclusive claims holds of the specification. *)
LEMMA ExclusiveInductive ==
    ASSUME Exclusive PROVE Spec => []ExclusiveInv
<1>1. Init => ExclusiveInv
  <2> SUFFICES ASSUME Init PROVE ExclusiveInv
    OBVIOUS
  <2>1. \A w \in Workers : InHand(w) = {} /\ batch[w] = {}
                             /\ pc[w] = "stopped" /\ mark[w] = Absent
    BY DEF Init, InHand
  <2>2. TypeOK
    BY InitTypeOK
  <2> QED
    BY <2>1, <2>2
    DEF ExclusiveInv, MarksAreEarned, MarkEarned, Absent, InHandOnce, HeldOnce,
        InHandPending, SinglesLocked, LockedSingle, NoSharedClaim, Delivering
<1>2. ExclusiveInv /\ [Next]_vars => ExclusiveInv'
  BY NextTypeOK, MarksStep, InHandOnceStep, InHandPendingStep,
     SinglesLockedStep, ExclusiveClaimsNext DEF ExclusiveInv
<1> QED
  BY <1>1, <1>2, PTL DEF Spec

(* One batch of one message at a time, or one worker: no two workers have  *)
(* the same message in hand, however many workers, crashes and restarts.   *)
THEOREM ClaimsAreExclusive == ASSUME Exclusive PROVE Spec => []NoSharedClaim
<1>1. ExclusiveInv => NoSharedClaim
  BY DEF ExclusiveInv
<1>2. Spec => []ExclusiveInv
  BY ExclusiveInductive
<1> QED
  BY <1>1, <1>2, PTL

(* ... and no step of any worker changes a sent or failed row: the worker  *)
(* that writes a row has it in hand, and what is in hand is pending.       *)
THEOREM OutcomesAreFinal == ASSUME Exclusive PROVE Spec => SettledIsFinal
<1>1. ExclusiveInv /\ [Next]_vars =>
        [\A m \in Messages :
            row[m].status \in Settled => row'[m] = row[m]]_vars
  <2> SUFFICES ASSUME ExclusiveInv, [Next]_vars, NEW m \in Messages,
                      row[m].status \in Settled
               PROVE  row'[m] = row[m]
    OBVIOUS
  <2>1. ~Enqueue(m)
    BY DEF Enqueue, Absent, Settled
  <2>2. ASSUME NEW w \in Workers, Commit(w), msg[w].id = m PROVE FALSE
    BY <2>2, CommitLetsGo DEF ExclusiveInv, InHandPending, Settled
  <2> QED
    BY <2>1, <2>2, RowsChange DEF ExclusiveInv
<1>2. Spec => []ExclusiveInv
  BY ExclusiveInductive
<1> QED
  BY <1>1, <1>2, PTL DEF Spec, SettledIsFinal
-----------------------------------------------------------------------------
(* The queue implements NotificationDelivery: a transport call is a Reach, *)
(* the commit after it a Succeed, a GiveUp or a stutter, and everything    *)
(* else is invisible.                                                      *)
StatusOf == [m \in Messages |-> row[m].status]

(* A commit maps to a step of NotificationDelivery, or to a stutter.       *)
LEMMA CommitRefines ==
    ASSUME ExclusiveInv, NEW w \in Workers, Commit(w)
    PROVE  Delivery!Next \/ UNCHANGED <<StatusOf, reached>>
<1> USE DEF ExclusiveInv
<1> DEFINE m == msg[w].id
           s == Updated(row[m], loaded[w], mark[w]).status
<1>1. m \in InHand(w) /\ m \in Messages /\ row[m].status = "pending"
  BY CommitLetsGo, InHandIsMessages DEF InHandPending
<1>2. reached' = reached /\ StatusOf' = [StatusOf EXCEPT ![m] = s]
  BY <1>1 DEF Commit, StatusOf, TypeOK
<1>3. s \in {"pending", "sent", "failed"} /\ (s = "sent" => m \in reached)
  BY <1>1 DEF Updated, Commit, MarksAreEarned, MarkEarned, TypeOK, Row, Status
<1> HIDE DEF s, m
<1>4. CASE s = "pending"
  BY <1>1, <1>2, <1>4 DEF StatusOf
<1>5. CASE s = "sent"
  BY <1>1, <1>2, <1>3, <1>5 DEF StatusOf, Delivery!Next, Delivery!Succeed
<1>6. CASE s = "failed"
  BY <1>1, <1>2, <1>6 DEF StatusOf, Delivery!Next, Delivery!GiveUp
<1> QED
  BY <1>3, <1>4, <1>5, <1>6

(* So does a call of the transport.                                        *)
LEMMA SendRefines ==
    ASSUME ExclusiveInv, NEW w \in Workers, SendSucceeds(w) \/ SendFails(w)
    PROVE  Delivery!Next \/ UNCHANGED <<StatusOf, reached>>
<1> DEFINE m == msg[w].id
<1>1. m \in InHand(w) /\ m \in Messages /\ row[m].status = "pending"
  BY InHandIsMessages
  DEF ExclusiveInv, SendSucceeds, SendFails, InHand, InHandPending
<1>2. StatusOf' = StatusOf /\ reached' \in {reached, reached \cup {m}}
  BY DEF SendSucceeds, SendFails, StatusOf
<1> HIDE DEF m
<1> QED
  BY <1>1, <1>2 DEF StatusOf, Delivery!Next, Delivery!Reach

(* With exclusive claims the outbox implements NotificationDelivery: a     *)
(* message is owed until it succeeded after reaching the receiver or was   *)
(* given up, and then nothing changes any more.                            *)
THEOREM KeepsTheDeliveryPromise ==
    ASSUME Exclusive PROVE Spec => DeliveryPromise
<1>1. Init => Delivery!Init
  BY DEF Init, Delivery!Init, Absent
<1>2. ExclusiveInv /\ [Next]_vars
        => [Delivery!Next]_<<StatusOf, reached>>
  <2> SUFFICES ASSUME ExclusiveInv, [Next]_vars
               PROVE  Delivery!Next \/ UNCHANGED <<StatusOf, reached>>
    OBVIOUS
  <2>1. ASSUME NEW m \in Messages, Enqueue(m) PROVE Delivery!Next
    <3>1. StatusOf[m] = "absent" /\ reached' = reached
      BY <2>1 DEF Enqueue, Absent, StatusOf
    <3>2. StatusOf' = [StatusOf EXCEPT ![m] = "pending"]
      BY <2>1 DEF Enqueue, Absent, StatusOf, ExclusiveInv, TypeOK
    <3> QED
      BY <3>1, <3>2 DEF StatusOf, Delivery!Next, Delivery!Owe
  <2>2. ASSUME UNCHANGED <<row, reached>>
        PROVE  UNCHANGED <<StatusOf, reached>>
    BY <2>2 DEF StatusOf
  <2> QED
    BY <2>1, <2>2, CommitRefines, SendRefines
    DEF Next, Step, Start, ClaimPending, PollEmpty, EndBatch, Deliver,
        GetRecord, DeadLetter, LockTimeout, Crash, Die
<1>3. Spec => []ExclusiveInv
  BY ExclusiveInductive
<1> QED
  BY <1>1, <1>2, <1>3, PTL
  DEF Spec, DeliveryPromise, Delivery!Spec, StatusOf
-----------------------------------------------------------------------------
(* No attempt at all is within every budget.                               *)
LEMMA NoneIsAffordable == Affordable(0)
<1>1. PICK l \in Limits : l \in Nat
  BY LimitsAssumption
<1> QED
  BY <1>1 DEF Affordable

(* No step makes a worker hold a copy beyond every budget.                 *)
LEMMA BudgetStep ==
    ASSUME TypeOK, CopiesWithinBudget, AttemptsWithinBudget, [Next]_vars
    PROVE  CopiesWithinBudget'
<1> SUFFICES ASSUME NEW v \in Workers PROVE CopyAffordable(v)'
  BY DEF CopiesWithinBudget
<1>a. CopyAffordable(v)
  BY DEF CopiesWithinBudget
<1> USE NoneIsAffordable DEF TypeOK, CopyAffordable
<1>0. CASE UNCHANGED <<pc, limit, batch, msg, mark>>
  BY <1>0, <1>a DEF Exhausted, Affordable
<1>1. ASSUME NEW w \in Workers, Start(w) \/ PollEmpty(w) \/ EndBatch(w)
      PROVE  CopyAffordable(v)'
  BY <1>1, <1>a
  DEF Start, PollEmpty, EndBatch, AfterBatch, Exhausted, Affordable
<1>2. ASSUME NEW w \in Workers, ClaimPending(w) PROVE CopyAffordable(v)'
  <2>1. \A m \in ClaimedIds : Affordable(row[m].attempts)
    BY ClaimedFromTable DEF AttemptsWithinBudget, Affordable
  <2>2. \A s \in batch'[v] : Affordable(s.attempts)
    BY <1>2, <1>a, <2>1 DEF ClaimPending
  <2> QED
    BY <1>2, <1>a, <2>2 DEF ClaimPending, Exhausted, Affordable
<1>3. ASSUME NEW w \in Workers, Deliver(w) PROVE CopyAffordable(v)'
  <2>1. PICK s \in batch[w] : Deliver(w)!2!(s)
    BY <1>3 DEF Deliver
  <2>2. CASE v # w
    BY <1>3, <1>a, <2>2 DEF Deliver, Exhausted, Affordable
  <2>3. CASE v = w
    <3>1. Affordable(s.attempts) /\ msg'[v] = s /\ limit' = limit
            /\ batch'[v] \subseteq batch[v]
      BY <1>3, <1>a, <2>1, <2>3 DEF Deliver
    <3>2. Affordable(mark'[v].attempts)
      BY <1>a, <2>1, <2>3, <3>1 DEF Affordable
    <3>3. pc'[v] = "send" => ~Exhausted(v, s)
      BY <2>1, <2>3
    <3> QED
      BY <1>a, <3>1, <3>2, <3>3 DEF Exhausted, Affordable
  <2> QED BY <2>2, <2>3
<1>4. ASSUME NEW w \in Workers, SendSucceeds(w) \/ SendFails(w)
      PROVE  CopyAffordable(v)'
  <2>1. CASE v # w
    BY <1>4, <1>a, <2>1 DEF SendSucceeds, SendFails, Exhausted, Affordable
  <2>2. CASE v = w
    <3>1. msg[v].attempts + 1 <= limit[v] /\ limit[v] \in Limits
      <4>1. ~Exhausted(v, msg[v]) /\ msg[v] \in Snapshot
        BY <1>4, <1>a, <2>2 DEF SendSucceeds, SendFails, Delivering
      <4>2. limit[v] \in Limits /\ limit[v] \in Nat
        BY LimitsAssumption
      <4>3. msg[v].attempts \in Nat
        BY <4>1 DEF Snapshot
      <4> QED
        BY <4>1, <4>2, <4>3 DEF Exhausted
    <3>2. mark'[v].attempts = msg[v].attempts + 1
      BY <1>4, <2>2 DEF SendSucceeds, SendFails
    <3>3. pc'[v] = "mark" /\ msg' = msg /\ batch' = batch
      BY <1>4, <2>2 DEF SendSucceeds, SendFails
    <3> QED BY <1>a, <3>1, <3>2, <3>3 DEF Affordable
  <2> QED BY <2>1, <2>2
<1>5. ASSUME NEW w \in Workers, GetRecord(w) PROVE CopyAffordable(v)'
  BY <1>5, <1>a DEF GetRecord, Exhausted, Affordable
<1>6. ASSUME NEW w \in Workers, Commit(w) \/ DeadLetter(w)
      PROVE  CopyAffordable(v)'
  BY <1>6, <1>a DEF Commit, DeadLetter, Absent, NoMsg, Exhausted, Affordable
<1>7. ASSUME NEW w \in Workers, LockTimeout(w) \/ Crash(w)
      PROVE  CopyAffordable(v)'
  BY <1>7, <1>a
  DEF LockTimeout, Crash, Die, Absent, NoMsg, Exhausted, Affordable
<1> QED
  BY <1>0, <1>1, <1>2, <1>3, <1>4, <1>5, <1>6, <1>7 DEF Next, Step, Enqueue

(* No row ever records more attempts than the largest budget deployed, for *)
(* any number of overlapping workers with any mixture of stale copies.     *)
THEOREM BudgetIsRespected == Spec => []AttemptsWithinBudget
<1>1. Init => CopiesWithinBudget /\ AttemptsWithinBudget
  BY NoneIsAffordable
  DEF Init, CopiesWithinBudget, CopyAffordable, AttemptsWithinBudget, Absent,
      NoMsg, Affordable
<1>2. TypeOK /\ CopiesWithinBudget /\ AttemptsWithinBudget /\ [Next]_vars
        => AttemptsWithinBudget'
  <2> SUFFICES ASSUME TypeOK, CopiesWithinBudget, AttemptsWithinBudget,
                      [Next]_vars, NEW m \in Messages
               PROVE  Affordable(row'[m].attempts)
    BY DEF AttemptsWithinBudget, Affordable
  <2>1. CASE row'[m] = row[m]
    BY <2>1 DEF AttemptsWithinBudget, Affordable
  <2>2. CASE Enqueue(m)
    BY <2>2, NoneIsAffordable DEF Enqueue, Absent, TypeOK
  <2>3. ASSUME NEW w \in Workers,
               row'[m] = Updated(row[m], loaded[w], mark[w])
        PROVE  Affordable(row'[m].attempts)
    <3>1. row'[m].attempts \in {row[m].attempts, mark[w].attempts}
      BY <2>3 DEF Updated
    <3> QED
      BY <3>1
      DEF AttemptsWithinBudget, CopiesWithinBudget, CopyAffordable, Affordable
  <2> QED
    BY <2>1, <2>2, <2>3, RowsChange
<1> QED
  BY <1>1, <1>2, BudgetStep, TypeCorrect, PTL DEF Spec
-----------------------------------------------------------------------------
(* Giving up, and accounting for the sends, with exclusive claims.         *)

(* The row of a message that stays in a worker's hands is not changed.     *)
LEMMA RowInHandStays ==
    ASSUME ExclusiveInv, [Next]_vars, NEW v \in Workers, ~ClaimPending(v), NEW n \in InHand(v)'
    PROVE  n \in InHand(v) /\ n \in Messages /\ row'[n] = row[n]
<1> USE DEF ExclusiveInv
<1>1. n \in InHand(v) /\ n \in Messages /\ row[n].status = "pending"
  BY InHandGrowsByClaim, InHandIsMessages DEF InHandPending
<1>2. ASSUME NEW w \in Workers, Commit(w), msg[w].id = n PROVE FALSE
  BY <1>1, <1>2, CommitLetsGo DEF NoSharedClaim
<1>3. ~Enqueue(n)
  BY <1>1 DEF Enqueue, Absent
<1> QED BY <1>1, <1>2, <1>3, RowsChange

(* The worker that commits writes the row it has loaded: the row becomes   *)
(* what it had to record.                                                  *)
LEMMA CommitRecords ==
    ASSUME ExclusiveInv, CopiesCurrent, NEW w \in Workers, Commit(w)
    PROVE  /\ msg[w].id \in Messages /\ row[msg[w].id].status = "pending"
           /\ row' = [row EXCEPT ![msg[w].id] = mark[w]]
<1> USE DEF ExclusiveInv, TypeOK
<1>1. msg[w].id \in InHand(w) /\ msg[w].id \in Messages
        /\ row[msg[w].id].status = "pending"
  BY CommitLetsGo, InHandIsMessages DEF InHandPending
<1>2. loaded[w] = row[msg[w].id]
  BY DEF Commit, CopiesCurrent, CopyCurrent
<1>3. Updated(row[msg[w].id], loaded[w], mark[w]) = mark[w]
  BY <1>1, <1>2 DEF Updated, Row
<1> QED BY <1>1, <1>3 DEF Commit

(* Every step keeps the copies of what is in hand in step with the rows.   *)
LEMMA CopiesCurrentStep ==
    ASSUME ExclusiveInv, CopiesCurrent, [Next]_vars PROVE CopiesCurrent'
<1> SUFFICES ASSUME NEW v \in Workers PROVE CopyCurrent(v)'
  BY DEF CopiesCurrent
<1> USE DEF ExclusiveInv, TypeOK
<1>a. CopyCurrent(v)
  BY DEF CopiesCurrent
<1>b. ASSUME ~ClaimPending(v), NEW s \in batch'[v]
      PROVE  row'[s.id] = row[s.id]
  BY <1>b, RowInHandStays DEF InHand
<1>c. ASSUME ~ClaimPending(v), pc'[v] \in {"send", "mark", "flush"}
      PROVE  row'[msg'[v].id] = row[msg'[v].id]
  BY <1>c, RowInHandStays DEF InHand
<1>0. ASSUME ~ClaimPending(v), UNCHANGED <<pc, limit, batch, msg, loaded>>
      PROVE  CopyCurrent(v)'
  BY <1>0, <1>a, <1>b, <1>c DEF CopyCurrent, Exhausted
<1>1. ASSUME ~ClaimPending(v), batch'[v] \subseteq batch[v],
             pc'[v] \notin {"send", "mark", "flush"}
      PROVE  CopyCurrent(v)'
  BY <1>1, <1>a, <1>b DEF CopyCurrent
<1>2. ASSUME ~ClaimPending(v), batch'[v] = batch[v], pc'[v] = pc[v],
             limit'[v] = limit[v], msg'[v] = msg[v], loaded'[v] = loaded[v]
      PROVE  CopyCurrent(v)'
  BY <1>2, <1>a, <1>b, <1>c DEF CopyCurrent, Exhausted
<1>3. CASE ClaimPending(v)
  <2>1. pc'[v] = "next" /\ row' = row
    BY <1>3 DEF ClaimPending
  <2>2. \A s \in batch'[v] : row[s.id].attempts = s.attempts
    BY <1>3 DEF ClaimPending
  <2> QED BY <2>1, <2>2 DEF CopyCurrent
<1>4. ASSUME NEW w \in Workers, w # v, Start(w) \/ Step(w) \/ Crash(w), ~ClaimPending(v)
      PROVE  CopyCurrent(v)'
  BY <1>4, <1>2
  DEF Start, Step, ClaimPending, PollEmpty, EndBatch, Deliver, SendSucceeds, SendFails,
      GetRecord, Commit, LockTimeout, Crash, Die, DeadLetter
<1>5. CASE ~ClaimPending(v) /\ (\/ Start(v) \/ PollEmpty(v) \/ EndBatch(v)
                                \/ Commit(v) \/ LockTimeout(v) \/ Crash(v) \/ DeadLetter(v))
  BY <1>5, <1>1
  DEF Start, PollEmpty, EndBatch, AfterBatch, Commit, LockTimeout, Crash, Die, DeadLetter
<1>6. CASE ~ClaimPending(v) /\ Deliver(v)
  <2>1. PICK s \in batch[v] : Deliver(v)!2!(s)
    BY <1>6 DEF Deliver
  <2>2. /\ msg'[v] = s /\ batch'[v] \subseteq batch[v] /\ limit' = limit
        /\ pc'[v] \in {"send", "mark"} /\ (pc'[v] = "send" => ~Exhausted(v, s))
    BY <1>6, <2>1 DEF Deliver
  <2> QED BY <1>6, <1>a, <1>b, <1>c, <2>2 DEF CopyCurrent, Exhausted
<1>7. CASE ~ClaimPending(v) /\ (SendSucceeds(v) \/ SendFails(v))
  <2>1. pc[v] = "send" /\ pc'[v] = "mark" /\ msg' = msg /\ batch' = batch
    BY <1>7 DEF SendSucceeds, SendFails
  <2> QED BY <1>7, <1>a, <1>b, <1>c, <2>1 DEF CopyCurrent
<1>8. CASE ~ClaimPending(v) /\ GetRecord(v)
  <2>1. /\ pc[v] = "mark" /\ pc'[v] = "flush" /\ msg' = msg /\ batch' = batch
        /\ loaded'[v] = row[msg[v].id]
    BY <1>8 DEF GetRecord
  <2> QED BY <1>8, <1>a, <1>b, <1>c, <2>1 DEF CopyCurrent
<1>9. CASE ~ClaimPending(v) /\ \E m \in Messages : Enqueue(m)
  BY <1>9, <1>0 DEF Enqueue
<1> QED
  BY <1>0, <1>3, <1>4, <1>5, <1>6, <1>7, <1>8, <1>9 DEF Next, Step

(* Every step keeps what is about to be recorded in line with the budget.  *)
LEMMA MarksCountedStep ==
    ASSUME TypeOK, MarksCounted, [Next]_vars PROVE MarksCounted'
<1> SUFFICES ASSUME NEW v \in Workers PROVE MarkCounted(v)'
  BY DEF MarksCounted
<1> USE DEF TypeOK
<1>a. MarkCounted(v)
  BY DEF MarksCounted
<1>0. ASSUME UNCHANGED <<pc, limit, msg, mark>> PROVE MarkCounted(v)'
  BY <1>0, <1>a DEF MarkCounted
<1>1. ASSUME NEW w \in Workers,
             \/ Start(w) \/ ClaimPending(w) \/ PollEmpty(w) \/ EndBatch(w) \/ Commit(w)
             \/ LockTimeout(w) \/ Crash(w) \/ DeadLetter(w) \/ GetRecord(w)
      PROVE  MarkCounted(v)'
  BY <1>1, <1>a
  DEF MarkCounted, Start, ClaimPending, PollEmpty, EndBatch, AfterBatch, Commit,
      LockTimeout, Crash, Die, DeadLetter, GetRecord
<1>2. ASSUME NEW w \in Workers, Deliver(w) PROVE MarkCounted(v)'
  <2>1. PICK s \in batch[w] : Deliver(w)!2!(s)
    BY <1>2 DEF Deliver
  <2>2. CASE v # w
    BY <1>2, <1>a, <2>2 DEF Deliver, MarkCounted
  <2>3. CASE v = w
    <3>1. s \in Snapshot /\ KeptError(s) # NoError /\ msg'[v] = s /\ limit' = limit
      BY <1>2, <2>1, <2>3, KeptErrorIsError DEF Deliver
    <3>2. pc'[v] = "mark" => mark'[v].attempts = s.attempts /\ mark'[v].error = KeptError(s)
                              /\ s.attempts >= limit[v]
      BY <2>1, <2>3 DEF Exhausted
    <3>3. pc'[v] \in {"mark", "send"}
      BY <2>1, <2>3
    <3> QED BY <3>1, <3>2, <3>3 DEF MarkCounted
  <2> QED BY <2>2, <2>3
<1>3. ASSUME NEW w \in Workers, SendSucceeds(w) PROVE MarkCounted(v)'
  BY <1>3, <1>a DEF SendSucceeds, MarkCounted
<1>4. ASSUME NEW w \in Workers, SendFails(w) PROVE MarkCounted(v)'
  <2>1. CASE v # w
    BY <1>4, <1>a, <2>1 DEF SendFails, MarkCounted
  <2>2. CASE v = w
    <3>1. PICK e \in Failures : mark' = [mark EXCEPT ![v] =
                [status |-> StatusAfterFailure(v, msg[v].attempts + 1),
                 attempts |-> msg[v].attempts + 1, error |-> e]]
      BY <1>4, <2>2 DEF SendFails
    <3>2. e # NoError /\ msg' = msg /\ limit' = limit
      BY <1>4, ErrorsAssumption DEF SendFails
    <3>3. mark'[v].status = "failed" => msg[v].attempts + 1 >= limit[v]
      BY <3>1 DEF StatusAfterFailure
    <3> QED BY <3>1, <3>2, <3>3 DEF MarkCounted
  <2> QED BY <2>1, <2>2
<1> QED
  BY <1>0, <1>1, <1>2, <1>3, <1>4 DEF Next, Step, Enqueue

(* No step but a commit and an alert touches the rows, the alerts or the   *)
(* workers about to alert; an enqueue touches no row in use.               *)
LEMMA AlertsFrame ==
    ASSUME TypeOK, [Next]_vars,
           \A w \in Workers : ~Commit(w) /\ ~DeadLetter(w)
    PROVE  /\ alerts' = alerts
           /\ \A v \in Workers : pc'[v] = "alert" => pc[v] = "alert" /\ msg'[v] = msg[v]
           /\ \A m \in Messages : row[m] # Absent => row'[m] = row[m]
           /\ \A m \in Messages : row[m] = Absent => row'[m].status # "failed"
<1> USE DEF TypeOK
<1>1. ASSUME NEW m \in Messages, Enqueue(m)
      PROVE  /\ UNCHANGED <<pc, msg, alerts>>
             /\ \A n \in Messages : row[n] # Absent => row'[n] = row[n]
             /\ \A n \in Messages : row[n] = Absent => row'[n].status # "failed"
  BY <1>1 DEF Enqueue, Absent
<1>2. Absent.status # "failed"
  BY DEF Absent
<1>3. ASSUME NEW w \in Workers,
             \/ Start(w) \/ ClaimPending(w) \/ PollEmpty(w) \/ EndBatch(w) \/ Deliver(w)
             \/ SendSucceeds(w) \/ SendFails(w) \/ GetRecord(w)
             \/ LockTimeout(w) \/ Crash(w)
      PROVE  /\ row' = row /\ alerts' = alerts
             /\ \A v \in Workers : pc'[v] = "alert" => pc[v] = "alert" /\ msg'[v] = msg[v]
  BY <1>3
  DEF Start, ClaimPending, PollEmpty, EndBatch, AfterBatch, Deliver, SendSucceeds,
      SendFails, GetRecord, LockTimeout, Crash, Die
<1> QED BY <1>1, <1>2, <1>3 DEF Next, Step

(* A commit gives up a pending row once, and an alert is given once.       *)
LEMMA GivingUpStep ==
    ASSUME ExclusiveInv, GivingUpInv, [Next]_vars
    PROVE  AlertsDue' /\ GivesUpOnce'
<1> USE DEF ExclusiveInv, GivingUpInv, TypeOK
<1>1. CASE \A w \in Workers : ~Commit(w) /\ ~DeadLetter(w)
  <2>1. AlertsDue'
    <3> SUFFICES ASSUME NEW v \in Workers, pc'[v] = "alert"
                 PROVE  /\ row'[msg'[v].id].status = "failed" /\ alerts'[msg'[v].id] = 0
                        /\ \A u \in Workers :
                              pc'[u] = "alert" /\ u # v => msg'[u].id # msg'[v].id
      BY DEF AlertsDue
    <3>1. /\ pc[v] = "alert" /\ msg'[v] = msg[v] /\ alerts' = alerts
          /\ msg[v].id \in Messages
      BY <1>1, AlertsFrame DEF Delivering, Snapshot
    <3>2. row[msg[v].id].status = "failed" /\ row'[msg[v].id] = row[msg[v].id]
      BY <1>1, <3>1, AlertsFrame DEF AlertsDue, Absent
    <3>3. \A u \in Workers : pc'[u] = "alert" => pc[u] = "alert" /\ msg'[u] = msg[u]
      BY <1>1, AlertsFrame
    <3> QED BY <3>1, <3>2, <3>3 DEF AlertsDue
  <2>2. GivesUpOnce'
    <3>1. /\ \A m \in Messages : row[m] # Absent => row'[m] = row[m]
          /\ \A m \in Messages : row[m] = Absent => row'[m].status # "failed"
          /\ alerts' = alerts
      BY <1>1, AlertsFrame
    <3>2. ASSUME NEW m \in Messages
          PROVE  /\ row'[m].status = "failed" => row[m] = row'[m]
                 /\ row[m].status = "failed" => row'[m] = row[m]
      BY <3>1 DEF Absent
    <3> QED BY <3>1, <3>2 DEF GivesUpOnce
  <2> QED BY <2>1, <2>2
<1>2. ASSUME NEW w \in Workers, Commit(w) PROVE AlertsDue' /\ GivesUpOnce'
  <2> DEFINE m == msg[w].id
  <2>1. /\ m \in Messages /\ row[m].status = "pending"
        /\ row' = [row EXCEPT ![m] = mark[w]]
    BY <1>2, CommitRecords
  <2>2. alerts' = alerts /\ alerts[m] = 0
    <3> HIDE DEF m
    <3>1. alerts' = alerts
      BY <1>2 DEF Commit
    <3>2. alerts[m] \in Nat /\ alerts[m] <= 1 /\ alerts[m] # 1
      BY <2>1 DEF GivesUpOnce
    <3> QED BY <3>1, <3>2
  <2>3. mark[w].status = "failed" => /\ mark[w].error # NoError
                                     /\ limit[w] \in Limits /\ mark[w].attempts >= limit[w]
    BY <1>2 DEF MarksCounted, MarkCounted, Commit
  <2>4. GivesUpOnce'
    <3> SUFFICES ASSUME NEW n \in Messages
                 PROVE  /\ row'[n].status = "failed" =>
                            row'[n].error # NoError /\ \E l \in Limits : row'[n].attempts >= l
                        /\ alerts'[n] <= 1 /\ (alerts'[n] = 1 => row'[n].status = "failed")
      BY DEF GivesUpOnce
    <3>1. CASE n = m
      BY <2>1, <2>2, <2>3, <3>1
    <3>2. CASE n # m
      BY <2>1, <2>2, <3>2 DEF GivesUpOnce
    <3> QED BY <3>1, <3>2
  <2>5. \A v \in Workers : v # w /\ pc'[v] = "alert" =>
            /\ pc[v] = "alert" /\ msg'[v] = msg[v] /\ msg[v].id # m
    BY <1>2, <2>1 DEF Commit, AlertsDue
  <2>6. pc'[w] = "alert" => msg'[w].id = m /\ mark[w].status = "failed"
    BY <1>2 DEF Commit, MustAlert
  <2>7. AlertsDue'
    <3> SUFFICES ASSUME NEW v \in Workers, pc'[v] = "alert"
                 PROVE  /\ row'[msg'[v].id].status = "failed" /\ alerts'[msg'[v].id] = 0
                        /\ \A u \in Workers :
                              pc'[u] = "alert" /\ u # v => msg'[u].id # msg'[v].id
      BY DEF AlertsDue
    <3> HIDE DEF m
    <3>1. CASE v = w
      BY <2>1, <2>2, <2>5, <2>6, <3>1
    <3>2. CASE v # w
      BY <2>1, <2>2, <2>5, <2>6, <3>2 DEF AlertsDue
    <3> QED BY <3>1, <3>2
  <2> QED BY <2>4, <2>7
<1>3. ASSUME NEW w \in Workers, DeadLetter(w) PROVE AlertsDue' /\ GivesUpOnce'
  <2> DEFINE m == msg[w].id
  <2>1. /\ m \in Messages /\ row[m].status = "failed" /\ alerts[m] = 0 /\ row' = row
        /\ alerts' = [alerts EXCEPT ![m] = Counted(@)]
    BY <1>3 DEF DeadLetter, AlertsDue, Delivering, Snapshot
  <2>2. Counted(0) <= 1
    BY BoundsAssumption DEF Counted
  <2>3. GivesUpOnce'
    BY <2>1, <2>2 DEF GivesUpOnce
  <2>4. \A v \in Workers : pc'[v] = "alert" =>
            /\ v # w /\ pc[v] = "alert" /\ msg'[v] = msg[v] /\ msg[v].id # m
    BY <1>3 DEF DeadLetter, AlertsDue
  <2>5. AlertsDue'
    BY <2>1, <2>4 DEF AlertsDue
  <2> QED BY <2>3, <2>5
<1> QED BY <1>1, <1>2, <1>3

(* A message is given up after the budget of some deployment, with its     *)
(* error, and alerted of at most once and not before that, for every       *)
(* number of messages, of workers taking batches of one, and of crashes.   *)
THEOREM GivesUpAsPromised == ASSUME Exclusive PROVE Spec => []GivesUpOnce
<1>1. Init => GivingUpInv
  BY DEF Init, GivingUpInv, CopiesCurrent, CopyCurrent, MarksCounted, MarkCounted,
         AlertsDue, GivesUpOnce, Absent
<1>2. ExclusiveInv /\ GivingUpInv /\ [Next]_vars => GivingUpInv'
  BY CopiesCurrentStep, MarksCountedStep, GivingUpStep DEF GivingUpInv, ExclusiveInv
<1>3. GivingUpInv => GivesUpOnce
  BY DEF GivingUpInv
<1>4. Spec => []ExclusiveInv
  BY ExclusiveInductive
<1> QED BY <1>1, <1>2, <1>3, <1>4, PTL DEF Spec

(* With exclusive claims no worker waits for the lock of another.          *)
LEMMA NobodyWaits ==
    ASSUME ExclusiveInv, Exclusive, NEW w \in Workers PROVE ~Waits(w)
<1> SUFFICES ASSUME Waits(w) PROVE FALSE
  OBVIOUS
<1>1. /\ msg[w].id \in InHand(w) /\ msg[w].id \in Messages
      /\ lock[msg[w].id] \in Workers /\ lock[msg[w].id] # w
  BY InHandIsMessages DEF ExclusiveInv, TypeOK, Waits, LockedByOther, InHand
<1> QED BY <1>1 DEF Exclusive, ExclusiveInv, SinglesLocked, LockedSingle

(* A transport call that is not recorded yet has the message in hand, so   *)
(* there is at most one of them.                                           *)
LEMMA OneCallInFlight ==
    ASSUME ExclusiveInv, NEW m \in Messages, NEW v \in Workers, m \in InHand(v)
    PROVE  Unrecorded(m) \subseteq {v}
  BY DEF Unrecorded, ExclusiveInv, NoSharedClaim, InHand

(* Only a call, a commit and a death change what is left to record.        *)
LEMMA UnrecordedFrame ==
    ASSUME TypeOK, NEW m \in Messages, NEW w \in Workers,
           \/ Start(w) \/ ClaimPending(w) \/ PollEmpty(w) \/ EndBatch(w) \/ Deliver(w)
           \/ GetRecord(w) \/ DeadLetter(w)
    PROVE  /\ Unrecorded(m)' = Unrecorded(m)
           /\ UNCHANGED <<row, sends, crashes>>
<1> USE DEF TypeOK
<1>1. UNCHANGED <<row, sends, crashes>>
  BY DEF Start, ClaimPending, PollEmpty, EndBatch, Deliver, GetRecord, DeadLetter
<1>2. \A v \in Workers \ {w} : pc'[v] = pc[v] /\ msg'[v] = msg[v] /\ mark'[v] = mark[v]
  BY DEF Start, ClaimPending, PollEmpty, EndBatch, Deliver, GetRecord, DeadLetter
<1>3. w \in Unrecorded(m)' <=> w \in Unrecorded(m)
  <2>1. CASE Deliver(w)
    <3>1. PICK s \in batch[w] : Deliver(w)!2!(s)
      BY <2>1 DEF Deliver
    <3>2. s.attempts \in Nat /\ msg'[w] = s /\ pc[w] = "next"
      BY <2>1, <3>1 DEF Deliver, Snapshot
    <3>3. pc'[w] = "mark" => mark'[w].attempts = s.attempts
      BY <3>1
    <3>4. pc'[w] \in {"mark", "send"}
      BY <3>1
    <3> QED BY <3>2, <3>3, <3>4 DEF Unrecorded
  <2>2. CASE ~Deliver(w)
    BY <2>2
    DEF Unrecorded, Start, ClaimPending, PollEmpty, EndBatch, AfterBatch, GetRecord, DeadLetter
  <2> QED BY <2>1, <2>2
<1> QED BY <1>1, <1>2, <1>3 DEF Unrecorded

(* A call of the transport is counted, and left to record.                 *)
LEMMA SendIsCounted ==
    ASSUME ExclusiveInv, CopiesCurrent, SendsCounted, CountersSuffice,
           NEW w \in Workers, SendSucceeds(w) \/ SendFails(w), NEW m \in Messages
    PROVE  /\ row'[m] = row[m] /\ crashes' = crashes
           /\ sends'[m] - Recording(m)' = sends[m] - Recording(m)
<1> USE DEF ExclusiveInv, TypeOK
<1> DEFINE n == msg[w].id
<1>1. /\ n \in InHand(w) /\ n \in Messages /\ pc[w] = "send" /\ pc'[w] = "mark"
      /\ msg' = msg /\ row' = row /\ crashes' = crashes
      /\ sends' = [sends EXCEPT ![n] = Counted(@)]
      /\ mark'[w].attempts = msg[w].attempts + 1
  BY InHandIsMessages DEF SendSucceeds, SendFails, InHand
<1>2. \A v \in Workers \ {w} : pc'[v] = pc[v] /\ mark'[v] = mark[v]
  BY DEF SendSucceeds, SendFails
<1>3. msg[w].attempts \in Nat /\ limit[w] \in Limits /\ limit[w] \in Nat
        /\ MaxCrashes \in Nat /\ MaxCount \in Nat
  BY <1>1, LimitsAssumption, BoundsAssumption DEF Delivering, Snapshot
<1> HIDE DEF n
<1>4. CASE m = n
  <2>1. Unrecorded(m) = {}
    BY <1>1, <1>4, OneCallInFlight DEF Unrecorded
  <2>2. Unrecorded(m)' # {}
    BY <1>1, <1>3, <1>4 DEF Unrecorded, n
  <2>3. row[m].attempts = msg[w].attempts /\ msg[w].attempts < limit[w]
    <3>1. row[m].attempts = msg[w].attempts /\ ~Exhausted(w, msg[w])
      BY <1>1, <1>4 DEF CopiesCurrent, CopyCurrent, n
    <3> QED BY <1>3, <3>1 DEF Exhausted
  <2>4. sends[m] <= row[m].attempts + 0 + crashes /\ crashes <= MaxCrashes
    BY <2>1 DEF SendsCounted, Recording
  <2>5. limit[w] + MaxCrashes <= MaxCount
    BY <1>3 DEF CountersSuffice
  <2>6. sends[m] < MaxCount
    BY <1>3, <2>3, <2>4, <2>5
  <2>7. sends'[m] = sends[m] + 1
    BY <1>1, <1>4, <2>6 DEF Counted
  <2> QED BY <1>1, <2>1, <2>2, <2>7 DEF Recording
<1>5. CASE m # n
  <2>1. Unrecorded(m)' = Unrecorded(m)
    BY <1>1, <1>2, <1>5 DEF Unrecorded, n
  <2> QED BY <1>1, <1>5, <2>1 DEF Recording
<1> QED BY <1>4, <1>5

(* A commit records what its worker left to record.                        *)
LEMMA CommitIsCounted ==
    ASSUME ExclusiveInv, CopiesCurrent, MarksCounted, NEW w \in Workers, Commit(w),
           NEW m \in Messages
    PROVE  /\ UNCHANGED <<sends, crashes>>
           /\ row'[m].attempts + Recording(m)' = row[m].attempts + Recording(m)
<1> USE DEF ExclusiveInv, TypeOK
<1> DEFINE n == msg[w].id
<1>1. n \in Messages /\ row' = [row EXCEPT ![n] = mark[w]] /\ n \in InHand(w)
  BY CommitRecords, CommitLetsGo
<1>2. /\ UNCHANGED <<sends, crashes>> /\ pc[w] = "flush" /\ pc'[w] \in {"next", "alert"}
      /\ \A v \in Workers \ {w} : pc'[v] = pc[v] /\ msg'[v] = msg[v] /\ mark'[v] = mark[v]
  BY DEF Commit
<1>3. /\ row[n].attempts = msg[w].attempts /\ msg[w].attempts \in Nat
      /\ mark[w].attempts \in {msg[w].attempts, msg[w].attempts + 1}
  BY <1>2 DEF CopiesCurrent, CopyCurrent, MarksCounted, MarkCounted, Delivering, Snapshot
<1>4. Unrecorded(m)' = Unrecorded(m) \ {w}
  BY <1>2 DEF Unrecorded
<1> HIDE DEF n
<1>5. CASE m = n
  <2>1. Unrecorded(m) \subseteq {w} /\ Unrecorded(m)' = {}
    BY <1>1, <1>4, <1>5, OneCallInFlight
  <2>2. w \in Unrecorded(m) <=> mark[w].attempts = msg[w].attempts + 1
    BY <1>2, <1>3, <1>5 DEF Unrecorded, n
  <2>3. Recording(m) = mark[w].attempts - row[m].attempts
    BY <1>3, <1>5, <2>1, <2>2 DEF Recording
  <2>4. Recording(m)' = 0 /\ row'[m].attempts = mark[w].attempts
    BY <1>1, <1>5, <2>1 DEF Recording
  <2> QED BY <1>2, <1>3, <1>5, <2>3, <2>4
<1>6. CASE m # n
  <2>1. w \notin Unrecorded(m)
    BY <1>6 DEF Unrecorded, n
  <2> QED BY <1>1, <1>2, <1>4, <1>6, <2>1 DEF Recording
<1> QED BY <1>5, <1>6

(* A killed process takes at most one unrecorded call of a message along.  *)
LEMMA CrashIsCounted ==
    ASSUME TypeOK, NEW w \in Workers, Crash(w), NEW m \in Messages
    PROVE  /\ UNCHANGED <<row, sends>> /\ crashes' = crashes + 1 /\ crashes' <= MaxCrashes
           /\ Recording(m)' <= Recording(m) /\ Recording(m) <= Recording(m)' + 1
<1>1. UNCHANGED <<row, sends>> /\ crashes' = crashes + 1 /\ crashes' <= MaxCrashes
  BY BoundsAssumption DEF Crash, Die, TypeOK
<1>2. Unrecorded(m)' \subseteq Unrecorded(m)
  BY DEF Crash, Die, TypeOK, Unrecorded
<1> QED BY <1>1, <1>2 DEF Recording

(* Every step keeps the books: calls are the attempts recorded, the one in *)
(* flight, and at most one per killed process.                             *)
LEMMA SendsCountedStep ==
    ASSUME Exclusive, CountersSuffice, ExclusiveInv, CopiesCurrent, MarksCounted,
           SendsCounted, [Next]_vars
    PROVE  SendsCounted'
<1> USE DEF ExclusiveInv
<1>t. /\ crashes \in Nat /\ sends \in [Messages -> Nat]
      /\ \A m \in Messages : row[m].attempts \in Nat /\ Recording(m) \in Nat
  BY DEF TypeOK, Row, Recording
<1>u. /\ crashes' \in Nat /\ sends' \in [Messages -> Nat]
      /\ \A m \in Messages : row'[m].attempts \in Nat /\ Recording(m)' \in Nat
  BY NextTypeOK DEF TypeOK, Row, Recording
<1>0. ASSUME UNCHANGED vars PROVE SendsCounted'
  BY <1>0 DEF SendsCounted, Recording, Unrecorded
<1>1. ASSUME NEW n \in Messages, Enqueue(n) PROVE SendsCounted'
  <2>1. /\ UNCHANGED <<sends, crashes, pc, msg, mark>>
        /\ \A m \in Messages : row'[m].attempts = row[m].attempts
    BY <1>1 DEF Enqueue, Absent, TypeOK
  <2>2. \A m \in Messages : Recording(m)' = Recording(m)
    BY <2>1 DEF Recording, Unrecorded
  <2> QED BY <2>1, <2>2 DEF SendsCounted
<1>2. ASSUME NEW w \in Workers,
             \/ Start(w) \/ ClaimPending(w) \/ PollEmpty(w) \/ EndBatch(w) \/ Deliver(w)
             \/ GetRecord(w) \/ DeadLetter(w)
      PROVE  SendsCounted'
  <2>1. ASSUME NEW m \in Messages
        PROVE  Recording(m)' = Recording(m) /\ UNCHANGED <<row, sends>>
    BY <1>2, UnrecordedFrame DEF Recording
  <2>2. crashes' = crashes
    BY <1>2 DEF Start, ClaimPending, PollEmpty, EndBatch, Deliver, GetRecord, DeadLetter
  <2> QED BY <2>1, <2>2 DEF SendsCounted
<1>3. ASSUME NEW w \in Workers, SendSucceeds(w) \/ SendFails(w) PROVE SendsCounted'
  <2>1. \A m \in Messages : /\ row'[m] = row[m]
                            /\ sends'[m] - Recording(m)' = sends[m] - Recording(m)
    BY <1>3, SendIsCounted
  <2>2. crashes' = crashes
    BY <1>3 DEF SendSucceeds, SendFails
  <2> QED BY <1>t, <1>u, <2>1, <2>2 DEF SendsCounted
<1>4. ASSUME NEW w \in Workers, Commit(w) PROVE SendsCounted'
  <2>1. \A m \in Messages : row'[m].attempts + Recording(m)' = row[m].attempts + Recording(m)
    BY <1>4, CommitIsCounted
  <2>2. UNCHANGED <<sends, crashes>>
    BY <1>4 DEF Commit
  <2> QED BY <1>t, <1>u, <2>1, <2>2 DEF SendsCounted
<1>5. ASSUME NEW w \in Workers, Crash(w) PROVE SendsCounted'
  <2>1. \A m \in Messages : /\ UNCHANGED <<row, sends>>
                            /\ Recording(m)' <= Recording(m) /\ Recording(m) <= Recording(m)' + 1
    BY <1>5, CrashIsCounted
  <2>2. crashes' = crashes + 1 /\ crashes' <= MaxCrashes
    BY <1>5, BoundsAssumption DEF Crash, TypeOK
  <2> QED BY <1>t, <1>u, <2>1, <2>2 DEF SendsCounted
<1>6. \A w \in Workers : ~LockTimeout(w)
  BY NobodyWaits DEF LockTimeout
<1> QED BY <1>0, <1>1, <1>2, <1>3, <1>4, <1>5, <1>6 DEF Next, Step

(* The attempts column accounts for every transport call, for every number *)
(* of messages, of workers taking batches of one, of budgets and of killed *)
(* processes, as far as the model's counters count.                        *)
THEOREM SendsAreAccounted ==
    ASSUME Exclusive, CountersSuffice PROVE Spec => []AttemptsAccountForSends
<1> DEFINE I == ExclusiveInv /\ CopiesCurrent /\ MarksCounted /\ SendsCounted
<1>1. Init => CopiesCurrent /\ MarksCounted /\ SendsCounted
  BY BoundsAssumption
  DEF Init, CopiesCurrent, CopyCurrent, MarksCounted, MarkCounted, SendsCounted, Recording,
      Unrecorded, Absent
<1>2. I /\ [Next]_vars => CopiesCurrent' /\ MarksCounted' /\ SendsCounted'
  BY CopiesCurrentStep, MarksCountedStep, SendsCountedStep DEF ExclusiveInv
<1>3. I => AttemptsAccountForSends
  <2> SUFFICES ASSUME I, NEW m \in Messages
               PROVE  /\ sends[m] <= row[m].attempts + crashes + Cardinality(Unrecorded(m))
                      /\ row[m].attempts <= sends[m]
    BY DEF AttemptsAccountForSends, ExclusiveInv
  <2>1. Cardinality(Unrecorded(m)) = Recording(m)
    <3>1. CASE Unrecorded(m) = {}
      BY <3>1, FS_EmptySet DEF Recording
    <3>2. CASE Unrecorded(m) # {}
      <4>1. PICK v \in Unrecorded(m) : TRUE
        BY <3>2
      <4>2. v \in Workers /\ m \in InHand(v)
        BY <4>1 DEF Unrecorded, InHand
      <4>3. Unrecorded(m) = {v}
        BY <4>1, <4>2, OneCallInFlight
      <4> QED BY <3>2, <4>3, FS_Singleton DEF Recording
    <3> QED BY <3>1, <3>2
  <2>2. row[m].attempts \in Nat /\ sends[m] \in Nat /\ crashes \in Nat
    BY DEF ExclusiveInv, TypeOK, Row
  <2> QED BY <2>1, <2>2 DEF SendsCounted, Recording
<1>4. Spec => []ExclusiveInv
  BY ExclusiveInductive
<1> QED BY <1>1, <1>2, <1>3, <1>4, PTL DEF Spec
=============================================================================
