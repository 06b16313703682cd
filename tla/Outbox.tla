------------------------------- MODULE Outbox -------------------------------
(***************************************************************************)
(* The transactional outbox and the processes that drain it:               *)
(* app/repositories/outbox.py, app/services/outbox_worker.py and           *)
(* app/worker.py.                                                          *)
(*                                                                         *)
(* outbox_messages is a PostgreSQL table read and written at READ          *)
(* COMMITTED.  A worker claims a batch with SELECT ... FOR UPDATE SKIP     *)
(* LOCKED, delivers the messages one after the other, and COMMITS AFTER    *)
(* EACH ONE.  A commit ends the transaction of the claim, so it releases   *)
(* the row locks of the messages of the batch still to be delivered; the   *)
(* snapshots of those messages stay in the worker's list.                  *)
(*                                                                         *)
(* A worker either is supervised (the Compose service, which loops and is  *)
(* restarted) or is a manual drain (python -m app.worker --once, one batch *)
(* and exit); both may run at the same time.                               *)
(***************************************************************************)
EXTENDS Naturals, FiniteSets

CONSTANTS
    Messages,     \* ids of the outbox rows; the claim is ordered by id
    Workers,      \* worker processes
    Supervised,   \* the workers that loop and are restarted
    NoWorker,     \* "no transaction holds this row lock"
    Limits,       \* the values OUTBOX_MAX_ATTEMPTS takes over the deployments
    BatchSize,    \* OUTBOX_BATCH_SIZE
    Failures,     \* the error texts the transport can raise
    NoError,      \* last_error is NULL
    BudgetSpent,  \* the text "attempts exhausted"
    MaxCrashes,   \* bound: how often a process may be killed
    MaxCount      \* bound: the history counters stop counting here

ASSUME MessagesAssumption == Messages \subseteq Nat \ {0} /\ IsFiniteSet(Messages)
ASSUME WorkersAssumption == Supervised \subseteq Workers /\ NoWorker \notin Workers
ASSUME LimitsAssumption == Limits \subseteq Nat \ {0} /\ Limits # {}
ASSUME ErrorsAssumption ==
    Failures # {} /\ NoError \notin Failures \cup {BudgetSpent}
ASSUME BoundsAssumption ==
    BatchSize \in Nat \ {0} /\ MaxCrashes \in Nat /\ MaxCount \in Nat

VARIABLES
    row,      \* the committed table: row[m] of message m
    lock,     \* lock[m]: the worker whose open transaction locks row m
    pc,       \* where each worker is
    limit,    \* max_attempts of each worker process
    batch,    \* the claimed messages a worker has not started on
    msg,      \* the message a worker is delivering
    mark,     \* the column values mark_sent / mark_failed assign
    loaded,   \* the column values session.get read before the assignment
    sends,    \* history: transport.send calls per message
    reached,  \* history: messages the receiver has processed at least once
    alerts,   \* history: dead_letter alerts per message
    crashes   \* history: processes killed so far

rowVars == <<row, lock>>
localVars == <<pc, limit, batch, msg, mark, loaded>>
history == <<sends, reached, alerts, crashes>>
vars == <<rowVars, localVars, history>>
-----------------------------------------------------------------------------
Status == {"absent", "pending", "sent", "failed"}
Settled == {"sent", "failed"}
Error == Failures \cup {NoError, BudgetSpent}
Row == [status: Status, attempts: Nat, error: Error]
Absent == [status |-> "absent", attempts |-> 0, error |-> NoError]

(* What claim_pending returns: frozen copies, OutboxMessage.               *)
Snapshot == [id: Messages, attempts: Nat, error: Error]
NoMsg == [id |-> 0, attempts |-> 0, error |-> NoError]

Place == {"stopped", "idle", "next", "send", "mark", "flush", "alert"}
Delivering == {"send", "mark", "flush", "alert"}

TypeOK ==
    /\ row \in [Messages -> Row]
    /\ lock \in [Messages -> Workers \cup {NoWorker}]
    /\ pc \in [Workers -> Place]
    /\ limit \in [Workers -> Limits]
    /\ batch \in [Workers -> SUBSET Snapshot]
    /\ msg \in [Workers -> Snapshot \cup {NoMsg}]
    /\ \A w \in Workers : pc[w] \in Delivering => msg[w] # NoMsg
    /\ mark \in [Workers -> Row]
    /\ loaded \in [Workers -> Row]
    /\ sends \in [Messages -> Nat]
    /\ reached \subseteq Messages
    /\ alerts \in [Messages -> Nat]
    /\ crashes \in Nat

Init ==
    /\ row = [m \in Messages |-> Absent]
    /\ lock = [m \in Messages |-> NoWorker]
    /\ pc = [w \in Workers |-> "stopped"]
    /\ limit \in [Workers -> Limits]
    /\ batch = [w \in Workers |-> {}]
    /\ msg = [w \in Workers |-> NoMsg]
    /\ mark = [w \in Workers |-> Absent]
    /\ loaded = [w \in Workers |-> Absent]
    /\ sends = [m \in Messages |-> 0]
    /\ reached = {}
    /\ alerts = [m \in Messages |-> 0]
    /\ crashes = 0
-----------------------------------------------------------------------------
(* A request commits its submission together with a new pending row.  Ids  *)
(* come from a sequence and commits are unordered, so any id may appear.   *)
Enqueue(m) ==
    /\ row[m] = Absent
    /\ row' = [row EXCEPT ![m] = [Absent EXCEPT !.status = "pending"]]
    /\ UNCHANGED <<lock, localVars, history>>

(* The process starts and reads its settings.                              *)
Start(w) ==
    /\ pc[w] = "stopped"
    /\ \E l \in Limits : limit' = [limit EXCEPT ![w] = l]
    /\ pc' = [pc EXCEPT ![w] = "idle"]
    /\ UNCHANGED <<rowVars, batch, msg, mark, loaded, history>>

(* WHERE status = pending ORDER BY id LIMIT n FOR UPDATE SKIP LOCKED.      *)
Claimable_NoSkipLocked == {m \in Messages : row[m].status = "pending"}
Claimable == {m \in Messages : row[m].status = "pending" /\ lock[m] = NoWorker}
ClaimedIds == {m \in Claimable : Cardinality({n \in Claimable : n < m}) < BatchSize}

ClaimPending(w) ==
    /\ pc[w] = "idle"
    /\ ClaimedIds # {}
    /\ lock' = [m \in Messages |-> IF m \in ClaimedIds THEN w ELSE lock[m]]
    /\ batch' = [batch EXCEPT ![w] =
                    {[id |-> m, attempts |-> row[m].attempts,
                      error |-> row[m].error] : m \in ClaimedIds}]
    /\ pc' = [pc EXCEPT ![w] = "next"]
    /\ UNCHANGED <<row, limit, msg, mark, loaded, history>>

(* After a batch the supervised worker sleeps and polls; --once returns.   *)
AfterBatch(w) == IF w \in Supervised THEN "idle" ELSE "stopped"

PollEmpty(w) ==
    /\ pc[w] = "idle"
    /\ ClaimedIds = {}
    /\ pc' = [pc EXCEPT ![w] = AfterBatch(w)]
    /\ UNCHANGED <<rowVars, limit, batch, msg, mark, loaded, history>>

EndBatch(w) ==
    /\ pc[w] = "next"
    /\ batch[w] = {}
    /\ pc' = [pc EXCEPT ![w] = AfterBatch(w)]
    /\ UNCHANGED <<rowVars, limit, batch, msg, mark, loaded, history>>

(* _deliver: the messages of the batch in id order.  A message whose       *)
(* snapshot already used the budget goes to _mark_exhausted, unsent.       *)
Exhausted(w, s) == s.attempts >= limit[w]
KeptError(s) == IF s.error = NoError THEN BudgetSpent ELSE s.error

Deliver(w) ==
    /\ pc[w] = "next"
    /\ \E s \in batch[w] :
        /\ \A t \in batch[w] : s.id <= t.id
        /\ msg' = [msg EXCEPT ![w] = s]
        /\ batch' = [batch EXCEPT ![w] = @ \ {s}]
        /\ \/ /\ Exhausted(w, s)
              /\ mark' = [mark EXCEPT ![w] =
                    [status |-> "failed", attempts |-> s.attempts,
                     error |-> KeptError(s)]]
              /\ pc' = [pc EXCEPT ![w] = "mark"]
           \/ /\ ~Exhausted(w, s)
              /\ pc' = [pc EXCEPT ![w] = "send"]
              /\ UNCHANGED mark
    /\ UNCHANGED <<rowVars, limit, loaded, history>>

(* A history counter goes up, and stops at MaxCount.                       *)
Counted(n) == IF n < MaxCount THEN n + 1 ELSE n

(* transport.send returns: the receiver answered 2xx.                      *)
SendSucceeds(w) ==
    LET m == msg[w].id IN
    /\ pc[w] = "send"
    /\ sends' = [sends EXCEPT ![m] = Counted(@)]
    /\ reached' = reached \cup {m}
    /\ mark' = [mark EXCEPT ![w] =
            [status |-> "sent", attempts |-> msg[w].attempts + 1,
             error |-> NoError]]
    /\ pc' = [pc EXCEPT ![w] = "mark"]
    /\ UNCHANGED <<rowVars, limit, batch, msg, loaded, alerts, crashes>>

(* The status _record_failure passes on to mark_failed.                    *)
StatusAfterFailure_Swallowed(w, attempts) == "sent"
StatusAfterFailure(w, attempts) ==
    IF attempts >= limit[w] THEN "failed" ELSE "pending"

(* transport.send raises: refused, a non-2xx answer or a timeout.  The     *)
(* receiver may have processed the message all the same.                   *)
SendFails(w) ==
    LET m == msg[w].id
        attempts == msg[w].attempts + 1
    IN
    /\ pc[w] = "send"
    /\ sends' = [sends EXCEPT ![m] = Counted(@)]
    /\ \/ reached' = reached \cup {m}
       \/ UNCHANGED reached
    /\ \E e \in Failures :
            mark' = [mark EXCEPT ![w] =
                        [status |-> StatusAfterFailure(w, attempts),
                         attempts |-> attempts, error |-> e]]
    /\ pc' = [pc EXCEPT ![w] = "mark"]
    /\ UNCHANGED <<rowVars, limit, batch, msg, loaded, alerts, crashes>>

(* session.get(OutboxMessageRecord, id): a plain SELECT, no lock.          *)
GetRecord(w) ==
    /\ pc[w] = "mark"
    /\ loaded' = [loaded EXCEPT ![w] = row[msg[w].id]]
    /\ pc' = [pc EXCEPT ![w] = "flush"]
    /\ UNCHANGED <<rowVars, limit, batch, msg, mark, history>>

(* The unit of work issues an UPDATE of the columns whose assigned value   *)
(* differs from the value loaded, and no UPDATE when none differs.         *)
Updated_LostCount(current, base, new) ==
    [new EXCEPT !.attempts = current.attempts]
Updated_Incremented(current, base, new) ==
    [new EXCEPT !.attempts = current.attempts + 1]
Updated(current, base, new) ==
    [status |-> IF new.status # base.status THEN new.status ELSE current.status,
     attempts |-> IF new.attempts # base.attempts
                  THEN new.attempts ELSE current.attempts,
     error |-> IF new.error # base.error THEN new.error ELSE current.error]

LockedByOther_OwnClaim(w, m) == lock[m] # NoWorker
LockedByOther(w, m) == lock[m] \notin {w, NoWorker}
Waits(w) ==
    pc[w] = "flush" /\ loaded[w] # mark[w] /\ LockedByOther(w, msg[w].id)

Released(w) == [m \in Messages |-> IF lock[m] = w THEN NoWorker ELSE lock[m]]

(* _record_failure alerts after an exhausting failure; _mark_exhausted     *)
(* does not.                                                               *)
MustAlert_AnyFailure(w) == mark[w].error # NoError
MustAlert(w) == mark[w].status = "failed" /\ ~Exhausted(w, msg[w])

(* session.commit(): the UPDATE, which needs the row lock, and the commit, *)
(* which releases every row lock of the transaction.                       *)
Commit(w) ==
    LET m == msg[w].id IN
    /\ pc[w] = "flush"
    /\ ~Waits(w)
    /\ row' = [row EXCEPT ![m] = Updated(@, loaded[w], mark[w])]
    /\ lock' = Released(w)
    /\ pc' = [pc EXCEPT ![w] = IF MustAlert(w) THEN "alert" ELSE "next"]
    /\ msg' = [msg EXCEPT ![w] = IF MustAlert(w) THEN @ ELSE NoMsg]
    /\ mark' = [mark EXCEPT ![w] = Absent]
    /\ loaded' = [loaded EXCEPT ![w] = Absent]
    /\ UNCHANGED <<limit, batch, history>>

DeadLetter(w) ==
    /\ pc[w] = "alert"
    /\ alerts' = [alerts EXCEPT ![msg[w].id] = Counted(@)]
    /\ pc' = [pc EXCEPT ![w] = "next"]
    /\ msg' = [msg EXCEPT ![w] = NoMsg]
    /\ UNCHANGED <<rowVars, limit, batch, mark, loaded, sends, reached, crashes>>

(* The process is gone: its transaction rolls back, its memory is lost.    *)
Die(w) ==
    /\ lock' = Released(w)
    /\ pc' = [pc EXCEPT ![w] = "stopped"]
    /\ batch' = [batch EXCEPT ![w] = {}]
    /\ msg' = [msg EXCEPT ![w] = NoMsg]
    /\ mark' = [mark EXCEPT ![w] = Absent]
    /\ loaded' = [loaded EXCEPT ![w] = Absent]
    /\ UNCHANGED <<row, limit, sends, reached, alerts>>

(* The UPDATE waits for a lock that another worker holds while it sends    *)
(* (webhook timeout 3 s), hits statement_timeout (2 s), and the error      *)
(* leaves run_once and ends the process.                                   *)
LockTimeout(w) == Waits(w) /\ Die(w) /\ UNCHANGED crashes

(* Killed, or a database error anywhere outside transport.send.            *)
Crash(w) ==
    /\ pc[w] # "stopped"
    /\ crashes < MaxCrashes
    /\ crashes' = crashes + 1
    /\ Die(w)

(* What a live process does next; the transport's answer is part of it.    *)
Step(w) ==
    \/ ClaimPending(w) \/ PollEmpty(w) \/ EndBatch(w) \/ Deliver(w)
    \/ SendSucceeds(w) \/ SendFails(w) \/ GetRecord(w)
    \/ Commit(w) \/ LockTimeout(w) \/ DeadLetter(w)

Next ==
    \/ \E m \in Messages : Enqueue(m)
    \/ \E w \in Workers : Start(w) \/ Step(w) \/ Crash(w)

Spec == Init /\ [][Next]_vars

(* A live process keeps running (every wait in it has a timeout), and      *)
(* Compose restarts the supervised one.                                    *)
Fairness ==
    /\ \A w \in Workers : WF_vars(Step(w))
    /\ \A w \in Supervised : WF_vars(Start(w))

FairSpec == Spec /\ Fairness
-----------------------------------------------------------------------------
(* The ids of which a worker holds an undelivered or unrecorded snapshot.  *)
InHand(w) ==
    {s.id : s \in batch[w]}
        \cup (IF pc[w] \in {"send", "mark", "flush"} THEN {msg[w].id} ELSE {})

(* Two workers never hold the same message: the concurrent-claim proof in  *)
(* EVIDENCE.md, "no double delivery across workers".                       *)
NoSharedClaim == \A v, w \in Workers : v # w => InHand(v) \cap InHand(w) = {}

(* A row says "sent" only if the receiver has processed the message at     *)
(* least once, whatever the other workers wrote in between.                *)
SentWasDelivered == \A m \in Messages : row[m].status = "sent" => m \in reached

(* A settled row is final: no step of any worker changes a sent or failed  *)
(* row again.                                                              *)
SettledIsFinal ==
    [][\A m \in Messages : row[m].status \in Settled => row'[m] = row[m]]_vars

(* Workers that have called the transport for m and not recorded it yet.   *)
Unrecorded(m) ==
    {w \in Workers : pc[w] \in {"mark", "flush"} /\ msg[w].id = m
                                /\ mark[w].attempts > msg[w].attempts}

(* The attempts column accounts for every transport call: all but those of *)
(* killed processes and the one in flight are recorded, and nothing is     *)
(* recorded that was not sent.                                             *)
AttemptsAccountForSends ==
    /\ TypeOK
    /\ \A m \in Messages :
        /\ sends[m] <= row[m].attempts + crashes + Cardinality(Unrecorded(m))
        /\ row[m].attempts <= sends[m]

(* "terminal `failed` after `OUTBOX_MAX_ATTEMPTS`. Failed messages retain  *)
(* the last error and trigger the failure-alerter seam" (README 267): the  *)
(* budget of some deployment was spent, and no message is alerted of twice *)
(* or before it is recorded as failed.                                     *)
GivesUpOnce ==
    \A m \in Messages :
        /\ row[m].status = "failed" =>
            row[m].error # NoError /\ \E l \in Limits : row[m].attempts >= l
        /\ alerts[m] <= 1 /\ (alerts[m] = 1 => row[m].status = "failed")

(* A worker that waits for a row lock holds none itself, so the workers    *)
(* cannot deadlock in the database.                                        *)
NoHoldAndWait ==
    \A w \in Workers : Waits(w) => \A m \in Messages : lock[m] # w

(* Every failed row has triggered the alerter, or is about to.             *)
FailedRowsAlerted ==
    \A m \in Messages : row[m].status = "failed" =>
        alerts[m] > 0 \/ \E w \in Workers : pc[w] = "alert" /\ msg[w].id = m

(* The recorded attempts never exceed the largest budget ever deployed.    *)
AttemptsWithinBudget ==
    \A m \in Messages : \E l \in Limits : row[m].attempts <= l

(* Every pending message is eventually sent or given up.                   *)
EventuallySettled ==
    \A m \in Messages : row[m].status = "pending" ~> row[m].status \in Settled

(* The queue keeps the promise of NotificationDelivery.                    *)
Delivery == INSTANCE NotificationDelivery
                WITH status <- [m \in Messages |-> row[m].status]
DeliveryPromise == Delivery!Spec
-----------------------------------------------------------------------------
(* The strengthenings that make the invariants above inductive.            *)

(* A worker about to record "sent" has had the message reach the receiver, *)
(* and what it is about to record is a settled or a pending row.           *)
MarkEarned(w) ==
    /\ pc[w] \in {"mark", "flush"} => mark[w].status # "absent"
    /\ mark[w].status = "sent" =>
            pc[w] \in {"mark", "flush"} /\ msg[w].id \in reached
MarksAreEarned == \A w \in Workers : MarkEarned(w)

(* A worker that holds any row lock holds those of all it has in hand.     *)
AllOrNone ==
    \A w \in Workers : (\E m \in Messages : lock[m] = w) =>
        \A n \in InHand(w) : lock[n] = w

(* Every copy of an attempts column is within some deployed budget.        *)
Affordable(n) == \E l \in Limits : n <= l
CopyAffordable(w) ==
    /\ Affordable(mark[w].attempts)
    /\ \A s \in batch[w] \cup {msg[w]} : Affordable(s.attempts)
    /\ pc[w] = "send" => ~Exhausted(w, msg[w])
CopiesWithinBudget == \A w \in Workers : CopyAffordable(w)

(* One batch per transaction (OUTBOX_BATCH_SIZE = 1), or one worker.       *)
Exclusive == BatchSize = 1 \/ \A v, w \in Workers : v = w

(* Each message a worker has in hand it has there once, and it is pending. *)
HeldOnce(w) ==
    /\ \A s, t \in batch[w] : s.id = t.id => s = t
    /\ pc[w] \in {"send", "mark", "flush"} =>
            \A s \in batch[w] : s.id # msg[w].id
InHandOnce == \A w \in Workers : HeldOnce(w)
InHandPending ==
    \A w \in Workers : \A n \in InHand(w) : row[n].status = "pending"

(* With batches of one, the row in hand is locked until it is recorded.    *)
LockedSingle(w) ==
    /\ \A n \in InHand(w) : lock[n] = w
    /\ \A s, t \in batch[w] : s = t
    /\ pc[w] \in Delivering => batch[w] = {}
SinglesLocked == BatchSize = 1 => \A w \in Workers : LockedSingle(w)

ExclusiveInv ==
    TypeOK /\ MarksAreEarned /\ InHandOnce /\ InHandPending
        /\ SinglesLocked /\ NoSharedClaim

(* With exclusive claims a copy in hand has the attempts of its row, a     *)
(* message is sent within the budget, and what is loaded is the row.       *)
CopyCurrent(w) ==
    /\ \A s \in batch[w] : row[s.id].attempts = s.attempts
    /\ pc[w] \in {"send", "mark", "flush"} => row[msg[w].id].attempts = msg[w].attempts
    /\ pc[w] = "send" => ~Exhausted(w, msg[w])
    /\ pc[w] = "flush" => loaded[w] = row[msg[w].id]
CopiesCurrent == \A w \in Workers : CopyCurrent(w)

(* A worker is about to record the attempts it read or one more, and a     *)
(* failure with its error, on a spent budget.                              *)
MarkCounted(w) ==
    pc[w] \in {"mark", "flush"} =>
        /\ mark[w].attempts \in {msg[w].attempts, msg[w].attempts + 1}
        /\ mark[w].status = "failed" =>
              mark[w].error # NoError /\ mark[w].attempts >= limit[w]
MarksCounted == \A w \in Workers : MarkCounted(w)

(* An alert that is due is for a failed row that has had none, and no two  *)
(* workers are about to alert of the same row.                             *)
AlertsDue ==
    \A w \in Workers : pc[w] = "alert" =>
        /\ row[msg[w].id].status = "failed" /\ alerts[msg[w].id] = 0
        /\ \A v \in Workers : pc[v] = "alert" /\ v # w => msg[v].id # msg[w].id

GivingUpInv == CopiesCurrent /\ MarksCounted /\ AlertsDue /\ GivesUpOnce

(* The transport calls of a message: those recorded, the one in flight if  *)
(* any, and at most one for every killed process.                          *)
Recording(m) == IF Unrecorded(m) = {} THEN 0 ELSE 1
SendsCounted ==
    /\ crashes <= MaxCrashes
    /\ \A m \in Messages :
        /\ row[m].attempts + Recording(m) <= sends[m]
        /\ sends[m] <= row[m].attempts + Recording(m) + crashes

(* The history counters count as far as the messages can be sent.          *)
CountersSuffice == \A l \in Limits : l + MaxCrashes <= MaxCount
=============================================================================
