# EmbedLead in TLA+

EmbedLead lets the members of a tenant create lead-capture widgets, embeds
them on other sites, stores what visitors submit, and notifies the tenant by
webhook. This directory holds a model of its backend in TLA+, TLC
configurations that check small instances, and proofs about the core for every
value of the constants, checked by TLAPS. `PROJECT.json` maps each definition
to the lines of `src/` it stands for.

```
tlc -workers 2 -config Outbox.cfg Outbox.tla      # check a run
tlapm OutboxProofs.tla                            # check the proofs of a module
```

## 1. The system

**Processes.** Backend processes (uvicorn) serve HTTP. FastAPI runs a plain
function, whether route or dependency, in a thread of a pool, so requests to
one process overlap. Any number of backend processes, notification workers and
a one-off seed command share one PostgreSQL database and, optionally, one
Redis.

**Database.** READ COMMITTED: each statement sees what had been committed when
it began, reads take no lock, an UPDATE or DELETE waits for the row lock. A
request has one SQLAlchemy session; its connection is taken from a pool, and
`statement_timeout` ends a wait for a lock with an error. The unit of work
writes the columns whose value differs from the one loaded, by primary key
alone. Those two facts, and the commit in the middle of a worker's batch, are
where most of the hard behaviours come from.

| Component | State | Operations | Talks to |
|---|---|---|---|
| Public submission endpoint | `submissions` | limits, look up the widget, validate, geo, INSERT lead and intent, one COMMIT | limiters, widgets, outbox, geo |
| Notification outbox and workers | `outbox_messages` with its row locks; the batch in a worker's memory | enqueue, claim, deliver, record, exhaust, alert, restart | the endpoint (through the table), webhook |
| Rate limiters | sorted windows in Redis; an `OrderedDict` of lists in each process | `acquire` | every submission and login |
| Widget store | `widgets`, its id sequence | create, read, PATCH, delete (cascades to leads) | endpoint (foreign key), seed, embed |
| Dashboard | none, reads leads | pages, statistics | leads |
| Widget delivery | the browser's cached configuration | conditional GET | widgets |
| Body limit and geo chain | local to a request | count bytes, replace the answer; ask the providers in turn | the endpoint |
| Seed | demo rows, `setval` | seed, reset the sequence | widgets |
| Validation and spam control | none | a payload against the fields of the widget, the honeypot | endpoint, widget configuration |
| Embedded form | the form on a page, its button and status line | render, send, read the answer | endpoint, configuration |
| Connection pool, worker threads | idle connections and threads | check-out, wait, check-in | every request |
| Authentication, membership | users, memberships (read only) | log in, resolve the tenant | login limiter, every owner's request |
| Health, metrics, lifecycle | counters, probes | count, probe, start, stop | pool, Redis, every request |

**What is hard here, and what correctness means.**

* *Outbox.* A worker commits after every message of a batch, so the locks of
  the messages not yet delivered go with the first; workers are killed between
  the webhook call and the commit; a call that timed out may have arrived; the
  retry budget may change between deployments. Correct: nothing is recorded as
  sent that the receiver has not seen, outcomes are final, attempts account for
  the calls, alerts fire once, every message is settled, no deadlock.
* *Submission.* The tenant is read first and used after validation and network
  lookups, while owners delete widgets; the commit may succeed without the
  visitor learning it. Correct: lead and intent come together, with the owner
  of a widget that exists; what was accepted is durable; what was erased stays
  erased; every request is answered.
* *Limiters.* No lock in the process; a failing Redis may have counted the hit
  before the reply was lost; Redis and the process evict keys. Correct: a call
  that no other overlaps is held to the budget of its store, until the store
  forgets the key; one budget for all while Redis answers; a refusal is due to
  other traffic; the table is bounded.
* *Widgets.* Overlapping edits; checks at load and writes by id; a seed that
  rewinds the id sequence; copies in browsers. Correct: tenants touch their
  own rows only, edits do not undo each other, the next id is free, a form is
  out of date by less than max-age.
* *Dashboard.* Leads commit out of the order of their ids, and pages are
  separate snapshots; statistics are four statements. Correct: no lead twice,
  none skipped, counts that the table could have given, no endless paging.
* *Request path.* A body without a length, counted in pieces, and an answer
  replaced when it is too long; exceptions that pass two layers; providers that
  fail. Correct: one answer, counted as it was given, 413 exactly over the
  limit, the first provider that knows the address counts.
* *Form.* It was made from a configuration that may have changed; an answer gets
  lost and the visitor presses again; a widget field may have the name of the
  honeypot. Correct: only what the widget asks for is stored, form and server
  agree on what a good answer is, and no second lead without a lost answer.
* *Backend process.* Requests hold connections while they wait for threads and
  threads while they wait for connections; connections die with an outage and
  go back to the pool. Correct: everything ends, nothing leaks, an error has a
  cause while its request is open, an outage never reads as readiness.

`PROJECT.json` lists these as hazards, at the line where each bites, with the
properties that cover it or why none does.

## 2. Modules

| Module | What it is |
|---|---|
| `Outbox` | `repositories/outbox.py`, `services/outbox_worker.py`, `worker.py` |
| `NotificationDelivery` | what the queue promises; `Outbox` refines it |
| `OutboxProofs` | proofs about `Outbox` |
| `Submissions` | `routes/public_submissions.py` with its repositories, and the owner's create and delete of a widget |
| `LeadIntake` | what the endpoint promises; `Submissions` refines it |
| `SubmissionsProofs` | proofs about `Submissions` |
| `InProcessLimiter` | `core/rate_limit.py`, one dictionary or list operation per step |
| `InProcessLimiterProofs` | proofs about `InProcessLimiter` |
| `RateLimits`, `MCRateLimits` | `core/redis_rate_limit.py`, `rate_limit_dependencies.py`: submissions and logins over several processes |
| `RateLimitsProofs` | proofs about `RateLimits` |
| `LeadPages`, `Dashboard`, `MCDashboard` | `repositories/dashboard.py`: pages; pages and statistics |
| `DashboardProofs` | proofs about `LeadPages` and `Dashboard` |
| `WidgetStore`, `MCWidgetStore` | `repositories/widgets.py` and its routes, `seed.py`, `public_widgets.py` and the browser's copy |
| `WidgetStoreProofs` | proofs about `WidgetStore` |
| `SubmissionPayload` | `core/submission_payload.py`, `core/widget_config.py`, as operators |
| `SubmissionRequest` | one POST: `body_limit.py`, `request_context.py`, the answers of the route, `core/geo.py` |
| `EmbedForm`, `MCEmbedForm` | `static/widget-v2.js`: the form and its requests, over `SubmissionRequest` |
| `EmbedFormProofs` | proofs about `EmbedForm`, the request and the payload |
| `Backend` | `core/db.py`, `api/deps.py`, `services/health.py`, `api/lifecycle.py`, and the authentication of requests: one process with its threads and connections |
| `BackendProofs` | proofs about `Backend` |

### Outbox

`row` is the committed table and `lock` the row locks; the rest is the memory
of each worker process: `batch` (the frozen copies of its claim), `msg`, `mark`
(what `mark_sent`/`mark_failed` assign) and `loaded` (what `session.get` read).
One action per statement that other processes can come between:
`ClaimPending` (`FOR UPDATE SKIP LOCKED`), `Deliver` (the test of the budget),
`SendSucceeds`/`SendFails` (the webhook call), `GetRecord` (the unlocked
SELECT), `Commit` (UPDATE of the changed columns, COMMIT, release of all locks),
`DeadLetter`, and `LockTimeout`, `Crash`, `Start` for the process itself.
`Updated` is the unit of work: a column is written only if the assigned value
differs from the loaded one. A worker is supervised (loops, is restarted) or a
manual drain (`--once`).

### Submissions

One action per statement of `create_submission`; `draft` is the uncommitted
lead, `noticed` its intent under the savepoint. The foreign key check of an
INSERT and the DELETE of its widget wait for each other: `InsertLead` is not
enabled while `deleting`, and `BeginDelete` not while there are `Referrers`.
`ForeignKeyFails` is the INSERT that comes after the deletion, `CommitUnseen`
a COMMIT whose reply is lost, `Crash` the death of the backend with all it
serves. `CreateWidget` may give the id of a deleted widget again, to any tenant:
the seed inserts ids of its own and takes the sequence back. A request that read
the widget before then inserts a lead with the earlier tenant, which the foreign
key, on the id alone, lets through; `bereft` remembers whose widget was deleted
after they had read it. The id of a lead is never given back. `EnforceLimits` may
end the request with 429, or with 500 when the limiter raises.

### InProcessLimiter and RateLimits

`InProcessLimiter` follows `acquire` and `_discard_expired` operation by
operation, because CPython may switch threads between any two; the lists have
identities (`heap`), so that a thread may append to a list another has replaced.
A list is the set of its timestamps, numbered in the order in which calls were
admitted (`admitted` keeps them all): two calls at one moment are two entries,
and the oldest is the one with the least number. `overlapped` remembers that two
calls ran at once, `restored` that the pruning of one put back a key another had
taken out; what the limiter promises depends on both.

`RateLimits` models what processes and Redis add: the two scopes of a submission
in order, the scope of a login, failures before or after the effect of a call or
between its two commands, restarts that empty a store, and evictions by Redis,
which `compose.yaml` runs with `allkeys-lru`. The script in Redis is one step. A
call to the window of a process is four, between which others run: it reads the
clock (`EnterLocal`), tests (`TestLocal`), appends (`AppendLocal`) and evicts what
is over `max_keys` (`EvictLocal`). What overlapping calls do to the lists is left
to `InProcessLimiter`. Here the outcome is over-approximated: a hit of a call
that overlapped another (`overlapped`) may be seen or missed by any later test
(`Views`), such a call may evict what it should not, and may raise. Which of the
other keys an eviction takes is left open. An entry of a window is the request
and its moment. An entry of Redis that has stopped counting (`Recent`) goes with
the next charge; whether the script still keeps it, no later step can tell.

### LeadPages and Dashboard

`ListSubmissions` is one request: newest first, below the cursor, one more than
asked to know whether there is a next page. `Dashboard` adds the four statements
of the statistics, each a count per group (the total has one group), with history
variables for the rows that were there all the time and at any time. One behaviour follows pages or statistics: neither writes,
so neither affects the other.

### WidgetStore

Each of several threads is at one place of a request: after the INSERT,
after the load of a PATCH or DELETE, before the `refresh`. `next` is the id
sequence. The seed is two commits (`SeedWidgets`, `ResetSequence`) and may die
between them. `copy`, `age` are the browser's cache; `behind`, `late` measure
how far what a visitor sees is out of date. `sequence` records what the seed did
to the ids, because two properties hold only as long as it has not moved them
back. There are two demo widgets, so that one can go between the two commits.
A stored configuration that does not validate reads as the default.
The column `kind`, handled as `config` is, is left out.

### SubmissionPayload, SubmissionRequest and EmbedForm

A text is what the rules tell apart: its length, its length without the blanks
around it, whether it looks like an address. `SubmissionRequest` is one POST
through the body limit, the request context, the framework (external), the route
and the geo chain, whose providers are numbered in their order: `chain` is the
set of those still to be asked. `received`, `exceeded` and `responded` are the variables of
`__call__`; `wire` is what the server is sent; `code` and `observed` are the
status the request context keeps and counts. It has no specification of its own:
`EmbedForm` gives it a body, either that of a form, once for each press of the
button, or any body of another client. The form keeps the configuration it was
`rendered` from, while the stored `config` may be another at each press. A press
is taken up when the request before it has ended; requests that overlap are in
`Submissions`.

### Backend

`pc` says which function of a request runs, or what it waits for; `conn` is the
connection of its session, `free` and `stale` count the pool. A request of an
owner runs in two functions and waits for a thread before each. What a function
decides without the database is a choice, and so is what a row says. An outage
kills every connection, and those in the pool are found dead at the next
check-out (`Handed`). An exception comes from any of five places:
`LimiterRaises` (the limiter's `KeyError`), `PoolTimeout`, `ConnectFails` (the
database is down, or takes no more connections), `StatementFails` (the connection
is dead) and `StatementRefused`: the server is there and the statement fails, by
`statement_timeout`, a foreign key, an id that is taken, a row that another
request has deleted before the flush or the `refresh`, a value the column cannot
hold. `hindered` remembers which of the open requests met an outage or a crowd
larger than the pool, `faulted` which met a fault of their own, `reachable` which
probes were open while there was a database. When a statement is refused is a
choice here; `Submissions` and `WidgetStore` say when for the foreign key, the
taken id and the deleted row, and have the details of a transaction, such as a
commit whose reply is lost.

## 3. Runs

| Run | Question | Instance |
|---|---|---|
| `outbox` | Does the queue keep its promise when the row lock covers the delivery? | 2 messages, supervised worker and manual drain, batches of one, budgets 1 and 2, one crash |
| `outbox_overlap` | What still holds when workers overlap on batches? | 2 messages, 2 workers, batches of two, refusals and timeouts, one crash |
| `outbox_overwrite` | violation | see section 6 |
| `outbox_silent_failure` | violation | see section 6 |
| `submissions` | Does the endpoint keep its promise? | 2 requests, 2 widgets, 2 tenants, 2 ids, one crash |
| `limiter` | Is it an exact sliding window for a call alone, and what holds for calls that overlap? | 2 threads, 3 keys in 2 places, limit 2, window 2, 4 calls of which 3 overlap |
| `limiter_key_error` | violation | see section 6 |
| `rate_limits` | Are budgets kept over processes and failures? | 2 requests, 2 processes, 2 addresses, 1 widget, limits and `max_keys` 1, windows 1 and 2, clock to 2, 2 failed calls, 1 restart or eviction by Redis |
| `dashboard` | Are readings complete while others write? | 4 leads, 2 tenants, 2 widgets, 2 countries, pages of 1 and 2, any initial table |
| `widget_store` | Do tenants, edits, ids and copies stay apart? | 2 threads, 2 tenants, 3 ids of which 2 are demo widgets, 3 requests, 2 seeds, max-age 2, fresh or old database |
| `visitor` | Do form, request and validation agree on one answer and one lead? | bodies up to 4 against a limit of 2, 2 providers, 3 configurations, 2 presses, every answer at and beside its limits |
| `backend` | Does one process end what it began, with a cause for every error? | a visitor, an owner, a login, a probe; one thread, one connection, one outage |

**Why these bounds.** The hazards need two actors on one thing, and one more
thing to be confused with it: two workers on two rows, two PATCHes of one
widget, two tenants with an id that comes twice. Two messages are enough for
one to be settled behind a worker's back while the worker is busy with the
other. Budgets 1 and 2 give both sides of each comparison of `attempts`, and a
lowered and a raised budget. Four leads and pages of one or two give three
pages and a cursor on either side of a late commit. Three keys in a table for
two force an eviction. Two requests against limits of one, with two failures,
are refused in Redis and in a process, meet within one limiter, lose a reply
each, and with `max_keys` one evict each other's address; the clock runs at least
a full window. Three widget
requests on two threads let one end while the other is in the middle and a
third reuse what it left. A body of 4 against 2 passes the limit in one piece
and in several. The lengths of answers keep the order of the code's limits (40,
120, 200, 320, 2000), with a value on each side of each. One thread and one
connection make every wait happen: each request finds the other three in its
way.

Every bound is a constant: `MaxCrashes`, `MaxLosses`, `MaxFailures`,
`MaxTime`, `MaxCalls`, `MaxOverlapping`, `MaxId`, `MaxRequests`, `MaxSeeds`,
`MaxBody`, `MaxPresses` and `MaxOutages` end an action; `MaxCount` stops a history counter and changes no behaviour
(`outbox_overlap` sets it to 0 because its properties do not use the counters).
Runs in which the requests, the ids or the clock are used up do not check for
deadlock; the `outbox` and `outbox_overlap` runs do. Symmetry is used in two
runs without liveness properties, over constants the specification does not
tell apart.

**What they show.**

* `outbox`: `NoSharedClaim`, `SettledIsFinal` and the refinement of
  `NotificationDelivery` hold when a batch is one message.
  `AttemptsAccountForSends` relates the column to the calls: only a call whose
  worker was killed may be missing. `GivesUpOnce` covers the two places that
  give up. `EventuallySettled` is liveness.
* `outbox_overlap`: `SentWasDelivered`, `AttemptsWithinBudget` and
  `NoHoldAndWait` survive any overlap: at worst a receiver is called again and
  a row is overwritten, but nothing is falsely sent and nothing deadlocks.
* `submissions`: `LeadHasItsIntent`, `AcceptedIsDurable`, `ErasedStaysErased`,
  the refinement of `LeadIntake` and `EveryRequestAnswered`.
  `LeadsBelongToOwner`: the widget of a lead is there, and has the lead's tenant
  unless it was deleted between the request's read and its insert (observation
  3).
* `limiter`: `WindowRespected` and `RefusalIsHonest` are exact as long as no two
  calls have overlapped. Once they have, two may pass on the last slot, and a
  list replaced behind a thread's back loses a hit for good (observation 2 in
  section 6). `KeysBounded` and `HitsAreReal` survive threads, the first of them
  except for what pruning puts back (observation 11).
* `rate_limits`: `BudgetPerStore` is what is left of "N x the limit with N": a
  store allows a key one budget per window, and one more for each restart and
  each time it evicted the key; it counts the calls no other overlapped, because
  those that overlap in a process may pass together on its last slot (observation
  2). `SharedBudget` is free of that exception: while no call to Redis fails and
  nothing is lost, all processes share one budget. `RefusedForTraffic`: a lost
  reply may cost a slot twice, but a request, overlapped or not, is refused only
  for as many others of its route as the limit says.
* `dashboard`: `NoLeadTwice`, `NothingSkipped`, `ReadingEnds`, and `StatsInRange`
  for every country, widget and day.
* `widget_store`: `OwnWidgetsOnly`, `EditsAreAskedFor`, `NextIdIsFree`,
  `ShownIsRecent`.
* `visitor`: `AnsweredOnce` and `CountedAsAnswered` over the three layers that
  may answer; `StoredAsConfigured` and `FirstAnswerCounts` for what becomes a
  lead; `OneLeadUnlessUntold` (a visitor who is not thanked although a lead was
  stored has lost an answer) and `FormAndServerAgree`.
* `backend`: `FailureHasACause`: a request is not failed for what only others met
  or what was over before it came, such as a connection in the pool from before an
  outage, or for Redis. `ReadyMeansReachable`: a probe that answers 200 was
  open while the database was there; the converse does not hold (observation 9).
  `AllComesBack`, and `EveryRequestEnds`, which is where the pool's timeout is
  needed: a thread that waited for ever for a connection held by a request that
  waits for a thread would stop the process.

A run checks the type invariant of its module as a conjunct of one of its
invariants. Every invariant and action property of the passing runs is also
proved (section 5); the runs came first, and the inductive invariants too were
checked by TLC before they were proved.

## 4. Fairness

* *Outbox*: weak fairness of each worker's own steps. All waits inside a
  process have a timeout (the webhook client's, `statement_timeout`), so a live
  process goes on; a send may fail every time. Weak fairness of `Start` for the
  supervised worker only, which Compose restarts (`restart: unless-stopped`);
  nobody is obliged to run a manual drain. Crashes are bounded: a worker killed
  forever settles nothing.
* *Submissions*: strong fairness of a request's own steps, weak fairness of the
  end of a DELETE. An INSERT that waits for one DELETE after another is enabled
  again and again; PostgreSQL grants row locks in the order they were asked
  for, so it is not passed over for ever. No error is assumed.
* *Backend*: weak fairness of each request's steps and of the two steps of the
  shutdown. A request keeps its place among those that wait for a thread, a wait
  for a connection ends by `pool_timeout`, a statement by `statement_timeout`, a
  connection attempt by `connect_timeout`. The database need not return, nobody
  need send a request, nobody need stop the process.
* *LeadPages, Dashboard*: weak fairness of the caller's next page. `ReadingEnds`
  rests on the cursor going down; new leads lie above it or fill a finite gap
  below.

## 5. Proofs

All assumptions are the named ASSUMEs of the constants. What they say: ids are
numbers in a finite set, a limit, a budget, a window and a batch size are at
least one, a "none" value is not a real one, supervised workers are workers,
Redis is no process. `FinitelyMany` (`InProcessLimiter`), `RequestsAssumption`
(`RateLimits`) and `KindAssumption` (`Backend`) say that there are finitely many
threads, keys and requests in a behaviour. `ConfigAssumption` is what
`WidgetConfig` validates before a configuration is stored, `PayloadAssumption`
that a JSON object has values of the kinds the model tells apart,
`TypedAssumption` that a text has at most its length without blanks.
`Exclusive` and `CountersSuffice` are not assumed of the constants but are
hypotheses of the theorems that need them.

**OutboxProofs.** `TypeCorrect`; `NoDeadlockOnRows`, from `AllOrNone`: a worker
that holds any row lock holds those of everything it has in hand, because one
commit releases them all; `SentImpliesDelivered`, from `MarksAreEarned`: what is
about to be recorded as sent has been received, and the column-wise UPDATE can
only combine a loaded row with an earned mark; `BudgetIsRespected`, from
`CopiesWithinBudget`: every copy of the column lies within a deployed budget and
the test before a send lets only one more through. These hold for any number of
workers and any batch size. Then, assuming `Exclusive` (batches of one, or one
worker): `ClaimsAreExclusive`, `OutcomesAreFinal`, `KeepsTheDeliveryPromise`,
`GivesUpAsPromised` and `SendsAreAccounted`, from `ExclusiveInv`. Neither `NoSharedClaim` nor `SettledIsFinal` is inductive:
the invariant adds that what is in hand is pending (`InHandPending`), is there
once (`InHandOnce`), and with batches of one is locked until recorded
(`SinglesLocked`). `GivingUpInv` goes on from there: with exclusive claims a copy
in hand has the attempts of its row (`CopiesCurrent`), so the column counts, and
an alert that is due is for a failed row nobody has been alerted of
(`AlertsDue`). `SendsCounted` adds the calls of a message up: recorded, in
flight, or of a killed process; `CountersSuffice` only keeps the model's history
counter below its bound. `Exclusive` is needed: `outbox_overwrite` shows what
happens without it.

**SubmissionsProofs.** One invariant, `IntakeInv`, gives `TypeCorrect`,
`LeadsAreNotified`, `LeadsStayWithOwner`, `AcceptedLeadsAreDurable`,
`ErasedLeadsStayErased` and the refinement `KeepsTheIntakePromise`. Nothing is
assumed of the ids of widgets, which may come back with another owner. Its core is
`ReadHolds` (the tenant read with the widget is its owner's until the widget is
deleted, which `bereft` then knows), `DraftHolds` (an uncommitted lead keeps its widget alive, through the
foreign key's lock, and its id is its own) and `FreshIds` (the sequence is ahead
of every lead and intent; otherwise a new lead could meet an old intent's key
and go without one).

**DashboardProofs.** `PagesInv` with `Covered`: everything given lies at or above
the cursor, and everything that stayed and lies there was given. It yields
`NoLeadIsTwice`, `NothingIsSkipped` and `LeadsAreOwn` for any table, page sizes
and writers, and, as the steps of the statistics are stuttering steps of the
pages, `PagesInDashboard`. `OnlyOwnLeads` has no run of its own; the theorem says
more. `StatsAreInRange` is from `StatsInv`: until the answer is complete, the
rows that were always there are among those that are there, and these among
those that ever were; a count that was in range when it was read stays so,
because the first set only shrinks and the last only grows. It holds for any
columns to group by.

**InProcessLimiterProofs.** For any threads, keys, limit, window and bounds.
`LimiterInv` is about the threads: lists are apart, those a thread holds are of
its own key (`ListsApart`), and what a list has was admitted for its key
(`ListsAreReal`). `CapOwed` is the bound: without the keys of threads that have
yet to evict, the dictionary is within its cap, unless pruning put a key back
(`DictionaryIsBounded`). `WindowInv` is about one call at a time: the lists it
has pruned hold exactly what is fresh (`Undisturbed`), and every admission a
window may still count is in the list of its key unless that was evicted
(`Kept`). `WindowIsRespected` and `RefusalsAreHonest` follow by counting; for the
latter, the numbers of the admissions make the first entry of a full list the
one whose end frees a slot.

**RateLimitsProofs.** For any number of processes, requests, addresses and
widgets, any limits, windows and `max_keys`, with overlapping calls, restarts and
evictions. `OneBudgetPerStore` compares what a store has granted with what it
remembers: the grants that count and have no entry went in restarts and
evictions, one budget at a time (`ForgottenInLosses`). A window of a process makes
that harder than Redis does, because a call decides with a moment that may have
passed when its hit is there: `AloneWithin` follows a call that no other overlaps
from test to eviction (no grant is later than its moment, so what it prunes
cannot count any more; there is room for its hit; then the hit is there), and
`TogetherIsKnown` (of two calls within one limiter each is recorded as overlapped)
tells that it stays alone or drops out of the count. `ProcessesShareBudget`: without
failures Redis grants everything (`RedisGrantsAll`). `RefusalsHaveACause`: an entry
is of one request of the key's route that has passed this limiter or has lost its
reply, and a request has one entry in a store (`HitsAreCharged`), so a full window
is as many other requests. `NothingAhead` keeps all moments at or before the clock.

**WidgetStoreProofs.** For any tenants, widgets, demo rows, threads and max-age.
`NextIdFree` needs that inserts in flight are below the sequence as rows are;
`FormIsRecent` that the copy is never further behind than it is old
(`LagWithinAge`). `WidgetsChangedByOwner` rests on `OneTenantPerId`: while the
sequence has not been rewound, an id has had one tenant at most, in the table, in
an insert in flight and in what a thread has loaded. `EditsKeepEachOther` is from
`WritesAreAskedFor`.

**EmbedFormProofs.** For any configurations and payloads, any limit and any
pieces of a body, any number of geo providers and of presses. `RequestInv`
follows one request through its layers: it leaves no trace before it is answered
(`Untraced`), what is counted is what came in (`Measured`), and wherever the
answer is, waiting, half on the wire or all of it, it is one answer, with 413 in
its place over the limit (`OnTheWire`, `Due`). `ToldSo` ties 202 to what became
of the submission, `Asked` the answers of the providers to their order. `FormInv`
adds the form: it counts leads and lost answers in step (`Waiting`), and knows
that a valid body of its own is stored as typed (`Understood`). From it
`OneAnswerPerRequest`, `CountsAreAnswers`, `LeadsConform`, `FirstProviderCounts`,
`OneLeadPerVisitor` and `FormAgreesWithServer`.

**BackendProofs.** `BackendInv` gives `NothingLeaks`, `FailuresHaveACause` and
`ReadyIsReachable` for any number of requests, threads, connections and outages.
Its core is an account: idle threads and running functions add up to the
threads, free and held connections to the pool, and only open requests hold one
(`AllComesBack`, which needs `ProbesApart`: a probe takes no worker thread). A
request that finds the pool empty is then one of more open requests than there
are connections. With `CrowdSeen` and `OutageSeen` (whoever is open in a crowd or
an outage, or has a dead connection, is recorded as hindered) every 500 that is
not a request's own fault has its cause. `DatabaseSeen` says that a probe with a
live connection or a good result was open while the database was up.

**Model-checked only.** The liveness properties `EventuallySettled`,
`EveryRequestAnswered`, `ReadingEnds` and `EveryRequestEnds`, which are outside
this prover's reach, and the three violations. `AttemptsAccountForSends` and
`GivesUpOnce` are proved where claims are exclusive, which is where the runs
check them.

## 6. Findings and observations

Findings, each a run that TLC finds violated:

1. **A settled notification is overwritten** (`outbox_overwrite`). The commit
   after the first message of a batch releases the locks of the rest; a second
   worker claims and settles them; the first, with its old copies, delivers
   again and records from its snapshot: `sent` becomes `failed` or `pending`.
   Batches of one, or one worker, exclude it (proved).
2. **A message fails without an alert** (`outbox_silent_failure`). After
   `OUTBOX_MAX_ATTEMPTS` is lowered, a message already over the new budget is
   failed by `_mark_exhausted`, which does not call the alerter.
3. **`acquire` raises `KeyError`** (`limiter_key_error`) when another thread
   deletes or evicts a key it is about to read, move or delete. The resilient
   limiter does not catch it, so a submission ends as a 500.

Observations, which, but for the ninth, no sentence of the repository
contradicts:

1. A PATCH that repeats the value it loaded writes no column, so it does not
   restore what an overlapping PATCH wrote in between.
2. Two threads may both be admitted on the last slot of the local limiter, and
   a hit appended to a list that pruning has just replaced is not counted by
   later calls. A key evicted while its hits still count, in the process above
   `max_keys` or in Redis for memory, has its whole budget again.
3. The seed's `setval` can move the sequence back, and the id of a deleted
   widget is then given again, possibly to another tenant. A submission that read
   the earlier widget and inserts after that stores a lead of the later widget
   with the earlier tenant (`bereft` in `Submissions`): the foreign key is on
   `widget_id` alone. If the last demo widget is deleted between the two commits of a seed, the sequence is set back
   behind its id in the same way.
4. A PATCH or create answers 500 although it is durable when the widget is
   deleted before the `refresh`.
5. The address is charged before the widget's limit is asked, so a request the
   widget refuses has used a slot of its address.
6. A widget may have a field named `website`. The form cannot read what is typed
   there (`form.elements.website` is then two controls), so such a field, if
   required, can never be sent, and another client's genuine answer in it is
   taken for a robot's and dropped with a 202.
7. The email field of a configuration may be optional, or have another name than
   `email`, under which alone the lead's email column is filled; "a contactable
   field" is required of the widget and not of the lead.
8. Fields named like members of an HTML form or of its controls shadow them, or
   are shadowed, in `widget-v2.js`: what is typed into `item`, `length` or
   `constructor` is left out of the body, with a field `reset` a visitor whose
   lead was stored is told of a network problem, and with a field `elements` the
   form sends nothing. `EmbedForm` leaves these names out.
9. `src/README.md:229` says that readiness "returns 200 for a usable database".
   The probe takes its connection from the pool the requests use: while they
   hold all of it for `pool_timeout`, readiness answers 503 although the database
   is usable. The model has this as the step `PoolTimeout` of a probe: with one
   connection it needs one other request and no outage. A slow geo provider and a
   full pool end other requests as 500s in the same way.
10. Answers of the body limit (400, 413) and of the server after an exception
    carry no `x-request-id`. A 413 that replaces an answer is counted under the
    class of the replaced one, which has always been a 4xx.
11. A thread that prunes may store the fresh list of a key that another thread
   has just evicted, and so put it back. With one key allowed, two may then be
   in the dictionary between calls, until a later admission evicts again; a
   thread that is refused evicts nothing.

## 7. Plan

Done: every module of section 2, and proofs of every invariant and action
property the passing runs check.

Next: `Submissions` composed with `Outbox` over one `outbox_messages` table, from
"accepted" to "settled"; the API's paging of widgets beside that of leads.

Not modelled: migrations and API schemas (declarative), settings and logging
(no state), the demo page and the rehearsal script (not part of the service),
the in-memory repositories of the tests, the labels and the exposition of the
metrics, and the looks of the form. Nothing in the service changes users or
memberships, so a token's tenant cannot change under it. Password hashing, token
encoding, HTTP clients, the limits library and the framework are external; the
two of them that matter to a property (the library's Redis window, the framework between body limit and
route) are modelled from how the code uses them.
