----------------------------- MODULE WidgetStore ----------------------------
(***************************************************************************)
(* The widgets of the tenants: created, edited and deleted by requests     *)
(* that run at the same time (app/repositories/widgets.py behind           *)
(* app/api/routes/widgets.py), added by the seed command (app/seed.py),    *)
(* and shown by the embed on other sites from a copy the browser keeps     *)
(* (app/api/routes/public_widgets.py, app/static/widget-v2.js).            *)
(*                                                                         *)
(* A request is a Session of its own under READ COMMITTED: every statement *)
(* sees what was committed before it.  A PATCH or DELETE first loads the   *)
(* row of its tenant; the flush then goes by primary key alone, and sets   *)
(* the columns whose value differs from the loaded one.                    *)
(*                                                                         *)
(* Bounds: ids up to MaxId, MaxRequests requests, MaxSeeds runs of the     *)
(* seed.  The column kind is read and written as config is and is left out.*)
(***************************************************************************)
EXTENDS Naturals, Sequences, FiniteSets

CONSTANTS
    Slots,       \* threads that serve requests
    Tenants,
    Names,
    Default, Custom, Unreadable,  \* values of the config column
    Keep,        \* a PATCH leaves the column alone
    NoRow,
    DemoOwner,   \* DEMO_WIDGETS: the tenant of widgets 1, 2, ..
    Embedded,    \* the id in data-widget-id of the embedding page
    MaxAge,      \* widget_config_cache_seconds, in ticks
    MaxId, MaxRequests, MaxSeeds

Ids == 1..MaxId
DemoIds == DOMAIN DemoOwner
Valid == {Default, Custom}
Row == [tenant : Tenants, name : Names, config : Valid \cup {Unreadable}]
Content == [name : Names, config : Valid]
Ask == [name : Names \cup {Keep}, config : Valid \cup {Keep}]

ASSUME DemoAssumption == DemoOwner \in Seq(Tenants) /\ Len(DemoOwner) <= MaxId
ASSUME EmbedAssumption == Embedded \in Ids /\ MaxAge \in Nat \ {0}
ASSUME ValueAssumption ==
    /\ Names # {} /\ Unreadable \notin Valid
    /\ Keep \notin Names \cup Valid \cup {Unreadable}
    /\ NoRow \notin Row \cup Content
ASSUME BoundAssumption ==
    MaxId \in Nat /\ MaxRequests \in Nat /\ MaxSeeds \in Nat

VARIABLES
    widgets,   \* the committed row of every id, or NoRow
    next,      \* the value the id sequence hands out next
    sequence,  \* history: what the seed has done to the sequence
    seeding,   \* the seed is between its two commits
    req,       \* what each thread is doing
    copy,      \* the browser's stored config response, or NoRow
    age,       \* its age in ticks
    behind,    \* history: ticks since the copy was what the row holds
    late,      \* history: how far behind the last form shown was
    requests, seeds   \* counters for the bounds

store == <<widgets, next, sequence, seeding>>
browser == <<copy, age, behind, late>>
vars == <<store, req, browser, requests, seeds>>
-----------------------------------------------------------------------------
(* A stored config that does not validate is served as the default one.    *)
Readable(config) == IF config \in Valid THEN config ELSE Default

(* The part of a row that answers show.                                    *)
Shown(row) == [name |-> row.name, config |-> Readable(row.config)]

Idle == [pc |-> "idle"]

(* An answer frees the thread; the status is not kept.                     *)
Answered(status) == Idle

Request ==
    {Idle}
    \cup [pc : {"insert"}, by : Tenants, id : Ids, row : Row]
    \cup [pc : {"flush"}, by : Tenants, id : Ids, ask : Ask, write : Ask]
    \cup [pc : {"erase"}, by : Tenants, id : Ids]
    \cup [pc : {"refresh"}, id : Ids, status : {200, 201}]

TypeOK ==
    /\ widgets \in [Ids -> Row \cup {NoRow}]
    /\ next \in 1..(MaxId + 1)
    /\ sequence \in {"unset", "ahead", "rewound", "overtaken"}
    /\ seeding \in BOOLEAN
    /\ req \in [Slots -> Request]
    /\ copy \in Content \cup {NoRow}
    /\ age \in 0..MaxAge /\ behind \in 0..MaxAge /\ late \in 0..MaxAge
    /\ requests \in 0..MaxRequests /\ seeds \in 0..MaxSeeds

(* A fresh database, or one seeded before widgets had a config.            *)
DemoRow(i, config) == [tenant |-> DemoOwner[i], name |-> CHOOSE n \in Names : TRUE,
                       config |-> config]
Init ==
    /\ \/ /\ widgets = [i \in Ids |-> NoRow]
          /\ next = 1
          /\ sequence = "unset"
       \/ /\ widgets = [i \in Ids |->
                IF i \in DemoIds THEN DemoRow(i, Unreadable) ELSE NoRow]
          /\ next = Cardinality(DemoIds) + 1
          /\ sequence = "ahead"
    /\ seeding = FALSE
    /\ req = [r \in Slots |-> Idle]
    /\ copy = NoRow
    /\ age = 0 /\ behind = 0 /\ late = 0
    /\ requests = 0 /\ seeds = 0
-----------------------------------------------------------------------------
Exists(i) == widgets[i] # NoRow

(* A request needs a membership, which only the seed provisions.           *)
Arrive(r) ==
    /\ req[r] = Idle
    /\ seeds > 0 \/ sequence # "unset"
    /\ requests < MaxRequests
    /\ requests' = requests + 1
    /\ UNCHANGED <<seeding, sequence, browser, seeds>>
Proceed(r) ==
    /\ UNCHANGED <<seeding, sequence, browser, requests, seeds>>

(* POST: the INSERT takes the next id and fails on one that is there.      *)
Create(r, row) ==
    /\ Arrive(r)
    /\ next <= MaxId
    /\ next' = next + 1
    /\ req' = [req EXCEPT ![r] =
                  IF Exists(next) THEN Answered(500)
                  ELSE [pc |-> "insert", by |-> row.tenant, id |-> next, row |-> row]]
    /\ UNCHANGED widgets

(* Of two inserts of one id the second waits for the first, and fails.     *)
CommitCreate(r) ==
    LET i == req[r].id IN
    /\ req[r].pc = "insert"
    /\ widgets' = [widgets EXCEPT ![i] = req[r].row]
    /\ req' = [q \in Slots |->
                  IF q = r THEN [pc |-> "refresh", id |-> i, status |-> 201]
                  ELSE IF req[q].pc = "insert" /\ req[q].id = i THEN Answered(500)
                  ELSE req[q]]
    /\ UNCHANGED next
    /\ Proceed(r)

(* _get_record: the row, if it is one of the tenant's.                     *)
Owned_ById(t, i) == Exists(i)
Owned(t, i) == Exists(i) /\ widgets[i].tenant = t

(* A request for a widget the tenant does not own is answered 404.         *)
Load(r, t, i, state) ==
    /\ Arrive(r)
    /\ req' = [req EXCEPT ![r] = IF Owned(t, i) THEN state ELSE Answered(404)]
    /\ UNCHANGED <<widgets, next>>

(* GET of the widget, and of its embed snippet.                            *)
Get(r, t, i) == Load(r, t, i, Answered(200))

(* PATCH: the flush will set the columns asked for that differ.  An empty  *)
(* body is refused before; one whose fields are all null asks for nothing. *)
Changed_EveryColumn(row, ask) ==
    [name |-> IF ask.name = Keep THEN row.name ELSE ask.name,
     config |-> IF ask.config = Keep THEN row.config ELSE ask.config]
Changed(row, ask) ==
    [name |-> IF ask.name = row.name THEN Keep ELSE ask.name,
     config |-> IF ask.config = row.config THEN Keep ELSE ask.config]

Patch(r, t, i, ask) ==
    Load(r, t, i, [pc |-> "flush", by |-> t, id |-> i, ask |-> ask,
                   write |-> Changed(widgets[i], ask)])

Written(row, write) ==
    [row EXCEPT !.name = IF write.name = Keep THEN @ ELSE write.name,
                !.config = IF write.config = Keep THEN @ ELSE write.config]

(* UPDATE .. WHERE id = .. and COMMIT; no row to update is an error, no    *)
(* column to set is no statement.                                          *)
Flush(r) ==
    LET i == req[r].id
        write == req[r].write
        unchanged == write = [name |-> Keep, config |-> Keep]
    IN
    /\ req[r].pc = "flush"
    /\ \/ /\ unchanged \/ Exists(i)
          /\ widgets' = IF unchanged THEN widgets
                        ELSE [widgets EXCEPT ![i] = Written(@, write)]
          /\ req' = [req EXCEPT ![r] = [pc |-> "refresh", id |-> i, status |-> 200]]
       \/ /\ ~unchanged /\ ~Exists(i)
          /\ req' = [req EXCEPT ![r] = Answered(500)]
          /\ UNCHANGED widgets
    /\ UNCHANGED next
    /\ Proceed(r)

(* session.refresh: a SELECT after the COMMIT, an error if the row is gone.*)
Refresh(r) ==
    /\ req[r].pc = "refresh"
    /\ req' = [req EXCEPT ![r] = Answered(IF Exists(@.id) THEN @.status ELSE 500)]
    /\ UNCHANGED <<widgets, next>>
    /\ Proceed(r)

Delete(r, t, i) == Load(r, t, i, [pc |-> "erase", by |-> t, id |-> i])

(* DELETE .. WHERE id = .. and COMMIT; that no row was left is a warning.  *)
Erase(r) ==
    /\ req[r].pc = "erase"
    /\ widgets' = [widgets EXCEPT ![req[r].id] = NoRow]
    /\ req' = [req EXCEPT ![r] = Answered(204)]
    /\ UNCHANGED next
    /\ Proceed(r)
-----------------------------------------------------------------------------
(* The demo rows that are missing, in one transaction, if no insert in     *)
(* flight holds their key.                                                 *)
SeedWidgets ==
    /\ ~seeding /\ seeds < MaxSeeds
    /\ \A r \in Slots : req[r].pc = "insert" => req[r].id \notin DemoIds
    /\ widgets' = [i \in Ids |-> IF i \in DemoIds /\ ~Exists(i)
                                 THEN DemoRow(i, Default) ELSE widgets[i]]
    /\ seeding' = TRUE
    /\ seeds' = seeds + 1
    /\ UNCHANGED <<next, sequence, req, browser, requests>>

(* setval(.., greatest(max(id), 1)): takes effect at once, and sees        *)
(* committed rows only.  The history: "ahead" while no id can come twice,  *)
(* "rewound" once a deleted widget's id can come again, "overtaken" once   *)
(* the id of an insert in flight can, or that of a demo row, deleted now,  *)
(* which the next seed will bring back.                                    *)
HighestId == CHOOSE m \in Ids :
    /\ m = 1 \/ Exists(m)
    /\ \A i \in Ids : Exists(i) => i <= m
AfterSetval_NotCalled == HighestId
AfterSetval == HighestId + 1
ResetSequence ==
    /\ seeding
    /\ next' = AfterSetval
    /\ sequence' =
          IF \/ sequence = "overtaken"
             \/ \E r \in Slots : req[r].pc = "insert" /\ req[r].id >= AfterSetval
             \/ \E i \in DemoIds : i >= AfterSetval
          THEN "overtaken"
          ELSE IF \/ sequence = "rewound"
                  \/ sequence = "ahead" /\ AfterSetval < next
                  \/ sequence = "unset" /\ next > 1
          THEN "rewound" ELSE "ahead"
    /\ seeding' = FALSE
    /\ UNCHANGED <<widgets, req, browser, requests, seeds>>

(* The command is stopped between its two commits.                         *)
SeedDies ==
    /\ seeding
    /\ seeding' = FALSE
    /\ UNCHANGED <<widgets, next, sequence, req, browser, requests, seeds>>
-----------------------------------------------------------------------------
(* The content tag of a response covers all of its payload.                *)
ContentEtag_NameOnly(shown) == shown.name
ContentEtag(shown) == shown

Current == Exists(Embedded) /\ copy = Shown(widgets[Embedded])
Overdue == IF Current THEN 0 ELSE behind

(* The embed fetches its config: the browser answers from its copy while   *)
(* that is younger than max-age.                                           *)
FreshCopy == copy # NoRow /\ age < MaxAge
ShowFromCopy ==
    /\ FreshCopy
    /\ late' = Overdue
    /\ UNCHANGED <<store, req, copy, age, behind, requests, seeds>>

(* It asks the server when the copy is too old, or the visitor reloads:    *)
(* 304 if the tag matches, else 200.                                       *)
ShowFromServer ==
    LET served == Shown(widgets[Embedded])
        matches == copy # NoRow /\ ContentEtag(copy) = ContentEtag(served)
    IN
    /\ Exists(Embedded)
    /\ copy' = IF matches THEN copy ELSE served
    /\ late' = IF matches THEN Overdue ELSE 0
    /\ behind' = late'
    /\ age' = 0
    /\ UNCHANGED <<store, req, requests, seeds>>

(* 404: the embed shows no form.                                           *)
ShowNothing ==
    /\ ~Exists(Embedded)
    /\ copy' = NoRow
    /\ age' = 0 /\ behind' = 0 /\ late' = 0
    /\ UNCHANGED <<store, req, requests, seeds>>

Tick ==
    /\ copy # NoRow
    /\ age' = IF age < MaxAge THEN age + 1 ELSE age
    /\ behind' = IF Current THEN 0 ELSE IF behind < MaxAge THEN behind + 1 ELSE behind
    /\ UNCHANGED <<store, req, copy, late, requests, seeds>>
-----------------------------------------------------------------------------
Serve(r) ==
    \/ \E t \in Tenants, n \in Names, c \in Valid :
            Create(r, [tenant |-> t, name |-> n, config |-> c])
    \/ \E t \in Tenants, i \in Ids :
            \/ Get(r, t, i)
            \/ \E ask \in Ask : Patch(r, t, i, ask)
            \/ Delete(r, t, i)
    \/ CommitCreate(r)
    \/ Flush(r)
    \/ Refresh(r)
    \/ Erase(r)

Next ==
    \/ \E r \in Slots : Serve(r)
    \/ SeedWidgets \/ ResetSequence \/ SeedDies
    \/ ShowFromCopy \/ ShowFromServer \/ ShowNothing
    \/ Tick

Spec == Init /\ [][Next]_vars
-----------------------------------------------------------------------------
(* A widget is edited or deleted by requests of its tenant only, although  *)
(* UPDATE and DELETE go by id alone: until the seed rewinds the sequence,  *)
(* no id comes to another tenant after it was loaded.                     *)
OwnWidgetsOnly ==
    [][\A i \in Ids :
          sequence = "ahead" /\ Exists(i) /\ widgets'[i] # widgets[i] =>
             \E r \in Slots : /\ req[r].pc \in {"flush", "erase"}
                              /\ req[r].id = i
                              /\ req[r].by = widgets[i].tenant]_vars

(* Two PATCHes that overlap do not undo each other: a column takes a value *)
(* some PATCH of this widget asked for, never one it had merely loaded,    *)
(* and no PATCH brings a deleted widget back.                              *)
EditsAreAskedFor ==
    [][\A i \in Ids : widgets'[i] # widgets[i] /\ widgets'[i] # NoRow =>
          IF Exists(i)
          THEN \E r \in Slots :
                  /\ req[r].pc = "flush" /\ req[r].id = i
                  /\ \A c \in {"name", "config"} :
                        widgets'[i][c] \in {widgets[i][c], req[r].ask[c]}
                  /\ widgets'[i].tenant = widgets[i].tenant
          ELSE \/ seeds' # seeds
               \/ \E r \in Slots : req[r].pc = "insert" /\ req[r].id = i]_vars

(* "so the next generated id would have collided. Added setval" (BUILDLOG  *)
(* 142): once a seed has completed, the id a create gets is free, unless   *)
(* setval fell behind an insert in flight or a deleted demo row.           *)
NextIdIsFree ==
    /\ TypeOK
    /\ sequence \in {"ahead", "rewound"} =>
        /\ \A i \in Ids : Exists(i) => i < next
        /\ \A r \in Slots : req[r].pc = "insert" => req[r].id < next

(* A form on another site is out of date by less than max-age, through any *)
(* number of 304 answers.                                                  *)
ShownIsRecent == late < MaxAge
-----------------------------------------------------------------------------
(* What the proofs of these properties add to them: an id is never taken   *)
(* by a row and an insert at once, a flush writes what was asked for or    *)
(* nothing, and the copy is never further behind than it is old.           *)
Loaded(r) == req[r].pc \in {"flush", "erase"}
Inserting(r) == req[r].pc = "insert"

InsertsAreNew == \A r \in Slots : Inserting(r) => ~Exists(req[r].id)

WritesAreAskedFor == \A r \in Slots : req[r].pc = "flush" =>
    \A c \in {"name", "config"} : req[r].write[c] \in {Keep, req[r].ask[c]}

LagWithinAge == behind <= age /\ ShownIsRecent

DemoIdsHandedOut == sequence \in {"ahead", "rewound"} => \A i \in DemoIds : i < next

(* While every id has had one tenant at most: before anything took an id   *)
(* from the sequence, and from the first setval until one rewinds it.      *)
Orderly == sequence = "ahead" \/ (sequence = "unset" /\ next = 1)

Given(i) == i \in DemoIds \/ i < next

RowsKeepTenant == \A i \in Ids : Exists(i) =>
    Given(i) /\ (i \in DemoIds => widgets[i].tenant = DemoOwner[i])

InsertsTakeOwnId == \A r \in Slots : Inserting(r) =>
    req[r].id < next /\ req[r].id \notin DemoIds

LoadedIsOwned == \A r \in Slots : Loaded(r) =>
    /\ Given(req[r].id)
    /\ req[r].id \in DemoIds => req[r].by = DemoOwner[req[r].id]
    /\ Exists(req[r].id) => req[r].by = widgets[req[r].id].tenant

InsertsApart == \A r, q \in Slots :
    Inserting(r) /\ r # q /\ (Inserting(q) \/ Loaded(q)) => req[r].id # req[q].id

OneTenantPerId ==
    Orderly => RowsKeepTenant /\ InsertsTakeOwnId /\ LoadedIsOwned /\ InsertsApart

Inv ==
    /\ NextIdIsFree
    /\ InsertsAreNew
    /\ WritesAreAskedFor
    /\ LagWithinAge
    /\ DemoIdsHandedOut
    /\ OneTenantPerId
=============================================================================
