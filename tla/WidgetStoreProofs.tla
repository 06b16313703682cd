-------------------------- MODULE WidgetStoreProofs -------------------------
(***************************************************************************)
(* Proofs about WidgetStore, for any number of threads, tenants, names,    *)
(* ids, demo widgets, requests and runs of the seed: the next id is free,  *)
(* a widget is changed by its tenant's requests only, a PATCH undoes no    *)
(* other, and the form shown is recent.  All four follow from one          *)
(* inductive invariant, Inv of WidgetStore.                                *)
(***************************************************************************)
EXTENDS WidgetStore, WellFoundedInduction, FiniteSetTheorems, TLAPS
-----------------------------------------------------------------------------
(* A set of naturals that is not empty has a least element.                *)
LEMMA LeastNatural ==
    ASSUME NEW T, T \subseteq Nat, T # {}
    PROVE  \E x \in T : \A y \in T : x <= y
<1>1. \E x \in T : \A y \in T : ~(<<y, x>> \in OpToRel(<, Nat))
    BY WFMin, NatLessThanWellFounded
<1>2. \A x, y \in Nat : y < x => <<y, x>> \in OpToRel(<, Nat)
    BY Zenon DEF OpToRel
<1>3. \E x \in T : \A y \in T : ~(y < x)
    BY <1>1, <1>2, Zenon
<1> QED BY <1>3

(* Ids are numbered from 1, and there is at least one.                     *)
LEMMA IdsAreNumbers ==
    /\ MaxId \in Nat /\ 1 \in Ids
    /\ \A i : i \in Ids <=> i \in Nat /\ 1 <= i /\ i <= MaxId
BY BoundAssumption, EmbedAssumption DEF Ids

(* max(id): the greatest id that has a row, or 1.                          *)
LEMMA HighestIsHighest ==
    /\ HighestId \in Ids
    /\ \A i \in Ids : Exists(i) => i <= HighestId
<1> DEFINE S == {m \in Ids : m = 1 \/ Exists(m)}
           T == {MaxId - m : m \in S}
<1> USE IdsAreNumbers
<1>1. T \subseteq Nat /\ MaxId - 1 \in T
    OBVIOUS
<1>2. PICK x \in T : \A y \in T : x <= y
    <2> HIDE DEF T
    <2> QED BY <1>1, LeastNatural
<1>3. PICK m \in S : x = MaxId - m
    BY <1>2
<1>4. \A i \in S : i <= m
    <2> TAKE i \in S
    <2>1. x <= MaxId - i
        BY <1>2
    <2> QED BY <2>1, <1>3
<1>5. \E h \in Ids : (h = 1 \/ Exists(h)) /\ \A i \in Ids : Exists(i) => i <= h
    BY <1>4
<1> QED BY <1>5 DEF HighestId

(* A demo widget's id is an id, and it has a tenant.                       *)
LEMMA DemoIdsAreIds ==
    /\ DemoIds \subseteq Ids /\ DemoIds = 1..Len(DemoOwner)
    /\ \A i \in DemoIds : DemoOwner[i] \in Tenants
    /\ Cardinality(DemoIds) = Len(DemoOwner) /\ Len(DemoOwner) \in Nat
<1>1. Len(DemoOwner) \in Nat /\ DemoIds = 1..Len(DemoOwner)
    BY DemoAssumption DEF DemoIds
<1>2. DemoIds \subseteq Ids
    BY <1>1, DemoAssumption, IdsAreNumbers
<1>3. Cardinality(1..Len(DemoOwner)) = Len(DemoOwner)
    <2> DEFINE n == Len(DemoOwner)
    <2>1. n \in Nat /\ 1 \in Int /\ n \in Int
        BY <1>1
    <2> HIDE DEF n
    <2>2. Cardinality(1..n) = IF 1 > n THEN 0 ELSE n - 1 + 1
        BY <2>1, FS_Interval
    <2>3. Cardinality(1..n) = n
        BY <2>1, <2>2
    <2> QED BY <2>3 DEF n
<1>4. \A i \in DemoIds : DemoOwner[i] \in Tenants
    BY DemoAssumption DEF DemoIds
<1> QED BY <1>1, <1>2, <1>3, <1>4

(* The row a seed inserts is a row, of the tenant of its demo widget.      *)
LEMMA DemoRowIsRow ==
    ASSUME NEW i \in DemoIds, NEW c \in Valid \cup {Unreadable}
    PROVE  DemoRow(i, c) \in Row /\ DemoRow(i, c).tenant = DemoOwner[i]
<1>1. (CHOOSE n \in Names : TRUE) \in Names
    BY ValueAssumption
<1> QED BY <1>1, DemoIdsAreIds DEF DemoRow, Row

(* Rows and contents are distinct from the value that stands for none.     *)
LEMMA NoRowIsNone == \A x \in Row \cup Content : x # NoRow
BY ValueAssumption

(* What each kind of request holds.                                        *)
LEMMA RequestFields ==
    ASSUME NEW x \in Request
    PROVE  /\ x.pc = "insert" => /\ x.by \in Tenants /\ x.id \in Ids
                                 /\ x.row \in Row
           /\ x.pc = "flush" => /\ x.by \in Tenants /\ x.id \in Ids
                                /\ x.ask \in Ask /\ x.write \in Ask
           /\ x.pc = "erase" => x.by \in Tenants /\ x.id \in Ids
           /\ x.pc = "refresh" => x.id \in Ids /\ x.status \in {200, 201}
BY DEF Request, Idle

(* The part of a row that answers show is a content.                       *)
LEMMA ShownIsContent ==
    ASSUME NEW row \in Row
    PROVE  Shown(row) \in Content
BY DEF Shown, Readable, Row, Content, Valid

(* The UPDATE of a row leaves a row, of the same tenant; a column whose    *)
(* value differs afterwards has the value written.                         *)
LEMMA WrittenIsRow ==
    ASSUME NEW row \in Row, NEW write \in Ask
    PROVE  /\ Written(row, write) \in Row
           /\ Written(row, write).tenant = row.tenant
           /\ \A c \in {"name", "config"} :
                 Written(row, write)[c] = IF write[c] = Keep THEN row[c] ELSE write[c]
BY DEF Written, Row, Ask, Valid

(* What a PATCH will write: what it asks for, or nothing.                  *)
LEMMA ChangedIsAsked ==
    ASSUME NEW row \in Row, NEW ask \in Ask
    PROVE  /\ Changed(row, ask) \in Ask
           /\ \A c \in {"name", "config"} : Changed(row, ask)[c] \in {Keep, ask[c]}
BY DEF Changed, Row, Ask
-----------------------------------------------------------------------------
(* The answer to a request leaves its thread idle.                         *)
LEMMA AnsweredIsIdle ==
    \A status : /\ Answered(status) = Idle /\ Answered(status).pc = "idle"
                /\ Answered(status) \in Request
BY DEF Answered, Idle, Request

(* Every variable has its type at the start.                               *)
LEMMA TypeInit == Init => TypeOK
<1> SUFFICES ASSUME Init PROVE TypeOK
    OBVIOUS
<1>1. widgets \in [Ids -> Row \cup {NoRow}] /\ next \in 1..(MaxId + 1)
    <2>1. CASE widgets = [i \in Ids |-> NoRow] /\ next = 1
        BY <2>1, IdsAreNumbers
    <2>2. CASE /\ widgets = [i \in Ids |->
                      IF i \in DemoIds THEN DemoRow(i, Unreadable) ELSE NoRow]
               /\ next = Cardinality(DemoIds) + 1
        <3>1. widgets \in [Ids -> Row \cup {NoRow}]
            BY <2>2, DemoRowIsRow
        <3>2. Cardinality(DemoIds) \in 0..MaxId
            BY DemoIdsAreIds, DemoAssumption, BoundAssumption
        <3> QED BY <3>1, <3>2, <2>2, BoundAssumption
    <2> QED BY <2>1, <2>2 DEF Init
<1>2. req \in [Slots -> Request]
    BY DEF Init, Request
<1>3. /\ sequence \in {"unset", "ahead", "rewound", "overtaken"} /\ seeding \in BOOLEAN
      /\ copy \in Content \cup {NoRow}
    BY DEF Init
<1>4. /\ age \in 0..MaxAge /\ behind \in 0..MaxAge /\ late \in 0..MaxAge
      /\ requests \in 0..MaxRequests /\ seeds \in 0..MaxSeeds
    BY EmbedAssumption, BoundAssumption DEF Init
<1> QED BY <1>1, <1>2, <1>3, <1>4 DEF TypeOK

(* A step of a request keeps the types.                                    *)
LEMMA TypeServe ==
    ASSUME TypeOK, NEW r \in Slots, Serve(r)
    PROVE  TypeOK'
<1> USE DEF TypeOK
<1> USE AnsweredIsIdle
<1>r. req[r] \in Request
    OBVIOUS
<1>a. ASSUME NEW t \in Tenants, NEW i \in Ids, NEW state, Load(r, t, i, state),
             Owned(t, i) => state \in Request
      PROVE  TypeOK'
    <2>1. req' \in [Slots -> Request]
        BY <1>a DEF Load
    <2>2. requests' \in 0..MaxRequests
        BY <1>a, BoundAssumption DEF Load, Arrive
    <2> QED BY <1>a, <2>1, <2>2 DEF Load, Arrive, browser
<1>1. ASSUME NEW t \in Tenants, NEW n \in Names, NEW c \in Valid,
             Create(r, [tenant |-> t, name |-> n, config |-> c])
      PROVE  TypeOK'
    <2> DEFINE row == [tenant |-> t, name |-> n, config |-> c]
               new == [pc |-> "insert", by |-> row.tenant, id |-> next, row |-> row]
    <2>1. next \in Ids /\ next + 1 \in 1..(MaxId + 1)
        BY <1>1, IdsAreNumbers DEF Create
    <2>2. new \in Request
        BY <2>1 DEF Request, Row
    <2>3. req' \in [Slots -> Request]
        BY <1>1, <2>2 DEF Create
    <2>4. requests' \in 0..MaxRequests
        BY <1>1, BoundAssumption DEF Create, Arrive
    <2> QED BY <1>1, <2>1, <2>3, <2>4 DEF Create, Arrive, browser
<1>2. ASSUME NEW t \in Tenants, NEW i \in Ids, Get(r, t, i)
      PROVE  TypeOK'
    BY <1>2, <1>a DEF Get
<1>3. ASSUME NEW t \in Tenants, NEW i \in Ids, NEW ask \in Ask, Patch(r, t, i, ask)
      PROVE  TypeOK'
    <2> DEFINE new == [pc |-> "flush", by |-> t, id |-> i, ask |-> ask,
                       write |-> Changed(widgets[i], ask)]
    <2>1. Owned(t, i) => widgets[i] \in Row
        BY DEF Owned, Exists
    <2>2. Owned(t, i) => new \in Request
        BY <2>1, ChangedIsAsked DEF Request
    <2> QED BY <1>3, <1>a, <2>2 DEF Patch
<1>4. ASSUME NEW t \in Tenants, NEW i \in Ids, Delete(r, t, i)
      PROVE  TypeOK'
    <2>1. [pc |-> "erase", by |-> t, id |-> i] \in Request
        BY DEF Request
    <2> QED BY <1>4, <1>a, <2>1 DEF Delete
<1>5. CASE CommitCreate(r)
    <2>1. req[r].id \in Ids /\ req[r].row \in Row
        BY <1>5, <1>r, RequestFields DEF CommitCreate
    <2>2. [pc |-> "refresh", id |-> req[r].id, status |-> 201] \in Request
        BY <2>1 DEF Request
    <2>3. req' \in [Slots -> Request]
        BY <1>5, <2>2 DEF CommitCreate
    <2> QED BY <1>5, <2>1, <2>3 DEF CommitCreate, Proceed, browser
<1>6. CASE Flush(r)
    <2>1. req[r].id \in Ids /\ req[r].write \in Ask
        BY <1>6, <1>r, RequestFields DEF Flush
    <2>2. [pc |-> "refresh", id |-> req[r].id, status |-> 200] \in Request
        BY <2>1 DEF Request
    <2>3. req' \in [Slots -> Request]
        BY <1>6, <2>2 DEF Flush
    <2>4. widgets' \in [Ids -> Row \cup {NoRow}]
        BY <1>6, <2>1, WrittenIsRow DEF Flush, Exists
    <2> QED BY <1>6, <2>3, <2>4 DEF Flush, Proceed, browser
<1>7. CASE Refresh(r)
    BY <1>7 DEF Refresh, Proceed, browser
<1>8. CASE Erase(r)
    BY <1>8 DEF Erase, Proceed, browser
<1> QED BY <1>1, <1>2, <1>3, <1>4, <1>5, <1>6, <1>7, <1>8 DEF Serve

(* A step of the seed keeps the types.                                     *)
LEMMA TypeSeed ==
    ASSUME TypeOK, SeedWidgets \/ ResetSequence \/ SeedDies
    PROVE  TypeOK'
<1> USE DEF TypeOK
<1>1. CASE SeedWidgets
    <2>1. widgets' \in [Ids -> Row \cup {NoRow}]
        BY <1>1, DemoRowIsRow DEF SeedWidgets, Valid
    <2>2. seeds' \in 0..MaxSeeds
        BY <1>1, BoundAssumption DEF SeedWidgets
    <2> QED BY <1>1, <2>1, <2>2 DEF SeedWidgets, browser
<1>2. CASE ResetSequence
    <2>1. next' \in 1..(MaxId + 1)
        BY <1>2, HighestIsHighest, IdsAreNumbers DEF ResetSequence, AfterSetval
    <2>2. sequence' \in {"unset", "ahead", "rewound", "overtaken"}
        BY <1>2 DEF ResetSequence
    <2> QED BY <1>2, <2>1, <2>2 DEF ResetSequence, browser
<1>3. CASE SeedDies
    BY <1>3 DEF SeedDies, browser
<1> QED BY <1>1, <1>2, <1>3

(* A step of the browser, or of time, keeps the types, and the copy is     *)
(* never further behind than it is old.                                    *)
LEMMA BrowserStep ==
    ASSUME TypeOK, LagWithinAge, ShowFromCopy \/ ShowFromServer \/ ShowNothing \/ Tick
    PROVE  TypeOK' /\ LagWithinAge'
<1> USE DEF TypeOK, LagWithinAge, ShownIsRecent
<1> USE EmbedAssumption
<1>1. CASE ShowFromCopy
    BY <1>1 DEF ShowFromCopy, FreshCopy, Overdue, store
<1>2. CASE ShowFromServer
    <2> DEFINE served == Shown(widgets[Embedded])
               matches == copy # NoRow /\ ContentEtag(copy) = ContentEtag(served)
    <2>1. widgets[Embedded] \in Row /\ served \in Content
        BY <1>2, ShownIsContent DEF ShowFromServer, Exists
    <2>2. matches => Overdue = 0
        BY <1>2 DEF ShowFromServer, ContentEtag, Overdue, Current
    <2>3. late' = 0 /\ behind' = 0 /\ age' = 0 /\ copy' \in Content \cup {NoRow}
        BY <1>2, <2>1, <2>2 DEF ShowFromServer
    <2> QED BY <1>2, <2>3 DEF ShowFromServer, store
<1>3. CASE ShowNothing
    BY <1>3 DEF ShowNothing, store
<1>4. CASE Tick
    BY <1>4 DEF Tick, store
<1> QED BY <1>1, <1>2, <1>3, <1>4
-----------------------------------------------------------------------------
(* The steps that touch neither a row, nor the sequence, nor a request.    *)
Elsewhere == SeedDies \/ ShowFromCopy \/ ShowFromServer \/ ShowNothing \/ Tick

(* They leave all of that as it is.                                        *)
LEMMA ElsewhereKeeps ==
    ASSUME Elsewhere \/ UNCHANGED vars
    PROVE  UNCHANGED <<widgets, next, sequence, req>>
BY DEF Elsewhere, SeedDies, ShowFromCopy, ShowFromServer, ShowNothing, Tick,
       store, browser, vars

(* A request for a widget that exists holds its id and its tenant, which   *)
(* owned it at the load; it begins with a read and changes no row.         *)
LEMMA Loads ==
    ASSUME TypeOK, NEW r \in Slots, NEW t \in Tenants, NEW i \in Ids,
           \/ Get(r, t, i)
           \/ \E ask \in Ask : Patch(r, t, i, ask)
           \/ Delete(r, t, i)
    PROVE  /\ UNCHANGED <<widgets, next, sequence, seeds>>
           /\ \A q \in Slots \ {r} : req'[q] = req[q]
           /\ req'[r].pc \in {"idle", "flush", "erase"}
           /\ Loaded(r)' => Owned(t, i) /\ req'[r].id = i /\ req'[r].by = t
           /\ req'[r].pc = "flush" =>
                 \A c \in {"name", "config"} : req'[r].write[c] \in {Keep, req'[r].ask[c]}
<1> USE DEF Loaded, TypeOK, Load, Arrive, Answered, Idle
<1>1. CASE Get(r, t, i)
    BY <1>1 DEF Get
<1>2. CASE \E ask \in Ask : Patch(r, t, i, ask)
    <2> PICK ask \in Ask : Patch(r, t, i, ask)
        BY <1>2
    <2>1. Owned(t, i) => widgets[i] \in Row
        BY DEF Owned, Exists
    <2>2. Owned(t, i) => \A c \in {"name", "config"} :
              Changed(widgets[i], ask)[c] \in {Keep, ask[c]}
        BY <2>1, ChangedIsAsked
    <2> HIDE DEF Owned
    <2> QED BY <2>2 DEF Patch
<1>3. CASE Delete(r, t, i)
    BY <1>3 DEF Delete
<1> QED BY <1>1, <1>2, <1>3

(* A create takes the next id, or fails on one that is there.              *)
LEMMA Creates ==
    ASSUME TypeOK, NEW r \in Slots, NEW t \in Tenants, NEW n \in Names, NEW c \in Valid,
           Create(r, [tenant |-> t, name |-> n, config |-> c])
    PROVE  /\ UNCHANGED <<widgets, sequence, seeds>>
           /\ next \in Ids /\ next' = next + 1
           /\ \A q \in Slots \ {r} : req'[q] = req[q]
           /\ req'[r].pc \in {"idle", "insert"}
           /\ Inserting(r)' => ~Exists(next) /\ req'[r].id = next
BY IdsAreNumbers DEF Create, Inserting, TypeOK, Arrive, Answered, Idle

(* No id is taken by a row and an insert at once, and a flush writes what  *)
(* was asked for or nothing: every step keeps both.                        *)
LEMMA RequestsStep ==
    ASSUME TypeOK, InsertsAreNew, WritesAreAskedFor, [Next]_vars
    PROVE  InsertsAreNew' /\ WritesAreAskedFor'
<1> USE DEF InsertsAreNew, WritesAreAskedFor, Inserting, Exists, TypeOK
<1>1. ASSUME NEW r \in Slots, NEW t \in Tenants, NEW n \in Names, NEW c \in Valid,
             Create(r, [tenant |-> t, name |-> n, config |-> c])
      PROVE  InsertsAreNew' /\ WritesAreAskedFor'
    BY <1>1, Creates
<1>2. ASSUME NEW r \in Slots, NEW t \in Tenants, NEW i \in Ids,
             \/ Get(r, t, i)
             \/ \E ask \in Ask : Patch(r, t, i, ask)
             \/ Delete(r, t, i)
      PROVE  InsertsAreNew' /\ WritesAreAskedFor'
    BY <1>2, Loads
<1>3. ASSUME NEW r \in Slots, CommitCreate(r)
      PROVE  InsertsAreNew' /\ WritesAreAskedFor'
    <2>1. \A q \in Slots : \/ req'[q] = req[q] /\ (req[q].pc = "insert" => req[q].id # req[r].id)
                           \/ req'[q].pc \in {"refresh", "idle"}
        BY <1>3 DEF CommitCreate, Answered, Idle
    <2>2. \A i \in Ids : i # req[r].id => widgets'[i] = widgets[i]
        BY <1>3 DEF CommitCreate
    <2>3. \A q \in Slots : req[q].pc = "insert" => req[q].id \in Ids
        BY RequestFields
    <2> QED BY <2>1, <2>2, <2>3
<1>4. ASSUME NEW r \in Slots, Flush(r)
      PROVE  InsertsAreNew' /\ WritesAreAskedFor'
    <2>1. req[r].id \in Ids
        BY <1>4, RequestFields DEF Flush
    <2>2. /\ req'[r].pc \in {"refresh", "idle"}
          /\ \A q \in Slots \ {r} : req'[q] = req[q]
        BY <1>4 DEF Flush, Answered, Idle
    <2>3. \A i \in Ids : widgets'[i] # widgets[i] => Exists(i)
        BY <1>4, <2>1 DEF Flush
    <2>4. \A q \in Slots : req[q].pc = "insert" => req[q].id \in Ids
        BY RequestFields
    <2> QED BY <2>2, <2>3, <2>4
<1>5. ASSUME NEW r \in Slots, Refresh(r)
      PROVE  InsertsAreNew' /\ WritesAreAskedFor'
    BY <1>5 DEF Refresh, Answered, Idle
<1>6. ASSUME NEW r \in Slots, Erase(r)
      PROVE  InsertsAreNew' /\ WritesAreAskedFor'
    <2>1. /\ req'[r].pc = "idle"
          /\ \A q \in Slots \ {r} : req'[q] = req[q]
        BY <1>6 DEF Erase, Answered, Idle
    <2>2. \A i \in Ids : widgets'[i] # widgets[i] => widgets'[i] = NoRow
        BY <1>6 DEF Erase
    <2>4. \A q \in Slots : req[q].pc = "insert" => req[q].id \in Ids
        BY RequestFields
    <2> QED BY <2>1, <2>2, <2>4
<1>7. CASE SeedWidgets
    <2>4. \A q \in Slots : req[q].pc = "insert" => req[q].id \in Ids
        BY RequestFields
    <2> QED BY <1>7, <2>4 DEF SeedWidgets
<1>8. CASE ResetSequence
    BY <1>8 DEF ResetSequence
<1>9. CASE Elsewhere \/ UNCHANGED vars
    BY <1>9, ElsewhereKeeps
<1> QED BY <1>1, <1>2, <1>3, <1>4, <1>5, <1>6, <1>7, <1>8, <1>9 DEF Next, Serve, Elsewhere
-----------------------------------------------------------------------------
(* The ids below the next one, while the sequence is in order: those of    *)
(* the rows, of the inserts in flight, and of the demo widgets.            *)
IdsBelowNext ==
    sequence \in {"ahead", "rewound"} =>
        /\ \A i \in Ids : Exists(i) => i < next
        /\ \A r \in Slots : Inserting(r) => req[r].id < next
        /\ \A i \in DemoIds : i < next

(* It is the property and what the demo rows add to it.                    *)
LEMMA IdsBelowNextIs ==
    TypeOK => (IdsBelowNext <=> NextIdIsFree /\ DemoIdsHandedOut)
BY DEF IdsBelowNext, NextIdIsFree, DemoIdsHandedOut, Inserting

(* Every step keeps the ids below the next one.                            *)
LEMMA IdsBelowNextStep ==
    ASSUME TypeOK, IdsBelowNext, [Next]_vars
    PROVE  IdsBelowNext'
<1> USE DEF IdsBelowNext, Inserting, Exists, TypeOK
<1> USE DemoIdsAreIds, IdsAreNumbers
<1>a. \A q \in Slots : req[q].pc = "insert" => req[q].id \in Ids
    BY RequestFields
<1>1. ASSUME NEW r \in Slots, NEW t \in Tenants, NEW n \in Names, NEW c \in Valid,
             Create(r, [tenant |-> t, name |-> n, config |-> c])
      PROVE  IdsBelowNext'
    <2>1. \A q \in Slots : req'[q].pc = "insert" =>
              req'[q].id = next \/ (req[q].pc = "insert" /\ req'[q] = req[q])
        BY <1>1, Creates
    <2>2. UNCHANGED <<widgets, sequence>> /\ next' = next + 1
        BY <1>1, Creates
    <2> QED BY <1>a, <2>1, <2>2
<1>2. ASSUME NEW r \in Slots, NEW t \in Tenants, NEW i \in Ids,
             \/ Get(r, t, i)
             \/ \E ask \in Ask : Patch(r, t, i, ask)
             \/ Delete(r, t, i)
      PROVE  IdsBelowNext'
    <2>1. \A q \in Slots : req'[q].pc = "insert" => req'[q] = req[q]
        BY <1>2, Loads
    <2>2. UNCHANGED <<widgets, next, sequence>>
        BY <1>2, Loads
    <2> QED BY <2>1, <2>2
<1>3. ASSUME NEW r \in Slots, CommitCreate(r)
      PROVE  IdsBelowNext'
    <2>1. \A q \in Slots : req'[q].pc = "insert" => req'[q] = req[q]
        BY <1>3 DEF CommitCreate, Answered, Idle
    <2>2. \A i \in Ids : i # req[r].id => widgets'[i] = widgets[i]
        BY <1>3 DEF CommitCreate
    <2>3. req[r].pc = "insert" /\ UNCHANGED <<next, sequence>>
        BY <1>3 DEF CommitCreate, Proceed
    <2> QED BY <2>1, <2>2, <2>3, <1>a
<1>4. ASSUME NEW r \in Slots, Flush(r) \/ Refresh(r) \/ Erase(r)
      PROVE  IdsBelowNext'
    <2>1. \A q \in Slots : req'[q].pc = "insert" => req'[q] = req[q]
        BY <1>4 DEF Flush, Refresh, Erase, Answered, Idle
    <2>2. UNCHANGED <<next, sequence>>
        BY <1>4 DEF Flush, Refresh, Erase, Proceed
    <2>3. \A i \in Ids : Exists(i)' => Exists(i)
        <3>1. CASE Flush(r)
            BY <3>1 DEF Flush
        <3>2. CASE Refresh(r)
            BY <3>2 DEF Refresh
        <3>3. CASE Erase(r)
            BY <3>3 DEF Erase
        <3> QED BY <1>4, <3>1, <3>2, <3>3
    <2> QED BY <2>1, <2>2, <2>3
<1>7. CASE SeedWidgets
    BY <1>7 DEF SeedWidgets
<1>8. CASE ResetSequence
    <2>1. next' = HighestId + 1 /\ UNCHANGED <<widgets, req>>
        BY <1>8 DEF ResetSequence, AfterSetval
    <2>2. \A i \in Ids : Exists(i) => i < next'
        BY <2>1, HighestIsHighest
    <2>3. sequence' \in {"ahead", "rewound"} =>
              /\ \A r \in Slots : req[r].pc = "insert" => ~(req[r].id >= next')
              /\ \A i \in DemoIds : ~(i >= next')
        BY <1>8 DEF ResetSequence
    <2>4. next' \in Nat
        BY <2>1, HighestIsHighest
    <2> QED BY <2>1, <2>2, <2>3, <2>4, <1>a
<1>9. CASE Elsewhere \/ UNCHANGED vars
    BY <1>9, ElsewhereKeeps
<1> QED BY <1>1, <1>2, <1>3, <1>4, <1>7, <1>8, <1>9 DEF Next, Serve, Elsewhere
-----------------------------------------------------------------------------
(* The four parts of OneTenantPerId, once for all.                         *)
InOrder == RowsKeepTenant /\ InsertsTakeOwnId /\ LoadedIsOwned /\ InsertsApart

(* A create keeps the ids in order: the id it takes is new, and belongs to *)
(* no row, no other insert, no loaded widget and no demo widget.           *)
LEMMA CreateInOrder ==
    ASSUME TypeOK, OneTenantPerId, IdsBelowNext, Orderly',
           NEW r \in Slots, NEW t \in Tenants, NEW n \in Names, NEW c \in Valid,
           Create(r, [tenant |-> t, name |-> n, config |-> c])
    PROVE  InOrder'
<1> USE DEF Inserting, Loaded, Exists, TypeOK
<1> USE DemoIdsAreIds, IdsAreNumbers
<1>1. sequence = "ahead"
    BY Creates DEF Orderly
<1>2. InOrder /\ \A i \in DemoIds : i < next
    BY <1>1 DEF OneTenantPerId, Orderly, IdsBelowNext, InOrder
<1>3. /\ UNCHANGED <<widgets, sequence>> /\ next' = next + 1 /\ next \in Ids
      /\ \A q \in Slots \ {r} : req'[q] = req[q]
      /\ req'[r].pc = "idle" \/ (req'[r].pc = "insert" /\ req'[r].id = next)
    BY Creates
<1>4. \A i \in Ids : (i \in DemoIds \/ i < next) => i < next
    BY <1>2
<1>a. \A q \in Slots : req[q].pc \in {"insert", "flush", "erase"} => req[q].id \in Ids
    BY RequestFields
<1>5. \A q \in Slots \ {r} : req[q].pc \in {"insert", "flush", "erase"} => req[q].id < next
    BY <1>2, <1>4, <1>a DEF InOrder, InsertsTakeOwnId, LoadedIsOwned, Given
<1>6. RowsKeepTenant'
    BY <1>2, <1>3, <1>4 DEF InOrder, RowsKeepTenant, Given
<1>7. InsertsTakeOwnId'
    BY <1>2, <1>3, <1>a DEF InOrder, InsertsTakeOwnId
<1>8. LoadedIsOwned'
    BY <1>2, <1>3, <1>4, <1>a DEF InOrder, LoadedIsOwned, Given
<1>9. InsertsApart'
    BY <1>2, <1>3, <1>5, <1>a DEF InOrder, InsertsApart
<1> QED BY <1>6, <1>7, <1>8, <1>9 DEF InOrder

(* A load keeps them in order: it holds an id that has a row, of the       *)
(* tenant that asks.                                                       *)
LEMMA LoadInOrder ==
    ASSUME TypeOK, OneTenantPerId, InsertsAreNew, Orderly',
           NEW r \in Slots, NEW t \in Tenants, NEW i \in Ids,
           \/ Get(r, t, i)
           \/ \E ask \in Ask : Patch(r, t, i, ask)
           \/ Delete(r, t, i)
    PROVE  InOrder'
<1> USE DEF Inserting, Exists, TypeOK
<1>1. /\ UNCHANGED <<widgets, next, sequence>>
      /\ \A q \in Slots \ {r} : req'[q] = req[q]
      /\ req'[r].pc \in {"idle", "flush", "erase"}
      /\ Loaded(r)' => Owned(t, i) /\ req'[r].id = i /\ req'[r].by = t
    BY Loads
<1>2. InOrder
    BY <1>1 DEF OneTenantPerId, Orderly, InOrder
<1>3. RowsKeepTenant'
    BY <1>1, <1>2 DEF InOrder, RowsKeepTenant, Given
<1>4. InsertsTakeOwnId'
    BY <1>1, <1>2 DEF InOrder, InsertsTakeOwnId
<1>5. LoadedIsOwned'
    <2> SUFFICES ASSUME NEW q \in Slots, Loaded(q)'
                 PROVE  /\ Given(req[q].id)'
                        /\ req'[q].id \in DemoIds => req'[q].by = DemoOwner[req'[q].id]
                        /\ Exists(req[q].id)' => req'[q].by = widgets'[req'[q].id].tenant
        BY DEF LoadedIsOwned
    <2>1. CASE q # r
        BY <2>1, <1>1, <1>2 DEF InOrder, LoadedIsOwned, Given, Loaded
    <2>2. CASE q = r
        BY <2>2, <1>1, <1>2 DEF InOrder, RowsKeepTenant, Given, Owned
    <2> QED BY <2>1, <2>2
<1>6. InsertsApart'
    <2> SUFFICES ASSUME NEW p \in Slots, NEW q \in Slots, Inserting(p)', p # q,
                        Inserting(q)' \/ Loaded(q)'
                 PROVE  req'[p].id # req'[q].id
        BY DEF InsertsApart
    <2>1. p # r /\ req'[p] = req[p] /\ Inserting(p)
        BY <1>1
    <2>2. CASE q # r
        BY <2>1, <2>2, <1>1, <1>2 DEF InOrder, InsertsApart, Loaded
    <2>3. CASE q = r
        BY <2>1, <2>3, <1>1 DEF InsertsAreNew, Owned
    <2> QED BY <2>2, <2>3
<1> QED BY <1>3, <1>4, <1>5, <1>6 DEF InOrder

(* A commit, a refresh or an erase keeps them in order: an insert puts a   *)
(* row where nobody loaded one, and the others put none.                   *)
LEMMA WriteInOrder ==
    ASSUME TypeOK, OneTenantPerId, Orderly', NEW r \in Slots,
           CommitCreate(r) \/ Flush(r) \/ Refresh(r) \/ Erase(r)
    PROVE  InOrder'
<1> USE DEF Inserting, Loaded, Exists, TypeOK
<1>a. \A q \in Slots : req[q].pc \in {"insert", "flush", "erase"} => req[q].id \in Ids
    BY RequestFields
<1>1. UNCHANGED <<next, sequence>>
    BY DEF CommitCreate, Flush, Refresh, Erase, Proceed
<1>2. InOrder
    BY <1>1 DEF OneTenantPerId, Orderly, InOrder
<1>3. \A q \in Slots : \/ req'[q] = req[q] /\ (q = r => ~CommitCreate(r))
                       \/ req'[q].pc \in {"idle", "refresh"}
    BY DEF CommitCreate, Flush, Refresh, Erase, Answered, Idle
<1>4. ASSUME ~CommitCreate(r), NEW i \in Ids, widgets'[i] # NoRow
      PROVE  Exists(i) /\ widgets'[i].tenant = widgets[i].tenant
    <2>1. CASE Flush(r)
        <3>1. req[r].id \in Ids /\ req[r].write \in Ask
            BY <2>1, RequestFields DEF Flush
        <3>2. CASE UNCHANGED widgets
            BY <3>2, <1>4
        <3>3. CASE /\ Exists(req[r].id)
                   /\ widgets' = [widgets EXCEPT ![req[r].id] = Written(@, req[r].write)]
            BY <3>1, <3>3, <1>4, WrittenIsRow
        <3> QED BY <2>1, <3>2, <3>3 DEF Flush
    <2>2. CASE Refresh(r)
        BY <2>2, <1>4 DEF Refresh
    <2>3. CASE Erase(r)
        BY <2>3, <1>4 DEF Erase
    <2> QED BY <1>4, <2>1, <2>2, <2>3
<1>5. ASSUME CommitCreate(r), NEW i \in Ids, i # req[r].id
      PROVE  widgets'[i] = widgets[i]
    BY <1>5 DEF CommitCreate
<1>6. ASSUME CommitCreate(r)
      PROVE  /\ req[r].pc = "insert" /\ req[r].id < next /\ req[r].id \notin DemoIds
             /\ \A q \in Slots : q # r /\ (Inserting(q) \/ Loaded(q)) => req[q].id # req[r].id
    BY <1>6, <1>2 DEF CommitCreate, InOrder, InsertsTakeOwnId, InsertsApart
<1>7. RowsKeepTenant'
    <2> SUFFICES ASSUME NEW i \in Ids, widgets'[i] # NoRow
                 PROVE  Given(i)' /\ (i \in DemoIds => widgets'[i].tenant = DemoOwner[i])
        BY DEF RowsKeepTenant
    <2>1. CASE ~CommitCreate(r)
        BY <2>1, <1>1, <1>2, <1>4 DEF InOrder, RowsKeepTenant, Given
    <2>2. CASE CommitCreate(r) /\ i # req[r].id
        BY <2>2, <1>1, <1>2, <1>5 DEF InOrder, RowsKeepTenant, Given
    <2>3. CASE CommitCreate(r) /\ i = req[r].id
        BY <2>3, <1>1, <1>6 DEF Given
    <2> QED BY <2>1, <2>2, <2>3
<1>8. InsertsTakeOwnId'
    BY <1>1, <1>2, <1>3 DEF InOrder, InsertsTakeOwnId
<1>9. LoadedIsOwned'
    <2> SUFFICES ASSUME NEW q \in Slots, Loaded(q), req'[q] = req[q], q = r => ~CommitCreate(r)
                 PROVE  /\ Given(req[q].id)'
                        /\ req[q].id \in DemoIds => req[q].by = DemoOwner[req[q].id]
                        /\ widgets'[req[q].id] # NoRow => req[q].by = widgets'[req[q].id].tenant
        BY <1>3 DEF LoadedIsOwned
    <2>1. Given(req[q].id)' /\ (req[q].id \in DemoIds => req[q].by = DemoOwner[req[q].id])
        BY <1>1, <1>2 DEF InOrder, LoadedIsOwned, Given
    <2>2. CASE ~CommitCreate(r)
        BY <2>1, <2>2, <1>2, <1>4, <1>a DEF InOrder, LoadedIsOwned
    <2>3. CASE CommitCreate(r)
        BY <2>1, <2>3, <1>2, <1>5, <1>6, <1>a DEF InOrder, LoadedIsOwned
    <2> QED BY <2>2, <2>3
<1>10. InsertsApart'
    BY <1>2, <1>3 DEF InOrder, InsertsApart
<1> QED BY <1>7, <1>8, <1>9, <1>10 DEF InOrder

(* The seed keeps them in order: it brings demo rows back, with their      *)
(* tenants, and its setval leaves the sequence in order only where the     *)
(* next id is above all of them.                                           *)
LEMMA SeedInOrder ==
    ASSUME TypeOK, OneTenantPerId, IdsBelowNext, Orderly', SeedWidgets \/ ResetSequence
    PROVE  InOrder'
<1> USE DEF Inserting, Loaded, Exists, TypeOK
<1>a. \A q \in Slots : req[q].pc \in {"insert", "flush", "erase"} => req[q].id \in Ids
    BY RequestFields
<1>1. CASE SeedWidgets
    <2>1. UNCHANGED <<next, sequence, req>>
        BY <1>1 DEF SeedWidgets
    <2>2. InOrder
        BY <2>1 DEF OneTenantPerId, Orderly, InOrder
    <2>3. \A i \in Ids : \/ widgets'[i] = widgets[i]
                         \/ i \in DemoIds /\ widgets'[i].tenant = DemoOwner[i]
        BY <1>1, DemoRowIsRow DEF SeedWidgets, Valid
    <2>4. RowsKeepTenant'
        BY <2>1, <2>2, <2>3 DEF InOrder, RowsKeepTenant, Given
    <2>5. LoadedIsOwned'
        BY <2>1, <2>2, <2>3, <1>a DEF InOrder, LoadedIsOwned, Given
    <2> QED BY <2>1, <2>2, <2>4, <2>5 DEF InOrder, InsertsTakeOwnId, InsertsApart
<1>2. CASE ResetSequence
    <2> USE DemoIdsAreIds, IdsAreNumbers
    <2>1. next' = HighestId + 1 /\ UNCHANGED <<widgets, req>>
        BY <1>2 DEF ResetSequence, AfterSetval
    <2>2. /\ sequence' = "ahead"
          /\ \A r \in Slots : req[r].pc = "insert" => ~(req[r].id >= next')
          /\ \A i \in DemoIds : ~(i >= next')
          /\ \/ sequence = "ahead" /\ ~(next' < next)
             \/ sequence = "unset" /\ ~(next > 1)
        BY <1>2 DEF ResetSequence, Orderly
    <2>3. HighestId \in Ids /\ \A i \in Ids : Exists(i) => i <= HighestId
        BY HighestIsHighest
    <2>4. InOrder
        BY <2>2, next \in 1..(MaxId + 1) DEF OneTenantPerId, Orderly, InOrder
    <2>5. \A i \in Ids : Given(i) => i < next'
        BY <2>1, <2>2, <2>3 DEF Given
    <2>6. RowsKeepTenant'
        BY <2>1, <2>4, <2>5 DEF InOrder, RowsKeepTenant, Given
    <2>7. InsertsTakeOwnId'
        BY <2>1, <2>2, <2>3, <2>4, <1>a DEF InOrder, InsertsTakeOwnId
    <2>8. LoadedIsOwned'
        BY <2>1, <2>4, <2>5, <1>a DEF InOrder, LoadedIsOwned, Given
    <2>9. InsertsApart'
        BY <2>1, <2>4 DEF InOrder, InsertsApart
    <2> QED BY <2>6, <2>7, <2>8, <2>9 DEF InOrder
<1> QED BY <1>1, <1>2
-----------------------------------------------------------------------------
(* The invariant holds at the start.                                       *)
LEMMA InvInit == Init => Inv
<1> SUFFICES ASSUME Init PROVE Inv
    OBVIOUS
<1> USE DEF Init, Idle, Inserting, Loaded
<1>1. TypeOK
    BY TypeInit
<1>2. \A r \in Slots : req[r].pc = "idle"
    OBVIOUS
<1>3. \A i \in Ids : Exists(i) => sequence = "ahead" /\ i \in DemoIds /\ widgets[i] = DemoRow(i, Unreadable)
    BY DEF Exists
<1>4. sequence = "ahead" => next = Len(DemoOwner) + 1
    BY DemoIdsAreIds
<1>5. \A i \in DemoIds : sequence = "ahead" => i < next
    BY <1>4, DemoIdsAreIds
<1>6. sequence \in {"unset", "ahead"}
    OBVIOUS
<1>7. NextIdIsFree /\ DemoIdsHandedOut
    BY <1>1, <1>2, <1>3, <1>5, <1>6 DEF NextIdIsFree, DemoIdsHandedOut
<1>8. InsertsAreNew /\ WritesAreAskedFor
    BY <1>2 DEF InsertsAreNew, WritesAreAskedFor
<1>9. LagWithinAge
    BY EmbedAssumption DEF LagWithinAge, ShownIsRecent
<1>10. RowsKeepTenant
    BY <1>3, DemoRowIsRow DEF RowsKeepTenant, Given
<1>11. InsertsTakeOwnId /\ LoadedIsOwned /\ InsertsApart
    BY <1>2 DEF InsertsTakeOwnId, LoadedIsOwned, InsertsApart
<1> QED BY <1>7, <1>8, <1>9, <1>10, <1>11 DEF Inv, OneTenantPerId

(* Every step keeps the types.                                             *)
LEMMA TypeStep ==
    ASSUME TypeOK, LagWithinAge, [Next]_vars
    PROVE  TypeOK'
<1>1. CASE UNCHANGED vars
    BY <1>1 DEF vars, store, browser, TypeOK
<1> QED BY <1>1, TypeServe, TypeSeed, BrowserStep DEF Next

(* Every step keeps the copy no further behind than it is old.             *)
LEMMA LagStep ==
    ASSUME TypeOK, LagWithinAge, [Next]_vars
    PROVE  LagWithinAge'
<1> USE DEF LagWithinAge, ShownIsRecent
<1>1. ASSUME NEW r \in Slots, Serve(r)
      PROVE  UNCHANGED browser
    BY <1>1 DEF Serve, Create, Get, Patch, Delete, Load, Arrive,
                CommitCreate, Flush, Refresh, Erase, Proceed
<1>2. CASE SeedWidgets \/ ResetSequence \/ SeedDies \/ UNCHANGED vars
    BY <1>2 DEF SeedWidgets, ResetSequence, SeedDies, vars, browser
<1> QED BY <1>1, <1>2, BrowserStep DEF Next, browser

(* Every step that leaves the ids in order keeps one tenant for each.      *)
LEMMA OneTenantStep ==
    ASSUME TypeOK, OneTenantPerId, InsertsAreNew, IdsBelowNext, [Next]_vars
    PROVE  OneTenantPerId'
<1> SUFFICES ASSUME Orderly' PROVE InOrder'
    BY DEF OneTenantPerId, InOrder
<1>1. CASE Elsewhere \/ UNCHANGED vars
    BY <1>1, ElsewhereKeeps
       DEF OneTenantPerId, InOrder, Orderly, RowsKeepTenant, InsertsTakeOwnId, LoadedIsOwned,
           InsertsApart, Given, Exists, Inserting, Loaded
<1>2. ASSUME NEW r \in Slots, Serve(r)
      PROVE  InOrder'
    BY <1>2, CreateInOrder, LoadInOrder, WriteInOrder DEF Serve
<1> QED BY <1>1, <1>2, SeedInOrder DEF Next, Elsewhere

(* Every step keeps the invariant.                                         *)
LEMMA InvStep == Inv /\ [Next]_vars => Inv'
<1> SUFFICES ASSUME Inv, [Next]_vars PROVE Inv'
    OBVIOUS
<1>1. TypeOK /\ IdsBelowNext
    BY IdsBelowNextIs DEF Inv, NextIdIsFree
<1>2. TypeOK'
    BY <1>1, TypeStep DEF Inv
<1>3. IdsBelowNext'
    BY <1>1, IdsBelowNextStep
<1>4. NextIdIsFree' /\ DemoIdsHandedOut'
    BY <1>2, <1>3 DEF IdsBelowNext, NextIdIsFree, DemoIdsHandedOut, Inserting
<1>5. InsertsAreNew' /\ WritesAreAskedFor'
    BY <1>1, RequestsStep DEF Inv
<1>6. LagWithinAge'
    BY <1>1, LagStep DEF Inv
<1>7. OneTenantPerId'
    BY <1>1, OneTenantStep DEF Inv
<1> QED BY <1>4, <1>5, <1>6, <1>7 DEF Inv

(* The invariant holds in every state the store can reach.                 *)
THEOREM WidgetStoreInv == Spec => []Inv
<1> QED BY InvInit, InvStep, PTL DEF Spec

(* Once a seed has completed, the id the next create gets is free: no row, *)
(* and no insert in flight, has it, unless setval fell behind an insert or *)
(* a deleted demo row.                                                     *)
THEOREM NextIdFree == Spec => []NextIdIsFree
<1>1. Inv => NextIdIsFree
    BY DEF Inv
<1> QED BY <1>1, WidgetStoreInv, PTL

(* A form on another site is out of date by less than max-age, however     *)
(* many times the server answered 304.                                     *)
THEOREM FormIsRecent == Spec => []ShownIsRecent
<1>1. Inv => ShownIsRecent
    BY DEF Inv, LagWithinAge
<1> QED BY <1>1, WidgetStoreInv, PTL

(* Until the seed rewinds the sequence, a widget is edited or deleted by   *)
(* requests of its tenant only, although UPDATE and DELETE go by id alone. *)
THEOREM WidgetsChangedByOwner == Spec => OwnWidgetsOnly
<1> DEFINE ByOwner == \A i \in Ids :
              sequence = "ahead" /\ Exists(i) /\ widgets'[i] # widgets[i] =>
                 \E r \in Slots : /\ req[r].pc \in {"flush", "erase"}
                                  /\ req[r].id = i
                                  /\ req[r].by = widgets[i].tenant
<1>1. Inv /\ [Next]_vars => [ByOwner]_vars
    <2> SUFFICES ASSUME Inv, [Next]_vars, NEW i \in Ids, sequence = "ahead", Exists(i),
                        widgets'[i] # widgets[i]
                 PROVE  \E r \in Slots : /\ req[r].pc \in {"flush", "erase"}
                                         /\ req[r].id = i
                                         /\ req[r].by = widgets[i].tenant
        OBVIOUS
    <2>1. TypeOK /\ InsertsAreNew /\ LoadedIsOwned
        BY DEF Inv, NextIdIsFree, OneTenantPerId, Orderly
    <2>2. PICK r \in Slots : \/ CommitCreate(r)
                            \/ Flush(r)
                            \/ Erase(r)
        <3>1. ASSUME NEW r \in Slots, NEW t \in Tenants, NEW n \in Names, NEW c \in Valid,
                     Create(r, [tenant |-> t, name |-> n, config |-> c])
              PROVE  FALSE
            BY <3>1, <2>1, Creates
        <3>2. ASSUME NEW r \in Slots, NEW t \in Tenants, NEW j \in Ids,
                     \/ Get(r, t, j)
                     \/ \E ask \in Ask : Patch(r, t, j, ask)
                     \/ Delete(r, t, j)
              PROVE  FALSE
            BY <3>2, <2>1, Loads
        <3>3. ASSUME NEW r \in Slots, Refresh(r)
              PROVE  FALSE
            BY <3>3 DEF Refresh
        <3>4. ~SeedWidgets /\ ~ResetSequence
            BY DEF SeedWidgets, ResetSequence, Exists
        <3>5. ~(Elsewhere \/ UNCHANGED vars)
            BY ElsewhereKeeps
        <3> QED BY <3>1, <3>2, <3>3, <3>4, <3>5 DEF Next, Serve, Elsewhere
    <2>3. i = req[r].id
        BY <2>1, <2>2 DEF CommitCreate, Flush, Erase, TypeOK
    <2>4. ~CommitCreate(r)
        BY <2>1, <2>3 DEF CommitCreate, InsertsAreNew, Inserting
    <2>5. Loaded(r)
        BY <2>2, <2>4 DEF Flush, Erase, Loaded
    <2> QED BY <2>1, <2>3, <2>5 DEF LoadedIsOwned, Loaded
<1>2. []Inv /\ [][Next]_vars => [][ByOwner]_vars
    BY <1>1, PTL
<1> QED BY <1>2, WidgetStoreInv, PTL DEF Spec, OwnWidgetsOnly

(* Two PATCHes that overlap do not undo each other: a column takes a value *)
(* some PATCH of this widget asked for, never one it had merely loaded,    *)
(* and no PATCH brings a deleted widget back.                              *)
THEOREM EditsKeepEachOther == Spec => EditsAreAskedFor
<1> DEFINE Asked(i, r) ==
              /\ req[r].pc = "flush" /\ req[r].id = i
              /\ \A c \in {"name", "config"} :
                    widgets'[i][c] \in {widgets[i][c], req[r].ask[c]}
              /\ widgets'[i].tenant = widgets[i].tenant
           ByEdit == \A i \in Ids : widgets'[i] # widgets[i] /\ widgets'[i] # NoRow =>
              IF Exists(i)
              THEN \E r \in Slots : Asked(i, r)
              ELSE \/ seeds' # seeds
                   \/ \E r \in Slots : req[r].pc = "insert" /\ req[r].id = i
<1>1. Inv /\ [Next]_vars => [ByEdit]_vars
    <2> SUFFICES ASSUME Inv, [Next]_vars, NEW i \in Ids,
                        widgets'[i] # widgets[i], widgets'[i] # NoRow
                 PROVE  IF Exists(i)
                        THEN \E r \in Slots : Asked(i, r)
                        ELSE \/ seeds' # seeds
                             \/ \E r \in Slots : req[r].pc = "insert" /\ req[r].id = i
        OBVIOUS
    <2>1. TypeOK /\ InsertsAreNew /\ WritesAreAskedFor
        BY DEF Inv, NextIdIsFree
    <2> HIDE DEF Asked
    <2>2. CASE SeedWidgets
        <3>1. ~Exists(i) /\ seeds' = seeds + 1 /\ seeds \in Nat
            BY <2>1, <2>2, BoundAssumption DEF SeedWidgets, TypeOK
        <3> QED BY <3>1
    <2>3. ASSUME NEW r \in Slots, CommitCreate(r)
          PROVE  ~Exists(i) /\ req[r].pc = "insert" /\ req[r].id = i
        BY <2>1, <2>3 DEF CommitCreate, TypeOK, InsertsAreNew, Inserting
    <2>4. ASSUME NEW r \in Slots, Flush(r)
          PROVE  Exists(i) /\ Asked(i, r)
        <3> DEFINE write == req[r].write
        <3>1. /\ req[r].pc = "flush" /\ req[r].id = i /\ Exists(i) /\ write \in Ask
              /\ widgets'[i] = Written(widgets[i], write) /\ widgets[i] \in Row
            BY <2>1, <2>4, RequestFields DEF Flush, TypeOK, Exists
        <3>2. \A c \in {"name", "config"} : write[c] \in {Keep, req[r].ask[c]}
            BY <2>1, <3>1 DEF WritesAreAskedFor
        <3> HIDE DEF write
        <3>3. /\ widgets'[i].tenant = widgets[i].tenant
              /\ \A c \in {"name", "config"} :
                    widgets'[i][c] = IF write[c] = Keep THEN widgets[i][c] ELSE write[c]
            BY <3>1, WrittenIsRow
        <3>4. \A c \in {"name", "config"} :
                 widgets'[i][c] \in {widgets[i][c], req[r].ask[c]}
            BY <3>2, <3>3
        <3> QED BY <3>1, <3>3, <3>4 DEF Asked
    <2>5. ASSUME NEW r \in Slots, Erase(r)
          PROVE  FALSE
        BY <2>1, <2>5 DEF Erase, TypeOK
    <2>6. ASSUME NEW r \in Slots, NEW t \in Tenants, NEW n \in Names, NEW c \in Valid,
                 Create(r, [tenant |-> t, name |-> n, config |-> c])
          PROVE  FALSE
        BY <2>6, <2>1, Creates
    <2>7. ASSUME NEW r \in Slots, NEW t \in Tenants, NEW j \in Ids,
                 \/ Get(r, t, j)
                 \/ \E ask \in Ask : Patch(r, t, j, ask)
                 \/ Delete(r, t, j)
          PROVE  FALSE
        BY <2>7, <2>1, Loads
    <2>8. ASSUME NEW r \in Slots, Refresh(r)
          PROVE  FALSE
        BY <2>8 DEF Refresh
    <2>9. ~(ResetSequence \/ Elsewhere \/ UNCHANGED vars)
        BY ElsewhereKeeps DEF ResetSequence
    <2> QED BY <2>2, <2>3, <2>4, <2>5, <2>6, <2>7, <2>8, <2>9 DEF Next, Serve, Elsewhere
<1>2. []Inv /\ [][Next]_vars => [][ByEdit]_vars
    BY <1>1, PTL
<1> QED BY <1>2, WidgetStoreInv, PTL DEF Spec, EditsAreAskedFor
=============================================================================
