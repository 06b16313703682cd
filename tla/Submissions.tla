---------------------------- MODULE Submissions -----------------------------
(***************************************************************************)
(* The public submission endpoint against the database it writes to:       *)
(* app/api/routes/public_submissions.py with the submission, outbox and    *)
(* widget repositories, and the owner's create and delete of a widget,     *)
(* which run at the same time.                                             *)
(*                                                                         *)
(* A request has one session and one transaction: it reads the widget,     *)
(* INSERTs the lead (flush), INSERTs the notification intent under a       *)
(* savepoint, commits once, and answers.  The INSERT of a lead takes a key *)
(* share lock on its widget row, so it waits for a DELETE of the widget    *)
(* that is not committed yet, and a DELETE waits for it.  The DELETE       *)
(* cascades to the leads; no foreign key ties an intent to a lead.         *)
(***************************************************************************)
EXTENDS Naturals, FiniteSets

CONSTANTS
    Requests,     \* submission requests of visitors
    Widgets,      \* widget ids
    Tenants,
    NoTenant,     \* the widget row does not exist
    NoRequest,    \* the lead row does not exist, or the intent
    LeadIds,      \* values of the sequence of submissions.id
    MaxCrashes    \* bound: how often the backend may be killed

ASSUME NoneAssumption == NoTenant \notin Tenants /\ NoRequest \notin Requests
ASSUME IdsAssumption == LeadIds \subseteq Nat \ {0} /\ MaxCrashes \in Nat

VARIABLES
    owner,      \* owner[w]: tenant_id of the committed widget row
    deleting,   \* widgets a transaction has deleted and not committed
    leads,      \* leads[i]: the committed submissions row with id i
    intents,    \* intents[i]: who enqueued the outbox row for lead i
    nextId,     \* the sequence of submissions.id
    pc,         \* where each request is
    target,     \* the widget_id in the path
    read,       \* the tenant_id read with the widget
    draft,      \* the id of the uncommitted lead of a request, 0 if none
    noticed,    \* whether the uncommitted intent is there too
    answer,     \* the answer the visitor saw
    crashes,
    bereft      \* history: requests whose widget is deleted since they read it

tables == <<owner, deleting, leads, intents, nextId>>
session == <<pc, target, read, draft, noticed>>
vars == <<tables, session, answer, crashes, bereft>>
-----------------------------------------------------------------------------
Place == {"idle", "limit", "lookup", "validate", "insert", "enqueue",
          "commit", "answer", "done"}
Answer == {"none", "accepted", "limited", "unknown_widget", "invalid",
           "dropped", "error"}
Lead == [request: Requests, widget: Widgets, tenant: Tenants]
NoLead == [request |-> NoRequest]

TypeOK ==
    /\ owner \in [Widgets -> Tenants \cup {NoTenant}]
    /\ deleting \subseteq Widgets
    /\ leads \in [LeadIds -> Lead \cup {NoLead}]
    /\ intents \in [LeadIds -> Requests \cup {NoRequest}]
    /\ nextId \in Nat \ {0}
    /\ pc \in [Requests -> Place]
    /\ target \in [Requests -> Widgets]
    /\ read \in [Requests -> Tenants \cup {NoTenant}]
    /\ draft \in [Requests -> LeadIds \cup {0}]
    /\ noticed \in [Requests -> BOOLEAN]
    /\ answer \in [Requests -> Answer]
    /\ crashes \in Nat
    /\ bereft \subseteq Requests

Init ==
    /\ owner = [w \in Widgets |-> NoTenant]
    /\ deleting = {}
    /\ leads = [i \in LeadIds |-> NoLead]
    /\ intents = [i \in LeadIds |-> NoRequest]
    /\ nextId = 1
    /\ pc = [r \in Requests |-> "idle"]
    /\ target \in [Requests -> Widgets]
    /\ read = [r \in Requests |-> NoTenant]
    /\ draft = [r \in Requests |-> 0]
    /\ noticed = [r \in Requests |-> FALSE]
    /\ answer = [r \in Requests |-> "none"]
    /\ crashes = 0
    /\ bereft = {}
-----------------------------------------------------------------------------
(* The owner's side: app/repositories/widgets.py.                          *)

(* The id is that of no row, but it may have been: the seed inserts demo   *)
(* ids again and setval takes the sequence back (WidgetStore).             *)
CreateWidget(t, w) ==
    /\ owner[w] = NoTenant
    /\ owner' = [owner EXCEPT ![w] = t]
    /\ UNCHANGED <<deleting, leads, intents, nextId,
                   session, answer, crashes, bereft>>

(* Uncommitted leads of w: their foreign key check locked the widget row.  *)
Referrers_None(w) == {}
Referrers(w) == {r \in Requests : draft[r] # 0 /\ target[r] = w}

(* _get_record finds the row of the caller's tenant; DELETE locks it.      *)
BeginDelete(w) ==
    /\ owner[w] # NoTenant
    /\ w \notin deleting
    /\ Referrers(w) = {}
    /\ deleting' = deleting \cup {w}
    /\ UNCHANGED <<owner, leads, intents, nextId,
                   session, answer, crashes, bereft>>

(* ON DELETE CASCADE.                                                      *)
Cascaded(w) ==
    [i \in LeadIds |-> IF leads[i] # NoLead /\ leads[i].widget = w
                       THEN NoLead ELSE leads[i]]

(* Who has read w and goes on to store a lead, or has stored one.          *)
Noticed == {r \in Requests : \E i \in LeadIds : intents[i] = r}
Readers(w) ==
    {r \in Requests : target[r] = w /\ (read[r] # NoTenant \/ r \in Noticed)}

CommitDelete(w) ==
    /\ w \in deleting
    /\ owner' = [owner EXCEPT ![w] = NoTenant]
    /\ bereft' = bereft \cup Readers(w)
    /\ leads' = Cascaded(w)
    /\ deleting' = deleting \ {w}
    /\ UNCHANGED <<intents, nextId, session, answer, crashes>>

(* A statement timeout or a lost connection rolls the DELETE back.         *)
AbortDelete(w) ==
    /\ w \in deleting
    /\ deleting' = deleting \ {w}
    /\ UNCHANGED <<owner, leads, intents, nextId,
                   session, answer, crashes, bereft>>
-----------------------------------------------------------------------------
(* The visitor's side: create_submission.                                  *)

At(r, here, there) ==
    pc[r] = here /\ pc' = [pc EXCEPT ![r] = there]

Arrive(r) ==
    /\ At(r, "idle", "limit")
    /\ UNCHANGED <<tables, target, read, draft, noticed, answer, crashes, bereft>>

(* The request ends with an answer; closing its session rolls back what it *)
(* has not committed, and what it has read is forgotten.                   *)
End(r, a) ==
    /\ answer' = [answer EXCEPT ![r] = a]
    /\ pc' = [pc EXCEPT ![r] = "done"]
    /\ draft' = [draft EXCEPT ![r] = 0]
    /\ noticed' = [noticed EXCEPT ![r] = FALSE]
    /\ read' = [read EXCEPT ![r] = NoTenant]
    /\ UNCHANGED <<target, crashes, bereft>>

(* The route's dependency, before any of its own work.  The limiter may    *)
(* raise KeyError instead of deciding.                                     *)
EnforceLimits(r) ==
    /\ pc[r] = "limit"
    /\ \/ /\ At(r, "limit", "lookup")
          /\ UNCHANGED <<target, read, draft, noticed, answer, crashes, bereft>>
       \/ \E a \in {"limited", "error"} : End(r, a)
    /\ UNCHANGED tables

LookUpWidget(r) ==
    /\ pc[r] = "lookup"
    /\ \/ /\ owner[target[r]] = NoTenant
          /\ End(r, "unknown_widget")
       \/ /\ owner[target[r]] # NoTenant
          /\ At(r, "lookup", "validate")
          /\ read' = [read EXCEPT ![r] = owner[target[r]]]
          /\ UNCHANGED <<target, draft, noticed, answer, crashes, bereft>>
    /\ UNCHANGED tables

(* The payload is invalid, or trips the honeypot, or is good; then comes   *)
(* the geo lookup, which never fails the request.  A visitor whose lead is *)
(* dropped sees the same 202 as one whose lead is accepted; the model      *)
(* tells the two apart.                                                    *)
Validate(r) ==
    /\ pc[r] = "validate"
    /\ \/ End(r, "invalid")
       \/ End(r, "dropped")
       \/ /\ At(r, "validate", "insert")
          /\ UNCHANGED <<target, read, draft, noticed, answer, crashes, bereft>>
    /\ UNCHANGED tables

(* The id an INSERT gets: nextval, which no rollback takes back.           *)
IdFor_RowsPlusOne == Cardinality({i \in LeadIds : leads[i] # NoLead}) + 1
IdFor == nextId

(* submissions.create, when the widget row is still there.                 *)
InsertLead(r) ==
    /\ At(r, "insert", "enqueue")
    /\ IdFor \in LeadIds
    /\ target[r] \notin deleting
    /\ owner[target[r]] # NoTenant
    /\ draft' = [draft EXCEPT ![r] = IdFor]
    /\ nextId' = nextId + 1
    /\ UNCHANGED <<owner, deleting, leads, intents,
                   target, read, noticed, answer, crashes, bereft>>

(* ... and when it was deleted since the lookup: the foreign key fails.    *)
ForeignKeyFails_Unhandled(r) == FALSE
ForeignKeyFails(r) ==
    /\ pc[r] = "insert"
    /\ target[r] \notin deleting
    /\ owner[target[r]] = NoTenant
    /\ End(r, "error")
    /\ nextId' = nextId + 1
    /\ UNCHANGED <<owner, deleting, leads, intents>>

(* outbox.enqueue: a duplicate key undoes the savepoint only.              *)
Enqueue(r) ==
    /\ At(r, "enqueue", "commit")
    /\ noticed' = [noticed EXCEPT ![r] = (intents[draft[r]] = NoRequest)]
    /\ UNCHANGED <<tables, target, read, draft, answer, crashes, bereft>>

NewLead(r) == [request |-> r, widget |-> target[r], tenant |-> read[r]]
Written_Nothing(r) == UNCHANGED <<leads, intents>>
Written_LeadOnly(r) ==
    leads' = [leads EXCEPT ![draft[r]] = NewLead(r)] /\ UNCHANGED intents
Written(r) ==
    /\ leads' = [leads EXCEPT ![draft[r]] = NewLead(r)]
    /\ intents' = IF noticed[r] THEN [intents EXCEPT ![draft[r]] = r]
                                ELSE intents

Commit(r) ==
    /\ At(r, "commit", "answer")
    /\ Written(r)
    /\ draft' = [draft EXCEPT ![r] = 0]
    /\ noticed' = [noticed EXCEPT ![r] = FALSE]
    /\ UNCHANGED <<owner, deleting, nextId,
                   target, read, answer, crashes, bereft>>

Respond(r) ==
    /\ pc[r] = "answer"
    /\ End(r, "accepted")
    /\ UNCHANGED tables

(* A database error anywhere: the visitor sees 500, the transaction rolls  *)
(* back.  Lock waits end this way after statement_timeout.                 *)
DatabaseError(r) ==
    /\ pc[r] \in {"lookup", "insert", "enqueue", "commit"}
    /\ End(r, "error")
    /\ UNCHANGED tables

(* The connection is lost during COMMIT: it happened, the visitor sees 500.*)
CommitUnseen(r) ==
    /\ pc[r] = "commit"
    /\ Written(r)
    /\ End(r, "error")
    /\ UNCHANGED <<owner, deleting, nextId>>

(* The backend process dies with all it is serving.                        *)
Open == {r \in Requests : pc[r] \notin {"idle", "done"}}
Crash ==
    /\ crashes < MaxCrashes
    /\ crashes' = crashes + 1
    /\ pc' = [r \in Requests |-> IF r \in Open THEN "done" ELSE pc[r]]
    /\ answer' = [r \in Requests |-> IF r \in Open THEN "error" ELSE answer[r]]
    /\ draft' = [r \in Requests |-> 0]
    /\ noticed' = [r \in Requests |-> FALSE]
    /\ read' = [r \in Requests |-> NoTenant]
    /\ deleting' = {}
    /\ UNCHANGED <<owner, leads, intents, nextId, target, bereft>>

Serve(r) ==
    \/ EnforceLimits(r) \/ LookUpWidget(r) \/ Validate(r)
    \/ InsertLead(r) \/ ForeignKeyFails(r) \/ Enqueue(r)
    \/ Commit(r) \/ Respond(r)

EndDelete(w) == CommitDelete(w) \/ AbortDelete(w)

Next ==
    \/ \E w \in Widgets : BeginDelete(w) \/ EndDelete(w)
                          \/ \E t \in Tenants : CreateWidget(t, w)
    \/ \E r \in Requests :
        Arrive(r) \/ Serve(r) \/ DatabaseError(r) \/ CommitUnseen(r)
    \/ Crash

Spec == Init /\ [][Next]_vars

(* Threads of a live process run on, and a transaction that deletes a      *)
(* widget ends.  Row locks are granted in the order they are asked for, so *)
(* an INSERT is not passed over by one DELETE after the other.  No error   *)
(* and no timeout is assumed to happen.                                    *)
Fairness ==
    /\ \A r \in Requests : SF_vars(Serve(r))
    /\ \A w \in Widgets : WF_vars(EndDelete(w))
FairSpec == Spec /\ Fairness
-----------------------------------------------------------------------------
(* The intent enqueued under a lead's key is the one of the request that   *)
(* stored the lead: the key submission:<id>:created identifies it, and no  *)
(* lead is stored without the intent to notify its owner.                  *)
LeadHasItsIntent ==
    \A i \in LeadIds : leads[i] # NoLead => intents[i] = leads[i].request

(* Its widget is there, and a lead belongs to the tenant that owns it,     *)
(* although the tenant was read long before the row was inserted, unless   *)
(* the widget was deleted between the two: the foreign key is on the id    *)
(* alone, and the id may have been given to a widget of another tenant.    *)
LeadsBelongToOwner ==
    \A i \in LeadIds : leads[i] # NoLead =>
        /\ owner[leads[i].widget] # NoTenant
        /\ leads[i].request \notin bereft =>
                owner[leads[i].widget] = leads[i].tenant

(* The intent of r is committed, and its lead unless the widget is gone.   *)
Durable(r) == \E i \in LeadIds :
                /\ intents[i] = r
                /\ leads[i] = NoLead => r \in bereft

(* A visitor told "accepted" has a durable intent, and the lead itself as  *)
(* long as its widget lives.                                               *)
AcceptedIsDurable ==
    \A r \in Requests : answer[r] = "accepted" => Durable(r)

(* A deleted lead stays deleted, and its id is never given to another.     *)
ErasedStaysErased ==
    [][\A i \in LeadIds :
        leads[i] = NoLead /\ intents[i] # NoRequest => leads'[i] = NoLead]_vars

(* The requests being served are all answered in the end, also when their  *)
(* widget goes while they wait (each visitor sends one).                   *)
EveryRequestAnswered == Open # {} ~> Open = {}

(* The endpoint keeps the promise of LeadIntake.                           *)
HasLead(r) == \E i \in LeadIds : leads[i] # NoLead /\ leads[i].request = r
Intake == INSTANCE LeadIntake
    WITH lead <- [r \in Requests |-> IF HasLead(r) THEN "stored"
                                     ELSE IF r \in Noticed THEN "erased"
                                     ELSE "none"],
         notice <- Noticed
IntakePromise == Intake!Spec
-----------------------------------------------------------------------------
(* The strengthening that makes the invariants above inductive.            *)

(* No lead is being added to a widget that is being deleted.               *)
WidgetsConsistent == \A w \in deleting : Referrers(w) = {}

(* What a request read of its widget holds until the widget is deleted.    *)
ReadHolds(r) ==
    pc[r] \in {"validate", "insert", "enqueue", "commit"} =>
        /\ read[r] \in Tenants
        /\ owner[target[r]] = read[r] \/ r \in bereft

(* An uncommitted lead keeps its widget alive, and its id is its own.      *)
DraftHolds(r) ==
    /\ draft[r] # 0 <=> pc[r] \in {"enqueue", "commit"}
    /\ draft[r] # 0 =>
        /\ owner[target[r]] # NoTenant
        /\ draft[r] < nextId
        /\ leads[draft[r]] = NoLead
        /\ intents[draft[r]] = NoRequest
        /\ \A q \in Requests : draft[q] = draft[r] => q = r
    /\ pc[r] = "commit" => noticed[r]

FreshIds == \A i \in LeadIds : i >= nextId =>
                leads[i] = NoLead /\ intents[i] = NoRequest

LeadsOfTargets == \A i \in LeadIds : leads[i] # NoLead =>
                    leads[i].widget = target[leads[i].request]

PromiseKept(r) == pc[r] = "answer" \/ answer[r] = "accepted" => Durable(r)

IntakeInv ==
    /\ TypeOK /\ WidgetsConsistent /\ FreshIds /\ LeadsOfTargets
    /\ LeadHasItsIntent /\ LeadsBelongToOwner
    /\ \A r \in Requests : ReadHolds(r) /\ DraftHolds(r) /\ PromiseKept(r)
=============================================================================
