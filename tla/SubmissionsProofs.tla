-------------------------- MODULE SubmissionsProofs -------------------------
(***************************************************************************)
(* Theorems about Submissions for any number of requests, widgets and      *)
(* tenants, and any number of crashes.                                     *)
(***************************************************************************)
EXTENDS Submissions, TLAPS

(* What IntakeInv says of one request.                                     *)
RequestOK(r) == ReadHolds(r) /\ DraftHolds(r) /\ PromiseKept(r)

(* What it says of the tables.                                             *)
TablesOK ==
    /\ WidgetsConsistent /\ FreshIds /\ LeadsOfTargets
    /\ LeadHasItsIntent /\ LeadsBelongToOwner

(* Each answer leaves the request's variables well-typed.                  *)
LEMMA EndTypeOK ==
    ASSUME TypeOK, NEW r \in Requests, NEW a \in Answer, End(r, a)
    PROVE  /\ pc' \in [Requests -> Place] /\ target' \in [Requests -> Widgets]
           /\ read' \in [Requests -> Tenants \cup {NoTenant}]
           /\ draft' \in [Requests -> LeadIds \cup {0}]
           /\ noticed' \in [Requests -> BOOLEAN]
           /\ answer' \in [Requests -> Answer] /\ crashes' \in Nat
           /\ bereft' \subseteq Requests
<1> USE DEF TypeOK, End
<1>1. pc' \in [Requests -> Place] /\ answer' \in [Requests -> Answer]
  BY DEF Place
<1>2. draft' \in [Requests -> LeadIds \cup {0}]
  OBVIOUS
<1>3. noticed' \in [Requests -> BOOLEAN]
  OBVIOUS
<1>4. read' \in [Requests -> Tenants \cup {NoTenant}]
  OBVIOUS
<1> QED
  BY <1>1, <1>2, <1>3, <1>4

(* A commit writes a lead of a tenant and an intent of a request.          *)
LEMMA WrittenTypeOK ==
    ASSUME TypeOK, NEW r \in Requests, Written(r), read[r] \in Tenants
    PROVE  /\ leads' \in [LeadIds -> Lead \cup {NoLead}]
           /\ intents' \in [LeadIds -> Requests \cup {NoRequest}]
<1>1. NewLead(r) \in Lead
  BY DEF TypeOK, NewLead, Lead
<1> QED
  BY <1>1 DEF TypeOK, Written

(* No step leaves the types, as long as what was read is a tenant.         *)
LEMMA NextTypeOK == ASSUME TypeOK, \A r \in Requests : ReadHolds(r), Next
                    PROVE  TypeOK'
<1> USE DEF tables, session, At
<1>1. ASSUME NEW w \in Widgets, NEW t \in Tenants, CreateWidget(t, w)
      PROVE  TypeOK'
  BY <1>1 DEF CreateWidget, TypeOK
<1>2. ASSUME NEW w \in Widgets, BeginDelete(w) \/ AbortDelete(w) PROVE TypeOK'
  BY <1>2 DEF BeginDelete, AbortDelete, TypeOK
<1>3. ASSUME NEW w \in Widgets, CommitDelete(w) PROVE TypeOK'
  BY <1>3 DEF CommitDelete, Cascaded, Readers, TypeOK
<1>4. ASSUME NEW r \in Requests, Arrive(r) PROVE TypeOK'
  BY <1>4 DEF Arrive, TypeOK, Place
<1>5. ASSUME NEW r \in Requests,
             \/ EnforceLimits(r) \/ LookUpWidget(r) \/ Validate(r)
             \/ Respond(r) \/ DatabaseError(r)
      PROVE  TypeOK'
  <2>1. ASSUME NEW a \in Answer, End(r, a), UNCHANGED tables PROVE TypeOK'
    BY <2>1, EndTypeOK DEF TypeOK
  <2>2. {"limited", "unknown_widget", "invalid", "dropped", "accepted",
         "error"} \subseteq Answer
    BY DEF Answer
  <2>3. CASE UNCHANGED <<tables, target, draft, noticed, answer, crashes, bereft>>
                /\ \E p \in Place : pc' = [pc EXCEPT ![r] = p]
                /\ \E t \in Tenants \cup {NoTenant} :
                        read' = [read EXCEPT ![r] = t]
    BY <2>3 DEF TypeOK
  <2>4. read = [read EXCEPT ![r] = read[r]]
            /\ read[r] \in Tenants \cup {NoTenant}
            /\ owner[target[r]] \in Tenants \cup {NoTenant}
    BY DEF TypeOK
  <2> QED
    BY <1>5, <2>1, <2>2, <2>3, <2>4
    DEF EnforceLimits, LookUpWidget, Validate, Respond, DatabaseError, Place
<1>6. ASSUME NEW r \in Requests, InsertLead(r) PROVE TypeOK'
  BY <1>6 DEF InsertLead, IdFor, TypeOK, Place
<1>7. ASSUME NEW r \in Requests, ForeignKeyFails(r) PROVE TypeOK'
  <2>1. "error" \in Answer
    BY DEF Answer
  <2>2. nextId' \in Nat \ {0}
    BY <1>7 DEF ForeignKeyFails, TypeOK
  <2> QED
    BY <1>7, <2>1, <2>2, EndTypeOK DEF ForeignKeyFails, TypeOK
<1>8. ASSUME NEW r \in Requests, Enqueue(r) PROVE TypeOK'
  BY <1>8 DEF Enqueue, TypeOK, Place
<1>9. ASSUME NEW r \in Requests, Commit(r) PROVE TypeOK'
  <2>1. read[r] \in Tenants
    BY <1>9 DEF Commit, ReadHolds
  <2> QED
    BY <1>9, <2>1, WrittenTypeOK DEF Commit, TypeOK, Place
<1>10. ASSUME NEW r \in Requests, CommitUnseen(r) PROVE TypeOK'
  <2>1. read[r] \in Tenants /\ "error" \in Answer
    BY <1>10 DEF CommitUnseen, ReadHolds, Answer
  <2> QED
    BY <1>10, <2>1, WrittenTypeOK, EndTypeOK DEF CommitUnseen, TypeOK
<1>11. ASSUME Crash PROVE TypeOK'
  BY <1>11 DEF Crash, TypeOK, Place, Answer
<1> QED
  BY <1>1, <1>2, <1>3, <1>4, <1>5, <1>6, <1>7, <1>8, <1>9, <1>10, <1>11
  DEF Next, Serve, EndDelete
-----------------------------------------------------------------------------
(* The rest of IntakeInv, action by action.                                *)

(* A row is never confused with an empty one.                              *)
LEMMA NewLeadIsLead == ASSUME NEW r \in Requests PROVE NewLead(r) # NoLead
<1>1. NewLead(r).request = r /\ NoLead.request = NoRequest
  BY DEF NewLead, NoLead
<1> QED
  BY <1>1, NoneAssumption

(* Ending a request without touching the rows keeps everything.            *)
LEMMA EndKeeps ==
    ASSUME IntakeInv, NEW r \in Requests, NEW a \in Answer, End(r, a),
           a = "accepted" => pc[r] = "answer",
           UNCHANGED <<owner, deleting, leads, intents>>,
           nextId' \in {nextId, nextId + 1}
    PROVE  TablesOK' /\ \A q \in Requests : RequestOK(q)'
<1> USE DEF IntakeInv
<1>1. WidgetsConsistent' /\ FreshIds'
  BY IdsAssumption DEF WidgetsConsistent, Referrers, FreshIds, End, TypeOK
<1>2. LeadsOfTargets' /\ LeadHasItsIntent' /\ LeadsBelongToOwner'
  BY DEF LeadsOfTargets, LeadHasItsIntent, LeadsBelongToOwner, End
<1>3. ASSUME NEW q \in Requests PROVE ReadHolds(q)'
  BY <1>3 DEF ReadHolds, End, TypeOK
<1>4. ASSUME NEW q \in Requests PROVE DraftHolds(q)'
  <2>1. CASE q = r
    BY <2>1 DEF DraftHolds, End, TypeOK
  <2>2. CASE q # r
    <3>1. pc'[q] = pc[q] /\ draft'[q] = draft[q] /\ noticed'[q] = noticed[q]
      BY <2>2 DEF End, TypeOK
    <3>2. nextId <= nextId' /\ \A p \in Requests : draft'[p] \in {0, draft[p]}
      BY DEF End, TypeOK
    <3>3. DraftHolds(q)
      OBVIOUS
    <3>4. pc'[q] = "commit" => noticed'[q]
      BY <3>1, <3>3 DEF DraftHolds
    <3>5. CASE draft[q] = 0
      BY <3>1, <3>3, <3>4, <3>5 DEF DraftHolds
    <3>6. CASE draft[q] # 0
      <4>1. draft[q] \in Nat /\ draft[q] < nextId /\ nextId \in Nat
        BY <3>3, <3>6, IdsAssumption DEF DraftHolds, TypeOK
      <4>2. draft[q] < nextId'
        BY <4>1
      <4>3. \A p \in Requests : draft'[p] = draft'[q] => p = q
        BY <3>1, <3>2, <3>3, <3>6 DEF DraftHolds
      <4>4. UNCHANGED <<owner, leads, intents, target>>
        BY DEF End
      <4> QED
        BY <3>1, <3>3, <3>4, <3>6, <4>2, <4>3, <4>4 DEF DraftHolds
    <3> QED
      BY <3>5, <3>6
  <2> QED
    BY <2>1, <2>2
<1>5. ASSUME NEW q \in Requests PROVE PromiseKept(q)'
  <2>1. Durable(q) => Durable(q)'
    BY DEF Durable, End
  <2>2. pc'[q] = "answer" \/ answer'[q] = "accepted" =>
            pc[q] = "answer" \/ answer[q] = "accepted"
    BY DEF End, TypeOK
  <2> QED
    BY <2>1, <2>2 DEF PromiseKept
<1> QED
  BY <1>1, <1>2, <1>3, <1>4, <1>5 DEF TablesOK, RequestOK

(* So does going on to a place where nothing new is promised.              *)
LEMMA MoveKeeps ==
    ASSUME IntakeInv, NEW r \in Requests, NEW here, NEW there,
           At(r, here, there),
           UNCHANGED <<tables, target, draft, answer, bereft>>,
           \/ /\ there \in {"limit", "lookup"}
              /\ draft[r] = 0 /\ UNCHANGED <<read, noticed>>
           \/ /\ there = "validate" /\ draft[r] = 0 /\ UNCHANGED noticed
              /\ owner[target[r]] # NoTenant
              /\ read' = [read EXCEPT ![r] = owner[target[r]]]
           \/ /\ here = "validate" /\ there = "insert"
              /\ UNCHANGED <<read, noticed>>
           \/ /\ here = "enqueue" /\ there = "commit" /\ UNCHANGED read
              /\ noticed' = [noticed EXCEPT ![r] = TRUE]
    PROVE  TablesOK' /\ \A q \in Requests : RequestOK(q)'
<1> USE DEF IntakeInv, At, tables
<1>1. WidgetsConsistent' /\ FreshIds'
  BY DEF WidgetsConsistent, Referrers, FreshIds
<1>2. LeadsOfTargets' /\ LeadHasItsIntent' /\ LeadsBelongToOwner'
  BY DEF LeadsOfTargets, LeadHasItsIntent, LeadsBelongToOwner
<1>3. ASSUME NEW q \in Requests PROVE ReadHolds(q)'
  BY <1>3 DEF ReadHolds, TypeOK
<1>4. ASSUME NEW q \in Requests PROVE DraftHolds(q)'
  <2>1. draft[q] = 0 => ~(pc[q] \in {"enqueue", "commit"})
    BY DEF DraftHolds
  <2>2. CASE q = r /\ there \in {"limit", "lookup", "validate", "insert"}
    <3>1. draft[q] = 0
      BY <2>2 DEF DraftHolds
    <3> QED
      BY <2>2, <3>1 DEF DraftHolds, TypeOK
  <2>3. CASE q = r /\ there = "commit"
    BY <2>3 DEF DraftHolds, TypeOK
  <2>4. CASE q # r
    <3>1. pc'[q] = pc[q] /\ noticed'[q] = noticed[q]
      BY <2>4 DEF TypeOK
    <3> QED
      BY <3>1, <2>4 DEF DraftHolds
  <2> QED
    BY <2>2, <2>3, <2>4
<1>5. ASSUME NEW q \in Requests PROVE PromiseKept(q)'
  BY <1>5 DEF PromiseKept, Durable, TypeOK
<1> QED
  BY <1>1, <1>2, <1>3, <1>4, <1>5 DEF TablesOK, RequestOK

(* Creating a widget: no lead refers to an id of no row, and who has read  *)
(* the row that had it before is bereft.                                   *)
LEMMA CreateWidgetKeeps ==
    ASSUME IntakeInv, NEW t \in Tenants, NEW w \in Widgets, CreateWidget(t, w)
    PROVE  TablesOK' /\ \A q \in Requests : RequestOK(q)'
<1> USE DEF IntakeInv, CreateWidget, session
<1>1. \A v \in Widgets : v # w => owner'[v] = owner[v]
  BY DEF TypeOK
<1>2. WidgetsConsistent' /\ FreshIds' /\ LeadsOfTargets' /\ LeadHasItsIntent'
  BY <1>1 DEF WidgetsConsistent, Referrers, FreshIds, LeadsOfTargets,
              LeadHasItsIntent, TypeOK
<1>3. LeadsBelongToOwner'
  <2> SUFFICES ASSUME NEW i \in LeadIds, leads[i] # NoLead
               PROVE  owner'[leads[i].widget] = owner[leads[i].widget]
    BY DEF LeadsBelongToOwner
  <2>1. leads[i].widget \in Widgets
    BY DEF TypeOK, Lead
  <2>2. leads[i].widget # w
    BY DEF LeadsBelongToOwner
  <2> QED
    BY <1>1, <2>1, <2>2
<1>4. ASSUME NEW q \in Requests PROVE RequestOK(q)'
  <2>1. target[q] \in Widgets
    BY DEF TypeOK
  <2>2. ReadHolds(q)'
    BY <1>1, <2>1, NoneAssumption DEF ReadHolds
  <2>3. DraftHolds(q)'
    <3>1. draft[q] # 0 => target[q] # w
      BY DEF DraftHolds
    <3> QED
      BY <1>1, <2>1, <3>1 DEF DraftHolds
  <2>4. PromiseKept(q)'
    BY DEF PromiseKept, Durable
  <2> QED
    BY <2>2, <2>3, <2>4 DEF RequestOK
<1> QED
  BY <1>2, <1>3, <1>4 DEF TablesOK

(* Locking a widget for a DELETE, or giving the DELETE up.                 *)
LEMMA LockingKeeps ==
    ASSUME IntakeInv, NEW w \in Widgets, BeginDelete(w) \/ AbortDelete(w)
    PROVE  TablesOK' /\ \A q \in Requests : RequestOK(q)'
<1> USE DEF IntakeInv, BeginDelete, AbortDelete, session
<1>1. UNCHANGED <<owner, leads, intents, nextId, session, answer, bereft>>
  OBVIOUS
<1>2. WidgetsConsistent'
  BY DEF WidgetsConsistent, Referrers
<1>3. FreshIds' /\ LeadsOfTargets' /\ LeadHasItsIntent' /\ LeadsBelongToOwner'
  BY <1>1 DEF FreshIds, LeadsOfTargets, LeadHasItsIntent, LeadsBelongToOwner
<1>4. ASSUME NEW q \in Requests PROVE RequestOK(q)'
  BY <1>1 DEF RequestOK, ReadHolds, DraftHolds, PromiseKept, Durable
<1> QED
  BY <1>2, <1>3, <1>4 DEF TablesOK

(* The cascade: only leads of the deleted widget go, and nobody holds an   *)
(* uncommitted lead of it.                                                 *)
LEMMA CommitDeleteKeeps ==
    ASSUME IntakeInv, NEW w \in Widgets, CommitDelete(w)
    PROVE  TablesOK' /\ \A q \in Requests : RequestOK(q)'
<1> USE DEF IntakeInv, CommitDelete, session
<1>1. \A v \in Widgets : owner'[v] = IF v = w THEN NoTenant ELSE owner[v]
  BY DEF TypeOK
<1>2. \A i \in LeadIds :
        leads'[i] # NoLead =>
            leads'[i] = leads[i] /\ leads[i] # NoLead /\ leads[i].widget # w
  BY DEF Cascaded
<1>3. \A i \in LeadIds :
        leads'[i] = NoLead /\ leads[i] # NoLead => leads[i].widget = w
  BY DEF Cascaded
<1>4. WidgetsConsistent'
  BY <1>1 DEF WidgetsConsistent, Referrers, TypeOK
<1>5. FreshIds' /\ LeadsOfTargets' /\ LeadHasItsIntent'
  BY <1>2 DEF FreshIds, LeadsOfTargets, LeadHasItsIntent
<1>6. LeadsBelongToOwner'
  <2>1. \A i \in LeadIds : leads[i] # NoLead => leads[i].widget \in Widgets
    BY DEF TypeOK, Lead
  <2> QED
    BY <1>1, <1>2, <2>1 DEF LeadsBelongToOwner
<1>7. ASSUME NEW q \in Requests PROVE RequestOK(q)'
  <2>1. target[q] \in Widgets
    BY DEF TypeOK
  <2>2. ReadHolds(q)'
    BY <1>1, <2>1, NoneAssumption DEF ReadHolds, Readers
  <2>3. DraftHolds(q)'
    <3>1. draft[q] # 0 => target[q] # w /\ draft[q] \in LeadIds
      BY DEF WidgetsConsistent, Referrers, TypeOK
    <3>2. draft[q] # 0 => leads'[draft[q]] = NoLead
      BY <1>2, <3>1 DEF DraftHolds
    <3> QED
      BY <1>1, <2>1, <3>1, <3>2 DEF DraftHolds
  <2>4. Durable(q) => Durable(q)'
    <3> SUFFICES ASSUME NEW i \in LeadIds, intents[i] = q,
                        leads[i] = NoLead => q \in bereft
                 PROVE  Durable(q)'
      BY DEF Durable
    <3>1. leads[i] # NoLead => leads[i].widget = target[q]
      BY DEF LeadHasItsIntent, LeadsOfTargets
    <3>2. q \in Noticed
      BY DEF Noticed
    <3>3. leads'[i] = NoLead => q \in bereft'
      BY <1>3, <3>1, <3>2 DEF Readers
    <3> QED
      BY <3>3 DEF Durable
  <2> QED
    BY <2>2, <2>3, <2>4 DEF RequestOK, PromiseKept
<1> QED
  BY <1>4, <1>5, <1>6, <1>7 DEF TablesOK

(* Inserting a lead: the id is fresh, and the widget is held from now on.  *)
LEMMA InsertLeadKeeps ==
    ASSUME IntakeInv, NEW r \in Requests, InsertLead(r)
    PROVE  TablesOK' /\ \A q \in Requests : RequestOK(q)'
<1> USE DEF IntakeInv, InsertLead, At, IdFor
<1>1. nextId \in Nat \ {0} /\ nextId \in LeadIds /\ nextId' = nextId + 1
  BY DEF TypeOK
<1>2. \A q \in Requests : draft'[q] = IF q = r THEN nextId ELSE draft[q]
  BY DEF TypeOK
<1>3. \A q \in Requests : draft[q] # 0 => draft[q] \in Nat /\ draft[q] < nextId
  <2> SUFFICES ASSUME NEW q \in Requests, draft[q] # 0
               PROVE  draft[q] \in Nat /\ draft[q] < nextId
    OBVIOUS
  <2>1. DraftHolds(q)
    OBVIOUS
  <2> QED
    BY <2>1, IdsAssumption DEF DraftHolds, TypeOK
<1>4. WidgetsConsistent'
  BY <1>2 DEF WidgetsConsistent, Referrers
<1>5. FreshIds'
  BY <1>1, IdsAssumption DEF FreshIds
<1>6. LeadsOfTargets' /\ LeadHasItsIntent' /\ LeadsBelongToOwner'
  BY DEF LeadsOfTargets, LeadHasItsIntent, LeadsBelongToOwner
<1>7. ASSUME NEW q \in Requests PROVE RequestOK(q)'
  <2>1. ReadHolds(q)'
    BY DEF ReadHolds, TypeOK
  <2>2. ASSUME q = r PROVE DraftHolds(q)'
    <3>1. owner'[target[r]] # NoTenant
      OBVIOUS
    <3>2. leads[nextId] = NoLead /\ intents[nextId] = NoRequest
      BY <1>1, IdsAssumption DEF FreshIds
    <3>3. \A p \in Requests : draft'[p] = nextId => p = r
      BY <1>1, <1>2, <1>3
    <3>4. pc'[r] = "enqueue" /\ draft'[r] = nextId /\ nextId # 0
      BY <1>1, <1>2 DEF TypeOK
    <3> QED
      BY <1>1, <2>2, <3>1, <3>2, <3>3, <3>4 DEF DraftHolds
  <2>3. ASSUME q # r PROVE DraftHolds(q)'
    <3>1. pc'[q] = pc[q] /\ draft'[q] = draft[q]
      BY <1>2, <2>3 DEF TypeOK
    <3>2. DraftHolds(q)
      OBVIOUS
    <3>3. CASE draft[q] # 0
      <4>1. draft[q] < nextId' /\ draft[q] # nextId
        BY <1>1, <1>3, <3>3
      <4> QED
        BY <1>2, <2>3, <3>1, <3>2, <3>3, <4>1 DEF DraftHolds
    <3> QED
      BY <3>1, <3>2, <3>3 DEF DraftHolds
  <2>4. PromiseKept(q)'
    BY DEF PromiseKept, Durable, TypeOK
  <2> QED
    BY <2>1, <2>2, <2>3, <2>4 DEF RequestOK
<1> QED
  BY <1>4, <1>5, <1>6, <1>7 DEF TablesOK

(* What a commit writes is one new lead with its intent, and it keeps the  *)
(* tables and the promises made to others.                                 *)
LEMMA WrittenKeeps ==
    ASSUME IntakeInv, NEW r \in Requests, pc[r] = "commit", Written(r),
           draft' = [draft EXCEPT ![r] = 0],
           UNCHANGED <<owner, deleting, nextId, target, bereft>>
    PROVE  /\ TablesOK'
           /\ \A q \in Requests : Durable(q) => Durable(q)'
           /\ Durable(r)'
           /\ \A q \in Requests : q # r /\ draft[q] # 0 =>
                    leads'[draft[q]] = NoLead /\ intents'[draft[q]] = NoRequest
<1> USE DEF IntakeInv
<1> DEFINE d == draft[r]
<1>1. /\ d # 0 /\ d \in LeadIds /\ d \in Nat /\ d < nextId /\ noticed[r]
      /\ owner[target[r]] # NoTenant
      /\ owner[target[r]] = read[r] \/ r \in bereft
      /\ leads[d] = NoLead /\ intents[d] = NoRequest
  BY IdsAssumption DEF DraftHolds, ReadHolds, TypeOK
<1>2. /\ \A i \in LeadIds : leads'[i] = IF i = d THEN NewLead(r) ELSE leads[i]
      /\ \A i \in LeadIds : intents'[i] = IF i = d THEN r ELSE intents[i]
  BY <1>1 DEF Written, TypeOK
<1>3. NewLead(r) # NoLead
  BY NewLeadIsLead
<1>4. WidgetsConsistent'
  <2>1. \A w \in Widgets : Referrers(w)' \subseteq Referrers(w)
    BY DEF Referrers, TypeOK
  <2> QED
    BY <2>1 DEF WidgetsConsistent, TypeOK
<1>5. FreshIds'
  <2>1. nextId \in Nat /\ ~(d >= nextId)
    BY <1>1 DEF TypeOK
  <2> QED
    BY <1>2, <2>1 DEF FreshIds
<1>6. LeadsOfTargets' /\ LeadHasItsIntent' /\ LeadsBelongToOwner'
  <2>1. /\ NewLead(r).request = r /\ NewLead(r).widget = target[r]
        /\ NewLead(r).tenant = read[r]
    BY DEF NewLead
  <2>2. LeadsOfTargets'
    BY <1>2, <2>1 DEF LeadsOfTargets
  <2>3. LeadHasItsIntent'
    BY <1>2, <2>1 DEF LeadHasItsIntent
  <2>4. LeadsBelongToOwner'
    BY <1>1, <1>2, <2>1 DEF LeadsBelongToOwner
  <2> QED
    BY <2>2, <2>3, <2>4
<1>7. ASSUME NEW q \in Requests, Durable(q) PROVE Durable(q)'
  <2>1. PICK i \in LeadIds : intents[i] = q
                             /\ (leads[i] = NoLead => q \in bereft)
    BY <1>7 DEF Durable
  <2>2. i # d
    BY <1>1, <2>1, NoneAssumption
  <2> QED
    BY <1>2, <2>1, <2>2 DEF Durable
<1>8. Durable(r)'
  <2>1. intents'[d] = r /\ leads'[d] # NoLead
    BY <1>1, <1>2, <1>3
  <2> QED
    BY <1>1, <2>1 DEF Durable
<1>9. ASSUME NEW q \in Requests, q # r, draft[q] # 0
      PROVE  leads'[draft[q]] = NoLead /\ intents'[draft[q]] = NoRequest
  <2>1. draft[q] # d /\ draft[q] \in LeadIds
    BY <1>9 DEF DraftHolds, TypeOK
  <2> QED
    BY <1>2, <1>9, <2>1 DEF DraftHolds
<1> QED
  BY <1>4, <1>5, <1>6, <1>7, <1>8, <1>9 DEF TablesOK

(* Committing, whether the visitor hears of it or not.                     *)
LEMMA CommitKeeps ==
    ASSUME IntakeInv, NEW r \in Requests, Commit(r) \/ CommitUnseen(r)
    PROVE  TablesOK' /\ \A q \in Requests : RequestOK(q)'
<1> USE DEF IntakeInv
<1>1. /\ pc[r] = "commit" /\ Written(r)
      /\ draft' = [draft EXCEPT ![r] = 0]
      /\ noticed' = [noticed EXCEPT ![r] = FALSE]
      /\ UNCHANGED <<owner, deleting, nextId, target, bereft>>
      /\ read' \in {read, [read EXCEPT ![r] = NoTenant]}
      /\ \E there \in {"answer", "done"} : pc' = [pc EXCEPT ![r] = there]
      /\ \A q \in Requests : answer'[q] = "accepted" => answer[q] = "accepted"
  BY DEF Commit, CommitUnseen, At, End, TypeOK
<1>2. /\ TablesOK' /\ Durable(r)'
      /\ \A q \in Requests : Durable(q) => Durable(q)'
      /\ \A q \in Requests : q # r /\ draft[q] # 0 =>
                leads'[draft[q]] = NoLead /\ intents'[draft[q]] = NoRequest
  BY <1>1, WrittenKeeps
<1>3. ASSUME NEW q \in Requests PROVE RequestOK(q)'
  <2>1. CASE q = r
    <3>1. pc'[r] \in {"answer", "done"} /\ draft'[r] = 0
      BY <1>1 DEF TypeOK
    <3> QED
      BY <1>2, <2>1, <3>1 DEF RequestOK, ReadHolds, DraftHolds, PromiseKept
  <2>2. CASE q # r
    <3>1. /\ pc'[q] = pc[q] /\ draft'[q] = draft[q] /\ noticed'[q] = noticed[q]
          /\ read'[q] = read[q]
      BY <1>1, <2>2 DEF TypeOK
    <3>2. \A p \in Requests : draft'[p] \in {0, draft[p]}
      BY <1>1 DEF TypeOK
    <3>3. ReadHolds(q)'
      BY <1>1, <3>1 DEF ReadHolds
    <3>4. DraftHolds(q)
      OBVIOUS
    <3>5. DraftHolds(q)'
      BY <1>1, <1>2, <2>2, <3>1, <3>2, <3>4 DEF DraftHolds
    <3>6. PromiseKept(q)'
      BY <1>1, <1>2, <3>1 DEF PromiseKept
    <3> QED
      BY <3>3, <3>5, <3>6 DEF RequestOK
  <2> QED
    BY <2>1, <2>2
<1> QED
  BY <1>2, <1>3

(* A crash rolls every open transaction back.                              *)
LEMMA CrashKeeps ==
    ASSUME IntakeInv, Crash
    PROVE  TablesOK' /\ \A q \in Requests : RequestOK(q)'
<1> USE DEF IntakeInv, Crash
<1>1. \A q \in Requests : /\ pc'[q] \in {"idle", "done"} /\ draft'[q] = 0
                          /\ answer'[q] = "accepted" => answer[q] = "accepted"
  BY DEF Open, Place, TypeOK
<1>2. WidgetsConsistent'
  BY DEF WidgetsConsistent, Referrers
<1>3. FreshIds' /\ LeadsOfTargets' /\ LeadHasItsIntent' /\ LeadsBelongToOwner'
  BY DEF FreshIds, LeadsOfTargets, LeadHasItsIntent, LeadsBelongToOwner
<1>4. ASSUME NEW q \in Requests PROVE RequestOK(q)'
  BY <1>1 DEF RequestOK, ReadHolds, DraftHolds, PromiseKept, Durable
<1> QED
  BY <1>2, <1>3, <1>4 DEF TablesOK
-----------------------------------------------------------------------------
(* IntakeInv is inductive, and the invariants the runs check follow.       *)

(* The empty database satisfies the inductive invariant.                   *)
LEMMA InitHolds == Init => IntakeInv
<1> SUFFICES ASSUME Init PROVE IntakeInv
  OBVIOUS
<1> USE DEF Init
<1>1. TypeOK
  BY IdsAssumption DEF TypeOK, Place, Answer
<1>2. TablesOK
  BY DEF TablesOK, WidgetsConsistent, FreshIds, LeadsOfTargets,
         LeadHasItsIntent, LeadsBelongToOwner
<1>3. ASSUME NEW r \in Requests PROVE RequestOK(r)
  BY DEF RequestOK, ReadHolds, DraftHolds, PromiseKept
<1> QED
  BY <1>1, <1>2, <1>3 DEF IntakeInv, TablesOK, RequestOK

(* One step of a request that has no effect on the tables.                 *)
LEMMA ServeKeeps ==
    ASSUME IntakeInv, NEW r \in Requests,
           \/ Arrive(r) \/ EnforceLimits(r) \/ LookUpWidget(r) \/ Validate(r)
           \/ ForeignKeyFails(r) \/ Enqueue(r) \/ Respond(r) \/ DatabaseError(r)
    PROVE  TablesOK' /\ \A q \in Requests : RequestOK(q)'
<1> USE DEF IntakeInv
<1>1. pc[r] \in {"idle", "limit", "lookup", "validate"} => draft[r] = 0
  BY DEF DraftHolds, TypeOK
<1>2. CASE Arrive(r)
  BY <1>1, <1>2, MoveKeeps DEF Arrive, At
<1>3. ASSUME NEW a \in Answer, End(r, a), UNCHANGED tables,
             a = "accepted" => pc[r] = "answer"
      PROVE  TablesOK' /\ \A q \in Requests : RequestOK(q)'
  BY <1>3, EndKeeps DEF tables
<1>4. {"limited", "unknown_widget", "invalid", "dropped", "accepted",
       "error"} \subseteq Answer
  BY DEF Answer
<1>5. CASE EnforceLimits(r)
  BY <1>1, <1>3, <1>4, <1>5, MoveKeeps DEF EnforceLimits, At
<1>6. CASE LookUpWidget(r)
  BY <1>1, <1>3, <1>4, <1>6, MoveKeeps DEF LookUpWidget, At
<1>7. CASE Validate(r)
  BY <1>3, <1>4, <1>7, MoveKeeps DEF Validate, At
<1>8. CASE ForeignKeyFails(r)
  BY <1>4, <1>8, EndKeeps DEF ForeignKeyFails
<1>9. CASE Enqueue(r)
  <2>1. pc[r] = "enqueue" /\ draft[r] # 0 /\ intents[draft[r]] = NoRequest
    BY <1>9 DEF Enqueue, At, DraftHolds
  <2> QED
    BY <1>9, <2>1, MoveKeeps DEF Enqueue, At
<1>10. CASE Respond(r)
  BY <1>3, <1>4, <1>10 DEF Respond
<1>11. CASE DatabaseError(r)
  BY <1>3, <1>4, <1>11 DEF DatabaseError
<1> QED
  BY <1>2, <1>5, <1>6, <1>7, <1>8, <1>9, <1>10, <1>11

(* Every step of every actor keeps the inductive invariant.                *)
LEMMA StepHolds == IntakeInv /\ [Next]_vars => IntakeInv'
<1> SUFFICES ASSUME IntakeInv, [Next]_vars PROVE IntakeInv'
  OBVIOUS
<1>1. CASE UNCHANGED vars
  BY <1>1 DEF vars, tables, session, IntakeInv, TypeOK, WidgetsConsistent,
      Referrers, FreshIds, LeadsOfTargets, LeadHasItsIntent,
      LeadsBelongToOwner, ReadHolds, DraftHolds, PromiseKept, Durable
<1>2. CASE Next
  <2>1. TypeOK'
    BY <1>2, NextTypeOK DEF IntakeInv
  <2>2. TablesOK' /\ \A q \in Requests : RequestOK(q)'
    BY <1>2, CreateWidgetKeeps, LockingKeeps, CommitDeleteKeeps,
       InsertLeadKeeps, CommitKeeps, CrashKeeps, ServeKeeps
    DEF Next, Serve, EndDelete
  <2> QED
    BY <2>1, <2>2 DEF IntakeInv, TablesOK, RequestOK
<1> QED
  BY <1>1, <1>2

(* The inductive invariant holds of the specification.                     *)
LEMMA IntakeInductive == Spec => []IntakeInv
<1> QED
  BY InitHolds, StepHolds, PTL DEF Spec

(* Every variable keeps to its type under create_submission, the widget    *)
(* repository's create and delete, and crashes of the backend.             *)
THEOREM TypeCorrect == Spec => []TypeOK
<1>1. IntakeInv => TypeOK
  BY DEF IntakeInv
<1> QED
  BY <1>1, IntakeInductive, PTL

(* create_submission: a committed lead always has its own notification     *)
(* intent under its key, because both INSERTs are in one transaction.      *)
THEOREM LeadsAreNotified == Spec => []LeadHasItsIntent
<1>1. IntakeInv => LeadHasItsIntent
  BY DEF IntakeInv
<1> QED
  BY <1>1, IntakeInductive, PTL

(* Tenant isolation of leads: the widget of a lead exists, and the         *)
(* tenant_id copied from a widget read earlier in the request owns it for  *)
(* as long as the lead exists, whatever is created and deleted meanwhile,  *)
(* unless that widget itself was deleted before the INSERT and its id was  *)
(* given again.                                                            *)
THEOREM LeadsStayWithOwner == Spec => []LeadsBelongToOwner
<1>1. IntakeInv => LeadsBelongToOwner
  BY DEF IntakeInv
<1> QED
  BY <1>1, IntakeInductive, PTL

(* A 202 is only ever sent for a committed lead and intent, and a crash    *)
(* after it loses neither.                                                 *)
THEOREM AcceptedLeadsAreDurable == Spec => []AcceptedIsDurable
<1>1. IntakeInv => AcceptedIsDurable
  BY DEF IntakeInv, AcceptedIsDurable, PromiseKept
<1> QED
  BY <1>1, IntakeInductive, PTL

(* Widget deletion against submissions in flight: once a lead is erased by *)
(* the cascade no later commit brings it back or reuses its id.            *)
THEOREM ErasedLeadsStayErased == Spec => ErasedStaysErased
<1> DEFINE Kept == \A i \in LeadIds :
            leads[i] = NoLead /\ intents[i] # NoRequest => leads'[i] = NoLead
<1>1. ASSUME IntakeInv, Next PROVE Kept
  <2>1. ASSUME NEW r \in Requests, pc[r] = "commit", Written(r) PROVE Kept
    <3>1. draft[r] \in LeadIds /\ intents[draft[r]] = NoRequest
      BY <1>1, <2>1 DEF IntakeInv, DraftHolds, TypeOK
    <3>2. \A i \in LeadIds : i # draft[r] => leads'[i] = leads[i]
      BY <1>1, <2>1 DEF Written, IntakeInv, TypeOK
    <3> QED
      BY <3>1, <3>2
  <2>2. ASSUME NEW w \in Widgets, CommitDelete(w) PROVE Kept
    BY <2>2 DEF CommitDelete, Cascaded
  <2>3. ASSUME leads' = leads PROVE Kept
    BY <2>3
  <2> QED
    BY <1>1, <2>1, <2>2, <2>3
    DEF Next, Serve, EndDelete, CreateWidget, BeginDelete, AbortDelete, Arrive,
        EnforceLimits, LookUpWidget, Validate, InsertLead, ForeignKeyFails,
        Enqueue, Commit, Respond, DatabaseError, CommitUnseen, Crash, At, tables
<1>2. ASSUME IntakeInv, [Next]_vars PROVE [Kept]_vars
  BY <1>1, <1>2
<1> QED
  BY <1>2, IntakeInductive, PTL DEF Spec, ErasedStaysErased
-----------------------------------------------------------------------------
(* The refinement: a request that can still answer has not answered, and   *)
(* until it commits nobody is to be notified for it.                       *)
StillOpen(r) ==
    /\ pc[r] # "done" => answer[r] = "none"
    /\ pc[r] \notin {"answer", "done"} => r \notin Noticed

LeadOf(r) == IF HasLead(r) THEN "stored"
             ELSE IF r \in Noticed THEN "erased" ELSE "none"

(* Steps that write no row and give no answer change nothing of this.      *)
LEMMA WritesNothing ==
    ASSUME UNCHANGED <<leads, intents>>
    PROVE  /\ Noticed' = Noticed
           /\ \A q \in Requests : HasLead(q)' = HasLead(q)
           /\ [q \in Requests |-> LeadOf(q)]' = [q \in Requests |-> LeadOf(q)]
BY DEF Noticed, HasLead, LeadOf

(* What a commit does to the abstract state is Stored(r).                  *)
LEMMA WritesOne ==
    ASSUME IntakeInv, NEW r \in Requests, pc[r] = "commit", Written(r),
           StillOpen(r)
    PROVE  /\ Noticed' = Noticed \cup {r}
           /\ LeadOf(r) = "none"
           /\ [q \in Requests |-> LeadOf(q)]' =
                [[q \in Requests |-> LeadOf(q)] EXCEPT ![r] = "stored"]
<1> DEFINE d == draft[r]
<1>1. d \in LeadIds /\ noticed[r] /\ leads[d] = NoLead /\ intents[d] = NoRequest
  BY DEF IntakeInv, DraftHolds, TypeOK
<1>2. /\ \A i \in LeadIds : leads'[i] = IF i = d THEN NewLead(r) ELSE leads[i]
      /\ \A i \in LeadIds : intents'[i] = IF i = d THEN r ELSE intents[i]
  BY <1>1 DEF Written, IntakeInv, TypeOK
<1>3. NewLead(r) # NoLead /\ NewLead(r).request = r
  BY NewLeadIsLead DEF NewLead
<1>4. r \notin Noticed /\ ~HasLead(r)
  BY DEF StillOpen, HasLead, Noticed, IntakeInv, LeadHasItsIntent
<1>5. Noticed' = Noticed \cup {r}
  <2>1. ASSUME NEW q \in Requests PROVE q \in Noticed' <=> q \in Noticed \/ q = r
    BY <1>1, <1>2, NoneAssumption DEF Noticed
  <2> QED
    BY <2>1 DEF Noticed
<1>6. \A q \in Requests : HasLead(q)' <=> HasLead(q) \/ q = r
  BY <1>1, <1>2, <1>3 DEF HasLead
<1>7. \A q \in Requests : LeadOf(q)' = IF q = r THEN "stored" ELSE LeadOf(q)
  BY <1>5, <1>6 DEF LeadOf
<1> QED
  BY <1>4, <1>5, <1>7 DEF LeadOf

IntakeNext == [Intake!Next]_(Intake!vars)

(* Ending a request before its commit, or after it, is a step of LeadIntake*)
(* that leaves the rows alone.                                             *)
LEMMA EndIsAnAnswer ==
    ASSUME IntakeInv, \A q \in Requests : StillOpen(q),
           NEW r \in Requests, NEW a \in Answer, End(r, a),
           UNCHANGED <<leads, intents>>, pc[r] # "done",
           \/ a = "error"
           \/ a = "accepted" /\ pc[r] = "answer"
           \/ /\ a \in {"limited", "unknown_widget", "invalid", "dropped"}
              /\ pc[r] # "answer"
    PROVE  IntakeNext /\ \A q \in Requests : StillOpen(q)'
<1>1. /\ answer[r] = "none" /\ answer' = [answer EXCEPT ![r] = a]
      /\ pc[r] # "answer" => r \notin Noticed
  BY DEF StillOpen, End
<1>2. pc[r] = "answer" => r \in Noticed
  BY DEF IntakeInv, PromiseKept, Durable, Noticed
<1>3. Intake!Next
  <2>1. CASE a = "error"
    BY <1>1, <2>1, WritesNothing
    DEF Intake!Next, Intake!Fail, LeadOf, HasLead
  <2>2. CASE a = "accepted" /\ pc[r] = "answer"
    BY <1>1, <1>2, <2>2, WritesNothing
    DEF Intake!Next, Intake!Accept, LeadOf, HasLead
  <2>3. CASE a \in {"limited", "unknown_widget", "invalid", "dropped"}
             /\ pc[r] # "answer"
    BY <1>1, <2>3, WritesNothing
    DEF Intake!Next, Intake!Refuse, Intake!Refusals, LeadOf, HasLead
  <2> QED
    BY <2>1, <2>2, <2>3
<1>4. ASSUME NEW q \in Requests PROVE StillOpen(q)'
  BY WritesNothing DEF StillOpen, End, IntakeInv, TypeOK
<1> QED
  BY <1>3, <1>4 DEF IntakeNext

(* Going on without an answer is a stutter.                                *)
LEMMA MoveIsAStutter ==
    ASSUME IntakeInv, \A q \in Requests : StillOpen(q),
           UNCHANGED <<leads, intents, answer>>,
           \A q \in Requests : pc'[q] \in {"answer", "done"} => pc'[q] = pc[q],
           \A q \in Requests : pc[q] \in {"answer", "done"} => pc'[q] = pc[q]
    PROVE  IntakeNext /\ \A q \in Requests : StillOpen(q)'
<1>1. UNCHANGED Intake!vars
  BY WritesNothing DEF Intake!vars, LeadOf
<1>2. ASSUME NEW q \in Requests PROVE StillOpen(q)'
  BY WritesNothing DEF StillOpen
<1> QED
  BY <1>1, <1>2 DEF IntakeNext

(* A commit stores the lead, and fails the request if it is not told.      *)
LEMMA CommitIsAStore ==
    ASSUME IntakeInv, \A q \in Requests : StillOpen(q),
           NEW r \in Requests, Commit(r) \/ CommitUnseen(r)
    PROVE  IntakeNext /\ \A q \in Requests : StillOpen(q)'
<1>1. /\ pc[r] = "commit" /\ Written(r) /\ answer[r] = "none"
      /\ \E there \in {"answer", "done"} : pc' = [pc EXCEPT ![r] = there]
  BY DEF Commit, CommitUnseen, At, End, StillOpen
<1>2. /\ Noticed' = Noticed \cup {r} /\ LeadOf(r) = "none"
      /\ [q \in Requests |-> LeadOf(q)]' =
            [[q \in Requests |-> LeadOf(q)] EXCEPT ![r] = "stored"]
  BY <1>1, WritesOne
<1>3. Intake!Stored(r)
  BY <1>2 DEF Intake!Stored, LeadOf
<1>4. CASE Commit(r)
  <2>1. Intake!Next
    BY <1>1, <1>3, <1>4 DEF Commit, Intake!Next, Intake!Store
  <2>2. ASSUME NEW q \in Requests PROVE StillOpen(q)'
    BY <1>2, <1>4 DEF Commit, At, StillOpen, IntakeInv, TypeOK
  <2> QED
    BY <2>1, <2>2 DEF IntakeNext
<1>5. CASE CommitUnseen(r)
  <2>1. Intake!Next
    BY <1>1, <1>3, <1>5 DEF CommitUnseen, End, Intake!Next, Intake!Fail
  <2>2. ASSUME NEW q \in Requests PROVE StillOpen(q)'
    BY <1>2, <1>5 DEF CommitUnseen, End, StillOpen, IntakeInv, TypeOK
  <2> QED
    BY <2>1, <2>2 DEF IntakeNext
<1> QED
  BY <1>4, <1>5

(* A crash is an outage.                                                   *)
LEMMA CrashIsAnOutage ==
    ASSUME IntakeInv, \A q \in Requests : StillOpen(q), Crash
    PROVE  IntakeNext /\ \A q \in Requests : StillOpen(q)'
<1> USE DEF Crash
<1>1. Open \subseteq {r \in Requests : answer[r] = "none"}
  BY DEF Open, StillOpen
<1>2. Intake!Next
  BY <1>1, WritesNothing DEF Intake!Next, Intake!Outage, LeadOf
<1>3. ASSUME NEW q \in Requests PROVE StillOpen(q)'
  BY WritesNothing DEF StillOpen, Open
<1> QED
  BY <1>2, <1>3 DEF IntakeNext

(* A committed delete of a widget erases leads and forgets no intent.      *)
LEMMA DeleteIsAnErasure ==
    ASSUME IntakeInv, \A q \in Requests : StillOpen(q),
           NEW w \in Widgets, CommitDelete(w)
    PROVE  IntakeNext /\ \A q \in Requests : StillOpen(q)'
<1> USE DEF CommitDelete, session
<1> DEFINE R == {q \in Requests : HasLead(q) /\ ~HasLead(q)'}
<1>1. Noticed' = Noticed
  BY DEF Noticed
<1>2. \A q \in Requests : HasLead(q) => q \in Noticed
  BY DEF HasLead, Noticed, IntakeInv, LeadHasItsIntent
<1>3. \A q \in Requests : HasLead(q)' => HasLead(q)
  BY DEF HasLead, Cascaded
<1>4. \A q \in Requests :
        LeadOf(q)' = IF q \in R THEN "erased" ELSE LeadOf(q)
  BY <1>1, <1>2, <1>3 DEF LeadOf
<1>5. R \subseteq {q \in Requests : LeadOf(q) = "stored"}
  BY DEF LeadOf
<1>6. Intake!Next
  <2>1. [q \in Requests |-> LeadOf(q)]' = [q \in Requests |->
            IF q \in R THEN "erased" ELSE [p \in Requests |-> LeadOf(p)][q]]
    BY <1>4
  <2> HIDE DEF R
  <2> QED
    BY <1>1, <1>5, <2>1 DEF Intake!Next, Intake!Erase, LeadOf
<1>7. ASSUME NEW q \in Requests PROVE StillOpen(q)'
  BY <1>1 DEF StillOpen
<1> QED
  BY <1>6, <1>7 DEF IntakeNext

(* The submission endpoint keeps the promise of LeadIntake: a visitor told *)
(* "accepted" has a lead and an intent that came into being together, a    *)
(* refused one left nothing, and a lead goes only with its widget.         *)
THEOREM KeepsTheIntakePromise == Spec => IntakePromise
<1> DEFINE AllOpen == \A q \in Requests : StillOpen(q)
<1>1. Init => Intake!Init /\ AllOpen
  BY NoneAssumption DEF Init, Intake!Init, HasLead, Noticed, StillOpen
<1>2. ASSUME IntakeInv, AllOpen, [Next]_vars PROVE IntakeNext /\ AllOpen'
  <2>1. CASE UNCHANGED vars
    <3>1. UNCHANGED <<leads, intents, answer, pc>>
      BY <2>1 DEF vars, tables, session
    <3> QED
      BY <1>2, <3>1, MoveIsAStutter
  <2>2. ASSUME NEW w \in Widgets, \/ \E t \in Tenants : CreateWidget(t, w)
                                  \/ BeginDelete(w) \/ AbortDelete(w)
        PROVE  IntakeNext /\ AllOpen'
    <3>1. UNCHANGED <<leads, intents, answer, pc>>
      BY <2>2 DEF CreateWidget, BeginDelete, AbortDelete, session
    <3> QED
      BY <1>2, <3>1, MoveIsAStutter
  <2>3. ASSUME NEW w \in Widgets, CommitDelete(w) PROVE IntakeNext /\ AllOpen'
    BY <1>2, <2>3, DeleteIsAnErasure
  <2>4. ASSUME NEW r \in Requests, NEW here, NEW there, At(r, here, there),
               UNCHANGED <<leads, intents, answer>>,
               here \notin {"answer", "done"}, there \notin {"answer", "done"}
        PROVE  IntakeNext /\ AllOpen'
    <3>1. pc[r] = here /\ \A q \in Requests :
                pc'[q] = IF q = r THEN there ELSE pc[q]
      BY <1>2, <2>4 DEF At, IntakeInv, TypeOK
    <3> QED
      BY <1>2, <2>4, <3>1, MoveIsAStutter
  <2>5. ASSUME NEW r \in Requests, NEW a \in Answer, End(r, a),
               UNCHANGED <<leads, intents>>, pc[r] # "done",
               \/ a = "error"
               \/ a = "accepted" /\ pc[r] = "answer"
               \/ /\ a \in {"limited", "unknown_widget", "invalid", "dropped"}
                  /\ pc[r] # "answer"
        PROVE  IntakeNext /\ AllOpen'
    BY <1>2, <2>5, EndIsAnAnswer
  <2>6. {"limited", "unknown_widget", "invalid", "dropped", "accepted",
         "error"} \subseteq Answer
    BY DEF Answer
  <2>7. ASSUME NEW r \in Requests, Arrive(r) \/ InsertLead(r) \/ Enqueue(r)
        PROVE  IntakeNext /\ AllOpen'
    BY <2>4, <2>7 DEF Arrive, InsertLead, Enqueue, tables
  <2>8. ASSUME NEW r \in Requests,
               EnforceLimits(r) \/ LookUpWidget(r) \/ Validate(r)
        PROVE  IntakeNext /\ AllOpen'
    BY <2>4, <2>5, <2>6, <2>8
    DEF EnforceLimits, LookUpWidget, Validate, tables
  <2>9. ASSUME NEW r \in Requests,
               ForeignKeyFails(r) \/ Respond(r) \/ DatabaseError(r)
        PROVE  IntakeNext /\ AllOpen'
    BY <2>5, <2>6, <2>9 DEF ForeignKeyFails, Respond, DatabaseError, tables
  <2>10. ASSUME NEW r \in Requests, Commit(r) \/ CommitUnseen(r)
         PROVE  IntakeNext /\ AllOpen'
    BY <1>2, <2>10, CommitIsAStore
  <2>11. CASE Crash
    BY <1>2, <2>11, CrashIsAnOutage
  <2>12. ASSUME NEW r \in Requests, \/ Arrive(r) \/ Serve(r)
                                    \/ DatabaseError(r) \/ CommitUnseen(r)
         PROVE  IntakeNext /\ AllOpen'
    BY <2>7, <2>8, <2>9, <2>10, <2>12 DEF Serve
  <2> HIDE DEF AllOpen
  <2>13. CASE Next
    BY <2>2, <2>3, <2>11, <2>12, <2>13 DEF Next, EndDelete
  <2> QED
    BY <1>2, <2>1, <2>13
<1>3. Spec => [](IntakeInv /\ AllOpen)
  <2>1. Init => AllOpen
    BY <1>1
  <2>2. IntakeInv /\ AllOpen /\ [Next]_vars => AllOpen'
    BY <1>2
  <2> HIDE DEF AllOpen
  <2> QED
    BY <2>1, <2>2, IntakeInductive, PTL DEF Spec
<1>4. IntakeInv /\ AllOpen /\ [Next]_vars => [Intake!Next]_(Intake!vars)
  BY <1>2 DEF IntakeNext
<1>5. Init => Intake!Init
  BY <1>1
<1> HIDE DEF AllOpen
<1> QED
  BY <1>3, <1>4, <1>5, PTL DEF Spec, IntakePromise, Intake!Spec
=============================================================================
