------------------------------ MODULE LeadPages -----------------------------
(***************************************************************************)
(* Reading the leads of a tenant page by page while visitors add leads and *)
(* owners delete widgets: list_submissions of app/repositories/            *)
(* dashboard.py behind GET /dashboard/submissions.  list_for_tenant of     *)
(* app/repositories/widgets.py pages through widgets with the same query   *)
(* and the same cursor.                                                    *)
(*                                                                         *)
(* Each page is a request, and so a snapshot, of its own; the caller hands *)
(* next_after_id of one page back as after_id of the next.  Ids come from  *)
(* a sequence, and transactions commit in any order of their ids.          *)
(***************************************************************************)
EXTENDS Naturals, FiniteSets

CONSTANTS
    Ids,         \* ids of leads
    Tenants,
    Widgets,
    AllWidgets,  \* the widget_id filter is absent
    NoCursor,    \* after_id and next_after_id are absent
    Limits       \* page sizes callers ask for

ASSUME IdsAssumption == Ids \subseteq Nat /\ IsFiniteSet(Ids)
ASSUME LimitsAssumption == Limits \subseteq Nat \ {0}
ASSUME NoneAssumption == AllWidgets \notin Widgets /\ NoCursor \notin Ids

VARIABLES
    table,    \* ids of the committed leads
    unused,   \* ids that no committed lead has had yet
    tenant,   \* tenant[i], widget[i]: columns of lead i
    widget,
    caller,   \* the tenant of the caller's token
    filter,   \* the widget_id the caller filters by
    pc,       \* the caller: idle, reading or done
    cursor,   \* the after_id the caller sends next
    seen,     \* the leads the caller has been given
    again,    \* leads it has been given more than once
    stayed    \* history: leads to list that have been there all the time

rows == <<table, unused, tenant, widget>>
query == <<caller, filter>>
reading == <<pc, cursor, seen, again, stayed>>
vars == <<rows, query, reading>>
-----------------------------------------------------------------------------
TypeOK ==
    /\ table \subseteq Ids
    /\ unused \subseteq Ids \ table
    /\ tenant \in [Ids -> Tenants]
    /\ widget \in [Ids -> Widgets]
    /\ caller \in Tenants
    /\ filter \in Widgets \cup {AllWidgets}
    /\ pc \in {"idle", "reading", "done"}
    /\ cursor \in Ids \cup {NoCursor}
    /\ seen \subseteq Ids
    /\ again \subseteq Ids
    /\ stayed \subseteq Ids

(* A lead has the tenant of its widget (Submissions: LeadsBelongToOwner).  *)
Init ==
    /\ table \in SUBSET Ids
    /\ unused = Ids \ table
    /\ widget \in [Ids -> Widgets]
    /\ \E owner \in [Widgets -> Tenants] :
            tenant = [i \in Ids |-> owner[widget[i]]]
    /\ caller \in Tenants
    /\ filter \in Widgets \cup {AllWidgets}
    /\ pc = "idle"
    /\ cursor = NoCursor
    /\ seen = {}
    /\ again = {}
    /\ stayed = {}
-----------------------------------------------------------------------------
(* A submission commits.                                                   *)
AddLead(i) ==
    /\ i \in unused
    /\ table' = table \cup {i}
    /\ unused' = unused \ {i}
    /\ UNCHANGED <<tenant, widget, query, reading>>

(* An owner deletes a widget, and its leads go with it.                    *)
DeleteWidget(w) ==
    LET gone == {i \in table : widget[i] = w} IN
    /\ gone # {}
    /\ table' = table \ gone
    /\ stayed' = stayed \ gone
    /\ UNCHANGED <<unused, tenant, widget, query, pc, cursor, seen, again>>

(* WHERE tenant_id = .. AND widget_id = ..                                 *)
Matching(S) ==
    {i \in S : tenant[i] = caller /\ filter \in {AllWidgets, widget[i]}}

(* ... AND id < after_id.                                                  *)
Beyond_Ignored(i) == TRUE
Beyond_Inclusive(i) == cursor = NoCursor \/ i <= cursor
Beyond(i) == cursor = NoCursor \/ i < cursor

(* ORDER BY id DESC LIMIT n.                                               *)
Newest(S, n) == {i \in S : Cardinality({j \in S : j > i}) < n}

(* The last row of the page, if there was one more.                        *)
NextCursor_FromProbe(records, page, c) ==
    /\ c \in records
    /\ \A i \in records : c <= i
NextCursor(records, page, c) ==
    /\ c \in page
    /\ \A i \in page : c <= i

StartReading ==
    /\ pc = "idle"
    /\ pc' = "reading"
    /\ stayed' = Matching(table)
    /\ UNCHANGED <<rows, query, cursor, seen, again>>

ListSubmissions(limit) ==
    LET records == Newest({i \in Matching(table) : Beyond(i)}, limit + 1)
        page == Newest(records, limit)
    IN
    /\ pc = "reading"
    /\ seen' = seen \cup page
    /\ again' = again \cup (seen \cap page)
    /\ \/ /\ page # records
          /\ \E c \in Ids : NextCursor(records, page, c) /\ cursor' = c
          /\ UNCHANGED pc
       \/ /\ page = records
          /\ cursor' = NoCursor
          /\ pc' = "done"
    /\ UNCHANGED <<rows, query, stayed>>

Next ==
    \/ \E i \in Ids : AddLead(i)
    \/ \E w \in Widgets : DeleteWidget(w)
    \/ StartReading
    \/ \E limit \in Limits : ListSubmissions(limit)

Spec == Init /\ [][Next]_vars

(* A caller that has a cursor asks for the next page.                      *)
Fairness == WF_vars(\E limit \in Limits : ListSubmissions(limit))
-----------------------------------------------------------------------------
(* "No duplicates": no lead is on two pages, whatever is added or deleted  *)
(* between the requests.                                                   *)
NoLeadTwice == again = {}

(* Nothing is skipped: a caller who has reached the last page was given    *)
(* every lead that was there from the first request on and still is.       *)
NothingSkipped == pc = "done" => stayed \subseteq seen

(* A page holds leads of the caller's tenant and of the widget asked for.  *)
OnlyOwnLeads == \A i \in seen : tenant[i] = caller /\ filter \in {AllWidgets, widget[i]}

(* Leads that keep coming in do not keep the caller paging forever.        *)
ReadingEnds == pc = "reading" ~> pc = "done"
-----------------------------------------------------------------------------
(* The strengthening: what was given lies at or above the cursor, and all  *)
(* that stayed and lies there was given.                                   *)
Covered ==
    /\ pc = "idle" => seen = {} /\ cursor = NoCursor
    /\ pc = "reading" =>
        /\ cursor = NoCursor => seen = {}
        /\ cursor # NoCursor =>
            /\ \A i \in seen : i >= cursor
            /\ \A i \in stayed : i >= cursor => i \in seen
    /\ pc # "idle" => stayed \subseteq Matching(table)
PagesInv ==
    TypeOK /\ Covered /\ NoLeadTwice /\ NothingSkipped /\ OnlyOwnLeads
=============================================================================
