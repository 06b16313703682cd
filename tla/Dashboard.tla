------------------------------ MODULE Dashboard -----------------------------
(***************************************************************************)
(* The dashboard of a tenant: the pages of LeadPages, and the statistics   *)
(* of GET /dashboard/submissions/stats.  One answer of the statistics is   *)
(* put together from four SELECTs (stats and daily_counts of               *)
(* app/repositories/dashboard.py); under READ COMMITTED each of them sees  *)
(* the leads as they are when it runs.                                     *)
(*                                                                         *)
(* A behaviour follows one of the two, the pages or the statistics: both   *)
(* only read, and neither affects the other.                               *)
(***************************************************************************)
EXTENDS LeadPages

CONSTANTS
    Country,  \* geo_country of the leads that have one
    Day       \* the day of the leads created within the days asked for

ASSUME ColumnsAssumption == DOMAIN Country \subseteq Ids /\ DOMAIN Day \subseteq Ids

VARIABLES
    at,       \* what submission_stats does next
    counts,   \* the rows it has read: for each part a count per group
    always,   \* history: leads of the caller there since the request began
    ever      \* history: leads of the caller there at some time since then

stats == <<at, counts, always, ever>>
allVars == <<vars, stats>>

Parts == {"total", "by_country", "by_widget", "by_day"}

DashboardInit ==
    /\ Init
    /\ at = "idle"
    /\ counts = [p \in Parts |-> <<>>]
    /\ always = {} /\ ever = {}
-----------------------------------------------------------------------------
(* WHERE tenant_id = ..                                                    *)
OfCaller == {i \in table : tenant[i] = caller}

(* WHERE: no lead without a country, none created before the days.         *)
Selected_AnyTenant(part) == IF part = "by_widget" THEN table ELSE OfCaller
Selected(part) == OfCaller

(* What each of them groups the leads it counts by; the total by nothing.  *)
GroupOf(part) ==
    CASE part = "total" -> [i \in Ids |-> "all"]
      [] part = "by_country" -> Country
      [] part = "by_widget" -> widget
      [] part = "by_day" -> Day
InGroup(part, g, S) == {i \in S \cap DOMAIN GroupOf(part) : GroupOf(part)[i] = g}
GroupsIn(part, S) == {GroupOf(part)[i] : i \in S \cap DOMAIN GroupOf(part)}

(* GROUP BY: a row for every group that has a lead (a total of 0 is none). *)
Count(part) ==
    [g \in GroupsIn(part, Selected(part)) |-> Cardinality(InGroup(part, g, Selected(part)))]

Follows == [total |-> "by_country", by_country |-> "by_widget",
            by_widget |-> "by_day", by_day |-> "done"]

(* The statistics have no widget filter.                                   *)
AskStats ==
    /\ pc = "idle" /\ at = "idle"
    /\ filter = AllWidgets
    /\ at' = "total"
    /\ always' = OfCaller /\ ever' = OfCaller
    /\ UNCHANGED <<vars, counts>>

ReadPart(part) ==
    /\ at = part
    /\ counts' = [counts EXCEPT ![part] = Count(part)]
    /\ at' = Follows[part]
    /\ UNCHANGED <<vars, always, ever>>

(* A lead is added or a widget deleted, until the answer is complete.      *)
Change ==
    /\ at # "done"
    /\ \/ \E i \in Ids : AddLead(i)
       \/ \E w \in Widgets : DeleteWidget(w)
    /\ IF at \in Parts
       THEN always' = always \cap table' /\ ever' = ever \cup OfCaller'
       ELSE UNCHANGED <<always, ever>>
    /\ UNCHANGED <<at, counts>>

ReadPage ==
    /\ at = "idle"
    /\ StartReading \/ \E limit \in Limits : ListSubmissions(limit)
    /\ UNCHANGED stats

DashboardNext ==
    \/ Change
    \/ ReadPage
    \/ AskStats
    \/ \E part \in Parts : ReadPart(part)

(* As in LeadPages, a caller that has a cursor asks for the next page.     *)
DashboardSpec == DashboardInit /\ [][DashboardNext]_allVars /\ Fairness
-----------------------------------------------------------------------------
(* Although its parts are counted at different moments, the count of every *)
(* group in one answer lies between the leads that were there all along    *)
(* and those that were there at some time, and every group had a lead;     *)
(* nothing committed meanwhile: they add up.                               *)
Counted(part, g) == IF g \in DOMAIN counts[part] THEN counts[part][g] ELSE 0
InRange(part) ==
    /\ DOMAIN counts[part] \subseteq GroupsIn(part, ever)
    /\ \A g \in GroupsIn(part, Ids) :
          /\ Cardinality(InGroup(part, g, always)) <= Counted(part, g)
          /\ Counted(part, g) <= Cardinality(InGroup(part, g, ever))
StatsInRange == at = "done" => \A part \in Parts : InRange(part)
-----------------------------------------------------------------------------
(* The strengthening: what has been read so far is in range already, of    *)
(* the leads there have been so far.                                       *)
ReadBefore ==
    [idle |-> {}, total |-> {}, by_country |-> {"total"},
     by_widget |-> {"total", "by_country"},
     by_day |-> {"total", "by_country", "by_widget"}, done |-> Parts]
StatsInv ==
    /\ TypeOK
    /\ at \in Parts \cup {"idle", "done"}
    /\ DOMAIN counts = Parts
    /\ at \in Parts => always \subseteq OfCaller /\ OfCaller \subseteq ever
    /\ always \subseteq Ids /\ ever \subseteq Ids
    /\ \A part \in ReadBefore[at] :
          counts[part] \in [DOMAIN counts[part] -> Nat] /\ InRange(part)
=============================================================================
