----------------------------- MODULE LeadIntake -----------------------------
(***************************************************************************)
(* What the public submission endpoint promises a visitor and the owner of *)
(* a widget (README.md, "durably committed"): a lead and the intent to     *)
(* notify its owner come into being together; "accepted" is said only      *)
(* after that; a refused request leaves nothing behind; a lead disappears  *)
(* only with its widget, and the intent outlives it.                       *)
(***************************************************************************)
CONSTANT Requests

VARIABLES
    lead,     \* lead[r]: none, stored or erased
    notice,   \* the requests with a durable notification intent
    answer    \* answer[r]: what the visitor was told, "none" so far

vars == <<lead, notice, answer>>

Refusals == {"limited", "unknown_widget", "invalid", "dropped"}

Init ==
    /\ lead = [r \in Requests |-> "none"]
    /\ notice = {}
    /\ answer = [r \in Requests |-> "none"]

Stored(r) ==
    /\ lead[r] = "none"
    /\ lead' = [lead EXCEPT ![r] = "stored"]
    /\ notice' = notice \cup {r}

Store(r) == answer[r] = "none" /\ Stored(r) /\ UNCHANGED answer

Accept(r) ==
    /\ answer[r] = "none"
    /\ r \in notice
    /\ answer' = [answer EXCEPT ![r] = "accepted"]
    /\ UNCHANGED <<lead, notice>>

Refuse(r) ==
    /\ answer[r] = "none"
    /\ r \notin notice
    /\ \E why \in Refusals : answer' = [answer EXCEPT ![r] = why]
    /\ UNCHANGED <<lead, notice>>

(* An error tells the visitor nothing: the lead may have been stored.      *)
Fail(r) ==
    /\ answer[r] = "none"
    /\ answer' = [answer EXCEPT ![r] = "error"]
    /\ Stored(r) \/ UNCHANGED <<lead, notice>>

(* The backend dies: every open request fails.                             *)
Outage ==
    /\ \E R \in SUBSET {r \in Requests : answer[r] = "none"} :
            answer' = [r \in Requests |-> IF r \in R THEN "error" ELSE answer[r]]
    /\ UNCHANGED <<lead, notice>>

Erase ==
    /\ \E R \in SUBSET {r \in Requests : lead[r] = "stored"} :
            lead' = [r \in Requests |-> IF r \in R THEN "erased" ELSE lead[r]]
    /\ UNCHANGED <<notice, answer>>

Next ==
    \/ \E r \in Requests : Store(r) \/ Accept(r) \/ Refuse(r) \/ Fail(r)
    \/ Outage \/ Erase

Spec == Init /\ [][Next]_vars
=============================================================================
