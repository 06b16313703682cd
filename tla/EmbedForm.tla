------------------------------ MODULE EmbedForm -----------------------------
(***************************************************************************)
(* The form that widget-v2.js puts on a page (app/static/widget-v2.js),    *)
(* and the requests it sends: SubmissionRequest, once for every press of   *)
(* the button.  The form was rendered from the configuration at the time,  *)
(* the owner may have changed it since.  A visitor who is not thanked      *)
(* presses again.                                                          *)
(*                                                                         *)
(* A behaviour is that of the form, or one request of another client.      *)
(* A press is taken up when the request before it has ended on the server  *)
(* too; requests side by side are Submissions.                             *)
(***************************************************************************)
EXTENDS SubmissionRequest

CONSTANTS
    Typed,        \* what a visitor may type
    MaxPresses    \* bound: how often the button is pressed

ASSUME TypedAssumption ==
    /\ Typed \subseteq Texts /\ \A t \in Typed : t.length <= t.raw
    /\ Empty \in Typed
ASSUME PressAssumption == MaxPresses \in Nat

VARIABLES
    sender,    \* "form" or "client"
    rendered,  \* the configuration the form was made from
    typed,     \* what the visitor has typed
    shown,     \* the status line
    presses,
    leads,     \* history: how many leads the presses have stored
    untold     \* history: leads whose 202 got lost

form == <<sender, rendered, typed, shown, presses, leads, untold>>
formVars == <<vars, form>>
-----------------------------------------------------------------------------

(* What fits into the controls: each has a maxLength.                      *)
Fillings(fields) ==
    {t \in [Names(fields) -> Typed] :
        \A f \in Fields(fields) : t[f.name].raw <= MaxAnswer[f.kind]}

(* The body: null for an empty control.  form.elements.website is the      *)
(* honeypot, which people leave empty; with a field of that name it is a   *)
(* list of two controls, whose value is empty.  No name here is one that   *)
(* form.elements has itself, as item, length and constructor, which would  *)
(* be left out of the body.                                                *)
BodyOf(fields, filling) ==
    [n \in Names(fields) \cup {Honeypot} |->
        IF n = Honeypot THEN Empty
        ELSE IF filling[n] = Empty THEN Null ELSE filling[n]]
ASSUME ObjectAssumption ==
    \A fields \in Configs : \A t \in Fillings(fields) : BodyOf(fields, t) # NoObject
FormBody == BodyOf(rendered, typed)

FormTypeOK ==
    /\ sender \in {"form", "client"}
    /\ rendered \in Configs
    /\ IF sender = "form" THEN typed \in Fillings(rendered) ELSE typed = NoAnswers
    /\ shown \in {"", "sending", "thanks", "later", "large", "check", "wrong", "network"}
    /\ presses \in 0..MaxPresses
    /\ leads \in 0..presses /\ untold \in 0..presses
-----------------------------------------------------------------------------
(* One visitor and one form.                                               *)
FormInit ==
    /\ \/ sender = "client" /\ Init /\ rendered = config /\ typed = NoAnswers
       \/ /\ sender = "form" /\ pc = "unsent" /\ declared = NoHeader
          /\ said \in [1..Providers -> {"disabled", "unasked"}]
          /\ config \in Configs
          /\ Fresh
          /\ rendered \in Configs
          /\ typed \in Fillings(rendered)
    /\ shown = "" /\ presses = 0
    /\ leads = 0 /\ untold = 0

(* A new request, for the same body.                                       *)
Resend ==
    /\ pc' = "arrived"
    /\ declared' \in IF presses = 0 THEN 1..MaxBody ELSE {declared}
    /\ received' = 0 /\ exceeded' = FALSE /\ responded' = FALSE
    /\ wire' = <<>> /\ queue' = <<>>
    /\ sent' = 0 /\ gone' = FALSE
    /\ said' = [p \in 1..Providers |->
                  IF p \in Enabled THEN "unasked" ELSE "disabled"]
    /\ chain' = Enabled /\ location' = NoLocation
    /\ answers' = NoAnswers /\ outcome' = "none"
    /\ code' = 500 /\ observed' = <<>>

(* The button is disabled until the answer is there; the owner may have    *)
(* edited the widget meanwhile.                                            *)
Press ==
    /\ sender = "form"
    /\ shown \notin {"sending", "thanks"} /\ presses < MaxPresses
    /\ presses' = presses + 1
    /\ shown' = "sending"
    /\ Resend
    /\ config' \in Configs
    /\ UNCHANGED <<sender, rendered, typed, leads, untold>>

(* .then: the status line for the status of the answer.                    *)
Shown_Created(status) ==
    CASE status = 201 -> "thanks" [] status = 429 -> "later"
      [] status = 413 -> "large"  [] status = 422 -> "check"
      [] OTHER -> "wrong"
Shown(status) ==
    CASE status = 202 -> "thanks" [] status = 429 -> "later"
      [] status = 413 -> "large"  [] status = 422 -> "check"
      [] OTHER -> "wrong"

(* The answer arrives, or gets lost (.catch).  A lead is untold if its 202 *)
(* is lost between the server and the visitor, or, with the answer of its  *)
(* COMMIT, between the database and the server.  No field is named reset:  *)
(* form.reset() would throw and the thanks be replaced as by .catch.       *)
Settle ==
    LET status == wire[1][2] IN
    /\ shown = "sending" /\ pc = "closed"
    /\ leads' = IF outcome = "stored" THEN leads + 1 ELSE leads
    /\ \/ /\ ~gone
          /\ shown' = Shown(status)
          /\ untold' = IF outcome = "stored" /\ status = 500 THEN untold + 1 ELSE untold
       \/ /\ shown' = "network"
          /\ untold' = IF outcome = "stored" THEN untold + 1 ELSE untold
    /\ UNCHANGED <<vars, sender, rendered, typed, presses>>

Request ==
    /\ \/ Proceed
       \/ sender = "form" /\ Judge(FormBody)
       \/ sender = "client" /\ \E payload \in Payloads : Judge(payload)
    /\ UNCHANGED form

FormNext == Press \/ Settle \/ Request

FormSpec == FormInit /\ [][FormNext]_formVars
-----------------------------------------------------------------------------
(* A visitor is asked to press again although the lead is there only if an *)
(* answer got lost: so often, and no oftener, one lead is stored twice.    *)
OneLeadUnlessUntold == FormTypeOK /\ leads <= 1 + untold

(* What the form asks for: its required marks and its address fields.      *)
WellFilled ==
    \A f \in Fields(rendered) :
        LET answer == typed[f.name] IN
        /\ f.required => answer.length > 0
        /\ f.kind = "email" /\ answer.length > 0 => answer.address

(* Who is thanked has what was typed in the lead, up to blanks around it;  *)
(* who is sent back to check the answers has left something out, or has an *)
(* outdated form.  A field named like the honeypot is the exception, and   *)
(* one named like a member of form.elements would be: the form cannot read *)
(* what is typed there.                                                    *)
FormAndServerAgree ==
    /\ sender = "form" /\ shown = "thanks" =>
          /\ outcome = "stored"
          /\ \A n \in Names(rendered) \ {Honeypot} : answers[n] = Clean(typed[n])
    /\ shown = "check" /\ WellFilled /\ Honeypot \notin Names(rendered) =>
          rendered # config
-----------------------------------------------------------------------------
(* The strengthenings that make the two invariants above inductive.        *)

(* The form waits for its request, and counts what came of it.             *)
Waiting ==
    /\ sender = "client" => shown = "" /\ presses = 0
    /\ sender = "form" /\ shown # "sending" => pc \in {"unsent", "closed"}
    /\ leads + (IF shown = "sending" THEN 1 ELSE 0) <= presses
    /\ leads = untold + (IF shown = "thanks" THEN 1 ELSE 0)

(* What the route has made of the form's body, and the form of its answer. *)
Understood ==
    /\ sender = "form" =>
          /\ outcome # "dropped"
          /\ Due(422) => ~IsValid(FormBody)
          /\ pc \in {"geo", "store"} \/ outcome = "stored" =>
                IsValid(FormBody) /\ answers = Cleaned(FormBody, config)
    /\ shown = "thanks" => pc = "closed" /\ outcome = "stored"
    /\ shown = "check" => pc = "closed" /\ Due(422)

FormInv == RequestInv /\ FormTypeOK /\ Waiting /\ Understood
=============================================================================
