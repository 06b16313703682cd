-------------------------- MODULE SubmissionPayload -------------------------
(***************************************************************************)
(* The answers of a visitor against the configuration of the widget:       *)
(* validate_against_config (app/core/submission_payload.py) and the        *)
(* validators of WidgetConfig (app/core/widget_config.py).                 *)
(*                                                                         *)
(* Of a text only this is told apart: how long it is as it came (raw), how *)
(* long without the blanks around it (length), and whether what remains    *)
(* looks like an address.                                                  *)
(***************************************************************************)
EXTENDS Naturals, Sequences, FiniteSets, SequencesExt

CONSTANTS
    MaxAnswer,   \* MAX_ANSWER_LENGTHS: a length for each kind of field
    MaxTrap,     \* MAX_HONEYPOT_LENGTH
    MaxFields    \* MAX_CONFIG_FIELDS

Kinds == {"text", "email", "tel", "textarea"}
ASSUME LengthAssumption ==
    /\ MaxAnswer \in [Kinds -> Nat \ {0}]
    /\ MaxTrap \in Nat /\ MaxFields \in Nat \ {0}

Honeypot == "website"

Null == [is |-> "null"]
NotText == [is |-> "number"]
Text(raw, length, address) ==
    [is |-> "text", raw |-> raw, length |-> length, address |-> address]
Texts == [is: {"text"}, raw: Nat, length: Nat, address: BOOLEAN]
Values == Texts \cup {Null, NotText}
Empty == Text(0, 0, FALSE)
-----------------------------------------------------------------------------
(* A configuration is a sequence of fields.                                *)
Field(name, kind, required) == [name |-> name, kind |-> kind, required |-> required]
Fields(config) == Range(config)
Names(config) == {f.name : f \in Fields(config)}

(* WidgetConfig: names are unique, one field is an email.                  *)
IsConfig(config) ==
    /\ config \in Seq(Range(config))
    /\ Len(config) \in 1..MaxFields
    /\ \A i \in 1..Len(config) : config[i].kind \in Kinds
    /\ Cardinality(Names(config)) = Len(config)
    /\ \E f \in Fields(config) : f.kind = "email"

DefaultConfig ==
    << Field("email", "email", TRUE), Field("name", "text", TRUE),
       Field("message", "textarea", FALSE) >>
-----------------------------------------------------------------------------
(* A payload is a function from the names it has to what stands there.     *)
Given(payload, name) == IF name \in DOMAIN payload THEN payload[name] ELSE Null

IsBlank_Unstripped(value) == value = Null \/ (value.is = "text" /\ value.raw = 0)
IsBlank(value) == value = Null \/ (value.is = "text" /\ value.length = 0)

Unexpected_TrapToo(payload, config) == DOMAIN payload \ Names(config)
Unexpected(payload, config) == DOMAIN payload \ (Names(config) \cup {Honeypot})

FieldFails(f, value) ==
    \/ value.is = "number"
    \/ IsBlank(value) /\ f.required
    \/ /\ ~IsBlank(value)
       /\ \/ value.length > MaxAnswer[f.kind]
          \/ f.kind = "email" /\ ~value.address

(* The honeypot is measured as it came, and is filled by anything but      *)
(* blanks, by what is no text too.                                         *)
TrapTooLong(payload) ==
    LET trap == Given(payload, Honeypot) IN trap.is = "text" /\ trap.raw > MaxTrap
LooksAutomated(payload) == ~IsBlank(Given(payload, Honeypot))

IsInvalid(payload, config) ==
    \/ Unexpected(payload, config) # {}
    \/ \E f \in Fields(config) : FieldFails(f, Given(payload, f.name))
    \/ TrapTooLong(payload)

(* What is kept: the text without the blanks around it, or None.           *)
Clean(value) == IF IsBlank(value) THEN Null ELSE [value EXCEPT !.raw = value.length]
Cleaned(payload, config) == [n \in Names(config) |-> Clean(Given(payload, n))]
=============================================================================
