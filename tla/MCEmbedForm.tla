----------------------------- MODULE MCEmbedForm ----------------------------
EXTENDS EmbedForm

(* The order of the limits is that of the code: 40, 120, 200, 320, 2000.   *)
Limits == [tel |-> 1, text |-> 2, email |-> 4, textarea |-> 5]
TrapLimit == 3

(* The default; a widget whose contact is optional and which has a field   *)
(* of the honeypot's name; the default after an edit.                      *)
Trapped == << Field("contact", "email", FALSE), Field(Honeypot, "textarea", FALSE) >>
Edited == << Field("email", "email", TRUE), Field("phone", "tel", FALSE) >>
WidgetConfigs == {DefaultConfig, Trapped, Edited}

Blank == Text(4, 0, FALSE)
Word == Text(1, 1, FALSE)
Padded == Text(5, 1, FALSE)
Address == Text(4, 3, TRUE)
Sent == {Null, NotText, Empty, Blank, Word, Padded, Address} \cup
          {Text(n, n, a) : n \in 2..6, a \in BOOLEAN}
TypedTexts == {Empty, Text(1, 0, FALSE), Word, Address}

(* A body that answers everything, any one of its answers replaced, a name *)
(* the widget does not know, and anything in the honeypot.                 *)
Answered(fields) == [n \in Names(fields) |->
    IF \E f \in Fields(fields) : f.name = n /\ f.kind = "email" THEN Address ELSE Word]
OneOff(fields) ==
    LET body == Answered(fields) IN
    {[body EXCEPT ![n] = v] : n \in DOMAIN body, v \in Sent}
    \cup {[m \in DOMAIN body \ {n} |-> body[m]] : n \in DOMAIN body}
    \cup {[n \in DOMAIN body \cup {extra} |-> IF n = extra THEN v ELSE body[n]] :
             extra \in {Honeypot, "company"}, v \in Sent}
Bodies == {NoObject} \cup UNION {OneOff(fields) : fields \in WidgetConfigs}
=============================================================================
