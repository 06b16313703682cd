--------------------------- MODULE EmbedFormProofs ---------------------------
(***************************************************************************)
(* Proofs about EmbedForm and the request it sends, for any configurations *)
(* and payloads, any limit on a body that comes in any pieces, any number  *)
(* of geo providers and of presses.                                        *)
(***************************************************************************)
EXTENDS EmbedForm, FiniteSetTheorems, SequenceTheorems, TLAPS
-----------------------------------------------------------------------------
(* The messages of a response.                                             *)
LEMMA Responses ==
    ASSUME NEW s
    PROVE  /\ <<>> \o Response(s) = Response(s)
           /\ Head(Response(s)) = Start(s) /\ Tail(Response(s)) = <<Body>>
           /\ Append(<<>>, Start(s)) = <<Start(s)>>
           /\ Append(<<Start(s)>>, Body) = Response(s)
           /\ Len(Response(s)) = 2 /\ Response(s)[1] = Start(s) /\ Start(s)[2] = s
           /\ Response(s) # <<Body>> /\ Start(s) # Body /\ Response(s) # <<>>
           /\ Head(<<Body>>) = Body /\ Tail(<<Body>>) = <<>> /\ <<Body>> # <<>>
<1>1. Start(s) # Body
    BY DEF Start, Body
<1>2. Start(s)[2] = s
    BY DEF Start
<1> HIDE DEF Start, Body
<1>3. /\ Head(Response(s)) = Start(s) /\ Tail(Response(s)) = <<Body>>
      /\ Len(Response(s)) = 2 /\ Response(s)[1] = Start(s)
      /\ Response(s) # <<Body>> /\ Response(s) # <<>>
    BY DEF Response
<1>4. Append(<<>>, Start(s)) = <<Start(s)>> /\ Append(<<Start(s)>>, Body) = Response(s)
    <2>1. ASSUME NEW a PROVE Append(<<>>, a) = <<a>>
        OBVIOUS
    <2>2. ASSUME NEW a, NEW b PROVE Append(<<a>>, b) = <<a, b>>
        <3> DEFINE S == {a, b}
        <3>1. <<a>> \in Seq(S) /\ <<a, b>> \in Seq(S) /\ b \in S
            OBVIOUS
        <3>2. Append(<<a>>, b) \in Seq(S) /\ Len(Append(<<a>>, b)) = 2
            BY <3>1
        <3>3. Append(<<a>>, b)[1] = a /\ Append(<<a>>, b)[2] = b
            BY <3>1
        <3>4. Len(<<a, b>>) = 2 /\ <<a, b>>[1] = a /\ <<a, b>>[2] = b
            OBVIOUS
        <3> DEFINE u == Append(<<a>>, b)
                   v == <<a, b>>
        <3> HIDE DEF u, v, S
        <3>5. u \in Seq(S) /\ v \in Seq(S) /\ Len(u) = 2 /\ Len(v) = 2
            BY <3>1, <3>2, <3>4 DEF u, v
        <3>6. \A i \in 1 .. 2 : u[i] = v[i]
            <4>1. u[1] = v[1] /\ u[2] = v[2]
                BY <3>3, <3>4 DEF u, v
            <4> QED BY <4>1
        <3>7. u = v
            BY <3>5, <3>6, SeqEqual
        <3> QED BY <3>7 DEF u, v
    <2> QED BY <2>1, <2>2 DEF Response
<1>5. <<>> \o Response(s) = Response(s)
    BY DEF Response
<1>6. Head(<<Body>>) = Body /\ Tail(<<Body>>) = <<>> /\ <<Body>> # <<>>
    OBVIOUS
<1> QED BY <1>1, <1>2, <1>3, <1>4, <1>5, <1>6

(* A response tells its status.                                            *)
LEMMA ResponseStatus == \A s : Response(s)[1][2] = s
BY Responses

(* And so two responses are the same only for the same status.             *)
LEMMA ResponseTells == \A r, s : Response(r) = Response(s) => r = s
<1> SUFFICES ASSUME NEW r, NEW s, Response(r) = Response(s) PROVE r = s
    OBVIOUS
<1>1. Response(r)[1][2] = r /\ Response(s)[1][2] = s
    BY Responses
<1> QED BY <1>1

(* The messages are messages.                                              *)
LEMMA ResponseTypes ==
    ASSUME NEW s \in Statuses
    PROVE  /\ Response(s) \in Seq(Message) /\ <<Body>> \in Seq(Message) /\ <<>> \in Seq(Message)
           /\ <<Start(s)>> \in Seq(Message)
           /\ Class(s) \in 1..5 /\ <<Class(s)>> \in Seq(1..5)
<1>1. Start(s) \in Message /\ Body \in Message
    BY DEF Message
<1>2. Class(s) \in 1..5
    BY DEF Class, Statuses
<1> HIDE DEF Start, Body, Message, Class
<1> QED BY <1>1, <1>2 DEF Response

-----------------------------------------------------------------------------
(* What is kept of an answer, when it is not refused.                      *)
LEMMA CleanIs ==
    ASSUME NEW v \in Values, v.is # "number"
    PROVE  /\ Clean(v) \in Values
           /\ Clean(v) = Null <=> IsBlank(v)
           /\ ~IsBlank(v) => /\ v \in Texts /\ v.length \in Nat \ {0}
                             /\ Clean(v).raw = v.length /\ Clean(v).address = v.address
<1>1. v = Null \/ v \in Texts
    BY DEF Values, NotText
<1>2. CASE v = Null
    BY <1>2 DEF Clean, IsBlank, Values
<1>3. CASE v \in Texts
    <2>1. v # Null /\ v.is = "text" /\ v.length \in Nat
        BY <1>3 DEF Texts, Null
    <2>2. CASE v.length = 0
        BY <2>1, <2>2 DEF Clean, IsBlank, Values
    <2>3. CASE v.length # 0
        <3>1. Clean(v) = [v EXCEPT !.raw = v.length] /\ ~IsBlank(v)
            BY <2>1, <2>3 DEF Clean, IsBlank
        <3>2. Clean(v) \in Texts /\ Clean(v).raw = v.length /\ Clean(v).address = v.address
            BY <1>3, <3>1 DEF Texts
        <3>3. Clean(v) # Null
            BY <3>2 DEF Texts, Null
        <3> QED BY <1>3, <2>1, <2>3, <3>1, <3>2, <3>3 DEF Values
    <2> QED BY <2>2, <2>3
<1> QED BY <1>1, <1>2, <1>3

(* Fields have a name of the configuration and a limit.                    *)
LEMMA FieldsAreNamed ==
    ASSUME NEW fields \in Configs
    PROVE  /\ \A f \in Fields(fields) : f.name \in Names(fields) /\ f.kind \in Kinds
           /\ \A n \in Names(fields) : \E f \in Fields(fields) : f.name = n
<1>1. IsConfig(fields)
    BY ConfigAssumption
<1>2. \A f \in Fields(fields) : \E i \in 1 .. Len(fields) : f = fields[i]
    BY <1>1 DEF IsConfig, Fields, Range
<1>3. \A f \in Fields(fields) : f.kind \in Kinds
    BY <1>1, <1>2 DEF IsConfig
<1> QED BY <1>3 DEF Names

(* What is given under a name is a value.                                  *)
LEMMA GivenIsValue ==
    ASSUME NEW payload, payload \in [DOMAIN payload -> Values], NEW n
    PROVE  Given(payload, n) \in Values
BY DEF Given, Values

(* What the route keeps of a valid payload is what the widget asks for.    *)
LEMMA CleanedConforms ==
    ASSUME config \in Configs, NEW payload, payload \in [DOMAIN payload -> Values],
           IsValid(payload), ~LooksAutomated(payload), answers' = Cleaned(payload, config),
           config' = config
    PROVE  Conforms' /\ answers' \in [Names(config) -> Values]
<1>1. \A f \in Fields(config) : ~FieldFails(f, Given(payload, f.name))
    BY DEF IsValid, IsInvalid
<1>2. IsBlank(Given(payload, Honeypot))
    BY DEF LooksAutomated
<1>3. \A n \in Names(config) : Given(payload, n) \in Values /\ Given(payload, n).is # "number"
    BY <1>1, FieldsAreNamed, GivenIsValue DEF FieldFails
<1>4. answers' = [n \in Names(config) |-> Clean(Given(payload, n))]
    BY DEF Cleaned
<1>5. ASSUME NEW f \in Fields(config), NEW n, n = f.name
      PROVE  /\ answers'[n] = Null => ~f.required
             /\ answers'[n] # Null =>
                   /\ answers'[n].raw \in 1 .. MaxAnswer[f.kind]
                   /\ f.kind = "email" => answers'[n].address
                   /\ n # Honeypot
    <2> DEFINE v == Given(payload, n)
    <2>1. n \in Names(config) /\ f.kind \in Kinds /\ ~FieldFails(f, v)
        BY <1>1, <1>5, FieldsAreNamed
    <2>2. v \in Values /\ v.is # "number" /\ answers'[n] = Clean(v)
        BY <1>3, <1>4, <2>1
    <2>3. MaxAnswer[f.kind] \in Nat
        BY <2>1, LengthAssumption
    <2>4. n = Honeypot => IsBlank(v)
        BY <1>2
    <2> HIDE DEF v
    <2>5. /\ Clean(v) = Null <=> IsBlank(v)
          /\ ~IsBlank(v) => /\ v.length \in Nat \ {0}
                            /\ Clean(v).raw = v.length /\ Clean(v).address = v.address
        BY <2>2, CleanIs
    <2> QED BY <2>1, <2>2, <2>3, <2>4, <2>5 DEF FieldFails
<1>6. Conforms'
    BY <1>4, <1>5 DEF Conforms
<1>7. \A n \in Names(config) : Clean(Given(payload, n)) \in Values
    BY <1>3, CleanIs
<1> QED BY <1>4, <1>6, <1>7

(* What fits into the controls of a form: texts, none of them too long.    *)
LEMMA FillingsFit ==
    ASSUME NEW fields \in Configs, NEW t \in Fillings(fields)
    PROVE  /\ t \in [Names(fields) -> Typed]
           /\ \A n \in Names(fields) : t[n] \in Texts /\ t[n].length <= t[n].raw
           /\ \A f \in Fields(fields) : t[f.name].raw <= MaxAnswer[f.kind]
BY TypedAssumption DEF Fillings

(* The body of the form is an object of values, the honeypot empty.        *)
LEMMA BodyIsObject ==
    ASSUME NEW fields \in Configs, NEW t \in Fillings(fields)
    PROVE  LET body == BodyOf(fields, t) IN
           /\ body \in [DOMAIN body -> Values] /\ DOMAIN body = Names(fields) \cup {Honeypot}
           /\ ~LooksAutomated(body) /\ ~TrapTooLong(body)
           /\ \A n \in Names(fields) \ {Honeypot} :
                 Given(body, n) = IF t[n] = Empty THEN Null ELSE t[n]
<1> DEFINE body == BodyOf(fields, t)
<1>1. DOMAIN body = Names(fields) \cup {Honeypot}
    BY DEF BodyOf
<1>2. Null \in Values /\ Empty \in Values /\ Empty.is = "text" /\ Empty.length = 0 /\ Empty.raw = 0
    BY DEF Values, Texts, Empty, Text
<1>3. body[Honeypot] = Empty
    BY DEF BodyOf
<1>4. \A n \in Names(fields) \ {Honeypot} : body[n] = IF t[n] = Empty THEN Null ELSE t[n]
    BY DEF BodyOf
<1>5. \A n \in Names(fields) : t[n] \in Values
    BY FillingsFit DEF Values
<1>6. \A n \in DOMAIN body : body[n] \in Values
    BY <1>1, <1>2, <1>3, <1>4, <1>5
<1>7. body = [n \in DOMAIN body |-> body[n]]
    BY DEF BodyOf
<1> HIDE DEF body
<1>8. body \in [DOMAIN body -> Values]
    BY <1>6, <1>7
<1>9. Given(body, Honeypot) = Empty
    BY <1>1, <1>3 DEF Given
<1>10. ~LooksAutomated(body)
    BY <1>2, <1>9 DEF LooksAutomated, IsBlank
<1>11. ~TrapTooLong(body)
    BY <1>2, <1>9, LengthAssumption DEF TrapTooLong
<1>12. \A n \in Names(fields) \ {Honeypot} : Given(body, n) = IF t[n] = Empty THEN Null ELSE t[n]
    BY <1>1, <1>4 DEF Given
<1> QED BY <1>1, <1>8, <1>10, <1>11, <1>12 DEF body

(* What is kept of the body is what was typed, up to blanks around it.     *)
LEMMA KeptAsTyped ==
    ASSUME rendered \in Configs, typed \in Fillings(rendered), IsValid(FormBody),
           NEW n \in Names(rendered) \ {Honeypot}
    PROVE  Cleaned(FormBody, config)[n] = Clean(typed[n])
<1>1. /\ DOMAIN FormBody = Names(rendered) \cup {Honeypot}
      /\ Given(FormBody, n) = IF typed[n] = Empty THEN Null ELSE typed[n]
    BY BodyIsObject DEF FormBody
<1>2. n \in Names(config)
    BY <1>1 DEF IsValid, IsInvalid, Unexpected
<1>3. Clean(Empty) = Null /\ Clean(Null) = Null
    BY DEF Clean, IsBlank, Empty, Text
<1> QED BY <1>1, <1>2, <1>3 DEF Cleaned

(* A form that is up to date and filled as it asks for passes.             *)
LEMMA WellFilledPasses ==
    ASSUME rendered \in Configs, typed \in Fillings(rendered), rendered = config,
           WellFilled, Honeypot \notin Names(rendered)
    PROVE  IsValid(FormBody)
<1> DEFINE body == FormBody
<1>1. /\ DOMAIN body = Names(rendered) \cup {Honeypot} /\ ~TrapTooLong(body)
      /\ \A n \in Names(rendered) : Given(body, n) = IF typed[n] = Empty THEN Null ELSE typed[n]
    BY BodyIsObject DEF FormBody
<1>2. body # NoObject
    BY ObjectAssumption DEF FormBody
<1>3. Unexpected(body, config) = {}
    BY <1>1 DEF Unexpected
<1>4. ASSUME NEW f \in Fields(config) PROVE ~FieldFails(f, Given(body, f.name))
    <2> DEFINE v == typed[f.name]
    <2>1. f.name \in Names(rendered) /\ f.kind \in Kinds /\ MaxAnswer[f.kind] \in Nat
        BY FieldsAreNamed, LengthAssumption
    <2>2. v \in Texts /\ v.length <= v.raw /\ v.raw <= MaxAnswer[f.kind]
        BY <2>1, FillingsFit
    <2>3. /\ f.required => v.length > 0
          /\ f.kind = "email" /\ v.length > 0 => v.address
        BY DEF WellFilled
    <2>4. Given(body, f.name) = IF v = Empty THEN Null ELSE v
        BY <1>1, <2>1
    <2>5. v.length \in Nat /\ v.raw \in Nat /\ v.is = "text" /\ Null.is = "null" /\ Empty.length = 0
        BY <2>2 DEF Texts, Null, Empty, Text
    <2> HIDE DEF v, body
    <2>6. CASE v = Empty
        BY <2>3, <2>4, <2>5, <2>6 DEF FieldFails, IsBlank
    <2>7. CASE v # Empty
        BY <2>1, <2>2, <2>3, <2>4, <2>5, <2>7 DEF FieldFails, IsBlank
    <2> QED BY <2>6, <2>7
<1> QED BY <1>1, <1>2, <1>3, <1>4 DEF IsValid, IsInvalid
-----------------------------------------------------------------------------
(* The request: every step keeps the invariant.                            *)

(* Statuses, sizes and the length that is declared.                        *)
LEMMA Numbers ==
    /\ {202, 400, 404, 413, 422, 429, 500} = Statuses
    /\ 0 .. MaxBody \subseteq Nat /\ MaxBytes \in Nat
    /\ ~OverLimit(0)
    /\ NoHeader \notin 0 .. MaxBody /\ BadHeader \notin 0 .. MaxBody
BY LimitAssumption, HeaderAssumption DEF Statuses, OverLimit

(* The guard refuses by the declared length.                               *)
LEMMA RefuseDeclaredStep == ASSUME RequestInv, RefuseDeclared PROVE RequestInv'
<1> USE DEF RequestInv, RefuseDeclared, guard, client, geo, route, context
<1>1. /\ pc = "arrived" /\ pc' = "closed" /\ RefusedUnread /\ wire = <<>>
      /\ \E s \in {400, 413} : wire' = wire \o Response(s)
    BY DEF Untraced, Unanswered, Respond, RefusedUnread
<1>2. PICK s \in {400, 413} : wire' = Response(s)
    BY <1>1, Responses
<1>3. s \in Statuses /\ wire' \in Seq(Message)
    BY <1>2, Numbers, ResponseTypes
<1>4. TypeOK'
    BY <1>1, <1>3 DEF TypeOK, Enabled
<1>5. Untraced' /\ Measured' /\ LetIn'
    BY <1>1, Numbers DEF Untraced, Unanswered, Measured, LetIn
<1>6. Due(s)' /\ \A r : Due(r)' => r = s
    BY <1>1, <1>2, ResponseTells DEF Due, HalfSent
<1>7. OnTheWire' /\ ToldSo'
    BY <1>1, <1>2, <1>3, <1>6, Numbers DEF Untraced, Unanswered, Measured, OnTheWire, ToldSo, HalfSent
<1>8. CountedSoFar'
    BY <1>1 DEF Untraced, Unanswered, CountedSoFar, CountedAsAnswered, RefusedUnread, DeclaresTooMuch
<1>9. Asked' /\ FirstAnswerCounts'
    BY <1>1 DEF Asked, FirstAnswerCounts, Untraced, Unanswered
<1> QED BY <1>1, <1>4, <1>5, <1>7, <1>8, <1>9 DEF Untraced, Unanswered

(* A request passes the guard.                                             *)
LEMMA EnterAppStep == ASSUME RequestInv, EnterApp PROVE RequestInv'
<1> USE DEF RequestInv, EnterApp, guard, client, geo, route, context
<1>1. TypeOK'
    BY DEF TypeOK, Enabled
<1>2. Untraced' /\ Measured' /\ LetIn' /\ Asked' /\ FirstAnswerCounts'
    BY Numbers DEF Untraced, Unanswered, Measured, LetIn, Asked, RefusedUnread, DeclaresTooMuch,
        FirstAnswerCounts, NobodyAsked, Enabled
<1>3. OnTheWire' /\ ToldSo' /\ CountedSoFar'
    BY Numbers DEF OnTheWire, ToldSo, HalfSent, Due, Measured, CountedSoFar, Untraced, Unanswered,
        CountedAsAnswered
<1> QED BY <1>1, <1>2, <1>3 DEF Untraced, Unanswered

(* A piece of the body comes in, or the client goes away.                  *)
LEMMA ReceiveStep ==
    ASSUME RequestInv, NEW size \in 0 .. MaxBody, NEW more \in BOOLEAN, Receive(size, more)
    PROVE  RequestInv'
<1> USE DEF RequestInv, Receive, guard, client, geo, route, context
<1>1. pc = "reading" /\ received = sent /\ pc' \in {"broken", "reading", "parsed"}
    BY DEF Measured
<1>2. received' = sent' /\ sent' \in 0 .. MaxBody /\ exceeded' = OverLimit(sent')
      /\ exceeded' \in BOOLEAN
    BY <1>1, LimitAssumption DEF Counted, MayFollow, TypeOK, OverLimit
<1>3. TypeOK'
    BY <1>1, <1>2 DEF TypeOK, Enabled
<1>4. Untraced' /\ Measured' /\ LetIn' /\ Asked' /\ FirstAnswerCounts'
    BY <1>1, <1>2 DEF Untraced, Unanswered, Measured, LetIn, Asked, RefusedUnread,
        DeclaresTooMuch, FirstAnswerCounts, NobodyAsked, Enabled
<1>5. OnTheWire' /\ ToldSo' /\ CountedSoFar'
    BY <1>1 DEF OnTheWire, ToldSo, HalfSent, Due, CountedSoFar, Untraced, Unanswered,
        CountedAsAnswered
<1> QED BY <1>1, <1>3, <1>4, <1>5 DEF Untraced, Unanswered

(* The client goes away: only that is kept.                                *)
LEMMA DisconnectStep == ASSUME RequestInv, Disconnect PROVE RequestInv'
<1> USE DEF RequestInv, Disconnect, guard, client, geo, route, context
<1>1. TypeOK'
    BY DEF TypeOK, Enabled
<1>2. Untraced' /\ Measured' /\ LetIn' /\ Asked' /\ FirstAnswerCounts'
    BY DEF Untraced, Unanswered, Measured, LetIn, Asked, RefusedUnread, DeclaresTooMuch,
        FirstAnswerCounts, NobodyAsked, Enabled
<1>3. OnTheWire' /\ ToldSo' /\ CountedSoFar'
    BY DEF OnTheWire, ToldSo, HalfSent, Due, Measured, CountedSoFar, Untraced, Unanswered,
        CountedAsAnswered
<1> QED BY <1>1, <1>2, <1>3 DEF Untraced, Unanswered

(* What holds when the application has given its answer: status s, and     *)
(* what became of the submission.                                          *)
LEMMA AnsweredStep ==
    ASSUME RequestInv, NEW s \in Statuses, Answers(s),
           pc \in {"reading", "broken", "parsed", "store"}, exceeded => s = 400,
           outcome' \in {"none", "stored", "dropped"}, s = 202 <=> outcome' # "none",
           outcome' = "stored" => pc = "store",
           outcome' = "dropped" => pc = "parsed",
           UNCHANGED <<declared, received, exceeded, responded, wire, client, geo, config, answers,
                       context>>
    PROVE  RequestInv'
<1> USE DEF RequestInv, Answers, client, geo, context
<1>1. /\ pc \in Unanswered /\ wire = <<>> /\ observed = <<>> /\ ~responded
      /\ queue' = Response(s) /\ pc' = "answering"
    BY DEF Untraced, Unanswered
<1>2. ~HalfSent' /\ Due(s)' /\ \A r : Due(r)' => r = s
    <2>1. Response(s) # <<Body>>
        BY Responses
    <2>2. ~HalfSent'
        BY <1>1, <2>1 DEF HalfSent
    <2>3. \A r : Due(r)' <=> Response(s) = Response(r)
        BY <1>1, <2>2 DEF Due
    <2> QED BY <2>2, <2>3, ResponseTells
<1>3. TypeOK'
    BY <1>1, ResponseTypes DEF TypeOK, Enabled
<1>4. Untraced' /\ LetIn'
    BY <1>1 DEF Untraced, Unanswered, LetIn, RefusedUnread, DeclaresTooMuch
<1>5. Measured'
    BY <1>1, Numbers DEF Measured
<1>6. OnTheWire' /\ CountedSoFar'
    BY <1>1, <1>2 DEF OnTheWire, CountedSoFar, CountedAsAnswered
<1>7. ToldSo'
    BY <1>1, <1>2 DEF ToldSo
<1>8. Asked'
    BY <1>1 DEF Asked
<1>9. FirstAnswerCounts'
    BY <1>1 DEF Asked, FirstAnswerCounts, Located, NobodyAsked, Enabled
<1>10. outcome' = "stored" => Conforms'
    BY DEF Conforms
<1> QED BY <1>1, <1>3, <1>4, <1>5, <1>6, <1>7, <1>8, <1>9, <1>10

(* The answers that store nothing.                                         *)
LEMMA NoLeadStep ==
    ASSUME RequestInv, BodyUnread \/ Refuse \/ \E payload : RefuseAnswers(payload)
    PROVE  RequestInv'
<1>1. /\ outcome' = outcome /\ outcome = "none" /\ pc \in {"reading", "broken", "parsed"}
      /\ UNCHANGED <<declared, received, exceeded, responded, wire, client, geo, config, answers,
                     context>>
    BY DEF RequestInv, BodyUnread, Refuse, RefuseAnswers, Untraced, Unanswered, guard, route
<1>2. \E s \in {400, 404, 422, 429} : Answers(s) /\ (exceeded => s = 400)
    BY DEF RequestInv, BodyUnread, Refuse, RefuseAnswers, Measured
<1>3. PICK s \in {400, 404, 422, 429} : Answers(s) /\ (exceeded => s = 400)
    BY <1>2
<1>4. s \in Statuses
    BY Numbers
<1> QED BY <1>1, <1>3, <1>4, AnsweredStep

(* A filled honeypot.                                                      *)
LEMMA DropStep ==
    ASSUME RequestInv, NEW payload, DropAutomated(payload) PROVE RequestInv'
<1>1. /\ pc = "parsed" /\ Answers(202) /\ outcome' = "dropped"
      /\ UNCHANGED <<declared, received, exceeded, responded, wire, client, geo, config, answers,
                     context>>
    BY DEF DropAutomated, guard
<1>2. ~exceeded
    BY <1>1 DEF RequestInv, Measured
<1> QED BY <1>1, <1>2, Numbers, AnsweredStep

(* The lead is stored.                                                     *)
LEMMA StoreStep == ASSUME RequestInv, Store PROVE RequestInv'
<1>1. /\ pc = "store" /\ Answers(202) /\ outcome' = "stored"
      /\ UNCHANGED <<declared, received, exceeded, responded, wire, client, geo, config, answers,
                     context>>
    BY DEF Store, guard
<1>2. ~exceeded
    BY <1>1 DEF RequestInv, Measured
<1> QED BY <1>1, <1>2, Numbers, AnsweredStep

(* The answers are taken over as the widget asks for them.                 *)
LEMMA AcceptStep ==
    ASSUME RequestInv, NEW payload, payload \in [DOMAIN payload -> Values], Accept(payload)
    PROVE  RequestInv'
<1> USE DEF RequestInv, Accept, guard, client, geo, route, context
<1>1. Conforms' /\ answers' \in [Names(config) -> Values]
    BY CleanedConforms DEF TypeOK
<1>2. pc = "parsed" /\ pc' \in {"geo", "store"} /\ ~exceeded
    BY DEF Measured
<1>3. TypeOK'
    BY <1>1, <1>2 DEF TypeOK, Enabled
<1>4. Untraced' /\ Measured' /\ LetIn' /\ FirstAnswerCounts'
    BY <1>2 DEF Untraced, Unanswered, Measured, LetIn, RefusedUnread, DeclaresTooMuch,
        FirstAnswerCounts, NobodyAsked, Enabled
<1>5. Asked'
    BY <1>2 DEF Asked, NobodyAsked, Located, Enabled, NoLocation
<1>6. OnTheWire' /\ ToldSo' /\ CountedSoFar'
    BY <1>2 DEF OnTheWire, ToldSo, HalfSent, Due, Untraced, Unanswered, CountedSoFar,
        CountedAsAnswered
<1> QED BY <1>1, <1>2, <1>3, <1>4, <1>5, <1>6

(* What leaves the answer and the outcome alone while the chain is asked.  *)
LEMMA GeoFrame ==
    ASSUME RequestInv, pc = "geo", pc' \in {"geo", "store"}, Asked', Enabled' = Enabled,
           chain' \subseteq Enabled, location' \in Enabled \cup {NoLocation},
           said' \in [1 .. Providers ->
                        {"disabled", "unasked", "error", "nothing", "empty", "found"}],
           UNCHANGED <<guard, wire, queue, client, route, context>>
    PROVE  RequestInv'
<1> USE DEF RequestInv, guard, client, route, context
<1>1. TypeOK'
    BY DEF TypeOK
<1>2. Untraced' /\ Measured' /\ LetIn' /\ FirstAnswerCounts'
    BY DEF Untraced, Unanswered, Measured, LetIn, RefusedUnread, DeclaresTooMuch,
        FirstAnswerCounts
<1>3. OnTheWire' /\ ToldSo' /\ CountedSoFar'
    BY DEF OnTheWire, ToldSo, HalfSent, Due, Untraced, Unanswered, CountedSoFar,
        CountedAsAnswered
<1> QED BY <1>1, <1>2, <1>3 DEF Conforms

(* One provider is asked, or none is left.                                 *)
LEMMA AskStep ==
    ASSUME RequestInv, NEW answer \in {"error", "nothing", "empty", "found"}, AskProvider(answer)
    PROVE  RequestInv'
<1>1. PICK p \in 1 .. Providers :
          /\ IsNext(p)
          /\ said' = [said EXCEPT ![p] = answer]
          /\ IF answer = "found"
             THEN location' = p /\ pc' = "store" /\ UNCHANGED chain
             ELSE chain' = Rest(p, answer) /\ UNCHANGED <<location, pc>>
    BY DEF AskProvider
<1>2. /\ pc = "geo" /\ pc' \in {"geo", "store"}
      /\ UNCHANGED <<guard, wire, queue, client, route, context>>
    BY <1>1 DEF AskProvider
<1>3. /\ said \in [1 .. Providers ->
                     {"disabled", "unasked", "error", "nothing", "empty", "found"}]
      /\ chain \subseteq Enabled /\ location = NoLocation /\ p \in chain
      /\ \A q \in chain : p <= q
      /\ \A q \in Enabled \ chain :
            said[q] \in Unhelpful /\ \A r \in chain : q < r
      /\ \A q \in chain : said[q] = "unasked"
    BY <1>1, <1>2 DEF RequestInv, TypeOK, Asked, IsNext
<1>4. said'[p] = answer /\ \A q \in 1 .. Providers \ {p} : said'[q] = said[q]
    BY <1>1, <1>3
<1>5. Enabled' = Enabled /\ Enabled \subseteq 1 .. Providers
    BY <1>3, <1>4 DEF Enabled
<1>6. 1 .. Providers \subseteq Nat \ {0} /\ NoLocation = 0
    BY LimitAssumption DEF NoLocation
<1>7. said' \in [1 .. Providers ->
                   {"disabled", "unasked", "error", "nothing", "empty", "found"}]
    BY <1>1, <1>3
<1>8. CASE answer = "found"
    <2>1. location' = p /\ pc' = "store" /\ chain' = chain
        BY <1>1, <1>8
    <2>2. ASSUME NEW q \in Enabled, q < p PROVE said'[q] \in Unhelpful
        <3>1. q \notin chain /\ q # p
            BY <1>3, <1>5, <1>6, <2>2
        <3> QED BY <1>3, <1>4, <1>5, <3>1
    <2>3. Located'
        BY <1>3, <1>4, <1>5, <1>6, <1>8, <2>1, <2>2 DEF Located
    <2>4. Asked'
        BY <2>1, <2>3 DEF Asked
    <2> QED BY <1>2, <1>3, <1>5, <1>7, <2>1, <2>4, GeoFrame
<1>9. CASE answer # "found"
    <2>1. location' = NoLocation /\ pc' = "geo" /\ chain' = chain \ {p}
        BY <1>1, <1>2, <1>3, <1>9 DEF Rest
    <2>2. ASSUME NEW q \in Enabled \ chain'
          PROVE  said'[q] \in Unhelpful /\ \A r \in chain' : q < r
        <3>1. CASE q = p
            <4>1. answer \in Unhelpful
                BY <1>9 DEF Unhelpful
            <4>2. \A r \in chain' : p < r
                BY <1>3, <1>5, <1>6, <2>1
            <4> QED BY <1>4, <3>1, <4>1, <4>2
        <3>2. CASE q # p
            BY <1>3, <1>4, <1>5, <2>1, <2>2, <3>2
        <3> QED BY <3>1, <3>2
    <2>3. \A q \in chain' : said'[q] = "unasked"
        BY <1>3, <1>4, <1>5, <2>1
    <2>4. Asked'
        BY <1>5, <2>1, <2>2, <2>3 DEF Asked
    <2> QED BY <1>2, <1>3, <1>5, <1>7, <2>1, <2>4, GeoFrame
<1> QED BY <1>8, <1>9

(* Everybody has been asked, to no avail: the lead has no location.        *)
LEMMA ChainEndsStep == ASSUME RequestInv, ChainEnds PROVE RequestInv'
<1>1. /\ pc = "geo" /\ pc' = "store" /\ chain = {} /\ Enabled' = Enabled
      /\ UNCHANGED <<guard, wire, queue, client, route, context, geo>>
    BY DEF ChainEnds, Enabled, geo
<1>2. location = NoLocation /\ \A p \in Enabled : said[p] \in Unhelpful
    BY <1>1 DEF RequestInv, Asked
<1>3. \A p \in Enabled : p # NoLocation
    BY LimitAssumption DEF Enabled, NoLocation
<1>4. Located'
    BY <1>1, <1>2, <1>3 DEF Located, geo
<1>5. Asked'
    BY <1>1, <1>4 DEF Asked
<1>6. TypeOK
    BY DEF RequestInv
<1> QED BY <1>1, <1>5, <1>6, GeoFrame DEF TypeOK, geo

(* An exception: the server's 500, and nothing of the guard.               *)
LEMMA RaiseStep == ASSUME RequestInv, Raise PROVE RequestInv'
<1> USE DEF RequestInv, Raise, guard, client, geo
<1>1. /\ pc \in {"parsed", "store"} /\ pc' = "closed" /\ ~exceeded /\ ~RefusedUnread
      /\ wire = <<>> /\ observed = <<>> /\ queue = <<>> /\ ~responded /\ outcome = "none"
    BY DEF Untraced, Unanswered, Measured, LetIn
<1>2. wire' = Response(500) /\ 500 \in Statuses
    BY <1>1, Responses, Numbers DEF Respond
<1>3. observed' = <<Class(code)>> /\ code = 500
    <2>1. Append(<<>>, Class(code)) = <<Class(code)>>
        OBVIOUS
    <2> QED BY <1>1, <2>1 DEF Observe, Untraced, Unanswered
<1>4. Due(500)' /\ \A r : Due(r)' => r = 500
    BY <1>1, <1>2, ResponseTells DEF Due, HalfSent
<1>5. TypeOK'
    BY <1>1, <1>2, <1>3, ResponseTypes DEF TypeOK, Enabled
<1>6. Untraced' /\ Measured' /\ LetIn' /\ Asked'
    BY <1>1 DEF Untraced, Unanswered, Measured, LetIn, Asked
<1>7. FirstAnswerCounts' /\ (outcome' = "stored" => Conforms')
    BY <1>1 DEF Asked, FirstAnswerCounts, Located, NobodyAsked, Enabled, Conforms
<1>8. OnTheWire' /\ ToldSo'
    BY <1>1, <1>2, <1>4 DEF OnTheWire, ToldSo, HalfSent
<1>9. CountedSoFar'
    <2>1. wire'[1][2] = 500
        BY <1>2, ResponseStatus
    <2>2. ~RefusedUnread'
        BY <1>1 DEF RefusedUnread, DeclaresTooMuch
    <2> QED BY <1>1, <1>3, <2>1, <2>2 DEF CountedSoFar, CountedAsAnswered, RefusedUnread
<1> QED BY <1>1, <1>5, <1>6, <1>7, <1>8, <1>9

(* A message of the answer goes through both layers: the answer stays.     *)
LEMMA SendStep ==
    ASSUME RequestInv, Send PROVE RequestInv' /\ \A r : Due(r)' <=> Due(r)
<1> USE DEF RequestInv, client, geo, route
<1>1. /\ pc = "answering" /\ queue' = Tail(queue)
      /\ code' = IF Head(queue) = Body THEN code ELSE Head(queue)[2]
      /\ UNCHANGED <<declared, received, exceeded, client, geo, route>>
    BY DEF Send
<1>a. IF exceeded THEN IF ~responded THEN responded' = TRUE /\ wire' = wire \o Response(413)
                                     ELSE responded' = responded /\ wire' = wire
                  ELSE wire' = Append(wire, Head(queue)) /\ responded' = responded
    BY DEF Send, PassOn, Respond
<1>b. IF queue' = <<>> THEN pc' = "returned" /\ observed' = Append(observed, Class(code'))
                       ELSE pc' = pc /\ observed' = observed
    BY DEF Send, Observe
<1>2. observed = <<>> /\ ~RefusedUnread
    BY <1>1 DEF CountedSoFar, LetIn
<1>3. Asked' /\ Measured' /\ LetIn' /\ FirstAnswerCounts' /\ (outcome' = "stored" => Conforms')
      /\ (pc' \in {"answering", "returned"})
    BY <1>1, <1>b, <1>2 DEF Asked, Measured, LetIn, RefusedUnread, DeclaresTooMuch, FirstAnswerCounts,
        Located, NobodyAsked, Enabled, Conforms
<1>4. CASE ~HalfSent
    <2>1. PICK s \in Statuses : queue = Response(s)
        BY <1>1, <1>4 DEF OnTheWire
    <2>2. Head(queue) = Start(s) /\ queue' = <<Body>> /\ Start(s) # Body /\ Start(s)[2] = s
          /\ Append(<<>>, Start(s)) = <<Start(s)>> /\ <<>> \o Response(413) = Response(413)
          /\ queue' # <<>>
        BY <1>1, <2>1, Responses
    <2>3. code' = s /\ pc' = "answering" /\ observed' = <<>>
        BY <1>1, <1>b, <1>2, <2>2
    <2>4. wire = <<>> /\ ~responded
        BY <1>1, <1>4 DEF OnTheWire
    <2>5. IF exceeded THEN wire' = Response(413) /\ responded' ELSE wire' = <<Start(s)>> /\ ~responded'
        BY <1>a, <2>2, <2>4
    <2>6. HalfSent' /\ \A r : Due(r)' <=> r = s
        <3>1. HalfSent'
            BY <2>2, <2>3 DEF HalfSent
        <3>2. <<Body>> # Response(s) /\ \A r : <<Body>> # Response(r)
            BY Responses
        <3> QED BY <2>2, <2>3, <3>1, <3>2 DEF Due
    <2>7. \A r : Due(r) <=> r = s
        BY <1>1, <1>4, <2>1, ResponseTells DEF Due
    <2>8. TypeOK'
        <3>1. /\ Response(413) \in Seq(Message) /\ <<Start(s)>> \in Seq(Message)
              /\ <<Body>> \in Seq(Message)
            BY Numbers, ResponseTypes
        <3>2. /\ queue' \in Seq(Message) /\ wire' \in Seq(Message) /\ code' \in Statuses
              /\ observed' \in Seq(1 .. 5)
            BY <1>2, <2>2, <2>3, <2>5, <3>1 DEF TypeOK
        <3>3. responded' \in BOOLEAN
            BY <1>a DEF TypeOK
        <3> QED BY <1>1, <2>3, <3>2, <3>3 DEF TypeOK, Enabled
    <2>9. OnTheWire' /\ CountedSoFar' /\ ToldSo'
        BY <1>1, <2>3, <2>5, <2>6, <2>7 DEF OnTheWire, CountedSoFar, CountedAsAnswered, ToldSo
    <2> QED BY <1>3, <2>3, <2>6, <2>7, <2>8, <2>9 DEF Untraced, Unanswered
<1>5. CASE HalfSent
    <2>1. queue = <<Body>> /\ Head(queue) = Body /\ queue' = <<>>
          /\ Append(<<Start(code)>>, Body) = Response(code)
        BY <1>1, <1>5, Responses DEF HalfSent
    <2>2. code' = code /\ pc' = "returned" /\ observed' = <<Class(code)>>
        <3>1. Append(<<>>, Class(code)) = <<Class(code)>>
            OBVIOUS
        <3> QED BY <1>1, <1>b, <1>2, <2>1, <3>1
    <2>3. IF exceeded THEN wire' = Response(413) /\ responded' ELSE wire' = Response(code) /\ ~responded'
        BY <1>a, <1>5, <2>1 DEF OnTheWire
    <2>4. \A r : Due(r)' <=> Due(r)
        <3>1. \A r : Due(r)' <=> code = r
            BY <2>2 DEF Due, HalfSent
        <3>2. \A r : Due(r) <=> code = r
            <4>1. \A r : <<Body>> # Response(r)
                BY Responses
            <4> QED BY <1>1, <1>5, <2>1, <4>1 DEF Due
        <3> QED BY <3>1, <3>2
    <2>5. TypeOK'
        <3>1. /\ Response(413) \in Seq(Message) /\ Response(code) \in Seq(Message)
              /\ <<>> \in Seq(Message) /\ <<Class(code)>> \in Seq(1 .. 5)
            BY Numbers, ResponseTypes DEF TypeOK
        <3>2. /\ queue' \in Seq(Message) /\ wire' \in Seq(Message) /\ code' \in Statuses
              /\ observed' \in Seq(1 .. 5)
            BY <2>1, <2>2, <2>3, <3>1 DEF TypeOK
        <3>3. responded' \in BOOLEAN
            BY <1>a DEF TypeOK
        <3> QED BY <1>1, <2>2, <3>2, <3>3 DEF TypeOK, Enabled
    <2>6. OnTheWire' /\ CountedSoFar' /\ ToldSo'
        BY <1>1, <2>2, <2>3, <2>4 DEF OnTheWire, CountedSoFar, CountedAsAnswered, ToldSo, HalfSent
    <2> QED BY <1>3, <2>2, <2>4, <2>5, <2>6 DEF Untraced, Unanswered
<1> QED BY <1>4, <1>5

(* The application has returned; what it said, or 413, has been sent.      *)
LEMMA ReturnStep ==
    ASSUME RequestInv, Return PROVE RequestInv' /\ \A r : Due(r)' => Due(r) \/ r = 413
<1> USE DEF RequestInv, Return, guard, client, geo, route, context
<1>1. /\ pc = "returned" /\ pc' = "closed" /\ ~RefusedUnread /\ observed = <<Class(code)>>
      /\ IF exceeded THEN wire = Response(413) /\ responded ELSE wire = Response(code)
    BY DEF OnTheWire, LetIn, CountedSoFar
<1>2. wire' = wire
    BY <1>1
<1>3. \A r : Due(r) <=> r = code
    BY <1>1 DEF Due, HalfSent
<1> DEFINE s == IF exceeded THEN 413 ELSE code
<1>4. wire = Response(s) /\ s \in Statuses /\ Class(s) = Class(code)
    <2>1. exceeded => code = 400
        BY <1>1, <1>3 DEF OnTheWire
    <2>2. Class(413) = Class(400)
        BY DEF Class
    <2> QED BY <1>1, <2>1, <2>2, Numbers DEF TypeOK
<1> HIDE DEF s
<1>5. \A r : Due(r)' <=> r = s
    BY <1>1, <1>2, <1>4, ResponseTells DEF Due, HalfSent
<1>6. TypeOK'
    BY <1>1, <1>2 DEF TypeOK, Enabled
<1>7. Asked' /\ Measured' /\ LetIn' /\ FirstAnswerCounts' /\ (outcome' = "stored" => Conforms')
      /\ Untraced'
    BY <1>1, <1>2 DEF Asked, Measured, LetIn, FirstAnswerCounts, Located, NobodyAsked, Enabled,
        Conforms, Untraced, Unanswered
<1>8. ToldSo'
    <2>1. outcome # "none" => ~exceeded
        BY DEF Measured
    <2> QED BY <1>1, <1>3, <1>5, <2>1 DEF ToldSo, s
<1>9. OnTheWire'
    BY <1>1, <1>2, <1>4, <1>5 DEF OnTheWire, HalfSent, s
<1>10. CountedSoFar'
    <2>1. wire'[1][2] = s
        BY <1>2, <1>4, ResponseStatus
    <2>2. ~RefusedUnread'
        BY <1>1 DEF RefusedUnread, DeclaresTooMuch
    <2> QED BY <1>1, <1>4, <2>1, <2>2 DEF CountedSoFar, CountedAsAnswered, RefusedUnread
<1>11. \A r : Due(r)' => Due(r) \/ r = 413
    BY <1>3, <1>5 DEF s
<1> QED BY <1>1, <1>6, <1>7, <1>8, <1>9, <1>10, <1>11

(* A request that is about to be sent, or has just arrived.                *)
LEMMA FreshIsSound ==
    /\ Fresh /\ pc \in {"unsent", "arrived"} /\ config \in Configs
    /\ declared \in (0 .. MaxBody) \cup {NoHeader, BadHeader}
    /\ said \in [1 .. Providers -> {"disabled", "unasked"}]
    => RequestInv
<1> SUFFICES ASSUME Fresh, pc \in {"unsent", "arrived"}, config \in Configs,
                    declared \in (0 .. MaxBody) \cup {NoHeader, BadHeader},
                    said \in [1 .. Providers -> {"disabled", "unasked"}]
             PROVE  RequestInv
    OBVIOUS
<1> USE DEF Fresh
<1>1. \A p \in Enabled : said[p] = "unasked"
    BY DEF Enabled
<1>2. 500 \in Statuses /\ 0 \in 0 .. MaxBody
    BY Numbers, LimitAssumption
<1>3. TypeOK
    <2>1. <<>> \in Seq(Message) /\ <<>> \in Seq(1 .. 5)
        OBVIOUS
    <2>2. said \in [1 .. Providers ->
                      {"disabled", "unasked", "error", "nothing", "empty", "found"}]
        OBVIOUS
    <2> QED BY <1>2, <2>1, <2>2 DEF TypeOK
<1>4. Measured
    <2>1. OverLimit(sent) = FALSE
        BY Numbers
    <2> QED BY <2>1 DEF Measured
<1>5. Untraced /\ LetIn /\ OnTheWire /\ CountedSoFar /\ ToldSo /\ FirstAnswerCounts
    BY DEF Untraced, Unanswered, LetIn, OnTheWire, HalfSent, CountedSoFar,
        CountedAsAnswered, ToldSo, Due, FirstAnswerCounts
<1>6. Asked
    BY <1>1 DEF Asked, NobodyAsked
<1> QED BY <1>3, <1>4, <1>5, <1>6 DEF RequestInv

(* Another press: the request begins anew.                                 *)
LEMMA PressStep == ASSUME RequestInv, FormTypeOK, Press PROVE RequestInv'
<1>1. Fresh'
    <2>1. Enabled' = Enabled
        BY DEF Press, Resend, Enabled
    <2> QED BY <2>1 DEF Press, Resend, Fresh
<1>2. pc' = "arrived" /\ config' \in Configs
    BY DEF Press, Resend
<1>3. declared' \in (0 .. MaxBody) \cup {NoHeader, BadHeader}
    BY LimitAssumption DEF Press, Resend, RequestInv, TypeOK
<1>4. said' \in [1 .. Providers -> {"disabled", "unasked"}]
    BY DEF Press, Resend
<1>5. (/\ Fresh /\ pc \in {"unsent", "arrived"} /\ config \in Configs
       /\ declared \in (0 .. MaxBody) \cup {NoHeader, BadHeader}
       /\ said \in [1 .. Providers -> {"disabled", "unasked"}])'
    BY <1>1, <1>2, <1>3, <1>4
<1> QED BY <1>5, FreshIsSound, PTL

(* Nothing happens to the request.                                         *)
LEMMA StillStep == ASSUME RequestInv, UNCHANGED vars PROVE RequestInv'
<1> USE DEF RequestInv, vars, guard, client, geo, route, context
<1>1. TypeOK' /\ Untraced' /\ Measured' /\ LetIn'
    BY DEF TypeOK, Enabled, Untraced, Unanswered, Measured, LetIn, RefusedUnread, DeclaresTooMuch
<1>2. OnTheWire' /\ CountedSoFar' /\ ToldSo'
    BY DEF OnTheWire, CountedSoFar, CountedAsAnswered, ToldSo, Due, HalfSent, DeclaresTooMuch
<1>3. Asked' /\ FirstAnswerCounts'
    BY DEF Asked, FirstAnswerCounts, Located, NobodyAsked, Enabled
<1> QED BY <1>1, <1>2, <1>3 DEF Conforms

(* The body of the form and what another client may send are of values.    *)
LEMMA JudgedIsObject ==
    ASSUME FormTypeOK, NEW payload, Judge(payload),
           (sender = "form" /\ payload = FormBody) \/ (sender = "client" /\ payload \in Payloads)
    PROVE  Accept(payload) => payload \in [DOMAIN payload -> Values]
<1>1. CASE sender = "form" /\ payload = FormBody
    BY <1>1, BodyIsObject DEF FormTypeOK, FormBody
<1>2. CASE sender = "client" /\ payload \in Payloads
    BY <1>2, PayloadAssumption DEF Accept, IsValid
<1> QED BY <1>1, <1>2

(* Every step of the form and of the request.                              *)
LEMMA RequestStep == ASSUME RequestInv, FormTypeOK, [FormNext]_formVars PROVE RequestInv'
<1>1. CASE Press
    BY <1>1, PressStep
<1>2. CASE Settle \/ UNCHANGED formVars
    <2>1. UNCHANGED vars
        BY <1>2 DEF Settle, formVars
    <2> QED BY <2>1, StillStep
<1>3. CASE Proceed
    BY <1>3, RefuseDeclaredStep, EnterAppStep, ReceiveStep, DisconnectStep, NoLeadStep, AskStep,
        ChainEndsStep, StoreStep, RaiseStep, SendStep, ReturnStep DEF Proceed
<1>4. ASSUME NEW payload, Judge(payload),
             (sender = "form" /\ payload = FormBody) \/ (sender = "client" /\ payload \in Payloads)
      PROVE  RequestInv'
    BY <1>4, JudgedIsObject, NoLeadStep, DropStep, AcceptStep DEF Judge
<1> QED BY <1>1, <1>2, <1>3, <1>4 DEF FormNext, Request
-----------------------------------------------------------------------------
(* The form: every step keeps the invariant.                               *)

(* An answer of the application is the one that is due.                    *)
LEMMA AnswersAreDue == ASSUME NEW s, NEW r, Answers(s), Due(r)' PROVE s = r
<1>1. queue' = Response(s) /\ pc' = "answering"
    BY DEF Answers
<1>2. Response(s) # <<Body>>
    BY Responses
<1>3. Response(s) = Response(r)
    BY <1>1, <1>2 DEF Due, HalfSent
<1> QED BY <1>3, ResponseTells

(* Nothing says 422 but the validation of the route.                       *)
LEMMA OnlyTheRouteRefuses == ASSUME RequestInv, Proceed, Due(422)' PROVE Due(422)
<1>1. pc' \in {"answering", "returned", "closed"}
    BY DEF Due, HalfSent
<1>2. CASE RefuseDeclared \/ Raise
    <2>1. pc' = "closed" /\ wire = <<>>
        BY <1>2 DEF RefuseDeclared, Raise, RequestInv, Untraced, Unanswered
    <2>a. wire' = wire \o Response(400) \/ wire' = wire \o Response(413) \/ wire' = wire \o Response(500)
        BY <1>2 DEF RefuseDeclared, Raise, Respond
    <2>2. PICK s \in {400, 413, 500} : wire' = Response(s)
        BY <2>1, <2>a, Responses
    <2>3. Response(s) = Response(422)
        BY <2>1, <2>2 DEF Due, HalfSent
    <2> QED BY <2>3, ResponseTells
<1>3. CASE BodyUnread \/ Refuse \/ Store
    <2>1. PICK s \in {400, 404, 429, 202} : Answers(s)
        BY <1>3 DEF BodyUnread, Refuse, Store
    <2> QED BY <2>1, AnswersAreDue
<1>4. CASE Send \/ Return
    BY <1>4, SendStep, ReturnStep
<1>5. CASE \/ EnterApp \/ Disconnect \/ ChainEnds
           \/ \E size \in 0 .. MaxBody, more \in BOOLEAN : Receive(size, more)
           \/ \E answer \in {"error", "nothing", "empty", "found"} : AskProvider(answer)
    BY <1>1, <1>5 DEF EnterApp, Disconnect, ChainEnds, Receive, AskProvider
<1> QED BY <1>2, <1>3, <1>4, <1>5 DEF Proceed

(* The status line thanks for 202 only, and asks to check for 422 only.    *)
LEMMA ShownIs ==
    ASSUME NEW s
    PROVE  /\ Shown(s) \in {"thanks", "later", "large", "check", "wrong"}
           /\ Shown(s) = "thanks" <=> s = 202
           /\ Shown(s) = "check" <=> s = 422
<1>1. CASE s = 202
    BY <1>1 DEF Shown
<1>2. CASE s = 429
    BY <1>2 DEF Shown
<1>3. CASE s = 413
    BY <1>3 DEF Shown
<1>4. CASE s = 422
    BY <1>4 DEF Shown
<1>5. CASE s # 202 /\ s # 429 /\ s # 413 /\ s # 422
    BY <1>5 DEF Shown
<1> QED BY <1>1, <1>2, <1>3, <1>4, <1>5

(* What a press and its answer do to the counts.                           *)
LEMMA CountPress ==
    ASSUME NEW m \in Nat, NEW p \in 0 .. m, NEW l \in 0 .. p, NEW u \in 0 .. p, p < m
    PROVE  /\ p + 1 \in 0 .. m /\ l \in 0 .. (p + 1) /\ u \in 0 .. (p + 1)
           /\ l + 1 <= p + 1 /\ u + 0 = u
OBVIOUS

(* What an answer does to the counts: at most one more of each.            *)
LEMMA CountAnswer ==
    ASSUME NEW m \in Nat, NEW p \in 0 .. m, NEW u \in 0 .. p, u + 1 <= p,
           NEW k \in {u, u + 1}
    PROVE  k \in 0 .. p /\ k + 0 <= p /\ k + 0 = k
OBVIOUS

(* A count from 0 is a number, to which adding nothing changes nothing.    *)
LEMMA CountedNat ==
    ASSUME NEW m \in Nat, NEW p \in 0 .. m, NEW u \in 0 .. p PROVE u \in Nat /\ u + 0 = u
OBVIOUS

(* The form keeps to its types, and counts what came of its presses.       *)
LEMMA WaitingStep ==
    ASSUME FormInv, [FormNext]_formVars PROVE FormTypeOK' /\ Waiting'
<1>a. /\ MaxPresses \in Nat /\ presses \in 0 .. MaxPresses
      /\ leads \in 0 .. presses /\ untold \in 0 .. presses
    BY PressAssumption DEF FormInv, FormTypeOK
<1>b. UNCHANGED <<sender, rendered, typed>>
    BY DEF FormNext, Press, Settle, Request, form, formVars
<1>c. ASSUME shown' \in {"", "sending", "thanks", "later", "large", "check", "wrong", "network"},
             presses' \in 0 .. MaxPresses, leads' \in 0 .. presses', untold' \in 0 .. presses'
      PROVE  FormTypeOK'
    BY <1>b, <1>c DEF FormInv, FormTypeOK
<1>d. /\ sender = "client" => shown = "" /\ presses = 0
      /\ sender = "form" /\ shown # "sending" => pc \in {"unsent", "closed"}
      /\ shown = "sending" => leads + 1 <= presses /\ leads = untold + 0
      /\ shown # "thanks" => leads = untold + 0
    BY DEF FormInv, Waiting
<1>1. CASE Press
    <2>1. /\ sender = "form" /\ shown # "sending" /\ shown # "thanks" /\ presses < MaxPresses
          /\ presses' = presses + 1 /\ shown' = "sending" /\ leads' = leads /\ untold' = untold
        BY <1>1 DEF Press
    <2>2. /\ presses + 1 \in 0 .. MaxPresses
          /\ leads \in 0 .. (presses + 1) /\ untold \in 0 .. (presses + 1)
          /\ leads + 1 <= presses + 1 /\ untold + 0 = untold
        BY <1>a, <2>1, CountPress
    <2>3. FormTypeOK'
        BY <1>c, <2>1, <2>2
    <2>4. leads' + 1 <= presses' /\ leads' = untold' + 0
        BY <1>d, <2>1, <2>2
    <2> QED BY <1>b, <2>1, <2>3, <2>4 DEF Waiting
<1>2. CASE Settle
    <2>1. /\ shown = "sending" /\ pc = "closed"
          /\ leads' = IF outcome = "stored" THEN leads + 1 ELSE leads
          /\ UNCHANGED <<pc, sender, rendered, typed, presses>>
        BY <1>2 DEF Settle, vars
    <2>a. sender = "form"
        BY <1>d, <2>1 DEF FormInv, FormTypeOK
    <2>b. untold \in 0 .. presses /\ untold \in Nat /\ leads = untold
        BY <1>a, <1>d, <2>1, CountedNat
    <2>c. untold + 1 <= presses
        BY <1>d, <2>1, <2>b
    <2>2. PICK s \in Statuses : wire = Response(s)
        BY <2>1 DEF FormInv, RequestInv, OnTheWire
    <2>3. wire[1][2] = s
        BY <2>2, ResponseStatus
    <2>4. outcome = "stored" => s = 202 \/ s = 500
        BY <2>1, <2>2, ResponseTells DEF FormInv, RequestInv, ToldSo, Due, HalfSent
    <2>6. s = 202 => outcome = "stored"
        <3>1. s = 202 => Due(202)
            BY <2>1, <2>2 DEF Due
        <3> QED BY <2>a, <3>1 DEF FormInv, RequestInv, TypeOK, ToldSo, Understood
    <2>7. Shown(s) \in {"thanks", "later", "large", "check", "wrong"}
          /\ (Shown(s) = "thanks" <=> s = 202)
        BY ShownIs
    <2>8. \/ /\ shown' = Shown(s)
             /\ untold' = IF outcome = "stored" /\ s = 500 THEN untold + 1 ELSE untold
          \/ /\ shown' = "network"
             /\ untold' = IF outcome = "stored" THEN untold + 1 ELSE untold
        BY <1>2, <2>3 DEF Settle
    <2>9. leads' \in {untold, untold + 1} /\ untold' \in {untold, untold + 1}
        BY <2>1, <2>b, <2>8
    <2>10. /\ leads' \in 0 .. presses /\ untold' \in 0 .. presses
           /\ leads' + 0 <= presses /\ untold' + 0 = untold'
        BY <1>a, <2>b, <2>c, <2>9, CountAnswer
    <2>11. shown' \in {"thanks", "later", "large", "check", "wrong", "network"}
        BY <2>7, <2>8
    <2>12. FormTypeOK'
        BY <1>a, <1>c, <2>1, <2>10, <2>11
    <2>13. leads' = untold' + (IF shown' = "thanks" THEN 1 ELSE 0)
        <3>1. CASE shown' = "thanks"
            <4>1. s = 202 /\ outcome = "stored"
                BY <2>6, <2>7, <2>8, <3>1
            <4>2. leads' = untold + 1 /\ untold' = untold
                BY <2>1, <2>b, <2>8, <3>1, <4>1
            <4> QED BY <3>1, <4>2
        <3>2. CASE shown' # "thanks"
            <4>1. leads' = untold'
                BY <2>1, <2>b, <2>4, <2>7, <2>8, <3>2
            <4> QED BY <2>10, <3>2, <4>1
        <3> QED BY <3>1, <3>2
    <2> QED BY <1>b, <2>1, <2>a, <2>10, <2>11, <2>12, <2>13 DEF Waiting
<1>3. CASE Request
    <2>1. UNCHANGED <<sender, rendered, typed, shown, presses, leads, untold>>
        BY <1>3 DEF Request, form
    <2>2. pc \notin {"unsent", "closed"}
        BY <1>3 DEF Request, Proceed, Judge, RefuseDeclared, EnterApp, Receive, Disconnect,
            BodyUnread, Refuse, AskProvider, ChainEnds, Store, Raise, Send, Return,
            RefuseAnswers, DropAutomated, Accept
    <2>3. sender = "form" => shown = "sending"
        BY <1>d, <2>2
    <2> QED BY <2>1, <2>3 DEF FormInv, FormTypeOK, Waiting
<1>4. CASE UNCHANGED formVars
    BY <1>4 DEF formVars, form, vars, FormInv, FormTypeOK, Waiting
<1> QED BY <1>1, <1>2, <1>3, <1>4 DEF FormNext

(* The route makes of the form's body what the form knows of it.           *)
LEMMA UnderstoodStep ==
    ASSUME FormInv, FormTypeOK', [FormNext]_formVars PROVE Understood'
<1>1. CASE Press
    <2>1. /\ pc' = "arrived" /\ outcome' = "none" /\ shown' = "sending"
        BY <1>1 DEF Press, Resend
    <2>2. ~Due(422)'
        BY <2>1 DEF Due, HalfSent
    <2> QED BY <2>1, <2>2 DEF Understood
<1>2. CASE Settle \/ UNCHANGED formVars
    <2>1. UNCHANGED vars /\ UNCHANGED <<sender, rendered, typed>>
        BY <1>2 DEF Settle, formVars, form
    <2>2. /\ FormBody' = FormBody /\ (Due(422)' <=> Due(422))
          /\ (IsValid(FormBody)' <=> IsValid(FormBody))
          /\ Cleaned(FormBody, config)' = Cleaned(FormBody, config)
          /\ UNCHANGED <<pc, outcome, answers>>
        BY <2>1 DEF FormBody, vars, Due, HalfSent, route, context, IsValid
    <2>3. ASSUME sender = "form"
          PROVE  /\ outcome' # "dropped" /\ (Due(422)' => ~IsValid(FormBody)')
                 /\ pc' \in {"geo", "store"} \/ outcome' = "stored" =>
                      IsValid(FormBody)' /\ answers' = Cleaned(FormBody, config)'
        BY <2>2, <2>3 DEF FormInv, Understood
    <2>4. /\ shown' = "thanks" => pc' = "closed" /\ outcome' = "stored"
          /\ shown' = "check" => pc' = "closed" /\ Due(422)'
        <3>1. CASE shown' = shown
            BY <2>2, <3>1 DEF FormInv, Understood
        <3>2. CASE shown' = "network"
            BY <3>2
        <3>3. CASE Settle /\ shown' = Shown(wire[1][2])
            <4>1. shown = "sending" /\ pc = "closed"
                BY <3>3 DEF Settle
            <4>2. PICK s \in Statuses : wire = Response(s)
                BY <4>1 DEF FormInv, RequestInv, OnTheWire
            <4>3. shown' = Shown(s) /\ Due(s)
                BY <3>3, <4>1, <4>2, ResponseStatus DEF Due
            <4>4. sender = "form"
                BY <4>1 DEF FormInv, FormTypeOK, Waiting
            <4>5. s = 202 => outcome = "stored"
                BY <4>3, <4>4 DEF FormInv, RequestInv, TypeOK, ToldSo, Understood
            <4> QED BY <2>2, <4>1, <4>3, <4>5, ShownIs
        <3> QED BY <1>2, <3>1, <3>2, <3>3 DEF Settle, formVars, form
    <2> QED BY <2>1, <2>3, <2>4 DEF Understood
<1>3. CASE Request
    <2>1. UNCHANGED <<sender, rendered, typed, shown>> /\ FormBody' = FormBody
        BY <1>3 DEF Request, form, FormBody
    <2>2. config' = config /\ pc \notin {"unsent", "closed"}
        BY <1>3 DEF Request, Proceed, Judge, RefuseDeclared, EnterApp, Receive, Disconnect,
            BodyUnread, Refuse, AskProvider, ChainEnds, Store, Raise, Send, Return,
            RefuseAnswers, DropAutomated, Accept, route
    <2>3. shown # "thanks" /\ shown # "check"
        BY <2>2 DEF FormInv, Understood
    <2>4. (IsValid(FormBody)' <=> IsValid(FormBody))
          /\ Cleaned(FormBody, config)' = Cleaned(FormBody, config)
        BY <2>1, <2>2 DEF IsValid
    <2>5. ASSUME sender = "form"
          PROVE  /\ outcome' # "dropped" /\ (Due(422)' => ~IsValid(FormBody))
                 /\ pc' \in {"geo", "store"} \/ outcome' = "stored" =>
                      IsValid(FormBody) /\ answers' = Cleaned(FormBody, config)
        <3>a. /\ outcome # "dropped" /\ (Due(422) => ~IsValid(FormBody))
              /\ pc \in {"geo", "store"} \/ outcome = "stored" =>
                   IsValid(FormBody) /\ answers = Cleaned(FormBody, config)
            BY <2>5 DEF FormInv, Understood
        <3>1. CASE Proceed
            <4>1. Due(422)' => Due(422)
                BY <3>1, OnlyTheRouteRefuses DEF FormInv
            <4>2. outcome' # "dropped" /\ answers' = answers
                BY <3>1, <3>a DEF Proceed, RefuseDeclared, EnterApp, Receive, Disconnect,
                    BodyUnread, Refuse, AskProvider, ChainEnds, Store, Raise, Send, Return, route
            <4>3. pc' \in {"geo", "store"} \/ outcome' = "stored" =>
                    pc \in {"geo", "store"} \/ outcome = "stored"
                BY <3>1 DEF Proceed, RefuseDeclared, EnterApp, Receive, Disconnect, BodyUnread,
                    Refuse, AskProvider, ChainEnds, Store, Raise, Send, Return, route, Answers
            <4> QED BY <3>a, <4>1, <4>2, <4>3
        <3>2. CASE RefuseAnswers(FormBody)
            <4>1. pc = "parsed" /\ pc' = "answering" /\ outcome' = outcome /\ ~IsValid(FormBody)
                BY <3>2 DEF RefuseAnswers, Answers, route
            <4>2. outcome = "none"
                BY <4>1 DEF FormInv, RequestInv, Untraced, Unanswered
            <4> QED BY <4>1, <4>2
        <3>3. CASE DropAutomated(FormBody)
            <4>1. ~LooksAutomated(FormBody)
                BY <2>5, BodyIsObject DEF FormInv, FormTypeOK, FormBody
            <4> QED BY <3>3, <4>1 DEF DropAutomated
        <3>4. CASE Accept(FormBody)
            <4>1. /\ pc' \in {"geo", "store"} /\ outcome' = outcome /\ IsValid(FormBody)
                  /\ answers' = Cleaned(FormBody, config)
                BY <3>4 DEF Accept
            <4>2. ~Due(422)'
                BY <4>1 DEF Due, HalfSent
            <4> QED BY <3>a, <4>1, <4>2
        <3> QED BY <1>3, <2>5, <3>1, <3>2, <3>3, <3>4 DEF Request, Judge
    <2> QED BY <2>1, <2>3, <2>4, <2>5 DEF Understood
<1> QED BY <1>1, <1>2, <1>3 DEF FormNext
-----------------------------------------------------------------------------
(* In every state the request leaves no trace before its answer, has       *)
(* counted what came in, says the one thing it has to say and asks the     *)
(* providers in their order (RequestInv); and the form waits for it,       *)
(* counts what came of it and has understood it (Waiting, Understood).     *)
THEOREM VisitorInvariant == FormSpec => []FormInv
<1>1. FormInit => FormInv
    <2> SUFFICES ASSUME FormInit PROVE FormInv
        OBVIOUS
    <2>1. /\ Fresh /\ pc \in {"unsent", "arrived"} /\ config \in Configs
          /\ declared \in (0 .. MaxBody) \cup {NoHeader, BadHeader}
          /\ said \in [1 .. Providers -> {"disabled", "unasked"}]
        BY DEF FormInit, Init
    <2>2. RequestInv
        BY <2>1, FreshIsSound
    <2>3. FormTypeOK
        <3>1. 0 \in 0 .. MaxPresses /\ 0 \in 0 .. 0
            BY PressAssumption
        <3> QED BY <2>1, <3>1 DEF FormInit, FormTypeOK
    <2>4. Waiting
        <3>1. /\ presses = 0 /\ leads = 0 /\ untold = 0 /\ shown = ""
              /\ sender = "form" => pc = "unsent"
            BY DEF FormInit
        <3>2. /\ leads + (IF shown = "sending" THEN 1 ELSE 0) <= presses
              /\ leads = untold + (IF shown = "thanks" THEN 1 ELSE 0)
            <4>1. /\ (IF shown = "sending" THEN 1 ELSE 0) = 0
                  /\ (IF shown = "thanks" THEN 1 ELSE 0) = 0
                BY <3>1
            <4>2. 0 + 0 <= 0 /\ 0 = 0 + 0
                OBVIOUS
            <4> QED BY <3>1, <4>1, <4>2, Zenon
        <3> QED BY <3>1, <3>2 DEF Waiting
    <2>5. ~Due(422) /\ outcome = "none"
        BY <2>1 DEF Due, HalfSent, Fresh
    <2>6. Understood
        BY <2>1, <2>5 DEF Understood, FormInit
    <2> QED BY <2>2, <2>3, <2>4, <2>6 DEF FormInv
<1>2. FormInv /\ [FormNext]_formVars => FormInv'
    <2> SUFFICES ASSUME FormInv, [FormNext]_formVars PROVE FormInv'
        OBVIOUS
    <2>1. RequestInv'
        BY RequestStep DEF FormInv
    <2>2. FormTypeOK' /\ Waiting'
        BY WaitingStep
    <2>3. Understood'
        BY <2>2, UnderstoodStep
    <2> QED BY <2>1, <2>2, <2>3 DEF FormInv
<1> QED BY <1>1, <1>2, PTL DEF FormSpec

(* A request is answered once, with the answer the application gives, and  *)
(* one whose body exceeds the limit, in whatever pieces it comes, with 413 *)
(* and nothing else: BodySizeLimitMiddleware.                              *)
THEOREM OneAnswerPerRequest == FormSpec => []AnsweredOnce
<1>1. FormInv => AnsweredOnce
    <2> SUFFICES ASSUME RequestInv PROVE AnsweredOnce
        BY DEF FormInv
    <2> USE DEF RequestInv
    <2>1. pc \in Unanswered => wire = <<>>
        BY DEF Untraced
    <2>2. pc = "answering" =>
            wire = <<>> \/ wire = Response(413) \/ \E s \in Statuses : wire = <<Start(s)>>
        BY DEF OnTheWire, TypeOK
    <2>3. pc = "returned" => wire = Response(413) \/ \E s \in Statuses : wire = Response(s)
        BY DEF OnTheWire, TypeOK
    <2>4. pc = "closed" => \E s \in Statuses : wire = Response(s)
        BY DEF OnTheWire
    <2>5. 413 \in Statuses
        BY DEF Statuses
    <2>6. \E s \in Statuses : wire \in {<<>>, <<Start(s)>>, Response(s)}
        BY <2>1, <2>2, <2>3, <2>4, <2>5 DEF TypeOK, Unanswered
    <2>7. pc = "closed" => Len(wire) = 2
        BY <2>4, Responses
    <2>8. ASSUME sent > MaxBytes PROVE wire \in {<<>>, Response(413)} /\ outcome = "none"
        <3>1. exceeded /\ outcome = "none" /\ pc \in {"broken", "answering", "returned", "closed"}
            BY <2>8 DEF Measured, OverLimit
        <3>2. pc = "closed" => wire = Response(413)
            BY <3>1 DEF OnTheWire, Due, HalfSent
        <3>3. pc \in {"answering", "returned"} => wire = <<>> \/ wire = Response(413)
            BY <3>1 DEF OnTheWire
        <3> QED BY <2>1, <3>1, <3>2, <3>3 DEF Unanswered
    <2> QED BY <2>6, <2>7, <2>8 DEF AnsweredOnce
<1> QED BY <1>1, VisitorInvariant, PTL

(* A request the application has seen is counted once, under the class of  *)
(* the status the client is given: observe_request and the guard's 413.    *)
THEOREM CountsAreAnswers == FormSpec => []CountedAsAnswered
<1>1. FormInv => CountedAsAnswered
    BY DEF FormInv, RequestInv, CountedSoFar
<1> QED BY <1>1, VisitorInvariant, PTL

(* A stored lead answers what the widget asks and nothing else, whoever    *)
(* sent the body: validate_against_config.                                 *)
THEOREM LeadsConform == FormSpec => []StoredAsConfigured
<1>1. FormInv => StoredAsConfigured
    BY DEF FormInv, RequestInv, StoredAsConfigured
<1> QED BY <1>1, VisitorInvariant, PTL

(* A lead has the location of the first enabled provider that knows the    *)
(* address, whatever the others do: ChainedGeoProvider.                    *)
THEOREM FirstProviderCounts == FormSpec => []FirstAnswerCounts
<1>1. FormInv => FirstAnswerCounts
    BY DEF FormInv, RequestInv
<1> QED BY <1>1, VisitorInvariant, PTL

(* However often a visitor presses, a second lead is stored only after an  *)
(* answer was lost.                                                        *)
THEOREM OneLeadPerVisitor == FormSpec => []OneLeadUnlessUntold
<1>1. FormInv => OneLeadUnlessUntold
    <2> SUFFICES ASSUME FormTypeOK, Waiting PROVE OneLeadUnlessUntold
        BY DEF FormInv
    <2>1. presses \in Nat /\ untold \in Nat
        <3>1. MaxPresses \in Nat /\ presses \in 0 .. MaxPresses /\ untold \in 0 .. presses
            BY PressAssumption DEF FormTypeOK
        <3> QED BY <3>1
    <2>2. leads = untold \/ leads = untold + 1
        <3>1. leads = untold + 0 \/ leads = untold + 1
            BY DEF Waiting
        <3> QED BY <2>1, <3>1
    <2>3. leads <= 1 + untold
        BY <2>1, <2>2
    <2> QED BY <2>3 DEF OneLeadUnlessUntold
<1> QED BY <1>1, VisitorInvariant, PTL

(* Who is thanked has the lead as typed, and who is sent back to check the *)
(* answers has left something out or has an outdated form: widget-v2.js    *)
(* and the validation of the route agree.                                  *)
THEOREM FormAgreesWithServer == FormSpec => []FormAndServerAgree
<1>1. FormInv => FormAndServerAgree
    <2> SUFFICES ASSUME FormInv PROVE FormAndServerAgree
        OBVIOUS
    <2>1. ASSUME sender = "form" PROVE rendered \in Configs /\ typed \in Fillings(rendered)
        BY <2>1 DEF FormInv, FormTypeOK
    <2>2. ASSUME sender = "form", shown = "thanks"
          PROVE  /\ outcome = "stored"
                 /\ \A n \in Names(rendered) \ {Honeypot} : answers[n] = Clean(typed[n])
        <3>1. outcome = "stored" /\ IsValid(FormBody) /\ answers = Cleaned(FormBody, config)
            BY <2>2 DEF FormInv, Understood
        <3> QED BY <2>1, <2>2, <3>1, KeptAsTyped
    <2>3. ASSUME shown = "check", WellFilled, Honeypot \notin Names(rendered), rendered = config
          PROVE  FALSE
        <3>1. sender = "form"
            BY <2>3 DEF FormInv, FormTypeOK, Waiting
        <3>2. ~IsValid(FormBody)
            BY <2>3, <3>1 DEF FormInv, Understood
        <3>3. IsValid(FormBody)
            BY <2>1, <2>3, <3>1, WellFilledPasses
        <3> QED BY <3>2, <3>3
    <2> QED BY <2>2, <2>3 DEF FormAndServerAgree
<1> QED BY <1>1, VisitorInvariant, PTL
=============================================================================
