-------------------------- MODULE SubmissionRequest -------------------------
(***************************************************************************)
(* One POST of a submission on its way through the layers of the service:  *)
(* the body limit (app/api/body_limit.py), within it the request context   *)
(* that counts (app/api/request_context.py), the reading of the body by    *)
(* the framework, the answers the route gives                              *)
(* (app/api/routes/public_submissions.py) and the geo lookup               *)
(* (app/core/geo.py, app/services/geo_providers.py).  The limiters are     *)
(* RateLimits, and the transaction is Submissions; here they are outcomes. *)
(*                                                                         *)
(* Bytes are counted up to MaxBody, a bound on what a client sends.        *)
(***************************************************************************)
EXTENDS SubmissionPayload

CONSTANTS
    MaxBytes,    \* max_submission_bytes
    MaxBody,
    Providers,   \* the geo providers, 1..Providers in the order of the chain
    Configs,     \* configurations of the widget
    Payloads,    \* what a client may send
    NoObject,    \* a body that is not a JSON object
    NoAnswers,
    NoHeader, BadHeader   \* Content-Length is absent, or not a number

ASSUME LimitAssumption ==
    MaxBytes \in Nat \ {0} /\ MaxBody \in Nat /\ Providers \in Nat
ASSUME HeaderAssumption ==
    NoHeader \notin Nat /\ BadHeader \notin Nat /\ NoHeader # BadHeader
ASSUME ConfigAssumption == \A fields \in Configs : IsConfig(fields)
ASSUME PayloadAssumption ==
    \A payload \in Payloads \ {NoObject} : payload \in [DOMAIN payload -> Values]

VARIABLES
    pc,
    declared,    \* Content-Length
    received,    \* received, exceeded, responded: variables of __call__
    exceeded,
    responded,
    wire,        \* the ASGI messages sent to the server
    queue,       \* the messages the application is about to send
    sent,        \* history: the bytes of the body that have come in
    gone,        \* the client has closed the connection
    chain,       \* the providers that are enabled and not asked yet
    said,        \* history: what each provider answered
    location,    \* the provider of the location of the lead, or NoLocation
    config,      \* the configuration stored with the widget
    answers,     \* answers.values of create_submission
    outcome,     \* what the route did: stored, dropped or nothing
    code,        \* status_code of the request context
    observed     \* history: the status classes it counted

guard == <<declared, received, exceeded, responded>>
client == <<sent, gone>>
geo == <<chain, said, location>>
context == <<code, observed>>
route == <<config, answers, outcome>>
vars == <<pc, guard, client, wire, queue, geo, route, context>>

Start(status) == <<"start", status>>
Body == <<"body">>
Response(status) == <<Start(status), Body>>
Statuses == {202, 400, 404, 413, 422, 429, 500}
Message == {Start(s) : s \in Statuses} \cup {Body}

Enabled == {p \in 1..Providers : said[p] # "disabled"}
NoLocation == 0

TypeOK ==
    /\ pc \in {"unsent", "arrived", "reading", "broken", "parsed", "geo", "store",
               "answering", "returned", "closed"}
    /\ declared \in (0..MaxBody) \cup {NoHeader, BadHeader}
    /\ received \in 0..MaxBody /\ sent \in 0..MaxBody
    /\ exceeded \in BOOLEAN /\ responded \in BOOLEAN /\ gone \in BOOLEAN
    /\ wire \in Seq(Message) /\ queue \in Seq(Message)
    /\ chain \subseteq Enabled
    /\ said \in [1..Providers ->
                   {"disabled", "unasked", "error", "nothing", "empty", "found"}]
    /\ location \in Enabled \cup {NoLocation}
    /\ outcome \in {"none", "stored", "dropped"}
    /\ config \in Configs
    /\ answers = NoAnswers \/ answers \in [Names(config) -> Values]
    /\ code \in Statuses /\ observed \in Seq(1..5)

(* A request as it arrives.                                                *)
Fresh ==
    /\ received = 0
    /\ exceeded = FALSE /\ responded = FALSE
    /\ wire = <<>> /\ queue = <<>>
    /\ sent = 0 /\ gone = FALSE
    /\ chain = Enabled
    /\ location = NoLocation
    /\ answers = NoAnswers /\ outcome = "none"
    /\ code = 500 /\ observed = <<>>

(* Each provider is enabled or not (build_geo_chain).                      *)
Init ==
    /\ pc = "arrived"
    /\ declared \in (0..MaxBody) \cup {NoHeader, BadHeader}
    /\ said \in [1..Providers -> {"disabled", "unasked"}]
    /\ config \in Configs
    /\ Fresh
-----------------------------------------------------------------------------
OverLimit(size) == size > MaxBytes

(* _respond: past guarded_send, straight to the server.                    *)
Respond(status) == wire' = wire \o Response(status)

(* The declared length is tested before anything is read.                  *)
DeclaresTooMuch == declared \in 0..MaxBody /\ OverLimit(declared)
RefuseDeclared ==
    /\ pc = "arrived"
    /\ \/ declared = BadHeader /\ Respond(400)
       \/ DeclaresTooMuch /\ Respond(413)
    /\ pc' = "closed"
    /\ UNCHANGED <<guard, queue, client, geo, route, context>>

EnterApp ==
    /\ pc = "arrived"
    /\ declared # BadHeader /\ ~DeclaresTooMuch
    /\ pc' = "reading"
    /\ UNCHANGED <<guard, wire, queue, client, geo, route, context>>

(* The server hands over no more than was declared.                        *)
MayFollow(size) ==
    /\ sent + size <= MaxBody
    /\ declared # NoHeader => sent + size <= declared

(* guarded_receive: a message of size bytes, the last one or not.  Over    *)
(* the limit the application is told that the client has disconnected.     *)
Counted_LastOnly(size) == size
Counted(size) == received + size
Receive(size, more) ==
    /\ pc = "reading" /\ ~gone
    /\ MayFollow(size)
    /\ sent' = sent + size
    /\ received' = Counted(size)
    /\ exceeded' = OverLimit(received')
    /\ pc' = IF exceeded' THEN "broken" ELSE IF more THEN "reading" ELSE "parsed"
    /\ UNCHANGED <<declared, responded, wire, queue, gone, geo, route, context>>

(* The client goes away: http.disconnect comes from the server.            *)
Disconnect ==
    /\ pc = "reading" /\ ~gone
    /\ gone' = TRUE
    /\ pc' = "broken"
    /\ UNCHANGED <<guard, sent, wire, queue, geo, route, context>>

(* The application hands the two messages of a response to guarded_send.   *)
Answers(status) ==
    /\ queue' = Response(status)
    /\ pc' = "answering"

(* The framework could not read the body.                                  *)
BodyUnread ==
    /\ pc = "broken"
    /\ Answers(400)
    /\ UNCHANGED <<guard, wire, client, geo, route, context>>

(* A route that does not exist is answered before the body is read; then   *)
(* a rate limit, or no such widget.                                        *)
Refuse ==
    /\ \/ pc = "reading" /\ received = 0 /\ Answers(404)
       \/ pc = "parsed" /\ \E status \in {404, 429} : Answers(status)
    /\ UNCHANGED <<guard, wire, client, geo, route, context>>

IsValid(payload) == payload # NoObject /\ ~IsInvalid(payload, config)

(* The framework's 422, and validated_answers_or_422.                      *)
RefuseAnswers(payload) ==
    /\ pc = "parsed"
    /\ ~IsValid(payload)
    /\ Answers(422)
    /\ UNCHANGED <<guard, wire, client, geo, route, context>>

(* A filled honeypot: the answer of an accepted submission, and no lead.   *)
DropAutomated(payload) ==
    /\ pc = "parsed"
    /\ IsValid(payload) /\ LooksAutomated(payload)
    /\ Answers(202)
    /\ outcome' = "dropped"
    /\ UNCHANGED <<guard, wire, client, geo, config, answers, context>>

(* An address that is not public is not looked up.                         *)
Accept(payload) ==
    /\ pc = "parsed"
    /\ IsValid(payload) /\ ~LooksAutomated(payload)
    /\ answers' = Cleaned(payload, config)
    /\ pc' \in {"geo", "store"}
    /\ UNCHANGED <<guard, wire, queue, client, geo, config, outcome, context>>

(* One provider: it fails or times out, knows nothing, gives an empty      *)
(* location, or finds the address.  Only the last ends the chain.          *)
IsNext(p) == p \in chain /\ \A q \in chain : p <= q
Rest_Failed(p, answer) == IF answer = "error" THEN {} ELSE chain \ {p}
Rest(p, answer) == chain \ {p}
AskProvider(answer) ==
    /\ pc = "geo"
    /\ \E p \in 1..Providers :
          /\ IsNext(p)
          /\ said' = [said EXCEPT ![p] = answer]
          /\ IF answer = "found"
             THEN location' = p /\ pc' = "store" /\ UNCHANGED chain
             ELSE chain' = Rest(p, answer) /\ UNCHANGED <<location, pc>>
    /\ UNCHANGED <<guard, wire, queue, client, route, context>>
ChainEnds ==
    /\ pc = "geo" /\ chain = {}
    /\ pc' = "store"
    /\ UNCHANGED <<guard, wire, queue, client, geo, route, context>>

Store ==
    /\ pc = "store"
    /\ outcome' = "stored"
    /\ Answers(202)
    /\ UNCHANGED <<guard, wire, client, geo, config, answers, context>>

(* What guarded_send puts on the wire: once the limit is exceeded, one 413 *)
(* takes the place of whatever the application sends.                      *)
PassOn(message) ==
    IF exceeded
    THEN IF ~responded THEN responded' = TRUE /\ Respond(413)
                       ELSE UNCHANGED <<responded, wire>>
    ELSE wire' = Append(wire, message) /\ UNCHANGED responded

(* observe_request.                                                        *)
Class(status) == status \div 100
Observe_NoFinally(status) ==
    IF pc = "answering" THEN observed' = Append(observed, Class(status))
                        ELSE UNCHANGED observed
Observe(status) == observed' = Append(observed, Class(status))

(* send_with_request_id keeps the status in passing.                       *)
Send ==
    LET message == Head(queue) IN
    /\ pc = "answering"
    /\ queue' = Tail(queue)
    /\ code' = IF message = Body THEN code ELSE message[2]
    /\ PassOn(message)
    /\ IF queue' = <<>> THEN pc' = "returned" /\ Observe(code')
                        ELSE UNCHANGED <<pc, observed>>
    /\ UNCHANGED <<declared, received, exceeded, client, geo, route>>

(* The application returned; a 413 it gave no occasion for is sent now.    *)
Return ==
    /\ pc = "returned"
    /\ pc' = "closed"
    /\ IF exceeded /\ ~responded THEN Respond(413) ELSE UNCHANGED wire
    /\ UNCHANGED <<guard, queue, client, geo, route, context>>

(* An exception nothing below catches (the limiter's, the database's) goes *)
(* through both layers; the server answers for them.  The COMMIT may have  *)
(* been made without its answer.                                           *)
Raise ==
    /\ pc \in {"parsed", "store"}
    /\ outcome' \in IF pc = "store" THEN {"none", "stored"} ELSE {"none"}
    /\ Observe(code)
    /\ Respond(500)
    /\ pc' = "closed"
    /\ UNCHANGED <<guard, queue, client, geo, config, answers, code>>

(* What the route makes of the payload, once the body has been read.       *)
Judge(payload) ==
    RefuseAnswers(payload) \/ DropAutomated(payload) \/ Accept(payload)

Proceed ==
    \/ RefuseDeclared \/ EnterApp
    \/ \E size \in 0..MaxBody, more \in BOOLEAN : Receive(size, more)
    \/ Disconnect \/ BodyUnread \/ Refuse
    \/ \E answer \in {"error", "nothing", "empty", "found"} : AskProvider(answer)
    \/ ChainEnds \/ Store \/ Raise
    \/ Send \/ Return
-----------------------------------------------------------------------------
(* "Body over MAX_SUBMISSION_BYTES: 413" (README.md 210): however it comes *)
(* in pieces, a body that exceeds the limit is not acted upon, and its     *)
(* request is answered with 413 and with nothing else; every other request *)
(* with what the application sends, once.                                  *)
AnsweredOnce ==
    /\ TypeOK
    /\ \E s \in Statuses : wire \in {<<>>, <<Start(s)>>, Response(s)}
    /\ pc = "closed" => Len(wire) = 2
    /\ sent > MaxBytes => wire \in {<<>>, Response(413)} /\ outcome = "none"

(* A request the application has seen is counted once, under the class of  *)
(* the status the client is given, whichever layer gives it; a request     *)
(* refused before is not counted.                                          *)
CountedAsAnswered ==
    pc = "closed" =>
        observed = IF declared = BadHeader \/ DeclaresTooMuch
                   THEN <<>> ELSE <<Class(wire[1][2])>>

(* A stored lead answers what the widget asks and nothing else: every      *)
(* required field, no answer longer than its kind allows, an address where *)
(* one is asked for, and nothing in the honeypot.                          *)
Conforms ==
    /\ DOMAIN answers = Names(config)
    /\ \A f \in Fields(config) :
          LET answer == answers[f.name] IN
          /\ answer = Null => ~f.required
          /\ answer # Null =>
                /\ answer.raw \in 1..MaxAnswer[f.kind]
                /\ f.kind = "email" => answer.address
                /\ f.name # Honeypot
StoredAsConfigured == outcome = "stored" => Conforms

Unhelpful == {"error", "nothing", "empty"}

(* A lead is located by the first enabled provider that knows the address, *)
(* and the failure of one never hides the answer of the next.  A dropped   *)
(* submission is looked up by nobody.                                      *)
Located ==
    /\ \A p \in Enabled : location = p =>
          /\ said[p] = "found"
          /\ \A q \in Enabled : q < p => said[q] \in Unhelpful
    /\ location = NoLocation /\ (\E p \in Enabled : said[p] # "unasked") =>
          \A p \in Enabled : said[p] \in Unhelpful
NobodyAsked == \A p \in Enabled : said[p] = "unasked"
FirstAnswerCounts ==
    /\ outcome = "stored" => Located
    /\ outcome = "dropped" => NobodyAsked
-----------------------------------------------------------------------------
(* The strengthenings that make the invariants above inductive.            *)

(* Up to its answer a request leaves no trace.                             *)
Unanswered == {"unsent", "arrived", "reading", "broken", "parsed", "geo", "store"}
Untraced ==
    pc \in Unanswered =>
        /\ wire = <<>> /\ queue = <<>> /\ observed = <<>>
        /\ ~responded /\ outcome = "none" /\ code = 500

(* What the guard has counted is what has come in.                         *)
Measured ==
    /\ received = sent /\ exceeded = OverLimit(sent)
    /\ pc \in {"unsent", "arrived"} => sent = 0
    /\ exceeded => pc \in {"broken", "answering", "returned", "closed"} /\ outcome = "none"

(* Whether the guard refuses the request for its Content-Length alone.     *)
RefusedUnread == declared = BadHeader \/ DeclaresTooMuch
LetIn == pc \notin {"unsent", "arrived", "closed"} => ~RefusedUnread

(* Where the answer is that the application gives: with the guard, half on *)
(* the wire, or all of it; or another in its place.                        *)
HalfSent == pc = "answering" /\ queue = <<Body>>
Due(status) ==
    \/ pc = "answering" /\ queue = Response(status)
    \/ (HalfSent \/ pc = "returned") /\ code = status
    \/ pc = "closed" /\ wire = Response(status)

OnTheWire ==
    /\ pc = "answering" => HalfSent \/ \E s \in Statuses : queue = Response(s)
    /\ pc = "answering" /\ ~HalfSent => wire = <<>> /\ ~responded
    /\ HalfSent =>
          IF exceeded THEN wire = Response(413) /\ responded
                      ELSE wire = <<Start(code)>> /\ ~responded
    /\ pc = "returned" =>
          IF exceeded THEN wire = Response(413) /\ responded ELSE wire = Response(code)
    /\ pc = "closed" => \E s \in Statuses : wire = Response(s)
    /\ exceeded /\ pc \in {"answering", "returned"} => Due(400)
    /\ exceeded /\ pc = "closed" => Due(413)

CountedSoFar ==
    /\ pc = "answering" => observed = <<>>
    /\ pc = "returned" => observed = <<Class(code)>>
    /\ CountedAsAnswered

(* 202 is said of a lead that is stored or a submission that is dropped;   *)
(* of a stored lead an exception may say 500.                              *)
ToldSo ==
    /\ Due(202) => outcome # "none"
    /\ outcome = "dropped" => Due(202)
    /\ outcome = "stored" => Due(202) \/ (pc = "closed" /\ Due(500))

(* The chain is asked in its order.                                        *)
Asked ==
    /\ pc \in {"arrived", "reading", "broken", "parsed"} =>
          location = NoLocation /\ NobodyAsked
    /\ pc \in {"arrived", "reading", "broken", "parsed"} => chain = Enabled
    /\ pc = "geo" =>
          /\ location = NoLocation
          /\ \A p \in Enabled \ chain :
                said[p] \in Unhelpful /\ \A q \in chain : p < q
          /\ \A p \in chain : said[p] = "unasked"
    /\ pc = "store" => Located

RequestInv ==
    /\ TypeOK /\ Untraced /\ Measured /\ LetIn /\ OnTheWire /\ CountedSoFar /\ ToldSo
    /\ Asked /\ FirstAnswerCounts
    /\ pc \in {"geo", "store"} \/ outcome = "stored" => Conforms
=============================================================================
