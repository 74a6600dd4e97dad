-------------------------- MODULE CppClientProofs --------------------------
(***************************************************************************)
(* Proofs about the generated C client and its C++ wrapper, for every set  *)
(* of operations, fields, answers of the transport, variables and          *)
(* addresses.                                                              *)
(*                                                                         *)
(* CallInv follows one endpoint call: what the request holds before each   *)
(* runtime call, and what the parser has decoded of the members it has     *)
(* visited.  CppInv adds what each C++ method relies on when it goes on:   *)
(* which object it creates, and that a method finds and leaves no C object *)
(* filled in.                                                              *)
(***************************************************************************)
EXTENDS CppClient, TLAPS

ClientRecord == [key : Key \cup {None}, vtable : {"full", "short"}]

\* The steps of an endpoint call, and of client_create.
CallPc == {"create", "append", "set_url", "set_method", "authenticate", "serialize",
           "content_type", "set_body", "send", "check", "parse", "cleanup"}
CreatePc == {"base_url", "api_key"}

\* What kind of step runs, and what it runs on.
Running ==
  /\ pc \in {"idle"} \cup CreatePc \cup CallPc
  /\ pc \in CallPc => call \in Call /\ client \in ClientRecord
  /\ pc \notin CallPc => call = None /\ held \cap CallOwner = {}
  /\ pc \in CreatePc => client \in ClientRecord
  /\ error \in ErrorObject
  /\ response = [value |-> response.value, has |-> response.has]

AuthHeaders == IF call.endpoint.auth THEN <<KeyHeader(client.key)>> ELSE << >>
AllHeaders  == AuthHeaders \o IF call.document = None THEN << >> ELSE <<ContentType>>
AskedBody   == IF call.document = None THEN EmptyText ELSE <<call.document>>
Asked == [method |-> call.endpoint.method, url |-> UrlOf(call), headers |-> AllHeaders,
          body |-> AskedBody]

\* The request as far as the endpoint function has built it.
RequestSoFar ==
  /\ pc \in {"create", "idle"} \cup CreatePc => ~alive
  /\ pc \in CallPc \ {"create", "cleanup"} => alive = TRUE
  /\ pc \in {"append", "set_url", "set_method", "authenticate"} =>
       headers = << >> /\ body = EmptyText
  /\ pc \in {"set_method", "authenticate", "serialize", "content_type", "set_body", "send"} =>
       url = UrlOf(call)
  /\ pc \in {"authenticate", "serialize", "content_type", "set_body", "send"} =>
       method = call.endpoint.method
  /\ pc = "authenticate" => call.endpoint.auth
  /\ pc \in {"serialize", "content_type"} => headers = AuthHeaders
  /\ pc \in {"serialize", "content_type", "set_body"} =>
       body = EmptyText /\ call.document # None
  /\ pc \in {"set_body", "send"} => headers = AllHeaders
  /\ pc = "send" => body = AskedBody
  /\ pc \in CallPc \ {"check", "parse", "cleanup"} => submitted = None
  /\ pc \in {"check", "parse", "cleanup"} => submitted = None \/ submitted = Asked

\* The error object and the status while the call has not failed: the transport
\* may have succeeded and filled in the one that it was given.
NoFailureYet ==
  pc \in CallPc \ {"cleanup"} =>
    /\ status = "OK"
    /\ call.error => error = IF verdict = None THEN NoError ELSE LeftBy(verdict)

\* Before the request is sent the transport has said nothing; an answer is looked
\* at when it has succeeded.
VerdictSoFar ==
  /\ pc \in CallPc \ {"check", "parse", "cleanup"} => verdict = None
  /\ pc \in {"check", "parse"} => verdict \in Verdict /\ verdict.status = "OK"

\* The members visited so far are of the right kind, no field twice, and decoded;
\* nothing else is.
ParsedSoFar ==
  /\ answer.body.members \in Seq([key : Field \cup {None}, value : Value \cup {Alien}])
  /\ visited <= Len(answer.body.members)
  /\ \A i \in 1..visited :
       answer.body.members[i].key \in Field =>
         /\ answer.body.members[i].value # Alien
         /\ response.value[answer.body.members[i].key] = answer.body.members[i].value
  /\ \A i, j \in 1..visited :
       answer.body.members[i].key = answer.body.members[j].key
         /\ answer.body.members[i].key \in Field => i = j
  /\ \A f \in Field : f \notin Seen => response.value[f] = None
  /\ response.has = [f \in Field |-> FALSE]

AnswerSoFar ==
  /\ pc \notin {"check", "parse", "cleanup"} => answer = NoAnswer
  /\ pc \in CallPc \ {"parse", "cleanup"} => response = Blank
  /\ pc = "parse" => /\ answer.http = call.endpoint.http
                     /\ answer.body # None
                     /\ ParsedSoFar

CallInv ==
  /\ TypeOK
  /\ Running
  /\ NothingLeaks
  /\ RequestSoFar
  /\ NoFailureYet
  /\ VerdictSoFar
  /\ AnswerSoFar
  /\ ResponseWholeOrBlank
  /\ ErrorIsOfThisCall

-----------------------------------------------------------------------------
\* The error of a failure that the transport returned, with what it left in it.
TransportsOwn(e) == verdict # None /\ verdict.status = status /\ e = LeftBy(verdict)

\* What the running C++ method relies on.
MethodState ==
  /\ language \in {"C", "C++"}
  /\ running = None \/ running \in [method : {"create", "entered", "endpoint"}, object : Object]
  /\ language = "C" => running = None /\ result = NoResult
  /\ language = "C++" /\ running = None =>
       pc = "idle" /\ client = None /\ held = {} /\ response = Blank /\ error = NoError
  /\ running # None /\ running.method = "create" =>
       /\ pc \in {"idle"} \cup CreatePc
       /\ response = Blank /\ error = NoError /\ held \subseteq ClientOwner
       /\ handle[running.object] = "absent"
       /\ pc = "idle" => (status = "OK" <=> client # None)
  /\ running # None /\ running.method = "entered" =>
       pc = "idle" /\ response = Blank /\ error = NoError /\ held \subseteq ClientOwner
  /\ running # None /\ running.method = "endpoint" =>
       /\ pc \in {"idle"} \cup CallPc
       /\ pc \in CallPc => call.error
       /\ pc = "idle" /\ status = "OK" => \A f \in Required : response.value[f] # None
       /\ pc = "idle" /\ status # "OK" => error.code = status \/ TransportsOwn(error)

CppInv ==
  /\ CallInv
  /\ MethodState
  /\ handle \in [Object -> Handle \cup {None, "absent"}]
  /\ clients \in [Handle -> ClientRecord \cup {None}]
  /\ HandlesOwned
  /\ result.kind \in {"none", "client", "value", "error", "exception"}
  /\ CallerLearnsOutcome

-----------------------------------------------------------------------------
\* The steps before an answer is there.
EarlyPc == CallPc \ {"check", "parse", "cleanup"}

LEMMA CallInvInit == Init => CallInv
<1> SUFFICES ASSUME Init PROVE CallInv
  OBVIOUS
<1>1. TypeOK
  BY DEF Init, TypeOK, Blank, NoError, Failure
<1>2. Running /\ RequestSoFar /\ NoFailureYet /\ VerdictSoFar
  BY DEF Init, Running, RequestSoFar, NoFailureYet, VerdictSoFar, CallPc, CreatePc, Blank,
         NoError, ErrorObject, Request!Init
<1>3. NothingLeaks
  BY AnswerAssumption DEF Init, NothingLeaks, Request!Init, Blank
<1>4. AnswerSoFar /\ ResponseWholeOrBlank /\ ErrorIsOfThisCall
  BY DEF Init, AnswerSoFar, ResponseWholeOrBlank, ErrorIsOfThisCall, CallPc
<1> QED  BY <1>1, <1>2, <1>3, <1>4 DEF CallInv

\* What a failed runtime call leaves for the cleanup.
LEMMA FailTypes ==
  ASSUME CallInv, pc \in CallPc, NEW code \in Failure, Fail(code)
  PROVE  /\ pc' = "cleanup" /\ status' = code /\ status' # "OK"
         /\ error' \in ErrorObject
         /\ call.error => error' = [code |-> code, http |-> 0]
<1>1. error \in ErrorObject
  BY DEF CallInv, Running
<1>2. error' = IF call.error THEN [code |-> code, http |-> 0] ELSE error
  BY DEF Fail, Reported
<1>3. code # "OK" /\ 0 \in Nat
  BY DEF Failure
<1> QED  BY <1>1, <1>2, <1>3 DEF Fail, ErrorObject

\* Memory of the call is taken, and nothing else.
LEMMA HeldByCall ==
  ASSUME CallInv, held \subseteq held', held' \subseteq held \cup CallOwner
  PROVE  /\ held' \subseteq ClientOwner \cup CallOwner \cup StringField
         /\ held' \cap StringField = held \cap StringField
         /\ held' \cap ClientOwner = held \cap ClientOwner
<1>1. held \subseteq ClientOwner \cup CallOwner \cup StringField
  BY DEF CallInv, TypeOK
<1>2. ClientOwner \cap CallOwner = {} /\ StringField \cap CallOwner = {}
  BY OwnerAssumption DEF ClientOwner, CallOwner
<1> HIDE DEF ClientOwner, CallOwner
<1> QED  BY <1>1, <1>2

\* A step that fails before the request was sent leaves a blank response.
LEMMA EarlyFail ==
  ASSUME CallInv, pc \in EarlyPc, NEW code \in Failure \ {"HTTP"}, Fail(code),
         held \subseteq held', held' \subseteq held \cup CallOwner,
         UNCHANGED <<client, call, response, answer, visited, submitted, verdict>>
  PROVE  CallInv'
<1>1. /\ pc \in CallPc /\ pc' = "cleanup" /\ status' = code /\ status' # "OK"
      /\ error' \in ErrorObject
      /\ call.error => error' = [code |-> code, http |-> 0]
  BY FailTypes DEF EarlyPc
<1>2. /\ submitted = None /\ verdict = None /\ answer = NoAnswer /\ response = Blank
      /\ client \in ClientRecord /\ client # None /\ call \in Call
  BY OwnerAssumption
  DEF CallInv, RequestSoFar, VerdictSoFar, AnswerSoFar, Running, EarlyPc, CallPc, ClientRecord
<1>3. TypeOK'
  BY <1>1, HeldByCall DEF CallInv, TypeOK, ErrorObject
<1>4. Running'
  BY <1>1, <1>2 DEF CallInv, Running, CallPc, CreatePc
<1>5. NothingLeaks'
  BY <1>1, <1>2, HeldByCall DEF CallInv, NothingLeaks
<1>6. RequestSoFar' /\ NoFailureYet' /\ VerdictSoFar' /\ AnswerSoFar'
  BY <1>1, <1>2 DEF RequestSoFar, NoFailureYet, VerdictSoFar, AnswerSoFar, CallPc, CreatePc
<1>7. ResponseWholeOrBlank'
  <2>1. NoAnswer.body = None
    BY DEF NoAnswer
  <2>2. ~Acceptable(answer'.body)
    BY <1>2, <2>1 DEF Acceptable
  <2> QED  BY <1>1, <1>2, <2>2 DEF ResponseWholeOrBlank, Blank
<1>8. ErrorIsOfThisCall'
  BY <1>1, <1>2 DEF ErrorIsOfThisCall
<1> QED  BY <1>3, <1>4, <1>5, <1>6, <1>7, <1>8 DEF CallInv

\* A step of building the request that succeeds.
LEMMA EarlyStep ==
  ASSUME CallInv, pc \in EarlyPc, pc' \in EarlyPc, RequestSoFar',
         held \subseteq held', held' \subseteq held \cup CallOwner,
         UNCHANGED <<client, call, response, answer, visited, verdict, status, error>>
  PROVE  CallInv'
<1>1. /\ pc \in CallPc /\ pc' \in CallPc \ {"check", "parse", "cleanup"}
      /\ pc' \notin CreatePc /\ pc' # "idle"
  BY DEF EarlyPc, CallPc, CreatePc
<1>2. /\ answer = NoAnswer /\ response = Blank
      /\ client \in ClientRecord /\ client # None /\ call \in Call
      /\ status = "OK" /\ (call.error => error = NoError) /\ verdict = None
  BY OwnerAssumption
  DEF CallInv, NoFailureYet, VerdictSoFar, AnswerSoFar, Running, EarlyPc, CallPc, ClientRecord
<1>3. TypeOK'
  BY <1>1, HeldByCall DEF CallInv, TypeOK
<1>4. Running'
  BY <1>1, <1>2 DEF CallInv, Running
<1>5. NothingLeaks'
  BY <1>1, <1>2, HeldByCall DEF CallInv, NothingLeaks
<1>6. NoFailureYet' /\ VerdictSoFar' /\ AnswerSoFar'
  BY <1>1, <1>2 DEF NoFailureYet, VerdictSoFar, AnswerSoFar, Blank, NoError
<1>7. ResponseWholeOrBlank' /\ ErrorIsOfThisCall'
  BY <1>1 DEF ResponseWholeOrBlank, ErrorIsOfThisCall
<1> QED  BY <1>3, <1>4, <1>5, <1>6, <1>7 DEF CallInv

\* What the request builder's answer leads to.
LEMMA CheckedStep ==
  ASSUME CallInv, pc \in EarlyPc, NEW next \in EarlyPc, Checked(next),
         reply' # "HTTP", reply' \notin Failure => (pc' = next => RequestSoFar'),
         UNCHANGED <<client, call, held, response, answer, visited, submitted, verdict>>
  PROVE  CallInv'
<1>1. CASE reply' \in Failure
  BY <1>1, EarlyFail DEF Checked
<1>2. CASE reply' \notin Failure
  BY <1>2, EarlyStep DEF Checked
<1> QED  BY <1>1, <1>2

LEMMA CreateRequestKeeps == ASSUME CallInv, CreateRequest PROVE CallInv'
<1>1. /\ pc = "create" /\ Checked("append")
      /\ Request!Created \/ (Request!Refused /\ reply' = "OOM")
      /\ UNCHANGED <<client, call, held, response, answer, visited, submitted, verdict>>
  BY DEF CreateRequest
<1>2. pc \in EarlyPc /\ "append" \in EarlyPc
  BY <1>1 DEF EarlyPc, CallPc
<1>3. reply' # "HTTP"
  BY <1>1 DEF Request!Created
<1>4. ASSUME reply' \notin Failure, pc' = "append" PROVE RequestSoFar'
  BY <1>1, <1>4
  DEF CallInv, RequestSoFar, Request!Created, Request!Blanked, Failure, CallPc, CreatePc
<1> QED  BY <1>1, <1>2, <1>3, <1>4, CheckedStep

LEMMA BuildUrlKeeps == ASSUME CallInv, BuildUrl PROVE CallInv'
<1>1. /\ pc = "append" /\ held \subseteq held' /\ held' \subseteq held \cup CallOwner
      /\ UNCHANGED <<client, call, response, answer, visited, submitted, verdict, request>>
      /\ \/ pc' = "set_url" /\ UNCHANGED <<status, error>>
         \/ Fail("OOM") \/ Fail("INVALID_ARGUMENT")
  BY DEF BuildUrl, CallOwner
<1>2. pc \in EarlyPc /\ {"OOM", "INVALID_ARGUMENT"} \subseteq Failure \ {"HTTP"}
  BY <1>1 DEF EarlyPc, CallPc, Failure
<1>3. CASE pc' = "set_url" /\ UNCHANGED <<status, error>>
  <2>1. RequestSoFar' /\ pc' \in EarlyPc
    BY <1>1, <1>3 DEF CallInv, RequestSoFar, CallPc, CreatePc, EarlyPc, request
  <2> QED  BY <1>1, <1>2, <1>3, <2>1, EarlyStep
<1>4. CASE Fail("OOM") \/ Fail("INVALID_ARGUMENT")
  BY <1>1, <1>2, <1>4, EarlyFail
<1> QED  BY <1>1, <1>3, <1>4

LEMMA SetUrlKeeps == ASSUME CallInv, SetUrl PROVE CallInv'
<1>1. /\ pc = "set_url" /\ Checked("set_method") /\ url' \in {UrlOf(call), EmptyText}
      /\ UNCHANGED <<alive, method, body, headers>> /\ alive
      /\ \/ url' # EmptyText /\ reply' = "URL_SET"
         \/ reply' = "OOM"
      /\ UNCHANGED <<client, call, held, response, answer, visited, submitted, verdict>>
  BY DEF SetUrl, Request!UrlReplaced
<1>2. pc \in EarlyPc /\ "set_method" \in EarlyPc
  BY <1>1 DEF EarlyPc, CallPc
<1>3. ASSUME reply' \notin Failure, pc' = "set_method" PROVE RequestSoFar'
  <2>1. url' = UrlOf(call)
    BY <1>1, <1>3 DEF Failure
  <2>2. UrlOf(call)' = UrlOf(call)
    BY <1>1 DEF UrlOf
  <2> QED
    BY <1>1, <1>3, <2>1, <2>2 DEF CallInv, RequestSoFar, CallPc, CreatePc
<1> QED  BY <1>1, <1>2, <1>3, CheckedStep

\* The step after the key, or after the method when the operation has none.
LEMMA KeyStep ==
  ASSUME CallInv, UNCHANGED <<client, call, submitted, verdict, alive, url, body>>,
         pc \in {"set_method", "authenticate"}, pc' = AfterKey,
         method' = call.endpoint.method, headers' = AuthHeaders
  PROVE  RequestSoFar'
<1>1. UrlOf(call)' = UrlOf(call) /\ AuthHeaders' = AuthHeaders /\ AllHeaders' = AllHeaders
      /\ AskedBody' = AskedBody
  BY DEF UrlOf, AuthHeaders, AllHeaders, AskedBody, KeyHeader, ContentType
<1>2. url = UrlOf(call) /\ body = EmptyText /\ alive = TRUE /\ submitted = None
  BY DEF CallInv, RequestSoFar, CallPc
<1>3. CASE call.document = None
  <2>1. AllHeaders = AuthHeaders
    BY <1>3 DEF AllHeaders, AuthHeaders
  <2>2. AskedBody = EmptyText /\ pc' = "send"
    BY <1>3 DEF AskedBody, AfterKey
  <2> QED  BY <1>1, <1>2, <2>1, <2>2 DEF RequestSoFar, CallPc, CreatePc
<1>4. CASE call.document # None
  <2>1. pc' = "serialize"
    BY <1>4 DEF AfterKey
  <2> QED  BY <1>1, <1>2, <1>4, <2>1 DEF RequestSoFar, CallPc, CreatePc
<1> QED  BY <1>3, <1>4

LEMMA SetMethodKeeps == ASSUME CallInv, SetMethod PROVE CallInv'
<1> DEFINE after == IF call.endpoint.auth THEN "authenticate" ELSE AfterKey
<1>1. /\ pc = "set_method" /\ Checked(after) /\ method' = call.endpoint.method
      /\ UNCHANGED <<alive, url, body, headers>> /\ alive /\ reply' = "METHOD_SET"
      /\ UNCHANGED <<client, call, held, response, answer, visited, submitted, verdict>>
  BY DEF SetMethod, Request!MethodSet
<1>2. pc \in EarlyPc /\ after \in EarlyPc
  BY <1>1 DEF EarlyPc, CallPc, AfterKey
<1>3. ASSUME pc' = after PROVE RequestSoFar'
  <2>1. headers = << >> /\ body = EmptyText /\ url = UrlOf(call) /\ submitted = None
    BY <1>1 DEF CallInv, RequestSoFar, CallPc
  <2>2. CASE call.endpoint.auth
    <3>1. UrlOf(call)' = UrlOf(call)
      BY <1>1 DEF UrlOf
    <3> QED
      BY <1>1, <1>3, <2>1, <2>2, <3>1 DEF RequestSoFar, CallPc, CreatePc
  <2>3. CASE ~call.endpoint.auth
    BY <1>1, <1>3, <2>1, <2>3, KeyStep DEF AuthHeaders
  <2> QED  BY <2>2, <2>3
<1> HIDE DEF after
<1> QED  BY <1>1, <1>2, <1>3, CheckedStep

\* add_header adds the whole header or reports a failure.
LEMMA AddHeaderEffect ==
  ASSUME NEW h, NEW legal, AddHeader(h, legal)
  PROVE  /\ UNCHANGED <<alive, method, url, body>> /\ reply' # "HTTP"
         /\ reply' \notin Failure => headers' = Append(headers, h) /\ alive
  BY DEF AddHeader, Request!HeaderAdded, Request!Refused, Failure

LEMMA AuthenticateKeeps == ASSUME CallInv, Authenticate PROVE CallInv'
<1>1. /\ pc = "authenticate" /\ Checked(AfterKey)
      /\ UNCHANGED <<alive, method, url, body>> /\ reply' # "HTTP"
      /\ reply' \notin Failure => headers' = Append(headers, KeyHeader(client.key)) /\ alive
      /\ UNCHANGED <<client, call, held, response, answer, visited, submitted, verdict>>
  BY AddHeaderEffect DEF Authenticate
<1>2. pc \in EarlyPc /\ AfterKey \in EarlyPc
  BY <1>1 DEF EarlyPc, CallPc, AfterKey
<1>3. ASSUME reply' \notin Failure, pc' = AfterKey PROVE RequestSoFar'
  <2>1. headers = << >> /\ method = call.endpoint.method /\ call.endpoint.auth
    BY <1>1 DEF CallInv, RequestSoFar
  <2>2. headers' = AuthHeaders
    BY <1>1, <1>3, <2>1 DEF AuthHeaders
  <2> QED  BY <1>1, <1>3, <2>1, <2>2, KeyStep
<1> QED  BY <1>1, <1>2, <1>3, CheckedStep

LEMMA SerializeKeeps == ASSUME CallInv, Serialize PROVE CallInv'
<1>1. /\ pc = "serialize" /\ held \subseteq held' /\ held' \subseteq held \cup CallOwner
      /\ UNCHANGED <<client, call, response, answer, visited, submitted, verdict, request>>
      /\ \/ pc' = "content_type" /\ UNCHANGED <<status, error>>
         \/ Fail("OOM") \/ Fail("SERIALIZE")
  BY DEF Serialize, CallOwner
<1>2. pc \in EarlyPc /\ {"OOM", "SERIALIZE"} \subseteq Failure \ {"HTTP"}
  BY <1>1 DEF EarlyPc, CallPc, Failure
<1>3. CASE pc' = "content_type" /\ UNCHANGED <<status, error>>
  <2>1. UrlOf(call)' = UrlOf(call) /\ AuthHeaders' = AuthHeaders
    BY <1>1 DEF UrlOf, AuthHeaders, KeyHeader
  <2>2. RequestSoFar' /\ pc' \in EarlyPc
    BY <1>1, <1>3, <2>1 DEF CallInv, RequestSoFar, CallPc, CreatePc, EarlyPc, request
  <2> QED  BY <1>1, <1>2, <1>3, <2>2, EarlyStep
<1>4. CASE Fail("OOM") \/ Fail("SERIALIZE")
  BY <1>1, <1>2, <1>4, EarlyFail
<1> QED  BY <1>1, <1>3, <1>4

LEMMA AddContentTypeKeeps == ASSUME CallInv, AddContentType PROVE CallInv'
<1>1. /\ pc = "content_type" /\ Checked("set_body")
      /\ UNCHANGED <<alive, method, url, body>> /\ reply' # "HTTP"
      /\ reply' \notin Failure => headers' = Append(headers, ContentType) /\ alive
      /\ UNCHANGED <<client, call, held, response, answer, visited, submitted, verdict>>
  BY AddHeaderEffect DEF AddContentType
<1>2. pc \in EarlyPc /\ "set_body" \in EarlyPc
  BY <1>1 DEF EarlyPc, CallPc
<1>3. ASSUME reply' \notin Failure, pc' = "set_body" PROVE RequestSoFar'
  <2>1. UrlOf(call)' = UrlOf(call) /\ AllHeaders' = AllHeaders
    BY <1>1 DEF UrlOf, AllHeaders, AuthHeaders, KeyHeader, ContentType
  <2>2. /\ headers = AuthHeaders /\ url = UrlOf(call) /\ method = call.endpoint.method
        /\ body = EmptyText /\ call.document # None /\ submitted = None
    BY <1>1 DEF CallInv, RequestSoFar, CallPc
  <2>3. headers' = AllHeaders
    BY <1>1, <1>3, <2>2 DEF AllHeaders, AuthHeaders
  <2> QED  BY <1>1, <1>3, <2>1, <2>2, <2>3 DEF RequestSoFar, CallPc, CreatePc
<1> QED  BY <1>1, <1>2, <1>3, CheckedStep

LEMMA SetBodyKeeps == ASSUME CallInv, SetBody PROVE CallInv'
<1>1. /\ pc = "set_body" /\ Checked("send")
      /\ UNCHANGED <<alive, method, url, headers>> /\ alive
      /\ \/ body' = <<call.document>> /\ reply' = "BODY_SET"
         \/ reply' = "OOM"
      /\ UNCHANGED <<client, call, held, response, answer, visited, submitted, verdict>>
  BY DEF SetBody, Request!BodyReplaced
<1>2. pc \in EarlyPc /\ "send" \in EarlyPc
  BY <1>1 DEF EarlyPc, CallPc
<1>3. ASSUME reply' \notin Failure, pc' = "send" PROVE RequestSoFar'
  <2>1. UrlOf(call)' = UrlOf(call) /\ AllHeaders' = AllHeaders /\ AskedBody' = AskedBody
    BY <1>1 DEF UrlOf, AllHeaders, AuthHeaders, KeyHeader, ContentType, AskedBody
  <2>2. /\ headers = AllHeaders /\ url = UrlOf(call) /\ method = call.endpoint.method
        /\ call.document # None /\ submitted = None
    BY <1>1 DEF CallInv, RequestSoFar, CallPc
  <2>3. body' = AskedBody
    BY <1>1, <1>3, <2>2 DEF AskedBody, Failure
  <2> QED  BY <1>1, <1>3, <2>1, <2>2, <2>3 DEF RequestSoFar, CallPc, CreatePc
<1> QED  BY <1>1, <1>2, <1>3, CheckedStep

\* The request is sent as the operation and the arguments ask for it.
LEMMA SendKeeps == ASSUME CallInv, Send PROVE CallInv'
<1>1. /\ pc = "send" /\ UNCHANGED <<client, call, response, visited, request>>
      /\ pc \in EarlyPc /\ pc \in CallPc
  BY DEF Send, EarlyPc, CallPc
<1>2. CASE Fail("INVALID_ARGUMENT") /\ UNCHANGED <<held, answer, submitted, verdict>>
  BY <1>1, <1>2, EarlyFail DEF Failure
<1>3. CASE /\ submitted' = [method |-> method, url |-> url, headers |-> headers, body |-> body]
           /\ answer' \in Answer
           /\ held' = IF answer'.body = None THEN held ELSE held \cup {"answer"}
           /\ verdict' \in Verdict
           /\ status' = verdict'.status
           /\ error' = IF call.error /\ verdict'.error # None THEN verdict'.error ELSE error
           /\ pc' = IF verdict'.status = "OK" THEN "check" ELSE "cleanup"
  <2>1. /\ client \in ClientRecord /\ client # None /\ call \in Call
        /\ status = "OK" /\ (call.error => error = NoError) /\ verdict = None
        /\ response = Blank /\ alive = TRUE
    BY <1>1, OwnerAssumption
    DEF CallInv, NoFailureYet, VerdictSoFar, AnswerSoFar, Running, RequestSoFar, CallPc,
        ClientRecord
  <2>2. /\ held \subseteq held' /\ held' \subseteq held \cup CallOwner
    BY <1>3 DEF CallOwner
  <2>3. /\ verdict' # None /\ status' \in Failure \cup {"OK"} /\ error' \in ErrorObject
        /\ call.error => error' = LeftBy(verdict')
    <3>1. error \in ErrorObject
      BY DEF CallInv, Running
    <3>2. /\ verdict' # None /\ verdict'.status \in Failure \cup {"OK"}
          /\ verdict'.error \in ErrorObject \cup {None}
      BY <1>3, VerdictAssumption
    <3> QED  BY <1>3, <2>1, <3>1, <3>2 DEF LeftBy
  <2>4. TypeOK'
    BY <1>1, <1>3, <2>1, <2>2, <2>3, HeldByCall DEF CallInv, TypeOK, ErrorObject
  <2>5. Running'
    BY <1>1, <1>3, <2>1, <2>3 DEF CallInv, Running, CallPc, CreatePc
  <2>6. NothingLeaks'
    BY <1>1, <1>3, <2>1, <2>2, HeldByCall DEF CallInv, NothingLeaks
  <2>7. RequestSoFar'
    <3>1. submitted' = Asked
      BY <1>1, <1>3 DEF CallInv, RequestSoFar, Asked
    <3>2. Asked' = Asked
      BY <1>1 DEF Asked, UrlOf, AllHeaders, AuthHeaders, KeyHeader, ContentType, AskedBody
    <3> QED  BY <1>1, <1>3, <2>1, <3>1, <3>2 DEF RequestSoFar, CallPc, CreatePc, request
  <2>8. NoFailureYet' /\ VerdictSoFar' /\ AnswerSoFar'
    BY <1>1, <1>3, <2>1, <2>3 DEF NoFailureYet, VerdictSoFar, AnswerSoFar, Blank, CallPc
  <2>9. ResponseWholeOrBlank' /\ ErrorIsOfThisCall'
    BY <1>1, <1>3, <2>1, <2>3 DEF ResponseWholeOrBlank, ErrorIsOfThisCall, Blank
  <2> QED  BY <2>4, <2>5, <2>6, <2>7, <2>8, <2>9 DEF CallInv
<1> QED  BY <1>2, <1>3 DEF Send

\* The parser fails, or the HTTP status or the missing body stops it: the response
\* is blank, and an acceptable answer was refused for want of memory only.
LEMMA LateFail ==
  ASSUME CallInv, pc \in {"check", "parse"}, NEW code \in Failure, status' = code,
         pc' = "cleanup", response' = Blank, held' = held \ StringField, visited' \in Nat,
         error' \in ErrorObject,
         call.error => error' = [code |-> code,
                                 http |-> IF code = "HTTP" THEN answer.http ELSE 0],
         answer.http = call.endpoint.http /\ Acceptable(answer.body) => code = "OOM",
         UNCHANGED <<client, call, answer, submitted, verdict, request>>
  PROVE  CallInv'
<1>1. /\ client \in ClientRecord /\ client # None /\ call \in Call /\ pc \in CallPc
  BY OwnerAssumption DEF CallInv, Running, CallPc, ClientRecord
<1>2. code # "OK" /\ verdict # None /\ verdict.status = "OK"
  BY VerdictAssumption DEF Failure, CallInv, VerdictSoFar
<1>3. TypeOK'
  BY <1>1 DEF CallInv, TypeOK, Blank, ErrorObject
<1>4. Running'
  BY <1>1 DEF CallInv, Running, CallPc, CreatePc, Blank
<1>5. NothingLeaks'
  BY <1>1, AnswerAssumption DEF CallInv, NothingLeaks, Blank
<1>6. RequestSoFar'
  <2>1. Asked' = Asked
    BY DEF Asked, UrlOf, AllHeaders, AuthHeaders, KeyHeader, ContentType, AskedBody
  <2> QED  BY <1>1, <2>1 DEF CallInv, RequestSoFar, CallPc, CreatePc
<1>7. NoFailureYet' /\ VerdictSoFar' /\ AnswerSoFar'
  BY DEF NoFailureYet, VerdictSoFar, AnswerSoFar, CallPc
<1>8. ResponseWholeOrBlank'
  BY <1>2 DEF ResponseWholeOrBlank, Acceptable, Blank
<1>9. ErrorIsOfThisCall'
  BY <1>2 DEF ErrorIsOfThisCall
<1> QED  BY <1>3, <1>4, <1>5, <1>6, <1>7, <1>8, <1>9 DEF CallInv

\* What was held before an answer is parsed.
LEMMA BlankHolds ==
  ASSUME CallInv, response = Blank PROVE held \cap StringField = {}
  BY AnswerAssumption DEF CallInv, NothingLeaks, Blank

LEMMA CheckStatusKeeps == ASSUME CallInv, CheckStatus PROVE CallInv'
<1>1. /\ pc = "check" /\ visited' = 0 /\ pc \in CallPc
      /\ UNCHANGED <<client, call, answer, submitted, verdict, request>>
      /\ response = Blank /\ held \cap StringField = {} /\ status = "OK"
      /\ verdict \in Verdict /\ verdict.status = "OK"
      /\ call.error => error = IF verdict = None THEN NoError ELSE LeftBy(verdict)
  BY BlankHolds DEF CheckStatus, CallInv, AnswerSoFar, NoFailureYet, VerdictSoFar, CallPc
<1>2. /\ answer.http \in Nat /\ error \in ErrorObject
      /\ answer.body # None =>
           answer.body.members \in Seq([key : Field \cup {None}, value : Value \cup {Alien}])
  <2>1. answer \in Answer \/ answer = NoAnswer
    BY DEF CallInv, TypeOK
  <2>2. error \in ErrorObject
    BY DEF CallInv, Running
  <2>3. CASE answer \in Answer
    BY <2>2, <2>3, AnswerAssumption
  <2>4. CASE answer = NoAnswer
    <3>1. answer.http = 0 /\ answer.body = None
      BY <2>4 DEF NoAnswer
    <3> QED  BY <2>2, <3>1
  <2> QED  BY <2>1, <2>3, <2>4
<1>3. CASE /\ answer.http # call.endpoint.http /\ status' = "HTTP" /\ pc' = "cleanup"
           /\ error' = IF call.error THEN [code |-> "HTTP", http |-> answer.http] ELSE error
           /\ UNCHANGED <<held, response>>
  <2>1. held' = held \ StringField /\ response' = Blank
    BY <1>1, <1>3
  <2>2. "HTTP" \in Failure
    BY DEF Failure
  <2>3. error' \in ErrorObject
    BY <1>2, <1>3, <2>2 DEF ErrorObject
  <2> QED  BY <1>1, <1>3, <2>1, <2>2, <2>3, LateFail
<1>4. CASE /\ answer.http = call.endpoint.http /\ BlankResponse /\ answer.body = None
           /\ Fail("INVALID_ARGUMENT")
  <2>1. "INVALID_ARGUMENT" \in Failure /\ ~Acceptable(answer.body)
    BY <1>4 DEF Failure, Acceptable
  <2>2. /\ pc' = "cleanup" /\ status' = "INVALID_ARGUMENT"
        /\ error' \in ErrorObject
        /\ call.error => error' = [code |-> "INVALID_ARGUMENT", http |-> 0]
    BY <1>1, <1>4, <2>1, FailTypes
  <2> QED  BY <1>1, <1>4, <2>1, <2>2, LateFail DEF BlankResponse
<1>5. CASE /\ answer.http = call.endpoint.http /\ BlankResponse /\ answer.body # None
           /\ pc' = "parse" /\ UNCHANGED <<status, error>>
  <2>1. /\ client \in ClientRecord /\ client # None /\ call \in Call
    BY <1>1, OwnerAssumption DEF CallInv, Running, CallPc, ClientRecord
  <2>2. held' = held /\ response' = Blank
    BY <1>1, <1>5 DEF BlankResponse
  <2>3. TypeOK' /\ Running' /\ NothingLeaks'
    BY <1>1, <1>5, <2>1, <2>2
    DEF CallInv, TypeOK, Running, NothingLeaks, CallPc, CreatePc
  <2>4. RequestSoFar'
    <3>1. Asked' = Asked
      BY <1>1 DEF Asked, UrlOf, AllHeaders, AuthHeaders, KeyHeader, ContentType, AskedBody
    <3> QED  BY <1>1, <1>5, <3>1 DEF CallInv, RequestSoFar, CallPc, CreatePc, request
  <2>5. ParsedSoFar'
    BY <1>1, <1>2, <1>5, <2>2 DEF ParsedSoFar, Blank, Seen
  <2>6. NoFailureYet' /\ VerdictSoFar' /\ AnswerSoFar'
    BY <1>1, <1>5, <2>5 DEF NoFailureYet, VerdictSoFar, AnswerSoFar, CallPc, LeftBy
  <2>7. ResponseWholeOrBlank' /\ ErrorIsOfThisCall'
    BY <1>5 DEF ResponseWholeOrBlank, ErrorIsOfThisCall
  <2> QED  BY <2>3, <2>4, <2>6, <2>7 DEF CallInv
<1> QED  BY <1>3, <1>4, <1>5 DEF CheckStatus

\* A visit, or the end of the parser, that fails.
LEMMA ParseFailsKeeps ==
  ASSUME CallInv, pc = "parse", NEW code \in Failure \ {"HTTP"}, ParseFails(code),
         Acceptable(answer.body) => code = "OOM",
         UNCHANGED <<client, call, answer, submitted, verdict, request>>
  PROVE  CallInv'
<1>1. pc \in CallPc /\ visited \in Nat
  BY DEF CallPc, CallInv, TypeOK
<1>2. /\ pc' = "cleanup" /\ status' = code
      /\ error' \in ErrorObject
      /\ call.error => error' = [code |-> code, http |-> 0]
  BY <1>1, FailTypes DEF ParseFails
<1>3. response' = Blank /\ held' = held \ StringField /\ visited' = visited
  BY DEF ParseFails, BlankResponse
<1> QED  BY <1>1, <1>2, <1>3, LateFail

\* The part of the invariant that the parser's progress does not touch.
LEMMA ParseStep ==
  ASSUME CallInv, pc = "parse", pc' = "parse", ParsedSoFar', TypeOK', NothingLeaks',
         response' = [value |-> response'.value, has |-> response'.has],
         UNCHANGED <<client, call, answer, submitted, verdict, status, error, request>>
  PROVE  CallInv'
<1>1. Running' /\ NoFailureYet' /\ VerdictSoFar'
  <2>1. "parse" \in CallPc /\ "parse" \notin CreatePc
    BY DEF CallPc, CreatePc
  <2> QED  BY <2>1 DEF CallInv, Running, NoFailureYet, VerdictSoFar, LeftBy
<1>2. RequestSoFar'
  <2>1. Asked' = Asked
    BY DEF Asked, UrlOf, AllHeaders, AuthHeaders, KeyHeader, ContentType, AskedBody
  <2> QED  BY <2>1 DEF CallInv, RequestSoFar, CallPc, CreatePc, request
<1>3. AnswerSoFar'
  BY DEF CallInv, AnswerSoFar, CallPc
<1>4. ResponseWholeOrBlank' /\ ErrorIsOfThisCall'
  BY DEF ResponseWholeOrBlank, ErrorIsOfThisCall
<1> QED  BY <1>1, <1>2, <1>3, <1>4 DEF CallInv

LEMMA VisitMemberKeeps == ASSUME CallInv, VisitMember PROVE CallInv'
<1> DEFINE n == visited + 1
           m == answer.body.members[n]
<1>1. /\ pc = "parse" /\ visited < Len(answer.body.members) /\ Visit(m)
      /\ UNCHANGED <<client, call, answer, submitted, verdict, request>>
  BY DEF VisitMember
<1>2. ParsedSoFar /\ visited \in Nat /\ answer.body # None
      /\ client # None /\ response.value \in [Field -> Value \cup {None}]
      /\ response = [value |-> response.value, has |-> response.has]
  BY <1>1, OwnerAssumption
  DEF CallInv, AnswerSoFar, TypeOK, Running, CallPc, ClientRecord
<1>3. /\ n \in 1..Len(answer.body.members) /\ n \in DOMAIN answer.body.members
      /\ m.key \in Field \cup {None} /\ m.value \in Value \cup {Alien}
      /\ \A i \in 1..visited : i \in DOMAIN answer.body.members /\ i # n
  <2> DEFINE H == [key : Field \cup {None}, value : Value \cup {Alien}]
  <2>1. answer.body.members \in Seq(H)
    BY <1>2 DEF ParsedSoFar
  <2> HIDE DEF H
  <2>2. /\ n \in 1..Len(answer.body.members)
        /\ DOMAIN answer.body.members = 1..Len(answer.body.members)
        /\ \A i \in 1..visited : i \in 1..Len(answer.body.members) /\ i # n
    BY <1>1, <1>2, <2>1
  <2>3. m \in H
    BY <2>1, <2>2
  <2> QED  BY <2>2, <2>3 DEF H
<1>4. {"SCHEMA", "OVERFLOW", "OOM"} \subseteq Failure \ {"HTTP"}
  BY DEF Failure
<1>5. CASE m.key \in Seen \cap Field /\ ParseFails("SCHEMA")
  <2>1. PICK i \in 1..visited : answer.body.members[i].key = m.key
    BY <1>5 DEF Seen
  <2>2. ~Acceptable(answer.body)
    BY <1>3, <1>5, <2>1 DEF Acceptable
  <2> QED  BY <1>1, <1>4, <1>5, <2>2, ParseFailsKeeps
<1>6. CASE /\ m.key \in Field /\ m.value = Alien
           /\ ParseFails("SCHEMA") \/ ParseFails("OVERFLOW")
  <2>1. ~Acceptable(answer.body)
    BY <1>3, <1>6 DEF Acceptable
  <2> QED  BY <1>1, <1>4, <1>6, <2>1, ParseFailsKeeps
<1>7. CASE ParseFails("OOM")
  BY <1>1, <1>4, <1>7, ParseFailsKeeps
<1>8. CASE /\ m.key = None /\ visited' = n
           /\ UNCHANGED <<pc, held, response, status, error>>
  <2>1. None \notin Field
    BY AnswerAssumption
  <2>2. ParsedSoFar'
    <3>1. \A i \in 1..n : i \in 1..visited \/ i = n
      BY <1>2
    <3>2. \A f \in Field : f \notin Seen' => f \notin Seen
      BY <1>1, <1>2, <1>8 DEF Seen
    <3> QED  BY <1>1, <1>2, <1>3, <1>8, <2>1, <3>1, <3>2 DEF ParsedSoFar
  <2>3. TypeOK' /\ NothingLeaks'
    BY <1>1, <1>2, <1>8 DEF CallInv, TypeOK, NothingLeaks, request
  <2> QED  BY <1>1, <1>2, <1>8, <2>2, <2>3, ParseStep
<1>9. CASE /\ m.key \in Field \ Seen /\ m.value # Alien /\ visited' = n
           /\ response' = [response EXCEPT !.value[m.key] = m.value]
           /\ held' = held \cup ({m.key} \cap StringField)
           /\ UNCHANGED <<pc, status, error>>
  <2>1. PICK k, v : k = m.key /\ v = m.value
    OBVIOUS
  <2>2. /\ k \in Field /\ k \notin Seen /\ v \in Value /\ v # None /\ v # Alien
    BY <1>3, <1>9, <2>1, AnswerAssumption
  <2>3. /\ response'.value = [response.value EXCEPT ![k] = v] /\ response'.has = response.has
        /\ response' = [value |-> response'.value, has |-> response'.has]
        /\ response'.value \in [Field -> Value \cup {None}]
        /\ \A f \in Field : response'.value[f] = IF f = k THEN v ELSE response.value[f]
    BY <1>2, <1>9, <2>1, <2>2
  <2>4. \A i \in 1..n : i \in 1..visited \/ i = n
    BY <1>2
  <2>5. \A i \in 1..visited : answer.body.members[i].key # k
    BY <2>2 DEF Seen
  <2> HIDE DEF m
  <2>6. ParsedSoFar'
    <3>1. \A i \in 1..n :
            answer.body.members[i].key \in Field =>
              /\ answer.body.members[i].value # Alien
              /\ response'.value[answer.body.members[i].key] = answer.body.members[i].value
      <4> SUFFICES ASSUME NEW i \in 1..n, answer.body.members[i].key \in Field
                   PROVE  /\ answer.body.members[i].value # Alien
                          /\ response'.value[answer.body.members[i].key]
                               = answer.body.members[i].value
        OBVIOUS
      <4>1. CASE i = n
        BY <2>1, <2>2, <2>3, <4>1 DEF m
      <4>2. CASE i \in 1..visited
        BY <1>2, <2>3, <2>5, <4>2 DEF ParsedSoFar
      <4> QED  BY <2>4, <4>1, <4>2
    <3>2. \A i, j \in 1..n :
            answer.body.members[i].key = answer.body.members[j].key
              /\ answer.body.members[i].key \in Field => i = j
      BY <1>2, <2>1, <2>4, <2>5 DEF ParsedSoFar, m
    <3>3. \A f \in Field : f \notin Seen' => response'.value[f] = None
      <4>1. Seen' = Seen \cup {k}
        BY <1>1, <1>2, <1>9, <2>1, <2>4 DEF Seen, m
      <4> QED  BY <1>2, <2>3, <4>1 DEF ParsedSoFar
    <3> QED
      BY <1>1, <1>2, <1>3, <1>9, <2>3, <3>1, <3>2, <3>3 DEF ParsedSoFar
  <2>7. held' = held \cup ({k} \cap StringField)
    BY <1>9, <2>1
  <2>8. TypeOK'
    BY <1>1, <1>2, <1>9, <2>3, <2>7 DEF CallInv, TypeOK
  <2>9. NothingLeaks'
    <3>1. held' \cap StringField = {f \in StringField : response'.value[f] # None}
      BY <2>2, <2>3, <2>7, AnswerAssumption DEF CallInv, NothingLeaks
    <3> QED  BY <1>1, <1>2, <1>9, <3>1 DEF NothingLeaks
  <2> QED  BY <1>1, <1>9, <2>3, <2>6, <2>8, <2>9, ParseStep
<1> QED  BY <1>1, <1>5, <1>6, <1>7, <1>8, <1>9 DEF Visit

\* A parser that got to the end has decoded what the body says.
LEMMA DecodedWhole ==
  ASSUME ParsedSoFar, visited = Len(answer.body.members), answer.body # None,
         answer.body.complete, Required \subseteq Seen,
         response.value \in [Field -> Value \cup {None}]
  PROVE  /\ Acceptable(answer.body)
         /\ [value |-> response.value, has |-> [f \in Field |-> f \in Seen \ Required]]
              = Decoded(answer.body)
<1> DEFINE b == answer.body
           Members(f) == {i \in DOMAIN b.members : b.members[i].key = f}
<1>1. DOMAIN b.members = 1..visited
  BY DEF ParsedSoFar
<1>2. \A f : f \in Seen <=> \E i \in DOMAIN b.members : b.members[i].key = f
  BY <1>1 DEF Seen
<1>3. Acceptable(b)
  <2>1. \A f \in Required : \E i \in DOMAIN b.members : b.members[i].key = f
    BY <1>2
  <2>2. \A i, j \in DOMAIN b.members :
          b.members[i].key \in Field =>
            /\ b.members[i].value # Alien
            /\ b.members[j].key = b.members[i].key => i = j
    BY <1>1 DEF ParsedSoFar
  <2> QED  BY <2>1, <2>2 DEF Acceptable
<1>4. ASSUME NEW f \in Field
      PROVE  /\ response.value[f] = IF Members(f) = {} THEN None
                                    ELSE b.members[CHOOSE i \in Members(f) : TRUE].value
             /\ (f \in Seen \ Required) = (f \notin Required /\ Members(f) # {})
  <2>1. Members(f) # {} <=> f \in Seen
    BY <1>2
  <2>2. CASE Members(f) = {}
    BY <2>1, <2>2 DEF ParsedSoFar
  <2>3. CASE Members(f) # {}
    <3>1. PICK i : i = CHOOSE k \in Members(f) : TRUE
      OBVIOUS
    <3>2. i \in Members(f)
      BY <2>3, <3>1
    <3>3. i \in 1..visited /\ b.members[i].key = f
      BY <1>1, <3>2
    <3>4. response.value[f] = b.members[i].value
      BY <3>3 DEF ParsedSoFar
    <3> QED  BY <2>1, <2>3, <3>1, <3>4
  <2> QED  BY <2>2, <2>3
<1> HIDE DEF b
<1>5. response.value = [f \in Field |-> response.value[f]]
  OBVIOUS
<1> DEFINE decoded == [f \in Field |-> IF Members(f) = {} THEN None
                                      ELSE b.members[CHOOSE i \in Members(f) : TRUE].value]
           has     == [f \in Field |-> f \notin Required /\ Members(f) # {}]
<1>6. response.value = decoded
  BY <1>4, <1>5
<1>7. [f \in Field |-> f \in Seen \ Required] = has
  BY <1>4
<1>8. Decoded(b) = [value |-> decoded, has |-> has]
  BY DEF Decoded
<1> HIDE DEF decoded, has
<1>9. [value |-> response.value, has |-> [f \in Field |-> f \in Seen \ Required]] = Decoded(b)
  BY <1>6, <1>7, <1>8
<1> QED  BY <1>3, <1>9 DEF b

LEMMA FinishParseKeeps == ASSUME CallInv, FinishParse PROVE CallInv'
<1>1. /\ pc = "parse" /\ visited = Len(answer.body.members) /\ pc \in CallPc
      /\ UNCHANGED <<client, call, answer, submitted, verdict, request>>
  BY DEF FinishParse, CallPc
<1>2. /\ ParsedSoFar /\ answer.body # None /\ answer.http = call.endpoint.http
      /\ client # None /\ client \in ClientRecord /\ call \in Call /\ status = "OK"
      /\ verdict # None /\ verdict.status = "OK"
      /\ call.error => error = LeftBy(verdict)
      /\ response.value \in [Field -> Value \cup {None}]
      /\ response = [value |-> response.value, has |-> response.has]
  BY <1>1, OwnerAssumption, VerdictAssumption
  DEF CallInv, AnswerSoFar, TypeOK, Running, NoFailureYet, VerdictSoFar, CallPc, ClientRecord
<1>3. {"PARSE", "SCHEMA"} \subseteq Failure \ {"HTTP"}
  BY DEF Failure
<1>4. CASE ~answer.body.complete /\ ParseFails("PARSE")
  BY <1>1, <1>3, <1>4, ParseFailsKeeps DEF Acceptable
<1>5. CASE ~(Required \subseteq Seen) /\ ParseFails("SCHEMA")
  <2>1. PICK f \in Required : f \notin Seen
    BY <1>5
  <2>2. DOMAIN answer.body.members = 1..visited
    BY <1>1, <1>2 DEF ParsedSoFar
  <2>3. ~Acceptable(answer.body)
    BY <2>1, <2>2 DEF Acceptable, Seen
  <2> QED  BY <1>1, <1>3, <1>5, <2>3, ParseFailsKeeps
<1>6. CASE /\ answer.body.complete /\ Required \subseteq Seen
           /\ response' = [response EXCEPT !.has = [f \in Field |-> f \in Seen \ Required]]
           /\ pc' = "cleanup"
           /\ UNCHANGED <<held, visited, status, error>>
  <2>1. response' = [value |-> response.value, has |-> [f \in Field |-> f \in Seen \ Required]]
    BY <1>2, <1>6
  <2>2. Acceptable(answer.body) /\ response' = Decoded(answer.body)
    BY <1>1, <1>2, <1>6, <2>1, DecodedWhole
  <2>3. response'.has \in [Field -> BOOLEAN] /\ response'.value = response.value
    BY <2>1
  <2>4. TypeOK' /\ NothingLeaks'
    BY <1>1, <1>2, <1>6, <2>3 DEF CallInv, TypeOK, NothingLeaks
  <2>5. Running'
    BY <1>1, <1>2, <1>6, <2>1 DEF CallInv, Running, CallPc, CreatePc
  <2>6. RequestSoFar'
    <3>1. Asked' = Asked
      BY <1>1 DEF Asked, UrlOf, AllHeaders, AuthHeaders, KeyHeader, ContentType, AskedBody
    <3> QED  BY <1>1, <1>6, <3>1 DEF CallInv, RequestSoFar, CallPc, CreatePc
  <2>7. NoFailureYet' /\ VerdictSoFar' /\ AnswerSoFar'
    BY <1>6 DEF NoFailureYet, VerdictSoFar, AnswerSoFar, CallPc
  <2>8. ResponseWholeOrBlank' /\ ErrorIsOfThisCall'
    <3>1. Acceptable(answer.body)' /\ Decoded(answer.body)' = Decoded(answer.body)
      BY <1>1, <2>2 DEF Acceptable, Decoded
    <3> QED
      BY <1>1, <1>2, <1>6, <2>2, <3>1 DEF ResponseWholeOrBlank, ErrorIsOfThisCall, LeftBy
  <2> QED  BY <2>4, <2>5, <2>6, <2>7, <2>8 DEF CallInv
<1> QED  BY <1>4, <1>5, <1>6 DEF FinishParse

\* The end of every accepted call.
LEMMA CleanupKeeps == ASSUME CallInv, Cleanup PROVE CallInv'
<1>1. /\ pc = "cleanup" /\ pc' = "idle" /\ held' = held \ CallOwner
      /\ answer' = NoAnswer /\ visited' = 0 /\ call' = None
      /\ UNCHANGED <<client, response, submitted, verdict, status, error>>
      /\ ~alive'
  BY DEF Cleanup, Request!Destroyed, request
<1>2. client # None
  BY <1>1, OwnerAssumption DEF CallInv, Running, CallPc, ClientRecord
<1>3. held' \cap CallOwner = {} /\ held' \cap StringField = held \cap StringField
      /\ held' \subseteq held
  <2>1. StringField \cap CallOwner = {}
    BY OwnerAssumption
  <2> HIDE DEF CallOwner
  <2> QED  BY <1>1, <2>1
<1>4. TypeOK' /\ NothingLeaks'
  BY <1>1, <1>2, <1>3 DEF CallInv, TypeOK, NothingLeaks, NoAnswer
<1>5. Running' /\ RequestSoFar' /\ NoFailureYet' /\ VerdictSoFar'
  BY <1>1, <1>3
  DEF CallInv, Running, RequestSoFar, NoFailureYet, VerdictSoFar, CallPc, CreatePc
<1>6. AnswerSoFar' /\ ResponseWholeOrBlank' /\ ErrorIsOfThisCall'
  BY <1>1 DEF AnswerSoFar, ResponseWholeOrBlank, ErrorIsOfThisCall, CallPc
<1> QED  BY <1>4, <1>5, <1>6 DEF CallInv

\* A step between two calls.
LEMMA IdleStep ==
  ASSUME CallInv, pc = "idle", pc' = "idle",
         UNCHANGED <<call, answer, visited, submitted, verdict, request>>,
         client' \in ClientRecord \cup {None}, response' \in {response, Blank},
         held' \subseteq ClientOwner \cup StringField,
         client' = None => held' \cap ClientOwner = {},
         held' \cap StringField = {f \in StringField : response'.value[f] # None},
         status' \in Failure \cup {"OK"}, error' \in ErrorObject
  PROVE  CallInv'
<1>1. held' \cap CallOwner = {}
  <2>1. StringField \cap CallOwner = {} /\ ClientOwner \cap CallOwner = {}
    BY OwnerAssumption DEF ClientOwner, CallOwner
  <2> HIDE DEF ClientOwner, CallOwner
  <2> QED  BY <2>1
<1>2. TypeOK'
  <2>1. held' \subseteq ClientOwner \cup CallOwner \cup StringField
    OBVIOUS
  <2>2. /\ response'.value \in [Field -> Value \cup {None}]
        /\ response'.has \in [Field -> BOOLEAN]
    <3>1. Blank.value \in [Field -> Value \cup {None}] /\ Blank.has \in [Field -> BOOLEAN]
      BY DEF Blank
    <3> QED  BY <3>1 DEF CallInv, TypeOK
  <2>3. error'.code \in Failure \cup {"OK"} /\ error'.http \in Nat
    BY DEF ErrorObject
  <2> QED  BY <2>1, <2>2, <2>3 DEF CallInv, TypeOK, ClientRecord
<1>3. NothingLeaks'
  BY <1>1 DEF CallInv, NothingLeaks, request
<1>4. Running' /\ RequestSoFar' /\ NoFailureYet' /\ VerdictSoFar'
  BY <1>1
  DEF CallInv, Running, RequestSoFar, NoFailureYet, VerdictSoFar, CallPc, CreatePc, Blank, request
<1>5. AnswerSoFar' /\ ResponseWholeOrBlank' /\ ErrorIsOfThisCall'
  BY DEF CallInv, AnswerSoFar, ResponseWholeOrBlank, ErrorIsOfThisCall, CallPc
<1> QED  BY <1>2, <1>3, <1>4, <1>5 DEF CallInv

\* What the invariant says of the owners between two calls.
LEMMA IdleOwners ==
  ASSUME CallInv, pc \in {"idle"} \cup CreatePc
  PROVE  /\ held \subseteq ClientOwner \cup StringField
         /\ client = None => held \cap ClientOwner = {}
         /\ held \cap StringField = {f \in StringField : response.value[f] # None}
         /\ client \in ClientRecord \cup {None} /\ status \in Failure \cup {"OK"}
         /\ error \in ErrorObject
         /\ StringField \cap ClientOwner = {} /\ StringField \cap CallOwner = {}
         /\ ClientOwner \cap CallOwner = {} /\ CreatePc \subseteq ClientOwner
<1>1. pc \notin CallPc
  BY DEF CallPc, CreatePc
<1>2. /\ held \subseteq ClientOwner \cup CallOwner \cup StringField
      /\ held \cap CallOwner = {}
  BY <1>1 DEF CallInv, TypeOK, Running
<1>3. /\ client = None => held \cap ClientOwner = {}
      /\ held \cap StringField = {f \in StringField : response.value[f] # None}
      /\ client \in ClientRecord \cup {None} /\ status \in Failure \cup {"OK"}
      /\ error \in ErrorObject
  BY DEF CallInv, TypeOK, NothingLeaks, Running, ClientRecord
<1>4. /\ StringField \cap ClientOwner = {} /\ StringField \cap CallOwner = {}
      /\ ClientOwner \cap CallOwner = {} /\ CreatePc \subseteq ClientOwner
  BY OwnerAssumption DEF ClientOwner, CallOwner, CreatePc
<1>5. held \subseteq ClientOwner \cup StringField
  <2> HIDE DEF ClientOwner, CallOwner
  <2> QED  BY <1>2
<1> QED  BY <1>3, <1>4, <1>5

LEMMA DestroyClientKeeps == ASSUME CallInv, DestroyClient PROVE CallInv'
<1>1. /\ pc = "idle" /\ pc' = "idle" /\ client' = None /\ held' = held \ ClientOwner
      /\ UNCHANGED <<call, response, answer, visited, submitted, verdict, status, error,
                     request>>
  BY DEF DestroyClient, DropClient
<1>2. /\ held' \cap StringField = held \cap StringField /\ held' \cap ClientOwner = {}
      /\ held' \subseteq ClientOwner \cup StringField
  <2> HIDE DEF ClientOwner, CallOwner
  <2> QED  BY <1>1, IdleOwners
<1> QED  BY <1>1, <1>2, IdleOwners, IdleStep

LEMMA ResetResponseKeeps == ASSUME CallInv, ResetResponse PROVE CallInv'
<1>1. /\ pc = "idle" /\ pc' = "idle" /\ response' = Blank /\ held' = held \ StringField
      /\ UNCHANGED <<client, call, answer, visited, submitted, verdict, status, error,
                     request>>
  BY DEF ResetResponse, BlankResponse
<1>2. \A f \in StringField : response'.value[f] = None
  BY <1>1, AnswerAssumption DEF Blank
<1>3. /\ held' \cap StringField = {} /\ held' \cap ClientOwner \subseteq held \cap ClientOwner
      /\ held' \subseteq ClientOwner \cup StringField
  <2> HIDE DEF ClientOwner, CallOwner
  <2> QED  BY <1>1, IdleOwners
<1> QED  BY <1>1, <1>2, <1>3, IdleOwners, IdleStep

\* The steps of client_create after its first allocation.
LEMMA CreateStep ==
  ASSUME CallInv, pc \in {"idle"} \cup CreatePc, pc' \in CreatePc,
         UNCHANGED <<call, response, answer, visited, submitted, verdict, error, request>>,
         client' \in ClientRecord, held' \subseteq held \cup ClientOwner, held \subseteq held',
         status' \in Failure \cup {"OK"}
  PROVE  CallInv'
<1>1. pc' # "idle" /\ pc' \notin CallPc /\ pc \notin CallPc /\ client' # None
  BY OwnerAssumption DEF CreatePc, CallPc, ClientRecord
<1>2. /\ held' \cap StringField = held \cap StringField
      /\ held' \subseteq ClientOwner \cup StringField /\ held' \cap CallOwner = {}
  <2> HIDE DEF ClientOwner, CallOwner
  <2> QED  BY IdleOwners
<1>3. TypeOK' /\ NothingLeaks'
  BY <1>1, <1>2 DEF CallInv, TypeOK, NothingLeaks, ClientRecord
<1>4. Running' /\ RequestSoFar' /\ NoFailureYet' /\ VerdictSoFar'
  BY <1>1, <1>2
  DEF CallInv, Running, RequestSoFar, NoFailureYet, VerdictSoFar, CallPc, CreatePc, request
<1>5. AnswerSoFar' /\ ResponseWholeOrBlank' /\ ErrorIsOfThisCall'
  BY <1>1 DEF CallInv, AnswerSoFar, ResponseWholeOrBlank, ErrorIsOfThisCall, CallPc
<1> QED  BY <1>3, <1>4, <1>5 DEF CallInv

LEMMA CreateClientKeeps == ASSUME CallInv, CreateClient PROVE CallInv'
<1>1. /\ pc = "idle" /\ client = None
      /\ UNCHANGED <<call, response, answer, visited, submitted, verdict, error, request>>
      /\ \/ /\ status' \in {"INVALID_ARGUMENT", "AUTH", "OOM"}
            /\ UNCHANGED <<client, pc, held>>
         \/ /\ client' \in ClientRecord /\ held' = held \cup {"client"}
            /\ pc' = "base_url" /\ UNCHANGED status
  BY DEF CreateClient, ClientRecord
<1>2. CASE status' \in {"INVALID_ARGUMENT", "AUTH", "OOM"} /\ UNCHANGED <<client, pc, held>>
  <2>1. status' \in Failure
    BY <1>2 DEF Failure
  <2> QED  BY <1>1, <1>2, <2>1, IdleOwners, IdleStep
<1>3. CASE /\ client' \in ClientRecord /\ held' = held \cup {"client"}
           /\ pc' = "base_url" /\ UNCHANGED status
  <2>1. pc' \in CreatePc /\ "client" \in ClientOwner
    BY <1>3 DEF CreatePc, ClientOwner
  <2> HIDE DEF ClientOwner
  <2> QED  BY <1>1, <1>3, <2>1, IdleOwners, CreateStep
<1> QED  BY <1>1, <1>2, <1>3

\* A client_create that is over: it has a client, or nothing of one.
LEMMA CreateEnds ==
  ASSUME CallInv, pc \in CreatePc, pc' = "idle",
         UNCHANGED <<call, response, answer, visited, submitted, verdict, error, request>>,
         \/ client' = client /\ held' = held \cup {pc}
         \/ client' = None /\ held' = held \ ClientOwner,
         status' \in Failure \cup {"OK"}
  PROVE  CallInv'
<1>1. pc \notin CallPc /\ client \in ClientRecord /\ client # None
  BY OwnerAssumption DEF CreatePc, CallPc, CallInv, Running, ClientRecord
<1>2. /\ held' \cap StringField = held \cap StringField
      /\ held' \subseteq ClientOwner \cup StringField /\ held' \cap CallOwner = {}
      /\ client' = None => held' \cap ClientOwner = {}
      /\ client' \in ClientRecord \cup {None}
  <2> HIDE DEF ClientOwner, CallOwner
  <2> QED  BY <1>1, IdleOwners
<1>3. TypeOK' /\ NothingLeaks'
  BY <1>1, <1>2 DEF CallInv, TypeOK, NothingLeaks, ClientRecord, request, RequestSoFar
<1>4. Running' /\ RequestSoFar' /\ NoFailureYet' /\ VerdictSoFar'
  BY <1>1, <1>2
  DEF CallInv, Running, RequestSoFar, NoFailureYet, VerdictSoFar, CallPc, CreatePc, request
<1>5. AnswerSoFar' /\ ResponseWholeOrBlank' /\ ErrorIsOfThisCall'
  BY <1>1 DEF CallInv, AnswerSoFar, ResponseWholeOrBlank, ErrorIsOfThisCall, CallPc
<1> QED  BY <1>3, <1>4, <1>5 DEF CallInv

LEMMA CopyClientTextKeeps == ASSUME CallInv, CopyClientText PROVE CallInv'
<1>1. /\ pc \in CreatePc /\ pc \in {"idle"} \cup CreatePc
      /\ UNCHANGED <<call, response, answer, visited, submitted, verdict, error, request>>
      /\ \/ /\ held' = held \cup {pc} /\ pc' \in {"api_key", "idle"} /\ status' = "OK"
            /\ UNCHANGED client
         \/ client' = None /\ held' = held \ ClientOwner /\ pc' = "idle" /\ status' = "OOM"
  BY DEF CopyClientText, CreatePc, DropClient
<1>2. status' \in Failure \cup {"OK"}
  BY <1>1 DEF Failure
<1>3. CASE pc' = "idle"
  BY <1>1, <1>2, <1>3, CreateEnds
<1>4. CASE pc' = "api_key"
  <2>1. client \in ClientRecord /\ pc \in ClientOwner /\ pc' \in CreatePc
    BY <1>1, <1>4 DEF CallInv, Running, CreatePc, ClientOwner
  <2> HIDE DEF ClientOwner
  <2> QED  BY <1>1, <1>2, <1>4, <2>1, CreateStep
<1> QED  BY <1>1, <1>3, <1>4

\* The entry of an endpoint function.
LEMMA BeginKeeps == ASSUME CallInv, NEW c \in Call, BeginWith(c) PROVE CallInv'
<1>1. /\ pc = "idle" /\ UNCHANGED <<client, answer, visited, request>>
      /\ pc \notin CallPc
  BY DEF BeginWith, CallPc
<1>2. /\ error \in ErrorObject
      /\ "INVALID_ARGUMENT" \in Failure /\ NoError \in ErrorObject
  BY DEF CallInv, Running, Failure, NoError, ErrorObject
<1>3. CASE /\ status' = "INVALID_ARGUMENT" /\ error' = Reported(c, "INVALID_ARGUMENT")
           /\ UNCHANGED <<call, pc, held, response, submitted, verdict>>
  <2>1. error' \in ErrorObject
    BY <1>2, <1>3 DEF Reported, ErrorObject
  <2> QED  BY <1>1, <1>2, <1>3, <2>1, IdleOwners, IdleStep
<1>4. CASE /\ Accepted(c) /\ call' = c
           /\ error' = IF c.error THEN NoError ELSE error
           /\ BlankResponse /\ submitted' = None /\ verdict' = None
           /\ status' = "OK" /\ pc' = "create"
  <2>1. client \in ClientRecord /\ client # None
    BY <1>1, <1>4, IdleOwners DEF Accepted
  <2>2. response' = Blank /\ held' = held \ StringField
    BY <1>4 DEF BlankResponse
  <2>3. error' \in ErrorObject
    BY <1>2, <1>4
  <2>4. held' \cap StringField = {} /\ held' \subseteq held
        /\ \A f \in StringField : Blank.value[f] = None
    BY <2>2, AnswerAssumption DEF Blank
  <2>5. TypeOK' /\ NothingLeaks'
    BY <1>1, <1>4, <2>1, <2>2, <2>3, <2>4
    DEF CallInv, TypeOK, NothingLeaks, ClientRecord, Blank, ErrorObject
  <2>6. Running' /\ NoFailureYet' /\ VerdictSoFar'
    BY <1>1, <1>4, <2>1, <2>2, <2>3
    DEF Running, NoFailureYet, VerdictSoFar, CallPc, CreatePc, Blank
  <2>7. RequestSoFar' /\ AnswerSoFar'
    BY <1>1, <1>4, <2>2
    DEF CallInv, RequestSoFar, AnswerSoFar, CallPc, CreatePc, request, Blank
  <2>8. ResponseWholeOrBlank' /\ ErrorIsOfThisCall'
    BY <1>4 DEF ResponseWholeOrBlank, ErrorIsOfThisCall
  <2> QED  BY <2>5, <2>6, <2>7, <2>8 DEF CallInv
<1> QED  BY <1>3, <1>4 DEF BeginWith

-----------------------------------------------------------------------------
\* The steps of an endpoint function that is on its way.
CallStep ==
  \/ CreateRequest \/ BuildUrl \/ SetUrl \/ SetMethod \/ Authenticate
  \/ Serialize \/ AddContentType \/ SetBody
  \/ Send \/ CheckStatus \/ VisitMember \/ FinishParse \/ Cleanup

LEMMA CallStepKeeps == ASSUME CallInv, CallStep PROVE CallInv'
  BY CreateRequestKeeps, BuildUrlKeeps, SetUrlKeeps, SetMethodKeeps, AuthenticateKeeps,
     SerializeKeeps, AddContentTypeKeeps, SetBodyKeeps, SendKeeps, CheckStatusKeeps,
     VisitMemberKeeps, FinishParseKeeps, CleanupKeeps
  DEF CallStep

\* Every step of the generated C code keeps the invariant.
THEOREM CallInvNext == CallInv /\ [Next]_vars => CallInv'
<1> SUFFICES ASSUME CallInv, [Next]_vars PROVE CallInv'
  OBVIOUS
<1>1. CASE CreateClient \/ CopyClientText \/ DestroyClient \/ ResetResponse
  BY <1>1, CreateClientKeeps, CopyClientTextKeeps, DestroyClientKeeps, ResetResponseKeeps
<1>2. CASE Begin
  BY <1>2, BeginKeeps DEF Begin
<1>3. CASE CallStep
  BY <1>3, CallStepKeeps
<1>4. CASE UNCHANGED vars
  <2>1. /\ UNCHANGED <<client, call, pc, held, response, answer, visited, submitted, verdict>>
        /\ UNCHANGED <<status, error, alive, method, url, body, headers>>
    BY <1>4 DEF vars, request
  <2>2. UrlOf(call)' = UrlOf(call) /\ AuthHeaders' = AuthHeaders /\ AllHeaders' = AllHeaders
        /\ AskedBody' = AskedBody /\ Asked' = Asked
    BY <2>1 DEF UrlOf, AuthHeaders, AllHeaders, AskedBody, Asked, KeyHeader, ContentType
  <2>3. TypeOK' /\ Running' /\ NothingLeaks'
    BY <2>1 DEF CallInv, TypeOK, Running, NothingLeaks
  <2>4. RequestSoFar' /\ NoFailureYet' /\ VerdictSoFar'
    BY <2>1, <2>2 DEF CallInv, RequestSoFar, NoFailureYet, VerdictSoFar, LeftBy
  <2>5. ParsedSoFar' = ParsedSoFar
    BY <2>1 DEF ParsedSoFar, Seen
  <2>6. AnswerSoFar' /\ ErrorIsOfThisCall'
    BY <2>1, <2>5 DEF CallInv, AnswerSoFar, ErrorIsOfThisCall, LeftBy
  <2>7. /\ Acceptable(answer.body)' = Acceptable(answer.body)
        /\ Decoded(answer.body)' = Decoded(answer.body)
    BY <2>1 DEF Acceptable, Decoded
  <2>8. ResponseWholeOrBlank'
    BY <2>1, <2>7 DEF CallInv, ResponseWholeOrBlank
  <2> QED  BY <2>3, <2>4, <2>6, <2>8 DEF CallInv
<1> QED  BY <1>1, <1>2, <1>3, <1>4 DEF Next, CallStep

\* What a running method needs of the steps of its C function: it runs until its
\* cleanup, with the arguments it was called with.
LEMMA CallStepGoesOn ==
  ASSUME CallStep
  PROVE  Cleanup \/ (pc' \in CallPc /\ call' = call)
<1>1. ASSUME NEW next \in CallPc, Checked(next) PROVE pc' \in CallPc
  BY <1>1 DEF Checked, Fail, CallPc
<1>2. ASSUME NEW code, Fail(code) PROVE pc' \in CallPc
  BY <1>2 DEF Fail, CallPc
<1>3. {"append", "set_url", "set_method", "authenticate", "serialize", "content_type",
       "set_body", "send", "check", "parse", "cleanup"} \subseteq CallPc
  BY DEF CallPc
<1>4. AfterKey \in CallPc /\ (IF call.endpoint.auth THEN "authenticate" ELSE AfterKey) \in CallPc
  BY <1>3 DEF AfterKey
<1>5. CASE CreateRequest \/ SetUrl \/ SetMethod \/ Authenticate \/ AddContentType \/ SetBody
  BY <1>1, <1>3, <1>4, <1>5
  DEF CreateRequest, SetUrl, SetMethod, Authenticate, AddContentType, SetBody
<1>6. CASE BuildUrl \/ Serialize \/ Send
  BY <1>2, <1>3, <1>6 DEF BuildUrl, Serialize, Send
<1>7. CASE CheckStatus
  BY <1>2, <1>3, <1>7 DEF CheckStatus
<1>8. CASE VisitMember
  BY <1>2, <1>3, <1>8 DEF VisitMember, Visit, ParseFails
<1>9. CASE FinishParse
  BY <1>2, <1>3, <1>9 DEF FinishParse, ParseFails
<1> QED  BY <1>5, <1>6, <1>7, <1>8, <1>9 DEF CallStep

\* A response that was decoded from an acceptable body has every required field.
LEMMA RequiredDecoded ==
  ASSUME CallInv, Acceptable(answer.body), NEW f \in Required
  PROVE  Decoded(answer.body).value[f] # None
<1> DEFINE members == answer.body.members
           Members == {i \in DOMAIN members : members[i].key = f}
<1>1. answer \in Answer /\ answer.body # None
  BY DEF CallInv, TypeOK, Acceptable, NoAnswer
<1>2. members \in Seq([key : Field \cup {None}, value : Value \cup {Alien}])
  BY <1>1, AnswerAssumption
<1>3. Members # {}
  BY DEF Acceptable
<1>4. PICK i : i = CHOOSE j \in Members : TRUE
  OBVIOUS
<1>5. i \in DOMAIN members
  BY <1>3, <1>4
<1>6. members[i].value \in Value \cup {Alien}
  <2>1. members[i] \in [key : Field \cup {None}, value : Value \cup {Alien}]
    <3> DEFINE Member == [key : Field \cup {None}, value : Value \cup {Alien}]
    <3>1. members \in Seq(Member) /\ DOMAIN members = 1..Len(members)
      BY <1>2
    <3> HIDE DEF members, Member
    <3>2. members[i] \in Member
      BY <1>5, <3>1
    <3> QED  BY <3>2 DEF Member
  <2> QED  BY <2>1
<1>7. Decoded(answer.body).value[f] = members[i].value
  BY <1>3, <1>4, AnswerAssumption DEF Decoded
<1> QED  BY <1>6, <1>7, AnswerAssumption

-----------------------------------------------------------------------------
\* The handles of the objects, and the clients behind them.
ObjectsOK ==
  /\ handle \in [Object -> Handle \cup {None, "absent"}]
  /\ clients \in [Handle -> ClientRecord \cup {None}]
  /\ HandlesOwned

\* What CppInv says of the client objects, and what is left.
LEMMA CppInvParts ==
  ASSUME CallInv', MethodState', ObjectsOK',
         result'.kind \in {"none", "client", "value", "error", "exception"},
         running' = None =>
           /\ result'.kind \in {"client", "value"} => status' = "OK"
           /\ result'.kind = "value" => \A f \in Required : result'.value[f] # None
           /\ result'.kind = "error" =>
                /\ status' # "OK"
                /\ \/ result'.error.code = status'
                   \/ /\ verdict' # None /\ verdict'.status = status'
                      /\ result'.error = LeftBy(verdict')
  PROVE  CppInv'
  BY DEF CppInv, CallInv, ObjectsOK, CallerLearnsOutcome, LeftBy

LEMMA ObjectsKept == CppInv /\ UNCHANGED objects => ObjectsOK'
  BY DEF CppInv, ObjectsOK, objects, HandlesOwned

LEMMA CppInvInit == CppInit => CppInv
<1> SUFFICES ASSUME CppInit PROVE CppInv
  OBVIOUS
<1>1. CallInv /\ Init
  BY CallInvInit DEF CppInit
<1>2. MethodState
  BY <1>1 DEF MethodState, CppInit, Init
<1>3. handle \in [Object -> Handle \cup {None, "absent"}]
      /\ clients \in [Handle -> ClientRecord \cup {None}]
  BY DEF CppInit
<1>4. HandlesOwned
  BY ObjectAssumption DEF HandlesOwned, CppInit
<1>5. result.kind = "none"
  BY DEF CppInit, NoResult
<1> QED  BY <1>1, <1>2, <1>3, <1>4, <1>5 DEF CppInv, CallInv, CallerLearnsOutcome

\* A program in C: the wrapper is not there.
LEMMA StepInC ==
  ASSUME CppInv, language = "C", Next, UNCHANGED <<objects, running, result, language>>
  PROVE  CppInv'
<1>1. CallInv'
  BY CallInvNext DEF CppInv
<1>2. running = None /\ result = NoResult
  BY DEF CppInv, MethodState
<1>3. running' = None /\ result' = NoResult /\ NoResult.kind = "none"
  BY <1>2 DEF NoResult
<1>4. MethodState'
  BY <1>3 DEF MethodState
<1> QED  BY <1>1, <1>3, <1>4, ObjectsKept, CppInvParts

-----------------------------------------------------------------------------
\* client::create, up to its return.
LEMMA CreateKeeps ==
  ASSUME CppInv, language = "C++", Create, UNCHANGED language PROVE CppInv'
<1>1. /\ running = None /\ CreateClient /\ UNCHANGED <<objects, result>>
      /\ pc = "idle" /\ client = None
  BY DEF Create, CreateClient
<1>2. PICK o \in Object : ~Alive(o) /\ running' = [method |-> "create", object |-> o]
  BY DEF Create
<1>3. CallInv'
  BY <1>1, CreateClientKeeps DEF CppInv
<1>4. running' # None /\ running'.method = "create" /\ running'.object = o
      /\ running' \in [method : {"create", "entered", "endpoint"}, object : Object]
  BY <1>2, ObjectAssumption
<1>5. held = {} /\ response = Blank /\ error = NoError
  BY <1>1 DEF CppInv, MethodState
<1>6. /\ UNCHANGED <<response, error>>
      /\ \/ status' # "OK" /\ UNCHANGED <<client, pc, held>>
         \/ held' = held \cup {"client"} /\ pc' = "base_url"
  BY <1>1 DEF CreateClient
<1>7. held' \subseteq ClientOwner /\ pc' \in {"idle"} \cup CreatePc
      /\ (pc' = "idle" => (status' = "OK" <=> client' # None))
  BY <1>1, <1>5, <1>6 DEF ClientOwner, CreatePc
<1>8. handle'[o] = "absent"
  BY <1>1, <1>2 DEF Alive, objects
<1>9. MethodState'
  BY <1>4, <1>5, <1>6, <1>7, <1>8 DEF MethodState
<1>10. result'.kind \in {"none", "client", "value", "error", "exception"}
  BY <1>1 DEF CppInv
<1> QED  BY <1>1, <1>3, <1>4, <1>9, <1>10, ObjectsKept, CppInvParts

LEMMA CreateGoesOnKeeps ==
  ASSUME CppInv, language = "C++", CreateGoesOn, UNCHANGED language PROVE CppInv'
<1>1. /\ running # None /\ running.method = "create" /\ pc \in CreatePc
      /\ CopyClientText /\ UNCHANGED <<objects, running, result>>
  BY DEF CreateGoesOn, CopyClientText, CreatePc
<1>2. CallInv'
  BY <1>1, CopyClientTextKeeps DEF CppInv
<1>3. /\ client \in ClientRecord /\ client # None /\ CreatePc \subseteq ClientOwner
      /\ response = Blank /\ error = NoError /\ held \subseteq ClientOwner
      /\ handle[running.object] = "absent"
      /\ running \in [method : {"create", "entered", "endpoint"}, object : Object]
  BY <1>1, OwnerAssumption
  DEF CppInv, CallInv, Running, MethodState, ClientRecord, CreatePc, ClientOwner
<1>4. /\ UNCHANGED <<response, error>>
      /\ \/ /\ held' = held \cup {pc} /\ pc' \in {"idle", "api_key"} /\ status' = "OK"
            /\ client' = client
         \/ client' = None /\ held' = held \ ClientOwner /\ pc' = "idle" /\ status' = "OOM"
  BY <1>1 DEF CopyClientText, DropClient
<1>5. held' \subseteq ClientOwner
  <2> HIDE DEF ClientOwner
  <2> QED  BY <1>1, <1>3, <1>4
<1>6. pc' \in {"idle"} \cup CreatePc /\ (pc' = "idle" => (status' = "OK" <=> client' # None))
  BY <1>3, <1>4 DEF CreatePc
<1>7. MethodState'
  BY <1>1, <1>3, <1>4, <1>5, <1>6 DEF MethodState, objects
<1>8. result'.kind \in {"none", "client", "value", "error", "exception"}
  BY <1>1 DEF CppInv
<1> QED  BY <1>1, <1>2, <1>7, <1>8, ObjectsKept, CppInvParts

\* The return of client::create: a new client behind an address of none.
LEMMA ObjectGetsHandle ==
  ASSUME ObjectsOK, NEW o \in Object, handle[o] = "absent",
         NEW h \in Handle, clients[h] = None, client \in ClientRecord, client # None,
         clients' = [clients EXCEPT ![h] = client], handle' = [handle EXCEPT ![o] = h]
  PROVE  ObjectsOK'
<1>1. handle' \in [Object -> Handle \cup {None, "absent"}]
      /\ clients' \in [Handle -> ClientRecord \cup {None}]
  BY DEF ObjectsOK
<1>2. /\ \A p \in Object : handle'[p] = IF p = o THEN h ELSE handle[p]
      /\ \A k \in Handle : clients'[k] = IF k = h THEN client ELSE clients[k]
  BY DEF ObjectsOK
<1>3. ASSUME NEW k \in Handle, clients'[k] # None PROVE \E p \in Object : handle'[p] = k
  <2>1. CASE k = h
    BY <1>2, <2>1
  <2>2. CASE k # h
    <3>1. PICK p \in Object : handle[p] = k
      BY <1>2, <1>3, <2>2 DEF ObjectsOK, HandlesOwned
    <3>2. p # o
      BY <3>1, ObjectAssumption
    <3> QED  BY <1>2, <3>1, <3>2
  <2> QED  BY <2>1, <2>2
<1>4. ASSUME NEW p \in Object, handle'[p] \in Handle PROVE clients'[handle'[p]] # None
  BY <1>2, <1>4 DEF ObjectsOK, HandlesOwned
<1>5. ASSUME NEW p \in Object, NEW q \in Object, handle'[p] = handle'[q], handle'[p] \in Handle
      PROVE  p = q
  <2>1. \A r \in Object : handle[r] # h
    BY DEF ObjectsOK, HandlesOwned
  <2> QED  BY <1>2, <1>5, <2>1 DEF ObjectsOK, HandlesOwned
<1> QED  BY <1>1, <1>3, <1>4, <1>5 DEF ObjectsOK, HandlesOwned

\* A method returns with nothing left that its C function filled in.
LEMMA MethodReturns ==
  ASSUME CppInv, language = "C++", pc = "idle", client' = None, held' = {}, response' = Blank,
         error' = NoError, running' = None,
         UNCHANGED <<call, pc, answer, visited, submitted, verdict, status, request, language>>
  PROVE  CallInv' /\ MethodState'
<1>1. NoError \in ErrorObject
  BY DEF NoError, ErrorObject
<1>2. status' \in Failure \cup {"OK"}
  BY DEF CppInv, CallInv, TypeOK
<1>3. held' \cap StringField = {f \in StringField : response'.value[f] # None}
  BY AnswerAssumption DEF Blank
<1>4. held' \subseteq ClientOwner \cup StringField /\ held' \cap ClientOwner = {}
  <2> HIDE DEF ClientOwner
  <2> QED  OBVIOUS
<1>5. CallInv /\ pc' = "idle" /\ client' \in ClientRecord \cup {None}
      /\ response' \in {response, Blank} /\ error' \in ErrorObject
  BY <1>1 DEF CppInv
<1>6. CallInv'
  BY <1>2, <1>3, <1>4, <1>5, IdleStep
<1>7. MethodState'
  BY DEF MethodState
<1> QED  BY <1>6, <1>7

LEMMA CreateReturnsKeeps ==
  ASSUME CppInv, language = "C++", CreateReturns, UNCHANGED language PROVE CppInv'
<1>1. /\ running # None /\ running.method = "create" /\ pc = "idle" /\ running' = None
      /\ UNCHANGED <<call, pc, response, answer, visited, submitted, verdict, status, error,
                     request>>
  BY DEF CreateReturns
<1>2. /\ response = Blank /\ error = NoError /\ held \subseteq ClientOwner
      /\ handle[running.object] = "absent" /\ running.object \in Object
      /\ status = "OK" <=> client # None
  BY <1>1 DEF CppInv, MethodState
<1>3. client \in ClientRecord \cup {None} /\ (client = None => held \cap ClientOwner = {})
  BY <1>1, IdleOwners DEF CppInv
<1>4. CASE /\ status = "OK"
           /\ \E h \in Handle :
                /\ clients[h] = None
                /\ clients' = [clients EXCEPT ![h] = client]
                /\ handle' = [handle EXCEPT ![running.object] = h]
           /\ client' = None /\ held' = held \ ClientOwner
           /\ result' = [kind |-> "client"]
  <2>1. ObjectsOK'
    <3>1. PICK h \in Handle : /\ clients[h] = None
                              /\ clients' = [clients EXCEPT ![h] = client]
                              /\ handle' = [handle EXCEPT ![running.object] = h]
      BY <1>4
    <3>2. PICK o \in Object : o = running.object
      BY <1>2
    <3>3. ObjectsOK /\ client \in ClientRecord /\ client # None
      BY <1>2, <1>3, <1>4 DEF CppInv, ObjectsOK
    <3> QED  BY <1>2, <3>1, <3>2, <3>3, ObjectGetsHandle
  <2>2. held' = {}
    <3> HIDE DEF ClientOwner
    <3> QED  BY <1>2, <1>4
  <2>3. CallInv' /\ MethodState'
    BY <1>1, <1>2, <1>4, <2>2, MethodReturns
  <2> QED  BY <1>1, <1>4, <2>1, <2>3, CppInvParts
<1>5. CASE /\ status # "OK"
           /\ result' \in CopiedError([code |-> status, http |-> 0])
           /\ UNCHANGED <<objects, client, held>>
  <2>1. client' = None
    BY <1>2, <1>5
  <2>2. held' = {}
    <3> HIDE DEF ClientOwner
    <3> QED  BY <1>2, <1>3, <1>5
  <2>3. CallInv' /\ MethodState'
    BY <1>1, <1>2, <2>1, <2>2, MethodReturns
  <2>4. \/ result' = [kind |-> "error", error |-> [code |-> status, http |-> 0]]
        \/ result' = [kind |-> "exception"]
    BY <1>5 DEF CopiedError
  <2>5. ObjectsOK'
    BY <1>5, ObjectsKept
  <2> QED  BY <1>1, <1>5, <2>3, <2>4, <2>5, CppInvParts
<1> QED  BY <1>4, <1>5 DEF CreateReturns


\* Objects are moved, and C clients destroyed with the object they belong to.
LEMMA ObjectMoves ==
  ASSUME ObjectsOK, NEW o \in Object, NEW other \in Object, o # other,
         handle[other] # "absent",
         clients' = Destroyed(handle[o]),
         handle' = [handle EXCEPT ![o] = handle[other], ![other] = None]
  PROVE  ObjectsOK'
<1>1. handle' \in [Object -> Handle \cup {None, "absent"}]
      /\ clients' \in [Handle -> ClientRecord \cup {None}]
  BY DEF ObjectsOK, Destroyed
<1>2. \A p \in Object :
        handle'[p] = IF p = other THEN None ELSE IF p = o THEN handle[other] ELSE handle[p]
  BY DEF ObjectsOK
<1>3. \A k \in Handle : clients'[k] = IF k = handle[o] THEN None ELSE clients[k]
  BY DEF ObjectsOK, Destroyed
<1>4. ASSUME NEW k \in Handle, clients'[k] # None PROVE \E p \in Object : handle'[p] = k
  <2>1. PICK p \in Object : handle[p] = k /\ p # o
    BY <1>3, <1>4 DEF ObjectsOK, HandlesOwned
  <2>2. CASE p = other
    BY <1>2, <2>1, <2>2
  <2>3. CASE p # other
    BY <1>2, <2>1, <2>3
  <2> QED  BY <2>2, <2>3
<1>5. ASSUME NEW p \in Object, handle'[p] \in Handle PROVE clients'[handle'[p]] # None
  <2>1. p # other
    BY <1>2, <1>5, ObjectAssumption
  <2>2. PICK q \in Object : q # o /\ handle'[p] = handle[q]
    BY <1>2, <2>1
  <2>3. clients[handle[q]] # None /\ handle[q] # handle[o]
    BY <1>5, <2>2 DEF ObjectsOK, HandlesOwned
  <2> QED  BY <1>3, <1>5, <2>2, <2>3
<1>6. ASSUME NEW p \in Object, NEW q \in Object, handle'[p] = handle'[q], handle'[p] \in Handle
      PROVE  p = q
  <2>1. p # other /\ q # other
    BY <1>2, <1>6, ObjectAssumption
  <2> QED  BY <1>2, <1>6, <2>1 DEF ObjectsOK, HandlesOwned
<1> QED  BY <1>1, <1>4, <1>5, <1>6 DEF ObjectsOK, HandlesOwned

LEMMA ObjectGoes ==
  ASSUME ObjectsOK, NEW o \in Object, clients' = Destroyed(handle[o]),
         handle' = [handle EXCEPT ![o] = "absent"]
  PROVE  ObjectsOK'
<1>1. handle' \in [Object -> Handle \cup {None, "absent"}]
      /\ clients' \in [Handle -> ClientRecord \cup {None}]
  BY DEF ObjectsOK, Destroyed
<1>2. /\ \A p \in Object : handle'[p] = IF p = o THEN "absent" ELSE handle[p]
      /\ \A k \in Handle : clients'[k] = IF k = handle[o] THEN None ELSE clients[k]
  BY DEF ObjectsOK, Destroyed
<1>3. ASSUME NEW k \in Handle, clients'[k] # None PROVE \E p \in Object : handle'[p] = k
  BY <1>2, <1>3 DEF ObjectsOK, HandlesOwned
<1>4. ASSUME NEW p \in Object, handle'[p] \in Handle PROVE clients'[handle'[p]] # None
  BY <1>2, <1>4, ObjectAssumption DEF ObjectsOK, HandlesOwned
<1>5. ASSUME NEW p \in Object, NEW q \in Object, handle'[p] = handle'[q], handle'[p] \in Handle
      PROVE  p = q
  BY <1>2, <1>5, ObjectAssumption DEF ObjectsOK, HandlesOwned
<1> QED  BY <1>1, <1>3, <1>4, <1>5 DEF ObjectsOK, HandlesOwned

\* No C function runs: only the objects change.
LEMMA ObjectStep ==
  ASSUME CppInv, running = None, ObjectsOK', UNCHANGED <<vars, language, running, result>>
  PROVE  CppInv'
<1>1. CallInv'
  BY CallInvNext DEF CppInv
<1>2. UNCHANGED <<client, pc, held, response, verdict, status, error>>
  BY DEF vars
<1>3. MethodState'
  BY <1>2 DEF CppInv, MethodState
<1> QED  BY <1>1, <1>2, <1>3, CppInvParts DEF CppInv, CallerLearnsOutcome

LEMMA ObjectsKeep ==
  ASSUME CppInv, MoveConstruct \/ MoveAssign \/ DestroyObject, UNCHANGED language
  PROVE  CppInv'
<1>1. ObjectsOK /\ running = None /\ UNCHANGED <<vars, running, result>>
  BY DEF CppInv, ObjectsOK, MoveConstruct, MoveAssign, DestroyObject
<1>2. CASE MoveConstruct
  <2>1. PICK o \in Object, other \in Object :
          /\ handle[o] = "absent" /\ handle[other] # "absent"
          /\ handle' = [handle EXCEPT ![o] = handle[other], ![other] = None]
          /\ clients' = clients
    BY <1>2 DEF MoveConstruct, Alive
  <2>2. o # other /\ clients' = Destroyed(handle[o])
    BY <2>1, ObjectAssumption DEF Destroyed
  <2>3. ObjectsOK'
    BY <1>1, <2>1, <2>2, ObjectMoves
  <2> QED  BY <1>1, <2>3, ObjectStep
<1>3. CASE MoveAssign
  <2>1. PICK o \in Object, other \in Object :
          /\ handle[other] # "absent"
          /\ \/ o = other /\ UNCHANGED objects
             \/ /\ o # other
                /\ clients' = Destroyed(handle[o])
                /\ handle' = [handle EXCEPT ![o] = handle[other], ![other] = None]
    BY <1>3 DEF MoveAssign, Alive
  <2>2. CASE UNCHANGED objects
    BY <1>1, <2>2, ObjectsKept, ObjectStep
  <2>3. CASE /\ o # other
             /\ clients' = Destroyed(handle[o])
             /\ handle' = [handle EXCEPT ![o] = handle[other], ![other] = None]
    BY <1>1, <2>1, <2>3, ObjectMoves, ObjectStep
  <2> QED  BY <2>1, <2>2, <2>3
<1>4. CASE DestroyObject
  <2>1. PICK o \in Object : /\ clients' = Destroyed(handle[o])
                            /\ handle' = [handle EXCEPT ![o] = "absent"]
    BY <1>4 DEF DestroyObject
  <2> QED  BY <1>1, <2>1, ObjectGoes, ObjectStep
<1> QED  BY <1>2, <1>3, <1>4

-----------------------------------------------------------------------------
\* An endpoint method finds the client behind its object, or none.
LEMMA EnterKeeps ==
  ASSUME CppInv, language = "C++", Enter, UNCHANGED language PROVE CppInv'
<1>1. /\ running = None
      /\ UNCHANGED <<call, pc, response, answer, visited, submitted, verdict, status, error,
                     request, objects, result>>
      /\ held' = IF client' = None THEN held
                 ELSE held \cup {"client", "base_url"}
                           \cup (IF Authenticated THEN {"api_key"} ELSE {})
  BY DEF Enter
<1>2. PICK o \in Object :
        /\ client' = IF handle[o] \in Handle THEN clients[handle[o]] ELSE None
        /\ running' = [method |-> "entered", object |-> o]
  BY DEF Enter
<1>3. pc = "idle" /\ client = None /\ held = {} /\ response = Blank /\ error = NoError
  BY <1>1 DEF CppInv, MethodState
<1>4. client' \in ClientRecord \cup {None}
  BY <1>2 DEF CppInv
<1>5. held' \subseteq ClientOwner /\ (client' = None => held' = {})
  BY <1>1, <1>3 DEF ClientOwner
<1>6. CallInv'
  <2>1. /\ held' \subseteq ClientOwner \cup StringField
        /\ client' = None => held' \cap ClientOwner = {}
        /\ held' \cap StringField = {}
    <3>1. StringField \cap ClientOwner = {}
      BY OwnerAssumption
    <3> HIDE DEF ClientOwner
    <3> QED  BY <1>5, <3>1
  <2>2. \A f \in StringField : response'.value[f] = None
    BY <1>1, <1>3, AnswerAssumption DEF Blank
  <2>3. status' \in Failure \cup {"OK"} /\ error' \in ErrorObject
        /\ CallInv
    BY <1>1 DEF CppInv, CallInv, TypeOK, Running
  <2>4. held' \cap StringField = {f \in StringField : response'.value[f] # None}
    BY <2>1, <2>2
  <2> QED  BY <1>1, <1>3, <1>4, <2>1, <2>3, <2>4, IdleStep
<1>7. running' # None /\ running'.method = "entered"
      /\ running' \in [method : {"create", "entered", "endpoint"}, object : Object]
  BY <1>2, ObjectAssumption
<1>8. MethodState'
  BY <1>1, <1>3, <1>5, <1>7 DEF MethodState
<1>9. result'.kind \in {"none", "client", "value", "error", "exception"}
  BY <1>1 DEF CppInv
<1> QED  BY <1>1, <1>6, <1>7, <1>8, <1>9, ObjectsKept, CppInvParts

\* The call of the C function, which it refuses or begins.
LEMMA CallCKeeps ==
  ASSUME CppInv, language = "C++", CallC, UNCHANGED language PROVE CppInv'
<1>1. /\ running # None /\ running.method = "entered"
      /\ running' = [running EXCEPT !.method = "endpoint"]
      /\ UNCHANGED <<objects, result>>
  BY DEF CallC
<1>2. PICK c \in CppCall : BeginWith(c)
  BY DEF CallC
<1>3. c \in Call /\ c.error
  BY DEF CppCall
<1>4. CallInv'
  BY <1>2, <1>3, BeginKeeps DEF CppInv
<1>5. running' # None /\ running'.method = "endpoint"
      /\ running' \in [method : {"create", "entered", "endpoint"}, object : Object]
  BY <1>1, ObjectAssumption DEF CppInv, MethodState
<1>6. ASSUME status' = "INVALID_ARGUMENT", error' = Reported(c, "INVALID_ARGUMENT"), pc' = pc
      PROVE  MethodState'
  <2>1. pc' = "idle" /\ pc' \notin CallPc
    BY <1>2, <1>6 DEF BeginWith, CallPc
  <2>2. error'.code = "INVALID_ARGUMENT"
    BY <1>3, <1>6 DEF Reported
  <2> QED  BY <1>5, <1>6, <2>1, <2>2 DEF MethodState
<1>7. ASSUME call' = c, pc' = "create" PROVE MethodState'
  <2>1. pc' \in CallPc /\ pc' # "idle"
    BY <1>7 DEF CallPc
  <2> QED  BY <1>3, <1>5, <1>7, <2>1 DEF MethodState
<1>8. MethodState'
  BY <1>2, <1>6, <1>7 DEF BeginWith
<1>9. result'.kind \in {"none", "client", "value", "error", "exception"}
  BY <1>1 DEF CppInv
<1> QED  BY <1>1, <1>4, <1>5, <1>8, <1>9, ObjectsKept, CppInvParts


\* The C function on its way: when it ends, it has decoded what the method copies
\* or reported what the method reports.
LEMMA CallGoesOnKeeps ==
  ASSUME CppInv, language = "C++", CallGoesOn, UNCHANGED language PROVE CppInv'
<1>1. /\ running # None /\ running.method = "endpoint" /\ pc # "idle"
      /\ CallStep /\ UNCHANGED <<objects, running, result>>
  BY DEF CallGoesOn, CallStep
<1>2. CallInv'
  BY <1>1, CallStepKeeps DEF CppInv
<1>3. pc \in CallPc /\ call.error
      /\ running \in [method : {"create", "entered", "endpoint"}, object : Object]
  BY <1>1 DEF CppInv, MethodState
<1>4. ASSUME pc' \in CallPc, call' = call PROVE MethodState'
  <2>1. pc' # "idle"
    BY <1>4 DEF CallPc
  <2> QED  BY <1>1, <1>3, <1>4, <2>1 DEF MethodState
<1>5. ASSUME Cleanup PROVE MethodState'
  <2>1. pc = "cleanup" /\ pc' = "idle" /\ UNCHANGED <<response, status, error>>
    BY <1>5 DEF Cleanup
  <2>2. pc' \notin CallPc
    BY <2>1 DEF CallPc
  <2>3. ASSUME status = "OK", NEW f \in Required PROVE response.value[f] # None
    <3>1. Acceptable(answer.body) /\ response = Decoded(answer.body)
      BY <2>1, <2>3 DEF CppInv, CallInv, ResponseWholeOrBlank
    <3> QED  BY <3>1, RequiredDecoded DEF CppInv
  <2>4. status # "OK" => error.code = status \/ TransportsOwn(error)
    BY <1>3, <2>1 DEF CppInv, CallInv, ErrorIsOfThisCall, TransportsOwn
  <2>5. TransportsOwn(error)' = TransportsOwn(error)
    BY <2>1, <1>5 DEF Cleanup, TransportsOwn, LeftBy
  <2> QED  BY <1>1, <1>3, <2>1, <2>2, <2>3, <2>4, <2>5 DEF MethodState
<1>6. MethodState'
  BY <1>1, <1>4, <1>5, CallStepGoesOn
<1>7. result'.kind \in {"none", "client", "value", "error", "exception"}
  BY <1>1 DEF CppInv
<1> QED  BY <1>1, <1>2, <1>6, <1>7, ObjectsKept, CppInvParts

\* The end of an endpoint method, with its result or an exception.
LEMMA CallReturnsKeeps ==
  ASSUME CppInv, language = "C++", CallReturns, UNCHANGED language PROVE CppInv'
<1>1. /\ running # None /\ running.method = "endpoint" /\ pc = "idle" /\ running' = None
      /\ result' \in Outcome /\ error' = NoError /\ client' = None /\ response' = Blank
      /\ held' = held \ (ClientOwner \cup StringField)
      /\ UNCHANGED <<call, pc, answer, visited, submitted, verdict, status, request, objects>>
  BY DEF CallReturns, Released
<1>2. held' = {}
  <2>1. held \subseteq ClientOwner \cup StringField
    BY <1>1, IdleOwners DEF CppInv
  <2> HIDE DEF ClientOwner
  <2> QED  BY <1>1, <2>1
<1>3. CallInv' /\ MethodState'
  BY <1>1, <1>2, MethodReturns
<1>4. CASE status = "OK"
  <2>1. \A f \in Required : response.value[f] # None
    BY <1>1, <1>4 DEF CppInv, MethodState
  <2>2. \/ result' = [kind |-> "exception"]
        \/ result' = [kind  |-> "value",
                      value |-> [f \in Field |-> IF f \in Required \/ response.has[f]
                                                 THEN response.value[f] ELSE None]]
    BY <1>1, <1>4 DEF Outcome, FromC
  <2>3. /\ result'.kind \in {"value", "exception"}
        /\ result'.kind = "value" => \A f \in Required : result'.value[f] # None
    BY <2>1, <2>2, AnswerAssumption
  <2> QED  BY <1>1, <1>3, <1>4, <2>3, ObjectsKept, CppInvParts
<1>5. CASE status # "OK"
  <2>1. error.code = status \/ TransportsOwn(error)
    BY <1>1, <1>5 DEF CppInv, MethodState
  <2>2. \/ result' = [kind |-> "exception"]
        \/ result' = [kind |-> "error", error |-> error]
    BY <1>1, <1>5 DEF Outcome, CopiedError
  <2> QED
    BY <1>1, <1>3, <1>5, <2>1, <2>2, ObjectsKept, CppInvParts DEF TransportsOwn
<1> QED  BY <1>4, <1>5

-----------------------------------------------------------------------------
\* Every step of the generated C code and of its wrapper keeps the invariant.
THEOREM CppInvNext == CppInv /\ [CppNext]_cppVars => CppInv'
<1> SUFFICES ASSUME CppInv, [CppNext]_cppVars PROVE CppInv'
  OBVIOUS
<1>1. CASE language = "C" /\ Next /\ UNCHANGED <<objects, running, result, language>>
  BY <1>1, StepInC
<1>2. CASE /\ language = "C++" /\ UNCHANGED language
           /\ \/ Create \/ CreateGoesOn \/ CreateReturns
              \/ MoveConstruct \/ MoveAssign \/ DestroyObject
              \/ Enter \/ CallC \/ CallGoesOn \/ CallReturns
  <2>1. CASE Create \/ CreateGoesOn \/ CreateReturns
    BY <1>2, <2>1, CreateKeeps, CreateGoesOnKeeps, CreateReturnsKeeps
  <2>2. CASE MoveConstruct \/ MoveAssign \/ DestroyObject
    BY <1>2, <2>2, ObjectsKeep
  <2>3. CASE Enter \/ CallC \/ CallGoesOn \/ CallReturns
    BY <1>2, <2>3, EnterKeeps, CallCKeeps, CallGoesOnKeeps, CallReturnsKeeps
  <2> QED  BY <1>2, <2>1, <2>2, <2>3
<1>3. CASE UNCHANGED cppVars
  <2>1. UNCHANGED vars /\ UNCHANGED <<objects, language, running, result>>
    BY <1>3 DEF cppVars, objects
  <2>2. CallInv'
    BY <2>1, CallInvNext DEF CppInv
  <2>3. MethodState'
    BY <2>1 DEF CppInv, MethodState, TransportsOwn, LeftBy, vars, objects
  <2>4. UNCHANGED <<status, verdict>>
    BY <2>1 DEF vars
  <2> QED
    BY <2>1, <2>2, <2>3, <2>4, ObjectsKept, CppInvParts DEF CppInv, CallerLearnsOutcome
<1> QED  BY <1>1, <1>2, <1>3 DEF CppNext

THEOREM CppInvAlways == CppSpec => []CppInv
  BY CppInvInit, CppInvNext, PTL DEF CppSpec

\* Every variable of the C code and of the wrapper keeps its type.
THEOREM CppTypeCorrect == CppSpec => []CppTypeOK
<1>1. CppInv => CppTypeOK
  <2> SUFFICES ASSUME CppInv PROVE CppTypeOK
    OBVIOUS
  <2>1. \A h \in Handle : clients[h] # None => clients[h].vtable \in {"full", "short"}
    BY DEF CppInv, ClientRecord
  <2> QED  BY <2>1 DEF CppInv, CallInv, MethodState, CppTypeOK
<1> QED  BY <1>1, CppInvAlways, PTL

\* No client object refers to a client that was destroyed, no client is without
\* its object, and none has two, whatever is moved, assigned, destroyed or thrown.
THEOREM HandlesAlwaysOwned == CppSpec => []HandlesOwned
<1>1. CppInv => HandlesOwned
  BY DEF CppInv
<1> QED  BY <1>1, CppInvAlways, PTL

\* No path of the generated C code leaks, and no method of the wrapper leaves
\* behind anything that the C function filled in, also when a copy throws.
THEOREM NothingEverLeft == CppSpec => []NothingLeft
<1>1. CppInv => NothingLeft
  BY DEF CppInv, CallInv, MethodState, NothingLeft, NothingLeaks, RequestSoFar
<1> QED  BY <1>1, CppInvAlways, PTL

\* The caller of the C function or of the method learns how the call ended.
THEOREM OutcomeLearned == CppSpec => []CallerLearnsOutcome
<1>1. CppInv => CallerLearnsOutcome
  BY DEF CppInv
<1> QED  BY <1>1, CppInvAlways, PTL

\* An accepted call hands out all of an acceptable answer, or nothing.
THEOREM ResponseExact == CppSpec => []ResponseWholeOrBlank
<1>1. CppInv => ResponseWholeOrBlank
  BY DEF CppInv, CallInv
<1> QED  BY <1>1, CppInvAlways, PTL

\* What the transport is given is what the caller asked for, whole.
THEOREM SubmittedExactly == CppSpec => []SubmittedAsAsked
<1>1. CppInv => SubmittedAsAsked
  <2> SUFFICES ASSUME CppInv, call # None, submitted # None PROVE submitted = Asked
    BY DEF SubmittedAsAsked, Asked, AllHeaders, AuthHeaders, AskedBody
  <2>1. pc \in CallPc
    BY DEF CppInv, CallInv, Running
  <2> QED  BY <2>1 DEF CppInv, CallInv, RequestSoFar
<1> QED  BY <1>1, CppInvAlways, PTL

=============================================================================
