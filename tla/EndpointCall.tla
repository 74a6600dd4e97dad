---------------------------- MODULE EndpointCall ----------------------------
(***************************************************************************)
(* A generated client and one running endpoint call, as the C backend      *)
(* (compiler/backend/c/generator.cpp) emits them: client_create, the       *)
(* endpoint function with its single cleanup, the response parser, and the *)
(* reset of the caller's response.  Every runtime call in them may fail.   *)
(*                                                                         *)
(* The request builder is used through its contract: the actions of        *)
(* RequestContract are the steps that the endpoint function makes it take. *)
(* The transport belongs to the embedding program: it is handed the error  *)
(* object of the caller, and its status comes back as it is.  It may       *)
(* answer anything, return any status and leave anything in that object,   *)
(* whether the two agree or not.                                           *)
(***************************************************************************)
EXTENDS Naturals, Sequences

CONSTANTS
  Endpoint,    \* the operations: [method, auth, body, http]
  Field,       \* fields of the response model
  Required,    \* those it must have
  StringField, \* those whose value is an owned string
  Value,       \* values of the right kind
  Alien,       \* a JSON value of another kind, or out of the integers' range
  Answer,      \* what the transport may fill in: [http, body]
  Verdict,     \* how it may end: [status, error], error None if left alone
  None         \* no client, call, argument, body, value

ASSUME EndpointAssumption ==
  \A e \in Endpoint :
    /\ e.auth \in BOOLEAN
    /\ e.body \in {"none", "optional", "required"}
    /\ e.http \in Nat \ {0}

\* A body is the members of its object, and whether the text goes on to be one.
ASSUME AnswerAssumption ==
  /\ Required \subseteq Field /\ StringField \subseteq Field
  /\ Alien \notin Value /\ None \notin Field \cup Value \cup {Alien}
  /\ \A a \in Answer :
       /\ a.http \in Nat
       /\ a.body # None => /\ a.body.members \in Seq([key : Field \cup {None},
                                                      value : Value \cup {Alien}])
                           /\ a.body.complete \in BOOLEAN

\* sdkcc_status_t, and the error object as far as anybody reads it.
Failure == {"INVALID_ARGUMENT", "OOM", "OVERFLOW", "NETWORK", "DNS", "TLS", "TIMEOUT",
            "CANCELLED", "HTTP", "AUTH", "RATE_LIMIT", "SERIALIZE", "PARSE", "SCHEMA",
            "INTERNAL", "TEST_MISMATCH"}
ErrorObject == [code : Failure \cup {"OK"}, http : Nat]

ASSUME VerdictAssumption ==
  /\ None \notin Verdict \cup ErrorObject
  /\ \A v \in Verdict : v.status \in Failure \cup {"OK"} /\ v.error \in ErrorObject \cup {None}

VARIABLES
  client,     \* the API key and the transport vtable of the client, or None
  call,       \* the arguments of the running call, or None
  pc,         \* the next step of the running function, or "idle"
  held,       \* what holds memory: of the client, the call, the response
  response,   \* the caller's response: its values and has_ flags
  answer,     \* the transport's response
  visited,    \* members of it that the parser has visited
  submitted,  \* the request that the last call gave the transport, or None
  verdict,    \* how the transport ended that call, or None
  status,     \* what the last function returned, or is about to
  error,      \* the caller's error object
  alive, method, url, body, headers, reply   \* the request and its last answer

request == <<alive, method, url, body, headers, reply>>
vars == <<client, call, pc, held, response, answer, visited, submitted, verdict,
          status, error, request>>

-----------------------------------------------------------------------------
\* A text of the request is the sequence of the parts it was made of.
EmptyText == <<>>
KeyHeader(key) == [name |-> <<"X-API-Key">>, value |-> <<key>>]
ContentType == [name |-> <<"Content-Type">>, value |-> <<"application/json">>]

\* emit_path and emit_query: the base URL, the path with its parameter, and the
\* query when the caller has one.
UrlOf(c) == <<"base", c.id>> \o (IF c.query = None THEN <<>> ELSE <<c.query>>)

\* The key may hold a byte that no header may; a document may hold a string that
\* is not UTF-8; the view of a parameter may be null although it has a length.
Key == {"key", "bad key"}
Call ==
  {c \in [endpoint : Endpoint, valid : BOOLEAN, id : {"id", "null"},
          query : {"query", None}, document : {"document", "bad document", None},
          error : BOOLEAN] :
     c.document # None => c.endpoint.body # "none"}

Text ==
  {EmptyText, <<"document">>} \cup {UrlOf(c) : c \in Call}
    \cup {<<k>> : k \in Key \cup {"X-API-Key", "Content-Type", "application/json"}}

Method   == {e.method : e \in Endpoint}
NoMethod == "INVALID"

Request == INSTANCE RequestContract WITH status <- reply

\* The module has an API key when an operation asks for one.
Authenticated == \E e \in Endpoint : e.auth

ClientOwner == {"client", "base_url", "api_key"}
CallOwner   == {"url", "document", "answer"}   \* the rest is strings of the response

\* No client is none, and nothing of the response is named as an owner is.
ASSUME OwnerAssumption ==
  /\ None \notin [key : Key \cup {None}, vtable : {"full", "short"}]
  /\ StringField \cap (ClientOwner \cup CallOwner) = {}

NoError  == [code |-> "OK", http |-> 0]
NoAnswer == [http |-> 0, body |-> None]
Blank == [value |-> [f \in Field |-> None], has |-> [f \in Field |-> FALSE]]

\* The error object of a caller that gave one, after sdkcc_v1_error_set.
Reported(c, code) == IF c.error THEN [code |-> code, http |-> 0] ELSE error

Init ==
  /\ client = None /\ call = None /\ pc = "idle"
  /\ held = {}
  /\ response = Blank
  /\ answer = NoAnswer /\ visited = 0 /\ submitted = None /\ verdict = None
  /\ status = "OK" /\ error = NoError
  /\ Request!Init

-----------------------------------------------------------------------------
\* <library>_v1_client_create, called without an error object. A configuration
\* that lacks anything else is refused as an unusable vtable is; the copies of the
\* base URL and of the key come next.
CreateClient ==
  /\ pc = "idle" /\ client = None
  /\ \E key \in Key \cup {None}, vtable \in {"full", "short", "unusable"} :
       \/ /\ vtable = "unusable"
          /\ status' = "INVALID_ARGUMENT" /\ UNCHANGED <<client, pc, held>>
       \/ /\ vtable # "unusable" /\ Authenticated /\ key = None
          /\ status' = "AUTH" /\ UNCHANGED <<client, pc, held>>
       \/ /\ vtable # "unusable" /\ (Authenticated <=> key # None)
          /\ \/ status' = "OOM" /\ UNCHANGED <<client, pc, held>>
             \/ /\ client' = [key |-> key, vtable |-> vtable]
                /\ held' = held \cup {"client"}
                /\ pc' = "base_url"
                /\ UNCHANGED status
  /\ UNCHANGED <<call, response, answer, visited, submitted, verdict, error, request>>

\* <library>_v1_client_destroy.
DropClient ==
  /\ client' = None
  /\ held' = held \ ClientOwner

CopyClientText ==
  /\ pc \in {"base_url", "api_key"}
  /\ \/ /\ held' = held \cup {pc}
        /\ pc' = IF pc = "base_url" /\ Authenticated THEN "api_key" ELSE "idle"
        /\ status' = "OK"
        /\ UNCHANGED client
     \/ DropClient /\ pc' = "idle" /\ status' = "OOM"
  /\ UNCHANGED <<call, response, answer, visited, submitted, verdict, error, request>>

DestroyClient ==
  /\ pc = "idle" /\ client # None
  /\ DropClient
  /\ UNCHANGED <<call, pc, response, answer, visited, submitted, verdict, status, error,
                 request>>

\* <library>_v1_model_<type>_reset, on the caller's response.
BlankResponse ==
  /\ response' = Blank
  /\ held' = held \ StringField

ResetResponse ==
  /\ pc = "idle"
  /\ BlankResponse
  /\ UNCHANGED <<client, call, pc, answer, visited, submitted, verdict, status, error, request>>

-----------------------------------------------------------------------------
\* goto cleanup with a status that was reported as it was found.
Fail(code) ==
  /\ status' = code
  /\ error' = Reported(call, code)
  /\ pc' = "cleanup"

\* What emit_status_call makes of the request builder's answer.
Checked(next) ==
  IF reply' \in Failure THEN Fail(reply')
  ELSE pc' = next /\ UNCHANGED <<status, error>>

\* What the entry of an endpoint function asks for.
Accepted(c) ==
  /\ c.valid /\ client # None
  /\ c.document = None => c.endpoint.body # "required"

\* The entry of an endpoint function: a refused call leaves the response alone.
BeginWith(c) ==
  /\ pc = "idle"
  /\ \/ /\ ~Accepted(c)
        /\ status' = "INVALID_ARGUMENT"
        /\ error' = Reported(c, "INVALID_ARGUMENT")
        /\ UNCHANGED <<call, pc, held, response, submitted, verdict>>
     \/ /\ Accepted(c)
        /\ call' = c
        /\ error' = IF c.error THEN NoError ELSE error
        /\ BlankResponse
        /\ submitted' = None /\ verdict' = None
        /\ status' = "OK"
        /\ pc' = "create"
  /\ UNCHANGED <<client, answer, visited, request>>

Begin == \E c \in Call : BeginWith(c)

CreateRequest ==
  /\ pc = "create"
  /\ \/ Request!Created
     \/ Request!Refused /\ reply' = "OOM"
  /\ Checked("append")
  /\ UNCHANGED <<client, call, held, response, answer, visited, submitted, verdict>>

\* The appends that make up the URL; one may fail before the buffer has memory
\* or after.
BuildUrl ==
  /\ pc = "append"
  /\ \/ /\ call.id # "null"
        /\ held' = held \cup {"url"}
        /\ pc' = "set_url"
        /\ UNCHANGED <<status, error>>
     \/ held' \in {held, held \cup {"url"}} /\ Fail("OOM")
     \/ call.id = "null" /\ held' = held \cup {"url"} /\ Fail("INVALID_ARGUMENT")
  /\ UNCHANGED <<client, call, response, answer, visited, submitted, verdict, request>>

SetUrl ==
  /\ pc = "set_url"
  /\ url' \in {UrlOf(call), EmptyText}
  /\ Request!UrlReplaced
  /\ Checked("set_method")
  /\ UNCHANGED <<client, call, held, response, answer, visited, submitted, verdict>>

\* Where the function goes on once the request has its key.
AfterKey == IF call.document = None THEN "send" ELSE "serialize"

SetMethod ==
  /\ pc = "set_method"
  /\ method' = call.endpoint.method
  /\ Request!MethodSet
  /\ Checked(IF call.endpoint.auth THEN "authenticate" ELSE AfterKey)
  /\ UNCHANGED <<client, call, held, response, answer, visited, submitted, verdict>>

\* sdkcc_v1_request_add_header of a header that is legal or not.
AddHeader(header, legal) ==
  \/ /\ legal
     /\ headers' = Append(headers, header)
     /\ Request!HeaderAdded
  \/ /\ reply' \in (IF legal THEN {"OOM", "OVERFLOW"} ELSE {"INVALID_ARGUMENT"})
     /\ Request!Refused

\* Mutant: the status of add_header is not looked at.
AuthenticateUnchecked ==
  /\ pc = "authenticate"
  /\ AddHeader(KeyHeader(client.key), client.key # "bad key")
  /\ pc' = AfterKey
  /\ UNCHANGED <<client, call, held, response, answer, visited, submitted, verdict, status,
                 error>>

Authenticate ==
  /\ pc = "authenticate"
  /\ AddHeader(KeyHeader(client.key), client.key # "bad key")
  /\ Checked(AfterKey)
  /\ UNCHANGED <<client, call, held, response, answer, visited, submitted, verdict>>

\* serialize_<type>_input into a buffer of the call.
Serialize ==
  /\ pc = "serialize"
  /\ \/ /\ call.document # "bad document"
        /\ held' = held \cup {"document"}
        /\ pc' = "content_type"
        /\ UNCHANGED <<status, error>>
     \/ held' \in {held, held \cup {"document"}} /\ Fail("OOM")
     \/ /\ call.document = "bad document"
        /\ held' = held \cup {"document"}
        /\ Fail("SERIALIZE")
  /\ UNCHANGED <<client, call, response, answer, visited, submitted, verdict, request>>

AddContentType ==
  /\ pc = "content_type"
  /\ AddHeader(ContentType, TRUE)
  /\ Checked("set_body")
  /\ UNCHANGED <<client, call, held, response, answer, visited, submitted, verdict>>

SetBody ==
  /\ pc = "set_body"
  /\ body' \in {<<call.document>>, EmptyText}
  /\ Request!BodyReplaced
  /\ body' = EmptyText => reply' = "OOM"
  /\ Checked("send")
  /\ UNCHANGED <<client, call, held, response, answer, visited, submitted, verdict>>

-----------------------------------------------------------------------------
\* sdkcc_v1_transport_send, which refuses a vtable that is too short although
\* client_create took it, and the callback. Whatever it returns, it may have filled
\* in the response, and the error object of a caller that gave one.
Send ==
  /\ pc = "send"
  /\ \/ /\ client.vtable = "short"
        /\ Fail("INVALID_ARGUMENT")
        /\ UNCHANGED <<held, answer, submitted, verdict>>
     \/ /\ client.vtable = "full"
        /\ submitted' = [method |-> method, url |-> url, headers |-> headers, body |-> body]
        /\ answer' \in Answer
        /\ held' = IF answer'.body = None THEN held ELSE held \cup {"answer"}
        /\ verdict' \in Verdict
        /\ status' = verdict'.status
        /\ error' = IF call.error /\ verdict'.error # None THEN verdict'.error ELSE error
        /\ pc' = IF verdict'.status = "OK" THEN "check" ELSE "cleanup"
  /\ UNCHANGED <<client, call, response, visited, request>>

\* The HTTP status decides whether the body is parsed at all; the parser resets
\* the response again.
CheckStatus ==
  /\ pc = "check"
  /\ visited' = 0
  /\ \/ /\ answer.http # call.endpoint.http
        /\ status' = "HTTP"
        /\ error' = IF call.error THEN [code |-> "HTTP", http |-> answer.http] ELSE error
        /\ pc' = "cleanup"
        /\ UNCHANGED <<held, response>>
     \/ /\ answer.http = call.endpoint.http
        /\ BlankResponse
        /\ IF answer.body = None THEN Fail("INVALID_ARGUMENT")
           ELSE pc' = "parse" /\ UNCHANGED <<status, error>>
  /\ UNCHANGED <<client, call, answer, submitted, verdict, request>>

\* The seen_ flags of the parser's context.
Seen == {answer.body.members[i].key : i \in 1..visited}

ParseFails(code) ==
  /\ Fail(code)
  /\ BlankResponse
  /\ UNCHANGED visited

\* Mutant: neither the kind of the value nor an earlier member is looked at.
VisitOfAnyKind(m) ==
  /\ visited' = visited + 1
  /\ IF m.key = None THEN UNCHANGED <<held, response>>
     ELSE /\ response' = [response EXCEPT !.value[m.key] = m.value]
          /\ held' = held \cup ({m.key} \cap StringField)
  /\ UNCHANGED <<pc, status, error>>

\* visit_<type> on a member whose value was scanned: of a field seen before, with
\* a value the field refuses, of no field, or decoded into the response.
Visit(m) ==
  \/ m.key \in Seen \cap Field /\ ParseFails("SCHEMA")
  \/ m.key \in Field \ Seen /\ m.value = Alien /\ ParseFails("SCHEMA")
  \/ m.key \in Field \ (Seen \cup StringField) /\ m.value = Alien /\ ParseFails("OVERFLOW")
  \/ /\ m.key = None
     /\ visited' = visited + 1
     /\ UNCHANGED <<pc, held, response, status, error>>
  \/ /\ m.key \in Field \ Seen /\ m.value # Alien
     /\ \/ /\ response' = [response EXCEPT !.value[m.key] = m.value]
           /\ held' = held \cup ({m.key} \cap StringField)
           /\ visited' = visited + 1
           /\ UNCHANGED <<pc, status, error>>
        \/ m.key \in StringField /\ ParseFails("OOM")

VisitMember ==
  /\ pc = "parse" /\ visited < Len(answer.body.members)
  /\ Visit(answer.body.members[visited + 1])
  /\ UNCHANGED <<client, call, answer, submitted, verdict, request>>

\* Mutant: a missing field is reported, but what was decoded is not reset.
FinishParseKeeping ==
  /\ pc = "parse" /\ visited = Len(answer.body.members)
  /\ \/ ~answer.body.complete /\ ParseFails("PARSE")
     \/ /\ answer.body.complete
        /\ IF Required \subseteq Seen
           THEN pc' = "cleanup" /\ UNCHANGED <<status, error>>
           ELSE Fail("SCHEMA")
        /\ response' = [response EXCEPT !.has = [f \in Field |-> f \in Seen \ Required]]
        /\ UNCHANGED <<held, visited>>
  /\ UNCHANGED <<client, call, answer, submitted, verdict, request>>

\* The end of the object, or of the text before it: the required fields are
\* looked for and the flags of the optional ones set.
FinishParse ==
  /\ pc = "parse" /\ visited = Len(answer.body.members)
  /\ \/ ~answer.body.complete /\ ParseFails("PARSE")
     \/ answer.body.complete /\ ~(Required \subseteq Seen) /\ ParseFails("SCHEMA")
     \/ /\ answer.body.complete /\ Required \subseteq Seen
        /\ response' = [response EXCEPT !.has = [f \in Field |-> f \in Seen \ Required]]
        /\ pc' = "cleanup"
        /\ UNCHANGED <<held, visited, status, error>>
  /\ UNCHANGED <<client, call, answer, submitted, verdict, request>>

\* The cleanup label: every path of an accepted call ends here.
Cleanup ==
  /\ pc = "cleanup"
  /\ held' = held \ CallOwner
  /\ answer' = NoAnswer
  /\ visited' = 0
  /\ IF alive THEN Request!Destroyed ELSE UNCHANGED request
  /\ call' = None /\ pc' = "idle"
  /\ UNCHANGED <<client, response, submitted, verdict, status, error>>

Next ==
  \/ CreateClient \/ CopyClientText \/ DestroyClient \/ ResetResponse
  \/ Begin \/ CreateRequest \/ BuildUrl \/ SetUrl \/ SetMethod \/ Authenticate
  \/ Serialize \/ AddContentType \/ SetBody
  \/ Send \/ CheckStatus \/ VisitMember \/ FinishParse \/ Cleanup

Spec == Init /\ [][Next]_vars

-----------------------------------------------------------------------------
TypeOK ==
  /\ client \in {None} \cup [key : Key \cup {None}, vtable : {"full", "short"}]
  /\ call \in Call \cup {None}
  /\ held \subseteq ClientOwner \cup CallOwner \cup StringField
  /\ response.value \in [Field -> Value \cup {None}]
  /\ response.has \in [Field -> BOOLEAN]
  /\ answer \in Answer \cup {NoAnswer}
  /\ visited \in Nat
  /\ status \in Failure \cup {"OK"}
  /\ verdict \in Verdict \cup {None}
  /\ error.code \in Failure \cup {"OK"} /\ error.http \in Nat

\* On every path, whatever failed and wherever: a call that returned holds no
\* buffer, no transport response and no request; a client_create that failed
\* holds no part of a client; and the strings of the response are exactly the
\* ones its fields show, so that the caller's reset frees them all.
NothingLeaks ==
  /\ pc = "idle" => held \cap CallOwner = {} /\ ~alive
  /\ client = None => held \cap ClientOwner = {}
  /\ held \cap StringField = {f \in StringField : response.value[f] # None}

\* What the body of an answer says of each field, and whether it is one that
\* must be accepted: a complete object with every required field, no field twice
\* and none of the wrong kind.
Decoded(b) ==
  LET Members(f) == {i \in DOMAIN b.members : b.members[i].key = f}
  IN  [value |-> [f \in Field |-> IF Members(f) = {} THEN None
                                  ELSE b.members[CHOOSE i \in Members(f) : TRUE].value],
       has   |-> [f \in Field |-> f \notin Required /\ Members(f) # {}]]

Acceptable(b) ==
  /\ b # None
  /\ b.complete
  /\ \A f \in Required : \E i \in DOMAIN b.members : b.members[i].key = f
  /\ \A i, j \in DOMAIN b.members :
       b.members[i].key \in Field =>
         /\ b.members[i].value # Alien
         /\ b.members[j].key = b.members[i].key => i = j

\* A call that succeeded hands out exactly what the answer's body says, and it
\* was an acceptable body with the HTTP status of the description; any other
\* call that was accepted leaves the response blank, with nothing of this answer
\* or of an earlier one in it. An acceptable answer is refused for want of memory,
\* or because the transport called it a failure, and for nothing else.
ResponseWholeOrBlank ==
  pc = "cleanup" =>
    /\ status = "OK" => /\ answer.http = call.endpoint.http
                        /\ Acceptable(answer.body)
                        /\ response = Decoded(answer.body)
    /\ status # "OK" => response = Blank
    /\ answer.http = call.endpoint.http /\ Acceptable(answer.body) =>
         status \in {"OK", "OOM", verdict.status}

\* What the transport is given is what the description and the arguments say,
\* whole: a request that lost its key, its body or a header to a failed call is
\* never sent.
SubmittedAsAsked ==
  call # None /\ submitted # None =>
    submitted = [method  |-> call.endpoint.method,
                 url     |-> UrlOf(call),
                 headers |-> (IF call.endpoint.auth THEN <<KeyHeader(client.key)>> ELSE <<>>)
                               \o (IF call.document = None THEN <<>> ELSE <<ContentType>>),
                 body    |-> IF call.document = None THEN EmptyText ELSE <<call.document>>]

\* What the transport leaves in an error object that was blank.
LeftBy(v) == IF v.error = None THEN NoError ELSE v.error

\* A call that ends tells how this call ended. It succeeds only when the transport
\* did; a failure of the transport is returned as it is, and never taken for another.
\* The error object holds what the transport left in it, be it at odds with the
\* status, as long as the transport has the last word; what the SDK itself finds,
\* before or after, replaces that, with an HTTP status exactly when it was the
\* failure. Nothing in it is left from an earlier call.
ErrorIsOfThisCall ==
  pc = "cleanup" =>
    /\ status = "OK" => verdict # None /\ verdict.status = "OK"
    /\ verdict # None => verdict.status \in {"OK", status}
    /\ call.error =>
         error = IF verdict # None /\ verdict.status = status THEN LeftBy(verdict)
                 ELSE [code |-> status, http |-> IF status = "HTTP" THEN answer.http ELSE 0]
=============================================================================
