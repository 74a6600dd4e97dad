----------------------------- MODULE CppClient -----------------------------
(***************************************************************************)
(* The C++ wrapper that the C++ backend (compiler/backend/cpp/             *)
(* generator.cpp, with include/sdkcc/sdkcc.hpp) puts around the generated  *)
(* C client: client objects that own a handle and can be moved, create and *)
(* the endpoint methods, whose results are copies, guards that reset what  *)
(* the C function filled in, and copies that may throw.                    *)
(*                                                                         *)
(* The C functions are the steps of EndpointCall: what that module calls   *)
(* the client is here the one that the running function was given.  The    *)
(* embedding program is written in C and calls them itself, or in C++ and  *)
(* only sees the wrapper.                                                  *)
(***************************************************************************)
EXTENDS EndpointCall

CONSTANTS
  Object,  \* variables of the C++ program that may hold a client object
  Handle   \* addresses of C clients; one that was destroyed is used again

VARIABLES
  language,  \* of the embedding program: "C" or "C++"
  handle,    \* handle_ of each object: a handle or None; "absent" without one
  clients,   \* the C client behind each handle, or None
  running,   \* [method, object] while a method runs, or None
  result     \* what the last method gave its caller

objects == <<handle, clients>>
cppVars == <<vars, language, handle, clients, running, result>>

ASSUME ObjectAssumption ==
  /\ "absent" \notin Handle /\ None \notin Handle
  /\ None \notin [method : {"create", "entered", "endpoint"}, object : Object]

-----------------------------------------------------------------------------
NoResult == [kind |-> "none"]

CppInit ==
  /\ Init
  /\ language \in {"C", "C++"}
  /\ handle = [o \in Object |-> "absent"]
  /\ clients = [h \in Handle |-> None]
  /\ running = None
  /\ result = NoResult

Alive(o) == handle[o] # "absent"

\* <library>_v1_client_destroy of a handle, which may be null.
Destroyed(h) == IF h \in Handle THEN [clients EXCEPT ![h] = None] ELSE clients

\* error_slot::copy, and copy of the strings behind it: it may throw bad_alloc.
CopiedError(e) == {[kind |-> "error", error |-> e], [kind |-> "exception"]}

\* from_c, of a response with its flags: an optional field is engaged when the C
\* response has it. A field without an own string is copied without memory.
FromC(r) ==
  {[kind |-> "value",
    value |-> [f \in Field |-> IF f \in Required \/ r.has[f] THEN r.value[f] ELSE None]]}
    \cup (IF StringField # {} THEN {[kind |-> "exception"]} ELSE {})

-----------------------------------------------------------------------------
\* client::create up to its return: the C function with an error_slot.
Create ==
  /\ running = None
  /\ \E o \in Object : ~Alive(o) /\ running' = [method |-> "create", object |-> o]
  /\ CreateClient
  /\ UNCHANGED <<objects, result>>

CreateGoesOn ==
  /\ running # None /\ pc # "idle"
  /\ running.method = "create"
  /\ CopyClientText
  /\ UNCHANGED <<objects, running, result>>

\* The handle, which may be the address of an earlier client, goes into the
\* object; or the error is copied, whose code is the status.
CreateReturns ==
  /\ running # None /\ pc = "idle"
  /\ running.method = "create"
  /\ \/ /\ status = "OK"
        /\ \E h \in Handle :
             /\ clients[h] = None
             /\ clients' = [clients EXCEPT ![h] = client]
             /\ handle' = [handle EXCEPT ![running.object] = h]
        /\ client' = None /\ held' = held \ ClientOwner
        /\ result' = [kind |-> "client"]
     \/ /\ status # "OK"
        /\ result' \in CopiedError([code |-> status, http |-> 0])
        /\ UNCHANGED <<objects, client, held>>
  /\ running' = None
  /\ UNCHANGED <<call, pc, response, answer, visited, submitted, verdict, status, error,
                 request>>

\* client(client &&).
MoveConstruct ==
  /\ running = None
  /\ \E o, other \in Object :
       /\ ~Alive(o) /\ Alive(other)
       /\ handle' = [handle EXCEPT ![o] = handle[other], ![other] = None]
  /\ UNCHANGED <<vars, clients, running, result>>

\* Mutant: without the test for self-assignment.
MoveAssignAlways ==
  /\ running = None
  /\ \E o, other \in Object :
       /\ Alive(o) /\ Alive(other)
       /\ clients' = Destroyed(handle[o])
       /\ handle' = IF o = other THEN handle
                    ELSE [handle EXCEPT ![o] = handle[other], ![other] = None]
  /\ UNCHANGED <<vars, running, result>>

\* operator=(client &&).
MoveAssign ==
  /\ running = None
  /\ \E o, other \in Object :
       /\ Alive(o) /\ Alive(other)
       /\ \/ o = other /\ UNCHANGED objects
          \/ /\ o # other
             /\ clients' = Destroyed(handle[o])
             /\ handle' = [handle EXCEPT ![o] = handle[other], ![other] = None]
  /\ UNCHANGED <<vars, running, result>>

\* ~client().
DestroyObject ==
  /\ running = None
  /\ \E o \in Object :
       /\ Alive(o)
       /\ clients' = Destroyed(handle[o])
       /\ handle' = [handle EXCEPT ![o] = "absent"]
  /\ UNCHANGED <<vars, running, result>>

-----------------------------------------------------------------------------
\* The arguments that a method can make: views of strings that are never null, an
\* error object, and always a body when the operation has one.
CppCall ==
  {c \in Call : /\ c.valid /\ c.id = "id" /\ c.error
                /\ c.document = None <=> c.endpoint.body = "none"}

\* An endpoint method: its response and error objects are new, and the C function
\* gets the handle of the object, null after a move.
Enter ==
  /\ running = None
  /\ \E o \in Object :
       /\ Alive(o)
       /\ client' = IF handle[o] \in Handle THEN clients[handle[o]] ELSE None
       /\ running' = [method |-> "entered", object |-> o]
  /\ held' = IF client' = None THEN held
             ELSE held \cup {"client", "base_url"}
                       \cup (IF Authenticated THEN {"api_key"} ELSE {})
  /\ UNCHANGED <<call, pc, response, answer, visited, submitted, verdict, status, error,
                 request, objects, result>>

CallC ==
  /\ running # None /\ running.method = "entered"
  /\ \E c \in CppCall : BeginWith(c)
  /\ running' = [running EXCEPT !.method = "endpoint"]
  /\ UNCHANGED <<objects, result>>

CallGoesOn ==
  /\ running # None /\ pc # "idle"
  /\ running.method = "endpoint"
  /\ \/ CreateRequest \/ BuildUrl \/ SetUrl \/ SetMethod \/ Authenticate
     \/ Serialize \/ AddContentType \/ SetBody
     \/ Send \/ CheckStatus \/ VisitMember \/ FinishParse \/ Cleanup
  /\ UNCHANGED <<objects, running, result>>

\* Mutant: the error object decides in the place of the status.
OutcomeByError == IF error.code = "OK" THEN FromC(response) ELSE CopiedError(error)

Outcome == IF status = "OK" THEN FromC(response) ELSE CopiedError(error)

\* Mutant: the response is reset by hand, after the copy.
ReleasedUnguarded(outcome) ==
  /\ held' = held \ (ClientOwner \cup IF outcome.kind = "exception" THEN {} ELSE StringField)
  /\ response' = IF outcome.kind = "exception" THEN response ELSE Blank

\* response_guard resets the response whether the method returns or throws; what
\* the client holds stays with the handle.
Released(outcome) ==
  /\ held' = held \ (ClientOwner \cup StringField)
  /\ response' = Blank

\* The end of the method, with the result or an exception; error_slot goes too.
CallReturns ==
  /\ running # None /\ pc = "idle"
  /\ running.method = "endpoint"
  /\ result' \in Outcome
  /\ Released(result')
  /\ error' = NoError /\ client' = None
  /\ running' = None
  /\ UNCHANGED <<call, pc, answer, visited, submitted, verdict, status, request, objects>>

CppNext ==
  /\ \/ language = "C" /\ Next /\ UNCHANGED <<objects, running, result>>
     \/ /\ language = "C++"
        /\ \/ Create \/ CreateGoesOn \/ CreateReturns
           \/ MoveConstruct \/ MoveAssign \/ DestroyObject
           \/ Enter \/ CallC \/ CallGoesOn \/ CallReturns
  /\ UNCHANGED language

CppSpec == CppInit /\ [][CppNext]_cppVars

-----------------------------------------------------------------------------
CppTypeOK ==
  /\ TypeOK
  /\ handle \in [Object -> Handle \cup {None, "absent"}]
  /\ \A h \in Handle : clients[h] # None => clients[h].vtable \in {"full", "short"}
  /\ running # None => running.method \in {"create", "entered", "endpoint"}
                      /\ running.object \in Object
  /\ result.kind \in {"none", "client", "value", "error", "exception"}

\* Whatever is created, moved, assigned to itself or to another and destroyed, and
\* whatever throws: every C client belongs to exactly one object, so that it is
\* destroyed, and once; and no object refers to one that was destroyed, although
\* its address may be in use again.
HandlesOwned ==
  /\ \A h \in Handle : clients[h] # None => \E o \in Object : handle[o] = h
  /\ \A o \in Object : handle[o] \in Handle => clients[handle[o]] # None
  /\ \A o, other \in Object :
       handle[o] = handle[other] /\ handle[o] \in Handle => o = other

\* In C nothing leaks on any path; and a method that has returned or thrown in C++
\* leaves nothing behind of the C objects it had the C function fill in.
NothingLeft ==
  /\ NothingLeaks
  /\ language = "C++" /\ running = None =>
       held = {} /\ ~alive /\ response = Blank /\ error = NoError

\* The caller of a C or C++ function learns how it ended: a C++ method gives a
\* value only when the C function succeeded, whatever the transport left in the
\* error object, with every required field in it; and else the error of this call,
\* whose code is the status unless it is the transport's own.
CallerLearnsOutcome ==
  /\ ErrorIsOfThisCall
  /\ running = None =>
       /\ result.kind \in {"client", "value"} => status = "OK"
       /\ result.kind = "value" => \A f \in Required : result.value[f] # None
       /\ result.kind = "error" =>
            /\ status # "OK"
            /\ \/ result.error.code = status
               \/ verdict # None /\ verdict.status = status /\ result.error = LeftBy(verdict)
=============================================================================
