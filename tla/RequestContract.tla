-------------------------- MODULE RequestContract --------------------------
(***************************************************************************)
(* What sdkcc_request_t promises its callers, with no memory in sight: the *)
(* request owns copies of its URL, headers and body (docs: MEMORY.md), a   *)
(* call reports success exactly when its effect took place, and a failed   *)
(* call leaves the headers and the method alone.  Replacing the URL or the *)
(* body is not all-or-nothing: a failed replacement leaves it empty.       *)
(***************************************************************************)
EXTENDS Sequences

CONSTANTS Text, EmptyText, Method, NoMethod

VARIABLES alive, method, url, body, headers, status

vars == <<alive, method, url, body, headers, status>>

-----------------------------------------------------------------------------
Blank ==
  /\ method = NoMethod
  /\ url = EmptyText
  /\ body = EmptyText
  /\ headers = <<>>

\* What a create or a destroy leaves: nothing of an earlier request.
Blanked ==
  /\ method' = NoMethod
  /\ url' = EmptyText
  /\ body' = EmptyText
  /\ headers' = <<>>

Init == alive = FALSE /\ Blank /\ status = "NONE"

Created == ~alive /\ alive' = TRUE /\ Blanked /\ status' = "CREATED"

Destroyed == alive /\ alive' = FALSE /\ Blanked /\ UNCHANGED status

MethodSet ==
  /\ alive
  /\ method' \in Method
  /\ status' = "METHOD_SET"
  /\ UNCHANGED <<alive, url, body, headers>>

UrlReplaced ==
  /\ alive
  /\ \/ url' \in Text \ {EmptyText} /\ status' = "URL_SET"
     \/ url' = EmptyText /\ status' = "OOM"
  /\ UNCHANGED <<alive, method, body, headers>>

BodyReplaced ==
  /\ alive
  /\ \/ body' \in Text /\ status' = "BODY_SET"
     \/ body' = EmptyText /\ status' = "OOM"
  /\ UNCHANGED <<alive, method, url, headers>>

HeaderAdded ==
  /\ alive
  /\ \E name \in Text, value \in Text :
       headers' = Append(headers, [name |-> name, value |-> value])
  /\ status' = "HEADER_ADDED"
  /\ UNCHANGED <<alive, method, url, body>>

\* A call that failed without touching the request.
Refused ==
  /\ status' \in {"INVALID_ARGUMENT", "OVERFLOW", "OOM"}
  /\ UNCHANGED <<alive, method, url, body, headers>>

Next ==
  \/ Created \/ Destroyed \/ MethodSet \/ UrlReplaced \/ BodyReplaced
  \/ HeaderAdded \/ Refused

Spec == Init /\ [][Next]_vars
=============================================================================
