-------------------------- MODULE ExpectationQueue --------------------------
(***************************************************************************)
(* What the in-memory test transport promises a test, with no memory in    *)
(* sight (docs: TRANSPORT.md): it consumes ordered expectations, each by   *)
(* one request that matches it and whose answer was delivered.  A request  *)
(* that does not match, or whose answer could not be allocated, consumes   *)
(* nothing and leaves no body behind.                                      *)
(***************************************************************************)
EXTENDS Sequences, Naturals, SequencesExt

CONSTANTS Expectation, Submission, NoSubmission, EmptyText

\* submitted is the last request that reached the transport.
VARIABLES alive, expected, next, submitted, http, body, status

vars == <<alive, expected, next, submitted, http, body, status>>

-----------------------------------------------------------------------------
\* The wanted headers may be any of the request's, in any order.
Answers(e, r) ==
  /\ r.method = e.method
  /\ r.url = e.url
  /\ r.body = e.body
  /\ ToSet(e.headers) \subseteq ToSet(r.headers)

Init ==
  /\ ~alive
  /\ expected = <<>>
  /\ next = 0
  /\ submitted = NoSubmission
  /\ http = 0
  /\ body = EmptyText
  /\ status = "OK"

Created ==
  /\ ~alive /\ alive'
  /\ status' = "OK"
  /\ UNCHANGED <<expected, next, submitted, http, body>>

\* The response is the caller's: it survives the transport that produced it.
Destroyed ==
  /\ alive /\ ~alive'
  /\ expected' = <<>>
  /\ next' = 0
  /\ UNCHANGED <<submitted, http, body, status>>

Expected ==
  /\ alive
  /\ \E e \in Expectation : expected' = Append(expected, e)
  /\ status' = "OK"
  /\ UNCHANGED <<alive, next, submitted, http, body>>

\* Request r matches the next expectation.
Matched(r) == alive /\ next < Len(expected) /\ Answers(expected[next + 1], r)

\* A submitted request that matches consumes the expectation it matches.
Answered ==
  /\ \E r \in Submission : submitted' = r /\ Matched(r)
  /\ http' = expected[next + 1].http
  /\ body' = expected[next + 1].answer
  /\ next' = next + 1
  /\ status' = "OK"
  /\ UNCHANGED <<alive, expected>>

\* A submission that consumed nothing. It leaves no body, and it is a mismatch
\* exactly when the request does not match; one that matches failed for want of
\* memory for its answer, and its HTTP status is left behind.
NotAnswered ==
  /\ \E r \in Submission :
       /\ submitted' = r
       /\ \/ ~Matched(r) /\ http' = 0 /\ status' = "MISMATCH"
          \/ Matched(r) /\ http' = expected[next + 1].http /\ status' = "OOM"
  /\ body' = EmptyText
  /\ UNCHANGED <<alive, expected, next>>

ResponseDropped ==
  /\ http' = 0
  /\ body' = EmptyText
  /\ UNCHANGED <<alive, expected, next, submitted, status>>

\* verify succeeds exactly when every expectation was consumed.
Verified ==
  /\ alive
  /\ status' = IF next = Len(expected) THEN "OK" ELSE "MISMATCH"
  /\ UNCHANGED <<alive, expected, next, submitted, http, body>>

\* A call that failed without any effect.
Refused ==
  /\ status' \in {"INVALID_ARGUMENT", "OVERFLOW", "OOM"}
  /\ UNCHANGED <<alive, expected, next, submitted, http, body>>

Next ==
  \/ Created \/ Destroyed
  \/ Expected \/ Answered \/ NotAnswered \/ ResponseDropped \/ Verified
  \/ Refused

Spec == Init /\ [][Next]_vars
=============================================================================
