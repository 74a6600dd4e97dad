-------------------------- MODULE MCTestTransport --------------------------
(***************************************************************************)
(* An instance of TestTransport for TLC: a size_t of 3 bits, in which two  *)
(* expectations and two headers fit and a third of either overflows.       *)
(***************************************************************************)
EXTENDS TestTransport

MCEmptyText == [len |-> 0, name |-> "empty"]
MCNullText  == [len |-> 1, name |-> "null"]
MCShort     == [len |-> 1, name |-> "short"]
MCLong      == [len |-> 3, name |-> "long"]

MCText == {MCEmptyText, MCNullText, MCShort, MCLong}

Header == [name |-> MCShort, value |-> MCEmptyText]

\* Two that are accepted, and one for every step at which expect can fail for
\* another reason than memory.
MCExpectation ==
  LET plain == [method |-> "GET", url |-> MCShort, body |-> MCEmptyText,
                headers |-> <<>>, http |-> 200, answer |-> MCLong]
  IN  {plain,
       [plain EXCEPT !.body = MCLong, !.headers = <<Header>>,
                     !.http = 204, !.answer = MCEmptyText],
       [plain EXCEPT !.url = MCEmptyText],
       [plain EXCEPT !.answer = MCNullText],
       [plain EXCEPT !.headers = <<Header, [Header EXCEPT !.value = MCNullText]>>],
       [plain EXCEPT !.headers = <<Header, Header, Header>>]}

\* Requests that match either, miss the method, the URL or the header, or cannot
\* be submitted.
MCSubmission ==
  LET plain == [method |-> "GET", url |-> MCShort, body |-> MCEmptyText,
                headers |-> <<Header>>]
  IN  {plain,
       [plain EXCEPT !.method = "PUT"],
       [plain EXCEPT !.url = MCLong],
       [plain EXCEPT !.body = MCLong],
       [plain EXCEPT !.body = MCLong, !.headers = <<>>],
       [plain EXCEPT !.url = MCEmptyText]}

\* The allocator returns its lowest free block.
MCAddress(free) == {b \in free : \A c \in free : b <= c}
=============================================================================
