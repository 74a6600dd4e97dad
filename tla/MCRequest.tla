----------------------------- MODULE MCRequest -----------------------------
(***************************************************************************)
(* An instance of Request for TLC: a size_t of 3 bits, so that a header    *)
(* array of 2 entries is the largest whose size fits.                      *)
(***************************************************************************)
EXTENDS Request

MCText ==
  {[len |-> 0, bytes |-> "token"],
   [len |-> 1, bytes |-> "token"],
   [len |-> 3, bytes |-> "control"]}

MCEmptyText == [len |-> 0, bytes |-> "token"]

\* The allocator returns its lowest free block.
MCAddress(free) == {b \in free : \A c \in free : b <= c}
=============================================================================
