--------------------------- MODULE MCCppClient -----------------------------
(***************************************************************************)
(* An instance of CppClient for TLC: four operations that differ in        *)
(* authentication and body, and a model with a required string and an      *)
(* optional integer.                                                       *)
(***************************************************************************)
EXTENDS CppClient, TLC

MCEndpoint ==
  {[method |-> "GET", auth |-> FALSE, body |-> "none", http |-> 200],
   [method |-> "GET", auth |-> TRUE, body |-> "none", http |-> 200],
   [method |-> "POST", auth |-> TRUE, body |-> "optional", http |-> 200],
   [method |-> "POST", auth |-> TRUE, body |-> "required", http |-> 201]}

\* Objects that are whole, in either order and with an unknown member; that
\* lack a field, have one twice, have one of another kind; and that break off
\* after a first field.
MCAnswer ==
  LET Member(k, v) == [key |-> k, value |-> v]
      Whole(members) == [members |-> members, complete |-> TRUE]
      bodies == {None,
                 Whole(<<>>),
                 Whole(<<Member("name", "v1")>>),
                 Whole(<<Member("count", "v2"), Member("name", "v2")>>),
                 Whole(<<Member(None, "v1"), Member("name", "v2")>>),
                 Whole(<<Member("count", "v1")>>),
                 Whole(<<Member("name", "v1"), Member("name", "v2")>>),
                 Whole(<<Member("name", "v1"), Member("count", "alien")>>),
                 [members |-> <<Member("name", "v1")>>, complete |-> FALSE]}
  IN  {[http |-> h, body |-> b] : h \in {0, 200, 201}, b \in bodies}

\* A transport that says nothing, or what it returns; that leaves the failure of
\* an attempt before the one that succeeded; and whose status and error differ, in
\* the very status that the SDK uses for an HTTP failure.
MCVerdict ==
  LET Ends(s, e)  == [status |-> s, error |-> e]
      Error(c, h) == [code |-> c, http |-> h]
  IN  {Ends("OK", None), Ends("OK", Error("TIMEOUT", 503)),
       Ends("NETWORK", None), Ends("NETWORK", Error("NETWORK", 0)),
       Ends("HTTP", Error("AUTH", 401)), Ends("HTTP", Error("OK", 0))}

\* The addresses, and the variables of the program, are alike.
Symmetry == Permutations(Object) \cup Permutations(Handle)
=============================================================================
