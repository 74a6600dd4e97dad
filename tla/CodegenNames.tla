---------------------------- MODULE CodegenNames ----------------------------
(***************************************************************************)
(* prepare_codegen (compiler/passes/prepare_codegen.cpp) claims a name for *)
(* every type, field, endpoint and parameter of a module, each in a scope  *)
(* of its kind; the C generator (compiler/backend/c/generator.cpp) declares*)
(* one or more C identifiers for each.  One claim per step: first the      *)
(* types in order, each with its fields, then the endpoints, each with its *)
(* parameters.                                                             *)
(***************************************************************************)
EXTENDS NameScope, SequencesExt

CONSTANTS
  Source,      \* names in the API description
  MaxNames     \* bound: types, endpoints and members at a time

\* A name of the description is its words and its spelling.
ASSUME SourceAssumption ==
  /\ \A s \in Source : s.words \in Seq(Word)
  /\ {"string", "integer", "boolean", "client", "create", "destroy"} \subseteq Word \ DigitWord
  /\ MaxNames \in Nat /\ MaxNames < MaxClaims

VARIABLES
  typeScope, endpointScope,
  memberScope,    \* of the struct or endpoint under way
  typeNames,      \* what was claimed so far, for which name of the description
  endpointNames,
  memberNames,    \* of the struct or endpoint under way: its fields or parameters
  phase           \* "types", then "endpoints"

nameVars ==
  <<typeScope, endpointScope, memberScope, typeNames, endpointNames, memberNames, phase>>

-----------------------------------------------------------------------------
\* Claimed before any schema: the primitive types, which are types as well.
Primitives == {<<"string">>, <<"integer">>, <<"boolean">>}

\* Claimed before any endpoint: the functions that every client has.
ClientFunctions == {<<"client", "create">>, <<"client", "destroy">>}

\* Mutant: nothing is claimed beforehand.
PreclaimedNone(bases) == EmptyScope

Preclaimed(bases) == [base \in bases |-> 1]

NamesInit ==
  /\ typeScope = Preclaimed(Primitives)
  /\ endpointScope = Preclaimed(ClientFunctions)
  /\ memberScope = EmptyScope
  /\ typeNames = <<>>
  /\ endpointNames = <<>>
  /\ memberNames = <<>>
  /\ phase = "types"

\* A type that is not primitive; its fields have a scope of their own.
ClaimType ==
  /\ phase = "types"
  /\ Len(typeNames) + Len(endpointNames) < MaxNames
  /\ \E s \in Source :
       /\ typeNames' = Append(typeNames, [source |-> s, name |-> Claim(typeScope, Canonical(s))])
       /\ typeScope' = AfterClaim(typeScope, Canonical(s))
  /\ memberNames' = <<>>
  /\ memberScope' = EmptyScope
  /\ UNCHANGED <<endpointScope, endpointNames, phase>>

\* A field of the last type, or a parameter of the last endpoint. Optional ones
\* are declared with a flag. An object has no two fields of one name; a query
\* and a path parameter may have the same.
ClaimMember ==
  /\ IF phase = "types" THEN typeNames # <<>> ELSE endpointNames # <<>>
  /\ Len(typeNames) + Len(endpointNames) + Len(memberNames) < MaxNames
  /\ \E s \in Source, required \in BOOLEAN :
       /\ phase = "types" => \A i \in DOMAIN memberNames : memberNames[i].source # s
       /\ memberNames' = Append(memberNames,
                                [source |-> s, required |-> required,
                                 name |-> Claim(memberScope, Canonical(s))])
       /\ memberScope' = AfterClaim(memberScope, Canonical(s))
  /\ UNCHANGED <<typeScope, endpointScope, typeNames, endpointNames, phase>>

TypesDone ==
  /\ phase = "types"
  /\ phase' = "endpoints"
  /\ memberNames' = <<>>
  /\ memberScope' = EmptyScope
  /\ UNCHANGED <<typeScope, endpointScope, typeNames, endpointNames>>

\* An endpoint, without a request body or with one of a type by its position.
ClaimEndpoint ==
  /\ phase = "endpoints"
  /\ Len(typeNames) + Len(endpointNames) < MaxNames
  /\ \E s \in Source, body \in 0..Len(typeNames) :
       /\ endpointNames' = Append(endpointNames,
                                  [source |-> s, body |-> body,
                                   name |-> Claim(endpointScope, Canonical(s))])
       /\ endpointScope' = AfterClaim(endpointScope, Canonical(s))
  /\ memberNames' = <<>>
  /\ memberScope' = EmptyScope
  /\ UNCHANGED <<typeScope, typeNames, phase>>

NextName == ClaimType \/ ClaimMember \/ TypesDone \/ ClaimEndpoint

NamesSpec == NamesInit /\ [][NextName]_nameVars

-----------------------------------------------------------------------------
\* The types of request bodies, which the C header declares a second time as
\* inputs; each once, however many endpoints take it.
RequestTypes == {endpointNames[i].body : i \in DOMAIN endpointNames} \ {0}

\* What the header declares at file scope, less the library prefix: the handle
\* and configuration, a struct and a reset function for each type, the inputs,
\* two typedefs and a function for each endpoint.
FileScope ==
  <<<<"client", "t">>, <<"config", "t">>,
    <<"v1", "client", "create">>, <<"v1", "client", "destroy">>>>
    \o [i \in DOMAIN typeNames |-> typeNames[i].name \o <<"t">>]
    \o [i \in 1..Cardinality(RequestTypes) |->
          typeNames[SetToSortSeq(RequestTypes, <)[i]].name \o <<"input", "t">>]
    \o [i \in DOMAIN typeNames |-> <<"v1", "model">> \o typeNames[i].name \o <<"reset">>]
    \o [i \in DOMAIN endpointNames |-> endpointNames[i].name \o <<"params", "t">>]
    \o [i \in DOMAIN endpointNames |-> endpointNames[i].name \o <<"response", "t">>]
    \o [i \in DOMAIN endpointNames |-> <<"v1">> \o endpointNames[i].name]

\* And in the struct under way.
StructMembers ==
  LET optional == SelectSeq(memberNames, LAMBDA m : ~m.required)
  IN  [i \in DOMAIN memberNames |-> memberNames[i].name]
        \o [i \in DOMAIN optional |-> <<"has">> \o optional[i].name]
        \o (IF phase = "endpoints" /\ endpointNames # <<>> /\ Last(endpointNames).body # 0
            THEN <<<<"body">>>> ELSE <<>>)

Scopes == {typeNames, endpointNames, memberNames}

\* Whatever the description calls its things, every name is an identifier of C
\* and C++: no keyword, and no digit in front; numbering keeps it one.
NamesArePortable ==
  \A given \in Scopes : \A i \in DOMAIN given :
    given[i].name \notin Keyword /\ given[i].name[1] \notin DigitWord

\* Names that differ only in what canonicalization drops are kept apart. Two
\* names of one scope are the same only when one of them, canonicalized, already
\* looked like a numbered form of the other.
CollisionsAreNumbered ==
  LET NumberedFormOf(a, b) ==
        \E n \in 2..MaxClaims :
          Canonical(a) = Append(Canonical(b), Numeral(n))
  IN  \A given \in Scopes : \A i, j \in DOMAIN given :
        i # j /\ given[i].name = given[j].name =>
          \/ NumberedFormOf(given[i].source, given[j].source)
          \/ NumberedFormOf(given[j].source, given[i].source)

\* No endpoint takes the name of a client function, and no schema that of a
\* primitive type.
PreclaimedNamesKept ==
  /\ \A i \in DOMAIN endpointNames : endpointNames[i].name \notin ClientFunctions
  /\ \A i \in DOMAIN typeNames : typeNames[i].name \notin Primitives

\* Together: no name is one that the languages or the library have taken.
NamesAllowed == NamesArePortable /\ PreclaimedNamesKept

\* ARCHITECTURE.md names "name canonicalization/collision checks" among the
\* transformations: no identifier is declared twice in one C scope.
NoCollision == IsInjective(FileScope) /\ IsInjective(StructMembers)
=============================================================================
