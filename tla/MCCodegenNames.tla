--------------------------- MODULE MCCodegenNames ---------------------------
(***************************************************************************)
(* An instance of CodegenNames for TLC.                                    *)
(***************************************************************************)
EXTENDS CodegenNames

MCWord ==
  {"unnamed", "n", "sdk", "string", "integer", "boolean", "client", "create",
   "destroy", "x", "static", "assert", "1", "2", "3", "4"}

MCDigitWord == {"1", "2", "3", "4"}

MCKeyword == {<<"static">>, <<"static", "assert">>}

MCNumeral(n) == ToString(n)

\* Two spellings of one identifier, its numbered form, nothing but separators,
\* a keyword, a digit in front, and the names that are claimed beforehand.
MCSource ==
  {[words |-> <<"x">>, spelling |-> "x"],
   [words |-> <<"x">>, spelling |-> "-x"],
   [words |-> <<"x", "2">>, spelling |-> "x-2"],
   [words |-> <<>>, spelling |-> "--"],
   [words |-> <<"static">>, spelling |-> "static"],
   [words |-> <<"static", "assert">>, spelling |-> "staticAssert"],
   [words |-> <<"2">>, spelling |-> "2"],
   [words |-> <<"client", "create">>, spelling |-> "clientCreate"],
   [words |-> <<"string">>, spelling |-> "String"]}
=============================================================================
