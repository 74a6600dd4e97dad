----------------------------- MODULE NameScope -----------------------------
(***************************************************************************)
(* How the code generator makes identifiers (compiler/naming/naming.cpp):  *)
(* canonical_identifier turns a name of the API description into words     *)
(* joined by '_', and NameScope::claim numbers the second and later claims *)
(* of the same identifier.                                                 *)
(*                                                                         *)
(* An identifier is the sequence of its words: joining with '_' loses      *)
(* nothing, a word has no '_' in it.  A name of the description is the     *)
(* sequence of words that the scan finds in it, whatever separated them or *)
(* in which case they were written, and its spelling.                      *)
(***************************************************************************)
EXTENDS Naturals, Sequences

CONSTANTS
  Word,        \* lower-case words of letters and digits
  DigitWord,   \* those that begin with a digit
  Keyword,     \* the identifiers that are C or C++ keywords
  Numeral(_),  \* std::to_string of a count, as a word
  MaxClaims    \* bound: claims in one scope

ASSUME WordAssumption ==
  /\ DigitWord \subseteq Word
  /\ {"unnamed", "n", "sdk"} \subseteq Word \ DigitWord
  /\ MaxClaims \in Nat
  /\ \A n \in 1..MaxClaims : Numeral(n) \in DigitWord
  /\ \A m, n \in 1..MaxClaims : Numeral(m) = Numeral(n) => m = n

\* Read off the two keyword tables.
ASSUME KeywordAssumption ==
  \A k \in Keyword :
    /\ k \in Seq(Word) /\ k # <<>>
    /\ k[1] \notin DigitWord \cup {"sdk", "n", "unnamed"}
    /\ k[Len(k)] \notin DigitWord

-----------------------------------------------------------------------------
\* canonical_identifier.
Canonical(source) ==
  LET named  == IF source.words = <<>> THEN <<"unnamed">> ELSE source.words
      letter == IF named[1] \in DigitWord THEN <<"n">> \o named ELSE named
  IN  IF letter \in Keyword THEN <<"sdk">> \o letter ELSE letter

\* How often an identifier was claimed in a scope, which maps the claimed
\* identifiers to their counts.
Claimed(scope, base) == IF base \in DOMAIN scope THEN scope[base] ELSE 0

EmptyScope == [base \in {} |-> 0]

\* Mutant: the second claim of an identifier is not noticed.
ClaimUnnumbered(scope, base) == base

\* What NameScope::claim returns for a name with this canonical identifier.
Claim(scope, base) ==
  IF base \in DOMAIN scope THEN Append(base, Numeral(scope[base] + 1)) ELSE base

\* The scope after that claim: only the canonical identifier is recorded, not
\* the numbered one that was returned.
AfterClaim(scope, base) ==
  [b \in DOMAIN scope \cup {base} |->
     IF b = base THEN Claimed(scope, base) + 1 ELSE scope[b]]
=============================================================================
